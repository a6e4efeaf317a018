------------------------------- MODULE DaemonProofs -------------------------------
(***************************************************************************)
(* The safety of the daemon, for every choice of backends and extensions   *)
(* and any number of processes, failures and kills.                        *)
(*                                                                         *)
(* One induction over DInv: what the life of the process, the segment and  *)
(* its upload, and the request of a restore_command know of each other     *)
(* between two steps.                                                      *)
(***************************************************************************)
EXTENDS Daemon, TLAPS

-----------------------------------------------------------------------------
(***************************************************************************)
(* The process.  A failure that is not yet reported sits in its goroutine, *)
(* in the channel, or is the reason of the shutdown; and nothing but a     *)
(* signal or a failure cancels the context.                                *)
(***************************************************************************)
Quiet == ~fatalErrCh /\ \A c \in AllComponents : comp[c] \notin {"send", "cancel"}

LifeInv ==
    /\ result # "none" => mpc = "returned"
    /\ mpc \in {"off", "config", "init"} =>
         comp = NoComponents /\ failed = {} /\ ~fatalErrCh /\ runErr = "none"
    /\ mpc = "returned" => comp = NoComponents
    /\ mpc = "select" => runErr = "none"
    /\ \A c \in AllComponents : comp[c] # "off" => c \in Components(mode)
    /\ Up /\ failed # {} =>
         \/ \E c \in AllComponents : comp[c] = "send"
         \/ fatalErrCh \/ runErr = "fatal"
    /\ Up /\ failed = {} => Quiet
    /\ mpc \in {"init", "select", "wait"} /\ ~signalled /\ failed = {} => ~ctxDone
    /\ mpc = "config" => ~ctxDone
    /\ FatalIsReturned
    /\ ReceivingGoesOn

(***************************************************************************)
(* The segment.  What is being uploaded is in the directory until it is    *)
(* whole in the storage, and a torn variant is one the running process     *)
(* writes from a file it still has, or was found at a start.               *)
(***************************************************************************)
FileInv ==
    /\ mpc \in {"config", "init"} => up.st = "none"
    /\ up.st = "put" /\ up.what = "complete" => local = "complete"
    /\ up.st = "remove" /\ up.what = "complete" => arch[conf.ext] = "whole"
    /\ ~leftover => \A e \in Exts : arch[e] = "torn" => e = conf.ext /\ local = "complete"
    /\ completed /\ ~again => local # "partial"
    /\ CompletedIsAvailable

(***************************************************************************)
(* The request.  Once it has missed the segment in the directory the       *)
(* segment is in the storage, and stays there.                             *)
(***************************************************************************)
RequestPcs == {"idle", "complete", "open", "partial", "openPartial", "storage", "copy", "done"}
RequestInv ==
    /\ rd \in [pc: RequestPcs, ext: Exts, failed: BOOLEAN,
               res: {"none", "whole", "partial", "short", "missing", "error"}]
    /\ rd.pc # "idle" => completed
    /\ rd.pc \in {"partial", "storage", "copy"} /\ ~again => local = "none"
    /\ rd.pc = "openPartial" => again
    /\ rd.pc = "copy" /\ ~again /\ ~leftover => arch[rd.ext] = "whole"
    /\ CompletedIsServed

\* The configuration: what validate makes sure of, and what the set-up does.
ConfInv ==
    /\ ~conf.plain /\ conf.works
    /\ Up => conf.backend = backend

DInv == DaemonTypeOK /\ ConfInv /\ LifeInv /\ FileInv /\ RequestInv

-----------------------------------------------------------------------------
(***************************************************************************)
(* The configuration.                                                      *)
(***************************************************************************)
LEMMA Sextuple ==
    ASSUME NEW a, NEW b, NEW c, NEW d, NEW e, NEW f, NEW s, s = <<a, b, c, d, e, f>>
    PROVE  /\ DOMAIN s = 1..6 /\ {a, b, c, d, e, f} = {s[i] : i \in DOMAIN s}
  OBVIOUS

LEMMA Supported ==
    /\ DOMAIN supportedExts = 1..6
    /\ Exts = {Ext("gzip", TRUE), Ext("zstd", TRUE), Ext("gzip", FALSE),
               Ext("zstd", FALSE), Ext("", TRUE), Plain}
<1> DEFINE a == Ext("gzip", TRUE)  b == Ext("zstd", TRUE)  c == Ext("gzip", FALSE)
           d == Ext("zstd", FALSE) e == Ext("", TRUE)
<1>1. supportedExts = <<a, b, c, d, e, Plain>>
  BY Zenon DEF supportedExts
<1> HIDE DEF a, b, c, d, e
<1>2. /\ DOMAIN supportedExts = 1..6
      /\ {a, b, c, d, e, Plain} = {supportedExts[i] : i \in DOMAIN supportedExts}
  BY <1>1, Sextuple
<1> QED
  BY <1>2, Zenon DEF Exts, a, b, c, d, e

\* Every combination of a known compression and encryption is an extension.
LEMMA ExtsAreAll ==
    ASSUME NEW c \in {"", "gzip", "zstd"}, NEW a \in BOOLEAN
    PROVE  Ext(c, a) \in Exts
  BY Supported, Zenon DEF Plain

LEMMA PlainIsExt == Plain \in Exts
  BY ExtsAreAll DEF Plain

\* What validate accepts is stored as it asks, under an extension of the storage, and
\* has no zero where a number is needed.
LEMMA AcceptedWorks ==
    ASSUME NEW md, NEW c \in validate(md)
    PROVE  ~c.plain /\ c.works /\ c.ext \in Exts
<1>1. c \in Accepted("receive") \/ c \in Accepted("serve")
  BY DEF validate, acceptedReceive, acceptedServe
<1>2. PICK r \in ReceiverConfigs, s \in StorageConfigs, t \in RetentionConfigs, cron \in Crons :
        /\ c = Use(r, s, t, cron)
        /\ checkStorageConfig(s) /\ checkStorageModifiersConfig(s)
        /\ checkRetentionConfig(t)
  BY <1>1 DEF Accepted
<1>3. c.ext = getWriteExt(s) /\ c.ext \in Exts
  <2>1. getWriteExt(s) = Ext(s.compression, s.encryption = "aes-256-gcm")
    BY <1>2 DEF getWriteExt, checkStorageModifiersConfig, Ext
  <2>2. s.compression \in {"", "gzip", "zstd"}
    BY <1>2 DEF checkStorageModifiersConfig
  <2> QED
    BY <1>2, <2>1, <2>2, ExtsAreAll DEF Use
<1>4. ~c.plain
  BY <1>2 DEF Use, getWriteExt, checkStorageModifiersConfig, StorageConfigs
<1>5. c.works
  <2>1. uploadInterval(r) > 0 /\ workerCount(r) > 0
    BY DEF uploadInterval, workerCount, ReceiverConfigs, Unparsable
  <2>2. t.enable => t.value > 0 /\ (t.keep_last # Nil => t.keep_last > 0)
    BY <1>2, Zenon DEF checkRetentionConfig
  <2>3. Nil # 0 /\ ~(0 > 0)
    BY DEF Nil
  <2> QED
    BY <1>2, <2>1, <2>2, <2>3, Zenon DEF Use
<1> QED
  BY <1>3, <1>4, <1>5

\* The lookup finds a variant when there is one.
LEMMA FoundExists ==
    ASSUME NEW obj \in [Exts -> {"none", "torn", "whole"}], Exists(obj)
    PROVE  findExistingName(obj) \in Exts /\ obj[findExistingName(obj)] # "none"
<1> DEFINE There(i) == obj[supportedExts[i]] # "none"
           First(i) == There(i) /\ \A j \in 1..(i - 1) : ~There(j)
<1>1. DOMAIN supportedExts = 1..6
  BY Supported
<1>2. \E i \in 1..6 : There(i)
  BY <1>1 DEF Exists, Exts
<1>3. \E i \in 1..6 : First(i)
  <2> HIDE DEF There
  <2> QED
    BY <1>2
<1>4. PICK k \in 1..6 : /\ First(k)
                        /\ findExistingName(obj) = supportedExts[k]
  <2> DEFINE k == CHOOSE i \in DOMAIN supportedExts :
               /\ obj[supportedExts[i]] # "none"
               /\ \A j \in 1..(i - 1) : obj[supportedExts[j]] = "none"
  <2>1. k \in 1..6 /\ First(k)
    BY <1>1, <1>3
  <2>2. findExistingName(obj) = supportedExts[k]
    BY DEF findExistingName
  <2> QED
    BY <2>1, <2>2
<1> QED
  BY <1>1, <1>4 DEF Exts

-----------------------------------------------------------------------------
USE DEF lifeVars, fileVars, envVars, Up, NoUpload, Request, Answer, Fault

(***************************************************************************)
(* The steps that leave the process alone.                                 *)
(***************************************************************************)
LEMMA LifeFrame ==
    ASSUME LifeInv, UNCHANGED lifeVars
    PROVE  LifeInv'
  BY DEF LifeInv, FatalIsReturned, ReceivingGoesOn, Quiet

\* The process: one step of the main goroutine or of a component.
LEMMA LifeStep ==
    ASSUME DInv, ProcessStep
    PROVE  LifeInv'
<1> USE DEF DInv, LifeInv, DaemonTypeOK, FatalIsReturned, ReceivingGoesOn, Quiet,
            Components, Critical, AllComponents, Modes
<1>1. CASE StartProcess
  BY <1>1 DEF StartProcess, Fresh, NoComponents
<1>2. CASE LoadConfig
  BY <1>2 DEF LoadConfig
<1>3. CASE ConfigRefused
  BY <1>3 DEF ConfigRefused, NoComponents
<1>4. CASE SetUp
  <2>1. CASE StartComponents
    BY <1>4, <2>1 DEF StartComponents, NoComponents
  <2>2. CASE StartFails
    BY <1>4, <2>2 DEF StartFails, NoComponents
  <2> QED
    BY <1>4, <2>1, <2>2 DEF SetUp
<1>5. CASE Fails
  BY <1>5 DEF Fails, ComponentFails
<1>6. CASE Interrupt
  BY <1>6 DEF Interrupt, Signal
<1>7. CASE Main
  <2>1. CASE Select
    BY <1>7, <2>1 DEF Main, Select
  <2>2. CASE ShutdownTimeout
    BY <1>7, <2>2 DEF Main, ShutdownTimeout, Returns, NoComponents
  <2>3. CASE Return
    <3>1. fatalErrCh \/ runErr = "fatal" \/ failed = {}
      BY <2>3 DEF Return, AllDown
    <3> QED
      BY <1>7, <2>3, <3>1 DEF Main, Return, Returns, NoComponents
  <2> QED
    BY <1>7, <2>1, <2>2, <2>3 DEF Main, MainStep
<1>8. CASE Kill
  BY <1>8 DEF Kill, Fresh, NoComponents
<1>9. ASSUME NEW c \in AllComponents, Stops(c)
      PROVE  LifeInv'
  BY <1>9 DEF Stops, ComponentStops
<1>10. ASSUME NEW c \in AllComponents, Reports(c)
       PROVE  LifeInv'
  BY <1>10 DEF Reports, SendFatalErr, CancelCtx
<1> QED
  BY <1>1, <1>2, <1>3, <1>4, <1>5, <1>6, <1>7, <1>8, <1>9, <1>10, Zenon DEF ProcessStep

-----------------------------------------------------------------------------
(***************************************************************************)
(* The segment.  The steps of the process do not touch it, but they may    *)
(* end an upload, and a configuration may change which variant is written. *)
(***************************************************************************)
LEMMA FileProcessStep ==
    ASSUME DInv, ProcessStep
    PROVE  FileInv'
<1> USE DEF DInv, FileInv, CompletedIsAvailable
<1>1. CASE StartProcess
  BY <1>1 DEF StartProcess, Fresh
<1>2. CASE LoadConfig
  BY <1>2 DEF LoadConfig
<1>3. CASE ConfigRefused
  BY <1>3 DEF ConfigRefused
<1>4. CASE SetUp
  BY <1>4 DEF SetUp, StartComponents, StartFails
<1>5. CASE Fails
  BY <1>5 DEF Fails, ComponentFails
<1>6. CASE Interrupt
  BY <1>6 DEF Interrupt, Signal
<1>7. CASE Main
  BY <1>7 DEF Main, MainStep, Select, ShutdownTimeout, Return, Returns
<1>8. CASE Kill
  BY <1>8 DEF Kill, Fresh
<1>9. ASSUME NEW c \in AllComponents, Stops(c)
      PROVE  FileInv'
  BY <1>9 DEF Stops, ComponentStops
<1>10. ASSUME NEW c \in AllComponents, Reports(c)
       PROVE  FileInv'
  BY <1>10 DEF Reports, SendFatalErr, CancelCtx
<1> QED
  BY <1>1, <1>2, <1>3, <1>4, <1>5, <1>6, <1>7, <1>8, <1>9, <1>10, Zenon DEF ProcessStep

LEMMA FileReceiverStep ==
    ASSUME DInv, ReceiverStep
    PROVE  FileInv'
<1> USE DEF DInv, FileInv, CompletedIsAvailable, DaemonTypeOK
<1>1. CASE ReceiveBegin
  BY <1>1 DEF ReceiveBegin
<1>2. CASE ReceiveLater
  BY <1>2 DEF ReceiveLater
<1>3. CASE ReceiveComplete
  BY <1>3 DEF ReceiveComplete
<1>4. CASE ReceiveRestart
  BY <1>4 DEF ReceiveRestart
<1> QED
  BY <1>1, <1>2, <1>3, <1>4 DEF ReceiverStep

\* A file is removed only when its variant is whole, and torn only while it is there.
LEMMA FileUploadStep ==
    ASSUME DInv, UploadStep
    PROVE  FileInv'
<1> USE DEF DInv, FileInv, CompletedIsAvailable, DaemonTypeOK, Archiving
<1>1. CASE UploadBegin
  BY <1>1 DEF UploadBegin, PutBegins
<1>2. CASE UploadEnds
  BY <1>2 DEF UploadEnds, PutEnds
<1>3. CASE UploadFails
  BY <1>3 DEF UploadFails
<1>4. CASE RemoveLocal
  BY <1>4 DEF RemoveLocal
<1> QED
  BY <1>1, <1>2, <1>3, <1>4 DEF UploadStep

LEMMA FileFrame ==
    ASSUME FileInv, UNCHANGED <<lifeVars, fileVars, conf>>
    PROVE  FileInv'
  BY DEF FileInv, CompletedIsAvailable

-----------------------------------------------------------------------------
(***************************************************************************)
(* The request: what it has found does not go away under it, but by the    *)
(* steps that receive the segment again or leave a torn variant behind.    *)
(***************************************************************************)
LEMMA RequestProcessStep ==
    ASSUME DInv, ProcessStep
    PROVE  RequestInv'
<1>1. UNCHANGED <<rd, completed, again, local, arch>> /\ (leftover => leftover')
  BY DEF ProcessStep, StartProcess, LoadConfig, ConfigRefused, SetUp, Fails, Interrupt, Main,
         Kill, Stops, Reports, DInv, DaemonTypeOK
<1> QED
  BY <1>1 DEF DInv, RequestInv, CompletedIsServed

LEMMA RequestReceiverStep ==
    ASSUME DInv, ReceiverStep
    PROVE  RequestInv'
  BY DEF DInv, RequestInv, CompletedIsServed, FileInv, DaemonTypeOK, ReceiverStep, ReceiveBegin,
         ReceiveLater, ReceiveComplete, ReceiveRestart

LEMMA RequestUploadStep ==
    ASSUME DInv, UploadStep
    PROVE  RequestInv'
<1> USE DEF DInv, RequestInv, CompletedIsServed, FileInv, DaemonTypeOK
<1>1. CASE UploadBegin
  BY <1>1 DEF UploadBegin, PutBegins
<1>2. CASE UploadEnds
  BY <1>2 DEF UploadEnds, PutEnds
<1>3. CASE UploadFails
  BY <1>3 DEF UploadFails
<1>4. CASE RemoveLocal
  BY <1>4 DEF RemoveLocal
<1> QED
  BY <1>1, <1>2, <1>3, <1>4 DEF UploadStep

LEMMA Answered ==
    ASSUME DInv, UNCHANGED fileVars, completed,
           NEW r \in {"none", "whole", "partial", "short", "missing", "error"},
           NEW f \in BOOLEAN,
           rd' = [pc |-> "done", ext |-> Plain, res |-> r, failed |-> f],
           f = TRUE \/ again \/ leftover \/ r \in {"whole", "error"}
    PROVE  RequestInv'
  BY PlainIsExt DEF DInv, RequestInv, RequestPcs, CompletedIsServed

LEMMA RequestServeStep ==
    ASSUME DInv, ServeStep
    PROVE  RequestInv'
<1> USE DEF DInv, RequestInv, RequestPcs, CompletedIsServed, FileInv, DaemonTypeOK
<1>1. CASE RequestWal
  BY <1>1, PlainIsExt DEF RequestWal
<1>2. CASE FindLocal
  BY <1>2 DEF FindLocal
<1>3. CASE OpenLocal
  BY <1>3, PlainIsExt DEF OpenLocal
<1>4. CASE FindPartial
  BY <1>4 DEF FindPartial
<1>5. CASE OpenPartial
  BY <1>5, PlainIsExt DEF OpenPartial
<1>6. CASE GetStored
  <2>1. CASE Exists(arch)
    <3>1. rd' = [rd EXCEPT !.pc = "copy", !.ext = findExistingName(arch)]
      BY <1>6, <2>1 DEF GetStored
    <3>2. rd'.pc = "copy" /\ rd'.ext = findExistingName(arch) /\ rd'.res = rd.res
      BY <3>1
    <3>3. findExistingName(arch) \in Exts /\ arch[findExistingName(arch)] # "none"
      BY <2>1, FoundExists
    <3>4. ~again /\ ~leftover => arch[findExistingName(arch)] = "whole"
      BY <1>6, <3>3 DEF GetStored
    <3> QED
      BY <1>6, <3>1, <3>2, <3>3, <3>4 DEF GetStored
  <2>2. CASE ~Exists(arch)
    <3>1. again
      BY <1>6, <2>2 DEF GetStored, Exists, CompletedIsAvailable
    <3> QED
      BY <1>6, <2>2, <3>1, Answered DEF GetStored
  <2> QED
    BY <2>1, <2>2
<1>7. CASE Copy
  <2>1. again \/ leftover \/ arch[rd.ext] = "whole"
    BY <1>7 DEF Copy
  <2>2. CASE arch[rd.ext] = "whole"
    BY <1>7, <2>2, Answered DEF Copy
  <2>3. CASE arch[rd.ext] # "whole"
    BY <1>7, <2>1, <2>3, Answered DEF Copy
  <2> QED
    BY <2>2, <2>3
<1>8. CASE CopyFails
  <2>1. PICK res \in {"error", "short"} :
          rd' = [Request("done", res) EXCEPT !.failed = TRUE]
    BY <1>8 DEF CopyFails
  <2>2. rd' = [pc |-> "done", ext |-> Plain, res |-> res, failed |-> TRUE]
    BY <2>1
  <2> QED
    BY <1>8, <2>2, Answered DEF CopyFails
<1> QED
  BY <1>1, <1>2, <1>3, <1>4, <1>5, <1>6, <1>7, <1>8 DEF ServeStep

LEMMA RequestFrame ==
    ASSUME RequestInv, UNCHANGED <<fileVars, rd>>
    PROVE  RequestInv'
  BY DEF RequestInv, CompletedIsServed

-----------------------------------------------------------------------------
(***************************************************************************)
(* The types, and the configuration in use.                                *)
(***************************************************************************)
LifeType ==
    /\ mode \in Modes /\ mpc \in {"off", "config", "init", "select", "wait", "returned"}
    /\ comp \in [AllComponents -> {"off", "run", "send", "cancel", "down"}]
    /\ fatalErrCh \in BOOLEAN /\ ctxDone \in BOOLEAN /\ signalled \in BOOLEAN
    /\ failed \subseteq Critical(mode) /\ runErr \in {"none", "canceled", "fatal"}
    /\ result \in {"none", "nil", "error", "timeout"}

SegmentType ==
    /\ local \in {"none", "partial", "complete"} /\ arch \in [Exts -> {"none", "torn", "whole"}]
    /\ rcv \in {"before", "on", "after"}
    /\ up \in [st: {"none", "put", "remove"}, what: {"none", "partial", "complete"}]
    /\ {completed, again, leftover} \subseteq BOOLEAN
    /\ rcv = "on" => local # "complete"
    /\ up.st # "none" => mode = "receive"

OtherType ==
    /\ backend \in Backends /\ conf.ext \in Exts
    /\ rd.pc \in RequestPcs
    /\ rd.res \in {"none", "whole", "partial", "short", "missing", "error"}
    /\ starts \in 0..MaxStarts /\ faults \in 0..MaxFaults
    /\ ConfInv

LEMMA TypeParts ==
    DaemonTypeOK /\ ConfInv <=> LifeType /\ SegmentType /\ OtherType
  BY DEF DaemonTypeOK, LifeType, SegmentType, OtherType, RequestPcs

LEMMA LifeTypeStep ==
    ASSUME LifeType, ProcessStep
    PROVE  LifeType'
<1> USE DEF LifeType, Critical, Modes
<1>1. CASE StartProcess
  BY <1>1 DEF StartProcess, Fresh, NoComponents
<1>2. CASE LoadConfig
  BY <1>2 DEF LoadConfig
<1>3. CASE ConfigRefused
  BY <1>3 DEF ConfigRefused
<1>4. CASE SetUp
  BY <1>4 DEF SetUp, StartComponents, StartFails
<1>5. CASE Fails
  BY <1>5 DEF Fails, ComponentFails
<1>6. CASE Interrupt
  BY <1>6 DEF Interrupt, Signal
<1>7. CASE Main
  BY <1>7 DEF Main, MainStep, Select, ShutdownTimeout, Return, Returns, NoComponents
<1>8. CASE Kill
  BY <1>8 DEF Kill, Fresh, NoComponents
<1>9. ASSUME NEW c \in AllComponents, Stops(c)
      PROVE  LifeType'
  BY <1>9 DEF Stops, ComponentStops
<1>10. ASSUME NEW c \in AllComponents, Reports(c)
       PROVE  LifeType'
  BY <1>10 DEF Reports, SendFatalErr, CancelCtx
<1> QED
  BY <1>1, <1>2, <1>3, <1>4, <1>5, <1>6, <1>7, <1>8, <1>9, <1>10, Zenon DEF ProcessStep

LEMMA OtherTypeStep ==
    ASSUME LifeType, SegmentType, OtherType, ProcessStep
    PROVE  SegmentType' /\ OtherType'
<1> USE DaemonAssumption DEF SegmentType, OtherType, ConfInv
<1>1. CASE StartProcess
  BY <1>1 DEF StartProcess, Fresh
<1>2. CASE LoadConfig
  <2>1. PICK c \in validate(mode) : conf' = c
    BY <1>2 DEF LoadConfig
  <2>2. ~c.plain /\ c.works /\ c.ext \in Exts
    BY AcceptedWorks
  <2>3. leftover' \in BOOLEAN
    BY <1>2 DEF LoadConfig
  <2> QED
    BY <1>2, <2>1, <2>2, <2>3 DEF LoadConfig
<1>3. CASE ConfigRefused
  BY <1>3 DEF ConfigRefused
<1>4. CASE SetUp
  BY <1>4 DEF SetUp, StartComponents, StartFails
<1>5. CASE Fails
  BY <1>5 DEF Fails, ComponentFails
<1>6. CASE Interrupt
  BY <1>6 DEF Interrupt, Signal
<1>7. CASE Main
  BY <1>7 DEF Main, MainStep, Select, ShutdownTimeout, Return, Returns
<1>8. CASE Kill
  BY <1>8 DEF Kill
<1>9. ASSUME NEW c \in AllComponents, Stops(c)
      PROVE  SegmentType' /\ OtherType'
  BY <1>9 DEF Stops, ComponentStops
<1>10. ASSUME NEW c \in AllComponents, Reports(c)
       PROVE  SegmentType' /\ OtherType'
  BY <1>10 DEF Reports, SendFatalErr, CancelCtx
<1> QED
  BY <1>1, <1>2, <1>3, <1>4, <1>5, <1>6, <1>7, <1>8, <1>9, <1>10, Zenon DEF ProcessStep

LEMMA TypeProcessStep ==
    ASSUME DInv, ProcessStep
    PROVE  DaemonTypeOK' /\ ConfInv'
<1>1. LifeType /\ SegmentType /\ OtherType
  BY TypeParts DEF DInv
<1>2. LifeType' /\ SegmentType' /\ OtherType'
  BY <1>1, LifeTypeStep, OtherTypeStep
<1>3. (DaemonTypeOK /\ ConfInv <=> LifeType /\ SegmentType /\ OtherType)'
  BY TypeParts, PTL
<1> QED
  BY <1>2, <1>3

LEMMA TypeReceiverStep ==
    ASSUME DInv, ReceiverStep
    PROVE  DaemonTypeOK' /\ ConfInv'
<1> USE DaemonAssumption DEF DInv, DaemonTypeOK, ConfInv
<1>1. CASE ReceiveBegin
  BY <1>1 DEF ReceiveBegin
<1>2. CASE ReceiveLater
  BY <1>2 DEF ReceiveLater
<1>3. CASE ReceiveComplete
  BY <1>3 DEF ReceiveComplete
<1>4. CASE ReceiveRestart
  BY <1>4 DEF ReceiveRestart
<1> QED
  BY <1>1, <1>2, <1>3, <1>4 DEF ReceiverStep

LEMMA TypeUploadStep ==
    ASSUME DInv, UploadStep
    PROVE  DaemonTypeOK' /\ ConfInv'
<1> USE DaemonAssumption DEF DInv, DaemonTypeOK, ConfInv
<1>1. CASE UploadBegin
  <2>1. mode = "receive"
    BY <1>1 DEF UploadBegin, Archiving, LifeInv, AllComponents, Components, Modes
  <2> QED
    BY <1>1, <2>1 DEF UploadBegin, PutBegins
<1>2. CASE UploadEnds
  BY <1>2 DEF UploadEnds, PutEnds
<1>3. CASE UploadFails
  BY <1>3 DEF UploadFails
<1>4. CASE RemoveLocal
  BY <1>4 DEF RemoveLocal
<1> QED
  BY <1>1, <1>2, <1>3, <1>4 DEF UploadStep

LEMMA TypeServeStep ==
    ASSUME DInv, ServeStep
    PROVE  DaemonTypeOK' /\ ConfInv'
<1>1. UNCHANGED <<lifeVars, fileVars, backend, conf, starts>> /\ faults' \in 0..MaxFaults
  BY DaemonAssumption
  DEF DInv, DaemonTypeOK, ServeStep, RequestWal, FindLocal, OpenLocal, FindPartial, OpenPartial,
      GetStored, Copy, CopyFails
<1>2. RequestInv'
  BY RequestServeStep
<1> QED
  BY <1>1, <1>2 DEF DInv, DaemonTypeOK, ConfInv, RequestInv, RequestPcs

-----------------------------------------------------------------------------
(***************************************************************************)
(* The induction.                                                          *)
(***************************************************************************)
LEMMA DInvInit == Init => DInv
<1> SUFFICES ASSUME Init PROVE DInv
  OBVIOUS
<1> USE DaemonAssumption, PlainIsExt DEF Init, LifeInit
<1>1. DaemonTypeOK /\ ConfInv
  <2>1. LifeType
    BY DEF LifeType, Modes, NoComponents, Critical
  <2>2. SegmentType
    BY DEF SegmentType, NoVariant
  <2>3. conf.backend = backend /\ conf.ext = Plain /\ conf.plain = FALSE /\ conf.works = TRUE
    BY Zenon
  <2>4. ConfInv
    BY <2>3, Zenon DEF ConfInv
  <2>5. OtherType
    BY <2>3, <2>4 DEF OtherType, RequestPcs
  <2> QED
    BY <2>1, <2>2, <2>5, TypeParts
<1>2. LifeInv
  BY DEF LifeInv, NoComponents, AllComponents, Components, Quiet, FatalIsReturned, ReceivingGoesOn
<1>3. FileInv /\ RequestInv
  BY DEF FileInv, CompletedIsAvailable, RequestInv, RequestPcs, CompletedIsServed, NoVariant
<1> QED
  BY <1>1, <1>2, <1>3 DEF DInv

LEMMA DInvNext == DInv /\ [Next]_vars => DInv'
<1> SUFFICES ASSUME DInv, [Next]_vars PROVE DInv'
  OBVIOUS
<1>1. CASE ProcessStep
  BY <1>1, TypeProcessStep, LifeStep, FileProcessStep, RequestProcessStep DEF DInv
<1>2. CASE ReceiverStep
  <2>1. UNCHANGED lifeVars
    BY <1>2 DEF ReceiverStep, ReceiveBegin, ReceiveLater, ReceiveComplete, ReceiveRestart
  <2> QED
    BY <1>2, <2>1, TypeReceiverStep, LifeFrame, FileReceiverStep, RequestReceiverStep DEF DInv
<1>3. CASE UploadStep
  <2>1. UNCHANGED lifeVars
    BY <1>3 DEF UploadStep, UploadBegin, UploadEnds, UploadFails, RemoveLocal
  <2> QED
    BY <1>3, <2>1, TypeUploadStep, LifeFrame, FileUploadStep, RequestUploadStep DEF DInv
<1>4. CASE ServeStep
  <2>1. UNCHANGED <<lifeVars, fileVars, conf>>
    BY <1>4 DEF ServeStep, RequestWal, FindLocal, OpenLocal, FindPartial, OpenPartial,
                GetStored, Copy, CopyFails
  <2> QED
    BY <1>4, <2>1, TypeServeStep, LifeFrame, FileFrame, RequestServeStep DEF DInv
<1>5. CASE UNCHANGED vars
  <2>1. DaemonTypeOK' /\ ConfInv'
    BY <1>5 DEF vars, DInv, DaemonTypeOK, ConfInv
  <2> QED
    BY <1>5, <2>1, LifeFrame, FileFrame, RequestFrame DEF vars, DInv
<1> QED
  BY <1>1, <1>2, <1>3, <1>4, <1>5 DEF Next

\* DInv is inductive.
THEOREM DaemonInvariant == Spec => []DInv
<1> QED
  BY DInvInit, DInvNext, PTL DEF Spec

\* The types, for any number of starts and failures.
THEOREM DaemonTyped == Spec => []DaemonTypeOK
<1>1. DInv => DaemonTypeOK
  BY DEF DInv
<1> QED
  BY <1>1, DaemonInvariant, PTL

(***************************************************************************)
(* A process that runs has the storage it was configured for, compresses   *)
(* and encrypts as it was asked to and works with positive intervals,      *)
(* workers and retention: what validate does not see is refused by the     *)
(* set-up.  (That everything validate accepts can be set up is false.)     *)
(***************************************************************************)
THEOREM RunningAsConfigured == Spec => []RunsAsConfigured
<1>1. DInv => RunsAsConfigured
  BY DEF DInv, ConfInv, RunsAsConfigured
<1> QED
  BY <1>1, DaemonInvariant, PTL

(***************************************************************************)
(* A segment that was complete once is whole in the directory or in the    *)
(* storage after any number of failed uploads, kills and restarts with     *)
(* other extensions.                                                       *)
(***************************************************************************)
THEOREM SegmentStays == Spec => []CompletedIsAvailable
<1>1. DInv => CompletedIsAvailable
  BY DEF DInv, FileInv
<1> QED
  BY <1>1, DaemonInvariant, PTL

(***************************************************************************)
(* A restore_command that asks for it is answered with the whole segment   *)
(* or with an error, whatever the uploader does between its steps.         *)
(***************************************************************************)
THEOREM SegmentIsServed == Spec => []CompletedIsServed
<1>1. DInv => CompletedIsServed
  BY DEF DInv, RequestInv
<1> QED
  BY <1>1, DaemonInvariant, PTL

(***************************************************************************)
(* The daemon returns the failure of a critical component, also one that   *)
(* comes while the others are shutting down.                               *)
(***************************************************************************)
THEOREM FailuresAreReturned == Spec => []FatalIsReturned
<1>1. DInv => FatalIsReturned
  BY DEF DInv, LifeInv
<1> QED
  BY <1>1, DaemonInvariant, PTL

(***************************************************************************)
(* Receive mode goes on until a signal or the failure of the receiver or   *)
(* of the archive supervisor.                                              *)
(***************************************************************************)
THEOREM ReceiveModeGoesOn == Spec => []ReceivingGoesOn
<1>1. DInv => ReceivingGoesOn
  BY DEF DInv, LifeInv
<1> QED
  BY <1>1, DaemonInvariant, PTL
-----------------------------------------------------------------------------
(***************************************************************************)
(* The refinement of SegmentLife.                                          *)
(***************************************************************************)
\* A step of the segment is given by what it does to the mapped state.
LEMMA MappedStep ==
    ASSUME \/ LifeOfSegment' = LifeOfSegment /\ StoredSegment' = StoredSegment
           \/ /\ LifeOfSegment = "absent" /\ LifeOfSegment' = "receiving"
              /\ StoredSegment' = StoredSegment
           \/ /\ LifeOfSegment = "receiving" /\ LifeOfSegment' \in {"absent", "complete"}
              /\ StoredSegment' = StoredSegment
           \/ /\ LifeOfSegment = "complete" /\ LifeOfSegment' = "complete"
              /\ StoredSegment' \in {"whole", "torn"}
           \/ /\ LifeOfSegment = "complete" /\ LifeOfSegment' = "absent"
              /\ StoredSegment = "whole" /\ StoredSegment' = "whole"
    PROVE  Segment!Next
<1>1. /\ [s \in {"wal"} |-> LifeOfSegment]["wal"] = LifeOfSegment
      /\ [s \in {"wal"} |-> LifeOfSegment]'["wal"] = LifeOfSegment'
      /\ [s \in {"wal"} |-> StoredSegment]["wal"] = StoredSegment
      /\ [s \in {"wal"} |-> StoredSegment]'["wal"] = StoredSegment'
  OBVIOUS
<1>2. \/ Segment!Begin("wal") \/ Segment!Discard("wal") \/ Segment!Finish("wal")
      \/ Segment!Store("wal") \/ Segment!Tear("wal") \/ Segment!Release("wal")
      \/ Segment!Rest("wal")
  BY <1>1 DEF Segment!Begin, Segment!Discard, Segment!Finish, Segment!Store, Segment!Tear,
              Segment!Release, Segment!Rest
<1> QED
  BY <1>2 DEF Segment!Next

\* Every step of the daemon is a step of the segment's life, or none.
LEMMA SegmentStep ==
    ASSUME DInv, [Next]_vars
    PROVE  Segment!Next
<1>0. ASSUME UNCHANGED <<local, arch>> PROVE Segment!Next
  <2>1. LifeOfSegment' = LifeOfSegment /\ StoredSegment' = StoredSegment
    BY <1>0 DEF LifeOfSegment, StoredSegment
  <2> QED
    BY <2>1, MappedStep
<1>s. UNCHANGED arch => StoredSegment' = StoredSegment
  BY DEF StoredSegment
<1>1. CASE ProcessStep
  BY <1>0, <1>1 DEF ProcessStep, StartProcess, LoadConfig, ConfigRefused, SetUp, Fails, Interrupt,
         Main, Kill, Stops, Reports
<1>2. CASE ReceiverStep
  <2>1. CASE ReceiveBegin
    <3>1. LifeOfSegment \in {"absent", "receiving"} /\ LifeOfSegment' = "receiving"
      BY <2>1 DEF ReceiveBegin, LifeOfSegment
    <3>2. StoredSegment' = StoredSegment
      BY <1>s, <2>1 DEF ReceiveBegin
    <3> QED
      BY <3>1, <3>2, MappedStep
  <2>2. CASE ReceiveComplete
    <3>1. LifeOfSegment = "receiving" /\ LifeOfSegment' = "complete"
      BY <2>2 DEF ReceiveComplete, LifeOfSegment
    <3>2. StoredSegment' = StoredSegment
      BY <1>s, <2>2 DEF ReceiveComplete
    <3> QED
      BY <3>1, <3>2, MappedStep
  <2> QED
    BY <1>0, <1>2, <2>1, <2>2 DEF ReceiverStep, ReceiveLater, ReceiveRestart
<1>3. CASE UploadStep
  <2>t. /\ local \in {"none", "partial", "complete"} /\ conf.ext \in Exts
        /\ arch \in [Exts -> {"none", "torn", "whole"}]
        /\ up.what \in {"none", "partial", "complete"}
    BY DEF DInv, DaemonTypeOK
  <2>1. ASSUME NEW v \in {"torn", "whole"}, arch' = [arch EXCEPT ![conf.ext] = v],
               local = "complete", local' = "complete"
        PROVE  Segment!Next
    <3>1. LifeOfSegment = "complete" /\ LifeOfSegment' = "complete"
      BY <2>1 DEF LifeOfSegment
    <3>2. arch'[conf.ext] = v
      BY <2>t, <2>1
    <3>3. StoredSegment' \in {"whole", "torn"}
      BY <2>t, <3>2 DEF StoredSegment
    <3> QED
      BY <3>1, <3>3, MappedStep
  <2>2. CASE UploadBegin
    <3>1. local' = local
      BY <2>2 DEF UploadBegin
    <3>2. \/ arch' = arch
          \/ arch' = [arch EXCEPT ![conf.ext] = "torn"] /\ local = "complete"
      BY <2>2 DEF UploadBegin, PutBegins
    <3> QED
      BY <1>0, <2>1, <3>1, <3>2
  <2>3. CASE UploadEnds
    <3>1. local' = local
      BY <2>3 DEF UploadEnds
    <3>2. \/ arch' = arch
          \/ arch' = [arch EXCEPT ![conf.ext] = "whole"] /\ local = "complete"
      BY <2>3 DEF UploadEnds, PutEnds, DInv, FileInv
    <3> QED
      BY <1>0, <2>1, <3>1, <3>2
  <2>4. CASE RemoveLocal
    <3>1. arch' = arch /\ StoredSegment' = StoredSegment
      BY <1>s, <2>4 DEF RemoveLocal
    <3>2. CASE local' = local
      BY <1>0, <3>1, <3>2
    <3>3. CASE local = "partial" /\ local' = "none"
      <4>1. LifeOfSegment = "receiving" /\ LifeOfSegment' = "absent"
        BY <3>3 DEF LifeOfSegment
      <4> QED
        BY <3>1, <4>1, MappedStep
    <3>4. CASE local = "complete" /\ local' = "none" /\ up.what = "complete"
      <4>1. LifeOfSegment = "complete" /\ LifeOfSegment' = "absent"
        BY <3>4 DEF LifeOfSegment
      <4>2. arch[conf.ext] = "whole"
        BY <2>4, <3>4 DEF RemoveLocal, DInv, FileInv
      <4>3. StoredSegment = "whole"
        BY <2>t, <4>2 DEF StoredSegment
      <4> QED
        BY <3>1, <4>1, <4>3, MappedStep
    <3> QED
      BY <2>t, <2>4, <3>2, <3>3, <3>4 DEF RemoveLocal
  <2> QED
    BY <1>0, <1>3, <2>2, <2>3, <2>4 DEF UploadStep, UploadFails
<1>4. CASE ServeStep
  BY <1>0, <1>4 DEF ServeStep, RequestWal, FindLocal, OpenLocal, FindPartial, OpenPartial,
         GetStored, Copy, CopyFails
<1>5. CASE UNCHANGED vars
  BY <1>0, <1>5 DEF vars
<1> QED
  BY <1>1, <1>2, <1>3, <1>4, <1>5 DEF Next

(***************************************************************************)
(* Whatever mode, backend and extension the processes run with, one after  *)
(* the other, the segment leads the life of SegmentLife: the file goes     *)
(* when the storage has a whole variant, and a variant is written over     *)
(* only while the file is there.                                           *)
(***************************************************************************)
THEOREM SegmentFollowsLife == Spec => DaemonImplementsLife
<1>1. Init => Segment!Init
  <2>1. ASSUME Init PROVE LifeOfSegment = "absent" /\ StoredSegment = "none"
    BY <2>1 DEF Init, LifeOfSegment, StoredSegment, NoVariant
  <2> QED
    BY <2>1 DEF Segment!Init
<1>2. DInv /\ [Next]_vars => Segment!Next
  BY SegmentStep
<1> QED
  BY <1>1, <1>2, DaemonInvariant, PTL DEF Spec, DaemonImplementsLife, Segment!Spec
=================================================================================
