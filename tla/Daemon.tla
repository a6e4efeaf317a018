---------------------------------- MODULE Daemon ----------------------------------
(***************************************************************************)
(* The daemon as a whole, seen from one WAL segment: a process is started  *)
(* with a mode and a configuration, receives the segment, archives it      *)
(* under the extension of that configuration and removes it; it is killed, *)
(* fails or is stopped, and started again with another configuration; and  *)
(* a serve process answers a restore_command for the segment all the time. *)
(*                                                                         *)
(* Abstractions.                                                           *)
(*  - The receiver and the archive supervisor are WalReceiver and          *)
(*    ArchiveSupervisor reduced to what one file goes through.             *)
(*  - The backend stays the same: what another backend holds is out of     *)
(*    sight.  local and sftp show unfinished objects, s3 does not.         *)
(*  - GetWalFile runs in a serve process that shares the directory and the *)
(*    storage; the life of that process is not followed a second time.     *)
(***************************************************************************)
EXTENDS Config, VariadicStorage, ReceiveMode

CONSTANTS
    Backends,     \* the backends to choose from, a subset of {"local", "sftp", "s3"}
    WriteExts,    \* bound: the extensions a process is followed with beyond its set-up
    MaxStarts,    \* bound: processes started
    MaxFaults     \* bound: failures and kills

ASSUME DaemonAssumption ==
    /\ Backends \subseteq {"local", "sftp", "s3"} /\ Backends # {}
    /\ WriteExts \subseteq Exts
    /\ MaxStarts \in Nat /\ MaxFaults \in Nat

VARIABLES
    backend,    \* the storage
    conf,       \* what the process makes of its configuration
    local,      \* the segment in the receive directory: none, partial or complete
    arch,       \* arch[e]: its variants in the storage
    rcv,        \* where the receiver is: before, on or after the segment
    up,         \* the upload of the segment
    completed,  \* history: the segment was complete once
    again,      \* history: it was received again after that
    leftover,   \* history: a process found a torn variant it does not write
    rd,         \* the request of a restore_command
    starts, faults

fileVars == <<local, arch, rcv, up, completed, again, leftover>>
envVars == <<backend, conf, starts, faults>>
vars == <<lifeVars, fileVars, envVars, rd>>

NoUpload == [st |-> "none", what |-> "none"]
Request(pc, res) == [pc |-> pc, ext |-> Plain, res |-> res, failed |-> FALSE]
Atomic == backend = "s3"
Fault == faults < MaxFaults /\ faults' = faults + 1

-----------------------------------------------------------------------------
(***************************************************************************)
(* The process: daemonCmd, LoadConfig and the set-up of RunReceiveMode and *)
(* RunServeMode.                                                           *)
(***************************************************************************)
StartProcess ==
    /\ mpc \in {"off", "returned"}
    /\ starts < MaxStarts
    /\ starts' = starts + 1
    /\ mode' \in Modes
    /\ Fresh("config")
    /\ rcv' = "before" /\ up' = NoUpload
    /\ UNCHANGED <<local, arch, completed, again, leftover, backend, conf, faults, rd>>

LoadConfig ==
    /\ mpc = "config"
    /\ \E c \in validate(mode) :
         /\ c.backend \in {backend, "nokey", "unknown"}
         /\ conf' = c
         /\ leftover' = (leftover \/ \E e \in Exts \ {c.ext} : arch[e] = "torn")
    /\ mpc' = "init"
    /\ UNCHANGED <<mode, comp, fatalErrCh, ctxDone, signalled, failed, runErr, result,
                   local, arch, rcv, up, completed, again, backend, starts, faults, rd>>

\* The configuration is refused, or the connection parameters are missing.
ConfigRefused ==
    /\ mpc = "config"
    /\ mpc' = "returned"
    /\ result' = "error"
    /\ UNCHANGED <<mode, comp, fatalErrCh, ctxDone, signalled, failed, runErr, fileVars,
                   envVars, rd>>

\* initPgrw, initWalStorage, initBasebackupStorage: a storage that cannot be set up is fatal.
SetUp ==
    /\ \/ StartComponents /\ conf.backend = backend /\ conf.ext \in WriteExts /\ UNCHANGED faults
       \/ StartFails /\ conf.backend # backend /\ UNCHANGED faults
       \/ StartFails /\ conf.backend = backend /\ Fault
    /\ UNCHANGED <<fileVars, backend, conf, starts, rd>>

\* The uploads are joined before the archive supervisor returns.
Idle(c) == c = "archive" => up.st = "none"

\* Not counted as a failure when it comes of the failure of another component, or of
\* a schedule that RunCron cannot parse.
Fails ==
    /\ \E c \in Components(mode) :
         /\ Idle(c) /\ ComponentFails(c)
         /\ IF failed # {} \/ (c = "cron" /\ conf.cron = "invalid") THEN UNCHANGED faults
            ELSE Fault
    /\ UNCHANGED <<fileVars, backend, conf, starts, rd>>
Stops(c) == Idle(c) /\ ComponentStops(c) /\ UNCHANGED <<fileVars, envVars, rd>>
Reports(c) == (SendFatalErr(c) \/ CancelCtx(c)) /\ UNCHANGED <<fileVars, envVars, rd>>
Main == MainStep /\ UNCHANGED <<fileVars, envVars, rd>>
Interrupt == Signal /\ UNCHANGED <<fileVars, envVars, rd>>

\* The process dies: killed, out of memory, or a panic nobody recovers.
Kill ==
    /\ Up
    /\ Fault
    /\ Fresh("off")
    /\ up' = NoUpload
    /\ UNCHANGED <<mode, local, arch, rcv, completed, again, leftover, backend, conf, starts, rd>>

-----------------------------------------------------------------------------
(***************************************************************************)
(* The receiver.  Where it starts depends on the directory, and on the     *)
(* slot when the directory is empty: then the segment may come again.      *)
(***************************************************************************)
Receiving == Up /\ comp["receiver"] = "run"

\* Mutant: the segment is opened again although it is complete.
ReceiveBeginComplete ==
    /\ Receiving /\ rcv = "before"
    /\ local' = IF local = "complete" THEN local ELSE "partial"
    /\ rcv' = "on"
    /\ again' = (again \/ completed)
    /\ UNCHANGED <<lifeVars, arch, up, completed, leftover, envVars, rd>>

ReceiveBegin ==
    /\ Receiving /\ rcv = "before"
    /\ local # "complete"
    /\ local' = "partial"
    /\ rcv' = "on"
    /\ again' = (again \/ completed)
    /\ UNCHANGED <<lifeVars, arch, up, completed, leftover, envVars, rd>>

ReceiveLater ==
    /\ Receiving /\ rcv = "before"
    /\ local = "complete" \/ (local = "none" /\ completed)
    /\ rcv' = "after"
    /\ UNCHANGED <<lifeVars, local, arch, up, completed, again, leftover, envVars, rd>>

\* The last byte: fsync and rename.
ReceiveComplete ==
    /\ Receiving /\ rcv = "on" /\ local = "partial"
    /\ local' = "complete"
    /\ completed' = TRUE
    /\ rcv' = "after"
    /\ UNCHANGED <<lifeVars, arch, up, again, leftover, envVars, rd>>

\* The stream ends and begins again; the file may have been removed by the uploader.
ReceiveRestart ==
    /\ Receiving /\ rcv = "on"
    /\ local = "partial" => faults < MaxFaults
    /\ faults' = IF local = "partial" THEN faults + 1 ELSE faults
    /\ rcv' = "before"
    /\ UNCHANGED <<lifeVars, local, arch, up, completed, again, leftover, backend, conf, starts, rd>>

-----------------------------------------------------------------------------
(***************************************************************************)
(* The archive supervisor: every file but the one the receiver has open.   *)
(* A *.partial is stored under its own name, which no request asks for.    *)
(***************************************************************************)
Archiving == Up /\ comp["archive"] = "run"

UploadBegin ==
    /\ Archiving /\ up.st = "none" /\ ~ctxDone
    /\ local # "none" /\ (local = "partial" => rcv # "on")
    /\ up' = [st |-> "put", what |-> local]
    /\ arch' = IF local = "complete" THEN PutBegins(arch, conf.ext, Atomic) ELSE arch
    /\ UNCHANGED <<lifeVars, local, rcv, completed, again, leftover, envVars, rd>>

UploadEnds ==
    /\ Archiving /\ up.st = "put"
    /\ up' = [up EXCEPT !.st = "remove"]
    /\ arch' = IF up.what = "complete" THEN PutEnds(arch, conf.ext) ELSE arch
    /\ UNCHANGED <<lifeVars, local, rcv, completed, again, leftover, envVars, rd>>

\* Mutant: the file is removed although the upload failed.
UploadFailsAndRemoves ==
    /\ Archiving /\ up.st = "put"
    /\ \/ Fault
       \/ ctxDone /\ UNCHANGED faults
    /\ up' = [up EXCEPT !.st = "remove"]
    /\ UNCHANGED <<lifeVars, local, arch, rcv, completed, again, leftover, backend, conf, starts,
                   rd>>

\* The file stays; it is found again by the next tick.
UploadFails ==
    /\ Archiving /\ up.st = "put"
    /\ \/ Fault
       \/ ctxDone /\ UNCHANGED faults
    /\ up' = NoUpload
    /\ UNCHANGED <<lifeVars, local, arch, rcv, completed, again, leftover, backend, conf, starts,
                   rd>>

\* Mutant: the segment is removed under whatever name it has by now.
RemoveLocalByAnyName ==
    /\ Archiving /\ up.st = "remove"
    /\ up' = NoUpload
    /\ local' = "none"
    /\ UNCHANGED <<lifeVars, arch, rcv, completed, again, leftover, envVars, rd>>

RemoveLocal ==
    /\ Archiving /\ up.st = "remove"
    /\ up' = NoUpload
    /\ local' = IF local = up.what THEN "none" ELSE local
    /\ UNCHANGED <<lifeVars, arch, rcv, completed, again, leftover, envVars, rd>>

-----------------------------------------------------------------------------
(***************************************************************************)
(* GetWalFile and WalFileDownloadHandler, as ExecRestoreCommand sees them: *)
(* the file in the directory, then its *.partial, then the storage.        *)
(***************************************************************************)
Answer(res) == rd' = Request("done", res)

\* Only what is asked for after the segment was complete is followed.
RequestWal ==
    /\ rd.pc \in {"idle", "done"}
    /\ completed
    /\ rd' = Request("complete", "none")
    /\ UNCHANGED <<lifeVars, fileVars, envVars>>

\* Mutant: the storage is asked before the directory.
FindLocalLast ==
    /\ rd.pc = "complete"
    /\ rd' = [rd EXCEPT !.pc = IF Exists(arch) THEN "storage" ELSE "partial"]
    /\ UNCHANGED <<lifeVars, fileVars, envVars>>

FindLocal ==
    /\ rd.pc = "complete"
    /\ rd' = [rd EXCEPT !.pc = IF local = "complete" THEN "open" ELSE "partial"]
    /\ UNCHANGED <<lifeVars, fileVars, envVars>>

\* The file may be gone since it was found.
OpenLocal ==
    /\ rd.pc = "open"
    /\ Answer(IF local = "complete" THEN "whole" ELSE "error")
    /\ UNCHANGED <<lifeVars, fileVars, envVars>>

FindPartial ==
    /\ rd.pc = "partial"
    /\ rd' = [rd EXCEPT !.pc = IF local = "partial" THEN "openPartial" ELSE "storage"]
    /\ UNCHANGED <<lifeVars, fileVars, envVars>>

OpenPartial ==
    /\ rd.pc = "openPartial"
    /\ Answer(IF local = "partial" THEN "partial" ELSE "error")
    /\ UNCHANGED <<lifeVars, fileVars, envVars>>

\* VariadicStorage.Get: find the variant, then open it.
GetStored ==
    /\ rd.pc = "storage"
    /\ IF Exists(arch)
         THEN rd' = [rd EXCEPT !.pc = "copy", !.ext = findExistingName(arch)]
         ELSE Answer("missing")
    /\ UNCHANGED <<lifeVars, fileVars, envVars>>

\* What is cut off is noticed by a decoder, or not; then part of it is already sent.
\* What was encrypted with another password cannot be read.
Copy ==
    /\ rd.pc = "copy"
    /\ \/ arch[rd.ext] = "whole" /\ Answer("whole")
       \/ arch[rd.ext] = "whole" /\ rd.ext.aes /\ Answer("error")
       \/ arch[rd.ext] # "whole" /\ \E res \in {"short", "error"} : Answer(res)
    /\ UNCHANGED <<lifeVars, fileVars, envVars>>

\* Reading fails: an error, unless the answer has begun and ends short with status 200.
CopyFails ==
    /\ rd.pc \in {"open", "storage", "copy"}
    /\ Fault
    /\ \E res \in {"error"} \cup (IF rd.pc = "storage" THEN {} ELSE {"short"}) :
         rd' = [Request("done", res) EXCEPT !.failed = TRUE]
    /\ UNCHANGED <<lifeVars, fileVars, backend, conf, starts>>

-----------------------------------------------------------------------------
Init ==
    /\ LifeInit
    /\ backend \in Backends
    /\ conf = [backend |-> backend, ext |-> Plain, cron |-> "valid", plain |-> FALSE,
               works |-> TRUE]
    /\ local = "none" /\ arch = NoVariant
    /\ rcv = "before" /\ up = NoUpload
    /\ completed = FALSE /\ again = FALSE /\ leftover = FALSE
    /\ rd = Request("idle", "none")
    /\ starts = 0 /\ faults = 0

ProcessStep ==
    \/ StartProcess \/ LoadConfig \/ ConfigRefused \/ SetUp \/ Fails \/ Interrupt \/ Main \/ Kill
    \/ \E c \in AllComponents : Stops(c) \/ Reports(c)
ReceiverStep == ReceiveBegin \/ ReceiveLater \/ ReceiveComplete \/ ReceiveRestart
UploadStep == UploadBegin \/ UploadEnds \/ UploadFails \/ RemoveLocal
ServeStep ==
    \/ RequestWal \/ FindLocal \/ OpenLocal \/ FindPartial \/ OpenPartial
    \/ GetStored \/ Copy \/ CopyFails

Next == ProcessStep \/ ReceiverStep \/ UploadStep \/ ServeStep

Spec == Init /\ [][Next]_vars

(***************************************************************************)
(* Fairness: the main goroutine runs and its timer fires, an error on its  *)
(* way is reported, and a cancelled context ends the HTTP server, which    *)
(* has a timeout of its own.  Of the receiver, the uploads and the         *)
(* scheduler, which waits for a running backup, nothing is assumed.        *)
(***************************************************************************)
FairSpec ==
    /\ Spec
    /\ WF_vars(Main)
    /\ WF_vars(Stops("http") \/ \E c \in AllComponents : Reports(c))

-----------------------------------------------------------------------------
(***************************************************************************)
(* The type of the state.  The receiver has no file open but a *.partial   *)
(* or one that was removed under it, and an upload belongs to a process.   *)
(***************************************************************************)
DaemonTypeOK ==
    /\ mode \in Modes /\ mpc \in {"off", "config", "init", "select", "wait", "returned"}
    /\ comp \in [AllComponents -> {"off", "run", "send", "cancel", "down"}]
    /\ fatalErrCh \in BOOLEAN /\ ctxDone \in BOOLEAN /\ signalled \in BOOLEAN
    /\ failed \subseteq Critical(mode) /\ runErr \in {"none", "canceled", "fatal"}
    /\ result \in {"none", "nil", "error", "timeout"}
    /\ backend \in Backends /\ conf.ext \in Exts
    /\ local \in {"none", "partial", "complete"} /\ arch \in [Exts -> {"none", "torn", "whole"}]
    /\ rcv \in {"before", "on", "after"}
    /\ up \in [st: {"none", "put", "remove"}, what: {"none", "partial", "complete"}]
    /\ {completed, again, leftover} \subseteq BOOLEAN
    /\ rd.pc \in {"idle", "complete", "open", "partial", "openPartial", "storage", "copy", "done"}
    /\ rd.res \in {"none", "whole", "partial", "short", "missing", "error"}
    /\ starts \in 0..MaxStarts /\ faults \in 0..MaxFaults
    /\ rcv = "on" => local # "complete"
    /\ up.st # "none" => mode = "receive"

(***************************************************************************)
(* validate refuses what cannot be used: with a configuration it accepts   *)
(* and no failure the storage can be set up, and in receive mode the       *)
(* scheduler runs.  Not so: an sftp section with a password and no key     *)
(* passes, and so does any text for a schedule.                            *)
(***************************************************************************)
AcceptedIsUsable ==
    /\ mpc = "init" => conf.backend = backend
    /\ Up /\ mode = "receive" /\ ~ctxDone /\ faults = 0 => comp["cron"] = "run"

(***************************************************************************)
(* What validate lets through does no harm later: the set-up refuses a     *)
(* storage it does not know or cannot log in to before anything runs, and  *)
(* a process that runs stores compressed and encrypted what it was asked   *)
(* to, with no duration, number of workers or keep_last of zero.           *)
(***************************************************************************)
RunsAsConfigured == Up => conf.backend = backend /\ ~conf.plain /\ conf.works

(***************************************************************************)
(* A segment that was complete once stays whole somewhere, in the          *)
(* directory or in the storage, whatever fails and however often the       *)
(* process starts again with another extension.                            *)
(***************************************************************************)
CompletedIsAvailable == completed => local = "complete" \/ \E e \in Exts : arch[e] = "whole"

(***************************************************************************)
(* A request that begins after that is answered with the whole segment or  *)
(* fails at a file found a moment before: it never misses the segment in   *)
(* all places and never gets less of it, not while the segment moves to    *)
(* the storage, and not from an upload under way.                          *)
(* Not so when reading breaks off, when the segment is being received a    *)
(* second time, or when a torn variant of another extension was left.      *)
(***************************************************************************)
CompletedIsServed ==
    rd.pc = "done" /\ ~rd.failed /\ ~again /\ ~leftover => rd.res \in {"whole", "error"}

(***************************************************************************)
(* A daemon that returns without an error had no failure of a critical     *)
(* component, not even during its shutdown.                                *)
(***************************************************************************)
FatalIsReturned == result = "nil" => failed = {}

(***************************************************************************)
(* Receive mode goes on receiving and archiving until a signal arrives or  *)
(* one of the two fails: backups and the HTTP API cannot stop it.          *)
(***************************************************************************)
ReceivingGoesOn ==
    Up /\ mode = "receive" /\ ~signalled /\ failed = {}
      => comp["receiver"] = "run" /\ comp["archive"] = "run"

(***************************************************************************)
(* A daemon that has been asked to stop, or has lost a critical component, *)
(* returns; so a supervisor outside can start it again.                    *)
(***************************************************************************)
DaemonStops ==
    Up /\ (signalled \/ failed # {}) ~> mpc \in {"returned", "off"}
-----------------------------------------------------------------------------
(***************************************************************************)
(* The mapping to SegmentLife: the storage has the segment when one of its *)
(* variants is whole.                                                      *)
(***************************************************************************)
LifeOfSegment ==
    CASE local = "complete" -> "complete"
      [] local = "partial" -> "receiving"
      [] OTHER -> "absent"

StoredSegment ==
    CASE \E e \in Exts : arch[e] = "whole" -> "whole"
      [] \A e \in Exts : arch[e] = "none" -> "none"
      [] OTHER -> "torn"

Segment == INSTANCE SegmentLife WITH
               Segments <- {"wal"},
               dir <- [s \in {"wal"} |-> LifeOfSegment],
               object <- [s \in {"wal"} |-> StoredSegment]

(***************************************************************************)
(* The one segment of this model leads the life ArchiveSupervisor shows    *)
(* every segment to lead, through changes of mode and of extension too: a  *)
(* variant under one extension is never given up for one under another     *)
(* that is not whole, unless the file is still there.                      *)
(***************************************************************************)
DaemonImplementsLife == Segment!Spec
=================================================================================
