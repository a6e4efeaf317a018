---------------------------- MODULE BaseBackupProofs ----------------------------
(***************************************************************************)
(* Proofs about BaseBackup and StoragePut, for every number of backups,    *)
(* archives, chunks, parts and failing calls:                              *)
(*                                                                         *)
(*  - a marked backup is whole, and a restore that succeeds read all of it *)
(*    (BackupsAreWhole, RestoresAreWhole);                                 *)
(*  - a backup that returned has joined its uploads (UploadsJoined);       *)
(*  - the pipeline with the backend behind it implements ObjectStore       *)
(*    (PipelineIsAStore).                                                  *)
(*                                                                         *)
(* The argument is an account of the chunks.  A chunk the server sent is   *)
(* in the outer pipe, in the compressor, in the inner pipe or read by the  *)
(* backend, as long as the backup is not failing (AccountInv).  The Put    *)
(* succeeds only when the inner pipe met its end, which the transform      *)
(* writes when the other three are empty (PutInv): then all of them are in *)
(* the object.                                                             *)
(***************************************************************************)
EXTENDS BaseBackup, TLAPS

Contents == {NoObject} \cup 0..MaxChunks

-----------------------------------------------------------------------------
(***************************************************************************)
(* The inductive invariant.                                                *)
(***************************************************************************)
PutTypes ==
    /\ backend \in Backends /\ objects \in [Names -> Contents]
    /\ name \in Names /\ outer \in Pipes /\ inner \in Pipes
    /\ tpc \in {"off", "copy", "close", "done"} /\ buf \in 0..MaxChunks
    /\ bpc \in {"none", "begin", "read", "part", "commit", "abort", "ok", "err"}
    /\ got \in 0..MaxChunks /\ part \in 0..PartSize /\ nparts \in 0..MaxParts
    /\ mpu \in {"none", "open", "completed", "aborted", "orphan"}
    /\ faults \in 0..MaxFaults

MainTypes ==
    /\ pc \in MainPoints /\ after \in {"open", "receive", "finish", "fail"}
    /\ bk \in 0..MaxBackups /\ cur \in 0..MaxArchives /\ srv \in 0..MaxArchives
    /\ gpc \in {"none", "put", "closing", "done"} /\ putErr \in BOOLEAN
    /\ manifest \in BOOLEAN /\ size \in [Names -> Contents]
    /\ marker \in [Backups -> {"none", "torn", "whole"}]
    /\ result \in {"none", "ok", "error", "unexpected"}

RestoreTypes ==
    rst \in [st: {"idle", "chosen", "manifest", "untar", "ok", "nothing", "failed"},
             b: 0..MaxBackups, tars: SUBSET Archives, got: [Archives -> Contents]]

\* The chunks of the source that are somewhere on the way, or stored.
Chunks == outer.data + buf + inner.data + got

(***************************************************************************)
(* The transform: it ends the inner pipe once, with "eof" only when the    *)
(* source ended and everything it held was read by the backend.            *)
(***************************************************************************)
TransformInv ==
    /\ outer.data <= 1
    /\ Chunks <= MaxChunks
    /\ (inner.w = "open") = (tpc # "done")
    /\ tpc = "close" \/ inner.w = "eof" => buf = 0 /\ outer.data = 0 /\ outer.w = "eof"
    /\ inner.w = "eof" => inner.data = 0

(***************************************************************************)
(* The backend: it goes on to its last call only after the end of the      *)
(* inner pipe, a store of files shows what it has read, and a multipart    *)
(* upload is open only while the Put runs.                                 *)
(***************************************************************************)
BackendInv ==
    /\ bpc = "begin" => got = 0
    /\ bpc \in {"commit", "ok"} => inner.w = "eof"
    /\ bpc = "part" /\ part < PartSize => inner.w = "eof"
    /\ ~IsS3 => part = 0 /\ mpu = "none" /\ bpc \notin {"part", "abort"}
    /\ ~IsS3 /\ bpc \in {"read", "commit"} => objects[name] = got
    /\ bpc = "ok" => objects[name] = got
    /\ mpu = "open" => bpc \in {"read", "part", "commit", "abort"}

PutInv == PutTypes /\ TransformInv /\ BackendInv

\* closeCurrent was called on an error.
Failing == pc \in {"close", "join"} /\ after = "fail"
\* The backup may still succeed.
Going == pc \notin {"idle", "returned"} /\ ~Failing
\* The server has begun archive srv and its file is not open yet.
Pending == pc = "open" \/ (pc \in {"close", "join"} /\ after = "open")

Stored(b, a) == objects[<<b, a>>] = size[<<b, a>>]

(***************************************************************************)
(* The goroutine of StreamingFile: while its Put runs curFile is set, the  *)
(* object is that of curFile, and `done' means the error is recorded.      *)
(***************************************************************************)
FileInv ==
    /\ ~Returned => gpc = "put"
    /\ gpc \in {"put", "closing"} => cur # 0
    /\ gpc \in {"closing", "done"} => bpc \in {"ok", "err"} /\ putErr = (bpc = "err")
    /\ cur # 0 => name = <<bk, cur>> /\ gpc # "none"
    /\ pc = "returned" /\ result # "unexpected" => gpc \in {"none", "done"}

\* The points of streamBaseBackup.
PointInv ==
    /\ pc \notin {"idle", "returned"} => bk # 0
    /\ cur # 0 => bk # 0
    /\ Pending => srv # 0 /\ cur # srv /\ size[Current] = 0
    /\ pc \in {"receive", "write"} /\ cur # 0 => cur = srv
    /\ pc \in {"open", "finish", "marker", "putMarker"} => cur = 0

(***************************************************************************)
(* The account: of the archive under way no chunk is lost, every other one *)
(* the server has begun is stored.                                         *)
(***************************************************************************)
AccountInv ==
    /\ Going /\ cur # 0 => Chunks = size[<<bk, cur>>]
    /\ Going => \A a \in Archives : a = cur \/ (Pending /\ a = srv) \/ Stored(bk, a)
    /\ \A b \in Backups : b > bk => marker[b] = "none" /\ \A a \in Archives : Stored(b, a)

\* A marked backup is whole, and nothing writes to it any more.
MarkerInv ==
    \A b \in Backups : marker[b] # "none" =>
        /\ \A a \in Archives : Stored(b, a)
        /\ b <= bk
        /\ b = bk => cur = 0 /\ pc \in {"putMarker", "returned", "idle"}

\* A restore past its listing works on a marked backup.
RestoreInv ==
    /\ rst.st \notin {"idle", "nothing", "failed"} => rst.b # 0
    /\ rst.st \in {"idle", "chosen"} => \A a \in Archives : rst.got[a] = NoObject
    /\ rst.st \in {"manifest", "untar", "ok"} =>
         /\ marker[rst.b] # "none"
         /\ \A a \in Archives :
              /\ a \in rst.tars <=> objects[<<rst.b, a>>] # NoObject
              /\ rst.got[a] \in {NoObject, objects[<<rst.b, a>>]}
    /\ rst.st = "ok" => \A a \in rst.tars : rst.got[a] # NoObject

MainInv == MainTypes /\ FileInv /\ PointInv /\ AccountInv /\ MarkerInv

BBInv == PutInv /\ MainInv /\ RestoreTypes /\ RestoreInv

-----------------------------------------------------------------------------
(***************************************************************************)
(* Lemmas about pipes.                                                     *)
(***************************************************************************)
LEMMA OpenPipeFacts ==
    ASSUME MaxChunks \in Nat
    PROVE  /\ OpenPipe \in Pipes
           /\ OpenPipe.data = 0 /\ OpenPipe.w = "open" /\ OpenPipe.closed = FALSE
    BY DEF OpenPipe, Pipes

LEMMA PipeFacts ==
    ASSUME NEW p \in Pipes
    PROVE  /\ p.data \in 0..MaxChunks /\ p.w \in {"open", "eof", "err"}
           /\ p.closed \in BOOLEAN
    BY DEF Pipes

LEMMA PipeData ==
    ASSUME NEW p \in Pipes, NEW d \in 0..MaxChunks
    PROVE  /\ [p EXCEPT !.data = d] \in Pipes
           /\ [p EXCEPT !.data = d].data = d
           /\ [p EXCEPT !.data = d].w = p.w
           /\ [p EXCEPT !.data = d].closed = p.closed
    BY DEF Pipes

LEMMA PipeEnd ==
    ASSUME NEW p \in Pipes, NEW e \in {"open", "eof", "err"}
    PROVE  /\ [p EXCEPT !.w = e] \in Pipes
           /\ [p EXCEPT !.w = e].data = p.data
           /\ [p EXCEPT !.w = e].w = e
           /\ [p EXCEPT !.w = e].closed = p.closed
    BY DEF Pipes

LEMMA PipeClosed ==
    ASSUME NEW p \in Pipes
    PROVE  /\ [p EXCEPT !.closed = TRUE] \in Pipes
           /\ [p EXCEPT !.closed = TRUE].data = p.data
           /\ [p EXCEPT !.closed = TRUE].w = p.w
    BY DEF Pipes

LEMMA ClosedWithFacts ==
    ASSUME NEW p \in Pipes, NEW e \in {"eof", "err"}
    PROVE  /\ ClosedWith(p, e) \in Pipes
           /\ ClosedWith(p, e).data = p.data
           /\ p.w # "open" => ClosedWith(p, e).w = p.w
    BY DEF Pipes, ClosedWith

-----------------------------------------------------------------------------
(***************************************************************************)
(* The steps of a Put preserve PutInv.  PutFrame is what its user sees: no *)
(* chunk appears or is lost, no other object changes, and none at all when *)
(* the Put has returned.                                                   *)
(***************************************************************************)
PutFrame ==
    /\ name' = name /\ backend' = backend
    /\ Chunks' = Chunks
    /\ Returned => objects' = objects /\ bpc' = bpc
    /\ \A n \in Names : n # name => objects'[n] = objects[n]

LEMMA PutNumbers ==
    ASSUME PutTypes
    PROVE  /\ MaxChunks \in Nat /\ PartSize \in Nat /\ MaxParts \in Nat
           /\ MaxFaults \in Nat /\ PartSize > 0
           /\ outer.data \in Nat /\ buf \in Nat /\ inner.data \in Nat /\ got \in Nat
           /\ outer.w \in {"open", "eof", "err"} /\ inner.w \in {"open", "eof", "err"}
           /\ faults \in Nat /\ part \in Nat /\ nparts \in Nat
    BY PutAssumption, PipeFacts DEF PutTypes

LEMMA TransformReadInv ==
    ASSUME PutInv, TransformRead
    PROVE  PutInv' /\ PutFrame
<1> USE PutNumbers DEF PutInv, TransformRead, TCanStep, s3Vars
<1>1. outer' \in Pipes /\ outer'.data = 0 /\ outer'.w = outer.w
  BY PipeData DEF PutTypes
<1>2. buf + outer.data \in 0..MaxChunks
  BY DEF TransformInv, Chunks
<1>3. /\ inner' \in Pipes /\ inner'.w = inner.w /\ buf' \in 0..MaxChunks
      /\ buf' + inner'.data = buf + outer.data
  <2>1. CASE buf' = buf + outer.data /\ UNCHANGED inner
    BY <2>1, <1>2 DEF PutTypes
  <2>2. CASE buf' = 0 /\ inner' = [inner EXCEPT !.data = buf + outer.data]
    BY <2>2, <1>2, PipeData DEF PutTypes
  <2> QED BY <2>1, <2>2
<1>4. PutTypes'
  BY <1>1, <1>3 DEF PutTypes
<1>5. Chunks' = Chunks
  BY <1>1, <1>3, PipeFacts DEF Chunks
<1>6. TransformInv'
  BY <1>1, <1>3, <1>5 DEF TransformInv
<1>7. BackendInv'
  BY <1>3 DEF BackendInv, IsS3
<1> QED BY <1>4, <1>5, <1>6, <1>7 DEF PutFrame

LEMMA TransformEndInv ==
    ASSUME PutInv, TransformEnd
    PROVE  PutInv' /\ PutFrame
<1> USE PutNumbers DEF PutInv, TransformEnd, TCanStep, s3Vars
<1>1. inner' \in Pipes /\ inner'.data = buf /\ inner'.w = inner.w
  BY PipeData DEF PutTypes
<1>2. PutTypes'
  BY <1>1 DEF PutTypes
<1>3. Chunks' = Chunks
  BY <1>1 DEF Chunks
<1>4. TransformInv'
  BY <1>1, <1>3 DEF TransformInv
<1>5. BackendInv'
  BY <1>1 DEF BackendInv, IsS3
<1> QED BY <1>2, <1>3, <1>4, <1>5 DEF PutFrame

LEMMA TransformCloseInv ==
    ASSUME PutInv, TransformClose
    PROVE  PutInv' /\ PutFrame
<1> USE PutNumbers DEF PutInv, TransformClose, s3Vars
<1>1. inner' \in Pipes /\ inner'.data = inner.data /\ inner'.w = "eof"
  BY PipeEnd DEF PutTypes
<1>2. PutTypes'
  BY <1>1 DEF PutTypes
<1>3. Chunks' = Chunks
  BY <1>1 DEF Chunks
<1>4. TransformInv'
  BY <1>1, <1>3 DEF TransformInv
<1>5. BackendInv'
  BY <1>1 DEF BackendInv, IsS3
<1> QED BY <1>2, <1>3, <1>4, <1>5 DEF PutFrame

LEMMA TransformFailsInv ==
    ASSUME PutInv, TransformFails
    PROVE  PutInv' /\ PutFrame
<1> USE PutNumbers DEF PutInv, TransformFails, TCanStep, s3Vars
<1>1. inner' \in Pipes /\ inner'.data = inner.data /\ inner'.w = "err"
  BY PipeEnd DEF PutTypes
<1>2. faults' \in 0..MaxFaults
  BY DEF Fault, PutTypes
<1>3. PutTypes'
  BY <1>1, <1>2 DEF PutTypes
<1>4. Chunks' = Chunks
  BY <1>1 DEF Chunks
<1>5. inner.w = "open"
  BY DEF TransformInv
<1>6. TransformInv'
  BY <1>1, <1>4 DEF TransformInv
<1>7. BackendInv'
  BY <1>1, <1>5 DEF BackendInv, IsS3
<1> QED BY <1>3, <1>4, <1>6, <1>7 DEF PutFrame

LEMMA BackendBeginInv ==
    ASSUME PutInv, BackendBegin
    PROVE  PutInv' /\ PutFrame
<1> USE PutNumbers DEF PutInv, BackendBegin, pipeVars
<1>1. /\ objects' \in [Names -> Contents]
      /\ \A n \in Names : n # name => objects'[n] = objects[n]
      /\ ~IsS3 => objects'[name] = 0
  BY DEF PutTypes, Contents
<1>2. PutTypes'
  BY <1>1 DEF PutTypes
<1>3. Chunks' = Chunks
  BY DEF Chunks
<1>4. TransformInv'
  BY <1>3 DEF TransformInv
<1>5. BackendInv'
  BY <1>1 DEF BackendInv, IsS3
<1> QED BY <1>1, <1>2, <1>3, <1>4, <1>5 DEF PutFrame, Returned

LEMMA BackendReadInv ==
    ASSUME PutInv, BackendRead
    PROVE  PutInv' /\ PutFrame
<1> USE PutNumbers DEF PutInv, BackendRead
<1> DEFINE n == IF IsS3 THEN Min2(inner.data, PartSize - part) ELSE inner.data
<1>1. n \in 0..inner.data /\ (IsS3 => n <= PartSize - part)
  BY DEF Min2, PutTypes
<1>2. inner.data - n \in 0..MaxChunks /\ got + n \in 0..MaxChunks
  BY <1>1 DEF TransformInv, Chunks
<1> HIDE DEF n
<1>3. inner' = [inner EXCEPT !.data = inner.data - n] /\ got' = got + n
  BY DEF n
<1>4. inner' \in Pipes /\ inner'.data = inner.data - n /\ inner'.w = inner.w
  <2>1. PICK k \in 0..MaxChunks : k = inner.data - n
    BY <1>2
  <2>2. inner' = [inner EXCEPT !.data = k] /\ inner \in Pipes
    BY <1>3, <2>1 DEF PutTypes
  <2> QED BY ONLY <2>1, <2>2, PipeData
<1>5. /\ objects' \in [Names -> Contents]
      /\ \A m \in Names : m # name => objects'[m] = objects[m]
      /\ ~IsS3 => objects'[name] = got'
  <2>1. CASE IsS3
    BY <2>1 DEF PutTypes
  <2>2. CASE ~IsS3
    <3>1. objects' = [objects EXCEPT ![name] = got + n]
      BY <2>2 DEF n
    <3> QED BY <3>1, <2>2, <1>2, <1>3 DEF PutTypes, Contents
  <2> QED BY <2>1, <2>2
<1>6. /\ IsS3 => /\ part' = part + n
                 /\ bpc' = IF part + n = PartSize THEN "part" ELSE "read"
      /\ ~IsS3 => part' = part /\ bpc' = bpc
  BY DEF n
<1>7. part' \in 0..PartSize
  BY <1>1, <1>6 DEF PutTypes
<1>8. PutTypes'
  BY <1>2, <1>3, <1>4, <1>5, <1>6, <1>7 DEF PutTypes
<1>9. Chunks' = Chunks
  BY <1>1, <1>3, <1>4 DEF Chunks
<1>10. inner.w # "eof"
  BY DEF TransformInv
<1>11. TransformInv'
  BY <1>4, <1>9, <1>10 DEF TransformInv
<1>12. BackendInv'
  BY <1>4, <1>5, <1>6, <1>10 DEF BackendInv, IsS3
<1> QED BY <1>5, <1>8, <1>9, <1>11, <1>12 DEF PutFrame, Returned

LEMMA BackendEOFInv ==
    ASSUME PutInv, BackendEOF
    PROVE  PutInv' /\ PutFrame
<1> USE PutNumbers DEF PutInv, BackendEOF, pipeVars, s3Vars
<1>1. PutTypes'
  BY DEF PutTypes
<1>2. Chunks' = Chunks
  BY DEF Chunks
<1>3. TransformInv'
  BY <1>2 DEF TransformInv
<1>4. BackendInv'
  BY DEF BackendInv, IsS3
<1> QED BY <1>1, <1>2, <1>3, <1>4 DEF PutFrame, Returned

LEMMA BackendReadFailsInv ==
    ASSUME PutInv, BackendReadFails
    PROVE  PutInv' /\ PutFrame
<1> USE PutNumbers DEF PutInv, BackendReadFails, pipeVars, s3Vars
<1>1. PutTypes'
  BY DEF PutTypes
<1>2. Chunks' = Chunks
  BY DEF Chunks
<1>3. TransformInv'
  BY <1>2 DEF TransformInv
<1>4. BackendInv'
  BY DEF BackendInv, IsS3
<1> QED BY <1>1, <1>2, <1>3, <1>4 DEF PutFrame, Returned

LEMMA UploadPartInv ==
    ASSUME PutInv, UploadPart
    PROVE  PutInv' /\ PutFrame
<1> USE PutNumbers DEF PutInv, UploadPart, pipeVars
<1>1. PutTypes'
  BY DEF PutTypes
<1>2. Chunks' = Chunks
  BY DEF Chunks
<1>3. TransformInv'
  BY <1>2 DEF TransformInv
<1>4. BackendInv'
  BY DEF BackendInv, IsS3
<1> QED BY <1>1, <1>2, <1>3, <1>4 DEF PutFrame, Returned

LEMMA CommitInv ==
    ASSUME PutInv, Commit
    PROVE  PutInv' /\ PutFrame
<1> USE PutNumbers DEF PutInv, Commit, pipeVars
<1>1. /\ objects' \in [Names -> Contents]
      /\ \A n \in Names : n # name => objects'[n] = objects[n]
      /\ objects'[name] = got
  BY DEF PutTypes, Contents, BackendInv
<1>2. mpu' # "open" /\ mpu' \in {"none", "open", "completed", "aborted", "orphan"}
  BY DEF PutTypes, BackendInv, MustAbort
<1>3. PutTypes'
  BY <1>1, <1>2 DEF PutTypes
<1>4. Chunks' = Chunks
  BY DEF Chunks
<1>5. TransformInv'
  BY <1>4 DEF TransformInv
<1>6. BackendInv'
  BY <1>1, <1>2 DEF BackendInv, IsS3
<1> QED BY <1>1, <1>3, <1>4, <1>5, <1>6 DEF PutFrame, Returned

LEMMA PutCallFailsInv ==
    ASSUME PutInv, PutCallFails
    PROVE  PutInv' /\ PutFrame
<1> USE PutNumbers DEF PutInv, PutCallFails, pipeVars
<1>1. /\ objects' \in [Names -> Contents]
      /\ \A n \in Names : n # name => objects'[n] = objects[n]
  BY DEF PutTypes, Contents
<1>2. faults' \in 0..MaxFaults
  BY DEF Fault, PutTypes
<1>3. /\ mpu' \in {"none", "open", "completed", "aborted", "orphan"}
      /\ bpc' \in {"abort", "err"}
      /\ mpu' = "open" => bpc' = "abort"
      /\ ~IsS3 => mpu' = mpu
      /\ bpc' = "abort" => IsS3
  BY DEF PutTypes, BackendInv, MustAbort
<1>4. PutTypes'
  BY <1>1, <1>2, <1>3 DEF PutTypes
<1>5. Chunks' = Chunks
  BY DEF Chunks
<1>6. TransformInv'
  BY <1>5 DEF TransformInv
<1>7. BackendInv'
  BY <1>3 DEF BackendInv, IsS3
<1>8. ~Returned
  BY DEF Returned
<1> QED BY <1>1, <1>4, <1>5, <1>6, <1>7, <1>8 DEF PutFrame

LEMMA AbortInv ==
    ASSUME PutInv, Abort
    PROVE  PutInv' /\ PutFrame
<1> USE PutNumbers DEF PutInv, Abort, pipeVars
<1>1. faults' \in 0..MaxFaults
  BY DEF Fault, PutTypes
<1>2. /\ mpu' \in {"none", "completed", "aborted", "orphan"}
      /\ mpu # "open" => mpu' = mpu
  BY DEF PutTypes
<1>3. PutTypes'
  BY <1>1, <1>2 DEF PutTypes
<1>4. Chunks' = Chunks
  BY DEF Chunks
<1>5. TransformInv'
  BY <1>4 DEF TransformInv
<1>6. BackendInv'
  BY <1>2 DEF BackendInv, IsS3, MustAbort
<1>7. ~Returned
  BY DEF Returned, MustAbort
<1> QED BY <1>3, <1>4, <1>5, <1>6, <1>7 DEF PutFrame

LEMMA PutStepInv ==
    ASSUME PutInv, TransformStep \/ BackendStep
    PROVE  PutInv' /\ PutFrame
    BY TransformReadInv, TransformEndInv, TransformCloseInv, TransformFailsInv,
       BackendBeginInv, BackendReadInv, BackendEOFInv, BackendReadFailsInv,
       UploadPartInv, CommitInv, PutCallFailsInv, AbortInv
       DEF TransformStep, BackendStep

-----------------------------------------------------------------------------
(***************************************************************************)
(* The steps of the backup.  Every one of them keeps what is marked.       *)
(***************************************************************************)
Kept ==
    \A b \in Backups : marker[b] # "none" =>
        /\ marker'[b] # "none"
        /\ \A a \in Archives : objects'[<<b, a>>] = objects[<<b, a>>]

LEMMA PutUnchanged ==
    ASSUME PutInv, UNCHANGED <<backend, objects, name, pipeVars, bpc, got, s3Vars>>,
           faults' \in 0..MaxFaults
    PROVE  PutInv'
<1> USE DEF pipeVars, s3Vars
<1>1. PutTypes'
  BY DEF PutInv, PutTypes
<1>2. TransformInv' /\ BackendInv'
  BY DEF PutInv, TransformInv, BackendInv, Chunks, IsS3
<1> QED BY <1>1, <1>2 DEF PutInv

\* A chunk goes into the outer pipe, or is taken back, or its writing end is closed.
LEMMA OuterChanges ==
    ASSUME PutInv, outer' \in Pipes, outer'.data <= 1, Chunks' <= MaxChunks,
           outer.w = "eof" => outer'.w = "eof" /\ outer'.data <= outer.data,
           UNCHANGED <<backend, objects, name, inner, tpc, buf, bpc, got, s3Vars, faults>>
    PROVE  PutInv'
<1> USE DEF s3Vars
<1>1. PutTypes'
  BY DEF PutInv, PutTypes
<1>2. TransformInv'
  <2>1. outer'.data \in Nat /\ outer.data \in Nat
    BY PutNumbers, <1>1, PipeFacts DEF PutInv, PutTypes
  <2> QED BY <2>1 DEF PutInv, TransformInv
<1>3. BackendInv'
  BY DEF PutInv, BackendInv, IsS3
<1> QED BY <1>1, <1>2, <1>3 DEF PutInv

\* The goroutines are gone, or begin.
LEMMA PutFresh ==
    ASSUME PutTypes, name' \in Names,
           outer' = OpenPipe, inner' = OpenPipe, buf' = 0, got' = 0,
           tpc' \in {"off", "copy"}, bpc' \in {"none", "begin"},
           part' = 0, nparts' = 0, mpu' = "none", faults' \in 0..MaxFaults,
           UNCHANGED <<backend, objects>>
    PROVE  PutInv' /\ Chunks' = 0
<1>1. OpenPipe \in Pipes /\ OpenPipe.data = 0 /\ OpenPipe.w = "open"
  BY OpenPipeFacts, PutNumbers
<1>2. Chunks' = 0
  BY <1>1 DEF Chunks
<1>3. PutTypes'
  BY <1>1, PutNumbers DEF PutTypes
<1>4. TransformInv'
  BY <1>1, <1>2, PutNumbers DEF TransformInv
<1>5. BackendInv'
  BY PutNumbers DEF BackendInv, IsS3
<1> QED BY <1>2, <1>3, <1>4, <1>5 DEF PutInv

LEMMA Bounds ==
    ASSUME MainTypes
    PROVE  /\ MaxBackups \in Nat /\ MaxArchives \in Nat /\ MaxArchives > 0
           /\ bk \in Nat /\ cur \in Nat /\ srv \in Nat
           /\ bk <= MaxBackups /\ cur <= MaxArchives /\ srv <= MaxArchives
           /\ cur # 0 => cur \in Archives
           /\ srv # 0 => srv \in Archives
           /\ bk # 0 => bk \in Backups
           /\ Names = Backups \X Archives
           /\ \A b \in Backups : b \in Nat
    BY BaseBackupAssumption DEF MainTypes, Backups, Archives

LEMMA PutStepMain ==
    ASSUME BBInv, PutStep
    PROVE  PutInv' /\ MainInv' /\ Kept
<1> USE DEF BBInv, MainInv
<1>1. PutInv' /\ PutFrame
  BY PutStepInv DEF PutStep
<1>2. UNCHANGED <<pc, after, bk, cur, gpc, putErr, srv, manifest, size, marker, result>>
  BY DEF PutStep, mainVars
<1>3. MainTypes'
  BY <1>2 DEF MainTypes
<1>4. FileInv'
  BY <1>1, <1>2 DEF FileInv, PutFrame, Returned
<1>5. PointInv'
  BY <1>2 DEF PointInv, Pending, Current
<1>6. \A b \in Backups, a \in Archives :
        b # bk \/ a # cur \/ cur = 0 => objects'[<<b, a>>] = objects[<<b, a>>]
  <2> SUFFICES ASSUME NEW b \in Backups, NEW a \in Archives, b # bk \/ a # cur \/ cur = 0
               PROVE  objects'[<<b, a>>] = objects[<<b, a>>]
    OBVIOUS
  <2>1. CASE Returned
    BY <2>1, <1>1 DEF PutFrame
  <2>2. CASE ~Returned
    <3>1. cur # 0 /\ name = <<bk, cur>>
      BY <2>2 DEF FileInv
    <3>2. <<b, a>> \in Names /\ <<b, a>> # name
      BY <3>1, Bounds
    <3> QED BY <3>2, <1>1 DEF PutFrame
  <2> QED BY <2>1, <2>2
<1>7. AccountInv'
  <2>1. Chunks' = Chunks
    BY <1>1 DEF PutFrame
  <2>2. (Going /\ cur # 0 => Chunks = size[<<bk, cur>>])'
    BY <1>2, <2>1 DEF AccountInv, Going, Failing
  <2>3. (Going => \A a \in Archives : a = cur \/ (Pending /\ a = srv) \/ Stored(bk, a))'
    <3>1. Going => bk \in Backups
      BY Bounds DEF Going, PointInv
    <3> QED BY <3>1, <1>2, <1>6 DEF AccountInv, Going, Failing, Pending, Stored
  <2>4. (\A b \in Backups :
            b > bk => marker[b] = "none" /\ \A a \in Archives : Stored(b, a))'
    BY <1>2, <1>6, Bounds DEF AccountInv, Stored
  <2> QED BY <2>2, <2>3, <2>4 DEF AccountInv
<1>8. MarkerInv' /\ Kept
  BY <1>2, <1>6 DEF MarkerInv, Stored, Kept
<1> QED BY <1>1, <1>3, <1>4, <1>5, <1>7, <1>8

\* Steps that only move pc, and leave size and marker alone.
LEMMA StartBackupMain ==
    ASSUME BBInv, StartBackup
    PROVE  PutInv' /\ MainInv' /\ Kept
<1> USE DEF BBInv, MainInv, StartBackup, Goto
<1>1. PutInv' /\ Chunks' = 0
  BY PutFresh DEF PutInv, PutTypes, PutGone
<1>2. MainTypes'
  <2>1. bk' \in 0..MaxBackups /\ cur' \in 0..MaxArchives /\ srv' \in 0..MaxArchives
    BY Bounds DEF MainTypes
  <2> QED BY ONLY BBInv, StartBackup, <2>1, Zenon
         DEF BBInv, MainInv, StartBackup, Goto, MainTypes, MainPoints
<1>3. FileInv'
  BY DEF FileInv, PutGone, Returned
<1>4. PointInv'
  BY Bounds DEF PointInv, Pending, Current
<1>5. AccountInv'
  BY Bounds DEF AccountInv, Going, Pending, Failing, Stored, PutGone, Backups
<1>6. MarkerInv' /\ Kept
  BY Bounds DEF MarkerInv, Stored, Kept, PutGone, AccountInv
<1> QED BY <1>1, <1>2, <1>3, <1>4, <1>5, <1>6

LEMMA KillMain ==
    ASSUME BBInv, Kill
    PROVE  PutInv' /\ MainInv' /\ Kept
<1> USE DEF BBInv, MainInv, Kill, Goto
<1>1. PutInv' /\ Chunks' = 0
  <2>1. faults' \in 0..MaxFaults
    BY PutNumbers DEF Fault, PutInv
  <2> QED BY <2>1, PutFresh DEF PutInv, PutTypes, PutGone
<1>2. MainTypes'
  <2>1. bk' \in 0..MaxBackups /\ cur' \in 0..MaxArchives /\ srv' \in 0..MaxArchives
    BY Bounds DEF MainTypes
  <2> QED BY ONLY BBInv, Kill, <2>1, Zenon DEF BBInv, MainInv, Kill, Goto, MainTypes, MainPoints
<1>3. FileInv'
  BY DEF FileInv, PutGone, Returned
<1>4. PointInv'
  BY Bounds DEF PointInv, Pending, Current
<1>5. AccountInv'
  BY Bounds DEF AccountInv, Going, Pending, Failing, Stored, PutGone
<1>6. MarkerInv' /\ Kept
  BY Bounds DEF MarkerInv, Stored, Kept, PutGone, AccountInv
<1> QED BY <1>1, <1>2, <1>3, <1>4, <1>5, <1>6

LEMMA ReceiveNewArchiveMain ==
    ASSUME BBInv, ReceiveNewArchive
    PROVE  PutInv' /\ MainInv' /\ Kept
<1> USE DEF BBInv, MainInv, ReceiveNewArchive, Goto, Close
<1>0. UNCHANGED <<backend, objects, name, outer, inner, tpc, buf, bpc, got, part, nparts, mpu,
                  faults>>
  BY DEF putVars
<1>1. PutInv'
  BY <1>0, PutUnchanged DEF PutInv, PutTypes, pipeVars, s3Vars
<1>2. /\ <<bk, srv + 1>> \in Names
      /\ size' \in [Names -> Contents]
      /\ size'[<<bk, srv + 1>>] = 0
      /\ \A b \in Backups, a \in Archives :
            b # bk \/ a # srv + 1 => size'[<<b, a>>] = size[<<b, a>>]
  <2>1. bk \in Backups /\ srv + 1 \in Archives
    BY Bounds DEF PointInv, Archives
  <2>2. <<bk, srv + 1>> \in Names /\ 0 \in Contents
    BY <2>1, Bounds, PutNumbers DEF Contents, PutInv
  <2> QED BY <2>2, Bounds DEF MainTypes
<1>3. MainTypes'
  BY <1>2, Bounds DEF MainTypes, MainPoints
<1>4. FileInv'
  BY <1>0 DEF FileInv, Returned
<1>5. PointInv'
  BY <1>2, Bounds DEF PointInv, Pending, Current
<1>6. AccountInv'
  <2>1. bk \in Backups /\ Going /\ ~Pending /\ Chunks' = Chunks /\ srv \in Nat
    BY <1>0, Bounds DEF Going, Pending, Failing, PointInv, Chunks
  <2>2. (Going /\ cur # 0 => Chunks = size[<<bk, cur>>])'
    BY <2>1, <1>2, Bounds DEF AccountInv, PointInv
  <2>3. (Going => \A a \in Archives : a = cur \/ (Pending /\ a = srv) \/ Stored(bk, a))'
    <3>1. ASSUME NEW a \in Archives, a # cur, a # srv + 1
          PROVE  Stored(bk, a)'
      BY <3>1, <2>1, <1>2, <1>0 DEF AccountInv, Stored
    <3> QED BY <3>1 DEF Pending
  <2>4. (\A b \in Backups :
            b > bk => marker[b] = "none" /\ \A a \in Archives : Stored(b, a))'
    BY <2>1, <1>0, <1>2, Bounds DEF AccountInv, Stored
  <2> QED BY <2>2, <2>3, <2>4 DEF AccountInv
<1>7. MarkerInv' /\ Kept
  BY <1>0, <1>2, Bounds DEF MarkerInv, Stored, Kept
<1> QED BY <1>1, <1>3, <1>4, <1>5, <1>6, <1>7

LEMMA OpenFileMain ==
    ASSUME BBInv, OpenFile
    PROVE  PutInv' /\ MainInv' /\ Kept
<1> USE DEF BBInv, MainInv, OpenFile, Goto
<1>1. Pending /\ bk \in Backups /\ srv \in Archives /\ cur = 0 /\ Going
  BY Bounds DEF Pending, PointInv, Going, Failing
<1>2. Current \in Names /\ Current = <<bk, srv>>
  BY <1>1, Bounds DEF Current
<1>3. PutInv' /\ Chunks' = 0
  BY <1>2, PutFresh DEF PutBegin, PutInv, PutTypes
<1>4. MainTypes'
  BY <1>1, Bounds DEF MainTypes, MainPoints
<1>5. FileInv'
  <2>1. gpc' = "put" /\ pc' = "receive" /\ name' = <<bk, srv>> /\ cur' = srv /\ srv # 0
    BY <1>2, Bounds DEF PutBegin, PointInv, Pending
  <2> QED BY ONLY <2>1, UNCHANGED bk DEF FileInv
<1>6. PointInv'
  BY <1>1, Bounds DEF PointInv, Pending, Current
<1>7. AccountInv'
  <2>1. size[<<bk, srv>>] = 0 /\ objects' = objects
    BY <1>1, <1>2 DEF PointInv, PutBegin
  <2>2. (Going /\ cur # 0 => Chunks = size[<<bk, cur>>])'
    BY <2>1, <1>3
  <2>3. (Going => \A a \in Archives : a = cur \/ (Pending /\ a = srv) \/ Stored(bk, a))'
    <3>1. ASSUME NEW a \in Archives, a # srv
          PROVE  Stored(bk, a)'
      <4>1. a # cur
        BY <1>1, Bounds DEF Archives
      <4>2. Stored(bk, a)
        BY <3>1, <4>1, <1>1 DEF AccountInv
      <4> QED BY <4>2, <2>1 DEF Stored
    <3> QED BY <3>1
  <2>4. (\A b \in Backups :
            b > bk => marker[b] = "none" /\ \A a \in Archives : Stored(b, a))'
    BY <2>1 DEF AccountInv, Stored
  <2> QED BY <2>2, <2>3, <2>4 DEF AccountInv
<1>8. MarkerInv' /\ Kept
  BY Bounds DEF MarkerInv, Stored, Kept, PutBegin
<1> QED BY <1>3, <1>4, <1>5, <1>6, <1>7, <1>8

LEMMA ReceiveDataMain ==
    ASSUME BBInv, ReceiveData
    PROVE  PutInv' /\ MainInv' /\ Kept
<1> USE DEF BBInv, MainInv, ReceiveData, Goto, Close
<1>1. /\ bk \in Backups /\ cur \in Archives /\ cur = srv /\ name = Current
      /\ Current = <<bk, cur>> /\ Current \in Names
      /\ Going /\ ~Pending /\ Chunks = size[Current]
  <2>1. bk \in Backups /\ cur \in Archives /\ cur = srv
    BY Bounds DEF PointInv
  <2> QED BY <2>1, Bounds DEF FileInv, Current, Going, Failing, Pending, AccountInv
<1>2. /\ size' \in [Names -> Contents]
      /\ size'[Current] = size[Current] + 1
      /\ \A b \in Backups, a \in Archives :
            b # bk \/ a # cur => size'[<<b, a>>] = size[<<b, a>>]
  <2>1. size[Current] \in Int /\ size[Current] + 1 \in Contents
    BY <1>1, PutNumbers DEF MainTypes, Contents, NoObject, PutInv
  <2> QED BY <2>1, <1>1, Bounds DEF MainTypes
<1>3. /\ UNCHANGED <<backend, objects, name, inner, tpc, buf, bpc, got, s3Vars, faults>>
      /\ \/ outer' = outer /\ pc' = "close" /\ after' = "fail"
         \/ /\ outer.data = 0 /\ outer.w = "open" /\ outer' = [outer EXCEPT !.data = 1]
            /\ pc' = "write" /\ after' = after
  BY DEF SourceWrite, putVars, s3Vars
<1>4. PutInv' /\ (pc' = "write" => Chunks' = Chunks + 1)
  <2>1. CASE outer' = outer /\ pc' = "close"
    BY <2>1, <1>3, PutUnchanged DEF PutInv, PutTypes, pipeVars
  <2>2. CASE outer.data = 0 /\ outer.w = "open" /\ outer' = [outer EXCEPT !.data = 1]
    <3>1. 1 \in 0..MaxChunks /\ Chunks + 1 <= MaxChunks
      BY <1>1, PutNumbers DEF Chunks, PutInv
    <3>2. outer' \in Pipes /\ outer'.data = 1
      BY <2>2, <3>1, PipeData DEF PutInv, PutTypes
    <3>3. Chunks' = Chunks + 1
      BY <3>2, <2>2, <1>3, PutNumbers DEF Chunks, PutInv
    <3> QED BY <2>2, <3>1, <3>2, <3>3, <1>3, OuterChanges
  <2> QED BY <2>1, <2>2, <1>3
<1>5. MainTypes'
  BY <1>2, <1>3 DEF MainTypes, MainPoints
<1>6. FileInv'
  BY <1>3 DEF FileInv, Returned, s3Vars
<1>7. PointInv'
  BY <1>1, <1>3 DEF PointInv, Pending, Current
<1>8. AccountInv'
  <2>1. Going' => pc' = "write"
    BY <1>3 DEF Going, Failing
  <2>2. (Going /\ cur # 0 => Chunks = size[<<bk, cur>>])'
    BY <2>1, <1>1, <1>2, <1>4
  <2>3. (Going => \A a \in Archives : a = cur \/ (Pending /\ a = srv) \/ Stored(bk, a))'
    BY <1>1, <1>2, <1>3 DEF AccountInv, Stored
  <2>4. (\A b \in Backups :
            b > bk => marker[b] = "none" /\ \A a \in Archives : Stored(b, a))'
    BY <1>2, <1>3, Bounds DEF AccountInv, Stored
  <2> QED BY <2>2, <2>3, <2>4 DEF AccountInv
<1>9. MarkerInv' /\ Kept
  BY <1>2, <1>3, Bounds DEF MarkerInv, Stored, Kept
<1> QED BY <1>4, <1>5, <1>6, <1>7, <1>8, <1>9

\* The steps that change neither an object nor a size, and keep curFile.
LEMMA AccountMoves ==
    ASSUME BBInv, UNCHANGED <<objects, size, bk, cur, srv>>,
           \A b \in Backups : b > bk => marker'[b] = marker[b],
           Going' => Going /\ Chunks' = Chunks /\ (Pending => Pending')
    PROVE  AccountInv'
<1> USE DEF BBInv, MainInv
<1>1. (Going /\ cur # 0 => Chunks = size[<<bk, cur>>])'
  BY DEF AccountInv
<1>2. (Going => \A a \in Archives : a = cur \/ (Pending /\ a = srv) \/ Stored(bk, a))'
  BY DEF AccountInv, Stored
<1>3. (\A b \in Backups :
          b > bk => marker[b] = "none" /\ \A a \in Archives : Stored(b, a))'
  BY DEF AccountInv, Stored
<1> QED BY <1>1, <1>2, <1>3 DEF AccountInv

LEMMA WriteTakenMain ==
    ASSUME BBInv, WriteTaken
    PROVE  PutInv' /\ MainInv' /\ Kept
<1> USE DEF BBInv, MainInv, WriteTaken, Goto
<1>0. UNCHANGED <<backend, objects, name, outer, inner, tpc, buf, bpc, got, part, nparts, mpu,
                  faults>>
  BY DEF putVars
<1>1. PutInv'
  BY <1>0, PutUnchanged DEF PutInv, PutTypes, pipeVars, s3Vars
<1>2. MainTypes'
  BY DEF MainTypes, MainPoints
<1>3. FileInv'
  BY <1>0 DEF FileInv, Returned
<1>4. PointInv'
  BY DEF PointInv, Pending, Current
<1>5. AccountInv'
  <2>1. Going /\ Chunks' = Chunks /\ ~Pending
    BY <1>0 DEF Going, Failing, Pending, Chunks
  <2> QED BY <1>0, <2>1, AccountMoves
<1>6. MarkerInv' /\ Kept
  BY <1>0 DEF MarkerInv, Stored, Kept
<1> QED BY <1>1, <1>2, <1>3, <1>4, <1>5, <1>6

LEMMA WriteFailsMain ==
    ASSUME BBInv, WriteFails
    PROVE  PutInv' /\ MainInv' /\ Kept
<1> USE DEF BBInv, MainInv, WriteFails, Goto, Close
<1>1. PutInv'
  <2>1. outer' \in Pipes /\ outer'.data = 0 /\ outer'.w = outer.w
    BY PipeData, PutNumbers DEF PutInv, PutTypes
  <2>2. Chunks' <= MaxChunks
    BY <2>1, PutNumbers DEF PutInv, TransformInv, Chunks
  <2> QED BY <2>1, <2>2, OuterChanges, PutNumbers DEF PutInv
<1>2. MainTypes'
  BY DEF MainTypes, MainPoints
<1>3. FileInv'
  BY DEF FileInv, Returned
<1>4. PointInv'
  BY DEF PointInv, Pending, Current
<1>5. AccountInv'
  BY AccountMoves DEF Going, Failing
<1>6. MarkerInv' /\ Kept
  BY DEF MarkerInv, Stored, Kept
<1> QED BY <1>1, <1>2, <1>3, <1>4, <1>5, <1>6

LEMMA ReceiveManifestMain ==
    ASSUME BBInv, ReceiveManifest
    PROVE  PutInv' /\ MainInv' /\ Kept
<1> USE DEF BBInv, MainInv, ReceiveManifest, Goto, Close
<1>0. UNCHANGED <<backend, objects, name, outer, inner, tpc, buf, bpc, got, part, nparts, mpu,
                  faults>>
  BY DEF putVars
<1>1. PutInv'
  BY <1>0, PutUnchanged DEF PutInv, PutTypes, pipeVars, s3Vars
<1>2. MainTypes'
  BY DEF MainTypes, MainPoints
<1>3. FileInv'
  BY <1>0 DEF FileInv, Returned
<1>4. PointInv'
  BY DEF PointInv, Pending, Current
<1>5. AccountInv'
  <2>1. Going /\ Chunks' = Chunks /\ ~Pending
    BY <1>0 DEF Going, Failing, Pending, Chunks
  <2> QED BY <1>0, <2>1, AccountMoves
<1>6. MarkerInv' /\ Kept
  BY <1>0 DEF MarkerInv, Stored, Kept
<1> QED BY <1>1, <1>2, <1>3, <1>4, <1>5, <1>6

LEMMA ReceiveCopyDoneMain ==
    ASSUME BBInv, ReceiveCopyDone
    PROVE  PutInv' /\ MainInv' /\ Kept
<1> USE DEF BBInv, MainInv, ReceiveCopyDone, Goto, Close
<1>0. UNCHANGED <<backend, objects, name, outer, inner, tpc, buf, bpc, got, part, nparts, mpu,
                  faults>>
  BY DEF putVars
<1>1. PutInv'
  BY <1>0, PutUnchanged DEF PutInv, PutTypes, pipeVars, s3Vars
<1>2. MainTypes'
  BY DEF MainTypes, MainPoints
<1>3. FileInv'
  BY <1>0 DEF FileInv, Returned
<1>4. PointInv'
  BY DEF PointInv, Pending, Current
<1>5. AccountInv'
  <2>1. Going /\ Chunks' = Chunks /\ ~Pending
    BY <1>0 DEF Going, Failing, Pending, Chunks
  <2> QED BY <1>0, <2>1, AccountMoves
<1>6. MarkerInv' /\ Kept
  BY <1>0 DEF MarkerInv, Stored, Kept
<1> QED BY <1>1, <1>2, <1>3, <1>4, <1>5, <1>6

LEMMA ReceiveErrorMain ==
    ASSUME BBInv, ReceiveFails \/ ReceiveUnexpected
    PROVE  PutInv' /\ MainInv' /\ Kept
<1> USE DEF BBInv, MainInv, ReceiveFails, ReceiveUnexpected, Goto, Close, Return
<1>0. /\ UNCHANGED <<backend, objects, name, outer, inner, tpc, buf, bpc, got, part, nparts,
                     mpu, bk, cur, gpc, putErr, srv, manifest, size, marker>>
      /\ pc = "receive"
      /\ \/ pc' = "close" /\ after' = "fail" /\ result' = result
         \/ pc' = "returned" /\ after' = after /\ result' = "unexpected"
  BY DEF pipeVars, s3Vars
<1>1. PutInv'
  <2>1. faults' \in 0..MaxFaults
    BY PutNumbers DEF Fault, PutInv
  <2> QED BY <1>0, <2>1, PutUnchanged DEF pipeVars, s3Vars
<1>2. MainTypes'
  BY <1>0 DEF MainTypes, MainPoints
<1>3. FileInv'
  BY <1>0 DEF FileInv, Returned
<1>4. PointInv'
  BY <1>0 DEF PointInv, Pending, Current
<1>5. AccountInv'
  BY <1>0, AccountMoves DEF Going, Failing
<1>6. MarkerInv' /\ Kept
  BY <1>0 DEF MarkerInv, Stored, Kept
<1> QED BY <1>1, <1>2, <1>3, <1>4, <1>5, <1>6

LEMMA CloseCurrentMain ==
    ASSUME BBInv, CloseCurrent
    PROVE  PutInv' /\ MainInv' /\ Kept
<1> USE DEF BBInv, MainInv, CloseCurrent, Goto, Return
<1>0. /\ UNCHANGED <<backend, objects, name, inner, tpc, buf, bpc, got, part, nparts, mpu,
                     faults, after, bk, cur, gpc, putErr, srv, manifest, size, marker>>
      /\ outer' = outer \/ outer' = ClosedWith(outer, "eof")
  BY DEF SourceClose, putVars, s3Vars
<1>1. outer' \in Pipes /\ outer'.data = outer.data /\ (outer.w = "eof" => outer'.w = "eof")
  BY <1>0, ClosedWithFacts DEF PutInv, PutTypes
<1>2. Chunks' = Chunks
  BY <1>0, <1>1 DEF Chunks
<1>3. PutInv'
  BY <1>0, <1>1, <1>2, OuterChanges, PutNumbers DEF PutInv, TransformInv, s3Vars
<1>4. /\ pc' = "returned" => after = "fail" /\ result' = "error" /\ cur = 0
      /\ pc' # "returned" => result' = result
      /\ pc' \in {"open", "receive", "finish", "returned", "join"}
      /\ pc' \in {"open", "receive", "finish"} => pc' = after /\ cur = 0
  BY DEF MainTypes
<1>5. MainTypes'
  BY <1>0, <1>4 DEF MainTypes, MainPoints
<1>6. FileInv'
  <2>1. gpc \in {"none", "put", "closing", "done"}
    BY DEF MainTypes
  <2> QED BY <1>0, <1>4, <2>1 DEF FileInv, Returned
<1>7. PointInv'
  BY <1>0, <1>4 DEF PointInv, Pending, Current
<1>8. AccountInv'
  <2>1. Going' => Going /\ Chunks' = Chunks /\ (Pending => Pending')
    BY <1>0, <1>2, <1>4 DEF Going, Failing, Pending
  <2> QED BY <1>0, <2>1, AccountMoves
<1>9. MarkerInv' /\ Kept
  BY <1>0 DEF MarkerInv, Stored, Kept
<1> QED BY <1>3, <1>5, <1>6, <1>7, <1>8, <1>9

(***************************************************************************)
(* The archive is finished: the Put returned ok, so the object holds what  *)
(* the backend read, and that is everything the server sent.               *)
(***************************************************************************)
LEMMA JoinFileMain ==
    ASSUME BBInv, JoinFile
    PROVE  PutInv' /\ MainInv' /\ Kept
<1> USE DEF BBInv, MainInv, JoinFile, Goto, Return
<1>0. /\ UNCHANGED <<backend, objects, name, outer, inner, tpc, buf, bpc, got, part, nparts,
                     mpu, faults>>
      /\ UNCHANGED <<after, bk, gpc, putErr, srv, manifest, size, marker>>
  BY DEF putVars
<1>1. PutInv'
  BY <1>0, PutUnchanged DEF PutInv, PutTypes, pipeVars, s3Vars
<1>2. /\ pc' = "returned" => result' = "error"
      /\ pc' # "returned" => pc' = after /\ cur' = 0 /\ result' = result /\ ~putErr
      /\ pc' \in {"open", "receive", "finish", "returned"}
      /\ cur' \in {0, cur}
  BY DEF MainTypes
<1>3. MainTypes'
  <2>1. cur' \in 0..MaxArchives
    BY <1>2, Bounds DEF MainTypes
  <2>2. result' \in {"none", "ok", "error", "unexpected"} /\ pc' \in MainPoints
    BY <1>2 DEF MainTypes, MainPoints
  <2> QED BY <1>0, <2>1, <2>2 DEF MainTypes
<1>4. FileInv'
  BY <1>0, <1>2 DEF FileInv, Returned
<1>5. PointInv'
  BY <1>0, <1>2 DEF PointInv, Pending, Current
<1>6. AccountInv'
  <2>1. (Going /\ cur # 0 => Chunks = size[<<bk, cur>>])'
    BY <1>2 DEF Going
  <2>2. (Going => \A a \in Archives : a = cur \/ (Pending /\ a = srv) \/ Stored(bk, a))'
    <3> SUFFICES ASSUME Going', NEW a \in Archives, a # cur', ~(Pending' /\ a = srv)
                 PROVE  Stored(bk, a)
      BY <1>0 DEF Stored
    <3>1. Going /\ (Pending => Pending') /\ ~putErr
      BY <1>0, <1>2 DEF Going, Failing, Pending
    <3>2. CASE a # cur
      BY <3>1, <3>2 DEF AccountInv
    <3>3. CASE a = cur
      <4>1. bpc = "ok"
        BY <3>1 DEF FileInv
      <4>2. inner.w = "eof" /\ objects[name] = got
        BY <4>1 DEF PutInv, BackendInv
      <4>3. Chunks = got
        BY <4>2, PutNumbers DEF PutInv, TransformInv, Chunks
      <4>4. cur # 0 /\ name = <<bk, cur>>
        BY <3>3, Bounds DEF FileInv, Archives
      <4> QED BY <3>1, <3>3, <4>2, <4>3, <4>4 DEF AccountInv, Stored
    <3> QED BY <3>2, <3>3
  <2>3. (\A b \in Backups :
            b > bk => marker[b] = "none" /\ \A a \in Archives : Stored(b, a))'
    BY <1>0 DEF AccountInv, Stored
  <2> QED BY <2>1, <2>2, <2>3 DEF AccountInv
<1>7. MarkerInv' /\ Kept
  BY <1>0 DEF MarkerInv, Stored, Kept
<1> QED BY <1>1, <1>3, <1>4, <1>5, <1>6, <1>7

LEMMA FinishBaseBackupMain ==
    ASSUME BBInv, FinishBaseBackup
    PROVE  PutInv' /\ MainInv' /\ Kept
<1> USE DEF BBInv, MainInv, FinishBaseBackup, Goto, Return
<1>0. /\ UNCHANGED <<backend, objects, name, outer, inner, tpc, buf, bpc, got, part, nparts,
                     mpu, after, bk, cur, gpc, putErr, srv, manifest, size, marker>>
      /\ cur = 0
      /\ \/ pc' = "marker" /\ result' = result
         \/ pc' = "returned" /\ result' = "error"
  BY DEF pipeVars, s3Vars, PointInv
<1>1. PutInv'
  <2>1. faults' \in 0..MaxFaults
    BY PutNumbers DEF Fault, PutInv, PutTypes
  <2> QED BY <1>0, <2>1, PutUnchanged DEF pipeVars, s3Vars
<1>2. MainTypes'
  BY <1>0 DEF MainTypes, MainPoints
<1>3. FileInv'
  BY <1>0 DEF FileInv, Returned, MainTypes
<1>4. PointInv'
  BY <1>0 DEF PointInv, Pending, Current
<1>5. AccountInv'
  <2>1. Going /\ ~Pending /\ Chunks' = Chunks
    BY <1>0 DEF Going, Failing, Pending, Chunks
  <2> QED BY <1>0, <2>1, AccountMoves
<1>6. MarkerInv' /\ Kept
  BY <1>0 DEF MarkerInv, Stored, Kept
<1> QED BY <1>1, <1>2, <1>3, <1>4, <1>5, <1>6

\* No file is open and nothing is pending when the marker is written.
LEMMA MarkerMain ==
    ASSUME BBInv, MarkerBegins \/ MarkerEnds
    PROVE  PutInv' /\ MainInv' /\ Kept
<1> USE DEF BBInv, MainInv, MarkerBegins, MarkerEnds, Goto, Return
<1>0. /\ UNCHANGED <<backend, objects, name, outer, inner, tpc, buf, bpc, got, part, nparts,
                     mpu, after, bk, cur, gpc, putErr, srv, manifest, size>>
      /\ pc \in {"marker", "putMarker"} /\ cur = 0 /\ bk \in Backups
      /\ \/ pc' = "putMarker" /\ result' = result
         \/ pc' = "returned" /\ result' \in {"ok", "error"}
  BY Bounds DEF pipeVars, s3Vars, putVars, PointInv
<1>1. /\ marker' \in [Backups -> {"none", "torn", "whole"}]
      /\ \A b \in Backups : b # bk => marker'[b] = marker[b]
      /\ marker[bk] # "none" => marker'[bk] # "none"
  BY <1>0 DEF MainTypes
<1>2. PutInv'
  <2>1. faults' \in 0..MaxFaults
    BY PutNumbers DEF Fault, PutInv, PutTypes, putVars
  <2> QED BY <1>0, <2>1, PutUnchanged DEF pipeVars, s3Vars
<1>3. MainTypes'
  BY <1>0, <1>1 DEF MainTypes, MainPoints
<1>4. FileInv'
  BY <1>0 DEF FileInv, Returned, MainTypes
<1>5. PointInv'
  BY <1>0 DEF PointInv, Pending, Current
<1>6. Going /\ ~Pending /\ Chunks' = Chunks
  BY <1>0 DEF Going, Failing, Pending, Chunks
<1>7. AccountInv'
  BY <1>0, <1>1, <1>6, AccountMoves, Bounds
<1>8. \A a \in Archives : Stored(bk, a)
  BY <1>0, <1>6 DEF AccountInv, Archives
<1>9. MarkerInv'
  BY <1>0, <1>1, <1>8, Bounds DEF MarkerInv, Stored
<1>10. Kept
  BY <1>0, <1>1 DEF Kept
<1> QED BY <1>2, <1>3, <1>4, <1>5, <1>7, <1>9, <1>10

LEMMA PutReturnsMain ==
    ASSUME BBInv, PutReturns
    PROVE  PutInv' /\ MainInv' /\ Kept
<1> USE DEF BBInv, MainInv, PutReturns
<1>0. UNCHANGED <<backend, objects, name, outer, inner, tpc, buf, bpc, got, part, nparts, mpu,
                  faults>>
  BY DEF putVars
<1>1. PutInv'
  BY <1>0, PutUnchanged DEF PutInv, PutTypes, pipeVars, s3Vars
<1>2. MainTypes'
  BY DEF MainTypes
<1>3. FileInv'
  BY <1>0 DEF FileInv, Returned
<1>4. PointInv'
  BY DEF PointInv, Pending, Current
<1>5. AccountInv'
  BY <1>0, AccountMoves DEF Going, Failing, Pending, Chunks
<1>6. MarkerInv' /\ Kept
  BY <1>0 DEF MarkerInv, Stored, Kept
<1> QED BY <1>1, <1>2, <1>3, <1>4, <1>5, <1>6

LEMMA ClosePipeMain ==
    ASSUME BBInv, ClosePipe
    PROVE  PutInv' /\ MainInv' /\ Kept
<1> USE DEF BBInv, MainInv, ClosePipe
<1>1. outer' \in Pipes /\ outer'.data = outer.data /\ (outer.w = "eof" => outer'.w = "eof")
  <2>1. PICK p \in Pipes : /\ p = IF putErr THEN ClosedWith(outer, "err") ELSE outer
                           /\ p.data = outer.data
                           /\ outer.w = "eof" => p.w = "eof"
    BY ClosedWithFacts DEF PutInv, PutTypes
  <2>2. outer' = [p EXCEPT !.closed = TRUE]
    BY <2>1
  <2> QED BY ONLY <2>1, <2>2, PipeClosed
<1>2. Chunks' = Chunks
  BY <1>1 DEF Chunks
<1>3. PutInv'
  BY <1>1, <1>2, OuterChanges, PutNumbers DEF PutInv, TransformInv
<1>4. MainTypes'
  BY DEF MainTypes
<1>5. FileInv'
  BY DEF FileInv, Returned
<1>6. PointInv'
  BY DEF PointInv, Pending, Current
<1>7. AccountInv'
  BY <1>2, AccountMoves DEF Going, Failing, Pending
<1>8. MarkerInv' /\ Kept
  BY DEF MarkerInv, Stored, Kept
<1> QED BY <1>3, <1>4, <1>5, <1>6, <1>7, <1>8

\* The restore leaves the backup alone.
LEMMA RestoreMain ==
    ASSUME BBInv, RestoreStep
    PROVE  PutInv' /\ MainInv' /\ Kept
<1> USE DEF BBInv, MainInv
<1>0. /\ UNCHANGED <<backend, objects, name, outer, inner, tpc, buf, bpc, got, part, nparts,
                     mpu, pc, after, bk, cur, gpc, putErr, srv, manifest, size, marker, result>>
      /\ faults' \in 0..MaxFaults
  <2>1. CASE RestoreFails
    BY <2>1, PutNumbers DEF RestoreFails, Fault, pipeVars, s3Vars, mainVars, PutInv
  <2>2. CASE ~RestoreFails
    <3>1. UNCHANGED putVars /\ UNCHANGED mainVars
      BY <2>2, Zenon DEF RestoreStep, RestoreChoose, RestoreList, ReadManifest, RestoreTar,
         RestoreEnds
    <3> QED BY <3>1 DEF putVars, mainVars, PutInv, PutTypes
  <2> QED BY <2>1, <2>2
<1>1. PutInv'
  BY <1>0, PutUnchanged DEF pipeVars, s3Vars
<1>2. MainTypes'
  BY <1>0 DEF MainTypes
<1>3. FileInv'
  BY <1>0 DEF FileInv, Returned
<1>4. PointInv'
  BY <1>0 DEF PointInv, Pending, Current
<1>5. AccountInv'
  BY <1>0, AccountMoves DEF Going, Failing, Pending, Chunks
<1>6. MarkerInv' /\ Kept
  BY <1>0 DEF MarkerInv, Stored, Kept
<1> QED BY <1>1, <1>2, <1>3, <1>4, <1>5, <1>6

-----------------------------------------------------------------------------
(***************************************************************************)
(* The restore.                                                            *)
(***************************************************************************)
LEMMA RestoreUntouched ==
    ASSUME BBInv, Kept, rst' = rst
    PROVE  RestoreTypes' /\ RestoreInv'
<1>1. RestoreTypes'
  BY DEF BBInv, RestoreTypes
<1>2. rst.st \notin {"idle", "nothing", "failed"} => rst.b \in Backups
  BY BaseBackupAssumption DEF BBInv, RestoreTypes, RestoreInv, Backups
<1>3. RestoreInv'
  BY <1>2 DEF BBInv, RestoreInv, Kept
<1> QED BY <1>1, <1>3

LEMMA RestoreChooseInv ==
    ASSUME BBInv, RestoreChoose
    PROVE  RestoreTypes' /\ RestoreInv'
<1> USE DEF BBInv
<1>1. CASE \E b \in Backups : rst' = [rst EXCEPT !.st = "chosen", !.b = b]
  <2>1. PICK b \in Backups : rst' = [rst EXCEPT !.st = "chosen", !.b = b]
    BY <1>1
  <2>2. b \in 0..MaxBackups /\ b # 0
    BY BaseBackupAssumption DEF Backups
  <2>3. RestoreTypes'
    BY <2>1, <2>2 DEF RestoreTypes
  <2>4. rst'.st = "chosen" /\ rst'.b = b /\ rst'.got = rst.got /\ rst.st = "idle"
    BY <2>1 DEF RestoreTypes, RestoreChoose
  <2>5. RestoreInv'
    BY <2>2, <2>4 DEF RestoreInv
  <2> QED BY <2>3, <2>5
<1>2. ASSUME NEW l \in {"failed", "nothing"}, rst' = [rst EXCEPT !.st = l]
      PROVE  RestoreTypes' /\ RestoreInv'
  <2>1. RestoreTypes'
    BY <1>2 DEF RestoreTypes
  <2>2. rst'.st = l
    BY <1>2 DEF RestoreTypes
  <2>3. RestoreInv'
    BY <2>2 DEF RestoreInv
  <2> QED BY <2>1, <2>3
<1> QED BY <1>1, <1>2 DEF RestoreChoose

LEMMA RestoreListInv ==
    ASSUME BBInv, RestoreList
    PROVE  RestoreTypes' /\ RestoreInv'
<1> USE DEF BBInv, RestoreList
<1> DEFINE T == {a \in Archives : objects[<<rst.b, a>>] # NoObject}
<1>0. UNCHANGED <<objects, marker>>
  BY DEF putVars, mainVars
<1>1. PICK l \in {"failed", "manifest"} :
        /\ l = "manifest" => marker[rst.b] # "none"
        /\ rst' = [rst EXCEPT !.st = l, !.tars = T]
  OBVIOUS
<1>2. T \in SUBSET Archives
  OBVIOUS
<1>3. \A a \in Archives : a \in T <=> objects[<<rst.b, a>>] # NoObject
  OBVIOUS
<1> HIDE DEF T
<1>4. RestoreTypes'
  BY <1>1, <1>2 DEF RestoreTypes
<1>5. rst'.st = l /\ rst'.b = rst.b /\ rst'.tars = T /\ rst'.got = rst.got
  BY <1>1 DEF RestoreTypes
<1>6. RestoreInv'
  BY <1>0, <1>1, <1>3, <1>5 DEF RestoreInv
<1> QED BY <1>4, <1>6

LEMMA ReadManifestInv ==
    ASSUME BBInv, ReadManifest
    PROVE  RestoreTypes' /\ RestoreInv'
<1> USE DEF BBInv, ReadManifest
<1>0. UNCHANGED <<objects, marker>>
  BY DEF putVars, mainVars
<1>1. PICK l \in {"failed", "untar"} : rst' = [rst EXCEPT !.st = l]
  OBVIOUS
<1>2. RestoreTypes'
  BY <1>1 DEF RestoreTypes
<1>3. rst'.st = l /\ rst'.b = rst.b /\ rst'.tars = rst.tars /\ rst'.got = rst.got
  BY <1>1 DEF RestoreTypes
<1>4. RestoreInv'
  BY <1>0, <1>1, <1>3 DEF RestoreInv
<1> QED BY <1>2, <1>4

LEMMA RestoreTarInv ==
    ASSUME BBInv, RestoreTar
    PROVE  RestoreTypes' /\ RestoreInv'
<1> USE DEF BBInv
<1>0. UNCHANGED <<objects, marker>> /\ rst.st = "untar"
  BY DEF RestoreTar, putVars, mainVars
<1>1. CASE rst' = [rst EXCEPT !.st = "failed"]
  <2>1. RestoreTypes'
    BY <1>1 DEF RestoreTypes
  <2>2. rst'.st = "failed" /\ rst'.b = rst.b
    BY <1>1 DEF RestoreTypes
  <2> QED BY <2>1, <2>2, <1>0 DEF RestoreInv
<1>2. CASE rst' # [rst EXCEPT !.st = "failed"]
  <2>1. PICK a \in rst.tars : rst' = [rst EXCEPT !.got[a] = objects[<<rst.b, a>>]]
    BY <1>2 DEF RestoreTar
  <2>2. a \in Archives /\ rst.b \in Backups /\ <<rst.b, a>> \in Names
    <3>1. rst.b \in Backups
      BY <1>0, BaseBackupAssumption DEF RestoreTypes, RestoreInv, Backups
    <3> QED BY <3>1, BaseBackupAssumption DEF RestoreTypes
  <2>3. PICK c \in Contents : c = objects[<<rst.b, a>>]
    BY <2>2 DEF PutInv, PutTypes
  <2>4. RestoreTypes'
    BY <2>1, <2>2, <2>3 DEF RestoreTypes
  <2>5. /\ rst'.st = rst.st /\ rst'.b = rst.b /\ rst'.tars = rst.tars
        /\ rst'.got = [rst.got EXCEPT ![a] = c]
    BY <2>1, <2>3 DEF RestoreTypes
  <2>6. \A x \in Archives : rst'.got[x] = IF x = a THEN c ELSE rst.got[x]
    BY <2>5, <2>2 DEF RestoreTypes
  <2>7. RestoreInv'
    BY <1>0, <2>3, <2>5, <2>6 DEF RestoreInv
  <2> QED BY <2>4, <2>7
<1> QED BY <1>1, <1>2

LEMMA RestoreEndsInv ==
    ASSUME BBInv, RestoreEnds
    PROVE  RestoreTypes' /\ RestoreInv'
<1> USE DEF BBInv, RestoreEnds
<1>0. UNCHANGED <<objects, marker>>
  BY DEF putVars, mainVars
<1>1. RestoreTypes'
  BY DEF RestoreTypes
<1>2. rst'.st = "ok" /\ rst'.b = rst.b /\ rst'.tars = rst.tars /\ rst'.got = rst.got
  BY DEF RestoreTypes
<1>3. RestoreInv'
  BY <1>0, <1>2 DEF RestoreInv
<1> QED BY <1>1, <1>3

LEMMA RestoreFailsInv ==
    ASSUME BBInv, RestoreFails
    PROVE  RestoreTypes' /\ RestoreInv'
<1> USE DEF BBInv, RestoreFails
<1>1. RestoreTypes'
  BY DEF RestoreTypes
<1>2. rst'.st = "failed" /\ rst'.b = rst.b
  BY DEF RestoreTypes
<1>3. RestoreInv'
  BY <1>2 DEF RestoreInv
<1> QED BY <1>1, <1>3

-----------------------------------------------------------------------------
LEMMA InitInv ==
    ASSUME Init
    PROVE  BBInv
<1> USE DEF Init, PutInit
<1>1. name \in Names
  BY PutAssumption
<1>2. MaxChunks \in Nat /\ MaxFaults \in Nat /\ PartSize \in Nat /\ MaxParts \in Nat
  BY PutAssumption
<1>3. OpenPipe \in Pipes /\ OpenPipe.data = 0 /\ OpenPipe.w = "open"
  BY <1>2, OpenPipeFacts
<1>4. PutTypes
  BY <1>1, <1>2, <1>3 DEF PutTypes, Contents
<1>5. Chunks = 0
  BY <1>3 DEF Chunks
<1>6. TransformInv /\ BackendInv
  BY <1>2, <1>3, <1>5 DEF TransformInv, BackendInv
<1>7. MainTypes
  <2>1. bk \in 0..MaxBackups /\ cur \in 0..MaxArchives /\ srv \in 0..MaxArchives
    BY BaseBackupAssumption
  <2>2. /\ size \in [Names -> Contents]
        /\ marker \in [Backups -> {"none", "torn", "whole"}]
    BY DEF Contents
  <2>3. pc \in MainPoints /\ putErr \in BOOLEAN /\ manifest \in BOOLEAN
    BY Zenon DEF MainPoints
  <2> QED BY <2>1, <2>2, <2>3, Zenon DEF MainTypes
<1>8. FileInv /\ PointInv
  BY DEF FileInv, PointInv, Returned, Pending
<1>9. AccountInv /\ MarkerInv
  <2>1. \A b \in Backups, a \in Archives : Stored(b, a)
    BY BaseBackupAssumption DEF Stored
  <2> QED BY <2>1, BaseBackupAssumption DEF AccountInv, MarkerInv, Going, Backups
<1>10. RestoreTypes /\ RestoreInv
  BY BaseBackupAssumption DEF RestoreTypes, RestoreInv, NoRestore, Contents
<1> QED BY <1>4, <1>6, <1>7, <1>8, <1>9, <1>10 DEF BBInv, PutInv, MainInv

LEMMA StepInv ==
    ASSUME BBInv, [Next]_vars
    PROVE  BBInv'
<1>1. CASE RestoreStep
  <2>1. RestoreTypes' /\ RestoreInv'
    BY <1>1, RestoreChooseInv, RestoreListInv, ReadManifestInv, RestoreTarInv, RestoreEndsInv,
       RestoreFailsInv DEF RestoreStep
  <2> QED BY <1>1, <2>1, RestoreMain DEF BBInv
<1>2. CASE StartBackup \/ MainStep \/ FileStep \/ PutStep \/ Kill
  <2>1. PutInv' /\ MainInv' /\ Kept
    BY <1>2, StartBackupMain, KillMain, PutStepMain, ReceiveNewArchiveMain, OpenFileMain,
       ReceiveDataMain, WriteTakenMain, WriteFailsMain, ReceiveManifestMain,
       ReceiveCopyDoneMain, ReceiveErrorMain, CloseCurrentMain, JoinFileMain,
       FinishBaseBackupMain, MarkerMain, PutReturnsMain, ClosePipeMain
       DEF MainStep, ReceiveStep, FileStep
  <2>2. rst' = rst
    BY <1>2 DEF StartBackup, MainStep, ReceiveStep, FileStep, PutStep, Kill,
       ReceiveNewArchive, OpenFile, ReceiveData, WriteTaken, WriteFails, ReceiveManifest,
       ReceiveCopyDone, ReceiveFails, ReceiveUnexpected, CloseCurrent, JoinFile,
       FinishBaseBackup, MarkerBegins, MarkerEnds, PutReturns, ClosePipe
  <2> QED BY <2>1, <2>2, RestoreUntouched DEF BBInv
<1>3. CASE UNCHANGED vars
  <2>1. UNCHANGED putVars /\ UNCHANGED mainVars /\ rst' = rst
    BY <1>3 DEF vars
  <2>2. PutInv'
    BY <2>1, PutUnchanged DEF BBInv, PutInv, PutTypes, putVars, pipeVars, s3Vars
  <2>3. UNCHANGED <<pc, after, bk, cur, gpc, putErr, srv, manifest, size, marker, result,
                    objects, bpc, name>>
    BY <2>1 DEF putVars, mainVars
  <2>4. MainTypes' /\ FileInv' /\ PointInv'
    BY <2>3 DEF BBInv, MainInv, MainTypes, FileInv, PointInv, Returned, Pending, Current
  <2>5. AccountInv'
    BY <2>1, <2>3, AccountMoves DEF Going, Failing, Pending, Chunks, putVars
  <2>6. MarkerInv' /\ Kept
    BY <2>3 DEF BBInv, MainInv, MarkerInv, Stored, Kept
  <2> QED BY <2>1, <2>2, <2>4, <2>5, <2>6, RestoreUntouched DEF BBInv, MainInv
<1> QED BY <1>1, <1>2, <1>3 DEF Next

(***************************************************************************)
(* The account of the chunks holds in every reachable state.               *)
(***************************************************************************)
THEOREM BaseBackupInvariant == Spec => []BBInv
<1>1. Init => BBInv
  BY InitInv
<1>2. BBInv /\ [Next]_vars => BBInv'
  BY StepInv
<1> QED BY <1>1, <1>2, PTL DEF Spec

(***************************************************************************)
(* Types: no pipe and no part of a Put holds more than the server sent.    *)
(***************************************************************************)
THEOREM BaseBackupTyped == Spec => []BaseBackupTypeOK
<1>1. BBInv => BaseBackupTypeOK
  <2> SUFFICES ASSUME BBInv PROVE BaseBackupTypeOK
    OBVIOUS
  <2>1. buf + inner.data + got + outer.data <= MaxChunks
    BY PutNumbers DEF BBInv, PutInv, TransformInv, Chunks
  <2>2. rst.st \in {"idle", "chosen", "manifest", "untar", "ok", "nothing", "failed"}
    BY DEF BBInv, RestoreTypes
  <2> QED BY <2>1, <2>2 DEF BaseBackupTypeOK, BBInv, PutInv, PutTypes, MainInv,
         MainTypes, Contents
<1> QED BY <1>1, BaseBackupInvariant, PTL

(***************************************************************************)
(* The marker, which StreamBackup writes last, is only there when every    *)
(* archive the server sent is in the storage, whole, whatever failed and   *)
(* whenever the Put behind the pipe noticed.                               *)
(***************************************************************************)
THEOREM BackupsAreWhole == Spec => []MarkedIsWhole
<1>1. BBInv => MarkedIsWhole
  BY DEF BBInv, MainInv, MarkerInv, MarkedIsWhole, Stored
<1> QED BY <1>1, BaseBackupInvariant, PTL

(***************************************************************************)
(* A restore that reports success has read every archive, whole, although  *)
(* it listed and read the directory while a backup may be under way.       *)
(***************************************************************************)
THEOREM RestoresAreWhole == Spec => []RestoredIsWhole
<1>1. BBInv => RestoredIsWhole
  <2> SUFFICES ASSUME BBInv, rst.st = "ok", NEW a \in Archives
               PROVE  rst.got[a] = size[<<rst.b, a>>]
    BY DEF RestoredIsWhole
  <2>1. rst.b \in Backups /\ marker[rst.b] # "none"
    BY BaseBackupAssumption DEF BBInv, RestoreTypes, RestoreInv, Backups
  <2>2. objects[<<rst.b, a>>] = size[<<rst.b, a>>]
    BY <2>1 DEF BBInv, MainInv, MarkerInv, Stored
  <2>3. rst.got[a] = objects[<<rst.b, a>>]
    BY DEF BBInv, RestoreInv
  <2> QED BY <2>2, <2>3
<1> QED BY <1>1, BaseBackupInvariant, PTL

(***************************************************************************)
(* A backup that returned left no upload running behind it and no          *)
(* multipart upload open.                                                  *)
(***************************************************************************)
THEOREM UploadsJoined == Spec => []UploadsAreJoined
<1>1. BBInv => UploadsAreJoined
  BY DEF BBInv, MainInv, FileInv, Returned, PutInv, BackendInv, UploadsAreJoined
<1> QED BY <1>1, BaseBackupInvariant, PTL

-----------------------------------------------------------------------------
(***************************************************************************)
(* Pipeline and backend implement ObjectStore.  AbstractPut hides where a  *)
(* chunk is: the ones the transform has taken are `given', and the end it  *)
(* wrote to the inner pipe is the end of the source.                       *)
(***************************************************************************)
StoreStep == Store!Next \/ UNCHANGED Store!vars

\* What AbstractPut is made of did not change.
LEMMA PutHidden ==
    ASSUME PutInv, UNCHANGED <<backend, objects, name, inner, tpc, buf, bpc, got>>
    PROVE  StoreStep
    BY DEF StoreStep, Store!vars, AbstractPut, IsS3, Returned

\* AbstractPut while the Put runs, and its fields.
LEMMA RunningPut ==
    ASSUME ~Returned
    PROVE  /\ AbstractPut = [name |-> name, given |-> buf + inner.data + got,
                             end |-> IF tpc = "copy" THEN "open"
                                     ELSE IF inner.w = "err" THEN "error" ELSE "eof",
                             res |-> "running"]
           /\ AbstractPut.name = name
           /\ AbstractPut.given = buf + inner.data + got
           /\ tpc = "copy" => AbstractPut.end = "open"
           /\ AbstractPut.res = "running"
           /\ Store!Running
    BY DEF AbstractPut, Store!Running

LEMMA ReturnedPut ==
    ASSUME Returned
    PROVE  AbstractPut = Store!Result(name, bpc) /\ ~Store!Running
    BY DEF AbstractPut, Store!Result, Store!Running, Returned

LEMMA GoneIsCrash ==
    ASSUME PutInv, PutGone
    PROVE  StoreStep
<1>1. AbstractPut' = Store!Result(name, "none") /\ AbstractPut.name = name
  BY DEF PutGone, AbstractPut, Store!Result, Returned
<1>2. Store!Crash
  BY <1>1 DEF Store!Crash, PutGone, IsS3
<1> QED BY <1>2 DEF StoreStep, Store!Next

LEMMA BeginIsBegin ==
    ASSUME PutInv, NEW n \in Names, PutBegin(n)
    PROVE  StoreStep
<1>1. ~Store!Running
  BY ReturnedPut DEF PutBegin
<1>2. AbstractPut' = Store!Result(n, "running")
  BY OpenPipeFacts, PutNumbers DEF PutInv, PutBegin, AbstractPut, Store!Result, Returned
<1>3. Store!Begin
  BY <1>1, <1>2 DEF Store!Begin, PutBegin, IsS3
<1> QED BY <1>3 DEF StoreStep, Store!Next

\* A chunk is taken from the source: Take.  The source ends: SourceEnds.
LEMMA TransformIsSource ==
    ASSUME PutInv, TransformStep
    PROVE  StoreStep
<1>1. UNCHANGED <<backend, objects, name, bpc, got>>
  BY DEF TransformStep, TransformRead, TransformEnd, TransformClose, TransformFails
<1>2. CASE Returned
  BY <1>1, <1>2 DEF StoreStep, Store!vars, AbstractPut, IsS3, Returned
<1>3. CASE ~Returned
  <2>0. (~Returned)' /\ UNCHANGED <<objects, IsS3>>
    BY <1>1, <1>3 DEF Returned, IsS3
  <2>1. CASE TransformRead
    <3>1. tpc = "copy" /\ tpc' = "copy" /\ outer.data = 1
      BY <2>1, PutNumbers DEF TransformRead, TCanStep, PutInv, TransformInv
    <3>2. buf' + inner'.data + got' = buf + inner.data + got + 1
      <4>1. outer'.data = 0
        BY <2>1, PipeData, PutNumbers DEF TransformRead, PutInv, PutTypes
      <4>2. Chunks' = Chunks /\ PutInv'
        BY <2>1, TransformReadInv DEF PutFrame
      <4>3. PutTypes /\ PutTypes'
        BY <4>2 DEF PutInv
      <4>4. /\ buf \in Nat /\ inner.data \in Nat /\ got \in Nat
            /\ buf' \in Nat /\ inner'.data \in Nat /\ got' \in Nat
        <5>1. inner' \in Pipes /\ buf' \in 0..MaxChunks /\ got' \in 0..MaxChunks
          BY <4>3 DEF PutTypes
        <5> QED BY <4>3, <5>1, PutNumbers, PipeFacts
      <4> QED BY <3>1, <4>1, <4>2, <4>4 DEF Chunks
    <3>3. AbstractPut.given + 1 <= MaxChunks /\ AbstractPut.given \in Nat
      BY <1>3, <3>1, RunningPut, PutNumbers DEF PutInv, TransformInv, Chunks
    <3>4. AbstractPut' = [AbstractPut EXCEPT !.given = AbstractPut.given + 1]
      BY <1>1, <1>3, <2>0, <3>1, <3>2 DEF AbstractPut
    <3>5. Store!Take
      BY <1>3, <2>0, <3>1, <3>3, <3>4, RunningPut, PutNumbers DEF Store!Take, PutInv
    <3> QED BY <3>5 DEF StoreStep, Store!Next
  <2>2. CASE TransformEnd
    <3>1. tpc = "copy" /\ tpc' = "close" /\ inner.w = "open" /\ inner.data = 0 /\ buf' = 0
      BY <2>2 DEF TransformEnd, TCanStep, PutInv, TransformInv
    <3>2. inner'.data = buf /\ inner'.w = "open"
      BY <2>2, <3>1, PipeData DEF TransformEnd, PutInv, PutTypes
    <3>3. buf' + inner'.data + got' = buf + inner.data + got
      BY <3>1, <3>2, <1>1, PutNumbers DEF PutInv
    <3>4. AbstractPut' = [AbstractPut EXCEPT !.end = "eof"]
      BY <1>1, <1>3, <2>0, <3>1, <3>2, <3>3 DEF AbstractPut
    <3>5. Store!SourceEnds
      BY <1>3, <2>0, <3>1, <3>4, RunningPut DEF Store!SourceEnds
    <3> QED BY <3>5 DEF StoreStep, Store!Next
  <2>3. CASE TransformClose
    <3>1. tpc = "close" /\ tpc' = "done" /\ inner.w = "open" /\ buf' = buf
      BY <2>3 DEF TransformClose, PutInv, TransformInv
    <3>2. inner'.data = inner.data /\ inner'.w = "eof"
      BY <2>3, PipeEnd DEF TransformClose, PutInv, PutTypes
    <3>3. AbstractPut' = AbstractPut
      BY <1>1, <1>3, <2>0, <3>1, <3>2 DEF AbstractPut
    <3> QED BY <3>3, <2>0 DEF StoreStep, Store!vars
  <2>4. CASE TransformFails
    <3>1. tpc = "copy" /\ tpc' = "done" /\ buf' = buf
      BY <2>4 DEF TransformFails, TCanStep
    <3>2. inner'.data = inner.data /\ inner'.w = "err"
      BY <2>4, PipeEnd DEF TransformFails, PutInv, PutTypes
    <3>3. AbstractPut' = [AbstractPut EXCEPT !.end = "error"]
      BY <1>1, <1>3, <2>0, <3>1, <3>2 DEF AbstractPut
    <3>4. Store!SourceEnds
      BY <1>3, <2>0, <3>1, <3>3, RunningPut DEF Store!SourceEnds
    <3> QED BY <3>4 DEF StoreStep, Store!Next
  <2> QED BY <2>1, <2>2, <2>3, <2>4 DEF TransformStep
<1> QED BY <1>2, <1>3

\* The steps of the backend while it still runs afterwards: nothing, or Expose.
LEMMA BackendGoesOn ==
    ASSUME PutInv, (~Returned)', ~Returned,
           UNCHANGED <<backend, name, tpc, buf>>,
           inner'.w = inner.w, inner'.data + got' = inner.data + got,
           inner'.data \in Nat, got' \in Nat,
           objects' = objects \/ (/\ objects' = [objects EXCEPT ![name] = got']
                                  /\ IsS3 => inner.w = "eof" /\ got' = got)
    PROVE  StoreStep
<1>1. buf' + inner'.data + got' = buf + inner.data + got
  BY PutNumbers DEF PutInv
<1>2. AbstractPut' = AbstractPut /\ IsS3' = IsS3
  BY <1>1 DEF AbstractPut, IsS3
<1>3. CASE objects' = objects
  BY <1>2, <1>3 DEF StoreStep, Store!vars
<1>4. CASE /\ objects' = [objects EXCEPT ![name] = got']
           /\ IsS3 => inner.w = "eof" /\ got' = got
  <2>1. got' \in 0..AbstractPut.given
    BY <1>1, RunningPut, PutNumbers DEF PutInv
  <2>2. ASSUME IsS3
        PROVE  AbstractPut.end = "eof" /\ got' = AbstractPut.given
    <3>1. inner.w = "eof" /\ tpc = "done" /\ buf = 0 /\ inner.data = 0
      BY <2>2, <1>4 DEF PutInv, TransformInv, PutTypes
    <3> QED BY <2>2, <1>4, <3>1, RunningPut, PutNumbers DEF PutInv, AbstractPut
  <2>3. Store!Show
    BY <1>4, <2>1, <2>2, RunningPut DEF Store!Show
  <2>4. Store!Expose
    BY <1>2, <2>3, RunningPut DEF Store!Expose
  <2> QED BY <2>4 DEF StoreStep, Store!Next
<1> QED BY <1>3, <1>4

\* The Put fails: Fail.
LEMMA BackendFails ==
    ASSUME PutInv, ~Returned, bpc' = "err", UNCHANGED <<backend, name, inner, tpc, buf, got>>,
           objects' = objects \/ (/\ objects' = [objects EXCEPT ![name] = got]
                                  /\ inner.w = "eof")
    PROVE  StoreStep
<1>1. AbstractPut' = Store!Result(name, "err") /\ IsS3' = IsS3
  BY DEF AbstractPut, Store!Result, Returned, IsS3
<1>2. CASE objects' = objects
  BY <1>1, <1>2, RunningPut DEF StoreStep, Store!Next, Store!Fail
<1>3. CASE objects' = [objects EXCEPT ![name] = got] /\ inner.w = "eof"
  <2>1. tpc = "done" /\ buf = 0 /\ inner.data = 0
    BY <1>3 DEF PutInv, TransformInv, PutTypes
  <2>2. AbstractPut.end = "eof" /\ got = AbstractPut.given
    BY <1>3, <2>1, RunningPut, PutNumbers DEF PutInv, AbstractPut
  <2>3. got \in 0..AbstractPut.given
    BY <2>2, PutNumbers DEF PutInv
  <2>4. Store!Show
    BY <1>3, <2>2, <2>3, RunningPut DEF Store!Show
  <2> QED BY <1>1, <2>4, RunningPut DEF StoreStep, Store!Next, Store!Fail
<1> QED BY <1>2, <1>3

LEMMA CommitIsSucceed ==
    ASSUME PutInv, Commit
    PROVE  StoreStep
<1>1. ~Returned /\ inner.w = "eof" /\ bpc' = "ok" /\ UNCHANGED <<backend, name, got>>
  BY DEF Commit, Returned, PutInv, BackendInv
<1>2. tpc = "done" /\ buf = 0 /\ inner.data = 0
  BY <1>1 DEF PutInv, TransformInv, PutTypes
<1>3. AbstractPut.end = "eof" /\ got = AbstractPut.given
  BY <1>1, <1>2, RunningPut, PutNumbers DEF PutInv, AbstractPut
<1>4. objects' = [objects EXCEPT ![name] = got]
  BY DEF Commit, PutInv, PutTypes, BackendInv
<1>5. AbstractPut' = Store!Result(name, "ok") /\ IsS3' = IsS3
  BY <1>1 DEF AbstractPut, Store!Result, Returned, IsS3
<1>6. Store!Succeed
  BY <1>1, <1>3, <1>4, <1>5, RunningPut DEF Store!Succeed
<1> QED BY <1>6 DEF StoreStep, Store!Next

LEMMA BackendIsStore ==
    ASSUME PutInv, BackendStep
    PROVE  StoreStep
<1> USE PutNumbers DEF pipeVars
<1>1. CASE BackendBegin
  <2>1. got = 0
    BY <1>1 DEF BackendBegin, PutInv, BackendInv
  <2> QED BY <1>1, <2>1, BackendGoesOn DEF BackendBegin, Returned, PutInv
<1>2. CASE BackendRead
  <2>1. PutInv' /\ Chunks' = Chunks
    BY <1>2, BackendReadInv DEF PutFrame
  <2>2. PutTypes /\ PutTypes'
    BY <2>1 DEF PutInv
  <2>3. inner'.data \in Nat /\ got' \in Nat /\ inner.data \in Nat /\ got \in Nat
    <3>1. inner' \in Pipes /\ got' \in 0..MaxChunks
      BY <2>2 DEF PutTypes
    <3> QED BY <2>2, <3>1, PutNumbers, PipeFacts
  <2>4. /\ UNCHANGED <<backend, name, tpc, buf, outer>> /\ ~Returned /\ (~Returned)'
        /\ objects' = objects \/ (objects' = [objects EXCEPT ![name] = got'] /\ ~IsS3)
    BY <1>2 DEF BackendRead, Returned
  <2>5. inner'.data + got' = inner.data + got
    BY <2>1, <2>2, <2>3, <2>4 DEF Chunks
  <2>6. inner'.w = inner.w
    BY <1>2 DEF BackendRead, PutInv, PutTypes, Pipes
  <2> QED BY <2>3, <2>4, <2>5, <2>6, BackendGoesOn
<1>3. CASE BackendEOF
  BY <1>3, BackendGoesOn DEF BackendEOF, Returned, PutInv, s3Vars
<1>4. CASE BackendReadFails
  BY <1>4, BackendGoesOn, BackendFails DEF BackendReadFails, Returned, PutInv, s3Vars
<1>5. CASE UploadPart
  BY <1>5, BackendGoesOn DEF UploadPart, Returned, PutInv
<1>6. CASE Commit
  BY <1>6, CommitIsSucceed
<1>7. CASE PutCallFails
  <2>1. /\ ~Returned /\ bpc' \in {"abort", "err"}
        /\ UNCHANGED <<backend, name, inner, tpc, buf, got>>
        /\ objects' = objects \/ (objects' = [objects EXCEPT ![name] = got] /\ bpc = "commit")
    BY <1>7 DEF PutCallFails, Returned
  <2>2. bpc = "commit" => inner.w = "eof"
    BY DEF PutInv, BackendInv
  <2>3. CASE bpc' = "abort"
    BY <2>1, <2>2, <2>3, BackendGoesOn DEF Returned, PutInv
  <2>4. CASE bpc' = "err"
    BY <2>1, <2>2, <2>4, BackendFails
  <2> QED BY <2>1, <2>3, <2>4
<1>8. CASE Abort
  <2>1. /\ ~Returned /\ bpc' \in {"commit", "err"}
        /\ UNCHANGED <<backend, name, inner, tpc, buf, got, objects>>
    BY <1>8 DEF Abort, MustAbort, Returned
  <2>2. CASE bpc' = "commit"
    BY <2>1, <2>2, BackendGoesOn DEF Returned, PutInv
  <2>3. CASE bpc' = "err"
    BY <2>1, <2>3, BackendFails
  <2> QED BY <2>1, <2>2, <2>3
<1> QED BY <1>1, <1>2, <1>3, <1>4, <1>5, <1>6, <1>7, <1>8 DEF BackendStep

LEMMA StepImplementsStore ==
    ASSUME BBInv, [Next]_vars
    PROVE  StoreStep
<1>0. PutInv
  BY DEF BBInv
<1>1. CASE StartBackup \/ Kill
  BY <1>0, <1>1, GoneIsCrash DEF StartBackup, Kill
<1>2. CASE OpenFile
  <2>1. PICK n \in Names : n = Current
    BY <1>2, Bounds DEF OpenFile, BBInv, MainInv, PointInv, Pending, Current
  <2>2. PutBegin(n)
    BY <1>2, <2>1 DEF OpenFile
  <2> QED BY <1>0, <2>2, BeginIsBegin
<1>3. CASE PutStep
  BY <1>0, <1>3, TransformIsSource, BackendIsStore DEF PutStep
<1>4. CASE (MainStep /\ ~OpenFile) \/ FileStep \/ RestoreStep \/ UNCHANGED vars
  <2>1. UNCHANGED <<backend, objects, name, inner, tpc, buf, bpc, got>>
    BY <1>4 DEF MainStep, ReceiveStep, FileStep, RestoreStep,
       ReceiveNewArchive, ReceiveData, WriteTaken, WriteFails, ReceiveManifest,
       ReceiveCopyDone, ReceiveFails, ReceiveUnexpected, CloseCurrent, JoinFile,
       FinishBaseBackup, MarkerBegins, MarkerEnds, PutReturns, ClosePipe,
       RestoreChoose, RestoreList, ReadManifest, RestoreTar, RestoreEnds, RestoreFails,
       SourceWrite, SourceClose, putVars, pipeVars, vars
  <2> QED BY <1>0, <2>1, PutHidden
<1> QED BY <1>1, <1>2, <1>3, <1>4 DEF Next

(***************************************************************************)
(* Refinement: the transform goroutine, the pipes and the Put of any       *)
(* backend, as the backup drives them, implement the store that the users  *)
(* of Storage.Put rely on.                                                 *)
(***************************************************************************)
THEOREM PipelineIsAStore == Spec => PutImplementsStore
<1>1. Init => Store!Init
  <2> SUFFICES ASSUME Init PROVE Store!Init
    OBVIOUS
  <2>1. name \in Names
    BY PutAssumption DEF Init, PutInit
  <2>2. AbstractPut = Store!Result(name, "none")
    BY DEF Init, PutInit, AbstractPut, Returned, Store!Result
  <2>3. IsS3 \in BOOLEAN
    BY DEF IsS3
  <2> QED BY <2>1, <2>2, <2>3 DEF Store!Init, Init, PutInit, Store!NoObject, NoObject
<1>2. BBInv /\ [Next]_vars => [Store!Next]_(Store!vars)
  BY StepImplementsStore DEF StoreStep
<1> QED BY <1>1, <1>2, BaseBackupInvariant, PTL DEF Spec, PutImplementsStore, Store!Spec
=================================================================================
