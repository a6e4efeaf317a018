------------------------------- MODULE BaseBackup -------------------------------
(***************************************************************************)
(* A base backup (basebackup/backup): the copy protocol of BASE_BACKUP,    *)
(* one StreamingFile per archive over StoragePut, the marker written last, *)
(* and a restore (basebackup/restore) that reads the same storage from a   *)
(* process of its own.                                                     *)
(*                                                                         *)
(* Three goroutines work on an archive: the loop of streamBaseBackup (pc), *)
(* the one NewStreamingFile starts (gpc, and bpc while its Put runs) and   *)
(* the transform goroutine of StoragePut.                                  *)
(*                                                                         *)
(* Abstractions.                                                           *)
(*  - The marker, a Put of a few bytes from memory, is two steps of which  *)
(*    each may fail; they rely on the contract of ObjectStore.             *)
(*  - Manifest data, progress reports and unknown CopyData are stuttering  *)
(*    steps.                                                               *)
(*  - A backup that failed may leave goroutines blocked on their pipes.    *)
(*    They change no later backup and are forgotten when one begins.       *)
(***************************************************************************)
EXTENDS StoragePut

CONSTANTS
    MaxBackups,    \* bound: backups begun
    MaxArchives    \* bound: archives of a backup: base.tar and the tablespaces

Backups == 1..MaxBackups
Archives == 1..MaxArchives     \* 1 is base.tar
Base == 1

ASSUME BaseBackupAssumption ==
    /\ MaxBackups \in Nat /\ MaxArchives \in Nat \ {0}
    /\ Names = Backups \X Archives

VARIABLES
    pc,        \* streamBaseBackup and StreamBackup
    after,     \* where closeCurrent returns to
    bk,        \* the backup being taken, or the last one
    cur,       \* curFile: its archive, or 0
    gpc,       \* the goroutine of curFile
    putErr,    \* StreamingFile.putErr
    srv,       \* archives the server has begun
    manifest,  \* it has begun the manifest
    size,      \* size[n]: chunks the server sent, NoObject before the archive begins
    marker,    \* marker[b]: <id>.json of backup b
    result,    \* how the last backup returned
    rst        \* the restore

mainVars == <<pc, after, bk, cur, gpc, putErr, srv, manifest, size, marker, result>>
vars == <<putVars, mainVars, rst>>

NoRestore == [st |-> "idle", b |-> 0, tars |-> {}, got |-> [a \in Archives |-> NoObject]]
Current == <<bk, srv>>
Goto(l) == pc' = l

-----------------------------------------------------------------------------
(***************************************************************************)
(* streamBaseBackup.                                                       *)
(***************************************************************************)
StartBackup ==
    /\ pc \in {"idle", "returned"}
    /\ bk < MaxBackups
    /\ bk' = bk + 1
    /\ Goto("receive")
    /\ PutGone
    /\ cur' = 0 /\ gpc' = "none" /\ putErr' = FALSE
    /\ srv' = 0 /\ manifest' = FALSE /\ result' = "none"
    /\ UNCHANGED <<faults, after, size, marker, rst>>

Close(next) == Goto("close") /\ after' = next

\* 'n': close the archive before, then open the next one.
ReceiveNewArchive ==
    /\ pc = "receive" /\ ~manifest /\ srv < MaxArchives
    /\ srv' = srv + 1
    /\ size' = [size EXCEPT ![<<bk, srv + 1>>] = 0]
    /\ Close("open")
    /\ UNCHANGED <<putVars, bk, cur, gpc, putErr, manifest, marker, result, rst>>

\* NewStreamingFile.
OpenFile ==
    /\ pc = "open"
    /\ cur' = srv
    /\ PutBegin(Current)
    /\ gpc' = "put" /\ putErr' = FALSE
    /\ Goto("receive")
    /\ UNCHANGED <<after, bk, srv, manifest, size, marker, result, rst>>

\* 'd': StreamingFile.Write looks at putErr first, then the pipe decides.
ReceiveData ==
    /\ pc = "receive" /\ ~manifest /\ cur # 0
    /\ size[Current] < MaxChunks
    /\ size' = [size EXCEPT ![Current] = @ + 1]
    /\ IF putErr \/ outer.w # "open" \/ outer.closed
         THEN Close("fail") /\ UNCHANGED putVars
         ELSE Goto("write") /\ SourceWrite /\ UNCHANGED after
    /\ UNCHANGED <<bk, cur, gpc, putErr, srv, manifest, marker, result, rst>>

WriteTaken ==
    /\ pc = "write" /\ outer.data = 0
    /\ Goto("receive")
    /\ UNCHANGED <<putVars, after, bk, cur, gpc, putErr, srv, manifest, size, marker, result,
                   rst>>

\* The pipe was closed under the writer.
WriteFails ==
    /\ pc = "write" /\ outer.data > 0 /\ (outer.w # "open" \/ outer.closed)
    /\ outer' = [outer EXCEPT !.data = 0]
    /\ Close("fail")
    /\ UNCHANGED <<backend, objects, name, inner, tpc, buf, bpc, got, s3Vars, faults,
                   bk, cur, gpc, putErr, srv, manifest, size, marker, result, rst>>

\* 'm'.
ReceiveManifest ==
    /\ pc = "receive" /\ ~manifest /\ srv > 0
    /\ manifest' = TRUE
    /\ Close("receive")
    /\ UNCHANGED <<putVars, bk, cur, gpc, putErr, srv, size, marker, result, rst>>

ReceiveCopyDone ==
    /\ pc = "receive" /\ manifest
    /\ Close("finish")
    /\ UNCHANGED <<putVars, bk, cur, gpc, putErr, srv, manifest, size, marker, result, rst>>

\* ReceiveMessage fails: the connection, or the context.
ReceiveFails ==
    /\ pc = "receive"
    /\ Fault
    /\ Close("fail")
    /\ UNCHANGED <<backend, objects, name, pipeVars, bpc, got, s3Vars, bk, cur, gpc, putErr,
                   srv, manifest, size, marker, result, rst>>

Return(r) == Goto("returned") /\ result' = r

\* Any other message, an ErrorResponse too, returns without closing curFile.
ReceiveUnexpected ==
    /\ pc = "receive"
    /\ Fault
    /\ Return("unexpected")
    /\ UNCHANGED <<backend, objects, name, pipeVars, bpc, got, s3Vars, after, bk, cur, gpc,
                   putErr, srv, manifest, size, marker, rst>>

\* closeCurrent with StreamingFile.Close: the end of the source, then wait for the Put.
CloseCurrent ==
    /\ pc = "close"
    /\ IF cur = 0
         THEN UNCHANGED putVars /\ (IF after = "fail" THEN Return("error")
                                    ELSE Goto(after) /\ UNCHANGED result)
         ELSE SourceClose("eof") /\ Goto("join") /\ UNCHANGED result
    /\ UNCHANGED <<after, bk, cur, gpc, putErr, srv, manifest, size, marker, rst>>

JoinFile ==
    /\ pc = "join" /\ gpc = "done"
    /\ cur' = IF putErr THEN cur ELSE 0
    /\ IF putErr \/ after = "fail" THEN Return("error") ELSE Goto(after) /\ UNCHANGED result
    /\ UNCHANGED <<putVars, after, bk, gpc, putErr, srv, manifest, size, marker, rst>>

\* FinishBaseBackup and the parsing of the manifest.
FinishBaseBackup ==
    /\ pc = "finish"
    /\ \/ Goto("marker") /\ UNCHANGED <<faults, result>>
       \/ Fault /\ Return("error")
    /\ UNCHANGED <<backend, objects, name, pipeVars, bpc, got, s3Vars, after, bk, cur, gpc,
                   putErr, srv, manifest, size, marker, rst>>

\* StreamBackup: the marker.  A store that is not atomic shows it unfinished, and a Put
\* that fails may have taken effect.
MarkerBegins ==
    /\ pc = "marker"
    /\ marker' = [marker EXCEPT ![bk] = IF IsS3 THEN @ ELSE "torn"]
    /\ Goto("putMarker")
    /\ UNCHANGED <<putVars, after, bk, cur, gpc, putErr, srv, manifest, size, result, rst>>

MarkerEnds ==
    /\ pc = "putMarker"
    /\ \/ marker' = [marker EXCEPT ![bk] = "whole"] /\ Return("ok") /\ UNCHANGED faults
       \/ Fault /\ Return("error") /\ UNCHANGED marker
       \/ Fault /\ Return("error") /\ marker' = [marker EXCEPT ![bk] = "whole"]
    /\ UNCHANGED <<backend, objects, name, pipeVars, bpc, got, s3Vars, after, bk, cur, gpc,
                   putErr, srv, manifest, size, rst>>

-----------------------------------------------------------------------------
(***************************************************************************)
(* The goroutine of NewStreamingFile, after its Put.                       *)
(***************************************************************************)
\* Mutant: done is closed before the error is recorded.
PutReturnsUnrecorded ==
    /\ gpc = "put" /\ bpc \in {"ok", "err"}
    /\ gpc' = "done"
    /\ UNCHANGED <<putVars, pc, after, bk, cur, putErr, srv, manifest, size, marker, result,
                   rst>>

PutReturns ==
    /\ gpc = "put" /\ bpc \in {"ok", "err"}
    /\ putErr' = (bpc = "err")
    /\ gpc' = "closing"
    /\ UNCHANGED <<putVars, pc, after, bk, cur, srv, manifest, size, marker, result, rst>>

\* Mutant: the pipe stays open when the Put is over.
ClosePipeNot ==
    /\ gpc = "closing"
    /\ gpc' = "done"
    /\ UNCHANGED <<putVars, pc, after, bk, cur, putErr, srv, manifest, size, marker, result,
                   rst>>

\* CloseWithError, the deferred pr.Close and close(done).
ClosePipe ==
    /\ gpc = "closing"
    /\ gpc' = "done"
    /\ outer' = [(IF putErr THEN ClosedWith(outer, "err") ELSE outer) EXCEPT !.closed = TRUE]
    /\ UNCHANGED <<backend, objects, name, inner, tpc, buf, bpc, got, s3Vars, faults,
                   pc, after, bk, cur, putErr, srv, manifest, size, marker, result, rst>>

-----------------------------------------------------------------------------
(***************************************************************************)
(* RestoreBaseBackup.                                                      *)
(***************************************************************************)
Exists(b) == marker[b] # "none" \/ \E a \in Archives : objects[<<b, a>>] # NoObject

\* The directory of the given id, or the newest one; marked or not.  An id that is not
\* there is an error; no id and no backups is a success that restores nothing.
RestoreChoose ==
    /\ rst.st = "idle"
    /\ \/ \E b \in Backups : Exists(b) /\ rst' = [rst EXCEPT !.st = "chosen", !.b = b]
       \/ \E b \in Backups : ~Exists(b) /\ rst' = [rst EXCEPT !.st = "failed"]
       \/ (\A b \in Backups : ~Exists(b)) /\ rst' = [rst EXCEPT !.st = "nothing"]
    /\ UNCHANGED <<putVars, mainVars>>

\* Mutant: a directory without a marker is restored, too.
RestoreListUnmarked ==
    /\ rst.st = "chosen"
    /\ rst' = [rst EXCEPT !.st = "untar",
                          !.tars = {a \in Archives : objects[<<rst.b, a>>] # NoObject}]
    /\ UNCHANGED <<putVars, mainVars>>

\* List and makeRestoreInfo; without a marker there is no manifest file.
RestoreList ==
    /\ rst.st = "chosen"
    /\ rst' = [rst EXCEPT !.st = IF marker[rst.b] = "none" THEN "failed" ELSE "manifest",
                          !.tars = {a \in Archives : objects[<<rst.b, a>>] # NoObject}]
    /\ UNCHANGED <<putVars, mainVars>>

\* readManifestFile: a marker that is cut off does not decode.
ReadManifest ==
    /\ rst.st = "manifest"
    /\ rst' = [rst EXCEPT !.st = IF marker[rst.b] = "whole" THEN "untar" ELSE "failed"]
    /\ UNCHANGED <<putVars, mainVars>>

\* Get and Untar, base.tar first.  A tar that is cut off may pass as a shorter one.
RestoreTar ==
    /\ rst.st = "untar"
    /\ IF Base \notin rst.tars
         THEN rst' = [rst EXCEPT !.st = "failed"]
         ELSE \E a \in {x \in rst.tars : rst.got[x] = NoObject} :
                /\ a = Base \/ rst.got[Base] # NoObject
                /\ rst' = [rst EXCEPT !.got[a] = objects[<<rst.b, a>>]]
    /\ UNCHANGED <<putVars, mainVars>>

RestoreEnds ==
    /\ rst.st = "untar" /\ Base \in rst.tars
    /\ \A a \in rst.tars : rst.got[a] # NoObject
    /\ rst' = [rst EXCEPT !.st = "ok"]
    /\ UNCHANGED <<putVars, mainVars>>

RestoreFails ==
    /\ rst.st \in {"chosen", "manifest", "untar"}
    /\ Fault
    /\ rst' = [rst EXCEPT !.st = "failed"]
    /\ UNCHANGED <<backend, objects, name, pipeVars, bpc, got, s3Vars, mainVars>>

-----------------------------------------------------------------------------
\* The process that takes the backup dies.
Kill ==
    /\ pc \notin {"idle", "returned"}
    /\ Fault
    /\ PutGone
    /\ Goto("idle")
    /\ cur' = 0 /\ gpc' = "none" /\ putErr' = FALSE /\ result' = "none"
    /\ UNCHANGED <<after, bk, srv, manifest, size, marker, rst>>

Init ==
    /\ PutInit
    /\ pc = "idle" /\ after = "fail" /\ bk = 0 /\ cur = 0
    /\ gpc = "none" /\ putErr = FALSE
    /\ srv = 0 /\ manifest = FALSE
    /\ size = [n \in Names |-> NoObject]
    /\ marker = [b \in Backups |-> "none"]
    /\ result = "none"
    /\ rst = NoRestore

ReceiveStep ==
    \/ ReceiveNewArchive \/ ReceiveData \/ ReceiveManifest \/ ReceiveCopyDone
    \/ ReceiveFails \/ ReceiveUnexpected
MainStep ==
    \/ ReceiveStep \/ OpenFile \/ WriteTaken \/ WriteFails \/ CloseCurrent \/ JoinFile
    \/ FinishBaseBackup \/ MarkerBegins \/ MarkerEnds
FileStep == PutReturns \/ ClosePipe
PutStep == (TransformStep \/ BackendStep) /\ UNCHANGED <<mainVars, rst>>
RestoreStep ==
    \/ RestoreChoose \/ RestoreList \/ ReadManifest \/ RestoreTar \/ RestoreEnds
    \/ RestoreFails

Next == StartBackup \/ MainStep \/ FileStep \/ PutStep \/ RestoreStep \/ Kill

Spec == Init /\ [][Next]_vars

(***************************************************************************)
(* Fairness: the goroutines run, the server sends its next message or the  *)
(* connection fails, and a call to the storage returns.                    *)
(***************************************************************************)
Fairness ==
    /\ WF_vars(MainStep) /\ WF_vars(FileStep)
    /\ WF_vars(TransformStep /\ UNCHANGED <<mainVars, rst>>)
    /\ WF_vars(BackendStep /\ UNCHANGED <<mainVars, rst>>)

FairSpec == Spec /\ Fairness

-----------------------------------------------------------------------------
MainPoints == {"idle", "receive", "open", "write", "close", "join", "finish", "marker",
               "putMarker", "returned"}

(***************************************************************************)
(* The type of the state.  No pipe and no part holds more than the server  *)
(* sent, and only a source that is still open is written to.               *)
(***************************************************************************)
BaseBackupTypeOK ==
    /\ backend \in Backends /\ objects \in [Names -> {NoObject} \cup 0..MaxChunks]
    /\ name \in Names /\ outer \in Pipes /\ inner \in Pipes
    /\ tpc \in {"off", "copy", "close", "done"} /\ buf \in 0..MaxChunks
    /\ bpc \in {"none", "begin", "read", "part", "commit", "abort", "ok", "err"}
    /\ got \in 0..MaxChunks /\ part \in 0..PartSize /\ nparts \in 0..MaxParts
    /\ mpu \in {"none", "open", "completed", "aborted", "orphan"} /\ faults \in 0..MaxFaults
    /\ pc \in MainPoints /\ after \in {"open", "receive", "finish", "fail"}
    /\ bk \in 0..MaxBackups /\ cur \in 0..MaxArchives /\ srv \in 0..MaxArchives
    /\ gpc \in {"none", "put", "closing", "done"} /\ putErr \in BOOLEAN
    /\ manifest \in BOOLEAN /\ size \in [Names -> {NoObject} \cup 0..MaxChunks]
    /\ marker \in [Backups -> {"none", "torn", "whole"}]
    /\ result \in {"none", "ok", "error", "unexpected"}
    /\ rst.st \in {"idle", "chosen", "manifest", "untar", "ok", "nothing", "failed"}
    /\ buf + inner.data + got + outer.data <= MaxChunks

(***************************************************************************)
(* A backup has a marker only when every archive the server sent is in the *)
(* storage, whole: a Put that fails early, behind the pipe, stops the      *)
(* backup before the marker.                                               *)
(***************************************************************************)
MarkedIsWhole ==
    \A b \in Backups : marker[b] # "none" => \A a \in Archives : objects[<<b, a>>] = size[<<b, a>>]

(***************************************************************************)
(* A restore that finds a backup and reports success has read every        *)
(* archive of it, whole, even when it began while the backup was still     *)
(* being taken.  (With nothing in the storage it also reports success.)    *)
(***************************************************************************)
RestoredIsWhole == rst.st = "ok" => \A a \in Archives : rst.got[a] = size[<<rst.b, a>>]

(***************************************************************************)
(* When a backup has returned, no upload of it is under way and no         *)
(* multipart upload whose id it has is left open, unless the server sent a *)
(* message of another kind (then curFile is not closed) or the abort       *)
(* itself failed.  A creation that is reported failed has no id to abort.  *)
(***************************************************************************)
UploadsAreJoined ==
    pc = "returned" /\ result # "unexpected" => gpc \in {"none", "done"} /\ mpu # "open"

(***************************************************************************)
(* Pipeline and backend together are a store as its users see it: nothing  *)
(* else than the bytes of a source read to its end is ever stored with     *)
(* success, and S3 shows no unfinished object.                             *)
(***************************************************************************)
PutImplementsStore == Store!Spec

(***************************************************************************)
(* A backup returns, whatever fails: no goroutine waits for a pipe that    *)
(* nobody serves.                                                          *)
(***************************************************************************)
BackupReturns == pc = "receive" ~> pc \in {"idle", "returned"}
=================================================================================
