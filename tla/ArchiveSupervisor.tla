---------------------------- MODULE ArchiveSupervisor ----------------------------
(***************************************************************************)
(* The archive supervisor (receivesv/supervisor.go, upload.go) beside the  *)
(* receiver, in the same process and over the same receive directory.  At  *)
(* every tick it lists the directory, leaves out the file the receiver has *)
(* open, and lets MaxConcurrency workers upload the rest; a file whose     *)
(* upload succeeded is removed.                                            *)
(*                                                                         *)
(* Abstractions.                                                           *)
(*  - Storage.Put either stores the whole content or fails.  A failed Put  *)
(*    of the local backend leaves a torn object (os.Create truncates, the  *)
(*    copy stops somewhere); TornPuts says whether the backend does that.  *)
(*  - The archive keeps what a successful Put stored.                      *)
(*  - Listing and filtering is one step: a file that appears later is not  *)
(*    in the list, one that goes away fails to open or to be removed.      *)
(*  - The archive is no part of what findStreamingStart walks (remote, or  *)
(*    compressed or encrypted), and an unlink does not make its walk fail: *)
(*    the fault "walk" stands for that.                                    *)
(*  - A power failure is not modelled here, nor is the ticker's period.    *)
(***************************************************************************)
EXTENDS WalReceiver, FiniteSets

CONSTANTS
    MaxConcurrency,   \* receiver.uploader.max_concurrency
    MaxPutFailures,   \* bound: failing uploads
    TornPuts          \* a failed Put leaves a truncated object behind

ASSUME UploaderAssumption ==
    /\ MaxConcurrency \in Nat
    /\ MaxPutFailures \in Nat
    /\ TornPuts \in BOOLEAN

\* uploadFiles starts one worker when the option is not positive.
WorkerCount == IF MaxConcurrency = 0 THEN 1 ELSE MaxConcurrency

\* The base name of a file: what it is, and the segment (or the timeline) it is about.
Names == {"partial", "complete", "history"} \X Files
NoObject == -1

VARIABLES
    filesChan,     \* names collected, not yet taken by a worker
    opened,        \* names a worker has open and is uploading
    uploaded,      \* names stored by Put, about to be removed
    archive,       \* archive[n]: bytes of the object, NoObject, or -2 for a torn one
    putFailures

upVars == <<filesChan, opened, uploaded, archive, putFailures>>
allVars == <<vars, upVars>>

Torn == -2

Exists(n) ==
    CASE n[1] = "partial" -> PartialVisible(n[2])
      [] n[1] = "complete" -> CompleteVisible(n[2])
      [] OTHER -> n[2][2] = 0 /\ hist[n[2][1]] # "none"

\* CurrentOpenWALFileName is the base name of a file: only a set walfile has one.
IsCurrentlyOpen(n) == n[1] = "partial" /\ walfile.st # "nil" /\ walfile.f = n[2]

Running == pc # "exited"
Idle == filesChan = {} /\ opened = {} /\ uploaded = {}

\* Mutant: a tick does not wait for the upload job of the tick before.
PerformUploadsOverlapping ==
    /\ Running /\ ~ctxDone
    /\ filesChan' = {n \in Names : Exists(n) /\ ~IsCurrentlyOpen(n)}
    /\ filesChan' # {}
    /\ UNCHANGED <<vars, opened, uploaded, archive, putFailures>>

\* Mutant: what has a name in the archive is not uploaded again.
PerformUploadsOnce ==
    /\ Running /\ ~ctxDone /\ Idle
    /\ filesChan' = {n \in Names : Exists(n) /\ ~IsCurrentlyOpen(n) /\ archive[n] = NoObject}
    /\ filesChan' # {}
    /\ UNCHANGED <<vars, opened, uploaded, archive, putFailures>>

\* A tick: performUploads lists the directory and filterFilesToUpload picks from it.
PerformUploads ==
    /\ Running /\ ~ctxDone /\ Idle
    /\ filesChan' = {n \in Names : Exists(n) /\ ~IsCurrentlyOpen(n)}
    /\ filesChan' # {}
    /\ UNCHANGED <<vars, opened, uploaded, archive, putFailures>>

\* A worker takes a name and opens the file; a name that is gone is an error.
TakeFile(n) ==
    /\ Running
    /\ n \in filesChan
    /\ Cardinality(opened \cup uploaded) < WorkerCount
    /\ filesChan' = filesChan \ {n}
    /\ opened' = IF Exists(n) /\ ~ctxDone THEN opened \cup {n} ELSE opened
    /\ UNCHANGED <<vars, uploaded, archive, putFailures>>

\* What a worker reads from the file it has open, renamed since or not.
Content(n) ==
    IF n[1] = "partial" /\ PartialVisible(n[2]) THEN part[n[2]].data ELSE WalSegSz

PutFile(n) ==
    /\ Running
    /\ n \in opened
    /\ archive' = [archive EXCEPT ![n] = Content(n)]
    /\ opened' = opened \ {n}
    /\ uploaded' = uploaded \cup {n}
    /\ UNCHANGED <<vars, filesChan, putFailures>>

\* Mutant: the source is removed although the upload failed.
PutFailsRemoves(n) ==
    /\ Running
    /\ n \in opened
    /\ putFailures < MaxPutFailures
    /\ putFailures' = putFailures + 1
    /\ archive' = IF TornPuts THEN [archive EXCEPT ![n] = Torn] ELSE archive
    /\ opened' = opened \ {n}
    /\ uploaded' = uploaded \cup {n}
    /\ UNCHANGED <<vars, filesChan>>

\* The upload fails: the file is closed and not removed.
PutFails(n) ==
    /\ Running
    /\ n \in opened
    /\ putFailures < MaxPutFailures
    /\ putFailures' = putFailures + 1
    /\ archive' = IF TornPuts THEN [archive EXCEPT ![n] = Torn] ELSE archive
    /\ opened' = opened \ {n}
    /\ UNCHANGED <<vars, filesChan, uploaded>>

\* os.Remove, by name: a name that is gone is an error and nothing happens.
RemoveFile(n) ==
    LET f == n[2] IN
    /\ Running
    /\ n \in uploaded
    /\ uploaded' = uploaded \ {n}
    /\ part' = IF \/ n[1] = "partial" /\ PartialVisible(f)
                  \/ n[1] = "complete" /\ part[f].st = "renamed"
                 THEN [part EXCEPT ![f] = NoPart] ELSE part
    /\ full' = IF n[1] = "complete" THEN [full EXCEPT ![f] = FALSE] ELSE full
    /\ hist' = IF n[1] = "history" THEN [hist EXCEPT ![f[1]] = "none"] ELSE hist
    /\ UNCHANGED <<serverVars, slot, connVars, pc, streamVars, left, walfile, eoc, ctxDone,
                   ghostVars, faults, filesChan, opened, archive, putFailures>>

UploaderStep ==
    \/ PerformUploads
    \/ \E n \in filesChan : TakeFile(n)
    \/ \E n \in opened : PutFile(n)
    \/ \E n \in opened : PutFails(n)
    \/ \E n \in uploaded : RemoveFile(n)

\* A step of the receiver or of its surroundings.  When it ends the process, the
\* workers end with it and a Put under way is cut short.
OtherStep ==
    /\ Next
    /\ IF pc' = "exited" /\ pc # "exited"
         THEN /\ filesChan' = {} /\ opened' = {} /\ uploaded' = {}
              /\ archive' = [n \in Names |-> IF TornPuts /\ n \in opened THEN Torn
                                             ELSE archive[n]]
         ELSE UNCHANGED <<filesChan, opened, uploaded, archive>>
    /\ UNCHANGED putFailures

ArchiveInit ==
    /\ Init
    /\ filesChan = {} /\ opened = {} /\ uploaded = {}
    /\ archive = [n \in Names |-> NoObject]
    /\ putFailures = 0

ArchiveNext == UploaderStep \/ OtherStep

ArchiveSpec == ArchiveInit /\ [][ArchiveNext]_allVars

(***************************************************************************)
(* Fairness: the ticker and the workers go on, a process that ended is     *)
(* started again; the number of failing uploads is bounded.                *)
(***************************************************************************)
ArchiveFairness ==
    /\ WF_allVars(UploaderStep)
    /\ WF_allVars(Restart /\ OtherStep)

FairArchiveSpec == ArchiveSpec /\ ArchiveFairness

-----------------------------------------------------------------------------
(***************************************************************************)
(* The type of the uploader's state.  A file is in one pair of hands: an   *)
(* upload job joins its workers before the next tick lists the directory.  *)
(***************************************************************************)
ArchiveTypeOK ==
    /\ filesChan \subseteq Names /\ opened \subseteq Names /\ uploaded \subseteq Names
    /\ archive \in [Names -> {Torn, NoObject} \cup 0..WalSegSz]
    /\ putFailures \in 0..MaxPutFailures
    /\ opened \cap uploaded = {} /\ filesChan \cap (opened \cup uploaded) = {}

\* Byte lsn can be read from the archive, from a complete or a partial segment.
Archived(lsn) ==
    \E t \in TLIs, kind \in {"partial", "complete"} :
        /\ t <= srvTli /\ InHistory(t, lsn)
        /\ archive[<<kind, <<t, Seg(lsn)>>>>] > Off(lsn)

(***************************************************************************)
(* Every byte the receiver reported flushed is in the receive directory or *)
(* in the archive.                                                         *)
(***************************************************************************)
AckedIsStoredOrArchived ==
    \A l \in LSNs : base <= l /\ l < Lesser(acked, srvEnd) => Stored(l) \/ Archived(l)

(***************************************************************************)
(* Uploading, removing and receiving again never lose WAL: below the       *)
(* segment the slot protects, every byte is in the directory or the        *)
(* archive, failing uploads and torn objects notwithstanding.              *)
(***************************************************************************)
NothingLostToUploads ==
    base > 0 /\ slot > 0 =>
        \A l \in LSNs : base <= l /\ l < Lesser(SegStart(slot), srvEnd) =>
            Stored(l) \/ Archived(l)

(***************************************************************************)
(* A complete segment leaves the receive directory only for the archive    *)
(* ("DO NOT REMOVE SOURCE WHEN UPLOAD IS FAILED").                         *)
(***************************************************************************)
RemovedOnlyWhenArchived ==
    [][\A f \in Files :
          CompleteVisible(f) /\ ~CompleteVisible(f)' =>
              archive[<<"complete", f>>] = WalSegSz]_allVars

(***************************************************************************)
(* The archive catches up: over failing uploads, of this file or another,  *)
(* and restarts, every complete segment of the directory is whole in the   *)
(* archive again and again.  What fails in one upload job is collected by  *)
(* the next, and a torn object is overwritten.                             *)
(***************************************************************************)
CompleteIsArchived ==
    []<>(\A f \in Files : CompleteVisible(f) => archive[<<"complete", f>>] = WalSegSz)
-----------------------------------------------------------------------------
(***************************************************************************)
(* The mapping to SegmentLife: what the directory and the archive show of  *)
(* a complete segment.  An upload of the *.partial is another object.      *)
(***************************************************************************)
DirState(f) ==
    CASE CompleteVisible(f) -> "complete"
      [] ~CompleteVisible(f) /\ PartialVisible(f) -> "receiving"
      [] OTHER -> "absent"

ObjectState(f) ==
    CASE archive[<<"complete", f>>] = WalSegSz -> "whole"
      [] archive[<<"complete", f>>] = NoObject -> "none"
      [] OTHER -> "torn"

Life == INSTANCE SegmentLife WITH
            Segments <- Files,
            dir <- [f \in Files |-> DirState(f)],
            object <- [f \in Files |-> ObjectState(f)]

(***************************************************************************)
(* Receiver and uploader together lead every segment through that life:    *)
(* it goes to the archive from its final name only, its object is written  *)
(* again only while the file is there, and the file goes when the object   *)
(* is whole.                                                               *)
(***************************************************************************)
ArchiveImplementsLife == Life!Spec
=================================================================================
