------------------------- MODULE ArchiveSupervisorProofs -------------------------
(***************************************************************************)
(* The uploader beside the receiver never loses WAL, for every segment     *)
(* size, number of workers, of timelines, of failing uploads and of        *)
(* faults.                                                                 *)
(*                                                                         *)
(* The receiver alone keeps every byte it reported in its directory; the   *)
(* uploader takes names away, among them a *.partial the receiver is about *)
(* to open.  So the argument is about whole segments: below what the slot  *)
(* releases every segment is complete, in the directory or in the archive, *)
(* and completeness is never lost.  Of the receiver's own invariant only   *)
(* the shape is left, and that is taken over from WalReceiverShape.        *)
(***************************************************************************)
EXTENDS ArchiveSupervisor, WalReceiverShape

USE DEF serverVars, connVars, streamVars, fileVars, ghostVars, Goto, Fault

\* ArchiveSupervisor leaves the power failure out: an unflushed rename would be undone.
NoPower == "power" \notin Faults

\* Segment file f is complete, in the receive directory or in the archive.
Complete(f) == CompleteVisible(f) \/ archive[<<"complete", f>>] = WalSegSz

\* The segments that are complete on some timeline.
CompleteSegs == {s \in Segs : \E t \in TLIs : Complete(<<t, s>>)}

\* Every segment between positions b and x is one of cs.
DoneBelow(cs, b, x) == \A s \in Segs : b <= At(s) /\ At(s + 1) <= x => s \in cs

D(x) == DoneBelow(CompleteSegs, base, x)

-----------------------------------------------------------------------------
\* The archive's complete segments hold WAL of their own timeline only.
OwnInv ==
    \A f \in Files :
        archive[<<"complete", f>>] = WalSegSz =>
            f[1] <= srvTli /\ At(f[2] + 1) <= TimelineEnd(f[1])

\* The uploader: a complete segment being uploaded is there, one to be removed is archived.
UploadInv ==
    \A f \in Files :
        /\ <<"complete", f>> \in opened => CompleteVisible(f)
        /\ <<"complete", f>> \in uploaded => archive[<<"complete", f>>] = WalSegSz

\* What findStreamingStart may find can be trusted.
FoundInv ==
    \A f \in Files :
        /\ PartialVisible(f) => D(At(f[2]))
        /\ CompleteVisible(f) => D(At(f[2] + 1))

\* What the slot releases, or will.
ReleasedInv == D(inflight) /\ (base > 0 /\ slot > 0 => D(slot))

\* What the stream takes as flushed, and what lies below the file it writes.
FlushedInv ==
    /\ pc \in Streaming \cup {"history", "start"} => D(lastFlush)
    /\ pc \in {"history", "start"} => D(startPos)
    /\ pc \in {"loop", "recv", "data", "truncate", "reopen", "assign", "copydone"}
         /\ walfile.st = "nil" => D(blockPos)
    /\ HasFile => D(At(walfile.f[2]))

DoneInv == FoundInv /\ ReleasedInv /\ FlushedInv

ArcInv == ShapeInv /\ ArchiveTypeOK /\ UploadInv /\ OwnInv /\ DoneInv

-----------------------------------------------------------------------------
(***************************************************************************)
(* The receive directory under the uploader.                               *)
(***************************************************************************)
LEMMA NameParts ==
    ASSUME NEW n \in Names
    PROVE  /\ n[2] \in Files /\ n = <<n[1], n[2]>> /\ n[1] \in {"partial", "complete", "history"}
           /\ n[2][1] \in TLIs /\ n[2][2] \in Segs
  BY DEF Names, Files

LEMMA CompleteName ==
    ASSUME NEW f \in Files
    PROVE  <<"complete", f>> \in Names
  BY DEF Names

\* What os.Remove does to the segment files.
LEMMA RemoveFacts ==
    ASSUME ShapeInv, NEW n \in Names, RemoveFile(n)
    PROVE  /\ \A g \in Files : \/ part'[g] = part[g]
                               \/ part'[g] = NoPart /\ g = n[2] /\ part[g].st # "none"
           /\ \A g \in Files : full'[g] = full[g] \/ (~full'[g] /\ n = <<"complete", g>>)
           /\ \A g \in Files : n # <<"complete", g>> /\ part[g].st = "renamed" => part'[g] = part[g]
           /\ part' \in [Files -> Part] /\ full' \in [Files -> BOOLEAN]
           /\ hist' \in [TLIs -> {"none", "renamed", "durable"}]
           /\ UNCHANGED <<serverVars, slot, connVars, pc, streamVars, left, walfile, eoc, ctxDone,
                          ghostVars, faults>>
<1> DEFINE f == n[2]
<1>1. f \in Files /\ n = <<n[1], f>> /\ f[1] \in TLIs
  BY NameParts
<1>2. part \in [Files -> Part] /\ full \in [Files -> BOOLEAN]
      /\ hist \in [TLIs -> {"none", "renamed", "durable"}]
  BY DEF ShapeInv, TypeOK
<1>3. NoPart \in Part
  BY ConstantsAssumption DEF NoPart, Part, PartStates
<1>4. /\ part' \in [Files -> Part]
      /\ \A g \in Files : part'[g] = part[g] \/ (part'[g] = NoPart /\ g = f /\ part[g].st # "none")
      /\ \A g \in Files : n # <<"complete", g>> /\ part[g].st = "renamed" => part'[g] = part[g]
  <2>1. CASE n[1] = "partial" /\ PartialVisible(f)
    <3>1. part' = [part EXCEPT ![f] = NoPart]
      BY <2>1 DEF RemoveFile
    <3>2. part[f].st \in {"empty", "sized", "synced"}
      BY <2>1 DEF PartialVisible
    <3> QED
      BY <1>1, <1>2, <1>3, <3>1, <3>2
  <2>2. CASE n[1] = "complete" /\ part[f].st = "renamed"
    <3>1. part' = [part EXCEPT ![f] = NoPart]
      BY <2>2 DEF RemoveFile
    <3> QED
      BY <1>1, <1>2, <1>3, <2>2, <3>1
  <2>3. CASE ~(n[1] = "partial" /\ PartialVisible(f)) /\ ~(n[1] = "complete" /\ part[f].st = "renamed")
    <3>1. part' = part
      BY <2>3 DEF RemoveFile
    <3> QED
      BY <1>2, <3>1
  <2> QED  BY <2>1, <2>2, <2>3
<1>5. /\ full' \in [Files -> BOOLEAN]
      /\ \A g \in Files : full'[g] = full[g] \/ (~full'[g] /\ n = <<"complete", g>>)
  <2>1. CASE n[1] = "complete"
    <3>1. full' = [full EXCEPT ![f] = FALSE]
      BY <2>1 DEF RemoveFile
    <3> QED
      BY <1>1, <1>2, <2>1, <3>1
  <2>2. CASE n[1] # "complete"
    BY <1>2, <2>2 DEF RemoveFile
  <2> QED  BY <2>1, <2>2
<1>6. hist' \in [TLIs -> {"none", "renamed", "durable"}]
  BY <1>1, <1>2 DEF RemoveFile
<1> QED
  BY <1>4, <1>5, <1>6 DEF RemoveFile

\* The uploader keeps the shape: it only takes names away.
LEMMA ShapeRemove ==
    ASSUME ShapeInv, NEW n \in Names, RemoveFile(n)
    PROVE  ShapeInv'
<1>1. /\ \A g \in Files : part'[g] = part[g] \/ part'[g] = NoPart
      /\ \A g \in Files : full'[g] => full[g]
      /\ part' \in [Files -> Part] /\ full' \in [Files -> BOOLEAN]
      /\ hist' \in [TLIs -> {"none", "renamed", "durable"}]
      /\ UNCHANGED <<serverVars, slot, connVars, pc, streamVars, left, walfile, eoc, ctxDone,
                     ghostVars, faults>>
  BY RemoveFacts
<1>2. NoPart.data = 0 /\ NoPart.st = "none" /\ PartOK(NoPart)
  BY ConstantsAssumption DEF NoPart, PartOK
<1>3. TypeOK'
  BY <1>1 DEF ShapeInv, TypeOK
<1>4. ForkInv' /\ PartInv'
  BY <1>1, <1>2 DEF ShapeInv, ForkInv, PartInv
<1>5. FilesInv'
  BY <1>1, <1>2 DEF ShapeInv, FilesInv, TimelineEnd
<1>6. BaseInv' /\ MsgInv' /\ PosInv'
  BY <1>1 DEF ShapeInv, BaseInv, MsgInv, PosInv, Streaming, TimelineEnd
<1>7. OpenInv'
  <2>1. walfile.f \in Files /\ CurrentFile \in Files
    BY CurrentFileIsFile DEF ShapeInv
  <2>2. /\ part'[walfile.f] = part[walfile.f] \/ part'[walfile.f].st = "none"
        /\ part'[CurrentFile] = part[CurrentFile] \/ part'[CurrentFile].st = "none"
    BY <1>1, <1>2, <2>1
  <2>3. CurrentFile' = CurrentFile
    BY <1>1 DEF CurrentFile
  <2> QED
    BY <1>1, <2>2, <2>3 DEF ShapeInv, OpenInv, HasFile
<1> QED
  BY <1>3, <1>4, <1>5, <1>6, <1>7 DEF ShapeInv

\* Every step of the composition keeps the shape.
LEMMA ShapeArchiveNext ==
    ASSUME SoundFaults, ShapeInv, ArchiveTypeOK, [ArchiveNext]_allVars
    PROVE  ShapeInv'
<1>1. CASE OtherStep
  BY <1>1, ShapeNext DEF OtherStep
<1>2. CASE UNCHANGED vars
  BY <1>2, ShapeNext
<1>3. CASE \E n \in uploaded : RemoveFile(n)
  BY <1>3, ShapeRemove DEF ArchiveTypeOK
<1> QED
  BY <1>1, <1>2, <1>3
     DEF ArchiveNext, allVars, UploaderStep, PerformUploads, TakeFile, PutFile, PutFails

-----------------------------------------------------------------------------
(***************************************************************************)
(* The receiver never takes the name of a complete segment away, gives one *)
(* only in closeAndRename, and creates a *.partial only in OpenWalFile.    *)
(***************************************************************************)
SameNames ==
    \A g \in Files :
        /\ CompleteVisible(g)' <=> CompleteVisible(g)
        /\ PartialVisible(g)' => PartialVisible(g)

\* fsync of a *.partial by its name, and of the directory.
LEMMA SyncSameNames ==
    ASSUME SoundFaults, ShapeInv, NEW f \in Files,
           part' = [part EXCEPT ![f] = FsyncedPart(@)], full' = full
    PROVE  SameNames
<1>1. /\ \A g \in Files : g # f => part'[g] = part[g]
      /\ part'[f].st = IF part[f].st = "sized" THEN "synced" ELSE part[f].st
  BY SyncedFields
<1> QED
  BY <1>1 DEF SameNames, CompleteVisible, PartialVisible

LEMMA DirSyncSameNames ==
    ASSUME NEW mid \in [Files -> Part], FsyncDir(mid),
           \A g \in Files : /\ mid[g].st = "renamed" <=> part[g].st = "renamed"
                            /\ mid[g].st \in {"empty", "sized", "synced"} => PartialVisible(g)
    PROVE  SameNames
<1>1. SUFFICES ASSUME NEW g \in Files
               PROVE  /\ CompleteVisible(g)' <=> CompleteVisible(g)
                      /\ PartialVisible(g)' => PartialVisible(g)
  BY DEF SameNames
<1>2. part'[g] = DirSyncedPart(mid[g]) /\ full'[g] = (full[g] \/ mid[g].st = "renamed")
  BY DEF FsyncDir
<1>3. NoPart.st = "none"
  BY DEF NoPart
<1>4. /\ part'[g].st # "renamed"
      /\ part'[g].st \in {"empty", "sized", "synced"} => mid[g].st \in {"empty", "sized", "synced"}
  <2>1. CASE mid[g].st \in {"none", "renamed"}
    BY <1>2, <1>3, <2>1 DEF DirSyncedPart
  <2>2. CASE mid[g].st \notin {"none", "renamed"}
    <3>1. part'[g] = [mid[g] EXCEPT !.linked = TRUE]
      BY <1>2, <2>2 DEF DirSyncedPart
    <3>2. mid[g] \in Part
      OBVIOUS
    <3>3. part'[g].st = mid[g].st
      BY <3>1, <3>2 DEF Part
    <3> QED  BY <2>2, <3>3
  <2> QED  BY <2>1, <2>2
<1> QED
  BY <1>2, <1>4 DEF CompleteVisible, PartialVisible

LEMMA SyncNameAndDirSameNames ==
    ASSUME SoundFaults, ShapeInv, NEW f \in Files, FsyncDir([part EXCEPT ![f] = FsyncedPart(@)])
    PROVE  SameNames
<1> DEFINE mid == [part EXCEPT ![f] = FsyncedPart(@)]
<1>1. /\ \A g \in Files : g # f => mid[g] = part[g]
      /\ mid[f].st = IF part[f].st = "sized" THEN "synced" ELSE part[f].st
  BY SyncedFields
<1>2. FsyncDir(mid) /\ mid \in [Files -> Part]
  BY ShapeDisk, FsyncIsMild DEF Mild
<1> HIDE DEF mid
<1> QED
  BY <1>1, <1>2, DirSyncSameNames DEF PartialVisible

\* All other steps of the receiver and its surroundings.
LEMMA NextSameNames ==
    ASSUME SoundFaults, NoPower, ShapeInv, Next, ~CreateWalFile, ~RenameWalFile
    PROVE  SameNames
<1>f. walfile.f \in Files /\ CurrentFile \in Files
  BY CurrentFileIsFile DEF ShapeInv
<1>0. ASSUME UNCHANGED <<part, full>> PROVE SameNames
  BY <1>0 DEF SameNames, CompleteVisible, PartialVisible
<1>1. CASE ServerStep
  BY <1>0, <1>1 DEF ServerStep, ServerWrite, Promote, Recycle, ApplyFeedback
<1>2. CASE Connect \/ FetchHistory \/ StartReplication \/ LoopStatus \/ LoopIdle \/ ReceiveTimeout
           \/ ReceiveXLogData \/ ReceiveCopyDone \/ FindWalFile \/ AssignWalFile \/ NextTimeline
           \/ CloseOnError \/ CancelledBeforeStream \/ Restart
  BY <1>0, <1>2 DEF Connect, FetchHistory, StartReplication, LoopStatus, LoopIdle, ReceiveTimeout,
     ReceiveXLogData, ReceiveCopyDone, EndOfCopy, FindWalFile, AssignWalFile, NextTimeline,
     CloseOnError, CancelledBeforeStream, Restart
<1>3. CASE FindStart
  BY <1>0, <1>3, FindStartFacts
<1>4. CASE LoopSync \/ ReopenWalFile
  BY <1>f, <1>4, SyncSameNames DEF LoopSync, SyncWalFile, ReopenWalFile
<1>5. CASE ProcessKeepalive
  BY <1>f, <1>0, <1>5, SyncSameNames DEF ProcessKeepalive, SyncWalFile
<1>6. CASE CloseWalFile
  BY <1>f, <1>0, <1>6, SyncSameNames DEF CloseWalFile, SyncWalFile
<1>7. CASE TruncateWalFile
  <2>1. /\ \A g \in Files : g # CurrentFile => part'[g] = part[g]
        /\ part[CurrentFile].st \in {"none", "empty"}
        /\ part'[CurrentFile].st = IF part[CurrentFile].st = "none" THEN "none" ELSE "sized"
    BY <1>7, TruncateIsMild
  <2> QED
    BY <1>7, <2>1 DEF TruncateWalFile, SameNames, CompleteVisible, PartialVisible
<1>8. CASE WriteWalFile
  <2>1. /\ \A g \in Files : g # walfile.f => part'[g] = part[g]
        /\ part'[walfile.f].st = part[walfile.f].st
    BY <1>8, WriteFacts
  <2> QED
    BY <1>8, <2>1 DEF WriteWalFile, SameNames, CompleteVisible, PartialVisible
<1>9. CASE SyncClosedFile
  BY <1>f, <1>0, <1>9, SyncNameAndDirSameNames DEF SyncClosedFile
<1>10. CASE SyncOnError
  BY <1>f, <1>0, <1>10, SyncNameAndDirSameNames DEF SyncOnError
<1>11. CASE EndStream
  BY <1>11, DirSyncSameNames DEF EndStream, PartialVisible, ShapeInv, TypeOK
<1>12. CASE FaultStep
  <2>1. ~ReopenFails /\ ~PowerFailure
    BY DEF ReopenFails, PowerFailure, SoundFaults, NoPower
  <2> QED
    BY <1>0, <1>12, <2>1 DEF FaultStep, ServerShutdown, EndOfCopy, IOError, SyncOnErrorFails,
       EndStreamFails, ConnectionLost, Cancel, Kill, ProcessGone
<1> QED
  BY <1>1, <1>2, <1>3, <1>4, <1>5, <1>6, <1>7, <1>8, <1>9, <1>10, <1>11, <1>12
     DEF Next, ReceiverStep

LEMMA CreateNames ==
    ASSUME ShapeInv, CreateWalFile, NEW g \in Files
    PROVE  /\ CompleteVisible(g)' <=> CompleteVisible(g)
           /\ PartialVisible(g)' => PartialVisible(g) \/ g = CurrentFile
<1>1. CurrentFile \in Files /\ full \in [Files -> BOOLEAN]
  BY CurrentFileIsFile DEF ShapeInv, TypeOK
<1>2. /\ part'[CurrentFile].st = "empty"
      /\ g # CurrentFile => part'[g] = part[g] /\ full'[g] = full[g]
      /\ full'[CurrentFile] => full[CurrentFile] \/ part[CurrentFile].st = "renamed"
  BY CreateIsCalm
<1>3. full'[CurrentFile] = (full[CurrentFile] \/ part[CurrentFile].st = "renamed")
  BY <1>1 DEF CreateWalFile
<1> QED
  BY <1>2, <1>3 DEF CompleteVisible, PartialVisible

LEMMA RenameNames ==
    ASSUME ShapeInv, RenameWalFile, NEW g \in Files
    PROVE  /\ CompleteVisible(g)' <=>
                CompleteVisible(g) \/ (g = walfile.f /\ part[g].st # "none")
           /\ PartialVisible(g)' => PartialVisible(g)
<1>1. CASE part[walfile.f].st = "none"
  BY <1>1 DEF RenameWalFile, CompleteVisible, PartialVisible
<1>2. CASE part[walfile.f].st # "none"
  <2>1. /\ part'[walfile.f].st = "renamed"
        /\ g # walfile.f => part'[g] = part[g]
    BY <1>2, RenameIsCalm
  <2> QED
    BY <1>2, <2>1 DEF RenameWalFile, CompleteVisible, PartialVisible
<1> QED
  BY <1>1, <1>2

\* No receiver step hides a complete segment.
LEMMA NextKeepsComplete ==
    ASSUME SoundFaults, NoPower, ShapeInv, Next, NEW g \in Files, CompleteVisible(g)
    PROVE  CompleteVisible(g)'
  BY NextSameNames, CreateNames, RenameNames DEF SameNames

-----------------------------------------------------------------------------
(***************************************************************************)
(* The uploader.                                                           *)
(***************************************************************************)
\* What a step of the composition does to the archive.
LEMMA OtherArchive ==
    ASSUME ArchiveTypeOK, OtherStep
    PROVE  /\ archive' \in [Names -> {Torn, NoObject} \cup 0..WalSegSz]
           /\ \A n \in Names : archive'[n] = archive[n] \/ (archive'[n] = Torn /\ n \in opened)
           /\ opened' \subseteq opened /\ uploaded' \subseteq uploaded /\ filesChan' \subseteq filesChan
           /\ uploaded' # {} => archive' = archive
           /\ putFailures' = putFailures
<1>1. CASE pc' = "exited" /\ pc # "exited"
  <2>1. /\ archive' = [n \in Names |-> IF TornPuts /\ n \in opened THEN Torn ELSE archive[n]]
        /\ opened' = {} /\ uploaded' = {} /\ filesChan' = {} /\ putFailures' = putFailures
    BY <1>1 DEF OtherStep
  <2>2. \A n \in Names : archive'[n] = IF TornPuts /\ n \in opened THEN Torn ELSE archive[n]
    BY <2>1
  <2>3. \A n \in Names : archive'[n] = archive[n] \/ (archive'[n] = Torn /\ n \in opened)
    BY <2>2
  <2> QED
    BY <2>1, <2>2, <2>3 DEF ArchiveTypeOK
<1>2. CASE ~(pc' = "exited" /\ pc # "exited")
  BY <1>2 DEF OtherStep, ArchiveTypeOK
<1> QED
  BY <1>1, <1>2

LEMMA PutArchive ==
    ASSUME ShapeInv, ArchiveTypeOK, NEW n \in Names, PutFile(n)
    PROVE  /\ archive' \in [Names -> {Torn, NoObject} \cup 0..WalSegSz]
           /\ \A m \in Names : m # n => archive'[m] = archive[m]
           /\ n[1] = "complete" => archive'[n] = WalSegSz
           /\ opened' = opened \ {n} /\ uploaded' = uploaded \cup {n} /\ n \in opened
           /\ UNCHANGED <<vars, filesChan, putFailures>>
<1>1. n[2] \in Files
  BY NameParts
<1>2. part[n[2]].data \in 0..WalSegSz
  BY <1>1 DEF ShapeInv, TypeOK, Part
<1>3. Content(n) \in 0..WalSegSz /\ (n[1] = "complete" => Content(n) = WalSegSz)
  BY <1>2, ConstantsAssumption DEF Content
<1>4. archive' = [archive EXCEPT ![n] = Content(n)]
  BY DEF PutFile
<1> QED
  BY <1>3, <1>4 DEF PutFile, ArchiveTypeOK

LEMMA FailedArchive ==
    ASSUME ArchiveTypeOK, NEW n \in Names, PutFails(n)
    PROVE  /\ archive' \in [Names -> {Torn, NoObject} \cup 0..WalSegSz]
           /\ \A m \in Names : archive'[m] = archive[m] \/ (archive'[m] = Torn /\ m = n)
           /\ opened' = opened \ {n} /\ n \in opened /\ putFailures' \in 0..MaxPutFailures
           /\ UNCHANGED <<vars, filesChan, uploaded>>
<1>1. CASE TornPuts
  <2>1. archive' = [archive EXCEPT ![n] = Torn]
    BY <1>1 DEF PutFails
  <2> QED
    BY <2>1, UploaderAssumption DEF PutFails, ArchiveTypeOK
<1>2. CASE ~TornPuts
  <2>1. archive' = archive
    BY <1>2 DEF PutFails
  <2> QED
    BY <2>1, UploaderAssumption DEF PutFails, ArchiveTypeOK
<1> QED
  BY <1>1, <1>2

\* The uploader's state keeps its type: a file is in one pair of hands.
LEMMA TypeArchiveNext ==
    ASSUME ShapeInv, ArchiveTypeOK, [ArchiveNext]_allVars
    PROVE  ArchiveTypeOK'
<1>1. CASE OtherStep
  BY <1>1, OtherArchive DEF ArchiveTypeOK
<1>2. CASE PerformUploads
  BY <1>2 DEF PerformUploads, Idle, ArchiveTypeOK
<1>3. ASSUME NEW n \in filesChan, TakeFile(n) PROVE ArchiveTypeOK'
  BY <1>3 DEF TakeFile, ArchiveTypeOK
<1>4. ASSUME NEW n \in opened, PutFile(n) PROVE ArchiveTypeOK'
  <2>1. n \in Names
    BY DEF ArchiveTypeOK
  <2> QED
    BY <1>4, <2>1, PutArchive DEF ArchiveTypeOK
<1>5. ASSUME NEW n \in opened, PutFails(n) PROVE ArchiveTypeOK'
  <2>1. n \in Names
    BY DEF ArchiveTypeOK
  <2> QED
    BY <1>5, <2>1, FailedArchive DEF ArchiveTypeOK
<1>6. ASSUME NEW n \in uploaded, RemoveFile(n) PROVE ArchiveTypeOK'
  BY <1>6 DEF RemoveFile, ArchiveTypeOK
<1>7. CASE UNCHANGED allVars
  BY <1>7 DEF allVars, upVars, ArchiveTypeOK
<1> QED
  BY <1>1, <1>2, <1>3, <1>4, <1>5, <1>6, <1>7 DEF ArchiveNext, UploaderStep

\* Steps that leave the directory alone show the same names.
LEMMA StillSameNames ==
    ASSUME UNCHANGED vars
    PROVE  SameNames
  BY DEF vars, SameNames, CompleteVisible, PartialVisible

\* os.Remove takes a name away, a complete segment's only by that name.
LEMMA RemoveNames ==
    ASSUME ShapeInv, NEW n \in Names, RemoveFile(n), NEW g \in Files
    PROVE  /\ CompleteVisible(g)' => CompleteVisible(g)
           /\ CompleteVisible(g) => CompleteVisible(g)' \/ n = <<"complete", g>>
           /\ PartialVisible(g)' => PartialVisible(g)
<1>1. /\ part'[g] = part[g] \/ part'[g] = NoPart
      /\ full'[g] = full[g] \/ (~full'[g] /\ n = <<"complete", g>>)
      /\ n # <<"complete", g>> /\ part[g].st = "renamed" => part'[g] = part[g]
  BY RemoveFacts
<1>2. NoPart.st = "none"
  BY DEF NoPart
<1>3. CASE n = <<"complete", g>>
  BY <1>1, <1>2, <1>3 DEF CompleteVisible, PartialVisible
<1>4. CASE n # <<"complete", g>>
  BY <1>1, <1>2, <1>4 DEF CompleteVisible, PartialVisible
<1> QED
  BY <1>3, <1>4

\* A complete segment leaves the directory only when it is archived.
LEMMA OnlyArchivedIsRemoved ==
    ASSUME SoundFaults, NoPower, ShapeInv, ArchiveTypeOK, UploadInv, [ArchiveNext]_allVars,
           NEW g \in Files, CompleteVisible(g), ~CompleteVisible(g)'
    PROVE  /\ archive[<<"complete", g>>] = WalSegSz /\ archive' = archive
           /\ <<"complete", g>> \in uploaded
<1>1. CASE OtherStep
  BY <1>1, NextKeepsComplete DEF OtherStep
<1>2. CASE UNCHANGED vars
  BY <1>2, StillSameNames DEF SameNames
<1>3. ASSUME NEW n \in uploaded, RemoveFile(n)
      PROVE  /\ archive[<<"complete", g>>] = WalSegSz /\ archive' = archive
             /\ <<"complete", g>> \in uploaded
  <2>1. n \in Names
    BY DEF ArchiveTypeOK
  <2>2. n = <<"complete", g>>
    BY <1>3, <2>1, RemoveNames
  <2> QED
    BY <1>3, <2>2 DEF UploadInv, RemoveFile
<1> QED
  BY <1>1, <1>2, <1>3
     DEF ArchiveNext, allVars, UploaderStep, PerformUploads, TakeFile, PutFile, PutFails

LEMMA UploadArchiveNext ==
    ASSUME SoundFaults, NoPower, ShapeInv, ArchiveTypeOK, UploadInv, [ArchiveNext]_allVars
    PROVE  UploadInv'
<1>0. SUFFICES ASSUME NEW f \in Files
               PROVE  /\ <<"complete", f>> \in opened' => CompleteVisible(f)'
                      /\ <<"complete", f>> \in uploaded' => archive'[<<"complete", f>>] = WalSegSz
  BY DEF UploadInv
<1> DEFINE c == <<"complete", f>>
<1>c. c \in Names /\ c[1] = "complete" /\ c[2] = f
  BY CompleteName
<1>u. /\ c \in opened => CompleteVisible(f)
      /\ c \in uploaded => archive[c] = WalSegSz
      /\ ~(c \in opened /\ c \in uploaded)
  BY DEF UploadInv, ArchiveTypeOK
<1>k. CompleteVisible(f) /\ ~CompleteVisible(f)' => c \in uploaded
  BY OnlyArchivedIsRemoved
<1>1. CASE OtherStep
  <2>1. /\ opened' \subseteq opened /\ uploaded' \subseteq uploaded
        /\ uploaded' # {} => archive' = archive
    BY <1>1, OtherArchive
  <2> QED
    BY <1>u, <1>k, <2>1
<1>2. CASE PerformUploads \/ UNCHANGED allVars
  BY <1>2, <1>u, <1>k DEF PerformUploads, allVars, upVars
<1>3. ASSUME NEW n \in filesChan, TakeFile(n)
      PROVE  (c \in opened' => CompleteVisible(f)') /\ (c \in uploaded' => archive'[c] = WalSegSz)
  <2>1. c \in opened' => c \in opened \/ Exists(c)
    BY <1>3 DEF TakeFile
  <2>2. Exists(c) => CompleteVisible(f)
    BY <1>c DEF Exists
  <2>3. CompleteVisible(f)' <=> CompleteVisible(f)
    BY <1>3, StillSameNames DEF TakeFile, SameNames
  <2> QED
    BY <1>3, <1>u, <2>1, <2>2, <2>3 DEF TakeFile
<1>4. ASSUME NEW n \in opened, PutFile(n)
      PROVE  (c \in opened' => CompleteVisible(f)') /\ (c \in uploaded' => archive'[c] = WalSegSz)
  <2>1. n \in Names
    BY DEF ArchiveTypeOK
  <2>2. /\ \A m \in Names : m # n => archive'[m] = archive[m]
        /\ n[1] = "complete" => archive'[n] = WalSegSz
        /\ opened' = opened \ {n} /\ uploaded' = uploaded \cup {n}
    BY <1>4, <2>1, PutArchive
  <2>3. c \in opened' => CompleteVisible(f)'
    BY <1>u, <1>k, <2>2
  <2>4. c \in uploaded' => archive'[c] = WalSegSz
    BY <1>c, <1>u, <2>2
  <2> QED
    BY <2>3, <2>4
<1>5. ASSUME NEW n \in opened, PutFails(n)
      PROVE  (c \in opened' => CompleteVisible(f)') /\ (c \in uploaded' => archive'[c] = WalSegSz)
  <2>1. n \in Names /\ n \notin uploaded
    BY DEF ArchiveTypeOK
  <2>2. /\ \A m \in Names : archive'[m] = archive[m] \/ (archive'[m] = Torn /\ m = n)
        /\ opened' = opened \ {n} /\ uploaded' = uploaded
    BY <1>5, <2>1, FailedArchive
  <2> QED
    BY <1>c, <1>u, <1>k, <2>1, <2>2
<1>6. ASSUME NEW n \in uploaded, RemoveFile(n)
      PROVE  (c \in opened' => CompleteVisible(f)') /\ (c \in uploaded' => archive'[c] = WalSegSz)
  BY <1>6, <1>u, <1>k DEF RemoveFile
<1> QED
  BY <1>1, <1>2, <1>3, <1>4, <1>5, <1>6 DEF ArchiveNext, UploaderStep

\* No step loses a complete segment.
LEMMA CompleteStays ==
    ASSUME SoundFaults, NoPower, ShapeInv, ArchiveTypeOK, UploadInv, [ArchiveNext]_allVars,
           NEW f \in Files, Complete(f)
    PROVE  Complete(f)'
<1> DEFINE c == <<"complete", f>>
<1>c. c \in Names /\ c[1] = "complete"
  BY CompleteName
<1>1. CASE CompleteVisible(f)
  BY <1>1, OnlyArchivedIsRemoved DEF Complete
<1>2. CASE ~CompleteVisible(f)
  <2>1. archive[c] = WalSegSz /\ c \notin opened
    BY <1>2 DEF Complete, UploadInv
  <2>2. archive'[c] = WalSegSz
    <3>1. CASE OtherStep
      BY <1>c, <2>1, <3>1, OtherArchive
    <3>2. ASSUME NEW n \in opened, PutFile(n) PROVE archive'[c] = WalSegSz
      BY <1>c, <2>1, <3>2, PutArchive DEF ArchiveTypeOK
    <3>3. ASSUME NEW n \in opened, PutFails(n) PROVE archive'[c] = WalSegSz
      BY <1>c, <2>1, <3>3, FailedArchive DEF ArchiveTypeOK
    <3> QED
      BY <2>1, <3>1, <3>2, <3>3 DEF ArchiveNext, UploaderStep, PerformUploads, TakeFile,
         RemoveFile, allVars, upVars
  <2> QED
    BY <2>2 DEF Complete
<1> QED
  BY <1>1, <1>2

LEMMA CompleteSegsGrow ==
    ASSUME SoundFaults, NoPower, ShapeInv, ArchiveTypeOK, UploadInv, [ArchiveNext]_allVars
    PROVE  CompleteSegs \subseteq CompleteSegs'
<1>1. \A t \in TLIs, s \in Segs : Complete(<<t, s>>) => Complete(<<t, s>>)'
  BY CompleteStays DEF Files
<1> QED
  BY <1>1 DEF CompleteSegs

-----------------------------------------------------------------------------
(***************************************************************************)
(* Whose WAL a complete segment holds.                                     *)
(***************************************************************************)
\* A complete segment of the directory holds WAL of its own timeline only.
LEMMA VisibleIsOwn ==
    ASSUME ShapeInv, NEW f \in Files, CompleteVisible(f)
    PROVE  f[1] <= srvTli /\ At(f[2] + 1) <= TimelineEnd(f[1])
<1>1. CASE full[f]
  BY <1>1 DEF ShapeInv, FilesInv
<1>2. CASE part[f].st = "renamed"
  <2>1. part[f].data = WalSegSz
    BY <1>2, ConstantsAssumption DEF ShapeInv, TypeOK, Part, PartInv, PartOK
  <2>2. At(f[2] + 1) = At(f[2]) + WalSegSz
    BY AtInLSNs, AtType DEF Files
  <2> QED
    BY <2>1, <2>2, ConstantsAssumption DEF ShapeInv, FilesInv
<1> QED
  BY <1>1, <1>2 DEF CompleteVisible

\* Timelines grow and end where they are.
LEMMA HistoryKept ==
    ASSUME SoundFaults, ShapeInv, [Next]_vars
    PROVE  \A t \in TLIs : t <= srvTli => t <= srvTli' /\ TimelineEnd(t) <= TimelineEnd(t)'
<1>1. srvTli \in Int /\ srvEnd \in Int /\ \A t \in TLIs : t \in Int /\ fork[t] \in Int
  BY ConstantsAssumption DEF ShapeInv, TypeOK, TLIs, LSNs
<1>2. CASE ServerWrite
  BY <1>1, <1>2 DEF ServerWrite, TimelineEnd
<1>3. CASE Promote
  <2>1. srvTli' = srvTli + 1 /\ srvEnd' = srvEnd
        /\ fork' = [fork EXCEPT ![srvTli] = srvEnd]
    BY <1>3 DEF Promote, SoundFaults
  <2>2. \A t \in TLIs : fork'[t] = IF t = srvTli THEN srvEnd ELSE fork[t]
    BY <2>1 DEF ShapeInv, TypeOK
  <2> QED
    BY <1>1, <2>1, <2>2 DEF TimelineEnd
<1>4. CASE UNCHANGED <<srvTli, srvEnd, fork>>
  BY <1>1, <1>4 DEF TimelineEnd
<1>5. CASE FindStart
  BY <1>4, <1>5, FindStartFacts
<1> QED
  BY <1>2, <1>3, <1>4, <1>5 DEF Next, ServerStep, Recycle, ApplyFeedback, ReceiverStep, Connect,
     FetchHistory, StartReplication, LoopSync, LoopStatus, LoopIdle, ReceiveTimeout,
     ProcessKeepalive, ReceiveXLogData, ReceiveCopyDone, EndOfCopy, CreateWalFile,
     TruncateWalFile, FindWalFile, ReopenWalFile, AssignWalFile, WriteWalFile, CloseWalFile,
     RenameWalFile, SyncClosedFile, NextTimeline, CloseOnError, SyncOnError, EndStream,
     CancelledBeforeStream, Restart, FaultStep, ServerShutdown, IOError, SyncOnErrorFails,
     EndStreamFails, ReopenFails, ConnectionLost, Cancel, Kill, PowerFailure, ProcessGone, vars

LEMMA OwnArchiveNext ==
    ASSUME SoundFaults, ShapeInv, ShapeInv', ArchiveTypeOK, UploadInv, OwnInv,
           [ArchiveNext]_allVars
    PROVE  OwnInv'
<1>0. SUFFICES ASSUME NEW f \in Files, archive'[<<"complete", f>>] = WalSegSz
               PROVE  f[1] <= srvTli' /\ At(f[2] + 1) <= TimelineEnd(f[1])'
  BY DEF OwnInv
<1> DEFINE c == <<"complete", f>>
<1>c. c \in Names /\ c[1] = "complete"
  BY CompleteName
<1>f. f[1] \in TLIs /\ At(f[2] + 1) \in Int
  BY AtInLSNs, AtType, ConstantsAssumption DEF Files
<1>1. archive[c] = WalSegSz \/ (c \in opened /\ UNCHANGED vars)
  <2>w. WalSegSz # Torn
    BY ConstantsAssumption DEF Torn
  <2>1. CASE OtherStep
    BY <1>0, <1>c, <2>w, <2>1, OtherArchive
  <2>2. ASSUME NEW n \in opened, PutFile(n) PROVE archive[c] = WalSegSz \/ (c \in opened /\ UNCHANGED vars)
    BY <1>0, <1>c, <2>2, PutArchive DEF ArchiveTypeOK
  <2>3. ASSUME NEW n \in opened, PutFails(n) PROVE archive[c] = WalSegSz
    BY <1>0, <1>c, <2>w, <2>3, FailedArchive DEF ArchiveTypeOK
  <2> QED
    BY <1>0, <2>1, <2>2, <2>3 DEF ArchiveNext, UploaderStep, PerformUploads, TakeFile, RemoveFile,
       allVars, upVars
<1>2. f[1] <= srvTli /\ At(f[2] + 1) <= TimelineEnd(f[1])
  BY <1>1, VisibleIsOwn DEF OwnInv, UploadInv
<1>3. \A t \in TLIs : t <= srvTli => t <= srvTli' /\ TimelineEnd(t) <= TimelineEnd(t)'
  <2>0. ASSUME NEW n \in uploaded, RemoveFile(n)
        PROVE  UNCHANGED <<srvTli, srvEnd, fork>>
    BY <2>0 DEF RemoveFile
  <2>1. CASE UNCHANGED <<srvTli, srvEnd, fork>>
    <3>1. srvTli \in Int /\ srvEnd \in Int /\ \A t \in TLIs : t \in Int /\ fork[t] \in Int
      BY ConstantsAssumption DEF ShapeInv, TypeOK, TLIs, LSNs
    <3> QED
      BY <2>1, <3>1 DEF TimelineEnd
  <2>2. CASE [Next]_vars
    BY <2>2, HistoryKept
  <2> QED
    BY <2>0, <2>1, <2>2 DEF ArchiveNext, UploaderStep, PerformUploads, TakeFile, PutFile, PutFails,
       OtherStep, allVars
<1>4. TimelineEnd(f[1]) \in Int /\ TimelineEnd(f[1])' \in Int
  BY <1>f, ConstantsAssumption DEF ShapeInv, TypeOK, TimelineEnd, LSNs
<1> QED
  BY <1>f, <1>2, <1>3, <1>4

-----------------------------------------------------------------------------
(***************************************************************************)
(* What is done.                                                           *)
(***************************************************************************)
LEMMA Numbers ==
    ASSUME ShapeInv
    PROVE  /\ base \in Nat /\ inflight \in Nat /\ lastFlush \in Nat /\ startPos \in Nat
           /\ blockPos \in Nat /\ slot \in Int /\ srvEnd \in Nat /\ inflight \in LSNs
           /\ blockPos \in LSNs /\ lastFlush \in LSNs /\ walfile.pos \in 0..WalSegSz
           /\ walfile.f \in Files /\ walfile.f[2] \in Nat
           /\ \A f \in Files : f[2] \in Nat /\ At(f[2]) \in Nat /\ At(f[2] + 1) = At(f[2]) + WalSegSz
<1>1. \A f \in Files : f[2] \in Nat /\ At(f[2]) \in Nat /\ At(f[2] + 1) = At(f[2]) + WalSegSz
  BY AtInLSNs, AtType DEF Files
<1>2. walfile.f \in Files
  BY CurrentFileIsFile DEF ShapeInv
<1> QED
  BY <1>1, <1>2, ConstantsAssumption DEF ShapeInv, TypeOK, LSNs, NoSlot, WalFile

\* A lower bound that is done as well, a later beginning, more complete segments.
LEMMA DoneNarrow ==
    ASSUME NEW cs, NEW cu, cs \subseteq cu, NEW b \in Int, NEW d \in Int, b <= d,
           NEW x \in Int, NEW y \in Int, y <= x, DoneBelow(cs, b, x)
    PROVE  DoneBelow(cu, d, y)
<1>1. SUFFICES ASSUME NEW s \in Segs, d <= At(s), At(s + 1) <= y PROVE s \in cu
  BY DEF DoneBelow
<1>2. At(s) \in Int /\ At(s + 1) \in Int
  BY AtInLSNs, AtType, ConstantsAssumption
<1> QED
  BY <1>1, <1>2 DEF DoneBelow

LEMMA DNarrow ==
    ASSUME ShapeInv, NEW x \in Int, NEW y \in Int, y <= x, D(x)
    PROVE  D(y)
  BY Numbers, DoneNarrow DEF D

\* Less than a segment above the beginning there is nothing to be done.
LEMMA DoneNothing ==
    ASSUME NEW cs, NEW b \in Int, NEW x \in Int, x < b + WalSegSz
    PROVE  DoneBelow(cs, b, x)
<1>1. SUFFICES ASSUME NEW s \in Segs, b <= At(s), At(s + 1) <= x PROVE FALSE
  BY DEF DoneBelow
<1>2. At(s) \in Int /\ At(s + 1) = At(s) + WalSegSz
  BY AtInLSNs, AtType
<1> QED
  BY <1>1, <1>2, ConstantsAssumption

\* A part of a segment adds nothing.
LEMMA DonePart ==
    ASSUME NEW cs, NEW b \in Int, NEW r \in Nat, NEW o \in 0..(WalSegSz - 1),
           DoneBelow(cs, b, At(r))
    PROVE  DoneBelow(cs, b, At(r) + o)
<1>1. SUFFICES ASSUME NEW s \in Segs, b <= At(s), At(s + 1) <= At(r) + o PROVE s \in cs
  BY DEF DoneBelow
<1>2. s \in Nat /\ At(s) \in Nat /\ At(s + 1) = At(s) + WalSegSz /\ At(r) \in Nat
  BY AtInLSNs, AtType
<1>3. At(s + 1) <= At(r)
  <2>1. s < r
    <3>1. r <= s => At(r) <= At(s)
      BY <1>2, AtMono
    <3> QED
      BY <1>1, <1>2, <3>1, ConstantsAssumption
  <2> QED
    BY <1>2, <2>1, AtMono
<1> QED
  BY <1>1, <1>3 DEF DoneBelow

\* A complete segment adds itself.
LEMMA DoneExtend ==
    ASSUME NEW cs, NEW b \in Int, NEW r \in Nat, r \in cs, DoneBelow(cs, b, At(r))
    PROVE  DoneBelow(cs, b, At(r + 1))
<1>1. SUFFICES ASSUME NEW s \in Segs, b <= At(s), At(s + 1) <= At(r + 1) PROVE s \in cs
  BY DEF DoneBelow
<1>2. /\ s \in Nat /\ At(s) \in Nat /\ At(s + 1) = At(s) + WalSegSz
      /\ At(r) \in Nat /\ At(r + 1) = At(r) + WalSegSz
  BY AtInLSNs, AtType
<1>3. CASE s = r
  BY <1>3
<1>4. CASE s # r
  <2>1. s < r
    <3>1. r < s => At(r) + WalSegSz <= At(s)
      BY <1>2, AtMono
    <3> QED
      BY <1>1, <1>2, <1>4, <3>1, ConstantsAssumption
  <2>2. At(s + 1) <= At(r)
    BY <1>2, <2>1, AtMono
  <2> QED
    BY <1>1, <2>2 DEF DoneBelow
<1> QED
  BY <1>3, <1>4

\* A position of the stream is done as far as its file's beginning is, unless the file is
\* full.
LEMMA StreamDone ==
    ASSUME ShapeInv, HasFile, D(At(walfile.f[2])), walfile.pos # WalSegSz
    PROVE  D(blockPos)
<1>1. walfile.pos \in 0..(WalSegSz - 1)
  BY Numbers, ConstantsAssumption
<1>2. blockPos = At(walfile.f[2]) + walfile.pos
  BY DEF ShapeInv, OpenInv
<1>3. walfile.f[2] \in Nat /\ base \in Int
  BY Numbers
<1> QED
  BY <1>1, <1>2, <1>3, DonePart DEF D

-----------------------------------------------------------------------------
(***************************************************************************)
(* Frames.                                                                 *)
(***************************************************************************)
\* What was done stays done.
Keeps == base' = base /\ CompleteSegs \subseteq CompleteSegs'

LEMMA KeepsDone ==
    ASSUME ShapeInv, Keeps, NEW x \in Int, D(x)
    PROVE  DoneBelow(CompleteSegs', base', x)
  BY Numbers, DoneNarrow DEF Keeps, D

LEMMA FoundFrame ==
    ASSUME ShapeInv, FoundInv, Keeps, SameNames
    PROVE  FoundInv'
<1>1. ASSUME NEW f \in Files
      PROVE  /\ PartialVisible(f)' => DoneBelow(CompleteSegs', base', At(f[2]))
             /\ CompleteVisible(f)' => DoneBelow(CompleteSegs', base', At(f[2] + 1))
  <2>1. At(f[2]) \in Int /\ At(f[2] + 1) \in Int
    BY Numbers, ConstantsAssumption
  <2>2. PartialVisible(f)' => D(At(f[2]))
    BY DEF FoundInv, SameNames
  <2>3. CompleteVisible(f)' => D(At(f[2] + 1))
    BY DEF FoundInv, SameNames
  <2> QED
    BY <2>1, <2>2, <2>3, KeepsDone
<1> QED
  BY <1>1 DEF FoundInv, D

LEMMA ReleasedFrame ==
    ASSUME ShapeInv, ReleasedInv, Keeps, inflight' \in {inflight, 0}, slot' \in {slot, Delivered}
    PROVE  ReleasedInv'
<1>1. inflight \in Nat /\ slot \in Int /\ base \in Nat
  BY Numbers
<1>2. D(0)
  BY <1>1, DoneNothing, ConstantsAssumption DEF D
<1>3. D(inflight') /\ inflight' \in Int
  BY <1>1, <1>2 DEF ReleasedInv
<1>4. slot' \in Int /\ (base > 0 /\ slot' > 0 => D(slot'))
  BY <1>1 DEF ReleasedInv, Delivered
<1>5. DoneBelow(CompleteSegs', base', inflight')
  BY <1>3, KeepsDone
<1>6. base > 0 /\ slot' > 0 => DoneBelow(CompleteSegs', base', slot')
  BY <1>4, KeepsDone
<1> QED
  BY <1>5, <1>6 DEF ReleasedInv, D, Keeps

\* Outside the stream there is nothing to say of it.
LEMMA NothingFlushed ==
    ASSUME pc' \notin Streaming \cup {"history", "start"}
    PROVE  FlushedInv'
  BY DEF FlushedInv, HasFile, Streaming

\* The stream's conjuncts, from what is known of their arguments before the step.
LEMMA FlushedFrame ==
    ASSUME ShapeInv, Keeps, lastFlush' \in Int, startPos' \in Int, blockPos' \in Int,
           walfile'.f[2] \in Nat,
           pc' \in Streaming \cup {"history", "start"} => D(lastFlush'),
           pc' \in {"history", "start"} => D(startPos'),
           pc' \in {"loop", "recv", "data", "truncate", "reopen", "assign", "copydone"}
             /\ walfile'.st = "nil" => D(blockPos'),
           HasFile' => D(At(walfile'.f[2]))
    PROVE  FlushedInv'
<1>1. At(walfile'.f[2]) \in Int
  BY AtType
<1> QED
  BY <1>1, KeepsDone DEF FlushedInv, D

LEMMA NumbersNext ==
    ASSUME ShapeInv'
    PROVE  /\ lastFlush' \in Int /\ startPos' \in Int /\ blockPos' \in Int /\ inflight' \in Int
           /\ walfile'.f[2] \in Nat /\ base' \in Int
<1>1. walfile'.f \in Files
  BY DEF ShapeInv, TypeOK, WalFile
<1>2. walfile'.f[2] \in Nat
  BY <1>1, AtInLSNs DEF Files
<1> QED
  BY <1>2, ConstantsAssumption DEF ShapeInv, TypeOK, LSNs

-----------------------------------------------------------------------------
(***************************************************************************)
(* The steps of the receiver and its surroundings.                         *)
(***************************************************************************)
\* The primary's steps, and a cancelled context.
LEMMA FlushedServerStep ==
    ASSUME ShapeInv, ShapeInv', FlushedInv, Keeps, ServerStep \/ Cancel
    PROVE  FlushedInv'
<1>1. UNCHANGED <<pc, walfile, lastFlush, startPos, blockPos>>
  BY DEF ServerStep, ServerWrite, Promote, Recycle, ApplyFeedback, Cancel
<1> QED
  BY <1>1, NumbersNext, FlushedFrame DEF FlushedInv, HasFile

\* The steps of a stream that take nothing as flushed that was not.
LEMMA FlushedStreamStep ==
    ASSUME ShapeInv, ShapeInv', FlushedInv, Keeps,
           \/ FetchHistory \/ StartReplication \/ LoopStatus \/ LoopIdle \/ ReceiveTimeout
           \/ ReceiveXLogData \/ ReceiveCopyDone \/ ServerShutdown
           \/ CreateWalFile \/ TruncateWalFile \/ FindWalFile
    PROVE  FlushedInv'
<1>1. walfile' = walfile /\ lastFlush' = lastFlush /\ startPos' = startPos
  BY DEF FetchHistory, StartReplication, LoopStatus, LoopIdle, ReceiveTimeout, ReceiveXLogData,
     ReceiveCopyDone, ServerShutdown, EndOfCopy, CreateWalFile, TruncateWalFile, FindWalFile
<1>2. pc' \in Streaming \cup {"history", "start"} => D(lastFlush')
  BY <1>1 DEF FlushedInv, Streaming, FetchHistory, StartReplication, LoopStatus, LoopIdle,
     ReceiveTimeout, ReceiveXLogData, ReceiveCopyDone, ServerShutdown, EndOfCopy, CreateWalFile,
     TruncateWalFile, FindWalFile
<1>3. pc' \in {"history", "start"} => D(startPos')
  BY <1>1 DEF FlushedInv, FetchHistory, StartReplication, LoopStatus, LoopIdle, AfterTop,
     ReceiveTimeout, ReceiveXLogData, ReceiveCopyDone, ServerShutdown, EndOfCopy, CreateWalFile,
     TruncateWalFile, FindWalFile
<1>4. pc' \in {"loop", "recv", "data", "truncate", "reopen", "assign", "copydone"}
        /\ walfile'.st = "nil" => D(blockPos')
  <2>1. CASE ReceiveXLogData
    <3>1. pc = "recv" /\ blockPos' = sent /\ walfile' = walfile
      BY <2>1 DEF ReceiveXLogData
    <3>2. sent = blockPos
      BY <3>1, Numbers DEF ShapeInv, PosInv, MsgInv, Streaming
    <3> QED
      BY <3>1, <3>2 DEF FlushedInv
  <2>2. CASE StartReplication
    BY <2>2 DEF StartReplication, FlushedInv
  <2>3. CASE FetchHistory
    BY <2>3 DEF FetchHistory
  <2>4. CASE LoopStatus \/ LoopIdle \/ ReceiveTimeout \/ ReceiveCopyDone \/ ServerShutdown
             \/ CreateWalFile \/ TruncateWalFile \/ FindWalFile
    BY <1>1, <2>4 DEF FlushedInv, LoopStatus, LoopIdle, ReceiveTimeout, ReceiveCopyDone,
       ServerShutdown, EndOfCopy, CreateWalFile, TruncateWalFile, FindWalFile
  <2> QED
    BY <2>1, <2>2, <2>3, <2>4
<1>5. HasFile' => D(At(walfile'.f[2]))
  <2>1. CASE FetchHistory \/ StartReplication
    BY <1>1, <2>1 DEF FetchHistory, StartReplication, HasFile, ShapeInv, PosInv
  <2>2. CASE LoopStatus \/ LoopIdle \/ ReceiveTimeout \/ ReceiveXLogData \/ ReceiveCopyDone
             \/ ServerShutdown \/ CreateWalFile \/ TruncateWalFile \/ FindWalFile
    BY <1>1, <2>2 DEF FlushedInv, HasFile, LoopStatus, LoopIdle, AfterTop, ReceiveTimeout,
       ReceiveXLogData, ReceiveCopyDone, ServerShutdown, EndOfCopy, CreateWalFile,
       TruncateWalFile, FindWalFile
  <2> QED
    BY <2>1, <2>2
<1> QED
  BY <1>2, <1>3, <1>4, <1>5, NumbersNext, FlushedFrame

\* fsync of the open file: the segments below are done, the file itself is not full.
LEMMA FlushedSync ==
    ASSUME ShapeInv, ShapeInv', FlushedInv, Keeps, LoopSync \/ (ProcessKeepalive /\ MustFlush)
    PROVE  FlushedInv' /\ D(blockPos) /\ inflight' = blockPos
<1>1. /\ pc \in {"loop", "recv"} /\ walfile.st = "open" /\ lastFlush' = blockPos
      /\ UNCHANGED <<walfile, blockPos, startPos>> /\ pc' \in {"recv", "fail"}
      /\ inflight' = blockPos
  BY DEF LoopSync, ProcessKeepalive, MustFlush, AfterTop, SendFeedback
<1>2. HasFile /\ walfile.pos # WalSegSz
  <2>1. walfile.pos < WalSegSz
    BY <1>1 DEF ShapeInv, OpenInv
  <2> QED
    BY <1>1, <2>1, Numbers, ConstantsAssumption DEF HasFile
<1>3. D(At(walfile.f[2])) /\ D(blockPos)
  BY <1>2, StreamDone DEF FlushedInv
<1>4. FlushedInv'
  BY <1>1, <1>3, NumbersNext, FlushedFrame DEF HasFile
<1> QED
  BY <1>1, <1>3, <1>4

LEMMA FlushedKeepalive ==
    ASSUME ShapeInv, ShapeInv', FlushedInv, Keeps, ProcessKeepalive, ~MustFlush
    PROVE  FlushedInv' /\ D(lastFlush) /\ inflight' = lastFlush
<1>1. /\ pc = "recv" /\ inflight' = lastFlush
      /\ UNCHANGED <<pc, walfile, lastFlush, startPos, blockPos>>
  BY DEF ProcessKeepalive, SendFeedback
<1>2. FlushedInv'
  BY <1>1, NumbersNext, FlushedFrame DEF FlushedInv, HasFile
<1> QED
  BY <1>1, <1>2 DEF FlushedInv, Streaming

LEMMA ReleasedFeedback ==
    ASSUME ShapeInv, ReleasedInv, Keeps, slot' = slot, inflight' \in Int, D(inflight')
    PROVE  ReleasedInv'
<1>1. slot \in Int
  BY Numbers
<1>2. DoneBelow(CompleteSegs', base', inflight')
  BY KeepsDone
<1>3. base > 0 /\ slot > 0 => DoneBelow(CompleteSegs', base', slot)
  BY <1>1, KeepsDone DEF ReleasedInv
<1> QED
  BY <1>2, <1>3 DEF ReleasedInv, D, Keeps

\* The stream goes on with the next timeline, below where it ended.
LEMMA FlushedNextTimeline ==
    ASSUME ShapeInv, ShapeInv', FlushedInv, Keeps, NextTimeline
    PROVE  FlushedInv'
<1>1. CASE eoc = "switch" /\ fork[tli] <= blockPos
  <2>1. D(blockPos) /\ D(lastFlush)
    BY DEF NextTimeline, ShapeInv, PosInv, FlushedInv, Streaming
  <2>2. startPos' \in Int /\ startPos' <= blockPos
    <3>1. fork[tli] \in LSNs
      BY DEF ShapeInv, TypeOK
    <3>2. startPos' = SegStart(fork[tli]) /\ SegStart(fork[tli]) \in LSNs
          /\ SegStart(fork[tli]) <= fork[tli]
      BY <1>1, <3>1, SegStartOff DEF NextTimeline
    <3> QED
      BY <1>1, <3>1, <3>2, Numbers, ConstantsAssumption DEF LSNs
  <2>3. D(startPos')
    BY <2>1, <2>2, Numbers, DNarrow
  <2>4. pc' = "history" /\ lastFlush' = lastFlush
    BY <1>1 DEF NextTimeline
  <2> QED
    BY <2>1, <2>3, <2>4, NumbersNext, FlushedFrame DEF HasFile
<1>2. CASE ~(eoc = "switch" /\ fork[tli] <= blockPos)
  BY <1>2, NothingFlushed DEF NextTimeline, Streaming
<1> QED
  BY <1>1, <1>2

LEMMA FlushedReopen ==
    ASSUME ShapeInv, ShapeInv', FlushedInv, Keeps, ReopenWalFile
    PROVE  FlushedInv'
<1>1. CASE part[CurrentFile].st = "none"
  BY <1>1, NothingFlushed DEF ReopenWalFile, Streaming
<1>2. CASE part[CurrentFile].st # "none"
  <2>1. pc = "reopen" /\ pc' = "assign" /\ UNCHANGED <<walfile, lastFlush, startPos, blockPos>>
    BY <1>2 DEF ReopenWalFile
  <2> QED
    BY <2>1, NumbersNext, FlushedFrame DEF FlushedInv, HasFile, Streaming
<1> QED
  BY <1>1, <1>2

\* A stream at the beginning of a segment is at the beginning of the file it opens.
LEMMA AtCurrentFile ==
    ASSUME ShapeInv, Off(blockPos) = 0
    PROVE  CurrentFile[2] \in Nat /\ At(CurrentFile[2]) = blockPos
<1>1. blockPos \in Nat
  BY Numbers
<1>2. blockPos = At(Seg(blockPos)) + 0 /\ Seg(blockPos) \in Nat
  BY <1>1, SegOff
<1>3. At(Seg(blockPos)) \in Nat
  BY <1>2, AtType
<1> QED
  BY <1>2, <1>3 DEF CurrentFile

LEMMA FlushedAssign ==
    ASSUME ShapeInv, ShapeInv', FlushedInv, Keeps, AssignWalFile
    PROVE  FlushedInv'
<1>1. /\ pc = "assign" /\ pc' = "data" /\ walfile'.st = "open" /\ walfile'.f = CurrentFile
      /\ UNCHANGED <<lastFlush, startPos, blockPos>>
  BY DEF AssignWalFile
<1>2. D(blockPos) /\ Off(blockPos) = 0 /\ D(lastFlush)
  BY <1>1 DEF FlushedInv, ShapeInv, PosInv, Streaming
<1>3. D(At(walfile'.f[2]))
  BY <1>1, <1>2, AtCurrentFile
<1> QED
  BY <1>1, <1>2, <1>3, NumbersNext, FlushedFrame

LEMMA FlushedWrite ==
    ASSUME ShapeInv, ShapeInv', FlushedInv, Keeps, WriteWalFile
    PROVE  FlushedInv'
<1>1. walfile'.st = "open" /\ walfile'.f = walfile.f
  BY WriteFacts
<1>2. /\ pc = "data" /\ walfile.st = "open" /\ pc' \in {"close", "recv", "data"}
      /\ UNCHANGED <<lastFlush, startPos>>
  BY DEF WriteWalFile
<1>3. D(At(walfile.f[2])) /\ D(lastFlush)
  BY <1>2 DEF FlushedInv, HasFile, Streaming
<1> QED
  BY <1>1, <1>2, <1>3, NumbersNext, FlushedFrame

LEMMA FlushedClose ==
    ASSUME ShapeInv, ShapeInv', FlushedInv, Keeps, CloseWalFile
    PROVE  FlushedInv'
<1>1. \/ walfile' = [walfile EXCEPT !.st = "closed"]
      \/ walfile' = [walfile EXCEPT !.st = "nil"]
  BY DEF CloseWalFile
<1>2. walfile'.f = walfile.f
  BY <1>1, WalFileWithState DEF ShapeInv, TypeOK
<1>3. /\ pc = "close" /\ walfile.st = "open" /\ pc' \in {"fail", "rename", "closesync"}
      /\ UNCHANGED <<lastFlush, startPos, blockPos>>
  BY DEF CloseWalFile, ShapeInv, PosInv
<1>4. D(At(walfile.f[2])) /\ D(lastFlush)
  BY <1>3 DEF FlushedInv, HasFile, Streaming
<1> QED
  BY <1>2, <1>3, <1>4, NumbersNext, FlushedFrame

LEMMA FlushedRename ==
    ASSUME ShapeInv, ShapeInv', FlushedInv, Keeps, RenameWalFile
    PROVE  FlushedInv' /\ D(At(walfile.f[2]))
<1>1. pc = "rename" /\ UNCHANGED <<lastFlush, startPos, blockPos>>
  BY DEF RenameWalFile
<1>2. D(At(walfile.f[2])) /\ D(lastFlush)
  BY <1>1 DEF FlushedInv, HasFile, Streaming
<1>3. CASE part[walfile.f].st = "none"
  <2>1. pc' = "fail"
    BY <1>3 DEF RenameWalFile
  <2> QED
    BY <1>2, <2>1, NothingFlushed DEF Streaming
<1>4. CASE part[walfile.f].st # "none"
  <2>1. walfile'.f = walfile.f /\ pc' = "closesync"
    BY <1>4, RenameIsCalm
  <2> QED
    BY <1>1, <1>2, <2>1, NumbersNext, FlushedFrame
<1> QED
  BY <1>3, <1>4

\* FsyncFnameAndDir on the final name: the segment was found complete.
LEMMA FlushedSyncClosed ==
    ASSUME ShapeInv, ShapeInv', FoundInv, FlushedInv, Keeps, SyncClosedFile
    PROVE  FlushedInv'
<1> DEFINE f == walfile.f
<1>1. CASE ~ClosedNameVisible(f)
  BY <1>1, NothingFlushed DEF SyncClosedFile, Streaming
<1>2. CASE ClosedNameVisible(f)
  <2>1. /\ pc = "closesync" /\ pc' \in {"copydone", "recv", "data"} /\ lastFlush' = blockPos
        /\ UNCHANGED <<blockPos, startPos, walfile>>
    BY <1>2 DEF SyncClosedFile
  <2>2. HasFile /\ D(At(f[2])) /\ walfile.st = "nil"
    BY <2>1 DEF HasFile, FlushedInv, ShapeInv, PosInv
  <2>3. D(blockPos)
    <3>1. CASE walfile.pos = WalSegSz
      <4>1. D(At(f[2] + 1))
        BY <1>2, <3>1, Numbers DEF ClosedNameVisible, FoundInv
      <4>2. blockPos = At(f[2] + 1)
        BY <2>2, <3>1, Numbers DEF ShapeInv, OpenInv
      <4> QED
        BY <4>1, <4>2
    <3>2. CASE walfile.pos # WalSegSz
      BY <2>2, <3>2, StreamDone
    <3> QED  BY <3>1, <3>2
  <2> QED
    BY <2>1, <2>2, <2>3, NumbersNext, FlushedFrame DEF HasFile
<1> QED
  BY <1>1, <1>2

\* A *.partial is created where the stream is.
LEMMA FoundCreate ==
    ASSUME ShapeInv, FoundInv, FlushedInv, Keeps, CreateWalFile
    PROVE  FoundInv'
<1>1. D(blockPos) /\ Off(blockPos) = 0
  BY DEF CreateWalFile, FlushedInv, ShapeInv, PosInv
<1>2. D(At(CurrentFile[2]))
  BY <1>1, AtCurrentFile
<1>3. ASSUME NEW f \in Files
      PROVE  /\ PartialVisible(f)' => DoneBelow(CompleteSegs', base', At(f[2]))
             /\ CompleteVisible(f)' => DoneBelow(CompleteSegs', base', At(f[2] + 1))
  <2>1. At(f[2]) \in Int /\ At(f[2] + 1) \in Int
    BY Numbers, ConstantsAssumption
  <2>2. PartialVisible(f)' => D(At(f[2]))
    BY <1>2, CreateNames DEF FoundInv
  <2>3. CompleteVisible(f)' => D(At(f[2] + 1))
    BY CreateNames DEF FoundInv
  <2> QED
    BY <2>1, <2>2, <2>3, KeepsDone
<1> QED
  BY <1>3 DEF FoundInv, D

\* A segment gets its final name where all below it is done.
LEMMA FoundRename ==
    ASSUME ShapeInv, ShapeInv', FoundInv, FlushedInv, Keeps, RenameWalFile
    PROVE  FoundInv'
<1>1. ASSUME NEW f \in Files
      PROVE  /\ PartialVisible(f)' => DoneBelow(CompleteSegs', base', At(f[2]))
             /\ CompleteVisible(f)' => DoneBelow(CompleteSegs', base', At(f[2] + 1))
  <2>1. f[2] \in Nat /\ At(f[2]) \in Int /\ At(f[2] + 1) \in Int
    BY Numbers, ConstantsAssumption
  <2>2. PartialVisible(f)' => D(At(f[2]))
    BY RenameNames DEF FoundInv
  <2>3. CompleteVisible(f)' => CompleteVisible(f) \/ f = walfile.f
    BY RenameNames
  <2>4. CompleteVisible(f) => DoneBelow(CompleteSegs', base', At(f[2] + 1))
    BY <2>1, KeepsDone DEF FoundInv
  <2>5. ASSUME CompleteVisible(f)', f = walfile.f
        PROVE  DoneBelow(CompleteSegs', base', At(f[2] + 1))
    <3>1. DoneBelow(CompleteSegs', base', At(f[2]))
      BY <2>1, <2>5, FlushedRename, KeepsDone
    <3>2. f[1] \in TLIs /\ f[2] \in Segs /\ f = <<f[1], f[2]>>
      BY DEF Files
    <3>3. f[2] \in CompleteSegs'
      BY <2>5, <3>2 DEF CompleteSegs, Complete
    <3> QED
      BY <2>1, <3>1, <3>3, NumbersNext, DoneExtend
  <2> QED
    BY <2>1, <2>2, <2>3, <2>4, <2>5, KeepsDone
<1> QED
  BY <1>1 DEF FoundInv, D

\* findStreamingStart, the slot or the end of the server's WAL.
LEMMA DoneFindStart ==
    ASSUME ShapeInv, ShapeInv', DoneInv, FindStart, CompleteSegs \subseteq CompleteSegs'
    PROVE  DoneInv'
<1>1. /\ pc' = "history" /\ lastFlush' = startPos' /\ startPos' \in LSNs
      /\ walfile'.st = "nil" /\ slot' = (IF slot = NoSlot THEN 0 ELSE slot)
      /\ UNCHANGED <<serverVars, connVars, fileVars, acked>>
  BY FindStartFacts
<1>2. \A f \in Files : /\ PartialVisible(f)' = PartialVisible(f)
                       /\ CompleteVisible(f)' = CompleteVisible(f)
  BY <1>1 DEF PartialVisible, CompleteVisible
<1>3. SUFFICES FoundInv' /\ ReleasedInv' /\ DoneBelow(CompleteSegs', base', startPos')
  BY <1>1 DEF DoneInv, FlushedInv, HasFile, Streaming, D
<1>4. ASSUME base' = base
      PROVE  /\ FoundInv' /\ ReleasedInv'
             /\ \A x \in Int : D(x) => DoneBelow(CompleteSegs', base', x)
  <2>1. Keeps
    BY <1>4 DEF Keeps
  <2>2. FoundInv'
    BY <1>2, <2>1, FoundFrame DEF DoneInv, SameNames
  <2>3. slot' \in {slot, 0} /\ inflight' = inflight /\ slot \in Int /\ inflight \in Int
    BY <1>1, Numbers DEF NoSlot
  <2>4. ReleasedInv'
    <3>1. DoneBelow(CompleteSegs', base', inflight)
      BY <2>1, <2>3, KeepsDone DEF DoneInv, ReleasedInv
    <3>2. base > 0 /\ slot > 0 => DoneBelow(CompleteSegs', base', slot)
      BY <2>1, <2>3, KeepsDone DEF DoneInv, ReleasedInv
    <3> QED
      BY <1>4, <2>3, <3>1, <3>2 DEF ReleasedInv, D
  <2> QED
    BY <2>1, <2>2, <2>4, KeepsDone
<1>5. CASE base' = base /\ \E e \in WalEntries : startPos' = EntryStart(e)
  <2>1. PICK e \in WalEntries : startPos' = EntryStart(e)
    BY <1>5
  <2>2. /\ e[1] \in Files /\ EntryStart(e) \in Int
        /\ \/ PartialVisible(e[1]) /\ EntryStart(e) = At(e[1][2])
           \/ CompleteVisible(e[1]) /\ EntryStart(e) = At(e[1][2] + 1)
    <3>1. EntryStart(e) \in Int
      BY EntryStartInLSNs, ConstantsAssumption DEF LSNs
    <3>2. CASE e[2]
      BY <3>1, <3>2, EntryStartInLSNs
    <3>3. CASE ~e[2]
      BY <3>1, <3>3, EntryStartInLSNs
    <3> QED
      BY <3>2, <3>3
  <2>3. D(EntryStart(e))
    BY <2>2 DEF DoneInv, FoundInv
  <2> QED
    BY <1>4, <1>5, <2>1, <2>2, <2>3
<1>6. CASE slot' # 0 /\ startPos' = SegStart(slot) /\ base' = IF base = 0 THEN startPos' ELSE base
  <2>1. slot \in LSNs /\ slot \in Nat /\ slot > 0 /\ slot' = slot
    BY <1>1, <1>6, ConstantsAssumption DEF ShapeInv, TypeOK, LSNs, NoSlot
  <2>2. SegStart(slot) \in Int /\ SegStart(slot) <= slot /\ slot < SegStart(slot) + WalSegSz
    <3>1. Seg(slot) \in Nat /\ Off(slot) \in 0..(WalSegSz - 1) /\ slot = At(Seg(slot)) + Off(slot)
          /\ SegStart(slot) = At(Seg(slot))
      BY <2>1, SegOff
    <3>2. At(Seg(slot)) \in Nat
      BY <3>1, AtType
    <3> QED
      BY <3>1, <3>2, ConstantsAssumption
  <2>3. CASE base = 0
    <3>1. base' = SegStart(slot) /\ inflight' = 0 /\ base' \in Int /\ base' >= 0
      BY <1>1, <1>6, <2>3, ConstantsAssumption DEF ShapeInv, BaseInv, LSNs
    <3>2. DoneBelow(CompleteSegs', base', startPos') /\ DoneBelow(CompleteSegs', base', slot)
          /\ DoneBelow(CompleteSegs', base', 0)
      BY <1>6, <2>1, <2>2, <3>1, DoneNothing, ConstantsAssumption
    <3>3. FoundInv'
      BY <1>2, <2>3 DEF ShapeInv, BaseInv, FoundInv, PartialVisible, CompleteVisible, NoPart
    <3> QED
      BY <2>1, <3>1, <3>2, <3>3 DEF ReleasedInv, D
  <2>4. CASE base # 0
    <3>1. base' = base /\ base > 0
      BY <1>6, <2>4, Numbers
    <3>2. D(SegStart(slot))
      BY <2>1, <2>2, <3>1, DNarrow DEF DoneInv, ReleasedInv
    <3> QED
      BY <1>4, <1>6, <2>2, <3>1, <3>2
  <2> QED
    BY <2>3, <2>4
<1>7. CASE slot' = 0 /\ startPos' = SegStart(srvEnd) /\ base' = startPos'
  <2>1. base' \in Int /\ base <= base' /\ base \in Int
    BY <1>1, <1>7, BoundaryBelow, Numbers, ConstantsAssumption DEF ShapeInv, BaseInv, LSNs
  <2>2. \A x \in Int : D(x) => DoneBelow(CompleteSegs', base', x)
    BY <2>1, DoneNarrow DEF D
  <2>3. DoneBelow(CompleteSegs', base', startPos')
    BY <1>7, <2>1, DoneNothing, ConstantsAssumption
  <2>4. \A f \in Files : At(f[2]) \in Int /\ At(f[2] + 1) \in Int
    BY Numbers, ConstantsAssumption
  <2>5. FoundInv'
    BY <1>2, <2>2, <2>4 DEF DoneInv, FoundInv, D
  <2>6. ReleasedInv'
    BY <1>1, <1>7, <2>2, Numbers DEF DoneInv, ReleasedInv, D
  <2> QED
    BY <2>3, <2>5, <2>6
<1> QED
  BY <1>5, <1>6, <1>7, FindStartFacts

\* Steps that end the stream, or stand outside it.
LEMMA FlushedOutside ==
    ASSUME \/ Connect \/ CloseOnError \/ SyncOnError \/ EndStream \/ CancelledBeforeStream
           \/ Restart \/ IOError \/ SyncOnErrorFails \/ EndStreamFails \/ ConnectionLost \/ Kill
    PROVE  FlushedInv'
<1>1. pc' \notin Streaming \cup {"history", "start"}
  BY DEF Connect, CloseOnError, SyncOnError, EndStream, CancelledBeforeStream, Restart, IOError,
     SyncOnErrorFails, EndStreamFails, ConnectionLost, Kill, ProcessGone, Streaming
<1> QED
  BY <1>1, NothingFlushed

\* Every step of the receiver and its surroundings keeps what is done.
LEMMA DoneNext ==
    ASSUME SoundFaults, NoPower, ShapeInv, ShapeInv', DoneInv, Next,
           CompleteSegs \subseteq CompleteSegs'
    PROVE  DoneInv'
<1>1. CASE FindStart
  BY <1>1, DoneFindStart
<1>2. CASE ~FindStart
  <2>1. ~ReopenFails /\ ~PowerFailure
    BY DEF ReopenFails, PowerFailure, SoundFaults, NoPower
  <2>2. Keeps
    BY <1>2 DEF Keeps, Next, ServerStep, ServerWrite, Promote, Recycle, ApplyFeedback,
       ReceiverStep, Connect, FetchHistory, StartReplication, LoopSync, LoopStatus, LoopIdle,
       ReceiveTimeout, ProcessKeepalive, ReceiveXLogData, ReceiveCopyDone, EndOfCopy,
       CreateWalFile, TruncateWalFile, FindWalFile, ReopenWalFile, AssignWalFile, WriteWalFile,
       CloseWalFile, RenameWalFile, SyncClosedFile, NextTimeline, CloseOnError, SyncOnError,
       EndStream, CancelledBeforeStream, Restart, FaultStep, ServerShutdown, IOError,
       SyncOnErrorFails, EndStreamFails, ReopenFails, ConnectionLost, Cancel, Kill, PowerFailure,
       ProcessGone
  <2>3. FoundInv /\ ReleasedInv /\ FlushedInv
    BY DEF DoneInv
  <2>4. FoundInv'
    BY <2>2, <2>3, NextSameNames, FoundFrame, FoundCreate, FoundRename
  <2>5. CASE LoopSync \/ ProcessKeepalive
    BY <2>2, <2>3, <2>4, <2>5, FlushedSync, FlushedKeepalive, ReleasedFeedback, Numbers
       DEF LoopSync, ProcessKeepalive, DoneInv
  <2>6. CASE LoopStatus
    <3>1. inflight' = lastFlush /\ slot' = slot /\ D(lastFlush)
      BY <2>3, <2>6 DEF LoopStatus, SendFeedback, FlushedInv, Streaming
    <3> QED
      BY <2>2, <2>3, <2>4, <2>6, <3>1, Numbers, ReleasedFeedback, FlushedStreamStep DEF DoneInv
  <2>7. CASE ServerStep \/ Cancel
    <3>1. inflight' \in {inflight, 0} /\ slot' \in {slot, Delivered}
      BY <2>7 DEF ServerStep, ServerWrite, Promote, Recycle, ApplyFeedback, Cancel, Delivered
    <3> QED
      BY <2>2, <2>3, <2>4, <2>7, <3>1, ReleasedFrame, FlushedServerStep DEF DoneInv
  <2>8. CASE \/ FetchHistory \/ StartReplication \/ LoopIdle \/ ReceiveTimeout
             \/ ReceiveXLogData \/ ReceiveCopyDone \/ ServerShutdown
             \/ CreateWalFile \/ TruncateWalFile \/ FindWalFile
    <3>1. inflight' = inflight /\ slot' = slot
      BY <2>8 DEF FetchHistory, StartReplication, LoopIdle, ReceiveTimeout, ReceiveXLogData,
         ReceiveCopyDone, ServerShutdown, EndOfCopy, CreateWalFile, TruncateWalFile, FindWalFile
    <3> QED
      BY <2>2, <2>3, <2>4, <2>8, <3>1, ReleasedFrame, FlushedStreamStep DEF DoneInv
  <2>9. CASE \/ NextTimeline \/ ReopenWalFile \/ AssignWalFile \/ WriteWalFile \/ CloseWalFile
             \/ RenameWalFile \/ SyncClosedFile
    <3>1. inflight' \in {inflight, 0} /\ slot' \in {slot, Delivered}
      BY <2>9 DEF NextTimeline, ReopenWalFile, AssignWalFile, WriteWalFile, CloseWalFile,
         RenameWalFile, SyncClosedFile
    <3> QED
      BY <2>2, <2>3, <2>4, <2>9, <3>1, ReleasedFrame, FlushedNextTimeline, FlushedReopen,
         FlushedAssign, FlushedWrite, FlushedClose, FlushedRename, FlushedSyncClosed DEF DoneInv
  <2>10. CASE \/ Connect \/ CloseOnError \/ SyncOnError \/ EndStream \/ CancelledBeforeStream
              \/ Restart \/ IOError \/ SyncOnErrorFails \/ EndStreamFails \/ ConnectionLost \/ Kill
    <3>1. inflight' \in {inflight, 0} /\ slot' \in {slot, Delivered}
      BY <2>10 DEF Connect, CloseOnError, SyncOnError, EndStream, CancelledBeforeStream, Restart,
         IOError, SyncOnErrorFails, EndStreamFails, ConnectionLost, Kill, ProcessGone
    <3> QED
      BY <2>2, <2>3, <2>4, <2>10, <3>1, ReleasedFrame, FlushedOutside DEF DoneInv
  <2> QED
    BY <1>2, <2>1, <2>5, <2>6, <2>7, <2>8, <2>9, <2>10 DEF Next, ReceiverStep, FaultStep
<1> QED
  BY <1>1, <1>2

\* The uploader takes names away and adds to the archive: what is done stays done.
LEMMA DoneUploaderStep ==
    ASSUME ShapeInv, ShapeInv', ArchiveTypeOK, DoneInv, UploaderStep \/ UNCHANGED allVars,
           CompleteSegs \subseteq CompleteSegs'
    PROVE  DoneInv'
<1>1. UNCHANGED <<serverVars, slot, connVars, pc, streamVars, walfile, ghostVars>>
  BY DEF UploaderStep, PerformUploads, TakeFile, PutFile, PutFails, RemoveFile, allVars, vars
<1>2. Keeps
  BY <1>1 DEF Keeps
<1>3. ASSUME NEW f \in Files
      PROVE  /\ CompleteVisible(f)' => CompleteVisible(f)
             /\ PartialVisible(f)' => PartialVisible(f)
  <2>1. CASE \E n \in uploaded : RemoveFile(n)
    BY <2>1, RemoveNames DEF ArchiveTypeOK
  <2>2. CASE UNCHANGED vars
    BY <2>2, StillSameNames DEF SameNames
  <2> QED
    BY <2>1, <2>2 DEF UploaderStep, PerformUploads, TakeFile, PutFile, PutFails, allVars
<1>4. FoundInv'
  <2>1. ASSUME NEW f \in Files
        PROVE  /\ PartialVisible(f) => DoneBelow(CompleteSegs', base', At(f[2]))
               /\ CompleteVisible(f) => DoneBelow(CompleteSegs', base', At(f[2] + 1))
    <3>1. At(f[2]) \in Int /\ At(f[2] + 1) \in Int
      BY Numbers, ConstantsAssumption
    <3> QED
      BY <1>2, <3>1, KeepsDone DEF DoneInv, FoundInv
  <2> QED
    BY <1>3, <2>1 DEF FoundInv, D
<1>5. ReleasedInv'
  BY <1>1, <1>2, ReleasedFrame DEF DoneInv
<1>6. FlushedInv'
  BY <1>1, <1>2, NumbersNext, FlushedFrame DEF DoneInv, FlushedInv, HasFile
<1> QED
  BY <1>4, <1>5, <1>6 DEF DoneInv

\* The initial state: no file, no object, nothing undertaken.
LEMMA ArcInit == ArchiveInit => ArcInv
<1>1. SUFFICES ASSUME ArchiveInit PROVE ArcInv
  OBVIOUS
<1>2. ShapeInv /\ base = 0 /\ inflight = 0 /\ pc = "connect"
  BY <1>1, ShapeInit DEF ArchiveInit, Init
<1>3. ArchiveTypeOK
  BY <1>1, UploaderAssumption, ConstantsAssumption DEF ArchiveInit, ArchiveTypeOK
<1>4. UploadInv
  BY <1>1 DEF ArchiveInit, UploadInv
<1>5. OwnInv
  BY <1>1, CompleteName, ConstantsAssumption DEF ArchiveInit, OwnInv, NoObject
<1>6. FoundInv
  BY <1>2 DEF FoundInv, ShapeInv, BaseInv, PartialVisible, CompleteVisible, NoPart
<1>7. ReleasedInv
  BY <1>2, DoneNothing, ConstantsAssumption DEF ReleasedInv, D
<1>8. FlushedInv
  BY <1>2 DEF FlushedInv, HasFile, Streaming
<1> QED
  BY <1>2, <1>3, <1>4, <1>5, <1>6, <1>7, <1>8 DEF ArcInv, DoneInv

\* Every step of the receiver and of the uploader keeps the invariant.
LEMMA ArcNext ==
    ASSUME SoundFaults, NoPower, ArcInv, [ArchiveNext]_allVars
    PROVE  ArcInv'
<1>1. ShapeInv /\ ArchiveTypeOK /\ UploadInv /\ OwnInv /\ DoneInv
  BY DEF ArcInv
<1>2. ShapeInv'
  BY <1>1, ShapeArchiveNext
<1>3. ArchiveTypeOK' /\ UploadInv' /\ OwnInv'
  BY <1>1, <1>2, TypeArchiveNext, UploadArchiveNext, OwnArchiveNext
<1>4. CompleteSegs \subseteq CompleteSegs'
  BY <1>1, CompleteSegsGrow
<1>5. DoneInv'
  <2>1. CASE OtherStep
    BY <1>1, <1>2, <1>4, <2>1, DoneNext DEF OtherStep
  <2>2. CASE UploaderStep \/ UNCHANGED allVars
    BY <1>1, <1>2, <1>4, <2>2, DoneUploaderStep
  <2> QED
    BY <2>1, <2>2 DEF ArchiveNext
<1> QED
  BY <1>2, <1>3, <1>5 DEF ArcInv

-----------------------------------------------------------------------------
(***************************************************************************)
(* The results.                                                            *)
(***************************************************************************)
\* A position in a complete segment can be read, from the directory or the archive.
LEMMA CompleteIsReadable ==
    ASSUME ShapeInv, OwnInv, NEW t \in TLIs, NEW l \in LSNs, Complete(<<t, Seg(l)>>)
    PROVE  Stored(l) \/ Archived(l)
<1> DEFINE f == <<t, Seg(l)>>
<1>1. f \in Files /\ f[1] = t /\ f[2] = Seg(l) /\ Seg(l) \in Nat /\ l \in Nat
  BY SegInSegs DEF Files
<1>2. /\ l = At(Seg(l)) + Off(l) /\ Off(l) \in 0..(WalSegSz - 1) /\ At(Seg(l)) \in Nat
      /\ At(Seg(l) + 1) = At(Seg(l)) + WalSegSz
  BY <1>1, SegOff, AtType
<1>3. t <= srvTli /\ At(Seg(l) + 1) <= TimelineEnd(t)
  BY <1>1, VisibleIsOwn DEF Complete, OwnInv
<1>4. TimelineEnd(t) \in Int /\ srvTli \in Int /\ \A u \in TLIs : u \in Int /\ fork[u] \in Int
  BY ConstantsAssumption DEF ShapeInv, TypeOK, TimelineEnd, LSNs, TLIs
<1>5. l < TimelineEnd(t)
  BY <1>2, <1>3, <1>4, ConstantsAssumption
<1>6. InHistory(t, l)
  BY <1>1, <1>3, <1>4, <1>5 DEF InHistory, ShapeInv, ForkInv, TimelineEnd
<1>7. CASE CompleteVisible(f)
  <2>1. part[f].st = "renamed" => part[f].linked /\ part[f].flushed = WalSegSz
    BY <1>1 DEF ShapeInv, PartInv, PartOK
  <2>2. SurvivesIn(t, l)
    BY <1>2, <1>7, <2>1, ConstantsAssumption DEF SurvivesIn, CompleteVisible
  <2> QED
    BY <1>3, <1>6, <2>2 DEF Stored
<1>8. CASE archive[<<"complete", f>>] = WalSegSz
  BY <1>2, <1>3, <1>6, <1>8, ConstantsAssumption DEF Archived
<1> QED
  BY <1>7, <1>8 DEF Complete

(***************************************************************************)
(* The invariant of the receiver and the uploader together: every segment  *)
(* below what findStreamingStart may find, what the stream takes as        *)
(* flushed and what the slot releases is complete, in the receive          *)
(* directory or in the archive.                                            *)
(***************************************************************************)
THEOREM ArchiveInvariant ==
    ASSUME SoundFaults, NoPower
    PROVE  ArchiveSpec => []ArcInv
<1>1. ArcInv /\ [ArchiveNext]_allVars => ArcInv'
  BY ArcNext
<1> QED
  BY <1>1, ArcInit, PTL DEF ArchiveSpec

(***************************************************************************)
(* The uploader's state keeps its type and no file is ever in two pairs of *)
(* hands: performUploads joins its workers before the next tick lists the  *)
(* directory.                                                              *)
(***************************************************************************)
THEOREM ArchiveTyped ==
    ASSUME SoundFaults, NoPower
    PROVE  ArchiveSpec => []ArchiveTypeOK
<1>1. ArcInv => ArchiveTypeOK
  BY DEF ArcInv
<1> QED
  BY <1>1, ArchiveInvariant, PTL

(***************************************************************************)
(* Uploading and removing never lose WAL: below the segment the slot       *)
(* protects every byte is in the receive directory or in the archive, for  *)
(* every number of workers, over every failing upload, torn object, crash, *)
(* broken connection and promotion.                                        *)
(***************************************************************************)
THEOREM UploadsLoseNothing ==
    ASSUME SoundFaults, NoPower
    PROVE  ArchiveSpec => []NothingLostToUploads
<1>1. ArcInv => NothingLostToUploads
  <2>1. SUFFICES ASSUME ArcInv, base > 0, slot > 0, NEW l \in LSNs,
                        base <= l, l < Lesser(SegStart(slot), srvEnd)
                 PROVE  Stored(l) \/ Archived(l)
    BY DEF NothingLostToUploads
  <2>2. ShapeInv /\ OwnInv /\ DoneInv
    BY <2>1 DEF ArcInv
  <2>3. slot \in LSNs /\ slot \in Nat /\ base \in Nat /\ srvEnd \in Nat /\ l \in Nat
    BY <2>1, <2>2, Numbers, SegInSegs DEF ShapeInv, TypeOK, NoSlot
  <2>4. Seg(slot) \in Nat /\ SegStart(slot) = At(Seg(slot)) /\ SegStart(slot) \in 0..slot
    BY <2>3, SegOff
  <2>5. l < At(Seg(slot))
    BY <2>1, <2>3, <2>4 DEF Lesser
  <2>6. Seg(l) \in Segs /\ Seg(l) \in Nat /\ Seg(l) < Seg(slot)
    BY <2>3, <2>4, <2>5, SegInSegs, SegOrder
  <2>7. At(Seg(l) + 1) <= At(Seg(slot)) /\ At(Seg(l) + 1) \in Nat
    BY <2>4, <2>6, AtType, AtMono
  <2>8. base <= At(Seg(l))
    BY <2>1, <2>2, <2>3, SegOff, BoundaryBelow DEF ShapeInv, BaseInv
  <2>9. D(slot)
    BY <2>1, <2>2 DEF DoneInv, ReleasedInv
  <2>10. At(Seg(l) + 1) <= slot
    BY <2>3, <2>4, <2>7
  <2>11. Seg(l) \in CompleteSegs
    BY <2>6, <2>8, <2>9, <2>10 DEF D, DoneBelow
  <2> QED
    BY <2>2, <2>11, CompleteIsReadable DEF CompleteSegs
<1> QED
  BY <1>1, ArchiveInvariant, PTL

(***************************************************************************)
(* A complete segment leaves the receive directory only when the archive   *)
(* has all of it: no step of the receiver takes its name away, and a       *)
(* worker removes only what its Put stored.                                *)
(***************************************************************************)
THEOREM RemovalNeedsArchive ==
    ASSUME SoundFaults, NoPower
    PROVE  ArchiveSpec => RemovedOnlyWhenArchived
<1>1. ArcInv /\ [ArchiveNext]_allVars =>
        [\A f \in Files : CompleteVisible(f) /\ ~CompleteVisible(f)' =>
            archive[<<"complete", f>>] = WalSegSz]_allVars
  BY OnlyArchivedIsRemoved DEF ArcInv
<1> QED
  BY <1>1, ArchiveInvariant, PTL DEF ArchiveSpec, RemovedOnlyWhenArchived
-----------------------------------------------------------------------------
(***************************************************************************)
(* The refinement of SegmentLife: every step is a step of every segment's  *)
(* life.                                                                   *)
(***************************************************************************)
\* The values of an archived name tell the states of an object apart.
LEMMA ObjectValues == WalSegSz # NoObject /\ WalSegSz # Torn /\ Torn # NoObject
  BY ConstantsAssumption DEF NoObject, Torn

\* A segment gets its final name from its *.partial only.
LEMMA LifeNames ==
    ASSUME SoundFaults, NoPower, ShapeInv, ArchiveTypeOK, UploadInv, [ArchiveNext]_allVars,
           NEW f \in Files, ~CompleteVisible(f), CompleteVisible(f)'
    PROVE  PartialVisible(f)
<1>1. CASE OtherStep
  <2>1. CASE RenameWalFile
    <3>1. f = walfile.f /\ part[f].st # "none"
      BY <2>1, RenameNames
    <3>2. part[f].st \in {"none", "empty", "sized", "synced", "renamed"}
      BY DEF ShapeInv, TypeOK, Part, PartStates
    <3> QED
      BY <3>1, <3>2 DEF CompleteVisible, PartialVisible
  <2>2. CASE ~RenameWalFile
    BY <1>1, <2>2, CreateNames, NextSameNames DEF OtherStep, SameNames
  <2> QED
    BY <2>1, <2>2
<1>2. CASE UNCHANGED vars
  BY <1>2, StillSameNames DEF SameNames
<1>3. ASSUME NEW n \in uploaded, RemoveFile(n) PROVE FALSE
  BY <1>3, RemoveNames DEF ArchiveTypeOK
<1> QED
  BY <1>1, <1>2, <1>3
     DEF ArchiveNext, allVars, UploaderStep, PerformUploads, TakeFile, PutFile, PutFails

\* The object of a complete segment changes only while the file is there and stays.
LEMMA LifeObject ==
    ASSUME SoundFaults, NoPower, ShapeInv, ArchiveTypeOK, UploadInv, [ArchiveNext]_allVars,
           NEW f \in Files, archive'[<<"complete", f>>] # archive[<<"complete", f>>]
    PROVE  /\ CompleteVisible(f) /\ CompleteVisible(f)'
           /\ archive'[<<"complete", f>>] \in {WalSegSz, Torn}
<1> DEFINE c == <<"complete", f>>
<1>c. c \in Names /\ c[1] = "complete"
  BY CompleteName
<1>0. SUFFICES c \in opened /\ archive'[c] \in {WalSegSz, Torn}
  <2>1. CompleteVisible(f)
    BY <1>0 DEF UploadInv
  <2> QED
    BY <1>0, <2>1, OnlyArchivedIsRemoved
<1>1. CASE OtherStep
  BY <1>c, <1>1, OtherArchive
<1>2. ASSUME NEW n \in opened, PutFile(n) PROVE c \in opened /\ archive'[c] \in {WalSegSz, Torn}
  BY <1>c, <1>2, PutArchive DEF ArchiveTypeOK
<1>3. ASSUME NEW n \in opened, PutFails(n) PROVE c \in opened /\ archive'[c] \in {WalSegSz, Torn}
  BY <1>c, <1>3, FailedArchive DEF ArchiveTypeOK
<1> QED
  BY <1>1, <1>2, <1>3 DEF ArchiveNext, allVars, upVars, UploaderStep, PerformUploads, TakeFile,
                          RemoveFile

\* One step of the composition is one step of the life of each segment, or none.
LEMMA LifeStep ==
    ASSUME SoundFaults, NoPower, ShapeInv, ArchiveTypeOK, ArchiveTypeOK', UploadInv,
           [ArchiveNext]_allVars
    PROVE  Life!Next
<1>1. SUFFICES ASSUME NEW f \in Files
               PROVE  \/ Life!Begin(f) \/ Life!Discard(f) \/ Life!Finish(f) \/ Life!Store(f)
                      \/ Life!Tear(f) \/ Life!Release(f) \/ Life!Rest(f)
  BY DEF Life!Next
<1> DEFINE d == DirState(f)  e == DirState(f)'  o == ObjectState(f)  q == ObjectState(f)'
           c == <<"complete", f>>
<1>2. /\ [g \in Files |-> DirState(g)][f] = d /\ [g \in Files |-> DirState(g)]'[f] = e
      /\ [g \in Files |-> ObjectState(g)][f] = o /\ [g \in Files |-> ObjectState(g)]'[f] = q
  OBVIOUS
<1>3. /\ d = IF CompleteVisible(f) THEN "complete"
             ELSE IF PartialVisible(f) THEN "receiving" ELSE "absent"
      /\ o = "whole" <=> archive[c] = WalSegSz
  BY ObjectValues DEF DirState, ObjectState
<1>4. /\ e = IF CompleteVisible(f)' THEN "complete"
             ELSE IF PartialVisible(f)' THEN "receiving" ELSE "absent"
      /\ q = "whole" <=> archive'[c] = WalSegSz
      /\ archive'[c] = Torn => q = "torn"
  BY ObjectValues DEF DirState, ObjectState
<1>5. archive'[c] = archive[c] => q = o
  BY DEF ObjectState
<1>6. CASE archive'[c] # archive[c]
  <2>1. d = "complete" /\ e = "complete" /\ q \in {"whole", "torn"}
    BY <1>3, <1>4, <1>6, LifeObject
  <2> QED
    BY <1>2, <2>1 DEF Life!Store, Life!Tear
<1>7. CASE archive'[c] = archive[c] /\ CompleteVisible(f) /\ ~CompleteVisible(f)'
  <2>1. d = "complete" /\ o = "whole" /\ q = "whole" /\ e \in {"absent", "receiving"}
    BY <1>3, <1>4, <1>5, <1>7, OnlyArchivedIsRemoved
  <2> QED
    BY <1>2, <2>1 DEF Life!Release
<1>8. CASE archive'[c] = archive[c] /\ ~CompleteVisible(f) /\ CompleteVisible(f)'
  <2>1. d = "receiving" /\ e = "complete"
    BY <1>3, <1>4, <1>8, LifeNames
  <2> QED
    BY <1>2, <1>5, <1>8, <2>1 DEF Life!Finish
<1>9. CASE archive'[c] = archive[c] /\ (CompleteVisible(f) <=> CompleteVisible(f)')
  <2>1. d = e \/ (d = "absent" /\ e = "receiving") \/ (d = "receiving" /\ e = "absent")
    BY <1>3, <1>4, <1>9
  <2> QED
    BY <1>2, <1>5, <1>9, <2>1 DEF Life!Rest, Life!Begin, Life!Discard
<1> QED
  BY <1>6, <1>7, <1>8, <1>9

(***************************************************************************)
(* Receiver and uploader, in one process or over many, lead every segment  *)
(* through the life SegmentLife describes: for every number of workers,    *)
(* failing and torn upload, kill and failed call.                          *)
(***************************************************************************)
THEOREM UploadsFollowLife ==
    ASSUME SoundFaults, NoPower
    PROVE  ArchiveSpec => ArchiveImplementsLife
<1>1. ArchiveInit => Life!Init
  <2>1. SUFFICES ASSUME ArchiveInit
                 PROVE  \A f \in Files : DirState(f) = "absent" /\ ObjectState(f) = "none"
    BY <2>1 DEF Life!Init
  <2>2. SUFFICES ASSUME NEW f \in Files
                 PROVE  DirState(f) = "absent" /\ ObjectState(f) = "none"
    OBVIOUS
  <2>3. part[f].st = "none" /\ ~full[f]
    BY <2>1 DEF ArchiveInit, Init, NoPart
  <2>4. archive[<<"complete", f>>] = NoObject
    BY <2>1, CompleteName DEF ArchiveInit
  <2> QED
    BY <2>3, <2>4, ConstantsAssumption
       DEF DirState, ObjectState, CompleteVisible, PartialVisible, NoObject
<1>2. ArcInv /\ ArcInv' /\ [ArchiveNext]_allVars => Life!Next
  BY LifeStep DEF ArcInv
<1> QED
  BY <1>1, <1>2, ArchiveInvariant, PTL DEF ArchiveSpec, ArchiveImplementsLife, Life!Spec

(***************************************************************************)
(* So a segment that was complete once is whole somewhere for ever after.  *)
(***************************************************************************)
THEOREM LifeKeeps ==
    ASSUME SoundFaults, NoPower
    PROVE  ArchiveSpec => Life!KeptForGood
<1>1. ASSUME Life!Next PROVE Life!Kept \subseteq Life!Kept'
  <2>1. SUFFICES ASSUME NEW f \in Files, f \in Life!Kept
                 PROVE  f \in Life!Kept'
    BY DEF Life!Kept
  <2> QED
    BY <1>1, <2>1 DEF Life!Kept, Life!Next, Life!Begin, Life!Discard, Life!Finish, Life!Store,
                      Life!Tear, Life!Release, Life!Rest
<1>2. [Life!Next]_(Life!vars) => [Life!Kept \subseteq Life!Kept']_(Life!vars)
  BY <1>1
<1> QED
  BY <1>2, UploadsFollowLife, PTL DEF ArchiveImplementsLife, Life!Spec, Life!KeptForGood
==================================================================================
