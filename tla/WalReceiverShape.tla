----------------------------- MODULE WalReceiverShape -----------------------------
(***************************************************************************)
(* ShapeInv is an invariant of WalReceiver: the first of the two           *)
(* inductions.  Type correctness is a part of it; alone it is not          *)
(* inductive, since that no position leaves its range depends on how the   *)
(* positions, the open file and the message being written relate.          *)
(***************************************************************************)
EXTENDS WalReceiverInv

USE DEF serverVars, connVars, streamVars, fileVars, ghostVars, Goto, Fault

-----------------------------------------------------------------------------
\* The file the stream is about to open is one of the model's.
LEMMA CurrentFileIsFile ==
    ASSUME TypeOK
    PROVE  CurrentFile \in Files /\ walfile.f \in Files
  BY SegInSegs DEF TypeOK, CurrentFile, Files, WalFile

\* A new state of the descriptor leaves the rest of the record alone.
LEMMA WalFileWithState ==
    ASSUME NEW w \in WalFile, NEW st \in {"nil", "open", "closed"}
    PROVE  /\ [w EXCEPT !.st = st] \in WalFile /\ [w EXCEPT !.st = st].st = st
           /\ [w EXCEPT !.st = st].f = w.f /\ [w EXCEPT !.st = st].pos = w.pos
  BY DEF WalFile

-----------------------------------------------------------------------------
LEMMA ShapeInit == Init => ShapeInv
<1>1. SUFFICES ASSUME Init PROVE ShapeInv
  OBVIOUS
<1>2. InitLSN \in LSNs /\ 0 \in LSNs /\ 0 \in Segs /\ 1 \in TLIs
  BY SegInSegs, ConstantsAssumption DEF LSNs, TLIs, Segs
<1>3. SegStart(InitLSN) \in LSNs /\ Off(0) = 0
  BY <1>2, SegStartOff, SegOff, ConstantsAssumption
<1>4. NoPart \in Part /\ PartOK(NoPart) /\ NoPart.data = 0
  BY ConstantsAssumption DEF NoPart, Part, PartStates, PartOK
<1>5. walfile \in WalFile
  BY <1>1, <1>2, ConstantsAssumption DEF Init, WalFile, Files
<1>c. ctxDone \in BOOLEAN
  BY <1>1 DEF Init
<1>6. TypeOK
  BY <1>1, <1>2, <1>3, <1>4, <1>5, <1>c, ConstantsAssumption DEF Init, TypeOK, PCs
<1>7. ForkInv /\ PartInv /\ FilesInv
  BY <1>1, <1>2, <1>4, ConstantsAssumption DEF Init, ForkInv, PartInv, FilesInv, TLIs
<1>8. BaseInv /\ MsgInv /\ PosInv /\ OpenInv
  BY <1>1, <1>2, <1>3, ConstantsAssumption
     DEF Init, BaseInv, MsgInv, PosInv, OpenInv, HasFile, Streaming, NoSlot
<1> QED
  BY <1>6, <1>7, <1>8 DEF ShapeInv

LEMMA ShapeApplyFeedback ==
    ASSUME SoundFaults, ShapeInv, ApplyFeedback
    PROVE  ShapeInv'
<1>1. ForkInv' /\ PartInv' /\ FilesInv'
  BY DiskFrame DEF ApplyFeedback
<1>2. TypeOK'
  BY ConstantsAssumption
     DEF ApplyFeedback, ShapeInv, TypeOK, LSNs, PCs
<1>3. BaseInv' /\ MsgInv' /\ PosInv' /\ OpenInv'
  BY ConstantsAssumption
     DEF ApplyFeedback, ShapeInv, TypeOK, TimelineEnd, CurrentFile,
         BaseInv, MsgInv, PosInv, OpenInv, HasFile, Streaming
<1> QED
  BY <1>1, <1>2, <1>3 DEF ShapeInv

LEMMA ShapeConnect ==
    ASSUME SoundFaults, ShapeInv, Connect
    PROVE  ShapeInv'
<1>1. ForkInv' /\ PartInv' /\ FilesInv'
  BY DiskFrame DEF Connect
<1>2. TypeOK'
  BY ConstantsAssumption
     DEF Connect, ShapeInv, TypeOK, LSNs, PCs
<1>3. BaseInv' /\ MsgInv' /\ PosInv' /\ OpenInv'
  BY ConstantsAssumption
     DEF Connect, ShapeInv, TypeOK, TimelineEnd, CurrentFile,
         BaseInv, MsgInv, PosInv, OpenInv, HasFile, Streaming
<1> QED
  BY <1>1, <1>2, <1>3 DEF ShapeInv

LEMMA ShapeFetchHistory ==
    ASSUME SoundFaults, ShapeInv, FetchHistory
    PROVE  ShapeInv'
<1>1. ForkInv' /\ PartInv' /\ FilesInv'
  BY DiskFrame DEF FetchHistory, HasHistory
<1>2. TypeOK'
  BY ConstantsAssumption
     DEF FetchHistory, HasHistory, ShapeInv, TypeOK, LSNs, PCs
<1>3. BaseInv' /\ MsgInv' /\ PosInv' /\ OpenInv'
  BY ConstantsAssumption
     DEF FetchHistory, HasHistory, ShapeInv, TypeOK, TimelineEnd, CurrentFile,
         BaseInv, MsgInv, PosInv, OpenInv, HasFile, Streaming
<1> QED
  BY <1>1, <1>2, <1>3 DEF ShapeInv

LEMMA ShapeStartReplication ==
    ASSUME SoundFaults, ShapeInv, StartReplication
    PROVE  ShapeInv'
<1>1. ForkInv' /\ PartInv' /\ FilesInv'
  BY DiskFrame DEF StartReplication, ServerCanStart
<1>2. TypeOK'
  BY ConstantsAssumption
     DEF StartReplication, ServerCanStart, ShapeInv, TypeOK, LSNs, PCs
<1>3. BaseInv' /\ MsgInv' /\ PosInv' /\ OpenInv'
  BY ConstantsAssumption
     DEF StartReplication, LSNs, TLIs, ServerCanStart, ShapeInv, TypeOK, TimelineEnd, CurrentFile,
         BaseInv, MsgInv, PosInv, OpenInv, HasFile, Streaming
<1> QED
  BY <1>1, <1>2, <1>3 DEF ShapeInv

LEMMA ShapeLoopStatus ==
    ASSUME SoundFaults, ShapeInv, LoopStatus
    PROVE  ShapeInv'
<1>1. ForkInv' /\ PartInv' /\ FilesInv'
  BY DiskFrame DEF LoopStatus, AfterTop, SendFeedback, Lesser, Greater
<1>2. TypeOK'
  BY ConstantsAssumption
     DEF LoopStatus, AfterTop, SendFeedback, Lesser, Greater, ShapeInv, TypeOK, LSNs, PCs
<1>3. BaseInv' /\ MsgInv' /\ PosInv' /\ OpenInv'
  BY ConstantsAssumption
     DEF LoopStatus, AfterTop, SendFeedback, Lesser, Greater, ShapeInv, TypeOK, TimelineEnd, CurrentFile,
         BaseInv, MsgInv, PosInv, OpenInv, HasFile, Streaming
<1> QED
  BY <1>1, <1>2, <1>3 DEF ShapeInv

LEMMA ShapeLoopIdle ==
    ASSUME SoundFaults, ShapeInv, LoopIdle
    PROVE  ShapeInv'
<1>1. ForkInv' /\ PartInv' /\ FilesInv'
  BY DiskFrame DEF LoopIdle, AfterTop
<1>2. TypeOK'
  BY ConstantsAssumption
     DEF LoopIdle, AfterTop, ShapeInv, TypeOK, LSNs, PCs
<1>3. BaseInv' /\ MsgInv' /\ PosInv' /\ OpenInv'
  BY ConstantsAssumption
     DEF LoopIdle, AfterTop, ShapeInv, TypeOK, TimelineEnd, CurrentFile,
         BaseInv, MsgInv, PosInv, OpenInv, HasFile, Streaming
<1> QED
  BY <1>1, <1>2, <1>3 DEF ShapeInv

LEMMA ShapeReceiveTimeout ==
    ASSUME SoundFaults, ShapeInv, ReceiveTimeout
    PROVE  ShapeInv'
<1>1. ForkInv' /\ PartInv' /\ FilesInv'
  BY DiskFrame DEF ReceiveTimeout
<1>2. TypeOK'
  BY ConstantsAssumption
     DEF ReceiveTimeout, ShapeInv, TypeOK, LSNs, PCs
<1>3. BaseInv' /\ MsgInv' /\ PosInv' /\ OpenInv'
  BY ConstantsAssumption
     DEF ReceiveTimeout, ShapeInv, TypeOK, TimelineEnd, CurrentFile,
         BaseInv, MsgInv, PosInv, OpenInv, HasFile, Streaming
<1> QED
  BY <1>1, <1>2, <1>3 DEF ShapeInv

LEMMA ShapeReceiveXLogData ==
    ASSUME SoundFaults, ShapeInv, ReceiveXLogData
    PROVE  ShapeInv'
<1>1. ForkInv' /\ PartInv' /\ FilesInv'
  BY DiskFrame DEF ReceiveXLogData
<1>2. TypeOK'
  BY ConstantsAssumption
     DEF ReceiveXLogData, TimelineEnd, PosInv, Streaming, ShapeInv, TypeOK, LSNs, PCs
<1>3. BaseInv' /\ MsgInv' /\ PosInv' /\ OpenInv'
  BY ConstantsAssumption
     DEF ReceiveXLogData, LSNs, TLIs, ShapeInv, TypeOK, TimelineEnd, CurrentFile,
         BaseInv, MsgInv, PosInv, OpenInv, HasFile, Streaming
<1> QED
  BY <1>1, <1>2, <1>3 DEF ShapeInv

LEMMA ShapeReceiveCopyDone ==
    ASSUME SoundFaults, ShapeInv, ReceiveCopyDone
    PROVE  ShapeInv'
<1>1. ForkInv' /\ PartInv' /\ FilesInv'
  BY DiskFrame DEF ReceiveCopyDone, EndOfCopy
<1>2. TypeOK'
  BY ConstantsAssumption
     DEF ReceiveCopyDone, EndOfCopy, ShapeInv, TypeOK, LSNs, PCs
<1>3. BaseInv' /\ MsgInv' /\ PosInv' /\ OpenInv'
  BY ConstantsAssumption
     DEF ReceiveCopyDone, EndOfCopy, ShapeInv, TypeOK, TimelineEnd, CurrentFile,
         BaseInv, MsgInv, PosInv, OpenInv, HasFile, Streaming
<1> QED
  BY <1>1, <1>2, <1>3 DEF ShapeInv

LEMMA ShapeServerShutdown ==
    ASSUME SoundFaults, ShapeInv, ServerShutdown
    PROVE  ShapeInv'
<1>1. ForkInv' /\ PartInv' /\ FilesInv'
  BY DiskFrame DEF ServerShutdown, EndOfCopy
<1>2. TypeOK'
  BY ConstantsAssumption
     DEF ServerShutdown, EndOfCopy, ShapeInv, TypeOK, LSNs, PCs
<1>3. BaseInv' /\ MsgInv' /\ PosInv' /\ OpenInv'
  BY ConstantsAssumption
     DEF ServerShutdown, EndOfCopy, ShapeInv, TypeOK, TimelineEnd, CurrentFile,
         BaseInv, MsgInv, PosInv, OpenInv, HasFile, Streaming
<1> QED
  BY <1>1, <1>2, <1>3 DEF ShapeInv

LEMMA ShapeFindWalFile ==
    ASSUME SoundFaults, ShapeInv, FindWalFile
    PROVE  ShapeInv'
<1>1. ForkInv' /\ PartInv' /\ FilesInv'
  BY DiskFrame DEF FindWalFile
<1>2. TypeOK'
  BY ConstantsAssumption
     DEF FindWalFile, ShapeInv, TypeOK, LSNs, PCs
<1>3. BaseInv' /\ MsgInv' /\ PosInv' /\ OpenInv'
  BY ConstantsAssumption
     DEF FindWalFile, ShapeInv, TypeOK, TimelineEnd, CurrentFile,
         BaseInv, MsgInv, PosInv, OpenInv, HasFile, Streaming
<1> QED
  BY <1>1, <1>2, <1>3 DEF ShapeInv

LEMMA ShapeCloseOnError ==
    ASSUME SoundFaults, ShapeInv, CloseOnError
    PROVE  ShapeInv'
<1>1. ForkInv' /\ PartInv' /\ FilesInv'
  BY DiskFrame DEF CloseOnError
<1>w. walfile' \in WalFile
  BY WalFileWithState DEF CloseOnError, ShapeInv, TypeOK
<1>2. TypeOK'
  BY <1>w, ConstantsAssumption
     DEF CloseOnError, ShapeInv, TypeOK, LSNs, PCs
<1>3. BaseInv' /\ MsgInv' /\ PosInv' /\ OpenInv'
  BY ConstantsAssumption
     DEF CloseOnError, ShapeInv, TypeOK, TimelineEnd, CurrentFile,
         BaseInv, MsgInv, PosInv, OpenInv, HasFile, Streaming
<1> QED
  BY <1>1, <1>2, <1>3 DEF ShapeInv

LEMMA ShapeCancelledBeforeStream ==
    ASSUME SoundFaults, ShapeInv, CancelledBeforeStream
    PROVE  ShapeInv'
<1>1. ForkInv' /\ PartInv' /\ FilesInv'
  BY DiskFrame DEF CancelledBeforeStream, HasHistory
<1>2. TypeOK'
  BY ConstantsAssumption
     DEF CancelledBeforeStream, HasHistory, ShapeInv, TypeOK, LSNs, PCs
<1>3. BaseInv' /\ MsgInv' /\ PosInv' /\ OpenInv'
  BY ConstantsAssumption
     DEF CancelledBeforeStream, HasHistory, ShapeInv, TypeOK, TimelineEnd, CurrentFile,
         BaseInv, MsgInv, PosInv, OpenInv, HasFile, Streaming
<1> QED
  BY <1>1, <1>2, <1>3 DEF ShapeInv

LEMMA ShapeRestart ==
    ASSUME SoundFaults, ShapeInv, Restart
    PROVE  ShapeInv'
<1>1. ForkInv' /\ PartInv' /\ FilesInv'
  BY DiskFrame DEF Restart
<1>c. ctxDone' \in BOOLEAN
  BY DEF Restart
<1>2. TypeOK'
  BY <1>c, ConstantsAssumption
     DEF Restart, ShapeInv, TypeOK, LSNs, PCs
<1>3. BaseInv' /\ MsgInv' /\ PosInv' /\ OpenInv'
  BY ConstantsAssumption
     DEF Restart, ShapeInv, TypeOK, TimelineEnd, CurrentFile,
         BaseInv, MsgInv, PosInv, OpenInv, HasFile, Streaming
<1> QED
  BY <1>1, <1>2, <1>3 DEF ShapeInv

LEMMA ShapeIOError ==
    ASSUME SoundFaults, ShapeInv, IOError
    PROVE  ShapeInv'
<1>1. ForkInv' /\ PartInv' /\ FilesInv'
  BY DiskFrame DEF IOError
<1>w. walfile' \in WalFile
  BY WalFileWithState DEF IOError, ShapeInv, TypeOK
<1>2. TypeOK'
  BY <1>w, ConstantsAssumption
     DEF IOError, ShapeInv, TypeOK, LSNs, PCs
<1>3. BaseInv' /\ MsgInv' /\ PosInv' /\ OpenInv'
  BY ConstantsAssumption
     DEF IOError, ShapeInv, TypeOK, TimelineEnd, CurrentFile,
         BaseInv, MsgInv, PosInv, OpenInv, HasFile, Streaming
<1> QED
  BY <1>1, <1>2, <1>3 DEF ShapeInv

LEMMA ShapeSyncOnErrorFails ==
    ASSUME SoundFaults, ShapeInv, SyncOnErrorFails
    PROVE  ShapeInv'
<1>1. ForkInv' /\ PartInv' /\ FilesInv'
  BY DiskFrame DEF SyncOnErrorFails
<1>2. TypeOK'
  BY ConstantsAssumption
     DEF SyncOnErrorFails, ShapeInv, TypeOK, LSNs, PCs
<1>3. BaseInv' /\ MsgInv' /\ PosInv' /\ OpenInv'
  BY ConstantsAssumption
     DEF SyncOnErrorFails, ShapeInv, TypeOK, TimelineEnd, CurrentFile,
         BaseInv, MsgInv, PosInv, OpenInv, HasFile, Streaming
<1> QED
  BY <1>1, <1>2, <1>3 DEF ShapeInv

LEMMA ShapeEndStreamFails ==
    ASSUME SoundFaults, ShapeInv, EndStreamFails
    PROVE  ShapeInv'
<1>1. ForkInv' /\ PartInv' /\ FilesInv'
  BY DiskFrame DEF EndStreamFails, Delivered
<1>2. TypeOK'
  BY ConstantsAssumption
     DEF EndStreamFails, Delivered, ShapeInv, TypeOK, LSNs, PCs
<1>3. BaseInv' /\ MsgInv' /\ PosInv' /\ OpenInv'
  BY ConstantsAssumption
     DEF EndStreamFails, Delivered, ShapeInv, TypeOK, TimelineEnd, CurrentFile,
         BaseInv, MsgInv, PosInv, OpenInv, HasFile, Streaming
<1> QED
  BY <1>1, <1>2, <1>3 DEF ShapeInv

LEMMA ShapeConnectionLost ==
    ASSUME SoundFaults, ShapeInv, ConnectionLost
    PROVE  ShapeInv'
<1>1. ForkInv' /\ PartInv' /\ FilesInv'
  BY DiskFrame DEF ConnectionLost
<1>2. TypeOK'
  BY ConstantsAssumption
     DEF ConnectionLost, ShapeInv, TypeOK, LSNs, PCs
<1>3. BaseInv' /\ MsgInv' /\ PosInv' /\ OpenInv'
  BY ConstantsAssumption
     DEF ConnectionLost, ShapeInv, TypeOK, TimelineEnd, CurrentFile,
         BaseInv, MsgInv, PosInv, OpenInv, HasFile, Streaming
<1> QED
  BY <1>1, <1>2, <1>3 DEF ShapeInv

LEMMA ShapeCancel ==
    ASSUME SoundFaults, ShapeInv, Cancel
    PROVE  ShapeInv'
<1>1. ForkInv' /\ PartInv' /\ FilesInv'
  BY DiskFrame DEF Cancel
<1>2. TypeOK'
  BY ConstantsAssumption
     DEF Cancel, ShapeInv, TypeOK, LSNs, PCs
<1>3. BaseInv' /\ MsgInv' /\ PosInv' /\ OpenInv'
  BY ConstantsAssumption
     DEF Cancel, ShapeInv, TypeOK, TimelineEnd, CurrentFile,
         BaseInv, MsgInv, PosInv, OpenInv, HasFile, Streaming
<1> QED
  BY <1>1, <1>2, <1>3 DEF ShapeInv

LEMMA ShapeKill ==
    ASSUME SoundFaults, ShapeInv, Kill
    PROVE  ShapeInv'
<1>1. ForkInv' /\ PartInv' /\ FilesInv'
  BY DiskFrame DEF Kill, ProcessGone, Delivered
<1>w. walfile' \in WalFile
  BY WalFileWithState DEF Kill, ProcessGone, ShapeInv, TypeOK
<1>2. TypeOK'
  BY <1>w, ConstantsAssumption
     DEF Kill, ProcessGone, Delivered, ShapeInv, TypeOK, LSNs, PCs
<1>3. BaseInv' /\ MsgInv' /\ PosInv' /\ OpenInv'
  BY ConstantsAssumption
     DEF Kill, ProcessGone, Delivered, ShapeInv, TypeOK, TimelineEnd, CurrentFile,
         BaseInv, MsgInv, PosInv, OpenInv, HasFile, Streaming
<1> QED
  BY <1>1, <1>2, <1>3 DEF ShapeInv

-----------------------------------------------------------------------------
(***************************************************************************)
(* The primary's steps.                                                    *)
(***************************************************************************)
\* Timelines may grow and end where they are; no file is invalidated by that.
LEMMA HistoryGrows ==
    ASSUME ShapeInv, UNCHANGED <<part, full>>, TypeOK',
           \A t \in TLIs : t <= srvTli =>
               t <= srvTli' /\ TimelineEnd(t) <= TimelineEnd(t)'
    PROVE  PartInv' /\ FilesInv'
<1>1. PartInv'
  BY DEF ShapeInv, PartInv
<1>2. ASSUME NEW f \in Files
      PROVE  /\ part'[f].data > 0 =>
                  f[1] <= srvTli' /\ At(f[2]) + part'[f].data <= TimelineEnd(f[1])'
             /\ full'[f] => f[1] <= srvTli' /\ At(f[2] + 1) <= TimelineEnd(f[1])'
  <2>1. f[1] \in TLIs /\ f[2] \in Nat
    BY AtInLSNs DEF Files
  <2>2. At(f[2]) \in Int /\ At(f[2] + 1) \in Int /\ part[f].data \in Int
    BY <2>1, AtType, ConstantsAssumption DEF ShapeInv, TypeOK, Part
  <2>3. TimelineEnd(f[1]) \in Int /\ TimelineEnd(f[1])' \in Int
    BY <2>1, ConstantsAssumption DEF ShapeInv, TypeOK, TimelineEnd, LSNs
  <2> QED
    BY <2>1, <2>2, <2>3 DEF ShapeInv, FilesInv
<1> QED
  BY <1>1, <1>2 DEF FilesInv

LEMMA ShapeServerWrite ==
    ASSUME SoundFaults, ShapeInv, ServerWrite
    PROVE  ShapeInv'
<1>1. TypeOK'
  BY ConstantsAssumption DEF ServerWrite, ShapeInv, TypeOK, LSNs
<1>2. \A t \in TLIs : t <= srvTli => t <= srvTli' /\ TimelineEnd(t) <= TimelineEnd(t)'
  BY ConstantsAssumption DEF ServerWrite, ShapeInv, TypeOK, TimelineEnd, LSNs
<1>3. PartInv' /\ FilesInv'
  BY <1>1, <1>2, HistoryGrows DEF ServerWrite
<1>4. ForkInv' /\ BaseInv' /\ MsgInv' /\ PosInv' /\ OpenInv'
  BY ConstantsAssumption
     DEF ServerWrite, ShapeInv, TypeOK, ForkInv, TimelineEnd, CurrentFile, LSNs, TLIs, NoSlot,
         BaseInv, MsgInv, PosInv, OpenInv, HasFile, Streaming
<1> QED
  BY <1>1, <1>3, <1>4 DEF ShapeInv

\* Without "overlap" a timeline ends at the end of the WAL.
LEMMA ShapePromote ==
    ASSUME SoundFaults, ShapeInv, Promote
    PROVE  ShapeInv'
<1>1. /\ srvTli < MaxTLI /\ srvTli' = srvTli + 1
      /\ fork' = [fork EXCEPT ![srvTli] = srvEnd] /\ srvEnd' = srvEnd
      /\ acked' = Lesser(acked, srvEnd)
  BY DEF Promote, SoundFaults
<1>2. UNCHANGED <<srvMin, slot, sent, inflight, pc, tli, startPos, blockPos, lastFlush, left,
                  walfile, eoc, ctxDone, part, full, hist, base, faults>>
  BY DEF Promote
<1>3. srvTli \in Int /\ srvEnd \in Int /\ acked \in Int /\ acked >= 0 /\ \A t \in TLIs : fork[t] \in Int
  BY ConstantsAssumption DEF ShapeInv, TypeOK, TLIs, LSNs
<1>4. TypeOK'
  BY <1>1, <1>2, ConstantsAssumption DEF ShapeInv, TypeOK, TLIs, LSNs, Lesser
<1>5. \A t \in TLIs : t <= srvTli => t <= srvTli' /\ TimelineEnd(t) = TimelineEnd(t)'
  BY <1>1, <1>3, ConstantsAssumption DEF ShapeInv, TypeOK, TimelineEnd, TLIs
<1>6. PartInv' /\ FilesInv'
  <2>1. \A t \in TLIs : t <= srvTli => t <= srvTli' /\ TimelineEnd(t) <= TimelineEnd(t)'
    BY <1>3, <1>5 DEF TimelineEnd
  <2> QED  BY <1>2, <1>4, <2>1, HistoryGrows
<1>7. ForkInv'
  <2>1. \A t \in TLIs : fork'[t] = IF t = srvTli THEN srvEnd ELSE fork[t]
    BY <1>1 DEF ShapeInv, TypeOK
  <2>2. \A t \in TLIs : t < srvTli' => t <= srvTli /\ fork'[t] <= srvEnd
    BY <2>1, <1>1, <1>3 DEF ShapeInv, ForkInv, TLIs
  <2>3. \A t, u \in TLIs : t < u /\ u < srvTli' => fork'[t] <= fork'[u]
    BY <2>1, <2>2, <1>1, <1>3 DEF ShapeInv, ForkInv, TLIs
  <2> QED  BY <1>1, <2>2, <2>3 DEF ForkInv
<1>8. BaseInv' /\ MsgInv'
  BY <1>1, <1>2, <1>3 DEF ShapeInv, TypeOK, BaseInv, MsgInv, Lesser, TLIs
<1>9. PosInv' /\ OpenInv'
  BY <1>1, <1>2, <1>3, <1>5
     DEF ShapeInv, TypeOK, PosInv, OpenInv, HasFile, Streaming, CurrentFile, TLIs
<1> QED
  BY <1>4, <1>6, <1>7, <1>8, <1>9 DEF ShapeInv

LEMMA ShapeRecycle ==
    ASSUME SoundFaults, ShapeInv, Recycle
    PROVE  ShapeInv'
<1>1. srvMin' \in LSNs
  BY SegStartOff DEF Recycle, ShapeInv, TypeOK, NoSlot, LSNs
<1>2. TypeOK'
  BY <1>1 DEF Recycle, ShapeInv, TypeOK
<1>3. ForkInv' /\ PartInv' /\ FilesInv'
  BY DiskFrame DEF Recycle
<1>4. BaseInv' /\ MsgInv' /\ PosInv' /\ OpenInv'
  BY DEF Recycle, ShapeInv, TimelineEnd, CurrentFile, BaseInv, MsgInv, PosInv, OpenInv,
         HasFile, Streaming
<1> QED
  BY <1>2, <1>3, <1>4 DEF ShapeInv

-----------------------------------------------------------------------------
(***************************************************************************)
(* Where the stream begins, and where it goes on.                          *)
(***************************************************************************)
\* An entry of the directory names a segment whose start, and whose end when the file
\* is complete, the primary has reached.
LEMMA EntryStartInLSNs ==
    ASSUME ShapeInv, NEW e \in WalEntries
    PROVE  /\ e[1] \in Files /\ e[1][1] \in TLIs /\ e[1][2] \in Nat
           /\ EntryStart(e) = At(IF e[2] THEN e[1][2] ELSE e[1][2] + 1)
           /\ EntryStart(e) \in LSNs /\ Off(EntryStart(e)) = 0
           /\ SegStart(EntryStart(e)) = EntryStart(e)
           /\ e[2] => PartialVisible(e[1])
           /\ ~e[2] => CompleteVisible(e[1])
<1>1. /\ e[1] \in Files /\ e[2] \in BOOLEAN
      /\ e[2] => PartialVisible(e[1])
      /\ ~e[2] => CompleteVisible(e[1])
  <2>1. \/ \E f \in Files : PartialVisible(f) /\ e = <<f, TRUE>>
        \/ \E f \in Files : CompleteVisible(f) /\ e = <<f, FALSE>>
    BY Zenon DEF WalEntries
  <2>2. CASE \E f \in Files : PartialVisible(f) /\ e = <<f, TRUE>>
    BY <2>2
  <2>3. CASE \E f \in Files : CompleteVisible(f) /\ e = <<f, FALSE>>
    BY <2>3
  <2> QED  BY <2>1, <2>2, <2>3
<1>2. e[1][1] \in TLIs /\ e[1][2] \in Segs /\ e[1][2] \in Nat /\ At(e[1][2]) \in LSNs
  BY <1>1, AtInLSNs DEF Files
<1>3. EntryStart(e) = At(IF e[2] THEN e[1][2] ELSE e[1][2] + 1)
  BY DEF EntryStart, At
<1>4. ~e[2] => At(e[1][2] + 1) \in LSNs
  <2>1. SUFFICES ASSUME ~e[2] PROVE At(e[1][2] + 1) \in LSNs
    OBVIOUS
  <2>2. At(e[1][2]) \in Nat /\ At(e[1][2] + 1) = At(e[1][2]) + WalSegSz
    BY <1>2, AtType
  <2>3. TimelineEnd(e[1][1]) \in LSNs
    BY <1>2 DEF ShapeInv, TypeOK, TimelineEnd
  <2>4. CASE full[e[1]]
    BY <1>1, <2>2, <2>3, <2>4, ConstantsAssumption DEF ShapeInv, FilesInv, LSNs
  <2>5. CASE part[e[1]].st = "renamed"
    <3>1. part[e[1]].data \in 0..WalSegSz /\ part[e[1]].flushed \in 0..WalSegSz
          /\ PartOK(part[e[1]])
      BY <1>1 DEF ShapeInv, TypeOK, PartInv, Part
    <3>2. part[e[1]].data = WalSegSz
      BY <2>5, <3>1, ConstantsAssumption DEF PartOK
    <3>3. At(e[1][2]) + WalSegSz <= TimelineEnd(e[1][1])
      BY <1>1, <3>2, ConstantsAssumption DEF ShapeInv, FilesInv
    <3> QED
      BY <2>2, <2>3, <3>3, ConstantsAssumption DEF LSNs
  <2> QED
    BY <1>1, <2>1, <2>4, <2>5 DEF CompleteVisible
<1>5. EntryStart(e) \in LSNs
  BY <1>1, <1>2, <1>3, <1>4
<1>6. Off(EntryStart(e)) = 0 /\ SegStart(EntryStart(e)) = EntryStart(e)
  BY <1>2, <1>3, SegOfAt
<1> QED
  BY <1>1, <1>2, <1>3, <1>5, <1>6

\* What BeginStream needs of its arguments.
LEMMA BeginStreamShape ==
    ASSUME TypeOK, NEW lsn \in LSNs, NEW t \in TLIs, BeginStream(lsn, t)
    PROVE  /\ startPos' = SegStart(lsn) /\ startPos' \in LSNs /\ Off(startPos') = 0
           /\ tli' = t /\ blockPos' = 0 /\ lastFlush' = startPos'
           /\ walfile' \in WalFile /\ walfile'.st = "nil" /\ pc' = "history"
  BY SegStartOff, WalFileWithState DEF BeginStream, TypeOK

\* All FindStart comes down to.
LEMMA FindStartFacts ==
    ASSUME ShapeInv, FindStart
    PROVE  /\ pc = "slot" /\ pc' = "history"
           /\ startPos' \in LSNs /\ Off(startPos') = 0 /\ tli' \in TLIs
           /\ blockPos' = 0 /\ lastFlush' = startPos'
           /\ walfile' \in WalFile /\ walfile'.st = "nil"
           /\ slot' = (IF slot = NoSlot THEN 0 ELSE slot)
           /\ UNCHANGED <<serverVars, connVars, left, eoc, ctxDone, fileVars, acked>>
           /\ faults' \in 0..MaxFaults
           /\ \/ /\ base' = base
                 /\ \E e \in WalEntries : startPos' = EntryStart(e)
              \/ /\ slot' # 0 /\ startPos' = SegStart(slot)
                 /\ base' = IF base = 0 THEN startPos' ELSE base
              \/ /\ slot' = 0 /\ startPos' = SegStart(srvEnd) /\ base' = startPos'
<1>1. TypeOK
  BY DEF ShapeInv
<1>2. CASE StartFromDirectory
  <2>1. PICK e \in WalEntries : BeginStream(EntryStart(e), e[1][1])
    BY <1>2 DEF StartFromDirectory
  <2>2. EntryStart(e) \in LSNs /\ e[1][1] \in TLIs /\ SegStart(EntryStart(e)) = EntryStart(e)
    BY EntryStartInLSNs
  <2> QED
    BY <1>1, <1>2, <2>1, <2>2, BeginStreamShape DEF FindStart, StartFromDirectory, TypeOK
<1>3. CASE ~StartFromDirectory
  <2> DEFINE restart == IF slot = NoSlot THEN 0 ELSE slot
  <2>1. StartFromServer(restart) /\ slot' = restart /\ pc = "slot"
        /\ UNCHANGED <<serverVars, connVars, left, eoc, ctxDone, fileVars, acked>>
    BY <1>3 DEF FindStart
  <2>2. faults' \in 0..MaxFaults
    BY <1>1, <1>3, ConstantsAssumption DEF FindStart, TypeOK
  <2>3. restart \in LSNs /\ srvEnd \in LSNs /\ srvTli \in TLIs
    BY <1>1, ConstantsAssumption DEF TypeOK, LSNs
  <2>4. CASE restart # 0
    <3>1. PICK t \in TLIs : BeginStream(restart, t)
      BY <2>1, <2>4 DEF StartFromServer
    <3>2. base' = IF base = 0 THEN SegStart(restart) ELSE base
      BY <2>1, <2>4 DEF StartFromServer
    <3> QED
      BY <1>1, <2>1, <2>2, <2>3, <2>4, <3>1, <3>2, BeginStreamShape
  <2>5. CASE restart = 0
    <3>1. BeginStream(srvEnd, srvTli) /\ base' = SegStart(srvEnd)
      BY <2>1, <2>5 DEF StartFromServer
    <3> QED
      BY <1>1, <2>1, <2>2, <2>3, <2>5, <3>1, BeginStreamShape
  <2> QED
    BY <2>4, <2>5
<1> QED
  BY <1>2, <1>3

LEMMA ShapeFindStart ==
    ASSUME SoundFaults, ShapeInv, FindStart
    PROVE  ShapeInv'
<1>1. /\ pc = "slot" /\ pc' = "history"
      /\ startPos' \in LSNs /\ Off(startPos') = 0 /\ tli' \in TLIs
      /\ blockPos' = 0 /\ lastFlush' = startPos'
      /\ walfile' \in WalFile /\ walfile'.st = "nil"
      /\ slot' = (IF slot = NoSlot THEN 0 ELSE slot)
      /\ UNCHANGED <<serverVars, connVars, left, eoc, ctxDone, fileVars, acked>>
      /\ faults' \in 0..MaxFaults
  BY FindStartFacts
<1>2. 0 \in LSNs /\ srvEnd \in LSNs /\ base \in LSNs /\ slot \in LSNs \cup {NoSlot}
  BY ConstantsAssumption DEF ShapeInv, TypeOK, LSNs
<1>3. /\ base' \in LSNs /\ Off(base') = 0 /\ base' <= srvEnd
      /\ base' > 0
  <2>1. CASE base' = base /\ \E e \in WalEntries : startPos' = EntryStart(e)
    <3>1. PICK e \in WalEntries : TRUE
      BY <2>1
    <3>2. base # 0
      BY <3>1, EntryStartInLSNs DEF ShapeInv, BaseInv, PartialVisible, CompleteVisible, NoPart
    <3> QED
      BY <2>1, <3>2, <1>2, ConstantsAssumption DEF ShapeInv, BaseInv, LSNs
  <2>2. CASE slot' # 0 /\ startPos' = SegStart(slot) /\ base' = IF base = 0 THEN startPos' ELSE base
    <3>1. slot \in LSNs
      BY <1>1, <1>2, <2>2
    <3>2. SegStart(slot) <= slot /\ slot \in Int /\ srvEnd \in Int /\ SegStart(slot) \in Int
      BY <3>1, <1>2, SegStartOff, ConstantsAssumption DEF LSNs
    <3>3. base = 0 => SegStart(slot) > 0
      BY <3>1, <1>1, <2>2, SegInSegs, SegStartPositive DEF ShapeInv, BaseInv
    <3> QED
      BY <1>1, <1>2, <2>2, <3>2, <3>3, ConstantsAssumption DEF ShapeInv, BaseInv, LSNs
  <2>3. CASE slot' = 0 /\ startPos' = SegStart(srvEnd) /\ base' = startPos'
    <3>1. SegStart(srvEnd) <= srvEnd /\ SegStart(srvEnd) > 0
      BY <1>2, SegStartOff, SegStartPositive, SegInSegs DEF ShapeInv, BaseInv
    <3> QED
      BY <1>1, <1>2, <2>3, <3>1, ConstantsAssumption DEF LSNs
  <2> QED
    BY <2>1, <2>2, <2>3, FindStartFacts
<1>4. TypeOK'
  BY <1>1, <1>2, <1>3 DEF ShapeInv, TypeOK, PCs
<1>5. ForkInv' /\ PartInv' /\ FilesInv'
  BY <1>1, DiskFrame
<1>6. BaseInv' /\ MsgInv' /\ PosInv' /\ OpenInv'
  BY <1>1, <1>2, <1>3, ConstantsAssumption
     DEF ShapeInv, BaseInv, MsgInv, PosInv, OpenInv, HasFile, Streaming, LSNs
<1> QED
  BY <1>4, <1>5, <1>6 DEF ShapeInv

LEMMA ShapeNextTimeline ==
    ASSUME SoundFaults, ShapeInv, NextTimeline
    PROVE  ShapeInv'
<1>1. ForkInv' /\ PartInv' /\ FilesInv'
  BY DiskFrame DEF NextTimeline
<1>2. CASE eoc = "switch" /\ fork[tli] <= blockPos
  <2>1. tli < srvTli /\ tli + 1 \in TLIs
    BY <1>2, ConstantsAssumption DEF NextTimeline, ShapeInv, TypeOK, MsgInv, TLIs
  <2>2. fork[tli] \in LSNs
    BY DEF ShapeInv, TypeOK
  <2>3. startPos' \in LSNs /\ Off(startPos') = 0
    BY <1>2, <2>2, SegStartOff DEF NextTimeline
  <2>4. TypeOK'
    BY <1>2, <2>1, <2>3 DEF NextTimeline, ShapeInv, TypeOK, PCs
  <2>5. BaseInv' /\ MsgInv' /\ PosInv' /\ OpenInv'
    BY <1>2, <2>3
       DEF NextTimeline, ShapeInv, BaseInv, MsgInv, PosInv, OpenInv, HasFile, Streaming
  <2> QED
    BY <1>1, <2>4, <2>5 DEF ShapeInv
<1>3. CASE ~(eoc = "switch" /\ fork[tli] <= blockPos)
  <2>1. TypeOK'
    BY <1>3 DEF NextTimeline, ShapeInv, TypeOK, PCs
  <2>2. BaseInv' /\ MsgInv' /\ PosInv' /\ OpenInv'
    BY <1>3 DEF NextTimeline, ShapeInv, BaseInv, MsgInv, PosInv, OpenInv, HasFile, Streaming
  <2> QED
    BY <1>1, <2>1, <2>2 DEF ShapeInv
<1> QED
  BY <1>2, <1>3

-----------------------------------------------------------------------------
(***************************************************************************)
(* Steps that sync files.                                                  *)
(***************************************************************************)
\* SyncWalFile, and FsyncDir after it or alone.
LEMMA SyncIsCalm ==
    ASSUME SoundFaults, ShapeInv, NEW f \in Files,
           part' = [part EXCEPT ![f] = FsyncedPart(@)], full' = full
    PROVE  Mild(part, full, part', full') /\ Calm(part, full, part', full')
  BY ShapeDisk, FsyncIsMild, MildIsCalm

LEMMA FsyncDirIsCalm ==
    ASSUME ShapeInv, FsyncDir(part)
    PROVE  /\ Mild(part, full, part', full') /\ Calm(part, full, part', full')
           /\ hist' \in [TLIs -> {"none", "renamed", "durable"}]
  BY ShapeDisk, DirSyncIsMild, MildIsCalm DEF FsyncDir

LEMMA FsyncFnameAndDirIsCalm ==
    ASSUME SoundFaults, ShapeInv, NEW f \in Files,
           FsyncDir([part EXCEPT ![f] = FsyncedPart(@)])
    PROVE  /\ Mild(part, full, part', full') /\ Calm(part, full, part', full')
           /\ hist' \in [TLIs -> {"none", "renamed", "durable"}]
<1> DEFINE mid == [part EXCEPT ![f] = FsyncedPart(@)]
<1>1. Disk(part, full) /\ Mild(part, full, mid, full)
  BY ShapeDisk, FsyncIsMild
<1>2. Disk(mid, full)
  BY <1>1, MildIsCalm, CalmDisk
<1>3. /\ part' = [g \in Files |-> DirSyncedPart(mid[g])]
      /\ full' = [g \in Files |-> full[g] \/ mid[g].st = "renamed"]
      /\ hist' \in [TLIs -> {"none", "renamed", "durable"}]
  BY DEF FsyncDir
<1> HIDE DEF mid
<1>4. Mild(mid, full, part', full')
  BY <1>2, <1>3, DirSyncIsMild
<1>5. Mild(part, full, part', full')
  BY <1>1, <1>4, MildTrans
<1> QED
  BY <1>3, <1>5, MildIsCalm

\* The fields of a *.partial that was just fsynced.
LEMMA SyncedFields ==
    ASSUME SoundFaults, ShapeInv, NEW f \in Files
    PROVE  LET q == [part EXCEPT ![f] = FsyncedPart(@)] IN
           /\ \A g \in Files : g # f => q[g] = part[g]
           /\ q[f].data = part[f].data /\ q[f].flushed = part[f].data
           /\ q[f].st = IF part[f].st = "sized" THEN "synced" ELSE part[f].st
           /\ part[f].st # "none" => q[f].linked
<1>1. part[f] \in Part /\ PartOK(part[f]) /\ full[f] \in BOOLEAN /\ part \in [Files -> Part]
  BY DEF ShapeInv, TypeOK, PartInv
<1> QED
  BY <1>1, FsyncedFile

LEMMA ShapeLoopSync ==
    ASSUME SoundFaults, ShapeInv, LoopSync
    PROVE  ShapeInv'
<1>1. walfile.f \in Files /\ CurrentFile \in Files
  BY CurrentFileIsFile DEF ShapeInv
<1>2. Calm(part, full, part', full')
  BY <1>1, SyncIsCalm DEF LoopSync, SyncWalFile
<1>3. /\ ForkInv' /\ PartInv' /\ FilesInv'
      /\ part' \in [Files -> Part] /\ full' \in [Files -> BOOLEAN]
  BY <1>2, CalmFrame DEF LoopSync
<1>4. TypeOK'
  BY <1>3, ConstantsAssumption
     DEF LoopSync, ShapeInv, TypeOK, AfterTop, SendFeedback, Lesser, Greater, LSNs, PCs
<1>5. /\ part'[walfile.f].data = part[walfile.f].data
      /\ part'[walfile.f].st \in {"none", "sized", "synced"}
      /\ part'[walfile.f].st # "none" => part[walfile.f].st # "none"
  BY <1>1, SyncedFields DEF LoopSync, SyncWalFile, MustFlush, ShapeInv, OpenInv
<1>6. BaseInv' /\ MsgInv' /\ PosInv' /\ OpenInv'
  BY <1>5 DEF LoopSync, ShapeInv, MustFlush, AfterTop, TimelineEnd, BaseInv, MsgInv, PosInv,
              OpenInv, HasFile, Streaming
<1> QED
  BY <1>3, <1>4, <1>6 DEF ShapeInv

LEMMA ShapeProcessKeepalive ==
    ASSUME SoundFaults, ShapeInv, ProcessKeepalive
    PROVE  ShapeInv'
<1>1. walfile.f \in Files
  BY CurrentFileIsFile DEF ShapeInv
<1>2. CASE MustFlush
  <2>1. Calm(part, full, part', full')
    BY <1>1, <1>2, SyncIsCalm DEF ProcessKeepalive, SyncWalFile
  <2>2. /\ ForkInv' /\ PartInv' /\ FilesInv'
        /\ part' \in [Files -> Part] /\ full' \in [Files -> BOOLEAN]
    BY <2>1, CalmFrame DEF ProcessKeepalive
  <2>3. TypeOK'
    BY <1>2, <2>2, ConstantsAssumption
       DEF ProcessKeepalive, ShapeInv, TypeOK, SendFeedback, Lesser, Greater, LSNs
  <2>4. /\ part'[walfile.f].data = part[walfile.f].data
        /\ part'[walfile.f].st \in {"none", "sized", "synced"}
        /\ part'[walfile.f].st # "none" => part[walfile.f].st # "none"
    BY <1>1, <1>2, SyncedFields DEF ProcessKeepalive, SyncWalFile, MustFlush, ShapeInv, OpenInv
  <2>5. BaseInv' /\ MsgInv' /\ PosInv' /\ OpenInv'
    BY <1>2, <2>4 DEF ProcessKeepalive, ShapeInv, MustFlush, TimelineEnd, BaseInv, MsgInv,
                      PosInv, OpenInv, HasFile, Streaming
  <2> QED
    BY <2>2, <2>3, <2>5 DEF ShapeInv
<1>3. CASE ~MustFlush
  <2>1. ForkInv' /\ PartInv' /\ FilesInv'
    BY <1>3, DiskFrame DEF ProcessKeepalive
  <2>2. TypeOK'
    BY <1>3, ConstantsAssumption
       DEF ProcessKeepalive, ShapeInv, TypeOK, SendFeedback, Lesser, Greater, LSNs
  <2>3. BaseInv' /\ MsgInv' /\ PosInv' /\ OpenInv'
    BY <1>3 DEF ProcessKeepalive, ShapeInv, TimelineEnd, BaseInv, MsgInv, PosInv, OpenInv,
                HasFile, Streaming
  <2> QED
    BY <2>1, <2>2, <2>3 DEF ShapeInv
<1> QED
  BY <1>2, <1>3

LEMMA ShapeEndStream ==
    ASSUME SoundFaults, ShapeInv, EndStream
    PROVE  ShapeInv'
<1>1. Calm(part, full, part', full') /\ hist' \in [TLIs -> {"none", "renamed", "durable"}]
  BY FsyncDirIsCalm DEF EndStream
<1>2. /\ ForkInv' /\ PartInv' /\ FilesInv'
      /\ part' \in [Files -> Part] /\ full' \in [Files -> BOOLEAN]
  BY <1>1, CalmFrame DEF EndStream
<1>3. TypeOK'
  BY <1>1, <1>2, ConstantsAssumption DEF EndStream, ShapeInv, TypeOK, Delivered, LSNs, PCs
<1>4. BaseInv' /\ MsgInv' /\ PosInv' /\ OpenInv'
  BY DEF EndStream, ShapeInv, BaseInv, MsgInv, PosInv, OpenInv, HasFile, Streaming
<1> QED
  BY <1>2, <1>3, <1>4 DEF ShapeInv

LEMMA ShapeSyncOnError ==
    ASSUME SoundFaults, ShapeInv, SyncOnError
    PROVE  ShapeInv'
<1>1. /\ ForkInv' /\ PartInv' /\ FilesInv'
      /\ part' \in [Files -> Part] /\ full' \in [Files -> BOOLEAN]
      /\ hist' \in [TLIs -> {"none", "renamed", "durable"}]
  <2>1. CASE part[walfile.f].st = "none"
    BY <2>1, DiskFrame DEF SyncOnError, ShapeInv, TypeOK
  <2>2. CASE part[walfile.f].st # "none"
    <3>1. walfile.f \in Files
      BY CurrentFileIsFile DEF ShapeInv
    <3>2. Calm(part, full, part', full') /\ hist' \in [TLIs -> {"none", "renamed", "durable"}]
      BY <2>2, <3>1, FsyncFnameAndDirIsCalm DEF SyncOnError
    <3> QED
      BY <3>2, CalmFrame DEF SyncOnError
  <2> QED  BY <2>1, <2>2
<1>2. TypeOK'
  BY <1>1 DEF SyncOnError, ShapeInv, TypeOK, PCs
<1>3. BaseInv' /\ MsgInv' /\ PosInv' /\ OpenInv'
  BY DEF SyncOnError, ShapeInv, BaseInv, MsgInv, PosInv, OpenInv, HasFile, Streaming
<1> QED
  BY <1>1, <1>2, <1>3 DEF ShapeInv

-----------------------------------------------------------------------------
(***************************************************************************)
(* The write loop and the segment files.                                   *)
(***************************************************************************)
\* A calm step at one file is calm.
LEMMA OneFileIsCalm ==
    ASSUME ShapeInv, NEW f \in Files, NEW q, NEW v,
           part' = [part EXCEPT ![f] = q], full' = [full EXCEPT ![f] = v],
           CalmFile(part[f], full[f], q, v)
    PROVE  Calm(part, full, part', full')
<1>1. Disk(part, full)
  BY ShapeDisk
<1>2. part' \in [Files -> Part] /\ full' \in [Files -> BOOLEAN]
  BY <1>1 DEF Disk, CalmFile
<1>3. ASSUME NEW g \in Files PROVE CalmFile(part[g], full[g], part'[g], full'[g])
  <2>1. CASE g = f
    BY <2>1, <1>1 DEF Disk
  <2>2. CASE g # f
    BY <2>2, <1>1, UntouchedFile DEF Disk, MildFile
  <2> QED  BY <2>1, <2>2
<1> QED
  BY <1>2, <1>3 DEF Calm

LEMMA CreateIsCalm ==
    ASSUME ShapeInv, CreateWalFile
    PROVE  /\ Calm(part, full, part', full')
           /\ CurrentFile \in Files /\ part'[CurrentFile].st = "empty"
           /\ \A g \in Files : g # CurrentFile => part'[g] = part[g] /\ full'[g] = full[g]
           /\ full'[CurrentFile] => full[CurrentFile] \/ part[CurrentFile].st = "renamed"
<1> DEFINE f == CurrentFile
           v == full[f] \/ part[f].st = "renamed"
           q == [st |-> "empty", data |-> 0, flushed |-> 0,
                 linked |-> part[f].st = "empty" /\ part[f].linked]
<1>1. f \in Files
  BY CurrentFileIsFile DEF ShapeInv
<1>2. part[f] \in Part /\ PartOK(part[f]) /\ full[f] \in BOOLEAN /\ part \in [Files -> Part]
      /\ full \in [Files -> BOOLEAN]
  BY <1>1 DEF ShapeInv, TypeOK, PartInv
<1>3. part' = [part EXCEPT ![f] = q] /\ full' = [full EXCEPT ![f] = v]
      /\ part[f].st \notin {"sized", "synced"}
  BY <1>1, <1>2 DEF CreateWalFile
<1>4. part[f].data \in 0..WalSegSz /\ part[f].flushed \in 0..WalSegSz
  BY <1>2 DEF Part
<1>5. q \in Part /\ q.st = "empty" /\ q.data = 0 /\ q.flushed = 0 /\ v \in BOOLEAN
  BY <1>2, ConstantsAssumption DEF Part, PartStates
<1>6. PartOK(q)
  BY <1>5 DEF PartOK
<1>7. v => full[f] \/ part[f].st = "renamed"
  OBVIOUS
<1>8. full[f] => v
  OBVIOUS
<1>9. part[f].st \in {"synced", "renamed"} => v
  BY <1>3
<1>10. part'[f] = q /\ full'[f] = v
       /\ \A g \in Files : g # f => part'[g] = part[g] /\ full'[g] = full[g]
  BY <1>1, <1>2, <1>3
<1> HIDE DEF q, v
<1>11. CalmFile(part[f], full[f], q, v)
  BY <1>4, <1>5, <1>6, <1>7, <1>8, <1>9 DEF CalmFile
<1> QED
  BY <1>1, <1>3, <1>5, <1>7, <1>10, <1>11, OneFileIsCalm

LEMMA ShapeCreateWalFile ==
    ASSUME SoundFaults, ShapeInv, CreateWalFile
    PROVE  ShapeInv'
<1>1. Calm(part, full, part', full') /\ part'[CurrentFile].st = "empty"
  BY CreateIsCalm
<1>2. /\ ForkInv' /\ PartInv' /\ FilesInv'
      /\ part' \in [Files -> Part] /\ full' \in [Files -> BOOLEAN]
  BY <1>1, CalmFrame DEF CreateWalFile
<1>3. TypeOK'
  BY <1>2 DEF CreateWalFile, ShapeInv, TypeOK, PCs
<1>4. CurrentFile' = CurrentFile
  BY DEF CreateWalFile, CurrentFile
<1>5. BaseInv' /\ MsgInv' /\ PosInv' /\ OpenInv'
  BY <1>1, <1>4 DEF CreateWalFile, ShapeInv, TimelineEnd, BaseInv, MsgInv, PosInv, OpenInv,
                    HasFile, Streaming
<1> QED
  BY <1>2, <1>3, <1>5 DEF ShapeInv

\* A *.partial whose state alone changes.
LEMMA PartWithState ==
    ASSUME NEW p \in Part, NEW st \in PartStates
    PROVE  /\ [p EXCEPT !.st = st] \in Part /\ [p EXCEPT !.st = st].st = st
           /\ [p EXCEPT !.st = st].data = p.data /\ [p EXCEPT !.st = st].flushed = p.flushed
           /\ p.linked => [p EXCEPT !.st = st].linked
  BY DEF Part

LEMMA TruncateIsMild ==
    ASSUME ShapeInv, TruncateWalFile
    PROVE  /\ Calm(part, full, part', full') /\ CurrentFile \in Files
           /\ part'[CurrentFile].st = IF part[CurrentFile].st = "none" THEN "none" ELSE "sized"
           /\ part[CurrentFile].st \in {"none", "empty"}
           /\ \A g \in Files : g # CurrentFile => part'[g] = part[g]
<1> DEFINE f == CurrentFile
           st == IF part[f].st = "none" THEN "none" ELSE "sized"
           q == [part[f] EXCEPT !.st = st]
<1>1. f \in Files
  BY CurrentFileIsFile DEF ShapeInv
<1>2. part[f] \in Part /\ PartOK(part[f]) /\ part \in [Files -> Part]
      /\ full \in [Files -> BOOLEAN] /\ part[f].st \in {"none", "empty"}
  BY <1>1 DEF ShapeInv, TypeOK, PartInv, TruncateWalFile, OpenInv
<1>3. part' = [part EXCEPT ![f] = q] /\ full' = [full EXCEPT ![f] = full[f]]
  BY <1>1, <1>2 DEF TruncateWalFile
<1>4. q \in Part /\ q.st = st /\ q.data = part[f].data /\ q.flushed = part[f].flushed
  <2>1. st \in PartStates
    BY DEF PartStates
  <2> HIDE DEF st
  <2> QED
    BY <1>2, <2>1, PartWithState
<1>5. part[f].data \in 0..WalSegSz /\ part[f].flushed \in 0..WalSegSz
  BY <1>2 DEF Part
<1>6. part'[f] = q /\ \A g \in Files : g # f => part'[g] = part[g]
  BY <1>1, <1>2, <1>3
<1> HIDE DEF q
<1>7. PartOK(q)
  BY <1>2, <1>4, <1>5, ConstantsAssumption DEF PartOK
<1>8. CalmFile(part[f], full[f], q, full[f])
  BY <1>1, <1>2, <1>4, <1>5, <1>7, ConstantsAssumption DEF CalmFile
<1> QED
  BY <1>1, <1>2, <1>3, <1>4, <1>6, <1>8, OneFileIsCalm

LEMMA ShapeTruncateWalFile ==
    ASSUME SoundFaults, ShapeInv, TruncateWalFile
    PROVE  ShapeInv'
<1>1. Calm(part, full, part', full') /\ part'[CurrentFile].st \in {"none", "sized"}
  BY TruncateIsMild
<1>2. /\ ForkInv' /\ PartInv' /\ FilesInv'
      /\ part' \in [Files -> Part] /\ full' \in [Files -> BOOLEAN]
  BY <1>1, CalmFrame DEF TruncateWalFile
<1>3. TypeOK'
  BY <1>2 DEF TruncateWalFile, ShapeInv, TypeOK, PCs
<1>4. CurrentFile' = CurrentFile
  BY DEF TruncateWalFile, CurrentFile
<1>5. BaseInv' /\ MsgInv' /\ PosInv' /\ OpenInv'
  BY <1>1, <1>4 DEF TruncateWalFile, ShapeInv, TimelineEnd, BaseInv, MsgInv, PosInv, OpenInv,
                    HasFile, Streaming
<1> QED
  BY <1>2, <1>3, <1>5 DEF ShapeInv

LEMMA ShapeReopenWalFile ==
    ASSUME SoundFaults, ShapeInv, ReopenWalFile
    PROVE  ShapeInv'
<1>1. CurrentFile \in Files /\ part[CurrentFile].st \in {"none", "sized", "synced"}
  BY CurrentFileIsFile DEF ReopenWalFile, ShapeInv, OpenInv
<1>2. Calm(part, full, part', full')
  BY <1>1, SyncIsCalm DEF ReopenWalFile
<1>3. /\ ForkInv' /\ PartInv' /\ FilesInv'
      /\ part' \in [Files -> Part] /\ full' \in [Files -> BOOLEAN]
  BY <1>2, CalmFrame DEF ReopenWalFile
<1>4. CASE part[CurrentFile].st # "none"
  <2>1. pc' = "assign" /\ UNCHANGED <<slot, inflight, left>>
    BY <1>4 DEF ReopenWalFile
  <2>2. TypeOK'
    BY <1>3, <2>1 DEF ReopenWalFile, ShapeInv, TypeOK, PCs
  <2>3. part'[CurrentFile].st \in {"sized", "synced"} /\ CurrentFile' = CurrentFile
    BY <1>1, <1>4, SyncedFields DEF ReopenWalFile, CurrentFile
  <2>4. BaseInv' /\ MsgInv' /\ PosInv' /\ OpenInv'
    BY <2>1, <2>3 DEF ReopenWalFile, ShapeInv, TimelineEnd, BaseInv, MsgInv, PosInv, OpenInv,
                      HasFile, Streaming
  <2> QED
    BY <1>3, <2>2, <2>4 DEF ShapeInv
<1>5. CASE part[CurrentFile].st = "none"
  <2>1. pc' = "exited" /\ slot' = Delivered /\ inflight' = 0 /\ left' = 0
    BY <1>5 DEF ReopenWalFile
  <2>2. TypeOK'
    BY <1>3, <2>1, ConstantsAssumption DEF ReopenWalFile, ShapeInv, TypeOK, PCs, Delivered, LSNs
  <2>3. base # 0 /\ eoc = "none"
    BY DEF ReopenWalFile, ShapeInv, BaseInv, MsgInv
  <2>4. BaseInv' /\ MsgInv' /\ PosInv' /\ OpenInv'
    BY <2>1, <2>3 DEF ReopenWalFile, ShapeInv, TimelineEnd, BaseInv, MsgInv, PosInv, OpenInv,
                      HasFile, Streaming
  <2> QED
    BY <1>3, <2>2, <2>4 DEF ShapeInv
<1> QED
  BY <1>4, <1>5

LEMMA ShapeAssignWalFile ==
    ASSUME SoundFaults, ShapeInv, AssignWalFile
    PROVE  ShapeInv'
<1>1. CurrentFile \in Files /\ part[CurrentFile].st \in {"none", "sized", "synced"}
  BY CurrentFileIsFile DEF AssignWalFile, ShapeInv, OpenInv
<1>2. ForkInv' /\ PartInv' /\ FilesInv'
  BY DiskFrame DEF AssignWalFile
<1>3. /\ walfile' \in WalFile /\ walfile'.st = "open" /\ walfile'.f = CurrentFile
      /\ walfile'.pos = 0
  BY <1>1, ConstantsAssumption DEF AssignWalFile, WalFile
<1>4. TypeOK'
  BY <1>3 DEF AssignWalFile, ShapeInv, TypeOK, PCs
<1>5. CurrentFile[1] = tli /\ blockPos = At(CurrentFile[2]) + 0
  <2>1. blockPos \in Nat /\ Off(blockPos) = 0
    BY SegInSegs DEF AssignWalFile, ShapeInv, TypeOK, PosInv
  <2> QED
    BY <2>1, SegOff DEF CurrentFile
<1>6. part[CurrentFile].data \in 0..WalSegSz
  BY <1>1 DEF ShapeInv, TypeOK, Part
<1>7. OpenInv'
  BY <1>1, <1>3, <1>5, <1>6, ConstantsAssumption DEF AssignWalFile, OpenInv, HasFile
<1>8. BaseInv' /\ MsgInv' /\ PosInv'
  BY <1>3 DEF AssignWalFile, ShapeInv, TimelineEnd, BaseInv, MsgInv, PosInv, Streaming
<1> QED
  BY <1>2, <1>4, <1>7, <1>8 DEF ShapeInv

\* What one turn of the write loop does, in terms of the open file.
LEMMA WriteFacts ==
    ASSUME ShapeInv, WriteWalFile
    PROVE  LET f == walfile.f
               n == BytesToWrite
               q == part'[f]
           IN
           /\ f \in Files /\ f[1] = tli /\ f[2] \in Nat /\ At(f[2]) \in Nat
           /\ blockPos = At(f[2]) + walfile.pos /\ Off(blockPos) = walfile.pos
           /\ n \in 1..left /\ walfile.pos + n \in 1..WalSegSz
           /\ (Off(blockPos + n) = 0) <=> (walfile.pos + n = WalSegSz)
           /\ n < left => walfile.pos + n = WalSegSz
           /\ walfile' \in WalFile /\ walfile'.st = "open" /\ walfile'.f = f
           /\ walfile'.pos = walfile.pos + n
           /\ part[f].st \in {"none", "sized", "synced"}
           /\ part' \in [Files -> Part] /\ \A g \in Files : g # f => part'[g] = part[g]
           /\ q.st = part[f].st /\ q.flushed = part[f].flushed /\ q.linked = part[f].linked
           /\ q.data = IF part[f].st = "none" THEN part[f].data
                       ELSE Greater(part[f].data, walfile.pos + n)
<1> DEFINE f == walfile.f
           n == BytesToWrite
<1>1. f \in Files /\ f[2] \in Nat
  BY CurrentFileIsFile, AtInLSNs DEF ShapeInv, Files
<1>2. /\ f[1] = tli /\ blockPos = At(f[2]) + walfile.pos /\ walfile.pos < WalSegSz
      /\ part[f].st \in {"none", "sized", "synced"} /\ left > 0 /\ walfile.st = "open"
  BY DEF WriteWalFile, ShapeInv, OpenInv, PosInv, HasFile
<1>3. walfile \in WalFile /\ walfile.pos \in 0..(WalSegSz - 1) /\ left \in Nat /\ At(f[2]) \in Nat
  BY <1>1, <1>2, AtType, ConstantsAssumption DEF ShapeInv, TypeOK, WalFile
<1>4. Off(blockPos) = walfile.pos
  BY <1>1, <1>2, <1>3, SegOfSum
<1>5. /\ n \in 1..left /\ walfile.pos + n \in 1..WalSegSz
      /\ n < left => walfile.pos + n = WalSegSz
  BY <1>2, <1>3, <1>4, ConstantsAssumption DEF BytesToWrite, Lesser
<1> HIDE DEF n
<1>6. Off(blockPos + n) = 0 <=> walfile.pos + n = WalSegSz
  <2>1. blockPos + n = At(f[2]) + (walfile.pos + n) /\ walfile.pos + n \in Nat
    BY <1>2, <1>3, <1>5
  <2>2. CASE walfile.pos + n = WalSegSz
    <3>1. blockPos + n = At(f[2] + 1)
      BY <1>1, <2>1, <2>2, AtType
    <3> QED  BY <1>1, <2>2, <3>1, SegOfAt
  <2>3. CASE walfile.pos + n # WalSegSz
    <3>1. walfile.pos + n \in 0..(WalSegSz - 1)
      BY <1>5, <2>3, ConstantsAssumption
    <3>2. Off(blockPos + n) = walfile.pos + n
      BY <1>1, <2>1, <3>1, SegOfSum
    <3> QED  BY <1>3, <1>5, <2>3, <3>2
  <2> QED  BY <2>2, <2>3
<1>7. walfile' = [walfile EXCEPT !.pos = walfile.pos + n]
  BY DEF WriteWalFile, n
<1>8. /\ walfile' \in WalFile /\ walfile'.st = "open" /\ walfile'.f = f
      /\ walfile'.pos = walfile.pos + n
  BY <1>2, <1>3, <1>5, <1>7, ConstantsAssumption DEF WalFile
<1> DEFINE d == IF part[f].st = "none" THEN part[f].data
                ELSE Greater(part[f].data, walfile.pos + n)
           q == [part[f] EXCEPT !.data = d]
<1>9. part[f] \in Part /\ part \in [Files -> Part] /\ part[f].data \in 0..WalSegSz
  BY <1>1 DEF ShapeInv, TypeOK, Part
<1>10. part' = [part EXCEPT ![f] = q]
  <2>1. CASE part[f].st = "none"
    <3>1. part' = part /\ d = part[f].data
      BY <2>1 DEF WriteWalFile
    <3>2. q = part[f]
      BY <1>9, <3>1 DEF Part
    <3> QED
      BY <1>1, <1>9, <3>1, <3>2
  <2>2. CASE part[f].st # "none"
    BY <1>1, <1>2, <1>4, <1>9, <2>2 DEF WriteWalFile, n
  <2> QED  BY <2>1, <2>2
<1>11. d \in 0..WalSegSz
  BY <1>5, <1>9, ConstantsAssumption DEF Greater
<1>12. /\ q \in Part /\ q.st = part[f].st /\ q.flushed = part[f].flushed
       /\ q.linked = part[f].linked /\ q.data = d
  BY <1>9, <1>11 DEF Part
<1> HIDE DEF q
<1>13. part'[f] = q /\ part' \in [Files -> Part]
       /\ \A g \in Files : g # f => part'[g] = part[g]
  BY <1>1, <1>9, <1>10, <1>12
<1> QED
  BY <1>1, <1>2, <1>3, <1>4, <1>5, <1>6, <1>8, <1>12, <1>13 DEF n

LEMMA ShapeWriteWalFile ==
    ASSUME SoundFaults, ShapeInv, WriteWalFile
    PROVE  ShapeInv'
<1> DEFINE f == walfile.f
           n == BytesToWrite
<1>1. /\ f \in Files /\ f[1] = tli /\ f[2] \in Nat /\ At(f[2]) \in Nat
      /\ blockPos = At(f[2]) + walfile.pos
      /\ n \in 1..left /\ walfile.pos + n \in 1..WalSegSz
      /\ (Off(blockPos + n) = 0) <=> (walfile.pos + n = WalSegSz)
      /\ n < left => walfile.pos + n = WalSegSz
      /\ walfile' \in WalFile /\ walfile'.st = "open" /\ walfile'.f = f
      /\ walfile'.pos = walfile.pos + n
      /\ part[f].st \in {"none", "sized", "synced"}
      /\ part' \in [Files -> Part] /\ \A g \in Files : g # f => part'[g] = part[g]
      /\ part'[f].st = part[f].st /\ part'[f].flushed = part[f].flushed
      /\ part'[f].linked = part[f].linked
      /\ part'[f].data = IF part[f].st = "none" THEN part[f].data
                         ELSE Greater(part[f].data, walfile.pos + n)
  BY WriteFacts
<1>2. /\ pc = "data" /\ blockPos' = blockPos + n /\ left' = left - n
      /\ pc' = IF Off(blockPos + n) = 0 THEN "close" ELSE IF left = n THEN "recv" ELSE "data"
      /\ UNCHANGED <<serverVars, slot, connVars, tli, startPos, lastFlush, eoc, ctxDone,
                     full, hist, ghostVars, faults>>
  BY DEF WriteWalFile
<1>3. /\ tli \in TLIs /\ tli <= srvTli /\ sent = blockPos + left /\ sent <= TimelineEnd(tli)
      /\ walfile.pos \in 0..WalSegSz /\ left \in 0..MaxChunk /\ eoc = "none"
  BY <1>2 DEF ShapeInv, TypeOK, PosInv, MsgInv, Streaming, WalFile
<1>4. blockPos \in LSNs /\ sent \in LSNs /\ TimelineEnd(tli) \in LSNs
  BY <1>3 DEF ShapeInv, TypeOK, TimelineEnd
<1> HIDE DEF n
<1>5. TypeOK'
  <2>1. blockPos' \in LSNs /\ left' \in 0..MaxChunk
    BY <1>1, <1>2, <1>3, <1>4, ConstantsAssumption DEF LSNs
  <2>2. pc' \in PCs
    BY <1>2 DEF PCs
  <2> QED
    BY <1>1, <1>2, <2>1, <2>2 DEF ShapeInv, TypeOK
<1>6. PartInv'
  <2>1. part[f].data \in 0..WalSegSz /\ part[f].flushed \in 0..WalSegSz /\ PartOK(part[f])
    BY <1>1 DEF ShapeInv, TypeOK, PartInv, Part
  <2>2. PartOK(part'[f])
    BY <1>1, <1>3, <2>1, ConstantsAssumption DEF PartOK, Greater
  <2> QED
    BY <1>1, <2>2 DEF ShapeInv, PartInv
<1>7. ForkInv' /\ FilesInv'
  <2>1. ForkInv' /\ \A t \in TLIs : TimelineEnd(t)' = TimelineEnd(t)
    BY <1>2 DEF ShapeInv, ForkInv, TimelineEnd
  <2>2. part[f].data \in 0..WalSegSz
    BY <1>1 DEF ShapeInv, TypeOK, Part
  <2>3. At(f[2]) + part'[f].data <= TimelineEnd(tli) /\ tli <= srvTli
    BY <1>1, <1>3, <1>4, <2>2, ConstantsAssumption DEF ShapeInv, FilesInv, Greater, LSNs
  <2>4. ASSUME NEW g \in Files
        PROVE  /\ part'[g].data > 0 =>
                    g[1] <= srvTli' /\ At(g[2]) + part'[g].data <= TimelineEnd(g[1])'
               /\ full'[g] => g[1] <= srvTli' /\ At(g[2] + 1) <= TimelineEnd(g[1])'
    <3>1. g[1] \in TLIs
      BY DEF Files
    <3> QED
      BY <1>1, <1>2, <2>1, <2>3, <3>1 DEF ShapeInv, FilesInv
  <2> QED
    BY <2>1, <2>4 DEF FilesInv
<1>8. BaseInv'
  BY <1>2 DEF ShapeInv, BaseInv
<1>9. MsgInv'
  BY <1>1, <1>2, <1>3, ConstantsAssumption DEF MsgInv
<1>10. PosInv'
  BY <1>1, <1>2, <1>3, <1>4, ConstantsAssumption DEF PosInv, Streaming, TimelineEnd, LSNs
<1>11. OpenInv'
  <2>1. part[f].data \in 0..WalSegSz
    BY <1>1 DEF ShapeInv, TypeOK, Part
  <2> QED
    BY <1>1, <1>2, <1>3, <2>1, ConstantsAssumption DEF OpenInv, HasFile, Greater
<1> QED
  BY <1>5, <1>6, <1>7, <1>8, <1>9, <1>10, <1>11 DEF ShapeInv

LEMMA ShapeCloseWalFile ==
    ASSUME SoundFaults, ShapeInv, CloseWalFile
    PROVE  ShapeInv'
<1> DEFINE f == walfile.f
<1>1. f \in Files /\ walfile \in WalFile
  BY CurrentFileIsFile DEF ShapeInv, TypeOK
<1>2. /\ pc = "close" /\ walfile.st = "open" /\ part[f].st \in {"none", "sized", "synced"}
      /\ part[f].st # "none" => walfile.pos <= part[f].data
      /\ f[1] = tli /\ blockPos = At(f[2]) + walfile.pos
  BY DEF CloseWalFile, ShapeInv, PosInv, OpenInv, HasFile
<1>3. CASE walfile.pos = WalSegSz
  <2>1. /\ walfile' = [walfile EXCEPT !.st = "closed"]
        /\ pc' = IF part[f].st = "none" THEN "fail" ELSE "rename"
        /\ part' = [part EXCEPT ![f] = FsyncedPart(@)]
        /\ UNCHANGED <<serverVars, slot, connVars, streamVars, left, eoc, ctxDone, full, hist,
                       ghostVars, faults>>
    BY <1>2, <1>3 DEF CloseWalFile, SyncWalFile
  <2>2. /\ walfile' \in WalFile /\ walfile'.st = "closed" /\ walfile'.f = f
        /\ walfile'.pos = WalSegSz
    BY <1>1, <1>3, <2>1, WalFileWithState
  <2>3. Calm(part, full, part', full')
    BY <1>1, <2>1, SyncIsCalm
  <2>4. /\ ForkInv' /\ PartInv' /\ FilesInv'
        /\ part' \in [Files -> Part] /\ full' \in [Files -> BOOLEAN]
    BY <2>1, <2>3, CalmFrame
  <2>5. TypeOK'
    BY <2>1, <2>2, <2>4 DEF ShapeInv, TypeOK, PCs
  <2>6. /\ part'[f].data = part[f].data /\ part'[f].flushed = part[f].data
        /\ part[f].st # "none" => part'[f].st = "synced"
    BY <1>1, <1>2, <2>1, SyncedFields
  <2>7. part[f].st # "none" => part[f].data = WalSegSz
    <3>1. part[f].data \in 0..WalSegSz
      BY <1>1 DEF ShapeInv, TypeOK, Part
    <3> QED
      BY <1>2, <1>3, <3>1, ConstantsAssumption
  <2>8. BaseInv' /\ MsgInv' /\ PosInv'
    BY <1>2, <2>1, <2>2 DEF ShapeInv, TimelineEnd, BaseInv, MsgInv, PosInv, Streaming
  <2>9. OpenInv'
    BY <1>2, <1>3, <2>1, <2>2, <2>6, <2>7, ConstantsAssumption DEF OpenInv, HasFile
  <2> QED
    BY <2>4, <2>5, <2>8, <2>9 DEF ShapeInv
<1>4. CASE walfile.pos # WalSegSz
  <2>1. /\ walfile' = [walfile EXCEPT !.st = "nil"] /\ pc' = "closesync" /\ part' = part
        /\ UNCHANGED <<serverVars, slot, connVars, streamVars, left, eoc, ctxDone, full, hist,
                       ghostVars, faults>>
    BY <1>4 DEF CloseWalFile
  <2>2. /\ walfile' \in WalFile /\ walfile'.st = "nil" /\ walfile'.f = f
        /\ walfile'.pos = walfile.pos
    BY <1>1, <2>1, WalFileWithState
  <2>3. ForkInv' /\ PartInv' /\ FilesInv'
    BY <2>1, DiskFrame
  <2>4. TypeOK'
    BY <2>1, <2>2 DEF ShapeInv, TypeOK, PCs
  <2>5. BaseInv' /\ MsgInv' /\ PosInv'
    BY <1>2, <1>4, <2>1, <2>2 DEF ShapeInv, TimelineEnd, BaseInv, MsgInv, PosInv, Streaming
  <2>6. OpenInv'
    BY <1>2, <1>4, <2>1, <2>2, ConstantsAssumption DEF OpenInv, HasFile
  <2> QED
    BY <2>3, <2>4, <2>5, <2>6 DEF ShapeInv
<1> QED
  BY <1>3, <1>4

\* The rename happens to a whole, fsynced *.partial.
LEMMA RenameIsCalm ==
    ASSUME ShapeInv, RenameWalFile, part[walfile.f].st # "none"
    PROVE  LET f == walfile.f IN
           /\ f \in Files /\ f[1] = tli /\ f[2] \in Nat /\ blockPos = At(f[2]) + WalSegSz
           /\ Calm(part, full, part', full')
           /\ part[f].st = "synced" /\ part[f].flushed = WalSegSz /\ part[f].linked
           /\ part[f].data = WalSegSz
           /\ part'[f].st = "renamed" /\ part'[f].flushed = WalSegSz /\ part'[f].linked
           /\ part'[f].data = WalSegSz
           /\ \A g \in Files : g # f => part'[g] = part[g]
           /\ walfile' \in WalFile /\ walfile'.st = "nil" /\ walfile'.f = f
           /\ walfile'.pos = WalSegSz /\ pc' = "closesync"
<1> DEFINE f == walfile.f
           q == [part[f] EXCEPT !.st = "renamed"]
<1>1. f \in Files /\ f[2] \in Nat /\ walfile \in WalFile
  BY CurrentFileIsFile, AtInLSNs DEF ShapeInv, TypeOK, Files
<1>2. /\ f[1] = tli /\ blockPos = At(f[2]) + WalSegSz /\ walfile.pos = WalSegSz
      /\ part[f].st = "synced" /\ part[f].flushed = WalSegSz
  BY DEF RenameWalFile, ShapeInv, OpenInv, HasFile
<1>3. part[f] \in Part /\ PartOK(part[f]) /\ part \in [Files -> Part]
      /\ full \in [Files -> BOOLEAN] /\ full[f] \in BOOLEAN
  BY <1>1 DEF ShapeInv, TypeOK, PartInv
<1>4. part[f].linked /\ part[f].data = WalSegSz
  BY <1>2, <1>3, ConstantsAssumption DEF PartOK, Part
<1>5. part' = [part EXCEPT ![f] = q] /\ full' = [full EXCEPT ![f] = full[f]]
      /\ walfile' = [walfile EXCEPT !.st = "nil"] /\ pc' = "closesync"
  BY <1>1, <1>2, <1>3 DEF RenameWalFile
<1>6. /\ q \in Part /\ q.st = "renamed" /\ q.data = WalSegSz /\ q.flushed = WalSegSz
      /\ q.linked
  BY <1>2, <1>3, <1>4, PartWithState DEF PartStates
<1>7. part'[f] = q /\ \A g \in Files : g # f => part'[g] = part[g]
  BY <1>1, <1>3, <1>5
<1> HIDE DEF q
<1>8. PartOK(q)
  BY <1>6, ConstantsAssumption DEF PartOK
<1>9. CalmFile(part[f], full[f], q, full[f])
  BY <1>2, <1>3, <1>4, <1>6, <1>8, ConstantsAssumption DEF CalmFile
<1>10. Calm(part, full, part', full')
  BY <1>1, <1>5, <1>9, OneFileIsCalm
<1>11. walfile' \in WalFile /\ walfile'.st = "nil" /\ walfile'.f = f /\ walfile'.pos = WalSegSz
  BY <1>1, <1>2, <1>5, WalFileWithState
<1> QED
  BY <1>1, <1>2, <1>4, <1>5, <1>6, <1>7, <1>10, <1>11

LEMMA ShapeRenameWalFile ==
    ASSUME SoundFaults, ShapeInv, RenameWalFile
    PROVE  ShapeInv'
<1> DEFINE f == walfile.f
<1>1. UNCHANGED <<serverVars, slot, connVars, streamVars, left, eoc, ctxDone, full, hist,
                  ghostVars, faults>> /\ pc = "rename"
  BY DEF RenameWalFile
<1>2. CASE part[f].st # "none"
  <2>1. /\ f[1] = tli /\ blockPos = At(f[2]) + WalSegSz
        /\ Calm(part, full, part', full')
        /\ part'[f].st = "renamed" /\ part'[f].data = WalSegSz
        /\ walfile' \in WalFile /\ walfile'.st = "nil" /\ walfile'.f = f
        /\ walfile'.pos = WalSegSz /\ pc' = "closesync"
    BY <1>2, RenameIsCalm
  <2>2. /\ ForkInv' /\ PartInv' /\ FilesInv'
        /\ part' \in [Files -> Part] /\ full' \in [Files -> BOOLEAN]
    BY <1>1, <2>1, CalmFrame
  <2>3. TypeOK'
    BY <1>1, <2>1, <2>2 DEF ShapeInv, TypeOK, PCs
  <2>4. BaseInv' /\ MsgInv' /\ PosInv'
    BY <1>1, <2>1 DEF ShapeInv, TimelineEnd, BaseInv, MsgInv, PosInv, Streaming
  <2>5. OpenInv'
    BY <1>1, <2>1, ConstantsAssumption DEF OpenInv, HasFile
  <2> QED
    BY <2>2, <2>3, <2>4, <2>5 DEF ShapeInv
<1>3. CASE part[f].st = "none"
  <2>1. pc' = "fail" /\ UNCHANGED <<part, walfile>>
    BY <1>3 DEF RenameWalFile
  <2>2. ForkInv' /\ PartInv' /\ FilesInv'
    BY <1>1, <2>1, DiskFrame
  <2>3. TypeOK'
    BY <1>1, <2>1 DEF ShapeInv, TypeOK, PCs
  <2>4. BaseInv' /\ MsgInv' /\ PosInv' /\ OpenInv'
    BY <1>1, <2>1 DEF ShapeInv, TimelineEnd, BaseInv, MsgInv, PosInv, OpenInv, HasFile, Streaming
  <2> QED
    BY <2>2, <2>3, <2>4 DEF ShapeInv
<1> QED
  BY <1>2, <1>3

\* The file whose name is fsynced last ends where the stream is.
LEMMA ClosedFileFacts ==
    ASSUME ShapeInv, SyncClosedFile
    PROVE  /\ pc = "closesync" /\ walfile.f \in Files
           /\ eoc = "none" => Off(blockPos) = 0
<1> DEFINE f == walfile.f
<1>1. f \in Files /\ pc = "closesync"
  BY CurrentFileIsFile DEF ShapeInv, SyncClosedFile
<1>2. SUFFICES ASSUME eoc = "none" PROVE Off(blockPos) = 0
  BY <1>1
<1>3. blockPos = At(f[2]) + WalSegSz /\ f[2] \in Nat
  BY <1>1, <1>2, AtInLSNs DEF ShapeInv, MsgInv, OpenInv, HasFile, Files
<1>4. blockPos = At(f[2] + 1) /\ f[2] + 1 \in Nat
  BY <1>3, AtType
<1> QED
  BY <1>4, SegOfAt

LEMMA ShapeSyncClosedFile ==
    ASSUME SoundFaults, ShapeInv, SyncClosedFile
    PROVE  ShapeInv'
<1> DEFINE f == walfile.f
<1>1. pc = "closesync" /\ f \in Files /\ (eoc = "none" => Off(blockPos) = 0)
  BY ClosedFileFacts
<1>2. UNCHANGED <<serverVars, slot, connVars, tli, startPos, blockPos, left, walfile, eoc,
                  ctxDone, ghostVars, faults>>
  BY DEF SyncClosedFile
<1>3. CASE ClosedNameVisible(f)
  <2>1. /\ FsyncDir([part EXCEPT ![f] = FsyncedPart(@)])
        /\ lastFlush' = blockPos
        /\ pc' = (IF eoc # "none" THEN "copydone" ELSE IF left = 0 THEN "recv" ELSE "data")
    BY <1>3 DEF SyncClosedFile
  <2>2. Calm(part, full, part', full') /\ hist' \in [TLIs -> {"none", "renamed", "durable"}]
    BY <1>1, <2>1, FsyncFnameAndDirIsCalm
  <2>3. /\ ForkInv' /\ PartInv' /\ FilesInv'
        /\ part' \in [Files -> Part] /\ full' \in [Files -> BOOLEAN]
    BY <1>2, <2>2, CalmFrame
  <2>4. TypeOK'
    BY <1>2, <2>1, <2>2, <2>3 DEF ShapeInv, TypeOK, PCs
  <2>5. BaseInv' /\ MsgInv' /\ PosInv' /\ OpenInv'
    BY <1>1, <1>2, <2>1, ConstantsAssumption
       DEF ShapeInv, TypeOK, TimelineEnd, BaseInv, MsgInv, PosInv, OpenInv, HasFile, Streaming
  <2> QED
    BY <2>3, <2>4, <2>5 DEF ShapeInv
<1>4. CASE ~ClosedNameVisible(f)
  <2>1. pc' = "fail" /\ UNCHANGED <<part, full, hist, lastFlush>>
    BY <1>4 DEF SyncClosedFile
  <2>2. ForkInv' /\ PartInv' /\ FilesInv'
    BY <1>2, <2>1, DiskFrame
  <2>3. TypeOK'
    BY <1>2, <2>1 DEF ShapeInv, TypeOK, PCs
  <2>4. BaseInv' /\ MsgInv' /\ PosInv' /\ OpenInv'
    BY <1>1, <1>2, <2>1
       DEF ShapeInv, TimelineEnd, BaseInv, MsgInv, PosInv, OpenInv, HasFile, Streaming
  <2> QED
    BY <2>2, <2>3, <2>4 DEF ShapeInv
<1> QED
  BY <1>3, <1>4

-----------------------------------------------------------------------------
LEMMA PowerIsCalm ==
    ASSUME ShapeInv, PowerFailure
    PROVE  /\ Mild(part, full, part', full') /\ Calm(part, full, part', full')
           /\ hist' \in [TLIs -> {"none", "renamed", "durable"}]
           /\ \A f \in Files : part[f] = NoPart /\ ~full[f] => part'[f] = NoPart /\ ~full'[f]
<1>1. PICK kept \in SUBSET Volatile, cut \in 0..WalSegSz :
         /\ part' = [f \in Files |-> PoweredPart(part[f], f \in kept, cut)]
         /\ full' = [f \in Files |-> PoweredFull(f, f \in kept)]
         /\ hist' \in [TLIs -> {"none", "renamed", "durable"}]
  BY DEF PowerFailure, PoweredHist
<1>2. full' = [f \in Files |-> full[f] \/ (part[f].st = "renamed" /\ f \in kept)]
  BY <1>1 DEF PoweredFull
<1>3. Mild(part, full, part', full')
  BY <1>1, <1>2, ShapeDisk, PowerIsMild
<1>4. \A f \in Files : part[f] = NoPart /\ ~full[f] => part'[f] = NoPart /\ ~full'[f]
  <2>2. NoPart.st # "renamed"
    BY DEF NoPart
  <2>3. ASSUME NEW f \in Files, part[f] = NoPart PROVE part'[f] = NoPart
    BY <1>1, <2>3 DEF PoweredPart, NoPart
  <2>4. ASSUME NEW f \in Files, part[f] = NoPart, ~full[f] PROVE ~full'[f]
    BY <1>2, <2>2, <2>4
  <2> QED  BY <2>3, <2>4
<1> QED
  BY <1>1, <1>3, <1>4, MildIsCalm

LEMMA ShapePowerFailure ==
    ASSUME SoundFaults, ShapeInv, PowerFailure
    PROVE  ShapeInv'
<1>1. /\ Calm(part, full, part', full') /\ hist' \in [TLIs -> {"none", "renamed", "durable"}]
      /\ \A f \in Files : part[f] = NoPart /\ ~full[f] => part'[f] = NoPart /\ ~full'[f]
  BY PowerIsCalm
<1>2. /\ pc' = "exited" /\ inflight' = 0 /\ left' = 0 /\ eoc' = "none"
      /\ faults < MaxFaults /\ faults' = faults + 1
      /\ UNCHANGED <<serverVars, slot, sent, streamVars, ctxDone, ghostVars>>
  BY DEF PowerFailure, ProcessGone
<1>3. /\ ForkInv' /\ PartInv' /\ FilesInv'
      /\ part' \in [Files -> Part] /\ full' \in [Files -> BOOLEAN]
  BY <1>1, <1>2, CalmFrame
<1>4. walfile' \in WalFile /\ walfile'.st = "nil"
  BY WalFileWithState DEF PowerFailure, ProcessGone, ShapeInv, TypeOK
<1>5. TypeOK'
  BY <1>1, <1>2, <1>3, <1>4, ConstantsAssumption DEF ShapeInv, TypeOK, PCs, LSNs
<1>6. BaseInv' /\ MsgInv' /\ PosInv' /\ OpenInv'
  BY <1>1, <1>2, <1>4 DEF ShapeInv, BaseInv, MsgInv, PosInv, OpenInv, HasFile, Streaming
<1> QED
  BY <1>3, <1>5, <1>6 DEF ShapeInv

\* Every step preserves the shape.
LEMMA ShapeNext ==
    ASSUME SoundFaults, ShapeInv, [Next]_vars
    PROVE  ShapeInv'
<1>1. CASE ServerStep
  BY <1>1, ShapeServerWrite, ShapePromote, ShapeRecycle, ShapeApplyFeedback DEF ServerStep
<1>2. CASE ReceiverStep
  <2>1. CASE Connect \/ FindStart \/ FetchHistory \/ StartReplication \/ NextTimeline
    BY <2>1, ShapeConnect, ShapeFindStart, ShapeFetchHistory, ShapeStartReplication,
       ShapeNextTimeline
  <2>2. CASE LoopSync \/ LoopStatus \/ LoopIdle \/ ReceiveTimeout \/ ProcessKeepalive
             \/ ReceiveXLogData \/ ReceiveCopyDone
    BY <2>2, ShapeLoopSync, ShapeLoopStatus, ShapeLoopIdle, ShapeReceiveTimeout,
       ShapeProcessKeepalive, ShapeReceiveXLogData, ShapeReceiveCopyDone
  <2>3. CASE CreateWalFile \/ TruncateWalFile \/ FindWalFile \/ ReopenWalFile \/ AssignWalFile
             \/ WriteWalFile \/ CloseWalFile \/ RenameWalFile \/ SyncClosedFile
    BY <2>3, ShapeCreateWalFile, ShapeTruncateWalFile, ShapeFindWalFile, ShapeReopenWalFile,
       ShapeAssignWalFile, ShapeWriteWalFile, ShapeCloseWalFile, ShapeRenameWalFile,
       ShapeSyncClosedFile
  <2>4. CASE CloseOnError \/ SyncOnError \/ EndStream \/ CancelledBeforeStream \/ Restart
    BY <2>4, ShapeCloseOnError, ShapeSyncOnError, ShapeEndStream,
       ShapeCancelledBeforeStream, ShapeRestart
  <2> QED
    BY <1>2, <2>1, <2>2, <2>3, <2>4 DEF ReceiverStep
<1>3. CASE FaultStep
  <2>1. ~ReopenFails
    BY DEF ReopenFails, SoundFaults
  <2> QED
    BY <1>3, <2>1, ShapeServerShutdown, ShapeIOError, ShapeSyncOnErrorFails,
       ShapeEndStreamFails, ShapeConnectionLost, ShapeCancel, ShapeKill, ShapePowerFailure
       DEF FaultStep
<1>4. CASE UNCHANGED vars
  <2>1. ForkInv' /\ PartInv' /\ FilesInv'
    BY <1>4, DiskFrame DEF vars
  <2>2. TypeOK'
    BY <1>4 DEF vars, ShapeInv, TypeOK
  <2>3. BaseInv' /\ MsgInv' /\ PosInv' /\ OpenInv'
    BY <1>4 DEF vars, ShapeInv, TimelineEnd, CurrentFile, BaseInv, MsgInv, PosInv, OpenInv,
                HasFile, Streaming
  <2> QED
    BY <2>1, <2>2, <2>3 DEF ShapeInv
<1> QED
  BY <1>1, <1>2, <1>3, <1>4 DEF Next

(***************************************************************************)
(* The receiver's state is well typed in every behaviour: streamLog,       *)
(* ReceiveXlogStream and the write loop never leave the ranges their       *)
(* variables have in Go, no write passes the end of its segment, and no    *)
(* position passes the end of the primary's WAL.                           *)
(***************************************************************************)
THEOREM TypeCorrect ==
    ASSUME SoundFaults
    PROVE  Spec => []TypeOK
<1>1. Init => ShapeInv
  BY ShapeInit
<1>2. ShapeInv /\ [Next]_vars => ShapeInv'
  BY ShapeNext
<1>3. ShapeInv => TypeOK
  BY DEF ShapeInv
<1> QED
  BY <1>1, <1>2, <1>3, PTL DEF Spec
===================================================================================
