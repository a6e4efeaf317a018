----------------------------- MODULE WalReceiverProofs -----------------------------
(***************************************************************************)
(* What the receiver reports as flushed survives a power failure, for      *)
(* every segment size, message size, number of timelines and number of     *)
(* faults: the second induction, over HeldInv, and the theorems.           *)
(***************************************************************************)
EXTENDS WalReceiverShape

USE DEF serverVars, connVars, streamVars, fileVars, ghostVars, Goto, Fault

-----------------------------------------------------------------------------
(***************************************************************************)
(* No name is gone: only the uploader removes one.                         *)
(***************************************************************************)
LEMMA NamedInit == Init => NamedInv
  BY DEF Init, NamedInv, HasFile

\* Steps that leave the open file and the disk alone.
LEMMA NamedFrame ==
    ASSUME NamedInv, part' = part, walfile'.f = walfile.f, HasFile' => HasFile,
           pc' \notin {"truncate", "reopen", "assign"}
    PROVE  NamedInv'
  BY DEF NamedInv

\* The same for the steps that fsync the open file.
LEMMA NamedSync ==
    ASSUME SoundFaults, ShapeInv, NamedInv, SyncWalFile, walfile'.f = walfile.f,
           HasFile' => HasFile, pc' \notin {"truncate", "reopen", "assign"}
    PROVE  NamedInv'
<1>1. walfile.f \in Files
  BY CurrentFileIsFile DEF ShapeInv
<1>2. part[walfile.f].st # "none" => part'[walfile.f].st # "none"
  BY <1>1, SyncedFields DEF SyncWalFile
<1> QED
  BY <1>2 DEF NamedInv

LEMMA NamedServerStep ==
    ASSUME NamedInv, ServerStep
    PROVE  NamedInv'
<1>1. UNCHANGED <<part, walfile, pc, tli, blockPos>>
  BY DEF ServerStep, ServerWrite, Promote, Recycle, ApplyFeedback
<1> QED
  BY <1>1 DEF NamedInv, HasFile, CurrentFile

\* Where no file is open, and none is being opened, there is nothing to say.
LEMMA NamedOutside ==
    ASSUME pc' \notin {"loop", "recv", "data", "truncate", "reopen", "assign", "close", "rename",
                      "closesync"}
    PROVE  NamedInv'
  BY DEF NamedInv, HasFile

LEMMA NamedReceiverStep ==
    ASSUME SoundFaults, ShapeInv, NamedInv, ReceiverStep
    PROVE  NamedInv'
<1>w. walfile \in WalFile /\ walfile.f \in Files /\ CurrentFile \in Files
  BY CurrentFileIsFile DEF ShapeInv, TypeOK
<1>1. CASE Connect \/ FetchHistory \/ NextTimeline \/ CloseOnError \/ SyncOnError \/ EndStream
           \/ CancelledBeforeStream \/ Restart
  BY <1>1, NamedOutside DEF Connect, FetchHistory, NextTimeline, CloseOnError, SyncOnError,
     EndStream, CancelledBeforeStream, Restart
<1>2. CASE FindStart
  BY <1>2, FindStartFacts, NamedOutside
<1>3. CASE StartReplication
  BY <1>3 DEF StartReplication, ShapeInv, PosInv, NamedInv, HasFile
<1>4. CASE LoopSync
  BY <1>4, NamedSync DEF LoopSync, AfterTop, MustFlush, HasFile
<1>5. CASE LoopStatus \/ LoopIdle \/ ReceiveTimeout
  BY <1>5, NamedFrame DEF LoopStatus, LoopIdle, ReceiveTimeout, AfterTop, HasFile
<1>6. CASE ProcessKeepalive
  BY <1>6, NamedSync, NamedFrame DEF ProcessKeepalive, HasFile
<1>7. CASE ReceiveXLogData
  BY <1>7, NamedFrame DEF ReceiveXLogData, HasFile
<1>8. CASE ReceiveCopyDone
  BY <1>8, NamedFrame DEF ReceiveCopyDone, EndOfCopy, HasFile
<1>9. CASE CreateWalFile
  <2>1. part'[CurrentFile].st = "empty" /\ CurrentFile' = CurrentFile
    BY <1>9, CreateIsCalm DEF CreateWalFile, CurrentFile
  <2> QED
    BY <1>9, <2>1 DEF CreateWalFile, NamedInv, HasFile
<1>10. CASE TruncateWalFile
  <2>1. part'[CurrentFile].st # "none" /\ CurrentFile' = CurrentFile
    BY <1>10, TruncateIsMild DEF TruncateWalFile, CurrentFile, NamedInv
  <2> QED
    BY <1>10, <2>1 DEF TruncateWalFile, NamedInv, HasFile
<1>11. CASE FindWalFile
  <2>1. CurrentFile' = CurrentFile
    BY <1>11 DEF FindWalFile, CurrentFile
  <2> QED
    BY <1>11, <2>1 DEF FindWalFile, NamedInv, HasFile
<1>12. CASE ReopenWalFile
  <2>1. part'[CurrentFile].st # "none" /\ CurrentFile' = CurrentFile
    BY <1>w, <1>12, SyncedFields DEF ReopenWalFile, CurrentFile, NamedInv
  <2> QED
    BY <1>12, <2>1 DEF ReopenWalFile, NamedInv, HasFile
<1>13. CASE AssignWalFile
  BY <1>13 DEF AssignWalFile, NamedInv, HasFile
<1>14. CASE WriteWalFile
  <2>1. part'[walfile.f].st = part[walfile.f].st /\ walfile'.f = walfile.f
    BY <1>14, WriteFacts
  <2> QED
    BY <1>14, <2>1 DEF WriteWalFile, NamedInv, HasFile
<1>15. CASE CloseWalFile
  <2>1. walfile'.f = walfile.f
    <3>1. \/ walfile' = [walfile EXCEPT !.st = "closed"]
          \/ walfile' = [walfile EXCEPT !.st = "nil"]
      BY <1>15 DEF CloseWalFile
    <3> QED
      BY <1>w, <3>1, WalFileWithState
  <2>2. HasFile /\ pc' \notin {"truncate", "reopen", "assign"}
    BY <1>15 DEF CloseWalFile, HasFile, ShapeInv, PosInv
  <2> QED
    BY <1>15, <2>1, <2>2, NamedSync, NamedFrame DEF CloseWalFile
<1>16. CASE RenameWalFile
  <2>1. part[walfile.f].st # "none"
    BY <1>16 DEF RenameWalFile, NamedInv, HasFile
  <2>2. part'[walfile.f].st = "renamed" /\ walfile'.f = walfile.f /\ pc' = "closesync"
    BY <1>16, <2>1, RenameIsCalm
  <2> QED
    BY <2>2 DEF NamedInv
<1>17. CASE SyncClosedFile
  BY <1>17 DEF SyncClosedFile, ShapeInv, PosInv, NamedInv, HasFile
<1> QED
  BY <1>1, <1>2, <1>3, <1>4, <1>5, <1>6, <1>7, <1>8, <1>9, <1>10, <1>11, <1>12, <1>13, <1>14,
     <1>15, <1>16, <1>17 DEF ReceiverStep

\* Every step preserves it.
LEMMA NamedNext ==
    ASSUME SoundFaults, ShapeInv, NamedInv, [Next]_vars
    PROVE  NamedInv'
<1>1. CASE FaultStep
  <2>1. ~ReopenFails
    BY DEF ReopenFails, SoundFaults
  <2>2. CASE ServerShutdown
    BY <2>2, NamedFrame DEF ServerShutdown, EndOfCopy, HasFile
  <2>3. CASE Cancel
    BY <2>3 DEF Cancel, NamedInv, HasFile, CurrentFile
  <2> QED
    BY <1>1, <2>1, <2>2, <2>3, NamedOutside
       DEF FaultStep, IOError, SyncOnErrorFails, EndStreamFails, ConnectionLost, Kill,
           PowerFailure, ProcessGone
<1>2. CASE UNCHANGED vars
  BY <1>2 DEF vars, NamedInv, HasFile, CurrentFile
<1> QED
  BY <1>1, <1>2, NamedServerStep, NamedReceiverStep DEF Next

-----------------------------------------------------------------------------
(***************************************************************************)
(* Frames.                                                                 *)
(***************************************************************************)
\* The ranges the lemmas about HeldBelow ask for.
LEMMA Ranges ==
    ASSUME ShapeInv
    PROVE  /\ base \in Int /\ base >= 0 /\ acked \in Int /\ inflight \in Int /\ inflight >= 0
           /\ lastFlush \in Int /\ startPos \in Int /\ blockPos \in Int /\ slot \in Int
           /\ inflight \in LSNs /\ blockPos \in LSNs /\ srvEnd \in Int
           /\ \A t \in TLIs : fork[t] \in Int
  BY ConstantsAssumption DEF ShapeInv, TypeOK, LSNs, NoSlot

\* A held position: what is below it is held.
LEMMA HNarrow ==
    ASSUME ShapeInv, NEW x \in Int, NEW y \in Int, H(x), y <= x
    PROVE  H(y)
  BY Ranges, HeldNarrow DEF H

\* Steps that leave the disk and the beginning alone.
LEMMA StillVisible ==
    ASSUME HeldInv, UNCHANGED <<part, full, base>>
    PROVE  VisibleInv'
  BY DEF HeldInv, VisibleInv, PartialVisible, CompleteVisible, H

\* Steps that touch the disk calmly keep what is held...
LEMMA CalmKeeps ==
    ASSUME ShapeInv, Calm(part, full, part', full'), base' = base
    PROVE  \A x : H(x) => HeldBelow(part', full', base', x)
  BY ShapeDisk, CalmHeld DEF H

\* ... and, when they show no new name, what may be found.
LEMMA MildVisible ==
    ASSUME ShapeInv, HeldInv, Mild(part, full, part', full'), base' = base
    PROVE  VisibleInv'
<1>1. \A x : H(x) => HeldBelow(part', full', base', x)
  BY MildIsCalm, CalmKeeps
<1>2. ASSUME NEW f \in Files
      PROVE  /\ PartialVisible(f)' => HeldBelow(part', full', base', At(f[2]))
             /\ CompleteVisible(f)' => HeldBelow(part', full', base', At(f[2] + 1))
  <2>1. f[2] \in Nat /\ At(f[2]) \in Int /\ At(f[2] + 1) = At(f[2]) + WalSegSz
    BY AtInLSNs, AtType DEF Files
  <2>2. MildFile(part[f], full[f], part'[f], full'[f]) /\ part[f].st \in PartStates
    BY DEF Mild, ShapeInv, TypeOK, Part
  <2>3. /\ PartialVisible(f)' => PartialVisible(f) \/ CompleteVisible(f)
        /\ CompleteVisible(f)' => CompleteVisible(f)
    BY <2>2 DEF MildFile, CalmFile, PartialVisible, CompleteVisible, PartStates
  <2>4. /\ PartialVisible(f) => H(At(f[2]))
        /\ CompleteVisible(f) => H(At(f[2] + 1))
    BY DEF HeldInv, VisibleInv
  <2>5. H(At(f[2] + 1)) => H(At(f[2]))
    BY <2>1, HNarrow, ConstantsAssumption
  <2> QED
    BY <1>1, <2>3, <2>4, <2>5
<1> QED
  BY <1>2 DEF VisibleInv, H

\* Outside the stream there is nothing to say of it.
LEMMA NoStream ==
    ASSUME pc' \notin Streaming \cup {"history", "start"}
    PROVE  StreamInv'
  BY DEF StreamInv, HasFile, Streaming

\* The slot may be given the position in flight: less than that is released.
LEMMA DeliveredHeld ==
    ASSUME ShapeInv, HeldInv
    PROVE  /\ base > 0 /\ Delivered > 0 => H(SegStart(Delivered))
           /\ inflight # 0 => H(SegStart(inflight))
<1>1. SegStart(inflight) \in Int /\ SegStart(inflight) <= inflight
  BY Ranges, SegStartOff, ConstantsAssumption DEF LSNs
<1>2. H(SegStart(inflight))
  BY <1>1, Ranges, HNarrow DEF HeldInv, AckInv
<1> QED
  BY <1>2 DEF Delivered, HeldInv, AckInv

\* Nothing lies below zero.
LEMMA ZeroHeld ==
    ASSUME NEW pa, NEW fu, NEW b \in Int, b >= 0
    PROVE  HeldBelow(pa, fu, b, 0)
  BY HeldNothing

-----------------------------------------------------------------------------
LEMMA HeldInit == Init => HeldInv
<1>1. SUFFICES ASSUME Init PROVE HeldInv
  OBVIOUS
<1>2. ShapeInv
  BY <1>1, ShapeInit
<1>3. VisibleInv
  BY <1>1 DEF Init, VisibleInv, PartialVisible, CompleteVisible, NoPart
<1>4. H(0) /\ base = 0
  BY <1>1, <1>2, Ranges, ZeroHeld DEF H, Init
<1>5. AckInv /\ StreamInv
  BY <1>1, <1>4, ConstantsAssumption DEF Init, AckInv, StreamInv, HasFile, Streaming
<1> QED
  BY <1>3, <1>5 DEF HeldInv

-----------------------------------------------------------------------------
(***************************************************************************)
(* Steps that leave the disk alone.                                        *)
(***************************************************************************)
LEMMA HeldServerWrite ==
    ASSUME ShapeInv, HeldInv, ServerWrite
    PROVE  HeldInv'
<1>1. VisibleInv'
  BY StillVisible DEF ServerWrite
<1>2. AckInv'
  BY DEF ServerWrite, HeldInv, AckInv, H
<1>3. StreamInv'
  BY DEF ServerWrite, HeldInv, StreamInv, ShapeInv, PosInv, MsgInv, HasFile, Streaming, H
<1> QED
  BY <1>1, <1>2, <1>3 DEF HeldInv

LEMMA HeldPromote ==
    ASSUME ShapeInv, HeldInv, Promote
    PROVE  HeldInv'
<1>1. VisibleInv'
  BY StillVisible DEF Promote
<1>2. AckInv'
  <2>1. acked' \in Int /\ acked' <= acked
    BY Ranges DEF Promote, Lesser, ShapeInv, TypeOK, LSNs
  <2>2. H(acked')
    BY <2>1, Ranges, HNarrow DEF HeldInv, AckInv
  <2> QED
    BY <2>2 DEF Promote, HeldInv, AckInv, H
<1>3. StreamInv'
  BY DEF Promote, HeldInv, StreamInv, ShapeInv, PosInv, MsgInv, HasFile, Streaming, H
<1> QED
  BY <1>1, <1>2, <1>3 DEF HeldInv

LEMMA HeldRecycle ==
    ASSUME ShapeInv, HeldInv, Recycle
    PROVE  HeldInv'
<1>1. VisibleInv'
  BY StillVisible DEF Recycle
<1>2. AckInv'
  BY DEF Recycle, HeldInv, AckInv, H
<1>3. StreamInv'
  BY DEF Recycle, HeldInv, StreamInv, ShapeInv, PosInv, MsgInv, HasFile, Streaming, H
<1> QED
  BY <1>1, <1>2, <1>3 DEF HeldInv

LEMMA HeldApplyFeedback ==
    ASSUME ShapeInv, HeldInv, ApplyFeedback
    PROVE  HeldInv'
<1>1. VisibleInv'
  BY StillVisible DEF ApplyFeedback
<1>2. AckInv'
  BY Ranges, ZeroHeld, DeliveredHeld DEF ApplyFeedback, HeldInv, AckInv, H
<1>3. StreamInv'
  BY DEF ApplyFeedback, HeldInv, StreamInv, ShapeInv, PosInv, MsgInv, HasFile, Streaming, H
<1> QED
  BY <1>1, <1>2, <1>3 DEF HeldInv

LEMMA HeldConnect ==
    ASSUME ShapeInv, HeldInv, Connect
    PROVE  HeldInv'
<1>1. VisibleInv'
  BY StillVisible DEF Connect
<1>2. AckInv'
  BY DEF Connect, HeldInv, AckInv, H
<1>3. StreamInv'
  BY DEF Connect, HeldInv, StreamInv, ShapeInv, PosInv, MsgInv, HasFile, Streaming, H
<1> QED
  BY <1>1, <1>2, <1>3 DEF HeldInv

LEMMA HeldFetchHistory ==
    ASSUME ShapeInv, HeldInv, FetchHistory
    PROVE  HeldInv'
<1>1. VisibleInv'
  BY StillVisible DEF FetchHistory, HasHistory
<1>2. AckInv'
  BY DEF FetchHistory, HasHistory, HeldInv, AckInv, H
<1>3. StreamInv'
  BY DEF FetchHistory, HasHistory, HeldInv, StreamInv, ShapeInv, PosInv, MsgInv, HasFile, Streaming, H
<1> QED
  BY <1>1, <1>2, <1>3 DEF HeldInv

LEMMA HeldStartReplication ==
    ASSUME ShapeInv, HeldInv, StartReplication
    PROVE  HeldInv'
<1>1. VisibleInv'
  BY StillVisible DEF StartReplication, ServerCanStart
<1>2. AckInv'
  BY DEF StartReplication, ServerCanStart, HeldInv, AckInv, H
<1>3. StreamInv'
  BY DEF StartReplication, ServerCanStart, HeldInv, StreamInv, ShapeInv, PosInv, MsgInv, HasFile, Streaming, H
<1> QED
  BY <1>1, <1>2, <1>3 DEF HeldInv

LEMMA HeldLoopIdle ==
    ASSUME ShapeInv, HeldInv, LoopIdle
    PROVE  HeldInv'
<1>1. VisibleInv'
  BY StillVisible DEF LoopIdle, AfterTop
<1>2. AckInv'
  BY DEF LoopIdle, AfterTop, HeldInv, AckInv, H
<1>3. StreamInv'
  BY DEF LoopIdle, AfterTop, HeldInv, StreamInv, ShapeInv, PosInv, MsgInv, HasFile, Streaming, H
<1> QED
  BY <1>1, <1>2, <1>3 DEF HeldInv

LEMMA HeldReceiveTimeout ==
    ASSUME ShapeInv, HeldInv, ReceiveTimeout
    PROVE  HeldInv'
<1>1. VisibleInv'
  BY StillVisible DEF ReceiveTimeout
<1>2. AckInv'
  BY DEF ReceiveTimeout, HeldInv, AckInv, H
<1>3. StreamInv'
  BY DEF ReceiveTimeout, HeldInv, StreamInv, ShapeInv, PosInv, MsgInv, HasFile, Streaming, H
<1> QED
  BY <1>1, <1>2, <1>3 DEF HeldInv

LEMMA HeldReceiveXLogData ==
    ASSUME ShapeInv, HeldInv, ReceiveXLogData
    PROVE  HeldInv'
<1>1. VisibleInv'
  BY StillVisible DEF ReceiveXLogData
<1>2. AckInv'
  BY DEF ReceiveXLogData, HeldInv, AckInv, H
<1>3. StreamInv'
  BY Ranges DEF ReceiveXLogData, HeldInv, StreamInv, ShapeInv, PosInv, MsgInv, HasFile, Streaming, H
<1> QED
  BY <1>1, <1>2, <1>3 DEF HeldInv

LEMMA HeldReceiveCopyDone ==
    ASSUME ShapeInv, HeldInv, ReceiveCopyDone
    PROVE  HeldInv'
<1>1. VisibleInv'
  BY StillVisible DEF ReceiveCopyDone, EndOfCopy
<1>2. AckInv'
  BY DEF ReceiveCopyDone, EndOfCopy, HeldInv, AckInv, H
<1>3. StreamInv'
  BY DEF ReceiveCopyDone, EndOfCopy, HeldInv, StreamInv, ShapeInv, PosInv, MsgInv, HasFile, Streaming, H
<1> QED
  BY <1>1, <1>2, <1>3 DEF HeldInv

LEMMA HeldServerShutdown ==
    ASSUME ShapeInv, HeldInv, ServerShutdown
    PROVE  HeldInv'
<1>1. VisibleInv'
  BY StillVisible DEF ServerShutdown, EndOfCopy
<1>2. AckInv'
  BY DEF ServerShutdown, EndOfCopy, HeldInv, AckInv, H
<1>3. StreamInv'
  BY DEF ServerShutdown, EndOfCopy, HeldInv, StreamInv, ShapeInv, PosInv, MsgInv, HasFile, Streaming, H
<1> QED
  BY <1>1, <1>2, <1>3 DEF HeldInv

LEMMA HeldFindWalFile ==
    ASSUME ShapeInv, HeldInv, FindWalFile
    PROVE  HeldInv'
<1>1. VisibleInv'
  BY StillVisible DEF FindWalFile
<1>2. AckInv'
  BY DEF FindWalFile, HeldInv, AckInv, H
<1>3. StreamInv'
  BY DEF FindWalFile, HeldInv, StreamInv, ShapeInv, PosInv, MsgInv, HasFile, Streaming, H
<1> QED
  BY <1>1, <1>2, <1>3 DEF HeldInv

LEMMA HeldCloseOnError ==
    ASSUME ShapeInv, HeldInv, CloseOnError
    PROVE  HeldInv'
<1>1. VisibleInv'
  BY StillVisible DEF CloseOnError
<1>2. AckInv'
  BY DEF CloseOnError, HeldInv, AckInv, H
<1>3. StreamInv'
  BY NoStream DEF CloseOnError, Streaming
<1> QED
  BY <1>1, <1>2, <1>3 DEF HeldInv

LEMMA HeldCancelledBeforeStream ==
    ASSUME ShapeInv, HeldInv, CancelledBeforeStream
    PROVE  HeldInv'
<1>1. VisibleInv'
  BY StillVisible DEF CancelledBeforeStream, HasHistory
<1>2. AckInv'
  BY DEF CancelledBeforeStream, HasHistory, HeldInv, AckInv, H
<1>3. StreamInv'
  BY NoStream DEF CancelledBeforeStream, HasHistory, Streaming
<1> QED
  BY <1>1, <1>2, <1>3 DEF HeldInv

LEMMA HeldIOError ==
    ASSUME ShapeInv, HeldInv, IOError
    PROVE  HeldInv'
<1>1. VisibleInv'
  BY StillVisible DEF IOError
<1>2. AckInv'
  BY DEF IOError, HeldInv, AckInv, H
<1>3. StreamInv'
  BY NoStream DEF IOError, Streaming
<1> QED
  BY <1>1, <1>2, <1>3 DEF HeldInv

LEMMA HeldSyncOnErrorFails ==
    ASSUME ShapeInv, HeldInv, SyncOnErrorFails
    PROVE  HeldInv'
<1>1. VisibleInv'
  BY StillVisible DEF SyncOnErrorFails
<1>2. AckInv'
  BY DEF SyncOnErrorFails, HeldInv, AckInv, H
<1>3. StreamInv'
  BY NoStream DEF SyncOnErrorFails, Streaming
<1> QED
  BY <1>1, <1>2, <1>3 DEF HeldInv

LEMMA HeldRestart ==
    ASSUME ShapeInv, HeldInv, Restart
    PROVE  HeldInv'
<1>1. VisibleInv'
  BY StillVisible DEF Restart
<1>2. AckInv'
  BY Ranges, ZeroHeld DEF Restart, HeldInv, AckInv, H
<1>3. StreamInv'
  BY NoStream DEF Restart, Streaming
<1> QED
  BY <1>1, <1>2, <1>3 DEF HeldInv

LEMMA HeldEndStreamFails ==
    ASSUME ShapeInv, HeldInv, EndStreamFails
    PROVE  HeldInv'
<1>1. VisibleInv'
  BY StillVisible DEF EndStreamFails
<1>2. AckInv'
  BY Ranges, ZeroHeld, DeliveredHeld DEF EndStreamFails, HeldInv, AckInv, H
<1>3. StreamInv'
  BY NoStream DEF EndStreamFails, Streaming
<1> QED
  BY <1>1, <1>2, <1>3 DEF HeldInv

LEMMA HeldKill ==
    ASSUME ShapeInv, HeldInv, Kill
    PROVE  HeldInv'
<1>1. VisibleInv'
  BY StillVisible DEF Kill, ProcessGone
<1>2. AckInv'
  BY Ranges, ZeroHeld, DeliveredHeld DEF Kill, ProcessGone, HeldInv, AckInv, H
<1>3. StreamInv'
  BY NoStream DEF Kill, ProcessGone, Streaming
<1> QED
  BY <1>1, <1>2, <1>3 DEF HeldInv

LEMMA HeldConnectionLost ==
    ASSUME ShapeInv, HeldInv, ConnectionLost
    PROVE  HeldInv'
<1>1. VisibleInv'
  BY StillVisible DEF ConnectionLost
<1>2. AckInv'
  BY Ranges, ZeroHeld DEF ConnectionLost, HeldInv, AckInv, H
<1>3. StreamInv'
  BY NoStream DEF ConnectionLost, Streaming
<1> QED
  BY <1>1, <1>2, <1>3 DEF HeldInv

LEMMA HeldCancel ==
    ASSUME ShapeInv, HeldInv, Cancel
    PROVE  HeldInv'
<1>1. VisibleInv'
  BY StillVisible DEF Cancel
<1>2. AckInv'
  BY DEF Cancel, HeldInv, AckInv, H
<1>3. StreamInv'
  BY DEF Cancel, HeldInv, StreamInv, ShapeInv, PosInv, MsgInv, HasFile, Streaming, H
<1> QED
  BY <1>1, <1>2, <1>3 DEF HeldInv

-----------------------------------------------------------------------------
(***************************************************************************)
(* Reporting.                                                              *)
(***************************************************************************)
\* What sendFeedback reports is held, and so is what the primary makes of it.
LEMMA FeedbackHeld ==
    ASSUME ShapeInv, HeldInv, NEW flush \in LSNs, SendFeedback(flush),
           \A x : H(x) => HeldBelow(part', full', base', x),
           HeldBelow(part', full', base', flush), base' = base
    PROVE  HeldBelow(part', full', base', acked') /\ HeldBelow(part', full', base', inflight')
<1>1. base' \in Int /\ acked \in Int /\ flush \in Int /\ tli \in TLIs /\ fork[tli] \in Int
  BY Ranges, ConstantsAssumption DEF ShapeInv, TypeOK, LSNs
<1>2. HeldBelow(part', full', base', acked)
  BY DEF HeldInv, AckInv
<1>3. acked' \in Int /\ (acked' <= acked \/ acked' <= flush)
  BY <1>1 DEF SendFeedback, Greater, Lesser
<1>4. HeldBelow(part', full', base', acked')
  BY <1>1, <1>2, <1>3, HeldNarrow
<1> QED
  BY <1>4 DEF SendFeedback

\* An fsync of the open file extends what is held up to blockPos.
LEMMA SyncHoldsStream ==
    ASSUME SoundFaults, ShapeInv, NamedInv, HeldInv, pc \in {"loop", "recv"},
           walfile.st = "open", SyncWalFile, full' = full, base' = base
    PROVE  /\ Mild(part, full, part', full')
           /\ \A x : H(x) => HeldBelow(part', full', base', x)
           /\ HeldBelow(part', full', base', blockPos)
<1> DEFINE f == walfile.f
<1>1. f \in Files /\ f[1] \in TLIs /\ f[2] \in Nat /\ f = <<f[1], f[2]>>
  BY CurrentFileIsFile, AtInLSNs DEF ShapeInv, Files
<1>2. Mild(part, full, part', full') /\ Calm(part, full, part', full')
  BY <1>1, SyncIsCalm DEF SyncWalFile
<1>3. \A x : H(x) => HeldBelow(part', full', base', x)
  BY <1>2, CalmKeeps
<1>4. /\ blockPos = At(f[2]) + walfile.pos /\ walfile.pos <= part[f].data
      /\ part[f].st \in {"sized", "synced"} /\ H(At(f[2]))
  BY DEF ShapeInv, OpenInv, NamedInv, HasFile, HeldInv, StreamInv
<1>5. part'[f].flushed = part[f].data /\ part'[f].linked /\ part'[f].st = "synced"
  BY <1>1, <1>4, SyncedFields DEF SyncWalFile
<1>6. walfile.pos \in 0..WalSegSz /\ part[f].data \in 0..WalSegSz
  BY <1>1 DEF ShapeInv, TypeOK, WalFile, Part
<1>7. \A o \in 0..(WalSegSz - 1) : o < walfile.pos => Surv(part', full', <<f[1], f[2]>>, o)
  BY <1>1, <1>4, <1>5, <1>6, ConstantsAssumption DEF Surv
<1>8. HeldBelow(part', full', base', At(f[2]) + walfile.pos)
  BY <1>1, <1>3, <1>4, <1>6, <1>7, Ranges, HeldExtend
<1> QED
  BY <1>2, <1>3, <1>4, <1>8

LEMMA HeldLoopStatus ==
    ASSUME ShapeInv, HeldInv, LoopStatus
    PROVE  HeldInv'
<1>1. VisibleInv'
  BY StillVisible DEF LoopStatus
<1>2. \A x : H(x) => HeldBelow(part', full', base', x)
  BY DEF LoopStatus, H
<1>3. H(lastFlush) /\ lastFlush \in LSNs
  BY DEF LoopStatus, HeldInv, StreamInv, Streaming, ShapeInv, TypeOK
<1>4. HeldBelow(part', full', base', acked') /\ HeldBelow(part', full', base', inflight')
  BY <1>2, <1>3, FeedbackHeld DEF LoopStatus
<1>5. AckInv'
  BY <1>4 DEF LoopStatus, HeldInv, AckInv, H
<1>6. StreamInv'
  BY DEF LoopStatus, AfterTop, HeldInv, StreamInv, HasFile, Streaming, H
<1> QED
  BY <1>1, <1>5, <1>6 DEF HeldInv

LEMMA HeldLoopSync ==
    ASSUME SoundFaults, ShapeInv, NamedInv, HeldInv, LoopSync
    PROVE  HeldInv'
<1>1. /\ Mild(part, full, part', full')
      /\ \A x : H(x) => HeldBelow(part', full', base', x)
      /\ HeldBelow(part', full', base', blockPos)
  BY SyncHoldsStream DEF LoopSync, MustFlush
<1>2. VisibleInv'
  BY <1>1, MildVisible DEF LoopSync
<1>3. HeldBelow(part', full', base', acked') /\ HeldBelow(part', full', base', inflight')
  BY <1>1, Ranges, FeedbackHeld DEF LoopSync
<1>4. AckInv'
  BY <1>1, <1>3 DEF LoopSync, HeldInv, AckInv, H
<1>5. StreamInv'
  BY <1>1 DEF LoopSync, AfterTop, MustFlush, HeldInv, StreamInv, HasFile, Streaming, H
<1> QED
  BY <1>2, <1>4, <1>5 DEF HeldInv

LEMMA HeldProcessKeepalive ==
    ASSUME SoundFaults, ShapeInv, NamedInv, HeldInv, ProcessKeepalive
    PROVE  HeldInv'
<1>1. CASE MustFlush
  <2>1. /\ Mild(part, full, part', full')
        /\ \A x : H(x) => HeldBelow(part', full', base', x)
        /\ HeldBelow(part', full', base', blockPos)
    BY <1>1, SyncHoldsStream DEF ProcessKeepalive, MustFlush
  <2>2. VisibleInv'
    BY <2>1, MildVisible DEF ProcessKeepalive
  <2>3. HeldBelow(part', full', base', acked') /\ HeldBelow(part', full', base', inflight')
    BY <1>1, <2>1, Ranges, FeedbackHeld DEF ProcessKeepalive
  <2>4. AckInv'
    BY <2>1, <2>3 DEF ProcessKeepalive, HeldInv, AckInv, H
  <2>5. StreamInv'
    BY <1>1, <2>1 DEF ProcessKeepalive, MustFlush, HeldInv, StreamInv, HasFile, Streaming, H
  <2> QED
    BY <2>2, <2>4, <2>5 DEF HeldInv
<1>2. CASE ~MustFlush
  <2>1. VisibleInv'
    BY <1>2, StillVisible DEF ProcessKeepalive
  <2>2. \A x : H(x) => HeldBelow(part', full', base', x)
    BY <1>2 DEF ProcessKeepalive, H
  <2>3. H(lastFlush) /\ lastFlush \in LSNs
    BY DEF ProcessKeepalive, HeldInv, StreamInv, Streaming, ShapeInv, TypeOK
  <2>4. HeldBelow(part', full', base', acked') /\ HeldBelow(part', full', base', inflight')
    BY <1>2, <2>2, <2>3, FeedbackHeld DEF ProcessKeepalive
  <2>5. AckInv'
    BY <1>2, <2>4 DEF ProcessKeepalive, HeldInv, AckInv, H
  <2>6. StreamInv'
    BY <1>2 DEF ProcessKeepalive, HeldInv, StreamInv, HasFile, Streaming, H
  <2> QED
    BY <2>1, <2>5, <2>6 DEF HeldInv
<1> QED
  BY <1>1, <1>2

-----------------------------------------------------------------------------
(***************************************************************************)
(* Where the stream begins, and where it goes on.                          *)
(***************************************************************************)
LEMMA HeldNextTimeline ==
    ASSUME ShapeInv, HeldInv, NextTimeline
    PROVE  HeldInv'
<1>1. VisibleInv' /\ AckInv'
  BY StillVisible DEF NextTimeline, HeldInv, AckInv, H
<1>2. CASE eoc = "switch" /\ fork[tli] <= blockPos
  <2>1. H(blockPos) /\ H(lastFlush)
    BY DEF NextTimeline, ShapeInv, PosInv, HeldInv, StreamInv, Streaming
  <2>2. startPos' \in Int /\ startPos' <= blockPos
    <3>1. fork[tli] \in LSNs
      BY DEF ShapeInv, TypeOK
    <3>2. startPos' = SegStart(fork[tli]) /\ SegStart(fork[tli]) \in LSNs
          /\ SegStart(fork[tli]) <= fork[tli]
      BY <1>2, <3>1, SegStartOff DEF NextTimeline
    <3> QED
      BY <1>2, <3>1, <3>2, Ranges, ConstantsAssumption DEF LSNs
  <2>3. H(startPos')
    BY <2>1, <2>2, Ranges, HNarrow
  <2> QED
    BY <1>1, <1>2, <2>1, <2>3 DEF NextTimeline, HeldInv, StreamInv, HasFile, Streaming, H
<1>3. CASE ~(eoc = "switch" /\ fork[tli] <= blockPos)
  <2>1. StreamInv'
    BY <1>3, NoStream DEF NextTimeline, Streaming
  <2> QED
    BY <1>1, <2>1 DEF HeldInv
<1> QED
  BY <1>2, <1>3

LEMMA HeldFindStart ==
    ASSUME ShapeInv, HeldInv, FindStart
    PROVE  HeldInv'
<1>1. /\ pc' = "history" /\ lastFlush' = startPos' /\ startPos' \in LSNs
      /\ walfile'.st = "nil" /\ slot' = (IF slot = NoSlot THEN 0 ELSE slot)
      /\ UNCHANGED <<serverVars, connVars, fileVars, acked>>
  BY FindStartFacts
<1>2. SUFFICES VisibleInv' /\ AckInv' /\ HeldBelow(part', full', base', startPos')
  BY <1>1 DEF HeldInv, StreamInv, HasFile, Streaming, H
<1>3. CASE base' = base /\ \E e \in WalEntries : startPos' = EntryStart(e)
  <2>1. PICK e \in WalEntries : startPos' = EntryStart(e)
    BY <1>3
  <2>2. H(EntryStart(e))
    BY EntryStartInLSNs DEF HeldInv, VisibleInv
  <2>3. VisibleInv'
    BY <1>1, <1>3, StillVisible
  <2>4. AckInv'
    BY <1>1, <1>3 DEF HeldInv, AckInv, H, NoSlot
  <2> QED
    BY <1>1, <1>3, <2>1, <2>2, <2>3, <2>4 DEF H
<1>4. CASE slot' # 0 /\ startPos' = SegStart(slot) /\ base' = IF base = 0 THEN startPos' ELSE base
  <2>1. slot \in Int /\ slot > 0 /\ slot' = slot
    BY <1>1, <1>4, ConstantsAssumption DEF ShapeInv, TypeOK, LSNs, NoSlot
  <2>2. CASE base = 0
    <3>1. base' \in Int /\ base' >= 0 /\ base' = startPos' /\ acked' = 0 /\ inflight' = 0
      BY <1>1, <1>4, <2>2, ConstantsAssumption DEF ShapeInv, BaseInv, LSNs
    <3>2. HeldBelow(part', full', base', 0) /\ HeldBelow(part', full', base', startPos')
      BY <3>1, HeldNothing
    <3>3. VisibleInv'
      BY <1>1, <2>2 DEF ShapeInv, BaseInv, VisibleInv, PartialVisible, CompleteVisible, NoPart
    <3>4. AckInv'
      BY <1>4, <2>1, <3>1, <3>2 DEF AckInv, H
    <3> QED
      BY <3>2, <3>3, <3>4
  <2>3. CASE base # 0
    <3>1. base' = base /\ base > 0
      BY <1>4, <2>3, Ranges
    <3>2. VisibleInv' /\ AckInv'
      BY <1>1, <2>1, <3>1, StillVisible DEF HeldInv, AckInv, H
    <3>3. H(SegStart(slot))
      BY <2>1, <3>1 DEF HeldInv, AckInv
    <3> QED
      BY <1>1, <1>4, <3>1, <3>2, <3>3 DEF H
  <2> QED
    BY <2>2, <2>3
<1>5. CASE slot' = 0 /\ startPos' = SegStart(srvEnd) /\ base' = startPos'
  <2>1. base' \in Int /\ base <= base' /\ base \in Int
    BY <1>1, <1>5, BoundaryBelow, SegInSegs, ConstantsAssumption
       DEF ShapeInv, TypeOK, BaseInv, LSNs
  <2>2. \A x \in Int : H(x) => HeldBelow(part', full', base', x)
    BY <1>1, <2>1, HeldNarrow DEF H
  <2>3. HeldBelow(part', full', base', startPos')
    BY <1>5, <2>1, HeldNothing
  <2>4. \A f \in Files : At(f[2]) \in Int /\ At(f[2] + 1) \in Int
    BY AtInLSNs, AtType, ConstantsAssumption DEF Files
  <2>5. VisibleInv'
    BY <1>1, <2>2, <2>4 DEF HeldInv, VisibleInv, PartialVisible, CompleteVisible, H
  <2>6. AckInv'
    BY <1>1, <1>5, <2>2, Ranges DEF HeldInv, AckInv, H
  <2> QED
    BY <2>3, <2>5, <2>6
<1> QED
  BY <1>3, <1>4, <1>5, FindStartFacts

-----------------------------------------------------------------------------
(***************************************************************************)
(* The segment files.                                                      *)
(***************************************************************************)
LEMMA HeldCreateWalFile ==
    ASSUME ShapeInv, HeldInv, CreateWalFile
    PROVE  HeldInv'
<1> DEFINE f == CurrentFile
<1>1. /\ Calm(part, full, part', full') /\ f \in Files
      /\ \A g \in Files : g # f => part'[g] = part[g] /\ full'[g] = full[g]
      /\ full'[f] => CompleteVisible(f) /\ part'[f].st = "empty"
      /\ part'[f].st = "empty"
  BY CreateIsCalm DEF CompleteVisible
<1>2. \A x : H(x) => HeldBelow(part', full', base', x)
  BY <1>1, CalmKeeps DEF CreateWalFile
<1>3. H(blockPos) /\ Off(blockPos) = 0
  BY DEF CreateWalFile, HeldInv, StreamInv, ShapeInv, PosInv
<1>4. At(f[2]) = blockPos
  <2>1. blockPos \in Nat
    BY SegInSegs DEF ShapeInv, TypeOK
  <2>2. blockPos = At(Seg(blockPos)) + 0 /\ Seg(blockPos) \in Nat
    BY <1>3, <2>1, SegOff
  <2>3. At(Seg(blockPos)) \in Nat
    BY <2>2, AtType
  <2> QED
    BY <2>2, <2>3 DEF CurrentFile
<1>5. VisibleInv'
  <2>1. ASSUME NEW g \in Files
        PROVE  /\ PartialVisible(g)' => HeldBelow(part', full', base', At(g[2]))
               /\ CompleteVisible(g)' => HeldBelow(part', full', base', At(g[2] + 1))
    <3>1. CASE g = f
      <4>1. CompleteVisible(g)' => CompleteVisible(g)
        BY <1>1, <3>1 DEF CompleteVisible
      <4> QED
        BY <1>2, <1>3, <1>4, <3>1, <4>1 DEF HeldInv, VisibleInv
    <3>2. CASE g # f
      BY <1>1, <1>2, <3>2 DEF HeldInv, VisibleInv, PartialVisible, CompleteVisible
    <3> QED  BY <3>1, <3>2
  <2> QED
    BY <2>1 DEF VisibleInv, H
<1>6. AckInv'
  BY <1>2 DEF CreateWalFile, HeldInv, AckInv, H
<1>7. StreamInv'
  BY <1>2 DEF CreateWalFile, HeldInv, StreamInv, HasFile, Streaming, H
<1> QED
  BY <1>5, <1>6, <1>7 DEF HeldInv

LEMMA HeldTruncateWalFile ==
    ASSUME ShapeInv, NamedInv, HeldInv, TruncateWalFile
    PROVE  HeldInv'
<1>1. /\ Calm(part, full, part', full') /\ CurrentFile \in Files
      /\ part'[CurrentFile].st = "sized" /\ part[CurrentFile].st = "empty"
      /\ \A g \in Files : g # CurrentFile => part'[g] = part[g]
  BY TruncateIsMild DEF TruncateWalFile, NamedInv
<1>2. \A x : H(x) => HeldBelow(part', full', base', x)
  BY <1>1, CalmKeeps DEF TruncateWalFile
<1>3. \A g \in Files : /\ PartialVisible(g)' => PartialVisible(g)
                       /\ CompleteVisible(g)' => CompleteVisible(g)
  BY <1>1 DEF TruncateWalFile, PartialVisible, CompleteVisible
<1>4. VisibleInv'
  BY <1>2, <1>3 DEF HeldInv, VisibleInv, H
<1>5. AckInv'
  BY <1>2 DEF TruncateWalFile, HeldInv, AckInv, H
<1>6. StreamInv'
  BY <1>2 DEF TruncateWalFile, HeldInv, StreamInv, HasFile, Streaming, H
<1> QED
  BY <1>4, <1>5, <1>6 DEF HeldInv

LEMMA HeldReopenWalFile ==
    ASSUME SoundFaults, ShapeInv, NamedInv, HeldInv, ReopenWalFile
    PROVE  HeldInv'
<1>1. CurrentFile \in Files /\ part[CurrentFile].st \in {"sized", "synced"}
  BY CurrentFileIsFile DEF ReopenWalFile, ShapeInv, OpenInv, NamedInv
<1>2. Mild(part, full, part', full') /\ Calm(part, full, part', full')
  BY <1>1, SyncIsCalm DEF ReopenWalFile
<1>3. VisibleInv' /\ \A x : H(x) => HeldBelow(part', full', base', x)
  BY <1>2, MildVisible, CalmKeeps DEF ReopenWalFile
<1>4. AckInv'
  BY <1>1, <1>3 DEF ReopenWalFile, HeldInv, AckInv, H
<1>5. StreamInv'
  BY <1>1, <1>3 DEF ReopenWalFile, HeldInv, StreamInv, HasFile, Streaming, H
<1> QED
  BY <1>3, <1>4, <1>5 DEF HeldInv

LEMMA HeldAssignWalFile ==
    ASSUME ShapeInv, HeldInv, AssignWalFile
    PROVE  HeldInv'
<1>1. VisibleInv' /\ AckInv'
  BY StillVisible DEF AssignWalFile, HeldInv, AckInv, H
<1>2. blockPos \in Nat /\ Off(blockPos) = 0 /\ H(blockPos)
  BY SegInSegs DEF AssignWalFile, ShapeInv, TypeOK, PosInv, HeldInv, StreamInv
<1>3. At(CurrentFile[2]) = blockPos
  <2>1. blockPos = At(Seg(blockPos)) + 0 /\ Seg(blockPos) \in Nat
    BY <1>2, SegOff
  <2>2. At(Seg(blockPos)) \in Nat
    BY <2>1, AtType
  <2> QED
    BY <2>1, <2>2 DEF CurrentFile
<1>4. StreamInv'
  BY <1>2, <1>3 DEF AssignWalFile, HeldInv, StreamInv, HasFile, Streaming, H
<1> QED
  BY <1>1, <1>4 DEF HeldInv

LEMMA HeldWriteWalFile ==
    ASSUME ShapeInv, HeldInv, WriteWalFile
    PROVE  HeldInv'
<1> DEFINE f == walfile.f
<1>1. /\ f \in Files /\ walfile'.st = "open" /\ walfile'.f = f
      /\ \A g \in Files : g # f => part'[g] = part[g]
      /\ part'[f].st = part[f].st /\ part'[f].flushed = part[f].flushed
      /\ part'[f].linked = part[f].linked
  BY WriteFacts
<1>2. full' = full /\ base' = base /\ acked' = acked /\ inflight' = inflight /\ slot' = slot
      /\ lastFlush' = lastFlush /\ pc = "data" /\ pc' \in {"close", "recv", "data"}
      /\ walfile.st = "open"
  BY DEF WriteWalFile
<1>3. \A g \in Files : part'[g].st = part[g].st /\ part'[g].flushed = part[g].flushed
                       /\ part'[g].linked = part[g].linked
  BY <1>1
<1>4. ASSUME NEW x, H(x) PROVE HeldBelow(part', full', base', x)
  <2>1. \A g \in Files : \A o \in 0..(WalSegSz - 1) :
          Surv(part, full, g, o) => Surv(part', full', g, o)
    BY <1>2, <1>3 DEF Surv
  <2> QED
    BY <1>2, <1>4, <2>1, HeldGrow DEF H
<1>5. VisibleInv'
  BY <1>2, <1>3, <1>4 DEF HeldInv, VisibleInv, PartialVisible, CompleteVisible, H
<1>6. AckInv'
  BY <1>2, <1>4 DEF HeldInv, AckInv, H
<1>7. StreamInv'
  BY <1>1, <1>2, <1>4 DEF HeldInv, StreamInv, HasFile, Streaming, H
<1> QED
  BY <1>5, <1>6, <1>7 DEF HeldInv

LEMMA HeldCloseWalFile ==
    ASSUME SoundFaults, ShapeInv, NamedInv, HeldInv, CloseWalFile
    PROVE  HeldInv'
<1> DEFINE f == walfile.f
<1>1. f \in Files /\ walfile \in WalFile
  BY CurrentFileIsFile DEF ShapeInv, TypeOK
<1>2. /\ pc = "close" /\ walfile.st = "open" /\ part[f].st \in {"sized", "synced"}
      /\ H(At(f[2])) /\ H(lastFlush)
  BY DEF CloseWalFile, ShapeInv, PosInv, OpenInv, NamedInv, HasFile, HeldInv, StreamInv, Streaming
<1>3. UNCHANGED <<serverVars, slot, connVars, streamVars, full, ghostVars>>
  BY DEF CloseWalFile
<1>4. walfile'.f = f /\ pc' \in {"rename", "closesync"}
  <2>1. \/ walfile' = [walfile EXCEPT !.st = "closed"]
        \/ walfile' = [walfile EXCEPT !.st = "nil"]
    BY DEF CloseWalFile
  <2>2. pc' \in {"rename", "closesync"}
    BY <1>2 DEF CloseWalFile
  <2> QED
    BY <1>1, <2>1, <2>2, WalFileWithState
<1>5. VisibleInv' /\ \A x : H(x) => HeldBelow(part', full', base', x)
  <2>1. CASE walfile.pos = WalSegSz
    <3>1. Mild(part, full, part', full') /\ Calm(part, full, part', full')
      BY <1>1, <1>3, <2>1, SyncIsCalm DEF CloseWalFile, SyncWalFile
    <3> QED
      BY <1>3, <3>1, MildVisible, CalmKeeps
  <2>2. CASE walfile.pos # WalSegSz
    BY <1>3, <2>2, StillVisible DEF CloseWalFile, H
  <2> QED  BY <2>1, <2>2
<1>6. AckInv'
  BY <1>3, <1>5 DEF HeldInv, AckInv, H
<1>7. StreamInv'
  BY <1>2, <1>3, <1>4, <1>5 DEF StreamInv, HasFile, Streaming, H
<1> QED
  BY <1>5, <1>6, <1>7 DEF HeldInv

LEMMA HeldRenameWalFile ==
    ASSUME ShapeInv, NamedInv, HeldInv, RenameWalFile
    PROVE  HeldInv'
<1> DEFINE f == walfile.f
<1>1. /\ f \in Files /\ f[2] \in Nat /\ Calm(part, full, part', full')
      /\ part[f].st = "synced" /\ part[f].flushed = WalSegSz /\ part[f].linked
      /\ part'[f].st = "renamed"
      /\ \A g \in Files : g # f => part'[g] = part[g]
      /\ walfile'.f = f /\ pc' = "closesync"
  BY RenameIsCalm DEF RenameWalFile, NamedInv, HasFile
<1>2. UNCHANGED <<serverVars, slot, connVars, streamVars, full, ghostVars>> /\ pc = "rename"
  BY DEF RenameWalFile
<1>3. \A x : H(x) => HeldBelow(part', full', base', x)
  BY <1>1, <1>2, CalmKeeps
<1>4. H(At(f[2])) /\ H(lastFlush)
  BY <1>2 DEF HeldInv, StreamInv, HasFile, Streaming
<1>5. H(At(f[2] + 1))
  <2>1. f[1] \in TLIs /\ f = <<f[1], f[2]>>
    BY <1>1 DEF Files
  <2>2. WalSegSz \in 0..WalSegSz /\ At(f[2] + 1) = At(f[2]) + WalSegSz
    BY <1>1, AtType, ConstantsAssumption
  <2>3. \A o \in 0..(WalSegSz - 1) : Surv(part, full, <<f[1], f[2]>>, o)
    BY <1>1, <2>1, ConstantsAssumption DEF Surv
  <2> QED
    BY <1>1, <1>4, <2>1, <2>2, <2>3, Ranges, HeldExtend DEF H
<1>6. ASSUME NEW g \in Files
      PROVE  /\ PartialVisible(g)' => HeldBelow(part', full', base', At(g[2]))
             /\ CompleteVisible(g)' => HeldBelow(part', full', base', At(g[2] + 1))
  <2>1. CASE g = f
    BY <1>1, <1>3, <1>5, <2>1 DEF PartialVisible
  <2>2. CASE g # f
    BY <1>1, <1>2, <1>3, <2>2 DEF HeldInv, VisibleInv, PartialVisible, CompleteVisible
  <2> QED  BY <2>1, <2>2
<1>7. VisibleInv'
  BY <1>6 DEF VisibleInv, H
<1>8. AckInv'
  BY <1>2, <1>3 DEF HeldInv, AckInv, H
<1>9. StreamInv'
  BY <1>1, <1>2, <1>3, <1>4 DEF StreamInv, HasFile, Streaming, H
<1> QED
  BY <1>7, <1>8, <1>9 DEF HeldInv

\* CloseWalFile's last step makes all that was received durable, whether the segment was
\* renamed or only closed.
LEMMA HeldSyncClosedFile ==
    ASSUME SoundFaults, ShapeInv, NamedInv, HeldInv, SyncClosedFile
    PROVE  HeldInv'
<1> DEFINE f == walfile.f
<1>1. f \in Files /\ f[1] \in TLIs /\ f[2] \in Nat /\ f = <<f[1], f[2]>>
  BY CurrentFileIsFile, AtInLSNs DEF ShapeInv, Files
<1>2. /\ pc = "closesync" /\ walfile.st = "nil" /\ blockPos = At(f[2]) + walfile.pos
      /\ walfile.pos <= part[f].data /\ H(At(f[2]))
      /\ part[f].st \in (IF walfile.pos = WalSegSz THEN {"renamed"} ELSE {"sized", "synced"})
  BY DEF SyncClosedFile, ShapeInv, OpenInv, NamedInv, PosInv, HasFile, HeldInv, StreamInv
<1>3. /\ FsyncDir([part EXCEPT ![f] = FsyncedPart(@)])
      /\ lastFlush' = blockPos /\ pc' \in {"copydone", "recv", "data"}
      /\ UNCHANGED <<slot, inflight, blockPos, walfile, ghostVars>>
  BY <1>2 DEF SyncClosedFile, ClosedNameVisible, CompleteVisible, PartialVisible
<1>4. Mild(part, full, part', full') /\ Calm(part, full, part', full')
  BY <1>1, <1>3, FsyncFnameAndDirIsCalm
<1>5. VisibleInv' /\ \A x : H(x) => HeldBelow(part', full', base', x)
  BY <1>3, <1>4, MildVisible, CalmKeeps
<1>6. HeldBelow(part', full', base', blockPos)
  <2>1. CASE walfile.pos = WalSegSz
    <3>1. blockPos = At(f[2] + 1)
      BY <1>1, <1>2, <2>1, AtType
    <3>2. H(At(f[2] + 1))
      BY <1>1, <1>2, <2>1 DEF HeldInv, VisibleInv, CompleteVisible
    <3> QED
      BY <1>5, <3>1, <3>2
  <2>2. CASE walfile.pos # WalSegSz
    <3> DEFINE mid == [part EXCEPT ![f] = FsyncedPart(@)]
    <3>1. mid[f].st = "synced" /\ mid[f].flushed = part[f].data /\ mid[f].linked
      BY <1>1, <1>2, <2>2, SyncedFields
    <3>2. Disk(mid, full)
      BY <1>1, ShapeDisk, FsyncIsMild, MildIsCalm, CalmDisk
    <3>3. part'[f] = DirSyncedPart(mid[f])
      BY <1>1, <1>3 DEF FsyncDir
    <3> HIDE DEF mid
    <3>4. mid[f] \in Part /\ PartOK(mid[f]) /\ full[f] \in BOOLEAN
      BY <1>1, <3>2 DEF Disk
    <3>5. part'[f].st = "synced" /\ part'[f].flushed = part[f].data /\ part'[f].linked
      BY <3>1, <3>3, <3>4, DirSyncedFile
    <3>6. walfile.pos \in 0..WalSegSz /\ part[f].data \in 0..WalSegSz
      BY <1>1 DEF ShapeInv, TypeOK, WalFile, Part
    <3>7. \A o \in 0..(WalSegSz - 1) : o < walfile.pos => Surv(part', full', <<f[1], f[2]>>, o)
      BY <1>1, <1>2, <3>5, <3>6, ConstantsAssumption DEF Surv
    <3>8. HeldBelow(part', full', base', At(f[2]) + walfile.pos)
      BY <1>1, <1>2, <1>3, <1>5, <3>6, <3>7, Ranges, HeldExtend
    <3> QED
      BY <1>2, <3>8
  <2> QED  BY <2>1, <2>2
<1>7. AckInv'
  BY <1>3, <1>5 DEF HeldInv, AckInv, H
<1>8. StreamInv'
  BY <1>2, <1>3, <1>6 DEF StreamInv, HasFile, Streaming, H
<1> QED
  BY <1>5, <1>7, <1>8 DEF HeldInv

-----------------------------------------------------------------------------
(***************************************************************************)
(* The end of a stream, and of a machine.                                  *)
(***************************************************************************)
LEMMA HeldSyncOnError ==
    ASSUME SoundFaults, ShapeInv, HeldInv, SyncOnError
    PROVE  HeldInv'
<1>1. VisibleInv' /\ \A x : H(x) => HeldBelow(part', full', base', x)
  <2>1. CASE part[walfile.f].st = "none"
    BY <2>1, StillVisible DEF SyncOnError, H
  <2>2. CASE part[walfile.f].st # "none"
    <3>1. walfile.f \in Files
      BY CurrentFileIsFile DEF ShapeInv
    <3>2. Mild(part, full, part', full') /\ Calm(part, full, part', full')
      BY <2>2, <3>1, FsyncFnameAndDirIsCalm DEF SyncOnError
    <3> QED
      BY <3>2, MildVisible, CalmKeeps DEF SyncOnError
  <2> QED  BY <2>1, <2>2
<1>2. AckInv'
  BY <1>1 DEF SyncOnError, HeldInv, AckInv, H
<1>3. StreamInv'
  BY NoStream DEF SyncOnError, Streaming
<1> QED
  BY <1>1, <1>2, <1>3 DEF HeldInv

LEMMA HeldEndStream ==
    ASSUME ShapeInv, HeldInv, EndStream
    PROVE  HeldInv'
<1>1. Mild(part, full, part', full') /\ Calm(part, full, part', full') /\ base' = base
  BY FsyncDirIsCalm DEF EndStream
<1>2. VisibleInv' /\ \A x : H(x) => HeldBelow(part', full', base', x)
  BY <1>1, MildVisible, CalmKeeps
<1>3. AckInv'
  BY <1>1, <1>2, Ranges, ZeroHeld, DeliveredHeld DEF EndStream, HeldInv, AckInv, H
<1>4. StreamInv'
  BY NoStream DEF EndStream, Streaming
<1> QED
  BY <1>2, <1>3, <1>4 DEF HeldInv

LEMMA HeldPowerFailure ==
    ASSUME ShapeInv, HeldInv, PowerFailure
    PROVE  HeldInv'
<1>1. Mild(part, full, part', full') /\ Calm(part, full, part', full')
  BY PowerIsCalm
<1>2. pc' = "exited" /\ inflight' = 0 /\ UNCHANGED <<slot, base, acked>>
  BY DEF PowerFailure, ProcessGone
<1>3. VisibleInv' /\ \A x : H(x) => HeldBelow(part', full', base', x)
  BY <1>1, <1>2, MildVisible, CalmKeeps
<1>4. AckInv'
  BY <1>2, <1>3, Ranges, ZeroHeld DEF HeldInv, AckInv, H
<1>5. StreamInv'
  BY <1>2, NoStream DEF Streaming
<1> QED
  BY <1>3, <1>4, <1>5 DEF HeldInv

-----------------------------------------------------------------------------
(***************************************************************************)
(* The theorems.                                                           *)
(***************************************************************************)
\* Every step preserves what is held.
LEMMA HeldNext ==
    ASSUME SoundFaults, ShapeInv, NamedInv, HeldInv, [Next]_vars
    PROVE  HeldInv'
<1>1. CASE ServerStep
  BY <1>1, HeldServerWrite, HeldPromote, HeldRecycle, HeldApplyFeedback DEF ServerStep
<1>2. CASE ReceiverStep
  <2>1. CASE Connect \/ FindStart \/ FetchHistory \/ StartReplication \/ NextTimeline
    BY <2>1, HeldConnect, HeldFindStart, HeldFetchHistory, HeldStartReplication,
       HeldNextTimeline
  <2>2. CASE LoopSync \/ LoopStatus \/ LoopIdle \/ ReceiveTimeout \/ ProcessKeepalive
             \/ ReceiveXLogData \/ ReceiveCopyDone
    BY <2>2, HeldLoopSync, HeldLoopStatus, HeldLoopIdle, HeldReceiveTimeout,
       HeldProcessKeepalive, HeldReceiveXLogData, HeldReceiveCopyDone
  <2>3. CASE CreateWalFile \/ TruncateWalFile \/ FindWalFile \/ ReopenWalFile \/ AssignWalFile
             \/ WriteWalFile \/ CloseWalFile \/ RenameWalFile \/ SyncClosedFile
    BY <2>3, HeldCreateWalFile, HeldTruncateWalFile, HeldFindWalFile, HeldReopenWalFile,
       HeldAssignWalFile, HeldWriteWalFile, HeldCloseWalFile, HeldRenameWalFile,
       HeldSyncClosedFile
  <2>4. CASE CloseOnError \/ SyncOnError \/ EndStream \/ CancelledBeforeStream \/ Restart
    BY <2>4, HeldCloseOnError, HeldSyncOnError, HeldEndStream, HeldCancelledBeforeStream,
       HeldRestart
  <2> QED
    BY <1>2, <2>1, <2>2, <2>3, <2>4 DEF ReceiverStep
<1>3. CASE FaultStep
  <2>1. ~ReopenFails
    BY DEF ReopenFails, SoundFaults
  <2> QED
    BY <1>3, <2>1, HeldServerShutdown, HeldIOError, HeldSyncOnErrorFails, HeldEndStreamFails,
       HeldConnectionLost, HeldCancel, HeldKill, HeldPowerFailure DEF FaultStep
<1>4. CASE UNCHANGED vars
  BY <1>4, StillVisible DEF vars, HeldInv, AckInv, StreamInv, HasFile, H
<1> QED
  BY <1>1, <1>2, <1>3, <1>4 DEF Next

\* What is on disk in some file is part of the primary's history: files hold nothing past
\* the end of their timeline, and timelines fork one after the other.
LEMMA HeldIsStored ==
    ASSUME ShapeInv, NEW x \in Int, H(x)
    PROVE  StoredBelow(x)
<1>1. SUFFICES ASSUME NEW l \in LSNs, base <= l /\ l < x PROVE Stored(l)
  BY DEF StoredBelow
<1>2. PICK t \in TLIs : Surv(part, full, <<t, Seg(l)>>, Off(l))
  BY <1>1 DEF H, HeldBelow, Held
<1> DEFINE f == <<t, Seg(l)>>
<1>3. f \in Files /\ f[1] = t /\ f[2] = Seg(l) /\ Seg(l) \in Nat /\ l \in Nat
  BY SegInSegs DEF Files
<1>4. /\ l = At(Seg(l)) + Off(l) /\ Off(l) \in 0..(WalSegSz - 1) /\ At(Seg(l)) \in Nat
      /\ At(Seg(l) + 1) = At(Seg(l)) + WalSegSz
  BY <1>3, SegOff, AtType
<1>5. /\ part[f].data \in 0..WalSegSz /\ part[f].flushed \in 0..WalSegSz
      /\ part[f].flushed <= part[f].data
  BY <1>3 DEF ShapeInv, TypeOK, Part, PartInv, PartOK
<1>6. TimelineEnd(t) \in Int /\ srvTli \in Int /\ \A u \in TLIs : u \in Int /\ fork[u] \in Int
  BY ConstantsAssumption DEF ShapeInv, TypeOK, TimelineEnd, LSNs, TLIs
<1>7. t <= srvTli /\ l < TimelineEnd(t)
  <2>1. CASE full[f]
    BY <1>3, <1>4, <1>6, <2>1, ConstantsAssumption DEF ShapeInv, FilesInv
  <2>2. CASE ~full[f]
    <3>1. Off(l) < part[f].flushed
      BY <1>2, <1>4, <1>5, <2>2, ConstantsAssumption DEF Surv
    <3>2. t <= srvTli /\ At(Seg(l)) + part[f].data <= TimelineEnd(t)
      BY <1>3, <1>4, <1>5, <3>1, ConstantsAssumption DEF ShapeInv, FilesInv
    <3> QED
      BY <1>4, <1>5, <1>6, <3>1, <3>2, ConstantsAssumption
  <2> QED  BY <2>1, <2>2
<1>8. InHistory(t, l)
  BY <1>3, <1>6, <1>7 DEF InHistory, ShapeInv, ForkInv, TimelineEnd
<1>9. SurvivesIn(t, l)
  BY <1>2 DEF SurvivesIn, Surv
<1> QED
  BY <1>7, <1>8, <1>9 DEF Stored

(***************************************************************************)
(* The inductive invariant holds in every behaviour of the receiver: what  *)
(* findStreamingStart may find, what the stream takes as flushed and what  *)
(* the slot releases is on disk, through every crash and failing call.     *)
(***************************************************************************)
THEOREM Invariance ==
    ASSUME SoundFaults
    PROVE  Spec => []IInv
<1>1. Init => IInv
  BY ShapeInit, NamedInit, HeldInit DEF IInv
<1>2. IInv /\ [Next]_vars => IInv'
  BY ShapeNext, NamedNext, HeldNext DEF IInv
<1> QED
  BY <1>1, <1>2, PTL DEF Spec

(***************************************************************************)
(* RPO = 0: every position sendFeedback has reported as flushed is on disk *)
(* in a file the primary's history agrees with, and stays there through    *)
(* every crash, power failure, I/O error, broken connection and promotion. *)
(***************************************************************************)
THEOREM AckedSurvives ==
    ASSUME SoundFaults
    PROVE  Spec => []AckedIsStored
<1>1. IInv => AckedIsStored
  <2>1. SUFFICES ASSUME IInv PROVE AckedIsStored
    OBVIOUS
  <2>2. Lesser(acked, srvEnd) \in Int /\ Lesser(acked, srvEnd) <= acked /\ acked \in Int
    BY <2>1, Ranges DEF IInv, Lesser
  <2>3. H(Lesser(acked, srvEnd))
    BY <2>1, <2>2, HNarrow DEF IInv, HeldInv, AckInv
  <2> QED
    BY <2>1, <2>2, <2>3, HeldIsStored DEF IInv, AckedIsStored
<1> QED
  BY <1>1, Invariance, PTL

(***************************************************************************)
(* No WAL is lost: what the slot no longer holds back on the primary is    *)
(* stored by the receiver.                                                 *)
(***************************************************************************)
THEOREM SlotReleasesOnlyStored ==
    ASSUME SoundFaults
    PROVE  Spec => []NothingLost
<1>1. IInv => NothingLost
  <2>1. SUFFICES ASSUME IInv, base > 0, slot > 0
                 PROVE  StoredBelow(Lesser(SegStart(slot), srvEnd))
    BY DEF NothingLost
  <2>2. slot \in LSNs
    BY <2>1, ConstantsAssumption DEF IInv, ShapeInv, TypeOK, LSNs, NoSlot
  <2>3. SegStart(slot) \in Int
    BY <2>2, SegStartOff, ConstantsAssumption DEF LSNs
  <2>4. /\ Lesser(SegStart(slot), srvEnd) \in Int
        /\ Lesser(SegStart(slot), srvEnd) <= SegStart(slot)
    BY <2>1, <2>3, Ranges DEF IInv, Lesser
  <2>5. H(Lesser(SegStart(slot), srvEnd))
    BY <2>1, <2>3, <2>4, HNarrow DEF IInv, HeldInv, AckInv
  <2> QED
    BY <2>1, <2>4, <2>5, HeldIsStored DEF IInv
<1> QED
  BY <1>1, Invariance, PTL

(***************************************************************************)
(* What findStreamingStart makes of the directory is sane: all below the   *)
(* position streaming starts from, which ReceiveXlogStream takes as        *)
(* flushed, is stored.                                                     *)
(***************************************************************************)
THEOREM SaneStart ==
    ASSUME SoundFaults
    PROVE  Spec => []StartIsSane
<1>1. IInv => StartIsSane
  BY Ranges, HeldIsStored DEF IInv, HeldInv, StreamInv, StartIsSane
<1> QED
  BY <1>1, Invariance, PTL

(***************************************************************************)
(* The offset checks of processXLogDataMsg never fire, whatever the        *)
(* primary's message boundaries are.                                       *)
(***************************************************************************)
THEOREM MessagesFit ==
    ASSUME SoundFaults
    PROVE  Spec => []NextMessageFits
<1>1. IInv => NextMessageFits
  <2>1. SUFFICES ASSUME IInv, pc = "recv"
                 PROVE  IF walfile.st = "open" THEN walfile.pos = Off(sent) ELSE Off(sent) = 0
    BY DEF NextMessageFits
  <2>2. sent = blockPos
    BY <2>1, Ranges DEF IInv, ShapeInv, PosInv, MsgInv, Streaming
  <2>3. CASE walfile.st = "open"
    <3>1. /\ blockPos = At(walfile.f[2]) + walfile.pos /\ walfile.pos < WalSegSz
          /\ walfile.pos \in 0..WalSegSz
      BY <2>1, <2>3 DEF IInv, ShapeInv, OpenInv, HasFile, TypeOK, WalFile
    <3>2. walfile.f[2] \in Nat /\ walfile.pos \in 0..(WalSegSz - 1)
      BY <2>1, <3>1, CurrentFileIsFile, AtInLSNs, ConstantsAssumption DEF IInv, ShapeInv, Files
    <3> QED
      BY <2>2, <2>3, <3>1, <3>2, SegOfSum
  <2>4. CASE walfile.st # "open"
    BY <2>1, <2>2, <2>4 DEF IInv, ShapeInv, PosInv
  <2> QED  BY <2>3, <2>4
<1> QED
  BY <1>1, Invariance, PTL

(***************************************************************************)
(* closeAndRename gives the final name only to a segment that is wholly on *)
(* disk.                                                                   *)
(***************************************************************************)
THEOREM FinalNameIsTrusted ==
    ASSUME SoundFaults
    PROVE  Spec => []FinalNameMeansFlushed
<1>1. IInv => FinalNameMeansFlushed
  BY DEF IInv, ShapeInv, PartInv, PartOK, FinalNameMeansFlushed
<1> QED
  BY <1>1, Invariance, PTL

-----------------------------------------------------------------------------
(***************************************************************************)
(* Where streaming begins again.                                           *)
(***************************************************************************)
\* A slot that was there before the first start always has a restart_lsn.
SlotSet == SlotExists => slot > 0

LEMMA SlotSetNext ==
    ASSUME ShapeInv, SlotSet, [Next]_vars
    PROVE  SlotSet'
<1>1. slot \in Int /\ inflight \in Int /\ inflight >= 0
  BY Ranges
<1>2. CASE FindStart
  BY <1>1, <1>2 DEF FindStart, SlotSet, NoSlot
<1>3. CASE ~FindStart
  <2>1. slot' \in {slot, Delivered} \/ (slot' = inflight /\ inflight # 0)
    BY <1>3 DEF vars, Next, ServerStep, ServerWrite, Promote, Recycle, ApplyFeedback,
       ReceiverStep, Connect, FetchHistory, StartReplication, LoopSync, LoopStatus, LoopIdle,
       ReceiveTimeout, ProcessKeepalive, SendFeedback, ReceiveXLogData, ReceiveCopyDone,
       EndOfCopy, CreateWalFile, TruncateWalFile, FindWalFile, ReopenWalFile, AssignWalFile,
       WriteWalFile, CloseWalFile, RenameWalFile, SyncClosedFile, NextTimeline, CloseOnError,
       SyncOnError, EndStream, CancelledBeforeStream, Restart, FaultStep, ServerShutdown,
       IOError, SyncOnErrorFails, EndStreamFails, ReopenFails, ConnectionLost, Cancel, Kill,
       PowerFailure, ProcessGone
  <2> QED
    BY <1>1, <2>1 DEF SlotSet, Delivered
<1> QED
  BY <1>2, <1>3

\* Only findStreamingStart moves the beginning of what is undertaken, and once it is set
\* only when the slot has no restart_lsn.
LEMMA BaseMoves ==
    ASSUME ShapeInv, Next, base # 0, base' # base
    PROVE  FindStart /\ ~StartFromDirectory /\ slot \in {NoSlot, 0}
<1>1. FindStart
  BY DEF Next, ServerStep, ServerWrite, Promote, Recycle, ApplyFeedback,
     ReceiverStep, Connect, FetchHistory, StartReplication, LoopSync, LoopStatus, LoopIdle,
     ReceiveTimeout, ProcessKeepalive, SendFeedback, ReceiveXLogData, ReceiveCopyDone,
     EndOfCopy, CreateWalFile, TruncateWalFile, FindWalFile, ReopenWalFile, AssignWalFile,
     WriteWalFile, CloseWalFile, RenameWalFile, SyncClosedFile, NextTimeline, CloseOnError,
     SyncOnError, EndStream, CancelledBeforeStream, Restart, FaultStep, ServerShutdown,
     IOError, SyncOnErrorFails, EndStreamFails, ReopenFails, ConnectionLost, Cancel, Kill,
     PowerFailure, ProcessGone
<1>2. ~StartFromDirectory
  BY DEF StartFromDirectory
<1>3. slot' = 0
  BY <1>1, FindStartFacts
<1> QED
  BY <1>1, <1>2, <1>3 DEF FindStart

\* What was reported lies in some file, and its name is in the directory.
LEMMA ReportedHasEntry ==
    ASSUME IInv, base < acked
    PROVE  WalEntries # {}
<1>1. base \in LSNs /\ acked \in Int /\ base \in Int
  BY Ranges DEF IInv, ShapeInv, TypeOK
<1>2. PICK t \in TLIs : Surv(part, full, <<t, Seg(base)>>, Off(base))
  BY <1>1 DEF IInv, HeldInv, AckInv, H, HeldBelow, Held
<1> DEFINE f == <<t, Seg(base)>>
<1>3. f \in Files
  BY <1>1, SegInSegs DEF Files
<1>4. PartialVisible(f) \/ CompleteVisible(f)
  BY <1>2 DEF Surv, PartialVisible, CompleteVisible
<1>5. CASE PartialVisible(f)
  <2>1. <<f, TRUE>> \in WalEntries
    BY <1>3, <1>5, Zenon DEF WalEntries
  <2> QED  BY <2>1
<1>6. CASE CompleteVisible(f)
  <2>1. <<f, FALSE>> \in WalEntries
    BY <1>3, <1>6, Zenon DEF WalEntries
  <2> QED  BY <2>1
<1> QED
  BY <1>4, <1>5, <1>6

(***************************************************************************)
(* No silent gap: findStreamingStart falls back to the end of the server's *)
(* WAL only while nothing has been reported.  It needs a receive directory *)
(* that can be read or a slot that has a restart_lsn: without either, a    *)
(* failing walk of the directory would skip WAL.                           *)
(***************************************************************************)
THEOREM NoGapIsSilent ==
    ASSUME SoundFaults, "walk" \notin Faults \/ SlotExists
    PROVE  Spec => NoSilentSkip
<1>1. Init => SlotSet
  BY ConstantsAssumption DEF Init, SlotSet
<1>2. IInv /\ SlotSet /\ [Next]_vars => SlotSet'
  BY SlotSetNext DEF IInv
<1>3. IInv /\ SlotSet /\ [Next]_vars => [base # 0 /\ base' # base => acked <= base]_vars
  <2>1. SUFFICES ASSUME IInv, SlotSet, Next, base # 0, base' # base, ~(acked <= base)
                 PROVE  FALSE
    OBVIOUS
  <2>2. ShapeInv /\ acked \in Int /\ base \in Int
    BY <2>1, Ranges DEF IInv
  <2>3. FindStart /\ ~StartFromDirectory /\ slot \in {NoSlot, 0}
    BY <2>1, <2>2, BaseMoves
  <2>4. ~SlotExists
    BY <2>1, <2>3 DEF SlotSet, NoSlot
  <2>5. WalEntries # {}
    BY <2>1, <2>2, ReportedHasEntry
  <2> QED
    BY <2>3, <2>4, <2>5 DEF FindStart
<1> QED
  BY <1>1, <1>2, <1>3, Invariance, PTL DEF Spec, NoSilentSkip
===================================================================================
