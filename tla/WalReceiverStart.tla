----------------------------- MODULE WalReceiverStart -----------------------------
(***************************************************************************)
(* Where streaming begins is never behind the slot and never past the end  *)
(* of a timeline.  The third induction about WalReceiver.                  *)
(*                                                                         *)
(* What the slot has released the primary may recycle, and the receiver    *)
(* then must never ask for it again.  It would, if findStreamingStart      *)
(* found less in the directory than had been there when the slot moved:    *)
(* so the argument is about NAMES, not about the bytes AckedIsStored is    *)
(* about.  The slot enters a segment only once the segment before it has   *)
(* its final name for good, or because the receiver began there.           *)
(***************************************************************************)
EXTENDS WalReceiverProofs

USE DEF serverVars, connVars, streamVars, fileVars, ghostVars, Goto, Fault

(***************************************************************************)
(* A final name that was never fsynced can go back to *.partial when the   *)
(* power fails.  The receiver fsyncs the directory before it reports a     *)
(* completed segment, so power failures alone do no harm; but a process    *)
(* that was killed, or whose fsync failed twice, finds such a name after   *)
(* its restart, trusts it, reports from behind it, and a later power       *)
(* failure takes the name back.                                            *)
(***************************************************************************)
CrashesApart == "power" \notin Faults \/ Faults \cap {"kill", "io"} = {}

\* Either the directory can be read or the slot has a restart_lsn: see NoGapIsSilent.
WalkSafe == "walk" \notin Faults \/ SlotExists

\* A segment has its final name for good.
Done(p, u) == u \/ (p.st = "renamed" /\ "power" \notin Faults)

\* Streaming has reached segment s: it began there, or the segment before it is done.
Reach(pa, fu, b, s) ==
    s <= Seg(b) \/ \E f \in Files : Done(pa[f], fu[f]) /\ s <= f[2] + 1

R(s) == Reach(part, full, base, s)

InStream == pc \in Streaming \cup {"history", "start"}

\* How far the stream is.
Cursor == IF pc \in {"history", "start"} THEN startPos ELSE blockPos

-----------------------------------------------------------------------------
(***************************************************************************)
(* The inductive invariant.                                                *)
(***************************************************************************)
\* What the slot is told, or will be, lies between the beginning and the end of the WAL.
SlotInv ==
    /\ slot <= srvEnd /\ inflight <= srvEnd
    /\ base > 0 /\ slot > 0 => base <= slot
    /\ inflight # 0 => base <= inflight
    /\ pc \in {"connect", "slot", "exited"} => inflight = 0

\* A name in the directory is one of the primary's history: its segment was begun by its
\* own timeline, after every timeline before it had ended.
NameInv ==
    \A f \in Files : part[f].st # "none" \/ full[f] =>
        /\ base <= At(f[2]) /\ f[1] <= srvTli /\ At(f[2]) <= TimelineEnd(f[1])
        /\ \A u \in TLIs : u < f[1] => Seg(fork[u]) <= f[2]

\* The stream is on its timeline, and the slot is not ahead of its segment.
CursorInv ==
    InStream =>
        /\ base <= Cursor /\ tli <= srvTli /\ Cursor <= TimelineEnd(tli)
        /\ \A u \in TLIs : u < tli => Seg(fork[u]) <= Seg(Cursor)
        /\ slot > 0 => Seg(slot) <= Seg(Cursor)
        /\ Seg(inflight) <= Seg(Cursor) /\ Seg(lastFlush) <= Seg(Cursor)
        /\ base <= lastFlush /\ lastFlush <= srvEnd

\* Every segment that has a name, or that a position lies in, was reached.
ReachInv ==
    /\ base > 0 /\ slot > 0 => R(Seg(slot))
    /\ R(Seg(inflight))
    /\ InStream => R(Seg(lastFlush))
    /\ InStream /\ walfile.st = "nil" /\ pc # "closesync" => R(Seg(Cursor))
    /\ HasFile => R(walfile.f[2])
    /\ \A f \in Files : part[f].st # "none" => R(f[2])

\* Where the power may fail, a name is final without the fsync only in between the two.
RenameInv ==
    "power" \in Faults => \A f \in Files : part[f].st = "renamed" => pc = "closesync"

(***************************************************************************)
(* The five together: whatever has let the slot move stays to be found by  *)
(* findStreamingStart, also over power failures between any two calls.     *)
(***************************************************************************)
StartInv == SlotInv /\ NameInv /\ CursorInv /\ ReachInv /\ RenameInv

-----------------------------------------------------------------------------
(***************************************************************************)
(* Numbers.                                                                *)
(***************************************************************************)
\* The order of positions is the order of their segments.
LEMMA SegMono ==
    ASSUME NEW x \in Nat, NEW y \in Nat, x <= y
    PROVE  Seg(x) \in Nat /\ Seg(y) \in Nat /\ Seg(x) <= Seg(y)
<1>1. /\ x = At(Seg(x)) + Off(x) /\ Seg(x) \in Nat /\ Off(x) \in 0..(WalSegSz - 1)
      /\ Seg(y) \in Nat
  BY SegOff
<1>2. At(Seg(x)) \in Nat
  BY <1>1, AtType
<1>3. At(Seg(x)) <= y
  BY <1>1, <1>2, ConstantsAssumption
<1> QED
  BY <1>1, <1>3, SegOrder

\* A position and the start of its segment are in the same segment.
LEMMA SegOfStart ==
    ASSUME NEW x \in Nat
    PROVE  Seg(SegStart(x)) = Seg(x) /\ SegStart(x) \in Nat
  BY SegOff, SegOfAt, AtType

\* The types the arithmetic needs.
LEMMA Numbers ==
    ASSUME TypeOK
    PROVE  /\ slot \in Int /\ (slot > 0 => slot \in Nat) /\ inflight \in Nat
           /\ lastFlush \in Nat /\ startPos \in Nat /\ blockPos \in Nat /\ Cursor \in Nat
           /\ base \in Nat /\ srvEnd \in Nat /\ sent \in Nat
           /\ srvTli \in Int /\ tli \in Int /\ tli \in TLIs /\ srvTli \in TLIs
           /\ \A t \in TLIs : t \in Int /\ fork[t] \in Nat /\ TimelineEnd(t) \in Nat
  BY ConstantsAssumption DEF TypeOK, LSNs, TLIs, NoSlot, Cursor, TimelineEnd

\* The same after a step.
LEMMA NumbersNext ==
    ASSUME TypeOK'
    PROVE  /\ slot' \in Int /\ (slot' > 0 => slot' \in Nat) /\ inflight' \in Nat
           /\ lastFlush' \in Nat /\ startPos' \in Nat /\ blockPos' \in Nat /\ Cursor' \in Nat
           /\ base' \in Nat /\ srvEnd' \in Nat
           /\ srvTli' \in Int /\ tli' \in Int /\ tli' \in TLIs /\ srvTli' \in TLIs
           /\ \A t \in TLIs : t \in Int /\ fork'[t] \in Nat /\ TimelineEnd(t)' \in Nat
<1>0. /\ slot' \in LSNs \cup {NoSlot} /\ inflight' \in LSNs /\ lastFlush' \in LSNs
      /\ startPos' \in LSNs /\ blockPos' \in LSNs /\ base' \in LSNs /\ srvEnd' \in LSNs
      /\ srvTli' \in TLIs /\ tli' \in TLIs /\ fork' \in [TLIs -> LSNs]
  BY DEF TypeOK
<1>1. /\ slot' \in Int /\ (slot' > 0 => slot' \in Nat) /\ inflight' \in Nat
      /\ lastFlush' \in Nat /\ startPos' \in Nat /\ blockPos' \in Nat
      /\ base' \in Nat /\ srvEnd' \in Nat
      /\ srvTli' \in Int /\ tli' \in Int /\ tli' \in TLIs /\ srvTli' \in TLIs
  BY <1>0, ConstantsAssumption DEF LSNs, TLIs, NoSlot
<1>2. Cursor' \in Nat
  BY <1>1 DEF Cursor
<1>3. ASSUME NEW t \in TLIs
      PROVE  t \in Int /\ fork'[t] \in Nat /\ TimelineEnd(t)' \in Nat
  <2>1. t \in Int /\ fork'[t] \in Nat
    BY <1>0, ConstantsAssumption DEF LSNs, TLIs
  <2> QED
    BY <1>1, <2>1 DEF TimelineEnd
<1> QED
  BY <1>1, <1>2, <1>3

\* A file's segment is a number.
LEMMA FileNumbers ==
    ASSUME NEW f \in Files
    PROVE  f[1] \in TLIs /\ f[1] \in Int /\ f[2] \in Nat /\ At(f[2]) \in Nat
           /\ At(f[2] + 1) = At(f[2]) + WalSegSz
<1>1. f[1] \in TLIs /\ f[2] \in Segs
  BY DEF Files
<1>2. f[2] \in Nat
  BY <1>1, AtInLSNs
<1> QED
  BY <1>1, <1>2, AtType, ConstantsAssumption DEF TLIs

-----------------------------------------------------------------------------
(***************************************************************************)
(* Frames.                                                                 *)
(***************************************************************************)
\* A step of the disk that takes no final name back and shows no new name.
Tidy(pa, fu, pb, fv) ==
    \A f \in Files :
        /\ Done(pa[f], fu[f]) => Done(pb[f], fv[f])
        /\ pb[f].st # "none" => pa[f].st # "none"
        /\ fv[f] => fu[f] \/ pa[f].st # "none"

\* What was reached stays reached, as long as the beginning does not move back.
LEMMA ReachKept ==
    ASSUME NEW pa, NEW fu, NEW pb, NEW fv, NEW b \in Nat, NEW c \in Nat, NEW s \in Int,
           \A f \in Files : Done(pa[f], fu[f]) => Done(pb[f], fv[f]), b <= c,
           Reach(pa, fu, b, s)
    PROVE  Reach(pb, fv, c, s)
<1>1. Seg(b) \in Nat /\ Seg(c) \in Nat /\ Seg(b) <= Seg(c)
  BY SegMono
<1> QED
  BY <1>1 DEF Reach

\* So do the segments below.
LEMMA ReachBelow ==
    ASSUME NEW pa, NEW fu, NEW b \in Nat, NEW s \in Int, NEW r \in Int, r <= s,
           Reach(pa, fu, b, s)
    PROVE  Reach(pa, fu, b, r)
<1>1. Seg(b) \in Nat
  BY SegMono
<1>2. CASE s <= Seg(b)
  BY <1>1, <1>2 DEF Reach
<1>3. CASE \E f \in Files : Done(pa[f], fu[f]) /\ s <= f[2] + 1
  <2>1. PICK f \in Files : Done(pa[f], fu[f]) /\ s <= f[2] + 1
    BY <1>3
  <2>2. r <= f[2] + 1
    BY <2>1, FileNumbers
  <2> QED
    BY <2>1, <2>2 DEF Reach
<1> QED
  BY <1>2, <1>3 DEF Reach

\* Mild steps that keep final names are tidy.
LEMMA MildIsTidy ==
    ASSUME NEW pa, NEW fu, NEW pb, NEW fv, Disk(pa, fu), Mild(pa, fu, pb, fv),
           \A f \in Files : pa[f].st = "renamed" /\ "power" \notin Faults =>
               fv[f] \/ pb[f].st = "renamed"
    PROVE  Tidy(pa, fu, pb, fv)
<1>1. SUFFICES ASSUME NEW f \in Files
      PROVE  /\ Done(pa[f], fu[f]) => Done(pb[f], fv[f])
             /\ pb[f].st # "none" => pa[f].st # "none"
             /\ fv[f] => fu[f] \/ pa[f].st # "none"
  BY DEF Tidy
<1>2. MildFile(pa[f], fu[f], pb[f], fv[f])
  BY DEF Mild
<1> QED
  BY <1>2 DEF MildFile, CalmFile, Done

LEMMA StillIsTidy ==
    ASSUME UNCHANGED <<part, full>>
    PROVE  Tidy(part, full, part', full')
  BY DEF Tidy

\* What a tidy step leaves of the names.
LEMMA TidyKeeps ==
    ASSUME ShapeInv, TypeOK', StartInv, Tidy(part, full, part', full'),
           UNCHANGED <<srvTli, srvEnd, fork, base>>
    PROVE  /\ NameInv'
           /\ \A s \in Int : R(s) => Reach(part', full', base', s)
           /\ \A f \in Files : part'[f].st # "none" => Reach(part', full', base', f[2])
<1>1. NameInv'
  <2>1. SUFFICES ASSUME NEW f \in Files, part'[f].st # "none" \/ full'[f]
        PROVE  /\ base' <= At(f[2]) /\ f[1] <= srvTli' /\ At(f[2]) <= TimelineEnd(f[1])'
               /\ \A u \in TLIs : u < f[1] => Seg(fork'[u]) <= f[2]
    BY DEF NameInv
  <2>2. part[f].st # "none" \/ full[f]
    BY <2>1 DEF Tidy
  <2>3. TimelineEnd(f[1])' = TimelineEnd(f[1])
    BY DEF TimelineEnd
  <2> QED
    BY <2>2, <2>3 DEF StartInv, NameInv
<1>2. ASSUME NEW s \in Int, R(s) PROVE Reach(part', full', base', s)
  <2>1. base \in Nat /\ base' \in Nat /\ base <= base'
    BY Numbers DEF ShapeInv
  <2>2. \A f \in Files : Done(part[f], full[f]) => Done(part'[f], full'[f])
    BY DEF Tidy
  <2> QED
    BY <1>2, <2>1, <2>2, ReachKept DEF R
<1>3. ASSUME NEW f \in Files, part'[f].st # "none"
      PROVE  Reach(part', full', base', f[2])
  <2>1. part[f].st # "none" /\ f[2] \in Int
    BY <1>3, FileNumbers DEF Tidy
  <2>2. R(f[2])
    BY <2>1 DEF StartInv, ReachInv
  <2> QED
    BY <1>2, <2>1, <2>2
<1> QED
  BY <1>1, <1>2, <1>3

(***************************************************************************)
(* The stream goes on, or ends, without a new name, a new flush position   *)
(* or a new place to start: most steps are of this kind.                   *)
(***************************************************************************)
LEMMA GoesOn ==
    ASSUME ShapeInv, TypeOK', StartInv, Tidy(part, full, part', full'),
           UNCHANGED <<srvTli, srvEnd, fork, base>>,
           slot' = slot \/ (inflight # 0 /\ slot' = inflight),
           inflight' \in {inflight, 0},
           pc' \in {"connect", "slot", "exited"} => inflight' = 0,
           InStream' => /\ InStream /\ tli' = tli /\ lastFlush' = lastFlush
                        /\ Cursor <= Cursor' /\ Cursor' <= TimelineEnd(tli),
           InStream' /\ walfile'.st = "nil" /\ pc' # "closesync" =>
               walfile.st = "nil" /\ pc # "closesync" /\ Cursor' = Cursor,
           HasFile' => HasFile /\ walfile'.f = walfile.f,
           RenameInv'
    PROVE  StartInv'
<1>n. /\ slot \in Int /\ (slot > 0 => slot \in Nat) /\ inflight \in Nat
      /\ lastFlush \in Nat /\ Cursor \in Nat /\ base \in Nat /\ srvEnd \in Nat
      /\ Cursor' \in Nat /\ tli \in TLIs
  BY Numbers, NumbersNext DEF ShapeInv
<1>k. /\ NameInv'
      /\ \A s \in Int : R(s) => Reach(part', full', base', s)
      /\ \A f \in Files : part'[f].st # "none" => Reach(part', full', base', f[2])
  BY TidyKeeps
<1>1. SlotInv'
  BY <1>n DEF StartInv, SlotInv
<1>2. CursorInv'
  <2>1. SUFFICES ASSUME InStream'
        PROVE  /\ base <= Cursor' /\ tli <= srvTli /\ Cursor' <= TimelineEnd(tli)
               /\ \A u \in TLIs : u < tli => Seg(fork[u]) <= Seg(Cursor')
               /\ slot' > 0 => Seg(slot') <= Seg(Cursor')
               /\ Seg(inflight') <= Seg(Cursor') /\ Seg(lastFlush) <= Seg(Cursor')
               /\ base <= lastFlush /\ lastFlush <= srvEnd
    BY DEF CursorInv, TimelineEnd
  <2>2. /\ base <= Cursor /\ tli <= srvTli /\ Cursor <= TimelineEnd(tli)
        /\ \A u \in TLIs : u < tli => Seg(fork[u]) <= Seg(Cursor)
        /\ slot > 0 => Seg(slot) <= Seg(Cursor)
        /\ Seg(inflight) <= Seg(Cursor) /\ Seg(lastFlush) <= Seg(Cursor)
        /\ base <= lastFlush /\ lastFlush <= srvEnd
    BY <2>1 DEF StartInv, CursorInv
  <2>3. Seg(Cursor) <= Seg(Cursor') /\ Seg(Cursor) \in Nat /\ Seg(Cursor') \in Nat
    BY <1>n, <2>1, SegMono
  <2>4. /\ \A u \in TLIs : Seg(fork[u]) \in Nat
        /\ Seg(inflight) \in Nat /\ Seg(lastFlush) \in Nat /\ (slot > 0 => Seg(slot) \in Nat)
        /\ Seg(0) \in Nat /\ Seg(0) <= Seg(Cursor')
    BY <1>n, Numbers, SegMono DEF ShapeInv
  <2>5. \A u \in TLIs : u < tli => Seg(fork[u]) <= Seg(Cursor')
    BY <2>2, <2>3, <2>4
  <2>6. slot' > 0 => Seg(slot') <= Seg(Cursor')
    BY <1>n, <2>2, <2>3, <2>4
  <2>7. Seg(inflight') <= Seg(Cursor') /\ Seg(lastFlush) <= Seg(Cursor')
    BY <2>2, <2>3, <2>4
  <2> QED
    BY <1>n, <2>1, <2>2, <2>5, <2>6, <2>7
<1>3. ReachInv'
  <2>1. /\ Seg(inflight) \in Int /\ Seg(lastFlush) \in Int /\ (slot > 0 => Seg(slot) \in Int)
        /\ Seg(0) \in Int /\ Seg(base) \in Int /\ Seg(0) <= Seg(base) /\ Seg(Cursor) \in Int
    BY <1>n, SegMono
  <2>2. walfile.f[2] \in Int
    BY CurrentFileIsFile, FileNumbers DEF ShapeInv
  <2>3. /\ base > 0 /\ slot > 0 => R(Seg(slot))
        /\ R(Seg(inflight)) /\ R(Seg(0))
        /\ InStream => R(Seg(lastFlush))
        /\ InStream /\ walfile.st = "nil" /\ pc # "closesync" => R(Seg(Cursor))
        /\ HasFile => R(walfile.f[2])
    BY <2>1 DEF StartInv, ReachInv, R, Reach
  <2>4. base' > 0 /\ slot' > 0 => Reach(part', full', base', Seg(slot'))
    BY <1>n, <1>k, <2>1, <2>3
  <2>5. Reach(part', full', base', Seg(inflight'))
    BY <1>k, <2>1, <2>3
  <2>6. InStream' => Reach(part', full', base', Seg(lastFlush'))
    BY <1>k, <2>1, <2>3
  <2>7. InStream' /\ walfile'.st = "nil" /\ pc' # "closesync" =>
          Reach(part', full', base', Seg(Cursor'))
    BY <1>k, <2>1, <2>3
  <2>8. HasFile' => Reach(part', full', base', walfile'.f[2])
    BY <1>k, <2>2, <2>3
  <2> QED
    BY <1>k, <2>4, <2>5, <2>6, <2>7, <2>8 DEF ReachInv, R
<1> QED
  BY <1>1, <1>2, <1>3, <1>k DEF StartInv

\* The same when the disk and the stream's place do not change either.
LEMMA StaysPut ==
    ASSUME ShapeInv, TypeOK', StartInv,
           UNCHANGED <<srvTli, srvEnd, fork, base, part, full>>,
           slot' = slot \/ (inflight # 0 /\ slot' = inflight),
           inflight' \in {inflight, 0},
           pc' \in {"connect", "slot", "exited"} => inflight' = 0,
           InStream' => InStream /\ tli' = tli /\ lastFlush' = lastFlush /\ Cursor' = Cursor,
           InStream' /\ walfile'.st = "nil" /\ pc' # "closesync" =>
               walfile.st = "nil" /\ pc # "closesync",
           HasFile' => HasFile /\ walfile'.f = walfile.f,
           pc = "closesync" => pc' = "closesync" \/ "power" \notin Faults
    PROVE  StartInv'
<1>1. Tidy(part, full, part', full')
  BY StillIsTidy
<1>2. RenameInv'
  BY DEF StartInv, RenameInv
<1>3. InStream' => Cursor <= Cursor' /\ Cursor' <= TimelineEnd(tli)
  BY Numbers DEF ShapeInv, StartInv, CursorInv
<1> QED
  BY <1>1, <1>2, <1>3, GoesOn

-----------------------------------------------------------------------------
(***************************************************************************)
(* Steps that leave the disk alone.                                        *)
(***************************************************************************)
\* Steps of the primary, and of the environment, that only the slot may notice.
LEMMA StartUnnoticed ==
    ASSUME ShapeInv, TypeOK', StartInv, Recycle \/ ApplyFeedback \/ Cancel \/ UNCHANGED vars
    PROVE  StartInv'
<1>1. /\ UNCHANGED <<srvTli, srvEnd, fork, base, part, full, pc, walfile, tli, lastFlush,
                     startPos, blockPos>>
      /\ slot' = slot \/ (inflight # 0 /\ slot' = inflight)
      /\ inflight' \in {inflight, 0}
  BY DEF Recycle, ApplyFeedback, Cancel, vars
<1>2. pc' \in {"connect", "slot", "exited"} => inflight' = 0
  BY <1>1 DEF StartInv, SlotInv
<1>3. InStream' = InStream /\ Cursor' = Cursor /\ HasFile' = HasFile
  BY <1>1 DEF InStream, Cursor, HasFile
<1> QED
  BY <1>1, <1>2, <1>3, StaysPut

\* The receiver's steps outside the copy stream.
LEMMA StartOutside ==
    ASSUME ShapeInv, TypeOK', StartInv,
           Connect \/ CloseOnError \/ CancelledBeforeStream \/ Restart
    PROVE  StartInv'
<1>1. /\ UNCHANGED <<srvTli, srvEnd, fork, base, part, full, slot>>
      /\ inflight' \in {inflight, 0}
      /\ pc' \in {"connect", "slot", "exited"} => inflight' = 0
      /\ pc # "closesync" /\ pc' \in {"connect", "slot", "exited", "failsync", "ended"}
  BY DEF Connect, CloseOnError, CancelledBeforeStream, Restart, StartInv, SlotInv
<1>2. ~InStream' /\ ~HasFile'
  BY <1>1 DEF InStream, Streaming, HasFile
<1> QED
  BY <1>1, <1>2, StaysPut

\* The same for what goes wrong.
LEMMA StartFailure ==
    ASSUME ShapeInv, CrashesApart, TypeOK', StartInv,
           IOError \/ SyncOnErrorFails \/ EndStreamFails \/ ConnectionLost \/ Kill
    PROVE  StartInv'
<1>1. /\ UNCHANGED <<srvTli, srvEnd, fork, base, part, full>>
      /\ slot' = slot \/ (inflight # 0 /\ slot' = inflight)
      /\ inflight' \in {inflight, 0}
      /\ pc' \in {"connect", "slot", "exited"} => inflight' = 0
  BY DEF IOError, SyncOnErrorFails, EndStreamFails, ConnectionLost, Kill, ProcessGone,
     Delivered
<1>2. pc' \in {"exited", "slot", "fail", "ended"}
  BY DEF IOError, SyncOnErrorFails, EndStreamFails, ConnectionLost, Kill, ProcessGone
<1>3. ~InStream' /\ ~HasFile'
  BY <1>2 DEF InStream, Streaming, HasFile
<1>4. pc = "closesync" => "power" \notin Faults
  BY DEF IOError, SyncOnErrorFails, EndStreamFails, ConnectionLost, Kill, CrashesApart
<1> QED
  BY <1>1, <1>3, <1>4, StaysPut

\* The steps of a stream between its start and the next flush.
LEMMA StartCopy ==
    ASSUME ShapeInv, TypeOK', StartInv,
           FetchHistory \/ LoopIdle \/ ReceiveTimeout \/ ReceiveCopyDone \/ ServerShutdown
           \/ FindWalFile
    PROVE  StartInv'
<1>1. /\ UNCHANGED <<srvTli, srvEnd, fork, base, part, full, slot, inflight, walfile, tli,
                     lastFlush, startPos, blockPos>>
      /\ pc \in {"history", "loop", "recv", "data"}
      /\ IF pc = "history" THEN pc' = "start"
         ELSE pc' \in {"fail", "loop", "recv", "reopen", "close", "copydone"}
  BY DEF FetchHistory, LoopIdle, AfterTop, ReceiveTimeout, ReceiveCopyDone, ServerShutdown,
     EndOfCopy, FindWalFile
<1>2. InStream /\ (InStream' => Cursor' = Cursor)
  BY <1>1 DEF InStream, Streaming, Cursor
<1>3. HasFile' => HasFile
  BY <1>1 DEF HasFile
<1> QED
  BY <1>1, <1>2, <1>3, StaysPut

\* The copy stream begins at the position asked for.
LEMMA StartStartReplication ==
    ASSUME ShapeInv, TypeOK', StartInv, StartReplication
    PROVE  StartInv'
<1>1. /\ UNCHANGED <<srvTli, srvEnd, fork, base, part, full, slot, inflight, walfile, tli,
                     lastFlush>>
      /\ pc = "start" /\ pc' \in {"loop", "ended"}
      /\ pc' = "loop" => blockPos' = startPos
  BY DEF StartReplication
<1>2. InStream /\ (InStream' => Cursor' = Cursor) /\ walfile.st = "nil"
  BY <1>1 DEF InStream, Streaming, Cursor, ShapeInv, PosInv
<1>3. ~HasFile'
  BY <1>1, <1>2 DEF HasFile
<1> QED
  BY <1>1, <1>2, <1>3, StaysPut

\* A message begins where the last one ended.
LEMMA StartReceiveXLogData ==
    ASSUME ShapeInv, TypeOK', StartInv, ReceiveXLogData
    PROVE  StartInv'
<1>1. /\ UNCHANGED <<srvTli, srvEnd, fork, base, part, full, slot, inflight, walfile, tli,
                     lastFlush>>
      /\ pc = "recv" /\ pc' \in {"fail", "data"} /\ blockPos' = sent
  BY DEF ReceiveXLogData
<1>2. sent = blockPos
  BY <1>1, Numbers DEF ShapeInv, PosInv, MsgInv, Streaming
<1>3. InStream /\ (InStream' => Cursor' = Cursor) /\ (HasFile' => HasFile)
  BY <1>1, <1>2 DEF InStream, Streaming, Cursor, HasFile
<1> QED
  BY <1>1, <1>3, StaysPut

\* The file is opened where the stream is.
LEMMA StartAssignWalFile ==
    ASSUME ShapeInv, TypeOK', StartInv, AssignWalFile
    PROVE  StartInv'
<1>1. /\ UNCHANGED <<srvTli, srvEnd, fork, base, part, full, slot, inflight, tli, lastFlush,
                     blockPos>>
      /\ pc = "assign" /\ pc' = "data" /\ walfile' = [st |-> "open", f |-> CurrentFile, pos |-> 0]
  BY DEF AssignWalFile
<1>2. /\ walfile.st = "nil" /\ InStream /\ InStream' /\ Cursor' = Cursor /\ Cursor = blockPos
      /\ walfile'.st = "open" /\ walfile'.f[2] = Seg(Cursor)
  BY <1>1 DEF InStream, Streaming, Cursor, ShapeInv, PosInv, CurrentFile
<1>3. R(Seg(Cursor))
  BY <1>1, <1>2 DEF StartInv, ReachInv
<1>4. SlotInv' /\ NameInv' /\ RenameInv'
  BY <1>1 DEF StartInv, SlotInv, NameInv, RenameInv, TimelineEnd
<1>5. CursorInv'
  BY <1>1, <1>2 DEF StartInv, CursorInv, TimelineEnd
<1>6. ReachInv'
  BY <1>1, <1>2, <1>3 DEF StartInv, ReachInv, R
<1> QED
  BY <1>4, <1>5, <1>6 DEF StartInv

-----------------------------------------------------------------------------
(***************************************************************************)
(* The primary's history.                                                  *)
(***************************************************************************)
\* Timelines may grow and end where they are.
LEMMA StartHistory ==
    ASSUME ShapeInv, TypeOK', StartInv,
           UNCHANGED <<part, full, base, pc, walfile, slot, inflight, tli, lastFlush, startPos,
                       blockPos>>,
           srvTli <= srvTli', srvEnd <= srvEnd',
           \A t \in TLIs : t <= srvTli => TimelineEnd(t) <= TimelineEnd(t)',
           \A t \in TLIs : t < srvTli => fork'[t] = fork[t]
    PROVE  StartInv'
<1>n. /\ slot \in Int /\ inflight \in Nat /\ lastFlush \in Nat /\ Cursor \in Nat
      /\ base \in Nat /\ srvEnd \in Nat /\ srvEnd' \in Nat
      /\ srvTli \in Int /\ srvTli' \in Int /\ tli \in TLIs
      /\ \A t \in TLIs : t \in Int /\ TimelineEnd(t) \in Nat /\ TimelineEnd(t)' \in Nat
  BY Numbers, NumbersNext DEF ShapeInv
<1>1. InStream' = InStream /\ Cursor' = Cursor /\ HasFile' = HasFile
  BY DEF InStream, Cursor, HasFile
<1>2. SlotInv'
  BY <1>n DEF StartInv, SlotInv
<1>3. NameInv'
  <2>1. SUFFICES ASSUME NEW f \in Files, part[f].st # "none" \/ full[f]
        PROVE  /\ base <= At(f[2]) /\ f[1] <= srvTli' /\ At(f[2]) <= TimelineEnd(f[1])'
               /\ \A u \in TLIs : u < f[1] => Seg(fork'[u]) <= f[2]
    BY DEF NameInv
  <2>2. /\ base <= At(f[2]) /\ f[1] <= srvTli /\ At(f[2]) <= TimelineEnd(f[1])
        /\ \A u \in TLIs : u < f[1] => Seg(fork[u]) <= f[2]
    BY <2>1 DEF StartInv, NameInv
  <2>3. f[1] \in TLIs /\ f[1] \in Int /\ At(f[2]) \in Nat
    BY FileNumbers
  <2>4. \A u \in TLIs : u < f[1] => u < srvTli
    BY <1>n, <2>2, <2>3
  <2>5. TimelineEnd(f[1]) <= TimelineEnd(f[1])'
    BY <2>2, <2>3
  <2>6. At(f[2]) <= TimelineEnd(f[1])'
    BY <1>n, <2>2, <2>3, <2>5
  <2> QED
    BY <1>n, <2>2, <2>3, <2>4, <2>6
<1>4. CursorInv'
  <2>1. SUFFICES ASSUME InStream
        PROVE  /\ base <= Cursor /\ tli <= srvTli' /\ Cursor <= TimelineEnd(tli)'
               /\ \A u \in TLIs : u < tli => Seg(fork'[u]) <= Seg(Cursor)
               /\ slot > 0 => Seg(slot) <= Seg(Cursor)
               /\ Seg(inflight) <= Seg(Cursor) /\ Seg(lastFlush) <= Seg(Cursor)
               /\ base <= lastFlush /\ lastFlush <= srvEnd'
    BY <1>1 DEF CursorInv, TimelineEnd
  <2>2. /\ base <= Cursor /\ tli <= srvTli /\ Cursor <= TimelineEnd(tli)
        /\ \A u \in TLIs : u < tli => Seg(fork[u]) <= Seg(Cursor)
        /\ slot > 0 => Seg(slot) <= Seg(Cursor)
        /\ Seg(inflight) <= Seg(Cursor) /\ Seg(lastFlush) <= Seg(Cursor)
        /\ base <= lastFlush /\ lastFlush <= srvEnd
    BY <2>1 DEF StartInv, CursorInv
  <2>3. \A u \in TLIs : u < tli => u < srvTli
    BY <1>n, <2>2
  <2>4. TimelineEnd(tli) <= TimelineEnd(tli)'
    BY <1>n, <2>2
  <2>5. Cursor <= TimelineEnd(tli)'
    BY <1>n, <2>2, <2>4
  <2> QED
    BY <1>n, <2>2, <2>3, <2>5
<1>5. ReachInv' /\ RenameInv'
  BY <1>1 DEF StartInv, ReachInv, RenameInv, R
<1> QED
  BY <1>2, <1>3, <1>4, <1>5 DEF StartInv

LEMMA StartServer ==
    ASSUME SoundFaults, ShapeInv, TypeOK', StartInv, ServerWrite \/ Promote
    PROVE  StartInv'
<1>1. UNCHANGED <<part, full, base, pc, walfile, slot, inflight, tli, lastFlush, startPos,
                  blockPos>>
  BY DEF ServerWrite, Promote
<1>n. /\ srvEnd \in Nat /\ srvTli \in Int
      /\ \A t \in TLIs : t \in Int /\ fork[t] \in Nat
  BY Numbers DEF ShapeInv
<1>2. CASE ServerWrite
  <2>1. srvTli' = srvTli /\ srvEnd' = srvEnd + 1 /\ fork' = fork
    BY <1>2 DEF ServerWrite
  <2>2. \A t \in TLIs : TimelineEnd(t) <= TimelineEnd(t)'
    BY <1>n, <2>1 DEF TimelineEnd
  <2> QED
    BY <1>1, <1>n, <2>1, <2>2, StartHistory
<1>3. CASE Promote
  <2>1. srvTli' = srvTli + 1 /\ srvEnd' = srvEnd /\ fork' = [fork EXCEPT ![srvTli] = srvEnd]
    BY <1>3 DEF Promote, SoundFaults
  <2>2. \A t \in TLIs : fork'[t] = IF t = srvTli THEN srvEnd ELSE fork[t]
    BY <2>1 DEF ShapeInv, TypeOK
  <2>3. \A t \in TLIs : t <= srvTli => TimelineEnd(t) <= TimelineEnd(t)'
    BY <1>n, <2>1, <2>2 DEF TimelineEnd
  <2>4. \A t \in TLIs : t < srvTli => fork'[t] = fork[t]
    BY <1>n, <2>2
  <2> QED
    BY <1>1, <1>n, <2>1, <2>3, <2>4, StartHistory
<1> QED
  BY <1>2, <1>3

-----------------------------------------------------------------------------
(***************************************************************************)
(* What the operations on the directory do to the names.                   *)
(***************************************************************************)
\* fsync of a *.partial changes no name.
LEMMA FsyncIsTidy ==
    ASSUME SoundFaults, ShapeInv, NEW f \in Files,
           part' = [part EXCEPT ![f] = FsyncedPart(@)], full' = full
    PROVE  /\ Tidy(part, full, part', full')
           /\ \A g \in Files : part'[g].st = "renamed" <=> part[g].st = "renamed"
<1>1. Mild(part, full, part', full')
  BY SyncIsCalm
<1>2. \A g \in Files : part'[g].st = "renamed" <=> part[g].st = "renamed"
  BY SyncedFields
<1> QED
  BY <1>1, <1>2, ShapeDisk, MildIsTidy

\* fsync of the directory makes every final name one for good.
LEMMA DirSyncIsTidy ==
    ASSUME NEW mid, Disk(mid, full), FsyncDir(mid)
    PROVE  /\ Tidy(mid, full, part', full')
           /\ \A f \in Files : part'[f].st # "renamed"
           /\ \A f \in Files : mid[f].st = "renamed" => full'[f]
<1>1. /\ part' = [f \in Files |-> DirSyncedPart(mid[f])]
      /\ full' = [f \in Files |-> full[f] \/ mid[f].st = "renamed"]
  BY DEF FsyncDir
<1>2. Mild(mid, full, part', full')
  BY <1>1, DirSyncIsMild
<1>3. \A f \in Files : mid[f].st = "renamed" => full'[f]
  BY <1>1
<1>4. ASSUME NEW f \in Files PROVE part'[f].st # "renamed"
  <2>1. mid[f] \in Part /\ full[f] \in BOOLEAN /\ PartOK(mid[f])
    BY DEF Disk
  <2> QED
    BY <1>1, <2>1, DirSyncedFile
<1> QED
  BY <1>2, <1>3, <1>4, MildIsTidy

\* The two in a row, as FsyncFnameAndDir does them.
LEMMA FsyncBothIsTidy ==
    ASSUME SoundFaults, ShapeInv, NEW f \in Files,
           FsyncDir([part EXCEPT ![f] = FsyncedPart(@)])
    PROVE  /\ Tidy(part, full, part', full')
           /\ \A g \in Files : part'[g].st # "renamed"
           /\ \A g \in Files : part[g].st = "renamed" => full'[g]
<1> DEFINE mid == [part EXCEPT ![f] = FsyncedPart(@)]
<1>1. Disk(part, full) /\ Mild(part, full, mid, full)
  BY ShapeDisk, FsyncIsMild
<1>2. Disk(mid, full)
  BY <1>1, MildIsCalm, CalmDisk
<1>3. \A g \in Files : part[g].st = "renamed" <=> mid[g].st = "renamed"
  BY SyncedFields
<1>4. FsyncDir(mid)
  OBVIOUS
<1> HIDE DEF mid
<1>5. Tidy(part, full, mid, full)
  BY <1>1, <1>3, MildIsTidy
<1>6. /\ Tidy(mid, full, part', full')
      /\ \A g \in Files : part'[g].st # "renamed"
      /\ \A g \in Files : mid[g].st = "renamed" => full'[g]
  BY <1>2, <1>4, DirSyncIsTidy
<1>7. Tidy(part, full, part', full')
  BY <1>5, <1>6 DEF Tidy
<1> QED
  BY <1>3, <1>6, <1>7

\* A power failure leaves no name in between.
LEMMA PowerIsTidy ==
    ASSUME ShapeInv, PowerFailure
    PROVE  /\ Tidy(part, full, part', full')
           /\ \A f \in Files : part'[f].st # "renamed"
<1>1. Mild(part, full, part', full') /\ "power" \in Faults
  BY PowerIsCalm DEF PowerFailure
<1>2. Tidy(part, full, part', full')
  BY <1>1, ShapeDisk, MildIsTidy
<1>3. PICK kept \in SUBSET Volatile, cut \in 0..WalSegSz :
        part' = [f \in Files |-> PoweredPart(part[f], f \in kept, cut)]
  BY DEF PowerFailure
<1>4. ASSUME NEW f \in Files PROVE part'[f].st # "renamed"
  <2>1. part[f] \in Part /\ part[f].st \in PartStates
    BY DEF ShapeInv, TypeOK, Part
  <2>2. part'[f] = PoweredPart(part[f], f \in kept, cut)
    BY <1>3
  <2>3. CASE part[f].st = "none"
    BY <2>2, <2>3 DEF PoweredPart, NoPart
  <2>4. CASE part[f].st = "renamed"
    <3>1. part'[f] = NoPart \/ part'[f] = [part[f] EXCEPT !.st = "synced"]
      BY <2>2, <2>4 DEF PoweredPart
    <3>2. "synced" \in PartStates
      BY DEF PartStates
    <3>3. [part[f] EXCEPT !.st = "synced"].st = "synced"
      BY <2>1, <3>2, PartWithState
    <3>4. NoPart.st = "none"
      BY DEF NoPart
    <3>5. part'[f].st \in {"none", "synced"}
      BY <3>1, <3>3, <3>4, Zenon
    <3> QED
      BY <3>5
  <2>5. CASE part[f].st \notin {"none", "renamed"}
    BY <2>2, <2>5 DEF PoweredPart, NoPart
  <2> QED
    BY <2>3, <2>4, <2>5
<1> QED
  BY <1>2, <1>4

-----------------------------------------------------------------------------
(***************************************************************************)
(* Steps that touch the disk and show no new name.                         *)
(***************************************************************************)
\* The end of a stream, and of a machine.
LEMMA StartEnd ==
    ASSUME SoundFaults, ShapeInv, TypeOK', StartInv, SyncOnError \/ EndStream \/ PowerFailure
    PROVE  StartInv'
<1>1. /\ UNCHANGED <<srvTli, srvEnd, fork, base>>
      /\ slot' = slot \/ (inflight # 0 /\ slot' = inflight)
      /\ inflight' \in {inflight, 0}
      /\ pc' \in {"connect", "slot", "exited"} => inflight' = 0
      /\ pc' \in {"connect", "exited", "ended"}
  BY DEF SyncOnError, EndStream, PowerFailure, ProcessGone, Delivered
<1>2. ~InStream' /\ ~HasFile'
  BY <1>1 DEF InStream, Streaming, HasFile
<1>3. Tidy(part, full, part', full') /\ RenameInv'
  <2>1. CASE SyncOnError /\ part[walfile.f].st = "none"
    <3>1. UNCHANGED <<part, full>> /\ pc = "failsync"
      BY <2>1 DEF SyncOnError
    <3>2. RenameInv'
      BY <3>1 DEF StartInv, RenameInv
    <3> QED
      BY <3>1, <3>2, StillIsTidy
  <2>2. CASE SyncOnError /\ part[walfile.f].st # "none"
    <3>1. walfile.f \in Files
      BY CurrentFileIsFile DEF ShapeInv
    <3> QED
      BY <2>2, <3>1, FsyncBothIsTidy DEF SyncOnError, RenameInv
  <2>3. CASE EndStream
    BY <2>3, ShapeDisk, DirSyncIsTidy DEF EndStream, RenameInv
  <2>4. CASE PowerFailure
    BY <2>4, PowerIsTidy DEF RenameInv
  <2> QED
    BY <2>1, <2>2, <2>3, <2>4
<1> QED
  BY <1>1, <1>2, <1>3, GoesOn

\* OpenWalFile pads a new file, or fsyncs one it finds.
LEMMA StartOpenWalFile ==
    ASSUME SoundFaults, ShapeInv, NamedInv, TypeOK', StartInv, TruncateWalFile \/ ReopenWalFile
    PROVE  StartInv'
<1>1. CurrentFile \in Files /\ part[CurrentFile].st # "none"
  BY CurrentFileIsFile DEF ShapeInv, NamedInv, TruncateWalFile, ReopenWalFile
<1>2. /\ UNCHANGED <<srvTli, srvEnd, fork, base, slot, inflight, tli, lastFlush, blockPos, full,
                     walfile>>
      /\ pc \in {"truncate", "reopen"} /\ pc' = "assign"
  BY <1>1 DEF TruncateWalFile, ReopenWalFile
<1>3. /\ Tidy(part, full, part', full')
      /\ \A g \in Files : part'[g].st = "renamed" => part[g].st = "renamed"
  <2>1. CASE TruncateWalFile
    <3>1. /\ part'[CurrentFile].st = "sized" /\ part[CurrentFile].st = "empty"
          /\ \A g \in Files : g # CurrentFile => part'[g] = part[g]
      BY <1>1, <2>1, TruncateIsMild
    <3> QED
      BY <1>2, <3>1 DEF Tidy, Done
  <2>2. CASE ReopenWalFile
    BY <1>1, <1>2, <2>2, FsyncIsTidy DEF ReopenWalFile
  <2> QED
    BY <2>1, <2>2
<1>4. RenameInv'
  BY <1>2, <1>3 DEF StartInv, RenameInv
<1>5. InStream /\ Cursor' = Cursor /\ ~HasFile' /\ Cursor <= TimelineEnd(tli) /\ Cursor \in Nat
  BY <1>2, Numbers DEF InStream, Streaming, Cursor, HasFile, ShapeInv, StartInv, CursorInv
<1> QED
  BY <1>2, <1>3, <1>4, <1>5, GoesOn

\* A write moves the stream within the open file.
LEMMA StartWriteWalFile ==
    ASSUME ShapeInv, ShapeInv', StartInv, WriteWalFile
    PROVE  StartInv'
<1>1. /\ walfile'.st = "open" /\ walfile'.f = walfile.f /\ walfile.f \in Files
      /\ BytesToWrite \in 1..left
      /\ \A g \in Files : part'[g].st = part[g].st
  <2>1. /\ walfile.f \in Files /\ walfile'.st = "open" /\ walfile'.f = walfile.f
        /\ BytesToWrite \in 1..left
        /\ \A g \in Files : g # walfile.f => part'[g] = part[g]
        /\ part'[walfile.f].st = part[walfile.f].st
    BY WriteFacts
  <2> QED
    BY <2>1
<1>2. /\ UNCHANGED <<srvTli, srvEnd, fork, base, slot, inflight, tli, lastFlush, full>>
      /\ pc = "data" /\ pc' \in {"close", "recv", "data"} /\ walfile.st = "open"
      /\ blockPos' = blockPos + BytesToWrite
  BY DEF WriteWalFile
<1>3. Tidy(part, full, part', full') /\ RenameInv'
  BY <1>1, <1>2 DEF Tidy, Done, StartInv, RenameInv
<1>4. InStream /\ InStream' /\ HasFile /\ Cursor = blockPos /\ Cursor' = blockPos'
  BY <1>2 DEF InStream, Streaming, HasFile, Cursor
<1>5. /\ blockPos \in Nat /\ blockPos' \in Nat /\ left' \in Nat /\ left \in Int
      /\ sent' \in Nat /\ tli \in TLIs /\ TimelineEnd(tli) \in Nat
  BY Numbers, ConstantsAssumption DEF ShapeInv, TypeOK, LSNs
<1>6. blockPos <= blockPos'
  BY <1>1, <1>2, <1>5
<1>7. blockPos' <= TimelineEnd(tli)
  <2>1. sent' = blockPos' + left' /\ sent' <= TimelineEnd(tli)'
    BY <1>4 DEF ShapeInv, PosInv, InStream, Streaming, WriteWalFile
  <2>2. TimelineEnd(tli)' = TimelineEnd(tli)
    BY <1>2 DEF TimelineEnd
  <2> QED
    BY <1>5, <2>1, <2>2
<1> QED
  BY <1>1, <1>2, <1>3, <1>4, <1>6, <1>7, GoesOn DEF ShapeInv

\* CloseWalFile up to the fsync of the directory: the file keeps its segment.
LEMMA StartCloseWalFile ==
    ASSUME SoundFaults, ShapeInv, NamedInv, TypeOK', StartInv, CloseWalFile \/ RenameWalFile
    PROVE  StartInv'
<1>1. walfile.f \in Files /\ walfile \in WalFile
  BY CurrentFileIsFile DEF ShapeInv, TypeOK
<1>2. HasFile /\ pc \in {"close", "rename"} /\ part[walfile.f].st # "none"
  BY DEF CloseWalFile, RenameWalFile, HasFile, ShapeInv, PosInv, NamedInv
<1>3. /\ UNCHANGED <<srvTli, srvEnd, fork, base, slot, inflight, tli, lastFlush, blockPos, full>>
      /\ pc' \in {"rename", "closesync"}
  BY <1>2 DEF CloseWalFile, RenameWalFile
<1>4. walfile'.f = walfile.f /\ (pc' = "rename" => walfile'.st = "closed")
  <2>1. CASE CloseWalFile
    <3>1. \/ walfile' = [walfile EXCEPT !.st = "closed"]
          \/ walfile' = [walfile EXCEPT !.st = "nil"] /\ pc' = "closesync"
      BY <2>1 DEF CloseWalFile
    <3>2. ASSUME NEW st \in {"nil", "open", "closed"}
          PROVE  [walfile EXCEPT !.st = st].f = walfile.f /\ [walfile EXCEPT !.st = st].st = st
      BY <1>1, WalFileWithState
    <3>3. CASE walfile' = [walfile EXCEPT !.st = "closed"]
      BY <3>2, <3>3, Zenon
    <3>4. CASE walfile' = [walfile EXCEPT !.st = "nil"] /\ pc' = "closesync"
      <4>1. pc' # "rename"
        BY <3>4
      <4> QED
        BY <3>2, <3>4, <4>1, Zenon
    <3> QED
      BY <3>1, <3>3, <3>4
  <2>2. CASE RenameWalFile
    BY <1>2, <2>2, RenameIsCalm
  <2> QED
    BY <2>1, <2>2
<1>5. Tidy(part, full, part', full') /\ RenameInv'
  <2>1. CASE CloseWalFile /\ walfile.pos = WalSegSz
    <3>1. /\ Tidy(part, full, part', full')
          /\ \A g \in Files : part'[g].st = "renamed" <=> part[g].st = "renamed"
      BY <1>1, <1>3, <2>1, FsyncIsTidy DEF CloseWalFile, SyncWalFile
    <3> QED
      BY <2>1, <3>1 DEF StartInv, RenameInv, CloseWalFile
  <2>2. CASE CloseWalFile /\ walfile.pos # WalSegSz
    <3>1. UNCHANGED <<part, full>> /\ pc = "close"
      BY <2>2 DEF CloseWalFile
    <3> QED
      BY <3>1, StillIsTidy DEF StartInv, RenameInv
  <2>3. CASE RenameWalFile
    <3>1. /\ part[walfile.f].st = "synced" /\ part'[walfile.f].st = "renamed"
          /\ \A g \in Files : g # walfile.f => part'[g] = part[g]
          /\ pc' = "closesync"
      BY <1>2, <2>3, RenameIsCalm
    <3> QED
      BY <1>3, <3>1 DEF Tidy, Done, RenameInv
  <2> QED
    BY <2>1, <2>2, <2>3
<1>6. InStream /\ Cursor' = Cursor /\ Cursor <= TimelineEnd(tli) /\ Cursor \in Nat
  BY <1>2, <1>3, Numbers DEF InStream, Streaming, Cursor, ShapeInv, StartInv, CursorInv
<1> QED
  BY <1>2, <1>3, <1>4, <1>5, <1>6, GoesOn

-----------------------------------------------------------------------------
(***************************************************************************)
(* Flushing and reporting.                                                 *)
(***************************************************************************)
\* No timeline ends past the end of the WAL.
LEMMA EndBelow ==
    ASSUME ShapeInv, NEW t \in TLIs, t <= srvTli
    PROVE  TimelineEnd(t) <= srvEnd
  BY Numbers DEF ShapeInv, ForkInv, TimelineEnd

\* A position within the open file has reached the file's segment.
LEMMA OpenFileReached ==
    ASSUME ShapeInv, StartInv, HasFile, walfile.pos # WalSegSz
    PROVE  Seg(blockPos) = walfile.f[2] /\ R(Seg(blockPos))
<1>1. walfile.f \in Files /\ walfile.f[2] \in Nat /\ walfile.pos \in 0..WalSegSz
  BY CurrentFileIsFile, FileNumbers DEF ShapeInv, TypeOK, WalFile
<1>2. blockPos = At(walfile.f[2]) + walfile.pos /\ walfile.pos \in 0..(WalSegSz - 1)
  BY <1>1, ConstantsAssumption DEF ShapeInv, OpenInv
<1>3. Seg(blockPos) = walfile.f[2]
  BY <1>1, <1>2, SegOfSum
<1> QED
  BY <1>3 DEF StartInv, ReachInv

\* The reported position is the one taken as flushed.
LEMMA StartReport ==
    ASSUME SoundFaults, ShapeInv, TypeOK', StartInv, LoopSync \/ LoopStatus \/ ProcessKeepalive
    PROVE  StartInv'
<1>1. /\ UNCHANGED <<srvTli, srvEnd, fork, base, slot, tli, blockPos, walfile, full>>
      /\ pc \in {"loop", "recv"} /\ pc' \in {"recv", "fail"}
      /\ inflight' = lastFlush'
      /\ \/ lastFlush' = lastFlush /\ part' = part
         \/ lastFlush' = blockPos /\ SyncWalFile /\ walfile.st = "open"
  BY DEF LoopSync, LoopStatus, ProcessKeepalive, SendFeedback, AfterTop, MustFlush
<1>n. /\ slot \in Int /\ (slot > 0 => slot \in Nat) /\ lastFlush \in Nat /\ blockPos \in Nat
      /\ base \in Nat /\ srvEnd \in Nat /\ tli \in TLIs /\ TimelineEnd(tli) \in Nat
      /\ lastFlush' \in Nat
  BY Numbers, NumbersNext DEF ShapeInv
<1>2. InStream /\ Cursor = blockPos /\ Cursor' = blockPos
  BY <1>1 DEF InStream, Streaming, Cursor
<1>3. /\ base <= blockPos /\ tli <= srvTli /\ blockPos <= TimelineEnd(tli)
      /\ \A u \in TLIs : u < tli => Seg(fork[u]) <= Seg(blockPos)
      /\ slot > 0 => Seg(slot) <= Seg(blockPos)
      /\ Seg(lastFlush) <= Seg(blockPos) /\ base <= lastFlush /\ lastFlush <= srvEnd
      /\ R(Seg(lastFlush))
  BY <1>2 DEF StartInv, CursorInv, ReachInv
<1>4. Tidy(part, full, part', full') /\ RenameInv'
  <2>1. walfile.f \in Files
    BY CurrentFileIsFile DEF ShapeInv
  <2>2. /\ Tidy(part, full, part', full')
        /\ \A g \in Files : part'[g].st = "renamed" <=> part[g].st = "renamed"
    BY <1>1, <2>1, StillIsTidy, FsyncIsTidy DEF SyncWalFile
  <2> QED
    BY <1>1, <2>2 DEF StartInv, RenameInv
<1>5. /\ Seg(lastFlush') <= Seg(blockPos) /\ Seg(lastFlush') \in Nat
      /\ base <= lastFlush' /\ lastFlush' <= srvEnd /\ R(Seg(lastFlush'))
  <2>1. CASE lastFlush' = lastFlush
    BY <1>n, <1>3, <2>1, SegMono
  <2>2. CASE lastFlush' = blockPos /\ walfile.st = "open"
    <3>1. HasFile /\ walfile.pos < WalSegSz
      BY <1>1, <2>2 DEF HasFile, ShapeInv, OpenInv
    <3>2. walfile.pos # WalSegSz
      BY <3>1, ConstantsAssumption DEF ShapeInv, TypeOK, WalFile
    <3>3. R(Seg(blockPos))
      BY <3>1, <3>2, OpenFileReached
    <3>4. TimelineEnd(tli) <= srvEnd
      BY <1>n, <1>3, EndBelow
    <3> QED
      BY <1>n, <1>3, <2>2, <3>3, <3>4, SegMono
  <2> QED
    BY <1>1, <2>1, <2>2
<1>k. /\ NameInv'
      /\ \A s \in Int : R(s) => Reach(part', full', base', s)
      /\ \A f \in Files : part'[f].st # "none" => Reach(part', full', base', f[2])
  BY <1>1, <1>4, TidyKeeps
<1>6. SlotInv'
  BY <1>1, <1>5 DEF StartInv, SlotInv
<1>7. CursorInv'
  BY <1>1, <1>2, <1>3, <1>5 DEF CursorInv, TimelineEnd
<1>8. ReachInv'
  <2>1. /\ (slot > 0 => Seg(slot) \in Int) /\ Seg(blockPos) \in Int /\ walfile.f[2] \in Int
    BY <1>n, SegMono, CurrentFileIsFile, FileNumbers DEF ShapeInv
  <2>2. base > 0 /\ slot > 0 => Reach(part', full', base', Seg(slot))
    BY <1>k, <2>1 DEF StartInv, ReachInv
  <2>3. Reach(part', full', base', Seg(lastFlush'))
    BY <1>k, <1>5
  <2>4. walfile.st = "nil" => Reach(part', full', base', Seg(blockPos))
    BY <1>1, <1>2, <1>k, <2>1 DEF StartInv, ReachInv
  <2>5. HasFile' => Reach(part', full', base', walfile.f[2])
    BY <1>1, <1>k, <2>1 DEF StartInv, ReachInv, HasFile
  <2> QED
    BY <1>1, <1>2, <1>k, <2>2, <2>3, <2>4, <2>5 DEF ReachInv, R
<1> QED
  BY <1>4, <1>k, <1>6, <1>7, <1>8 DEF StartInv

\* The fsync of the directory: the completed segment has its final name for good, and the
\* stream has reached the next one.
LEMMA StartSyncClosedFile ==
    ASSUME SoundFaults, ShapeInv, NamedInv, TypeOK', StartInv, SyncClosedFile
    PROVE  StartInv'
<1> DEFINE f == walfile.f
<1>1. f \in Files /\ f[2] \in Nat /\ At(f[2] + 1) = At(f[2]) + WalSegSz
  BY CurrentFileIsFile, FileNumbers DEF ShapeInv
<1>2. /\ pc = "closesync" /\ HasFile /\ walfile.st = "nil"
      /\ blockPos = At(f[2]) + walfile.pos
      /\ part[f].st \in (IF walfile.pos = WalSegSz THEN {"renamed"} ELSE {"sized", "synced"})
  BY DEF SyncClosedFile, ShapeInv, OpenInv, NamedInv, PosInv, HasFile
<1>3. /\ FsyncDir([part EXCEPT ![f] = FsyncedPart(@)])
      /\ lastFlush' = blockPos /\ pc' \in {"copydone", "recv", "data"}
      /\ UNCHANGED <<srvTli, srvEnd, fork, base, slot, inflight, tli, blockPos, walfile>>
  BY <1>2 DEF SyncClosedFile, ClosedNameVisible, CompleteVisible, PartialVisible
<1>4. /\ Tidy(part, full, part', full')
      /\ \A g \in Files : part'[g].st # "renamed"
      /\ \A g \in Files : part[g].st = "renamed" => full'[g]
  BY <1>1, <1>3, FsyncBothIsTidy
<1>k. /\ NameInv'
      /\ \A s \in Int : R(s) => Reach(part', full', base', s)
      /\ \A g \in Files : part'[g].st # "none" => Reach(part', full', base', g[2])
  BY <1>3, <1>4, TidyKeeps
<1>5. Reach(part', full', base', Seg(blockPos))
  <2>1. CASE walfile.pos = WalSegSz
    <3>1. full'[f]
      BY <1>1, <1>2, <1>4, <2>1
    <3>2. Seg(blockPos) = f[2] + 1
      BY <1>1, <1>2, <2>1, SegOfAt
    <3>3. Seg(blockPos) <= f[2] + 1
      BY <1>1, <3>2
    <3> QED
      BY <1>1, <3>1, <3>3 DEF Reach, Done
  <2>2. CASE walfile.pos # WalSegSz
    <3>1. Seg(blockPos) = f[2] /\ R(Seg(blockPos))
      BY <1>2, <2>2, OpenFileReached
    <3> QED
      BY <1>1, <1>k, <3>1
  <2> QED
    BY <2>1, <2>2
<1>n. /\ blockPos \in Nat /\ srvEnd \in Nat /\ tli \in TLIs /\ TimelineEnd(tli) \in Nat
      /\ inflight \in Nat /\ (slot > 0 => slot \in Nat)
  BY Numbers DEF ShapeInv
<1>6. InStream /\ Cursor = blockPos /\ InStream' /\ Cursor' = blockPos
  BY <1>2, <1>3 DEF InStream, Streaming, Cursor
<1>7. /\ base <= blockPos /\ tli <= srvTli /\ blockPos <= TimelineEnd(tli)
      /\ \A u \in TLIs : u < tli => Seg(fork[u]) <= Seg(blockPos)
      /\ slot > 0 => Seg(slot) <= Seg(blockPos)
      /\ Seg(inflight) <= Seg(blockPos)
  BY <1>6 DEF StartInv, CursorInv
<1>8. blockPos <= srvEnd /\ Seg(blockPos) <= Seg(blockPos)
  BY <1>n, <1>7, EndBelow, SegMono
<1>9. CursorInv'
  BY <1>3, <1>6, <1>7, <1>8 DEF CursorInv, TimelineEnd
<1>10. SlotInv'
  BY <1>3 DEF StartInv, SlotInv
<1>11. ReachInv'
  <2>1. Seg(inflight) \in Int /\ (slot > 0 => Seg(slot) \in Int)
    BY <1>n, SegMono
  <2>2. base > 0 /\ slot > 0 => Reach(part', full', base', Seg(slot))
    BY <1>k, <2>1 DEF StartInv, ReachInv
  <2>3. Reach(part', full', base', Seg(inflight))
    BY <1>k, <2>1 DEF StartInv, ReachInv
  <2>4. ~HasFile'
    BY <1>2, <1>3 DEF HasFile
  <2> QED
    BY <1>3, <1>5, <1>6, <1>k, <2>2, <2>3, <2>4 DEF ReachInv, R
<1>12. RenameInv'
  BY <1>4 DEF RenameInv
<1> QED
  BY <1>k, <1>9, <1>10, <1>11, <1>12 DEF StartInv

-----------------------------------------------------------------------------
(***************************************************************************)
(* A new name.                                                             *)
(***************************************************************************)
\* OpenWalFile creates the file of the segment the stream has reached.
LEMMA StartCreateWalFile ==
    ASSUME ShapeInv, TypeOK', StartInv, CreateWalFile
    PROVE  StartInv'
<1> DEFINE f == CurrentFile
<1>1. /\ f \in Files /\ part'[f].st = "empty" /\ f[1] = tli /\ f[2] = Seg(blockPos)
      /\ \A g \in Files : g # f => part'[g] = part[g] /\ full'[g] = full[g]
      /\ full'[f] => full[f] \/ part[f].st = "renamed"
  BY CreateIsCalm DEF CurrentFile
<1>2. /\ UNCHANGED <<srvTli, srvEnd, fork, base, slot, inflight, tli, lastFlush, blockPos,
                     walfile>>
      /\ pc = "data" /\ pc' = "truncate" /\ walfile.st = "nil"
  BY DEF CreateWalFile
<1>n. /\ blockPos \in Nat /\ base \in Nat /\ tli \in TLIs /\ TimelineEnd(tli) \in Nat
      /\ inflight \in Nat /\ lastFlush \in Nat /\ (slot > 0 => slot \in Nat)
  BY Numbers DEF ShapeInv
<1>3. InStream /\ Cursor = blockPos /\ InStream' /\ Cursor' = blockPos /\ ~HasFile'
  BY <1>2 DEF InStream, Streaming, Cursor, HasFile
<1>4. blockPos = At(f[2])
  <2>1. Off(blockPos) = 0
    BY <1>2 DEF ShapeInv, PosInv
  <2>2. blockPos = At(Seg(blockPos)) + 0 /\ Seg(blockPos) \in Nat
    BY <1>n, <2>1, SegOff
  <2>3. At(Seg(blockPos)) \in Nat
    BY <2>2, AtType
  <2> QED
    BY <1>1, <2>2, <2>3
<1>5. \A g \in Files : Done(part[g], full[g]) => Done(part'[g], full'[g])
  <2>1. part[f].st = "renamed" \/ full[f] => full'[f]
    BY <1>1 DEF CreateWalFile, ShapeInv, TypeOK
  <2> QED
    BY <1>1, <2>1 DEF Done
<1>6. ASSUME NEW s \in Int, R(s) PROVE Reach(part', full', base', s)
  BY <1>2, <1>5, <1>6, <1>n, ReachKept DEF R
<1>7. NameInv'
  <2>1. SUFFICES ASSUME NEW g \in Files, part'[g].st # "none" \/ full'[g]
        PROVE  /\ base <= At(g[2]) /\ g[1] <= srvTli /\ At(g[2]) <= TimelineEnd(g[1])
               /\ \A u \in TLIs : u < g[1] => Seg(fork[u]) <= g[2]
    BY <1>2 DEF NameInv, TimelineEnd
  <2>2. CASE g = f
    BY <1>1, <1>3, <1>4, <2>2 DEF StartInv, CursorInv
  <2>3. CASE g # f
    BY <1>1, <2>1, <2>3 DEF StartInv, NameInv
  <2> QED
    BY <2>2, <2>3
<1>8. SlotInv' /\ RenameInv'
  BY <1>1, <1>2 DEF StartInv, SlotInv, RenameInv
<1>9. CursorInv'
  BY <1>2, <1>3 DEF StartInv, CursorInv, TimelineEnd
<1>10. ReachInv'
  <2>1. /\ Seg(inflight) \in Int /\ Seg(lastFlush) \in Int /\ Seg(blockPos) \in Int
        /\ (slot > 0 => Seg(slot) \in Int)
    BY <1>n, SegMono
  <2>2. /\ base > 0 /\ slot > 0 => Reach(part', full', base', Seg(slot))
        /\ Reach(part', full', base', Seg(inflight))
        /\ Reach(part', full', base', Seg(lastFlush))
        /\ Reach(part', full', base', Seg(blockPos))
    BY <1>2, <1>3, <1>6, <2>1 DEF StartInv, ReachInv
  <2>3. ASSUME NEW g \in Files, part'[g].st # "none"
        PROVE  Reach(part', full', base', g[2])
    <3>1. CASE g = f
      BY <1>1, <2>2, <3>1
    <3>2. CASE g # f
      <4>1. part[g].st # "none" /\ g[2] \in Int
        BY <1>1, <2>3, <3>2, FileNumbers
      <4>2. R(g[2])
        BY <4>1 DEF StartInv, ReachInv
      <4> QED
        BY <1>6, <4>1, <4>2
    <3> QED
      BY <3>1, <3>2
  <2> QED
    BY <1>2, <1>3, <2>2, <2>3 DEF ReachInv, R
<1> QED
  BY <1>7, <1>8, <1>9, <1>10 DEF StartInv

-----------------------------------------------------------------------------
(***************************************************************************)
(* Where the stream begins, and where it goes on.                          *)
(***************************************************************************)
\* The next timeline is asked for from the segment its predecessor ended in, which is the
\* segment the stream is in.
LEMMA StartNextTimeline ==
    ASSUME ShapeInv, TypeOK', StartInv, NextTimeline
    PROVE  StartInv'
<1>1. /\ UNCHANGED <<srvTli, srvEnd, fork, base, part, full, slot, inflight, lastFlush, blockPos,
                     walfile>>
      /\ pc = "copydone" /\ pc' \in {"history", "fail"} /\ walfile.st = "nil"
  BY DEF NextTimeline, ShapeInv, PosInv
<1>2. CASE pc' = "fail"
  <2>1. ~InStream' /\ ~HasFile'
    BY <1>2 DEF InStream, Streaming, HasFile
  <2> QED
    BY <1>1, <1>2, <2>1, StaysPut
<1>3. CASE pc' = "history"
  <2>1. /\ eoc = "switch" /\ fork[tli] <= blockPos
        /\ tli' = tli + 1 /\ startPos' = SegStart(fork[tli])
    BY <1>3 DEF NextTimeline
  <2>n. /\ blockPos \in Nat /\ base \in Nat /\ tli \in TLIs /\ fork[tli] \in Nat /\ srvEnd \in Nat
        /\ srvTli \in Int /\ tli \in Int /\ startPos' \in Nat /\ tli' \in TLIs
        /\ \A t \in TLIs : t \in Int /\ fork[t] \in Nat
    BY Numbers, NumbersNext DEF ShapeInv
  <2>2. InStream /\ Cursor = blockPos /\ InStream' /\ Cursor' = startPos' /\ ~HasFile'
    BY <1>1, <1>3 DEF InStream, Streaming, Cursor, HasFile
  <2>3. /\ base <= blockPos /\ tli <= srvTli /\ blockPos <= TimelineEnd(tli)
        /\ slot > 0 => Seg(slot) <= Seg(blockPos)
        /\ Seg(inflight) <= Seg(blockPos) /\ Seg(lastFlush) <= Seg(blockPos)
        /\ base <= lastFlush /\ lastFlush <= srvEnd /\ R(Seg(blockPos))
    BY <1>1, <2>2 DEF StartInv, CursorInv, ReachInv
  <2>4. tli < srvTli /\ blockPos = fork[tli]
    <3>1. tli < srvTli
      BY <1>1, <2>1 DEF ShapeInv, MsgInv
    <3> QED
      BY <2>1, <2>3, <2>n, <3>1 DEF TimelineEnd
  <2>5. Seg(startPos') = Seg(blockPos) /\ startPos' <= blockPos
    <3>1. Seg(SegStart(fork[tli])) = Seg(fork[tli])
      BY <2>n, SegOfStart
    <3>2. SegStart(fork[tli]) \in 0..fork[tli]
      BY <2>n, SegOff
    <3> QED
      BY <2>1, <2>4, <2>n, <3>1, <3>2
  <2>6. base <= startPos'
    BY <2>1, <2>3, <2>4, <2>n, BoundaryBelow DEF ShapeInv, BaseInv
  <2>7. tli' <= srvTli /\ startPos' <= TimelineEnd(tli')
    <3>1. tli' <= srvTli
      BY <2>1, <2>4, <2>n
    <3>2. fork[tli] <= srvEnd
      BY <2>4, <2>n DEF ShapeInv, ForkInv
    <3>3. tli' # srvTli => fork[tli] <= fork[tli']
      <4>1. SUFFICES ASSUME tli' # srvTli PROVE fork[tli] <= fork[tli']
        OBVIOUS
      <4>2. tli < tli' /\ tli' < srvTli
        BY <2>1, <2>n, <3>1, <4>1
      <4> QED
        BY <2>n, <4>2 DEF ShapeInv, ForkInv
    <3> QED
      BY <2>4, <2>5, <2>n, <3>1, <3>2, <3>3 DEF TimelineEnd
  <2>8. \A u \in TLIs : u < tli' => Seg(fork[u]) <= Seg(blockPos)
    <3>1. SUFFICES ASSUME NEW u \in TLIs, u < tli' PROVE Seg(fork[u]) <= Seg(blockPos)
      OBVIOUS
    <3>2. fork[u] <= fork[tli]
      <4>1. u = tli \/ u < tli
        BY <2>1, <2>n, <3>1
      <4> QED
        BY <2>4, <2>n, <4>1 DEF ShapeInv, ForkInv
    <3> QED
      BY <2>4, <2>n, <3>2, SegMono
  <2>9. CursorInv'
    <3>1. TimelineEnd(tli)' = TimelineEnd(tli')
      BY <1>1 DEF TimelineEnd
    <3> QED
      BY <1>1, <2>2, <2>3, <2>5, <2>6, <2>7, <2>8, <3>1 DEF CursorInv
  <2>10. SlotInv' /\ NameInv' /\ RenameInv'
    BY <1>1, <1>3 DEF StartInv, SlotInv, NameInv, RenameInv, TimelineEnd
  <2>11. ReachInv'
    BY <1>1, <2>2, <2>3, <2>5 DEF StartInv, ReachInv, R
  <2> QED
    BY <2>9, <2>10, <2>11 DEF StartInv
<1> QED
  BY <1>1, <1>2, <1>3

\* A complete segment ends no later than its timeline.
LEMMA CompleteEnds ==
    ASSUME ShapeInv, NEW f \in Files, CompleteVisible(f)
    PROVE  f[1] <= srvTli /\ At(f[2] + 1) <= TimelineEnd(f[1])
<1>1. CASE full[f]
  BY <1>1 DEF ShapeInv, FilesInv
<1>2. CASE part[f].st = "renamed"
  <2>1. part[f].data \in 0..WalSegSz /\ part[f].flushed \in 0..WalSegSz /\ PartOK(part[f])
    BY DEF ShapeInv, TypeOK, PartInv, Part
  <2>2. part[f].data = WalSegSz
    BY <1>2, <2>1, ConstantsAssumption DEF PartOK
  <2> QED
    BY <2>2, FileNumbers, ConstantsAssumption DEF ShapeInv, FilesInv
<1> QED
  BY <1>1, <1>2 DEF CompleteVisible

\* What a place to start must satisfy.
GoodStart(lsn, t, b) ==
    /\ b <= SegStart(lsn) /\ t <= srvTli /\ SegStart(lsn) <= TimelineEnd(t)
    /\ \A u \in TLIs : u < t => Seg(fork[u]) <= Seg(lsn)
    /\ slot > 0 => Seg(slot) <= Seg(lsn)
    /\ Reach(part, full, b, Seg(lsn))

(***************************************************************************)
(* The entry findStreamingStart's sort puts first.  The slot is in a       *)
(* segment the stream began in, or after one that is done: that one is in  *)
(* the directory, and what is sorted before it is not below.  Only a       *)
(* *.partial of the same segment on a later timeline could be; but then    *)
(* the earlier timeline ended within the segment, which was never whole.   *)
(***************************************************************************)
LEMMA DirectoryIsGoodStart ==
    ASSUME ShapeInv, StartInv, pc = "slot", NEW e \in WalEntries,
           \A d \in WalEntries : d = e \/ SortsBefore(e, d)
    PROVE  GoodStart(EntryStart(e), e[1][1], base) /\ base > 0
<1> DEFINE f == e[1]
           s == IF e[2] THEN f[2] ELSE f[2] + 1
<1>1. /\ f \in Files /\ f[1] \in TLIs /\ f[2] \in Nat /\ s \in Nat
      /\ EntryStart(e) = At(s) /\ EntryStart(e) \in LSNs
      /\ SegStart(EntryStart(e)) = EntryStart(e)
      /\ e[2] => PartialVisible(f)
      /\ ~e[2] => CompleteVisible(f)
  BY EntryStartInLSNs
<1>n. /\ base \in Nat /\ srvTli \in Int /\ f[1] \in Int /\ At(f[2]) \in Nat
      /\ At(f[2] + 1) = At(f[2]) + WalSegSz /\ WalSegSz \in Nat
      /\ (slot > 0 => Seg(slot) \in Nat) /\ Seg(base) \in Nat
      /\ \A u \in TLIs : u \in Int /\ fork[u] \in Nat /\ Seg(fork[u]) \in Nat
                         /\ TimelineEnd(u) \in Nat
  BY <1>1, Numbers, FileNumbers, SegMono, ConstantsAssumption DEF ShapeInv
<1>2. Seg(EntryStart(e)) = s
  BY <1>1, SegOfAt
<1>3. part[f].st # "none" \/ full[f]
  BY <1>1 DEF PartialVisible, CompleteVisible
<1>4. /\ base <= At(f[2]) /\ f[1] <= srvTli /\ At(f[2]) <= TimelineEnd(f[1])
      /\ \A u \in TLIs : u < f[1] => Seg(fork[u]) <= f[2]
  BY <1>1, <1>3 DEF StartInv, NameInv
<1>5. base > 0
  BY <1>1, <1>3, <1>n DEF ShapeInv, BaseInv, NoPart
<1>6. base <= At(s) /\ At(s) <= TimelineEnd(f[1])
  <2>1. CASE e[2]
    BY <1>4, <2>1
  <2>2. CASE ~e[2]
    BY <1>1, <1>4, <1>n, <2>2, CompleteEnds
  <2> QED
    BY <2>1, <2>2
<1>7. \A u \in TLIs : u < f[1] => Seg(fork[u]) <= s
  BY <1>1, <1>4, <1>n
<1>8. R(s)
  <2>1. CASE e[2]
    <3>1. part[f].st # "none"
      BY <1>1, <2>1 DEF PartialVisible
    <3> QED
      BY <1>1, <2>1, <3>1 DEF StartInv, ReachInv
  <2>2. CASE ~e[2]
    <3>1. Done(part[f], full[f])
      BY <1>1, <2>2 DEF CompleteVisible, Done, StartInv, RenameInv
    <3>2. s <= f[2] + 1
      BY <1>1, <2>2
    <3> QED
      BY <1>1, <3>1, <3>2 DEF R, Reach
  <2> QED
    BY <2>1, <2>2
<1>9. ASSUME slot > 0 PROVE Seg(slot) <= s
  <2>1. R(Seg(slot))
    BY <1>5, <1>9 DEF StartInv, ReachInv
  <2>2. CASE Seg(slot) <= Seg(base)
    <3>1. Seg(base) <= Seg(At(s))
      BY <1>1, <1>n, <1>6, SegMono, AtType
    <3>2. Seg(At(s)) = s
      BY <1>1, SegOfAt
    <3> QED
      BY <1>1, <1>9, <1>n, <2>2, <3>1, <3>2
  <2>3. CASE \E g \in Files : Done(part[g], full[g]) /\ Seg(slot) <= g[2] + 1
    <3>1. PICK g \in Files : Done(part[g], full[g]) /\ Seg(slot) <= g[2] + 1
      BY <2>3
    <3>2. g[1] \in TLIs /\ g[1] \in Int /\ g[2] \in Nat /\ At(g[2] + 1) \in Nat
      BY FileNumbers, ConstantsAssumption
    <3>3. CompleteVisible(g)
      BY <3>1 DEF Done, CompleteVisible
    <3>4. <<g, FALSE>> \in WalEntries
      BY <3>3, Zenon DEF WalEntries
    <3>5. e = <<g, FALSE>> \/ SortsBefore(e, <<g, FALSE>>)
      BY <3>4
    <3>6. \/ f[2] > g[2]
          \/ f[2] = g[2] /\ f[1] > g[1]
          \/ f = g /\ ~e[2]
      <4>1. CASE e = <<g, FALSE>>
        BY <4>1
      <4>2. CASE SortsBefore(e, <<g, FALSE>>)
        <5>1. <<g, FALSE>>[1] = g /\ <<g, FALSE>>[2] = FALSE
          OBVIOUS
        <5> QED
          BY <4>2, <5>1, Zenon DEF SortsBefore
      <4> QED
        BY <3>5, <4>1, <4>2
    <3>7. g[2] + 1 <= s
      <4>1. CASE f[2] > g[2]
        BY <1>1, <3>2, <4>1
      <4>2. CASE f[2] = g[2] /\ f[1] > g[1]
        <5>1. ~e[2]
          <6>1. Seg(fork[g[1]]) <= g[2]
            BY <1>4, <3>2, <4>2
          <6>2. g[1] < srvTli
            BY <1>n, <1>4, <3>2, <4>2
          <6>3. At(g[2] + 1) <= fork[g[1]]
            BY <1>n, <3>2, <3>3, <6>2, CompleteEnds DEF TimelineEnd
          <6>4. g[2] + 1 <= Seg(fork[g[1]])
            BY <1>n, <3>2, <6>3, SegOrder
          <6> QED
            BY <1>n, <3>2, <6>1, <6>4
        <5> QED
          BY <1>1, <3>2, <4>2, <5>1
      <4>3. CASE f = g /\ ~e[2]
        BY <1>1, <3>2, <4>3
      <4> QED
        BY <3>6, <4>1, <4>2, <4>3
    <3> QED
      BY <1>1, <1>9, <1>n, <3>1, <3>2, <3>7
  <2> QED
    BY <2>1, <2>2, <2>3 DEF R, Reach
<1> QED
  BY <1>1, <1>2, <1>4, <1>5, <1>6, <1>7, <1>8, <1>9 DEF GoodStart, R

\* The slot's restart_lsn, on the timeline READ_REPLICATION_SLOT reports with it.
LEMMA SlotIsGoodStart ==
    ASSUME ShapeInv, StartInv, slot > 0, NEW t \in TLIs, IsTimelineOf(t, slot)
    PROVE  GoodStart(slot, t, IF base = 0 THEN SegStart(slot) ELSE base)
<1>n. /\ slot \in Nat /\ base \in Nat /\ srvEnd \in Nat /\ srvTli \in Int
      /\ \A u \in TLIs : u \in Int /\ fork[u] \in Nat
  BY Numbers DEF ShapeInv
<1>1. Seg(SegStart(slot)) = Seg(slot) /\ SegStart(slot) \in 0..slot /\ Seg(slot) \in Nat
  BY <1>n, SegOfStart, SegOff
<1>2. base # 0 => base <= SegStart(slot)
  <2>1. base # 0 => base <= slot
    BY <1>n DEF StartInv, SlotInv
  <2> QED
    BY <1>n, <2>1, BoundaryBelow DEF ShapeInv, BaseInv
<1>3. t <= srvTli /\ SegStart(slot) <= TimelineEnd(t)
  <2>1. slot <= srvEnd
    BY DEF StartInv, SlotInv
  <2> QED
    BY <1>n, <1>1, <2>1 DEF IsTimelineOf, TimelineEnd
<1>4. \A u \in TLIs : u < t => Seg(fork[u]) <= Seg(slot)
  BY <1>n, SegMono DEF IsTimelineOf
<1>5. Reach(part, full, IF base = 0 THEN SegStart(slot) ELSE base, Seg(slot))
  <2>1. CASE base = 0
    BY <1>1, <2>1 DEF Reach
  <2>2. CASE base # 0
    BY <1>n, <2>2 DEF StartInv, ReachInv, R
  <2> QED
    BY <2>1, <2>2
<1> QED
  BY <1>1, <1>2, <1>3, <1>4, <1>5 DEF GoodStart

\* The end of the server's WAL.
LEMMA EndIsGoodStart ==
    ASSUME ShapeInv, ~(slot > 0)
    PROVE  GoodStart(srvEnd, srvTli, SegStart(srvEnd))
<1>n. /\ srvEnd \in Nat /\ srvTli \in Int /\ srvTli \in TLIs
      /\ \A u \in TLIs : u \in Int /\ fork[u] \in Nat
  BY Numbers DEF ShapeInv
<1>1. Seg(SegStart(srvEnd)) = Seg(srvEnd) /\ SegStart(srvEnd) \in 0..srvEnd /\ Seg(srvEnd) \in Nat
  BY <1>n, SegOfStart, SegOff
<1>2. \A u \in TLIs : u < srvTli => Seg(fork[u]) <= Seg(srvEnd)
  BY <1>n, SegMono DEF ShapeInv, ForkInv
<1> QED
  BY <1>n, <1>1, <1>2 DEF GoodStart, TimelineEnd, Reach

\* An empty directory has no names.
LEMMA NoEntries ==
    ASSUME WalEntries = {}, ShapeInv, NEW f \in Files
    PROVE  part[f].st = "none" /\ ~full[f]
<1>1. ~PartialVisible(f)
  <2>1. SUFFICES ASSUME PartialVisible(f) PROVE <<f, TRUE>> \in WalEntries
    OBVIOUS
  <2> QED
    BY <2>1, Zenon DEF WalEntries
<1>2. ~CompleteVisible(f)
  <2>1. SUFFICES ASSUME CompleteVisible(f) PROVE <<f, FALSE>> \in WalEntries
    OBVIOUS
  <2> QED
    BY <2>1, Zenon DEF WalEntries
<1>3. part[f].st \in PartStates
  BY DEF ShapeInv, TypeOK, Part
<1> QED
  BY <1>1, <1>2, <1>3 DEF PartialVisible, CompleteVisible, PartStates

\* findStreamingStart, whichever way it goes: the place is good, and where the beginning
\* moves there is no name.
LEMMA FindStartIsGood ==
    ASSUME WalkSafe, ShapeInv, SlotSet, StartInv, FindStart
    PROVE  \E lsn \in LSNs, t \in TLIs :
             /\ BeginStream(lsn, t)
             /\ GoodStart(lsn, t, base')
             /\ base <= base'
             /\ slot > 0 => base' <= slot
             /\ base' # base => \A f \in Files : part[f].st = "none" /\ ~full[f]
<1>0. pc = "slot" /\ slot \in LSNs \cup {NoSlot} /\ base \in Nat /\ srvEnd \in Nat
      /\ srvEnd \in LSNs /\ srvTli \in TLIs
  BY Numbers DEF FindStart, ShapeInv, TypeOK
<1>b. base > 0 /\ slot > 0 => base <= slot
  BY DEF StartInv, SlotInv
<1>1. CASE StartFromDirectory
  <2>1. PICK e \in WalEntries :
          /\ \A d \in WalEntries : d = e \/ SortsBefore(e, d)
          /\ BeginStream(EntryStart(e), e[1][1])
    BY <1>1 DEF StartFromDirectory
  <2>2. base' = base
    BY <1>1 DEF StartFromDirectory
  <2>3. GoodStart(EntryStart(e), e[1][1], base) /\ base > 0
    BY <1>0, <2>1, DirectoryIsGoodStart
  <2>4. EntryStart(e) \in LSNs /\ e[1][1] \in TLIs
    BY EntryStartInLSNs
  <2>5. /\ GoodStart(EntryStart(e), e[1][1], base')
        /\ base <= base' /\ (slot > 0 => base' <= slot)
    BY <1>0, <1>b, <2>2, <2>3
  <2> QED
    BY <2>1, <2>2, <2>4, <2>5
<1>2. CASE ~StartFromDirectory /\ slot > 0
  <2>1. StartFromServer(slot)
    BY <1>0, <1>2, ConstantsAssumption DEF FindStart, NoSlot, LSNs
  <2>2. slot \in LSNs /\ slot # 0 /\ slot \in Nat
    BY <1>0, <1>2, ConstantsAssumption DEF NoSlot, LSNs
  <2>3. PICK t \in TLIs : IsTimelineOf(t, slot) /\ BeginStream(slot, t)
    BY <2>1, <2>2 DEF StartFromServer
  <2>4. base' = IF base = 0 THEN SegStart(slot) ELSE base
    BY <2>1, <2>2 DEF StartFromServer
  <2>5. GoodStart(slot, t, base')
    BY <1>2, <2>3, <2>4, SlotIsGoodStart
  <2>6. SegStart(slot) \in 0..slot
    BY <2>2, SegOff
  <2>7. base <= base' /\ base' <= slot
    BY <1>0, <1>2, <1>b, <2>2, <2>4, <2>6
  <2>8. base' # base => \A f \in Files : part[f].st = "none" /\ ~full[f]
    BY <2>4 DEF ShapeInv, BaseInv, NoPart
  <2> QED
    BY <2>2, <2>3, <2>5, <2>7, <2>8
<1>3. CASE ~StartFromDirectory /\ ~(slot > 0)
  <2>1. slot \in {NoSlot, 0}
    BY <1>0, <1>3, ConstantsAssumption DEF LSNs
  <2>2. StartFromServer(0)
    BY <1>3, <2>1 DEF FindStart, NoSlot
  <2>3. BeginStream(srvEnd, srvTli) /\ base' = SegStart(srvEnd)
    BY <2>2 DEF StartFromServer
  <2>4. WalEntries = {}
    BY <1>3 DEF FindStart, WalkSafe, SlotSet
  <2>5. \A f \in Files : part[f].st = "none" /\ ~full[f]
    BY <2>4, NoEntries
  <2>6. base <= base'
    BY <1>0, <2>3, BoundaryBelow DEF ShapeInv, BaseInv
  <2>7. GoodStart(srvEnd, srvTli, base')
    BY <1>3, <2>3, EndIsGoodStart
  <2> QED
    BY <1>0, <1>3, <2>3, <2>5, <2>6, <2>7
<1> QED
  BY <1>1, <1>2, <1>3

LEMMA StartFindStart ==
    ASSUME WalkSafe, ShapeInv, SlotSet, TypeOK', StartInv, FindStart
    PROVE  StartInv'
<1>1. PICK lsn \in LSNs, t \in TLIs :
        /\ BeginStream(lsn, t)
        /\ GoodStart(lsn, t, base')
        /\ base <= base'
        /\ slot > 0 => base' <= slot
        /\ base' # base => \A f \in Files : part[f].st = "none" /\ ~full[f]
  BY FindStartIsGood
<1>2. /\ pc = "slot" /\ pc' = "history" /\ walfile'.st = "nil"
      /\ startPos' = SegStart(lsn) /\ lastFlush' = startPos' /\ tli' = t
      /\ UNCHANGED <<srvTli, srvEnd, fork, sent, inflight, part, full>>
      /\ slot' = (IF slot = NoSlot THEN 0 ELSE slot)
  BY <1>1, FindStartFacts, BeginStreamShape DEF ShapeInv
<1>n. /\ base \in Nat /\ base' \in Nat /\ startPos' \in Nat /\ slot \in Int /\ srvEnd \in Nat
      /\ lsn \in Nat /\ (slot > 0 => slot \in Nat) /\ slot' \in Int /\ srvTli \in Int
      /\ \A u \in TLIs : u \in Int /\ TimelineEnd(u) \in Nat
  BY Numbers, NumbersNext, SegInSegs DEF ShapeInv
<1>3. (slot' > 0 => slot > 0 /\ slot' = slot) /\ slot' <= srvEnd
  <2>1. slot <= srvEnd
    BY DEF StartInv, SlotInv
  <2> QED
    BY <1>2, <1>n, <2>1 DEF NoSlot
<1>4. inflight = 0 /\ inflight' = 0
  BY <1>2 DEF StartInv, SlotInv
<1>5. InStream' /\ Cursor' = startPos' /\ ~HasFile'
  BY <1>2 DEF InStream, Streaming, Cursor, HasFile
<1>6. Seg(startPos') = Seg(lsn) /\ Seg(lsn) \in Nat /\ Seg(0) <= Seg(startPos')
  BY <1>2, <1>n, SegOfStart, SegMono
<1>7. SlotInv'
  BY <1>1, <1>2, <1>3, <1>4, <1>n DEF SlotInv
<1>8. NameInv'
  <2>1. CASE base' = base
    BY <1>2, <2>1 DEF StartInv, NameInv, TimelineEnd
  <2>2. CASE base' # base
    BY <1>1, <1>2, <2>2 DEF NameInv
  <2> QED
    BY <2>1, <2>2
<1>9. CursorInv'
  <2>1. /\ base' <= startPos' /\ t <= srvTli /\ startPos' <= TimelineEnd(t)
        /\ \A u \in TLIs : u < t => Seg(fork[u]) <= Seg(startPos')
        /\ slot' > 0 => Seg(slot') <= Seg(startPos')
    BY <1>1, <1>2, <1>3, <1>6 DEF GoodStart
  <2>2. TimelineEnd(tli)' = TimelineEnd(t)
    BY <1>2 DEF TimelineEnd
  <2>3. startPos' <= srvEnd
    BY <1>n, <2>1, EndBelow
  <2>4. Seg(startPos') <= Seg(startPos')
    BY <1>6
  <2> QED
    BY <1>2, <1>4, <1>5, <1>6, <2>1, <2>2, <2>3, <2>4 DEF CursorInv
<1>10. ReachInv'
  <2>1. ASSUME NEW s \in Int, R(s) PROVE Reach(part', full', base', s)
    BY <1>1, <1>2, <1>n, <2>1, ReachKept DEF R
  <2>2. Reach(part', full', base', Seg(startPos'))
    BY <1>1, <1>2, <1>6 DEF GoodStart
  <2>3. slot' > 0 => Reach(part', full', base', Seg(slot'))
    <3>1. slot' > 0 => Seg(slot') <= Seg(startPos') /\ Seg(slot') \in Int
      BY <1>1, <1>3, <1>6, <1>n, SegMono DEF GoodStart
    <3> QED
      BY <1>6, <1>n, <2>2, <3>1, ReachBelow
  <2>4. Reach(part', full', base', Seg(inflight'))
    <3>1. Seg(0) \in Int
      BY SegMono
    <3> QED
      BY <1>4, <1>6, <1>n, <2>2, <3>1, ReachBelow
  <2>5. ASSUME NEW f \in Files, part'[f].st # "none"
        PROVE  Reach(part', full', base', f[2])
    <3>1. part[f].st # "none" /\ f[2] \in Int
      BY <1>2, <2>5, FileNumbers
    <3>2. R(f[2])
      BY <3>1 DEF StartInv, ReachInv
    <3> QED
      BY <2>1, <3>1, <3>2
  <2> QED
    BY <1>2, <1>5, <2>2, <2>3, <2>4, <2>5 DEF ReachInv, R
<1>11. RenameInv'
  BY <1>2 DEF StartInv, RenameInv
<1> QED
  BY <1>7, <1>8, <1>9, <1>10, <1>11 DEF StartInv

-----------------------------------------------------------------------------
(***************************************************************************)
(* The theorem.                                                            *)
(***************************************************************************)
LEMMA StartInit == Init => StartInv
<1>1. SUFFICES ASSUME Init PROVE StartInv
  OBVIOUS
<1>2. SlotInv /\ NameInv /\ CursorInv /\ RenameInv
  BY <1>1, ConstantsAssumption
     DEF Init, SlotInv, NameInv, CursorInv, RenameInv, InStream, Streaming, NoPart, NoSlot
<1>3. R(Seg(0))
  <2>1. Seg(0) <= Seg(0) /\ base = 0
    BY <1>1, SegMono DEF Init
  <2> QED
    BY <2>1 DEF R, Reach
<1>4. ReachInv
  BY <1>1, <1>3, ConstantsAssumption
     DEF Init, ReachInv, InStream, Streaming, HasFile, NoPart
<1> QED
  BY <1>2, <1>4 DEF StartInv

\* Every step preserves it.
LEMMA StartNext ==
    ASSUME SoundFaults, CrashesApart, WalkSafe, ShapeInv, ShapeInv', NamedInv, SlotSet, StartInv,
           [Next]_vars
    PROVE  StartInv'
<1>1. TypeOK'
  BY DEF ShapeInv
<1>2. CASE ServerStep
  BY <1>1, <1>2, StartUnnoticed, StartServer DEF ServerStep
<1>3. CASE ReceiverStep
  BY <1>1, <1>3, StartOutside, StartFindStart, StartCopy, StartStartReplication, StartReport,
     StartReceiveXLogData, StartCreateWalFile, StartOpenWalFile, StartAssignWalFile,
     StartWriteWalFile, StartCloseWalFile, StartSyncClosedFile, StartNextTimeline, StartEnd
     DEF ReceiverStep
<1>4. CASE FaultStep
  <2>1. ~ReopenFails
    BY DEF ReopenFails, SoundFaults
  <2> QED
    BY <1>1, <1>4, <2>1, StartUnnoticed, StartCopy, StartFailure, StartEnd DEF FaultStep
<1>5. CASE UNCHANGED vars
  BY <1>1, <1>5, StartUnnoticed
<1> QED
  BY <1>2, <1>3, <1>4, <1>5 DEF Next

(***************************************************************************)
(* The names and the slot agree in every reachable state: a segment the    *)
(* slot has entered was reached by names no crash takes back.              *)
(***************************************************************************)
THEOREM StartInvariance ==
    ASSUME SoundFaults, CrashesApart, WalkSafe
    PROVE  Spec => []StartInv
<1>1. Init => SlotSet
  BY ConstantsAssumption DEF Init, SlotSet
<1>2. IInv /\ SlotSet /\ [Next]_vars => SlotSet'
  BY SlotSetNext DEF IInv
<1>3. IInv /\ IInv' /\ SlotSet /\ StartInv /\ [Next]_vars => StartInv'
  BY StartNext DEF IInv
<1> QED
  BY <1>1, <1>2, <1>3, StartInit, Invariance, PTL DEF Spec

(***************************************************************************)
(* The position findStreamingStart or a timeline switch asks the primary   *)
(* for is never in a segment below the slot's, which the primary may have  *)
(* recycled, and never past the end of the timeline: START_REPLICATION is  *)
(* not refused again and again.                                            *)
(***************************************************************************)
THEOREM StartStaysAvailable ==
    ASSUME SoundFaults, CrashesApart, WalkSafe
    PROVE  Spec => []StartIsAvailable
<1>1. IInv /\ StartInv => StartIsAvailable
  <2>1. SUFFICES ASSUME IInv, StartInv, pc = "start", slot > 0
        PROVE  /\ startPos >= SegStart(slot)
               /\ tli <= srvTli /\ startPos <= TimelineEnd(tli)
    BY DEF StartIsAvailable
  <2>2. ShapeInv /\ startPos \in Nat /\ slot \in Nat
    BY <2>1, Numbers DEF IInv, ShapeInv
  <2>3. /\ tli <= srvTli /\ startPos <= TimelineEnd(tli)
        /\ Seg(slot) <= Seg(startPos)
    BY <2>1 DEF StartInv, CursorInv, InStream, Cursor
  <2>4. Off(startPos) = 0
    BY <2>1, <2>2 DEF ShapeInv, PosInv
  <2>5. /\ startPos = At(Seg(startPos)) + 0 /\ Seg(startPos) \in Nat /\ Seg(slot) \in Nat
        /\ SegStart(slot) = At(Seg(slot))
    BY <2>2, <2>4, SegOff
  <2>6. At(Seg(slot)) <= At(Seg(startPos)) /\ At(Seg(slot)) \in Nat /\ At(Seg(startPos)) \in Nat
    BY <2>3, <2>5, AtMono, AtType
  <2> QED
    BY <2>3, <2>5, <2>6
<1> QED
  BY <1>1, Invariance, StartInvariance, PTL
===================================================================================
