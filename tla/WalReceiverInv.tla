------------------------------ MODULE WalReceiverInv ------------------------------
(***************************************************************************)
(* The inductive invariant behind the theorems about WalReceiver, and the  *)
(* lemmas the induction rests on: segment arithmetic, what it means for    *)
(* WAL to be held on disk, and what the operations on the receive          *)
(* directory do to it.                                                     *)
(*                                                                         *)
(* `Held' says that a byte is on disk in the file of some timeline.  It    *)
(* names the disk explicitly, so that a step that leaves the disk alone    *)
(* leaves it alone too.                                                    *)
(***************************************************************************)
EXTENDS WalReceiver, TLAPS

(***************************************************************************)
(* The faults under which the guarantee holds: a *.partial that cannot be  *)
(* fsynced is not removed, fsync of a new file persists its name, and a    *)
(* timeline forks at the end of what was sent.                             *)
(***************************************************************************)
SoundFaults == Faults \cap {"reopen", "dirent", "overlap"} = {}

\* The first position of segment s.
At(s) == XLogSegNoToRecPtr(s, WalSegSz)

\* Offset o of file f is on disk for good, on the disk given by pa and fu.
Surv(pa, fu, f, o) ==
    fu[f] \/ (pa[f].linked /\ pa[f].st \in {"synced", "renamed"} /\ pa[f].flushed > o)

Held(pa, fu, l) == \E t \in TLIs : Surv(pa, fu, <<t, Seg(l)>>, Off(l))

HeldBelow(pa, fu, b, x) == \A l \in LSNs : b <= l /\ l < x => Held(pa, fu, l)

H(x) == HeldBelow(part, full, base, x)

-----------------------------------------------------------------------------
(***************************************************************************)
(* The inductive invariant.                                                *)
(***************************************************************************)
\* Timelines fork one after the other, none past the end of the WAL.
ForkInv ==
    /\ \A t \in TLIs : t < srvTli => fork[t] <= srvEnd
    /\ \A t, u \in TLIs : t < u /\ u < srvTli => fork[t] <= fork[u]

\* A *.partial that was fsynced has a durable name, a renamed one is whole.
PartOK(p) ==
    /\ p.flushed <= p.data
    /\ p.st \in {"none", "empty"} => p.data = 0
    /\ p.st \in {"synced", "renamed"} => p.linked
    /\ p.st = "sized" => p.flushed = 0
    /\ p.st = "renamed" => p.flushed = WalSegSz

PartInv == \A f \in Files : PartOK(part[f])

\* A file holds WAL of its own timeline only.
FilesInv ==
    \A f \in Files :
        /\ part[f].data > 0 =>
              f[1] <= srvTli /\ At(f[2]) + part[f].data <= TimelineEnd(f[1])
        /\ full[f] => f[1] <= srvTli /\ At(f[2] + 1) <= TimelineEnd(f[1])

\* Nothing is undertaken before the first start; until then the directory is empty.
BaseInv ==
    /\ base <= srvEnd /\ Off(base) = 0 /\ WalSegSz <= srvEnd
    /\ base = 0 =>
         /\ acked = 0 /\ inflight = 0 /\ slot <= srvEnd /\ (slot > 0 => WalSegSz <= slot)
         /\ pc \in {"connect", "slot", "exited"}
         /\ \A f \in Files : part[f] = NoPart /\ ~full[f]

Streaming == {"loop", "recv", "data", "truncate", "reopen", "assign", "close", "rename",
              "closesync", "copydone"}

\* Between messages nothing of a message is left.
MsgInv ==
    /\ pc \notin {"data", "truncate", "reopen", "assign", "close", "rename", "closesync",
                  "fail"} => left = 0
    /\ pc \notin {"close", "rename", "closesync", "copydone", "fail"} => eoc = "none"
    /\ eoc # "none" /\ pc # "fail" => left = 0
    /\ eoc = "switch" /\ pc # "fail" => tli < srvTli
    /\ pc \in {"close", "rename", "closesync"} /\ eoc = "none" => walfile.pos = WalSegSz

\* The stream's positions.
PosInv ==
    /\ pc \in {"history", "start"} => Off(startPos) = 0 /\ walfile.st = "nil"
    /\ pc \in Streaming =>
         tli <= srvTli /\ sent = blockPos + left /\ sent <= TimelineEnd(tli)
    /\ pc \in {"loop", "recv", "data", "truncate", "reopen", "assign"}
         /\ walfile.st = "nil" => Off(blockPos) = 0
    /\ pc = "data" => left > 0
    /\ pc \in {"truncate", "reopen", "assign"} => left > 0
    /\ pc \in {"truncate", "reopen", "assign", "copydone", "closesync"} => walfile.st = "nil"
    /\ pc \in {"loop", "recv", "data"} => walfile.st \in {"nil", "open"}
    /\ pc = "close" => walfile.st = "open"
    /\ pc = "rename" => walfile.st = "closed"

\* The stream has a file: open, or between its close and the fsync of its name.
HasFile ==
    \/ pc \in {"loop", "recv", "data", "close"} /\ walfile.st = "open"
    \/ pc \in {"rename", "closesync"}

\* That file holds the stream up to blockPos, unless its name is gone: the uploader of
\* ArchiveSupervisor may remove a name, and nobody else does.
OpenInv ==
    /\ HasFile => /\ walfile.f[1] = tli
                  /\ blockPos = At(walfile.f[2]) + walfile.pos
                  /\ part[walfile.f].st # "none" => walfile.pos <= part[walfile.f].data
    /\ pc \in {"loop", "recv", "data"} /\ walfile.st = "open" => walfile.pos < WalSegSz
    /\ pc \in {"loop", "recv", "data", "close"} /\ walfile.st = "open" =>
         part[walfile.f].st \in {"none", "sized", "synced"}
    /\ pc = "rename" => /\ walfile.pos = WalSegSz
                        /\ part[walfile.f].st \in {"none", "synced"}
                        /\ part[walfile.f].st = "synced" =>
                             part[walfile.f].flushed = WalSegSz
    /\ pc = "closesync" =>
         part[walfile.f].st \in {"none"} \cup (IF walfile.pos = WalSegSz THEN {"renamed"}
                                               ELSE {"sized", "synced"})
    /\ pc = "truncate" => part[CurrentFile].st \in {"none", "empty"}
    /\ pc \in {"reopen", "assign"} => part[CurrentFile].st \in {"none", "sized", "synced"}

\* As long as the receiver is alone in its directory no name is gone.
NamedInv ==
    /\ HasFile => part[walfile.f].st # "none"
    /\ pc \in {"truncate", "reopen", "assign"} => part[CurrentFile].st # "none"

\* The shape of the state, nothing of it about what is held.
ShapeInv ==
    TypeOK /\ ForkInv /\ PartInv /\ FilesInv /\ BaseInv /\ MsgInv /\ PosInv /\ OpenInv

\* What findStreamingStart may find can be trusted.
VisibleInv ==
    \A f \in Files :
        /\ PartialVisible(f) => H(At(f[2]))
        /\ CompleteVisible(f) => H(At(f[2] + 1))

\* What was reported, what is being reported, what the slot releases.
AckInv ==
    /\ H(acked) /\ H(inflight)
    /\ base > 0 /\ slot > 0 => H(SegStart(slot))

\* What the stream takes as flushed, and what lies below the file it writes.
StreamInv ==
    /\ pc \in Streaming \cup {"history", "start"} => H(lastFlush)
    /\ pc \in {"history", "start"} => H(startPos)
    /\ pc \in {"loop", "recv", "data", "truncate", "reopen", "assign", "copydone"}
         /\ walfile.st = "nil" => H(blockPos)
    /\ HasFile => H(At(walfile.f[2]))

HeldInv == VisibleInv /\ AckInv /\ StreamInv

IInv == ShapeInv /\ NamedInv /\ HeldInv

-----------------------------------------------------------------------------
(***************************************************************************)
(* Segment arithmetic.                                                     *)
(***************************************************************************)
\* The first position of a segment, and of the next.
LEMMA AtType ==
    ASSUME NEW s \in Nat
    PROVE  At(s) \in Nat /\ At(s + 1) = At(s) + WalSegSz
  BY ConstantsAssumption DEF At, XLogSegNoToRecPtr

\* The order of segments is the order of their first positions.
LEMMA AtMono ==
    ASSUME NEW s \in Nat, NEW r \in Nat
    PROVE  /\ s <= r => At(s) <= At(r)
           /\ s < r => At(s) + WalSegSz <= At(r)
  BY ConstantsAssumption DEF At, XLogSegNoToRecPtr

\* A position is the start of its segment plus its offset.
LEMMA SegOff ==
    ASSUME NEW l \in Nat
    PROVE  /\ Seg(l) \in Nat /\ Off(l) \in 0..(WalSegSz - 1)
           /\ l = At(Seg(l)) + Off(l)
           /\ SegStart(l) = At(Seg(l))
           /\ SegStart(l) \in 0..l
  BY ConstantsAssumption
     DEF Seg, Off, SegStart, At, XLByteToSeg, XLogSegmentOffset, XLogSegNoToRecPtr

\* Segment and offset of a position given by segment and offset.
LEMMA SegOfSum ==
    ASSUME NEW s \in Nat, NEW o \in 0..(WalSegSz - 1)
    PROVE  Seg(At(s) + o) = s /\ Off(At(s) + o) = o
  BY ConstantsAssumption
     DEF Seg, Off, At, XLByteToSeg, XLogSegmentOffset, XLogSegNoToRecPtr

\* The same for the first position of a segment.
LEMMA SegOfAt ==
    ASSUME NEW s \in Nat
    PROVE  Seg(At(s)) = s /\ Off(At(s)) = 0 /\ SegStart(At(s)) = At(s)
<1>1. At(s) \in Nat /\ At(s) + 0 = At(s)
  BY AtType
<1>2. 0 \in 0..(WalSegSz - 1)
  BY ConstantsAssumption
<1> QED
  BY <1>1, <1>2, SegOfSum DEF SegStart

\* Where a position's segment lies relative to a segment start.
LEMMA SegOrder ==
    ASSUME NEW l \in Nat, NEW s \in Nat
    PROVE  /\ l < At(s) => Seg(l) < s
           /\ At(s) <= l => s <= Seg(l)
<1>1. l = At(Seg(l)) + Off(l) /\ Seg(l) \in Nat /\ Off(l) \in 0..(WalSegSz - 1)
  BY SegOff
<1>2. At(Seg(l)) \in Nat /\ At(s) \in Nat
  BY <1>1, AtType
<1>3. s <= Seg(l) => At(s) <= At(Seg(l))
  BY <1>1, AtMono
<1>4. Seg(l) < s => At(Seg(l)) + WalSegSz <= At(s)
  BY <1>1, AtMono
<1> QED
  BY <1>1, <1>2, <1>3, <1>4, ConstantsAssumption

\* Every position of the model has its segment in Segs.
LEMMA SegInSegs ==
    ASSUME NEW l \in LSNs
    PROVE  l \in Nat /\ Seg(l) \in Segs /\ Seg(l) \in Nat
<1>1. MaxLSN \in Nat /\ l \in Nat /\ l <= MaxLSN
  BY ConstantsAssumption DEF LSNs
<1>2. Seg(l) \in Nat /\ At(Seg(l)) <= l
  BY <1>1, SegOff
<1>3. At(Seg(l)) <= MaxLSN
  BY <1>1, <1>2, AtType
<1>4. Seg(l) <= Seg(MaxLSN)
  BY <1>1, <1>2, <1>3, SegOrder
<1> QED
  BY <1>1, <1>2, <1>4 DEF Segs, Seg, XLByteToSeg

\* Every segment of the model begins at one of its positions.
LEMMA AtInLSNs ==
    ASSUME NEW s \in Segs
    PROVE  s \in Nat /\ At(s) \in LSNs
<1>1. MaxLSN \in Nat
  BY ConstantsAssumption
<1>2. s \in Nat /\ s <= Seg(MaxLSN)
  BY <1>1, ConstantsAssumption DEF Segs, Seg, XLByteToSeg
<1>3. Seg(MaxLSN) \in Nat /\ At(Seg(MaxLSN)) <= MaxLSN
  BY <1>1, SegOff
<1>4. At(s) <= At(Seg(MaxLSN))
  BY <1>2, <1>3, AtMono
<1> QED
  BY <1>1, <1>2, <1>3, <1>4, AtType DEF LSNs

\* A segment boundary below a position is not above the start of its segment.
LEMMA BoundaryBelow ==
    ASSUME NEW b \in Nat, Off(b) = 0, NEW e \in Nat, b <= e
    PROVE  b <= SegStart(e)
<1>1. b = At(Seg(b)) /\ Seg(b) \in Nat
  <2>1. b = At(Seg(b)) + Off(b) /\ Seg(b) \in Nat
    BY SegOff
  <2>2. At(Seg(b)) \in Nat
    BY <2>1, AtType
  <2> QED  BY <2>1, <2>2
<1>2. Seg(b) <= Seg(e)
  BY <1>1, SegOrder
<1>3. Seg(e) \in Nat /\ SegStart(e) = At(Seg(e))
  BY SegOff
<1> QED
  BY <1>1, <1>2, <1>3, AtMono

\* The first segment has no start above zero, every other has.
LEMMA SegStartPositive ==
    ASSUME NEW l \in Nat, WalSegSz <= l
    PROVE  SegStart(l) > 0
<1>1. At(1) = WalSegSz
  BY ConstantsAssumption DEF At, XLogSegNoToRecPtr
<1>0. Off(At(1)) = 0
  BY SegOfAt
<1>2. WalSegSz <= SegStart(l)
  BY <1>0, <1>1, BoundaryBelow, ConstantsAssumption
<1>3. SegStart(l) \in Int
  BY SegOff
<1> QED
  BY <1>2, <1>3, ConstantsAssumption

\* SegStart yields a boundary.
LEMMA SegStartOff ==
    ASSUME NEW l \in LSNs
    PROVE  SegStart(l) \in LSNs /\ SegStart(l) <= l /\ Off(SegStart(l)) = 0
<1>1. l \in Nat /\ Seg(l) \in Nat
  BY SegInSegs
<1>2. SegStart(l) = At(Seg(l)) /\ SegStart(l) \in 0..l
  BY <1>1, SegOff
<1>3. Off(SegStart(l)) = 0
  BY <1>1, <1>2, SegOfAt
<1> QED
  BY <1>1, <1>2, <1>3, ConstantsAssumption DEF LSNs

-----------------------------------------------------------------------------
(***************************************************************************)
(* What is held.                                                           *)
(***************************************************************************)
\* A narrower range is held too.
LEMMA HeldNarrow ==
    ASSUME NEW pa, NEW fu, NEW b \in Int, NEW c \in Int, NEW x \in Int, NEW y \in Int,
           HeldBelow(pa, fu, b, x), b <= c, y <= x
    PROVE  HeldBelow(pa, fu, c, y)
  BY ConstantsAssumption DEF HeldBelow, LSNs

\* Nothing is to be held below where holding begins.
LEMMA HeldNothing ==
    ASSUME NEW pa, NEW fu, NEW b \in Int, NEW x \in Int, x <= b
    PROVE  HeldBelow(pa, fu, b, x)
  BY ConstantsAssumption DEF HeldBelow, LSNs

\* A step of the disk that loses no durable byte loses nothing that is held.
LEMMA HeldGrow ==
    ASSUME NEW pa, NEW fu, NEW pb, NEW fv, NEW b, NEW x,
           \A f \in Files : \A o \in 0..(WalSegSz - 1) :
               Surv(pa, fu, f, o) => Surv(pb, fv, f, o),
           HeldBelow(pa, fu, b, x)
    PROVE  HeldBelow(pb, fv, b, x)
<1>1. SUFFICES ASSUME NEW l \in LSNs, b <= l /\ l < x
      PROVE  Held(pb, fv, l)
  BY DEF HeldBelow
<1>2. PICK t \in TLIs : Surv(pa, fu, <<t, Seg(l)>>, Off(l))
  BY <1>1 DEF HeldBelow, Held
<1>3. <<t, Seg(l)>> \in Files /\ Off(l) \in 0..(WalSegSz - 1)
  BY SegInSegs, SegOff DEF Files
<1> QED
  BY <1>2, <1>3 DEF Held

\* The held range grows with the durable prefix of the file above it.
LEMMA HeldExtend ==
    ASSUME NEW pa, NEW fu, NEW b \in Int, NEW t \in TLIs, NEW s \in Nat,
           NEW k \in 0..WalSegSz,
           HeldBelow(pa, fu, b, At(s)),
           \A o \in 0..(WalSegSz - 1) : o < k => Surv(pa, fu, <<t, s>>, o)
    PROVE  HeldBelow(pa, fu, b, At(s) + k)
<1>1. SUFFICES ASSUME NEW l \in LSNs, b <= l /\ l < At(s) + k
      PROVE  Held(pa, fu, l)
  BY DEF HeldBelow
<1>2. At(s) \in Nat /\ l \in Nat /\ k \in Nat /\ k <= WalSegSz /\ WalSegSz \in Nat
  BY AtType, SegInSegs, ConstantsAssumption
<1>3. CASE l < At(s)
  BY <1>1, <1>3 DEF HeldBelow
<1>4. CASE At(s) <= l
  <2> DEFINE o == l - At(s)
  <2>1. o \in 0..(WalSegSz - 1) /\ o < k /\ l = At(s) + o
    BY <1>1, <1>2, <1>4
  <2>2. Seg(l) = s /\ Off(l) = o
    BY <2>1, SegOfSum
  <2> QED
    BY <2>1, <2>2 DEF Held
<1> QED
  BY <1>2, <1>3, <1>4

-----------------------------------------------------------------------------
(***************************************************************************)
(* The receive directory.                                                  *)
(***************************************************************************)
Disk(pa, fu) ==
    /\ pa \in [Files -> Part] /\ fu \in [Files -> BOOLEAN]
    /\ \A f \in Files : PartOK(pa[f])

\* A step that writes no new data and loses nothing durable, at one file: its *.partial
\* p becomes q, the existence u of the complete file becomes v.
CalmFile(p, u, q, v) ==
    /\ q \in Part /\ v \in BOOLEAN /\ PartOK(q)
    /\ q.data <= p.data
    /\ v => u \/ p.st = "renamed"
    /\ u => v
    /\ ~v /\ p.linked /\ p.st \in {"synced", "renamed"} =>
         q.linked /\ q.st \in {"synced", "renamed"} /\ p.flushed <= q.flushed

\* Such a step that shows no name that was not there.
MildFile(p, u, q, v) ==
    /\ CalmFile(p, u, q, v)
    /\ q.st # "none" => p.st # "none"
    /\ q.st = "renamed" => u \/ p.st = "renamed"

Calm(pa, fu, pb, fv) ==
    /\ pb \in [Files -> Part] /\ fv \in [Files -> BOOLEAN]
    /\ \A f \in Files : CalmFile(pa[f], fu[f], pb[f], fv[f])

Mild(pa, fu, pb, fv) ==
    /\ pb \in [Files -> Part] /\ fv \in [Files -> BOOLEAN]
    /\ \A f \in Files : MildFile(pa[f], fu[f], pb[f], fv[f])

\* A file that no step touches.
LEMMA UntouchedFile ==
    ASSUME NEW p \in Part, NEW u \in BOOLEAN, PartOK(p)
    PROVE  MildFile(p, u, p, u)
  BY ConstantsAssumption DEF CalmFile, MildFile, Part

\* fsync of a *.partial.
LEMMA FsyncedFile ==
    ASSUME SoundFaults, NEW p \in Part, NEW u \in BOOLEAN, PartOK(p)
    PROVE  /\ MildFile(p, u, FsyncedPart(p), u)
           /\ FsyncedPart(p).data = p.data /\ FsyncedPart(p).flushed = p.data
           /\ FsyncedPart(p).st = (IF p.st = "sized" THEN "synced" ELSE p.st)
           /\ p.st # "none" => FsyncedPart(p).linked
<1>1. FsyncedPart(p) \in Part
  BY DEF FsyncedPart, Part, PartStates
<1>2. /\ FsyncedPart(p).data = p.data /\ FsyncedPart(p).flushed = p.data
      /\ FsyncedPart(p).st = (IF p.st = "sized" THEN "synced" ELSE p.st)
      /\ p.st # "none" => FsyncedPart(p).linked
  BY DEF FsyncedPart, Part, PartStates, SoundFaults
<1>3. p.data \in 0..WalSegSz /\ p.flushed \in 0..WalSegSz /\ p.st \in PartStates
  BY DEF Part
<1>4. PartOK(FsyncedPart(p))
  BY <1>2, <1>3, ConstantsAssumption DEF PartOK, PartStates
<1> QED
  BY <1>1, <1>2, <1>3, <1>4, ConstantsAssumption DEF CalmFile, MildFile, PartOK, PartStates

\* fsync of the directory: a pending rename becomes the complete file.
LEMMA DirSyncedFile ==
    ASSUME NEW p \in Part, NEW u \in BOOLEAN, PartOK(p)
    PROVE  /\ MildFile(p, u, DirSyncedPart(p), u \/ p.st = "renamed")
           /\ DirSyncedPart(p).st =
                (IF p.st \in {"none", "renamed"} THEN "none" ELSE p.st)
           /\ p.st \notin {"none", "renamed"} =>
                DirSyncedPart(p).data = p.data /\ DirSyncedPart(p).flushed = p.flushed
                /\ DirSyncedPart(p).linked
<1>1. p.data \in 0..WalSegSz /\ p.flushed \in 0..WalSegSz /\ p.st \in PartStates
  BY DEF Part
<1>2. CASE p.st \in {"none", "renamed"}
  BY <1>1, <1>2, ConstantsAssumption DEF CalmFile, MildFile, DirSyncedPart, NoPart, Part, PartOK, PartStates
<1>3. CASE p.st \notin {"none", "renamed"}
  <2> DEFINE q == DirSyncedPart(p)
  <2>1. q = [p EXCEPT !.linked = TRUE]
    BY <1>3 DEF DirSyncedPart
  <2>2. q \in Part /\ q.st = p.st /\ q.data = p.data /\ q.flushed = p.flushed /\ q.linked
    BY <2>1 DEF Part
  <2> HIDE DEF q
  <2>3. PartOK(q)
    BY <2>2, <1>3 DEF PartOK
  <2>4. MildFile(p, u, q, u)
    BY <2>2, <2>3, <1>1, <1>3, ConstantsAssumption DEF CalmFile, MildFile, PartStates
  <2> QED
    BY <2>2, <2>4, <1>3 DEF q
<1> QED
  BY <1>2, <1>3

\* A power failure.
LEMMA PoweredFile ==
    ASSUME NEW p \in Part, NEW u \in BOOLEAN, PartOK(p), NEW kept \in BOOLEAN,
           NEW cut \in 0..WalSegSz
    PROVE  MildFile(p, u, PoweredPart(p, kept, cut), u \/ (p.st = "renamed" /\ kept))
<1>1. p.data \in 0..WalSegSz /\ p.flushed \in 0..WalSegSz /\ p.st \in PartStates
      /\ p.linked \in BOOLEAN
  BY DEF Part
<1>2. CASE p.st = "none"
  BY <1>1, <1>2, ConstantsAssumption DEF CalmFile, MildFile, PoweredPart, NoPart, Part, PartOK, PartStates
<1>3. CASE p.st = "renamed"
  BY <1>1, <1>3, ConstantsAssumption DEF CalmFile, MildFile, PoweredPart, NoPart, Part, PartOK, PartStates
<1>4. CASE p.st \in {"empty", "sized", "synced"}
  BY <1>1, <1>4, ConstantsAssumption
     DEF CalmFile, MildFile, PoweredPart, NoPart, Part, PartOK, PartStates, Lesser, Greater
<1> QED
  BY <1>1, <1>2, <1>3, <1>4 DEF PartStates

\* fsync of one *.partial, of the directory, of both.
LEMMA FsyncIsMild ==
    ASSUME SoundFaults, NEW pa, NEW fu, Disk(pa, fu), NEW f \in Files
    PROVE  Mild(pa, fu, [pa EXCEPT ![f] = FsyncedPart(@)], fu)
<1> DEFINE pb == [pa EXCEPT ![f] = FsyncedPart(@)]
<1>1. \A g \in Files : MildFile(pa[g], fu[g], pb[g], fu[g])
  <2>1. SUFFICES ASSUME NEW g \in Files PROVE MildFile(pa[g], fu[g], pb[g], fu[g])
    OBVIOUS
  <2>2. pa[g] \in Part /\ fu[g] \in BOOLEAN /\ PartOK(pa[g])
    BY DEF Disk
  <2>3. CASE g = f
    BY <2>2, <2>3, FsyncedFile DEF Disk
  <2>4. CASE g # f
    BY <2>2, <2>4, UntouchedFile DEF Disk
  <2> QED  BY <2>3, <2>4
<1>2. \A g \in Files : pb[g] \in Part
  BY <1>1 DEF CalmFile, MildFile
<1> QED
  BY <1>1, <1>2 DEF Mild, Disk

LEMMA DirSyncIsMild ==
    ASSUME NEW pa, NEW fu, Disk(pa, fu)
    PROVE  Mild(pa, fu, [f \in Files |-> DirSyncedPart(pa[f])],
                        [f \in Files |-> fu[f] \/ pa[f].st = "renamed"])
<1> DEFINE pb == [f \in Files |-> DirSyncedPart(pa[f])]
           fv == [f \in Files |-> fu[f] \/ pa[f].st = "renamed"]
<1>1. \A g \in Files : MildFile(pa[g], fu[g], pb[g], fv[g])
  BY DirSyncedFile DEF Disk
<1>2. \A g \in Files : pb[g] \in Part /\ fv[g] \in BOOLEAN
  BY <1>1 DEF CalmFile, MildFile
<1> QED
  BY <1>1, <1>2 DEF Mild

LEMMA PowerIsMild ==
    ASSUME NEW pa, NEW fu, Disk(pa, fu), NEW kept, NEW cut \in 0..WalSegSz
    PROVE  Mild(pa, fu, [f \in Files |-> PoweredPart(pa[f], f \in kept, cut)],
                        [f \in Files |-> fu[f] \/ (pa[f].st = "renamed" /\ f \in kept)])
<1> DEFINE pb == [f \in Files |-> PoweredPart(pa[f], f \in kept, cut)]
           fv == [f \in Files |-> fu[f] \/ (pa[f].st = "renamed" /\ f \in kept)]
<1>1. \A g \in Files : MildFile(pa[g], fu[g], pb[g], fv[g])
  <2>1. SUFFICES ASSUME NEW g \in Files PROVE MildFile(pa[g], fu[g], pb[g], fv[g])
    OBVIOUS
  <2>2. pa[g] \in Part /\ fu[g] \in BOOLEAN /\ PartOK(pa[g]) /\ (g \in kept) \in BOOLEAN
    BY DEF Disk
  <2> QED  BY <2>2, PoweredFile
<1>2. \A g \in Files : pb[g] \in Part /\ fv[g] \in BOOLEAN
  BY <1>1 DEF CalmFile, MildFile
<1> QED
  BY <1>1, <1>2 DEF Mild

\* Two mild steps in a row are mild.
LEMMA MildTrans ==
    ASSUME NEW pa, NEW fu, NEW pb, NEW fv, NEW pd, NEW fw, Disk(pa, fu),
           Mild(pa, fu, pb, fv), Mild(pb, fv, pd, fw)
    PROVE  Mild(pa, fu, pd, fw)
<1>1. SUFFICES ASSUME NEW f \in Files PROVE MildFile(pa[f], fu[f], pd[f], fw[f])
  BY DEF Mild
<1>2. pa[f] \in Part /\ pb[f] \in Part /\ pd[f] \in Part
  BY DEF Mild, Disk
<1>3. /\ pa[f].data \in Int /\ pb[f].data \in Int /\ pd[f].data \in Int
      /\ pa[f].flushed \in Int /\ pb[f].flushed \in Int /\ pd[f].flushed \in Int
      /\ pb[f].st \in PartStates
  BY <1>2, ConstantsAssumption DEF Part
<1>4. MildFile(pa[f], fu[f], pb[f], fv[f]) /\ MildFile(pb[f], fv[f], pd[f], fw[f])
  BY DEF Mild
<1> QED
  BY <1>2, <1>3, <1>4 DEF CalmFile, MildFile, PartStates

LEMMA MildIsCalm ==
    ASSUME NEW pa, NEW fu, NEW pb, NEW fv, Mild(pa, fu, pb, fv)
    PROVE  Calm(pa, fu, pb, fv)
  BY DEF Mild, MildFile, Calm

LEMMA CalmDisk ==
    ASSUME NEW pa, NEW fu, NEW pb, NEW fv, Calm(pa, fu, pb, fv)
    PROVE  Disk(pb, fv)
  BY DEF Calm, CalmFile, Disk

\* A calm step keeps what is held.
LEMMA CalmHeld ==
    ASSUME NEW pa, NEW fu, NEW pb, NEW fv, Disk(pa, fu), Calm(pa, fu, pb, fv),
           NEW b, NEW x, HeldBelow(pa, fu, b, x)
    PROVE  HeldBelow(pb, fv, b, x)
<1>1. SUFFICES ASSUME NEW f \in Files, NEW o \in 0..(WalSegSz - 1), Surv(pa, fu, f, o)
      PROVE  Surv(pb, fv, f, o)
  BY HeldGrow
<1>2. pa[f] \in Part /\ pb[f] \in Part /\ CalmFile(pa[f], fu[f], pb[f], fv[f])
  BY DEF Disk, Calm
<1>3. pa[f].flushed \in Int /\ pb[f].flushed \in Int /\ o \in Int
  BY <1>2, ConstantsAssumption DEF Part
<1> QED
  BY <1>1, <1>2, <1>3 DEF CalmFile, Surv

-----------------------------------------------------------------------------
(***************************************************************************)
(* The same for the variables of the specification.                        *)
(***************************************************************************)
LEMMA ShapeDisk ==
    ASSUME ShapeInv
    PROVE  Disk(part, full)
  BY DEF ShapeInv, TypeOK, PartInv, Disk

\* Steps that leave the primary's history and the segment files alone.
LEMMA DiskFrame ==
    ASSUME ShapeInv, UNCHANGED <<srvTli, srvEnd, fork, part, full>>
    PROVE  ForkInv' /\ PartInv' /\ FilesInv'
  BY DEF ShapeInv, ForkInv, PartInv, FilesInv, TimelineEnd

\* Steps that touch the segment files calmly.
LEMMA CalmFrame ==
    ASSUME ShapeInv, UNCHANGED <<srvTli, srvEnd, fork>>, Calm(part, full, part', full')
    PROVE  /\ ForkInv' /\ PartInv' /\ FilesInv'
           /\ part' \in [Files -> Part] /\ full' \in [Files -> BOOLEAN]
<1>1. ForkInv'
  BY DEF ShapeInv, ForkInv
<1>2. PartInv' /\ part' \in [Files -> Part] /\ full' \in [Files -> BOOLEAN]
  BY DEF Calm, CalmFile, PartInv
<1>3. ASSUME NEW f \in Files
      PROVE  /\ part'[f].data > 0 =>
                  f[1] <= srvTli' /\ At(f[2]) + part'[f].data <= TimelineEnd(f[1])'
             /\ full'[f] => f[1] <= srvTli' /\ At(f[2] + 1) <= TimelineEnd(f[1])'
  <2>1. f[1] \in TLIs /\ f[2] \in Nat
    BY AtInLSNs DEF Files
  <2>2. At(f[2]) \in Nat /\ At(f[2] + 1) = At(f[2]) + WalSegSz
    BY <2>1, AtType
  <2>3. part[f] \in Part /\ part'[f] \in Part /\ PartOK(part[f])
        /\ CalmFile(part[f], full[f], part'[f], full'[f])
    BY DEF ShapeInv, TypeOK, PartInv, Calm
  <2>4. /\ part[f].data \in 0..WalSegSz /\ part'[f].data \in 0..WalSegSz
        /\ part[f].flushed \in 0..WalSegSz
    BY <2>3 DEF Part
  <2>5. TimelineEnd(f[1]) \in Int /\ TimelineEnd(f[1])' = TimelineEnd(f[1])
    BY <2>1, ConstantsAssumption DEF ShapeInv, TypeOK, TimelineEnd, LSNs
  <2>6. /\ part[f].data > 0 => f[1] <= srvTli /\ At(f[2]) + part[f].data <= TimelineEnd(f[1])
        /\ full[f] => f[1] <= srvTli /\ At(f[2] + 1) <= TimelineEnd(f[1])
    BY DEF ShapeInv, FilesInv
  <2>7. part[f].st = "renamed" => part[f].data = WalSegSz
    BY <2>3, <2>4, ConstantsAssumption DEF PartOK
  <2>8. part'[f].data <= part[f].data /\ (full'[f] => full[f] \/ part[f].st = "renamed")
    BY <2>3 DEF CalmFile
  <2> QED
    BY <2>2, <2>4, <2>5, <2>6, <2>7, <2>8, ConstantsAssumption
<1>4. FilesInv'
  BY <1>3 DEF FilesInv
<1> QED
  BY <1>1, <1>2, <1>4
===================================================================================
