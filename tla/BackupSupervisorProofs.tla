-------------------------- MODULE BackupSupervisorProofs --------------------------
(***************************************************************************)
(* The slot and the retention, for every window and keep_last, any number  *)
(* of callers, backups, segments and timelines, and any number of storage  *)
(* errors and kills.                                                       *)
(*                                                                         *)
(* Two inductions: over SlotInv, which needs nothing of the faults, and    *)
(* over RetentionInv, for markers that can be read.                        *)
(***************************************************************************)
EXTENDS BackupSupervisor, FiniteSetTheorems, TLAPS

\* A marker that cannot be read hides a backup from the retention.
SoundFaults == "manifest" \notin Faults

-----------------------------------------------------------------------------
(***************************************************************************)
(* The slot: the run that is under way is one, and Running says so; what   *)
(* it streams is a backup of its own.                                      *)
(***************************************************************************)
SlotInv ==
    /\ BackupTypeOK
    /\ \A p, q \in Callers : pc[p] # "idle" /\ pc[q] # "idle" => p = q
    /\ running <=> \E p \in Callers : pc[p] # "idle"
    /\ \A p \in Callers : pc[p] \in {"stream", "marker"} => plan[p].id \in Backups

(***************************************************************************)
(* Backups started later begin later in the WAL, and none beyond its end.  *)
(***************************************************************************)
Begun(b) == dir[b] # "none"
OrderInv ==
    /\ \A b \in Backups : Begun(b) =>
         Started(b) <= now /\ info[b].tli <= curTli /\ info[b].seg <= head
    /\ \A b, c \in Backups : Begun(b) /\ Begun(c) /\ Started(b) <= Started(c) =>
         info[b].tli <= info[c].tli /\ info[b].seg <= info[c].seg

(***************************************************************************)
(* A good anchor justifies the loss of every older backup: it is whole,    *)
(* reaches back to the beginning of the window, and enough are kept.       *)
(***************************************************************************)
Marked == {b \in Backups : dir[b] = "marked"}
Good(a) ==
    /\ a \in Marked /\ Started(a) <= WindowStart
    /\ Cardinality(KeptFrom(Marked, a)) >= MinimumBackups
Deleted(b) == dir[b] \in {"torn", "tornMarked", "gone"}
LossInv ==
    /\ \A b \in Backups : Deleted(b) => \E a \in Backups : Good(a) /\ Started(b) < Started(a)
    /\ \A b \in done : dir[b] = "marked" \/ Deleted(b)

(***************************************************************************)
(* A run.  Until it starts its backup all others are older; while it       *)
(* purges, what is neither deleted nor to be deleted needs no WAL below    *)
(* keepFrom, and what is to be deleted is older than a good anchor.        *)
(***************************************************************************)
Purging(p) == pc[p] \in {"purge", "deleteDir", "clean"}
RunInv(p) ==
    /\ pc[p] \in {"load", "create"} \/ Purging(p) =>
         \A b \in Backups : Begun(b) => Started(b) < now
    /\ Purging(p) =>
         /\ \A b \in Marked \ plan[p].del : ~WalBefore(BackupBeginWAL(b), plan[p].keepFrom)
         /\ \A b \in plan[p].del : Begun(b)
         /\ plan[p].del # {} =>
              \E a \in Backups : Good(a) /\ \A b \in plan[p].del : Started(b) < Started(a)
    /\ pc[p] = "deleteDir" => plan[p].cur \in plan[p].del /\ Deleted(plan[p].cur)
    /\ pc[p] = "clean" =>
         plan[p].del = {} /\ \A w \in plan[p].wals : WalBefore(w, plan[p].keepFrom)
    /\ pc[p] \in {"stream", "marker"} =>
         /\ dir[plan[p].id] = "streaming"
         /\ Needed(plan[p].id) \subseteq wal

RetentionInv ==
    SlotInv /\ OrderInv /\ LossInv /\ BackupsAreRestorable /\ \A p \in Callers : RunInv(p)

-----------------------------------------------------------------------------
(***************************************************************************)
(* The plan of a run, after each kind of assignment to it.                 *)
(***************************************************************************)
USE DEF worldVars, stateVars

LEMMA NoPlanType == NoPlan \in PlanType /\ [NoPlan EXCEPT !.err = TRUE] \in PlanType
<1>1. <<1, 0>> \in WalFiles /\ 0 \in 0..MaxBackups
  BY BackupAssumption DEF WalFiles, TLIs, Segs
<1> HIDE DEF WalFiles
<1>2. NoPlan \in PlanType
  BY <1>1 DEF NoPlan, PlanType
<1> QED
  BY <1>2 DEF PlanType

LEMMA KeepFromType ==
    ASSUME BackupTypeOK, NEW b \in Backups
    PROVE  BackupBeginWAL(b) \in WalFiles
  BY DEF BackupTypeOK, BackupBeginWAL, Info, WalFiles

\* The anchor is one of the backups it is chosen from.
LEMMA NatMin ==
    ASSUME NEW T \in SUBSET Nat, T # {}
    PROVE  \E x \in T : \A y \in T : x <= y
<1>1. IsWellFoundedOn(OpToRel(<, Nat), Nat)
  BY NatLessThanWellFounded
<1>2. PICK x \in T : \A y \in T : ~(<<y, x>> \in OpToRel(<, Nat))
  BY <1>1, WFMin
<1>3. \A y \in T : ~(y < x)
  BY <1>2 DEF OpToRel
<1> QED
  BY <1>3

LEMMA OldestExists ==
    ASSUME BackupTypeOK, NEW S \in SUBSET Backups, S # {}
    PROVE  /\ OldestOf(S) \in S
           /\ \A c \in S : Started(OldestOf(S)) <= Started(c)
<1> DEFINE T == {Started(b) : b \in S}
<1>1. T \in SUBSET Nat /\ T # {}
  BY DEF BackupTypeOK, Started, Info, Times
<1>2. PICK x \in T : \A y \in T : x <= y
  BY <1>1, NatMin
<1>3. \E b \in S : \A c \in S : Started(b) <= Started(c)
  BY <1>2
<1> QED
  BY <1>3 DEF OldestOf

LEMMA NewestExists ==
    ASSUME BackupTypeOK, NEW S \in SUBSET Backups, S # {}
    PROVE  /\ NewestOf(S) \in S
           /\ \A c \in S : Started(c) <= Started(NewestOf(S))
<1> DEFINE T == {MaxTime - Started(b) : b \in S}
<1>0. \A b \in S : Started(b) \in Int /\ Started(b) <= MaxTime
  BY BackupAssumption DEF BackupTypeOK, Started, Info, Times
<1>1. T \in SUBSET Nat /\ T # {}
  BY <1>0, BackupAssumption
<1>2. PICK x \in T : \A y \in T : x <= y
  BY <1>1, NatMin
<1>3. PICK b \in S : x = MaxTime - Started(b)
  BY <1>2
<1>4. ASSUME NEW c \in S PROVE Started(c) <= Started(b)
  <2>1. MaxTime - Started(b) <= MaxTime - Started(c)
    BY <1>2, <1>3
  <2> QED
    BY <2>1, <1>0, BackupAssumption
<1> QED
  BY <1>4 DEF NewestOf

LEMMA AnchorIn ==
    ASSUME BackupTypeOK, NEW S \in SUBSET Backups, S # {}
    PROVE  ChooseRecoveryWindowAnchor(S) \in S
<1> DEFINE before == {b \in S : Started(b) <= WindowStart}
           byWindow == IF before # {} THEN NewestOf(before) ELSE OldestOf(S)
           deepEnough == {b \in S : Cardinality(KeptFrom(S, b)) >= MinimumBackups}
<1>1. byWindow \in S
  BY OldestExists, NewestExists
<1>2. deepEnough # {} => NewestOf(deepEnough) \in S
  BY NewestExists
<1>3. OldestOf(S) \in S
  BY OldestExists
<1> QED
  BY <1>1, <1>2, <1>3 DEF ChooseRecoveryWindowAnchor

\* One caller's plan or point changes.
LEMMA PlanSet ==
    ASSUME BackupTypeOK, NEW p \in Callers, NEW x, x \in PlanType,
           plan' = [plan EXCEPT ![p] = x]
    PROVE  plan' \in [Callers -> PlanType]
  BY DEF BackupTypeOK

-----------------------------------------------------------------------------
(***************************************************************************)
(* The type of the state.  A plan is one of what each action assigns.      *)
(***************************************************************************)
LEMMA PlannedType ==
    ASSUME BackupTypeOK, NEW p \in Callers, NEW S \in SUBSET Backups, Plan(p, S)
    PROVE  /\ plan' \in [Callers -> PlanType]
           /\ pc' = [pc EXCEPT ![p] = "create"] \/ pc' = [pc EXCEPT ![p] = "purge"]
<1>1. CASE S = {} \/ ~RetentionEnable
  BY <1>1 DEF Plan, Goto, BackupTypeOK
<1>2. CASE ~(S = {} \/ ~RetentionEnable)
  <2> DEFINE a == ChooseRecoveryWindowAnchor(S)
  <2>1. a \in S
    BY <1>2, AnchorIn
  <2>2. BackupBeginWAL(a) \in WalFiles
    BY <2>1, KeepFromType
  <2> HIDE DEF a
  <2>3. /\ plan' = [plan EXCEPT ![p].del = BackupsOlderThanAnchor(S, a),
                               ![p].keepFrom = BackupBeginWAL(a)]
        /\ Goto(p, "purge")
    BY <1>2 DEF Plan, a
  <2>4. BackupsOlderThanAnchor(S, a) \in SUBSET Backups
    BY DEF BackupsOlderThanAnchor
  <2> QED
    BY <2>2, <2>3, <2>4 DEF PlanType, BackupTypeOK, Goto
<1> QED
  BY <1>1, <1>2

LEMMA DirEndedType ==
    ASSUME plan \in [Callers -> PlanType], NEW p \in Callers,
           NEW d \in SUBSET Backups, NEW k \in 0..MaxBackups
    PROVE  [plan EXCEPT ![p].del = d, ![p].cur = k] \in [Callers -> PlanType]
  BY DEF PlanType

LEMMA FailedType ==
    ASSUME BackupTypeOK, NEW p \in Callers, Failed(p)
    PROVE  plan' \in [Callers -> PlanType] /\ pc' \in [Callers -> RunPoints]
<1>1. plan' \in [Callers -> PlanType]
  BY NoPlanType, PlanSet DEF Failed
<1> QED
  BY <1>1 DEF Failed, Goto, BackupTypeOK, RunPoints

LEMMA RunStepType ==
    ASSUME SlotInv, NEW p \in Callers, RunStep(p)
    PROVE  BackupTypeOK'
<1> USE BackupAssumption DEF SlotInv, BackupTypeOK, Goto, RunPoints
<1>1. CASE LoadBackups(p)
  <2>1. plan' \in [Callers -> PlanType] /\ pc' \in [Callers -> RunPoints]
    <3>1. CASE Failed(p)
      BY <3>1, FailedType
    <3>2. ASSUME NEW S \in SUBSET Backups, Plan(p, S)
          PROVE  plan' \in [Callers -> PlanType] /\ pc' \in [Callers -> RunPoints]
      BY <3>2, PlannedType
    <3>3. Readable \in SUBSET Backups /\ \A b : Readable \ {b} \in SUBSET Backups
      BY DEF Readable
    <3> QED
      BY <1>1, <3>1, <3>2, <3>3 DEF LoadBackups
  <2>2. faults' \in 0..MaxFaults
    <3>1. faults' = faults \/ (faults < MaxFaults /\ faults' = faults + 1)
      BY <1>1, Zenon DEF LoadBackups, Fault
    <3> QED
      BY <3>1
  <2> QED
    BY <1>1, <2>1, <2>2 DEF LoadBackups
<1>2. CASE DeleteBackup(p)
  <2>1. PICK b \in plan[p].del : plan' = [plan EXCEPT ![p].cur = b]
    BY <1>2 DEF DeleteBackup
  <2>2. b \in 0..MaxBackups
    BY DEF PlanType, Backups
  <2>3. plan' \in [Callers -> PlanType]
    BY <2>1, <2>2 DEF PlanType
  <2>4. dir' \in [Backups -> DirStates]
    BY <1>2 DEF DeleteBackup, DirStates
  <2> QED
    BY <1>2, <2>3, <2>4 DEF DeleteBackup
<1>3. CASE DeleteDirEnds(p)
  <2> DEFINE left == plan[p].del \ {plan[p].cur}
             none == 0
  <2>1. left \in SUBSET Backups /\ none \in 0..MaxBackups
    BY DEF PlanType
  <2>2. plan' = [plan EXCEPT ![p].del = left, ![p].cur = none]
    BY <1>3 DEF DeleteDirEnds
  <2> HIDE DEF left, none
  <2>3. plan' \in [Callers -> PlanType]
    BY <2>1, <2>2, DirEndedType
  <2>4. dir' \in [Backups -> DirStates]
    BY <1>3 DEF DeleteDirEnds, DirStates
  <2> QED
    BY <1>3, <2>3, <2>4 DEF DeleteDirEnds
<1>4. CASE ListWal(p)
  <2>1. {w \in wal : WalBefore(w, plan[p].keepFrom)} \in SUBSET WalFiles
    BY DEF WalFiles, Segs
  <2> HIDE DEF WalBefore
  <2> QED
    BY <1>4, <2>1 DEF ListWal, PlanType
<1>5. CASE DeleteWal(p)
  <2>1. CASE ctxDone
    BY <1>5, <2>1, FailedType DEF DeleteWal
  <2>2. CASE ~ctxDone
    BY <1>5, <2>2 DEF DeleteWal, PlanType
  <2> QED
    BY <2>1, <2>2
<1>6. CASE CleanEnds(p)
  BY <1>6, NoPlanType DEF CleanEnds
<1>7. CASE StartBackup(p)
  <2>1. CASE ctxDone
    BY <1>7, <2>1, FailedType DEF StartBackup
  <2>2. CASE ~ctxDone
    <3>1. PICK b \in Backups :
              /\ dir' = [dir EXCEPT ![b] = "streaming"]
              /\ info' = [info EXCEPT ![b] = [startedAt |-> now, finishedAt |-> now,
                                              tli |-> curTli, seg |-> head]]
              /\ plan' = [plan EXCEPT ![p].id = b]
              /\ Goto(p, "stream")
      BY <1>7, <2>2 DEF StartBackup
    <3>2. info' \in [Backups -> Info]
      BY <3>1 DEF Info
    <3>3. plan' \in [Callers -> PlanType]
      <4>1. b \in 0..MaxBackups
        BY DEF Backups
      <4> QED
        BY <3>1, <4>1 DEF PlanType
    <3> QED
      BY <1>7, <3>1, <3>2, <3>3 DEF StartBackup, DirStates
  <2> QED
    BY <2>1, <2>2
<1>8. CASE StreamEnds(p)
  <2>1. info' \in [Backups -> Info]
    BY <1>8 DEF StreamEnds, Info
  <2> QED
    BY <1>8, <2>1 DEF StreamEnds
<1>9. CASE PutMarker(p)
  BY <1>9, NoPlanType DEF PutMarker, DirStates
<1>10. CASE Finish(p)
  BY <1>10, NoPlanType DEF Finish
<1> QED
  BY <1>1, <1>2, <1>3, <1>4, <1>5, <1>6, <1>7, <1>8, <1>9, <1>10 DEF RunStep

-----------------------------------------------------------------------------
(***************************************************************************)
(* The slot.                                                               *)
(***************************************************************************)
Streams(x) == x \in {"stream", "marker"}

\* A run moves on by itself, and leaves the slot alone until it finishes.
Moves(p) ==
    \E x \in RunPoints \ {"idle"}, y \in PlanType :
       /\ pc' = [pc EXCEPT ![p] = x] /\ plan' = [plan EXCEPT ![p] = y] /\ running' = running
       /\ Streams(x) => y.id \in Backups
Ends(p) ==
    \E y \in PlanType :
       /\ pc' = [pc EXCEPT ![p] = "idle"] /\ plan' = [plan EXCEPT ![p] = y] /\ running' = FALSE

LEMMA MovesBy ==
    ASSUME SlotInv, BackupTypeOK', NEW p \in Callers, NEW x \in RunPoints \ {"idle"},
           pc' = [pc EXCEPT ![p] = x], running' = running,
           plan' = [plan EXCEPT ![p] = plan'[p]],
           Streams(x) => plan'[p].id \in Backups
    PROVE  Moves(p)
<1>1. plan'[p] \in PlanType
  BY DEF BackupTypeOK
<1> QED
  BY <1>1 DEF Moves

LEMMA RunMoves ==
    ASSUME SlotInv, NEW p \in Callers, RunStep(p)
    PROVE  pc[p] # "idle" /\ (Moves(p) \/ Ends(p))
<1> USE DEF Goto, RunPoints, Streams
<1>0. BackupTypeOK' /\ BackupTypeOK
  BY RunStepType DEF SlotInv
<1>a. plan \in [Callers -> PlanType] /\ pc \in [Callers -> RunPoints]
  BY <1>0 DEF BackupTypeOK
<1>1. CASE LoadBackups(p)
  <2>1. plan' = [plan EXCEPT ![p] = plan'[p]]
    BY <1>1, <1>a DEF LoadBackups, Failed, Plan
  <2>2. \E x \in {"finish", "create", "purge"} : pc' = [pc EXCEPT ![p] = x]
    BY <1>1 DEF LoadBackups, Failed, Plan
  <2> QED
    BY <1>0, <1>1, <2>1, <2>2, MovesBy DEF LoadBackups
<1>2. CASE DeleteBackup(p)
  <2>1. plan' = [plan EXCEPT ![p] = plan'[p]]
    BY <1>2, <1>a DEF DeleteBackup
  <2> QED
    BY <1>0, <1>2, <2>1, MovesBy DEF DeleteBackup
<1>3. CASE DeleteDirEnds(p)
  <2>1. plan' = [plan EXCEPT ![p] = plan'[p]]
    BY <1>3, <1>a DEF DeleteDirEnds
  <2> QED
    BY <1>0, <1>3, <2>1, MovesBy DEF DeleteDirEnds
<1>4. CASE ListWal(p)
  <2>1. plan' = [plan EXCEPT ![p] = plan'[p]]
    BY <1>4, <1>a DEF ListWal
  <2> QED
    BY <1>0, <1>4, <2>1, MovesBy DEF ListWal
<1>5. CASE DeleteWal(p)
  <2>1. plan' = [plan EXCEPT ![p] = plan'[p]]
    BY <1>5, <1>a DEF DeleteWal, Failed
  <2>2. \E x \in {"finish", "clean"} : pc' = [pc EXCEPT ![p] = x]
    BY <1>5, <1>a DEF DeleteWal, Failed
  <2> QED
    BY <1>0, <1>5, <2>1, <2>2, MovesBy DEF DeleteWal
<1>6. CASE CleanEnds(p)
  <2>1. plan' = [plan EXCEPT ![p] = plan'[p]]
    BY <1>6, <1>a DEF CleanEnds
  <2> QED
    BY <1>0, <1>6, <2>1, MovesBy DEF CleanEnds
<1>7. CASE StartBackup(p)
  <2>1. plan' = [plan EXCEPT ![p] = plan'[p]]
    BY <1>7, <1>a DEF StartBackup, Failed
  <2>2. \/ pc' = [pc EXCEPT ![p] = "finish"]
        \/ pc' = [pc EXCEPT ![p] = "stream"] /\ plan'[p].id \in Backups
    BY <1>7, <1>a DEF StartBackup, Failed, PlanType
  <2> QED
    BY <1>0, <1>7, <2>1, <2>2, MovesBy DEF StartBackup
<1>8. CASE StreamEnds(p)
  <2>1. plan' = [plan EXCEPT ![p] = plan'[p]] /\ plan'[p].id \in Backups
    BY <1>8, <1>a DEF StreamEnds, SlotInv
  <2> QED
    BY <1>0, <1>8, <2>1, MovesBy DEF StreamEnds
<1>9. CASE PutMarker(p)
  <2>1. plan' = [plan EXCEPT ![p] = plan'[p]]
    BY <1>9, <1>a DEF PutMarker
  <2> QED
    BY <1>0, <1>9, <2>1, MovesBy DEF PutMarker
<1>10. CASE Finish(p)
  BY <1>10, NoPlanType DEF Finish, Ends
<1> QED
  BY <1>1, <1>2, <1>3, <1>4, <1>5, <1>6, <1>7, <1>8, <1>9, <1>10 DEF RunStep

LEMMA SlotMoves ==
    ASSUME SlotInv, BackupTypeOK', NEW p \in Callers, pc[p] # "idle", Moves(p) \/ Ends(p)
    PROVE  SlotInv'
  BY DEF SlotInv, BackupTypeOK, Moves, Ends, Streams, RunPoints

LEMMA SlotReserve ==
    ASSUME SlotInv, NEW p \in Callers, Reserve(p)
    PROVE  SlotInv'
<1>1. BackupTypeOK'
  BY DEF SlotInv, BackupTypeOK, Reserve, Goto, RunPoints
<1> QED
  BY <1>1 DEF SlotInv, BackupTypeOK, Reserve, SlotFree, Goto

LEMMA RunFailsMoves ==
    ASSUME SlotInv, NEW p \in Callers, RunFails(p)
    PROVE  BackupTypeOK' /\ pc[p] # "idle" /\ Moves(p)
<1>1. plan' \in [Callers -> PlanType] /\ pc' \in [Callers -> RunPoints]
  BY FailedType DEF SlotInv, RunFails
<1>2. dir' \in [Backups -> DirStates]
  BY DEF SlotInv, BackupTypeOK, RunFails, Abandoned, DirStates
<1>3. faults' \in 0..MaxFaults
  BY BackupAssumption DEF SlotInv, BackupTypeOK, RunFails, Fault
<1>4. BackupTypeOK'
  BY <1>1, <1>2, <1>3 DEF SlotInv, BackupTypeOK, RunFails
<1>5. Moves(p)
  <2>1. pc' = [pc EXCEPT ![p] = "finish"] /\ running' = running
    BY DEF RunFails, Failed, Goto
  <2>2. plan' = [plan EXCEPT ![p] = plan'[p]]
    BY DEF RunFails, Failed, SlotInv, BackupTypeOK
  <2> QED
    BY <1>4, <2>1, <2>2, MovesBy DEF RunPoints, Streams
<1> QED
  BY <1>4, <1>5 DEF RunFails

LEMMA SlotRestarted ==
    ASSUME SlotInv, Restarted, faults' \in 0..MaxFaults
    PROVE  SlotInv'
<1>1. dir' \in [Backups -> DirStates]
  BY DEF SlotInv, BackupTypeOK, Restarted, Abandoned, DirStates
<1> QED
  BY <1>1, NoPlanType DEF SlotInv, BackupTypeOK, Restarted, RunPoints

LEMMA SlotWorld ==
    ASSUME SlotInv, Tick \/ ArchiveWal \/ Promote
    PROVE  SlotInv'
<1>1. UNCHANGED <<pc, plan, running>>
  BY DEF Tick, ArchiveWal, Promote
<1>2. BackupTypeOK'
  <2> USE BackupAssumption DEF SlotInv, BackupTypeOK, Times, TLIs, Segs
  <2>1. CASE Tick
    BY <2>1 DEF Tick
  <2>2. CASE ArchiveWal
    BY <2>2 DEF ArchiveWal
  <2>3. CASE Promote
    BY <2>3 DEF Promote
  <2> QED
    BY <2>1, <2>2, <2>3
<1> QED
  BY <1>1, <1>2 DEF SlotInv

LEMMA SlotInit == Init => SlotInv
<1> SUFFICES ASSUME Init PROVE SlotInv
  OBVIOUS
<1> USE BackupAssumption DEF Init
<1>1. info \in [Backups -> Info] /\ dir \in [Backups -> DirStates]
  BY DEF Info, NoInfo, Times, TLIs, Segs, DirStates
<1>2. plan \in [Callers -> PlanType] /\ pc \in [Callers -> RunPoints]
  BY NoPlanType DEF RunPoints
<1>3. now \in Times /\ curTli \in TLIs /\ head \in Segs /\ forkSeg \in [TLIs -> Segs]
  BY DEF Times, TLIs, Segs
<1>4. BackupTypeOK
  <2>1. running \in BOOLEAN /\ ctxDone \in BOOLEAN
    OBVIOUS
  <2>2. wal \subseteq TLIs \X (0..(head - 1)) /\ done \subseteq Backups
    OBVIOUS
  <2>3. status \in {"idle", "running", "succeeded", "failed"} /\ faults \in 0..MaxFaults
    OBVIOUS
  <2> QED
    BY ONLY <1>1, <1>2, <1>3, <2>1, <2>2, <2>3 DEF BackupTypeOK
<1>5. /\ \A p \in Callers : pc[p] = "idle"
      /\ running = FALSE
  OBVIOUS
<1> QED
  BY <1>4, <1>5 DEF SlotInv

LEMMA SlotNext == SlotInv /\ [Next]_vars => SlotInv'
<1> SUFFICES ASSUME SlotInv, [Next]_vars PROVE SlotInv'
  OBVIOUS
<1>1. CASE Tick \/ ArchiveWal \/ Promote
  BY <1>1, SlotWorld
<1>2. ASSUME NEW p \in Callers, Reserve(p) PROVE SlotInv'
  BY <1>2, SlotReserve
<1>3. ASSUME NEW p \in Callers, RunStep(p) PROVE SlotInv'
  BY <1>3, RunStepType, RunMoves, SlotMoves
<1>4. ASSUME NEW p \in Callers, RunFails(p) PROVE SlotInv'
  BY <1>4, RunFailsMoves, SlotMoves
<1>5. CASE Cancel
  BY <1>5 DEF Cancel, SlotInv, BackupTypeOK
<1>6. CASE Exit \/ Kill
  <2>1. faults' \in 0..MaxFaults
    BY <1>6, BackupAssumption DEF Exit, Kill, Fault, SlotInv, BackupTypeOK
  <2> QED
    BY <1>6, <2>1, SlotRestarted DEF Exit, Kill
<1>7. CASE UNCHANGED vars
  BY <1>7 DEF vars, SlotInv, BackupTypeOK
<1> QED
  BY <1>1, <1>2, <1>3, <1>4, <1>5, <1>6, <1>7 DEF Next

(***************************************************************************)
(* tryStart and finish keep the slot and its holder in step, through       *)
(* errors, a shutdown and kills.                                           *)
(***************************************************************************)
THEOREM SlotInvariant == Spec => []SlotInv
<1> QED
  BY SlotInit, SlotNext, PTL DEF Spec

\* The type of the state: no deletion or backup goes beyond what was planned.
THEOREM BackupTyped == Spec => []BackupTypeOK
<1>1. SlotInv => BackupTypeOK
  BY DEF SlotInv
<1> QED
  BY <1>1, SlotInvariant, PTL

(***************************************************************************)
(* For any number of callers, at most one run is under way, and the state  *)
(* the API reports says so.                                                *)
(***************************************************************************)
THEOREM OneRunAtATime == Spec => []SingleRun
<1>1. SlotInv => SingleRun
  <2> SUFFICES ASSUME SlotInv PROVE SingleRun
    OBVIOUS
  <2> DEFINE active == {p \in Callers : pc[p] # "idle"}
  <2>1. Cardinality(active) <= 1
    <3>1. CASE active = {}
      BY <3>1, FS_EmptySet
    <3>2. CASE active # {}
      <4>1. PICK p \in active : TRUE
        BY <3>2
      <4>2. active = {p}
        BY <4>1 DEF SlotInv
      <4> QED
        BY <4>2, FS_Singleton
    <3> QED
      BY <3>1, <3>2
  <2>2. running <=> active # {}
    BY DEF SlotInv
  <2> QED
    BY <2>1, <2>2 DEF SingleRun
<1> QED
  BY <1>1, SlotInvariant, PTL

-----------------------------------------------------------------------------
(***************************************************************************)
(* The anchor.                                                             *)
(***************************************************************************)
LEMMA Numbers ==
    ASSUME BackupTypeOK
    PROVE  /\ now \in Int /\ head \in Int /\ curTli \in Int
           /\ WindowStart \in Int /\ MinimumBackups \in Nat
           /\ \A b \in Backups : Started(b) \in Int /\ info[b].tli \in Int /\ info[b].seg \in Int
  BY BackupAssumption
  DEF BackupTypeOK, WindowStart, MinimumBackups, Started, Info, Times, TLIs, Segs

LEMMA FiniteBackups ==
    ASSUME NEW S \in SUBSET Backups
    PROVE  IsFiniteSet(S) /\ Cardinality(S) \in Nat
<1>1. IsFiniteSet(Backups)
  BY FS_Interval, BackupAssumption DEF Backups
<1>2. IsFiniteSet(S)
  BY <1>1, FS_Subset
<1> QED
  BY <1>2, FS_CardinalityType

LEMMA SmallerSet ==
    ASSUME NEW S \in SUBSET Backups, NEW T \in SUBSET S
    PROVE  Cardinality(T) <= Cardinality(S)
  BY FiniteBackups, FS_Subset

\* From an older backup on, more are kept.
LEMMA OlderKeepsMore ==
    ASSUME BackupTypeOK, NEW S \in SUBSET Backups, NEW a \in Backups, NEW b \in Backups,
           Started(a) <= Started(b)
    PROVE  Cardinality(KeptFrom(S, b)) <= Cardinality(KeptFrom(S, a))
<1>1. KeptFrom(S, a) \in SUBSET Backups /\ KeptFrom(S, b) \in SUBSET KeptFrom(S, a)
  BY Numbers DEF KeptFrom
<1> QED
  BY <1>1, SmallerSet

(***************************************************************************)
(* What the anchor keeps is whole, and when it gives up anything at all it *)
(* is a good one: no remainder of an earlier, interrupted purge misleads   *)
(* the choice, although its marker may still be there.                     *)
(***************************************************************************)
LEMMA AnchorSound ==
    ASSUME SlotInv, LossInv, Readable # {}
    PROVE  LET a == ChooseRecoveryWindowAnchor(Readable)
           IN  /\ a \in Readable
               /\ \A b \in Readable : Started(a) <= Started(b) => b \in Marked
               /\ BackupsOlderThanAnchor(Readable, a) # {} => Good(a)
<1> DEFINE S == Readable
           a == ChooseRecoveryWindowAnchor(S)
           before == {b \in S : Started(b) <= WindowStart}
           byWindow == IF before # {} THEN NewestOf(before) ELSE OldestOf(S)
           deepEnough == {b \in S : Cardinality(KeptFrom(S, b)) >= MinimumBackups}
           Deep(b) == Cardinality(KeptFrom(S, b)) >= MinimumBackups
<1>0. BackupTypeOK /\ S \in SUBSET Backups /\ S # {}
  BY DEF SlotInv, Readable
<1>1. a = IF Deep(byWindow) THEN byWindow
          ELSE IF deepEnough # {} THEN NewestOf(deepEnough) ELSE OldestOf(S)
  BY DEF ChooseRecoveryWindowAnchor
<1>2. a \in S
  BY <1>0, AnchorIn
<1>3. /\ before # {} => byWindow \in before /\ \A b \in before : Started(b) <= Started(byWindow)
      /\ before = {} => byWindow = OldestOf(S)
  BY <1>0, NewestExists
<1>4. deepEnough # {} =>
        NewestOf(deepEnough) \in deepEnough
        /\ \A b \in deepEnough : Started(b) <= Started(NewestOf(deepEnough))
  BY <1>0, NewestExists
<1>5. OldestOf(S) \in S /\ \A b \in S : Started(OldestOf(S)) <= Started(b)
  BY <1>0, OldestExists
<1>6. \A b \in S : Cardinality(KeptFrom(S, b)) \in Nat
  BY <1>0, FiniteBackups DEF KeptFrom
\* A good anchor is one of those the choice is made from.
<1>7. ASSUME NEW g \in Backups, Good(g) PROVE g \in before /\ g \in deepEnough
  <2>1. g \in S /\ Started(g) <= WindowStart
    BY <1>7 DEF Good, Marked, Readable
  <2>2. KeptFrom(S, g) \in SUBSET Backups /\ KeptFrom(Marked, g) \in SUBSET KeptFrom(S, g)
    BY <1>0 DEF KeptFrom, Marked, Readable
  <2>3. Cardinality(KeptFrom(Marked, g)) <= Cardinality(KeptFrom(S, g))
    BY <2>2, SmallerSet
  <2>4. /\ Cardinality(KeptFrom(Marked, g)) \in Nat
        /\ Cardinality(KeptFrom(Marked, g)) >= MinimumBackups
    BY <1>7, FiniteBackups DEF Good, KeptFrom, Marked
  <2> QED
    BY <2>1, <2>3, <2>4, <1>0, <1>6, Numbers
\* So the anchor is no older than any good one.
<1>8. ASSUME NEW g \in Backups, Good(g) PROVE Started(g) <= Started(a)
  <2>1. g \in before /\ g \in deepEnough
    BY <1>7, <1>8
  <2>2. CASE Deep(byWindow)
    BY <1>1, <1>3, <2>1, <2>2
  <2>3. CASE ~Deep(byWindow)
    BY <1>1, <1>4, <2>1, <2>3
  <2> QED
    BY <2>2, <2>3
<1>9. ASSUME NEW b \in S, Started(a) <= Started(b) PROVE b \in Marked
  <2>1. CASE Deleted(b)
    <3>1. PICK g \in Backups : Good(g) /\ Started(b) < Started(g)
      BY <1>0, <2>1 DEF LossInv
    <3>2. Started(g) <= Started(a)
      BY <1>8, <3>1
    <3> QED
      BY <1>0, <1>2, <1>9, <3>1, <3>2, Numbers
  <2>2. CASE ~Deleted(b)
    BY <2>2, <1>0 DEF Deleted, Marked, Readable
  <2> QED
    BY <2>1, <2>2
<1>10. ASSUME BackupsOlderThanAnchor(S, a) # {} PROVE Good(a)
  <2>1. PICK o \in S : Started(o) < Started(a)
    BY <1>10 DEF BackupsOlderThanAnchor
  <2>2. a # OldestOf(S)
    BY <1>0, <1>2, <1>5, <2>1, Numbers
  <2>3. Started(a) <= WindowStart /\ Deep(a)
    <3>1. CASE Deep(byWindow)
      <4>1. a = byWindow
        BY <1>1, <3>1
      <4> QED
        BY <1>3, <2>2, <3>1, <4>1
    <3>2. CASE ~Deep(byWindow)
      <4>1. deepEnough # {} /\ a = NewestOf(deepEnough) /\ a \in deepEnough
        BY <1>1, <1>4, <2>2, <3>2
      <4>2. byWindow \in S
        BY <1>3, <1>5
      <4>3. Deep(a)
        BY <4>1
      <4>4. ~(Started(byWindow) <= Started(a))
        <5>1. SUFFICES ASSUME Started(byWindow) <= Started(a) PROVE FALSE
          OBVIOUS
        <5>2. Cardinality(KeptFrom(S, a)) <= Cardinality(KeptFrom(S, byWindow))
          BY <1>0, <1>2, <4>2, <5>1, OlderKeepsMore
        <5> QED
          BY <1>0, <1>2, <1>6, <4>2, <4>3, <3>2, <5>2, Numbers
      <4>5. before # {}
        BY <1>2, <1>3, <1>5, <4>4
      <4> QED
        BY <1>0, <1>2, <1>3, <4>2, <4>3, <4>4, <4>5, Numbers
    <3> QED
      BY <3>1, <3>2
  <2>4. KeptFrom(S, a) = KeptFrom(Marked, a)
    BY <1>0, <1>2, <1>9, Numbers DEF KeptFrom, Marked, Readable
  <2>5. a \in Marked
    BY <1>0, <1>2, <1>9, Numbers
  <2> QED
    BY <2>3, <2>4, <2>5 DEF Good
<1> QED
  BY <1>2, <1>9, <1>10

-----------------------------------------------------------------------------
(***************************************************************************)
(* Frames: what a step may do to the backups and to the WAL without        *)
(* disturbing a part of the invariant.                                     *)
(***************************************************************************)
SameBackup(b) ==
    Started(b)' = Started(b) /\ info'[b].tli = info[b].tli /\ info'[b].seg = info[b].seg
TimePasses == now <= now' /\ curTli <= curTli' /\ head <= head'

LEMMA OrderFrame ==
    ASSUME BackupTypeOK, BackupTypeOK', OrderInv, TimePasses,
           \A b \in Backups : SameBackup(b) /\ (Begun(b)' => Begun(b))
    PROVE  OrderInv'
<1>1. /\ now \in Int /\ curTli \in Int /\ head \in Int
      /\ \A b \in Backups : Started(b) \in Int /\ info[b].tli \in Int /\ info[b].seg \in Int
  BY Numbers
<1>2. now' \in Int /\ curTli' \in Int /\ head' \in Int
  BY DEF BackupTypeOK, Times, TLIs, Segs
<1>3. \A b \in Backups : Begun(b)' =>
        Started(b)' <= now' /\ info'[b].tli <= curTli' /\ info'[b].seg <= head'
  BY <1>1, <1>2 DEF OrderInv, SameBackup, TimePasses
<1>4. \A b, c \in Backups : Begun(b)' /\ Begun(c)' /\ Started(b)' <= Started(c)' =>
        info'[b].tli <= info'[c].tli /\ info'[b].seg <= info'[c].seg
  BY <1>1 DEF OrderInv, SameBackup
<1> QED
  BY <1>3, <1>4 DEF OrderInv

\* A good anchor stays good while nothing it keeps is deleted.
LEMMA GoodStays ==
    ASSUME BackupTypeOK, BackupTypeOK', NEW a \in Backups, Good(a), now <= now',
           \A b \in Marked : SameBackup(b) /\ (Started(a) <= Started(b) => b \in Marked')
    PROVE  Good(a)' /\ Started(a)' = Started(a)
<1>1. a \in Marked /\ Started(a)' = Started(a)
  BY DEF Good, SameBackup
<1>2. a \in Marked'
  BY <1>1, Numbers
<1>3. KeptFrom(Marked, a) \in SUBSET KeptFrom(Marked, a)' /\ KeptFrom(Marked, a)' \in SUBSET Backups
  <2>1. \A b \in Backups : Started(b) \in Int
    BY Numbers
  <2> QED
    BY <1>1, <2>1 DEF KeptFrom, SameBackup, Marked
<1>4. Cardinality(KeptFrom(Marked, a)) <= Cardinality(KeptFrom(Marked, a)')
  BY <1>3, SmallerSet
<1>5. Cardinality(KeptFrom(Marked, a)) \in Nat /\ Cardinality(KeptFrom(Marked, a)') \in Nat
  BY <1>3, FiniteBackups DEF KeptFrom, Marked
<1>6. Cardinality(KeptFrom(Marked, a)') >= MinimumBackups
  BY <1>4, <1>5, Numbers DEF Good
<1>7. Started(a)' <= WindowStart'
  <2>1. now \in Int /\ now' \in Int /\ Started(a) \in Int /\ RecoveryWindow \in Int
    BY Numbers, BackupAssumption DEF BackupTypeOK, Times
  <2> QED
    BY <1>1, <2>1 DEF Good, WindowStart
<1> QED
  BY <1>1, <1>2, <1>6, <1>7 DEF Good, MinimumBackups

LEMMA LossFrame ==
    ASSUME BackupTypeOK, BackupTypeOK', LossInv, now <= now',
           \A b \in Backups : Begun(b) => SameBackup(b),
           \A b \in Marked : b \in Marked',
           \A b \in Backups : Deleted(b)' <=> Deleted(b),
           \A b \in done' : b \in done \/ b \in Marked'
    PROVE  LossInv'
<1>1. ASSUME NEW b \in Backups, Deleted(b)'
      PROVE  \E a \in Backups : Good(a)' /\ Started(b)' < Started(a)'
  <2>1. PICK a \in Backups : Good(a) /\ Started(b) < Started(a)
    BY <1>1 DEF LossInv
  <2>2. Good(a)' /\ Started(a)' = Started(a)
    BY <2>1, GoodStays DEF Marked, Begun
  <2>3. Started(b)' = Started(b)
    BY <1>1 DEF Deleted, Begun, SameBackup
  <2> QED
    BY <2>1, <2>2, <2>3
<1>2. ASSUME NEW b \in done' PROVE dir'[b] = "marked" \/ Deleted(b)'
  <2>1. CASE b \in done
    BY <2>1 DEF LossInv, Marked, BackupTypeOK
  <2>2. CASE b \in Marked'
    BY <2>2 DEF Marked
  <2> QED
    BY <1>2, <2>1, <2>2
<1> QED
  BY <1>1, <1>2 DEF LossInv, Deleted

\* The WAL a backup needs, as the primary goes on.
LEMMA NeededWorld ==
    ASSUME BackupTypeOK, BackupTypeOK', NEW b \in Backups, SameBackup(b),
           info[b].tli <= curTli, Needed(b) \subseteq wal,
           ArchiveWal \/ Promote
    PROVE  Needed(b)' \subseteq wal'
<1> SUFFICES ASSUME NEW w \in Needed(b)' PROVE w \in wal'
  OBVIOUS
<1> USE DEF SameBackup
<1>0. /\ w \in WalFiles /\ w = <<w[1], w[2]>> /\ w[1] \in Int /\ w[2] \in Int
      /\ curTli \in Int /\ head \in Int /\ info[b].tli \in Int /\ info[b].tli >= 1
      /\ info[b].tli <= w[1] /\ w[1] <= curTli'
      /\ (IF w[1] = info[b].tli THEN info[b].seg ELSE forkSeg'[w[1] - 1]) <= w[2]
      /\ w[2] < (IF w[1] = curTli' THEN head' ELSE forkSeg'[w[1]])
  BY DEF Needed, WalFiles, TLIs, Segs, BackupTypeOK, Info
<1>1. CASE ArchiveWal
  <2>1. CASE w = <<curTli, head>>
    BY <1>1, <2>1 DEF ArchiveWal
  <2>2. CASE w # <<curTli, head>>
    <3>1. curTli' = curTli /\ head' = head + 1 /\ forkSeg' = forkSeg /\ wal \subseteq wal'
      BY <1>1 DEF ArchiveWal
    <3>2. w[1] = curTli => w[2] < head
      BY <1>0, <2>2, <3>1
    <3>3. w \in Needed(b)
      BY <1>0, <3>1, <3>2 DEF Needed
    <3> QED
      BY <3>1, <3>3
  <2> QED
    BY <2>1, <2>2
<1>2. CASE Promote
  <2>1. /\ curTli' = curTli + 1 /\ head' = head /\ wal' = wal
        /\ forkSeg'[curTli] = head
        /\ \A t \in TLIs : t # curTli => forkSeg'[t] = forkSeg[t]
    BY <1>2 DEF Promote, BackupTypeOK
  <2>2. forkSeg \in [TLIs -> Segs] /\ forkSeg' \in [TLIs -> Segs] /\ head \in Int
    BY DEF BackupTypeOK, Segs
  <2>3. w[1] # curTli + 1
    BY <1>0, <2>1
  <2>4. w[1] <= curTli
    BY <1>0, <2>1, <2>3
  <2>5. w[1] \in TLIs /\ (w[1] # info[b].tli => w[1] - 1 \in TLIs /\ w[1] - 1 # curTli)
    BY <1>0, <2>4, BackupAssumption DEF WalFiles, TLIs
  <2>6. w \in Needed(b)
    BY <1>0, <2>1, <2>3, <2>4, <2>5 DEF Needed
  <2> QED
    BY <2>1, <2>6
<1> QED
  BY <1>1, <1>2

LEMMA NeededFrame ==
    ASSUME NEW b \in Backups, SameBackup(b), UNCHANGED <<curTli, head, forkSeg>>
    PROVE  Needed(b)' = Needed(b)
  BY DEF Needed, SameBackup

\* What sorts before a boundary is not needed by what begins at or after it.
LEMMA NeededBefore ==
    ASSUME BackupTypeOK, NEW b \in Backups, NEW w \in Needed(b), NEW k \in WalFiles,
           WalBefore(w, k)
    PROVE  WalBefore(BackupBeginWAL(b), k)
  BY Numbers DEF Needed, WalBefore, BackupBeginWAL, WalFiles, TLIs, Segs

LEMMA RunIdle ==
    ASSUME NEW p, pc'[p] \in {"idle", "finish"}
    PROVE  RunInv(p)'
  BY DEF RunInv, Purging

-----------------------------------------------------------------------------
(***************************************************************************)
(* The steps.                                                              *)
(***************************************************************************)
Rest == OrderInv /\ LossInv /\ BackupsAreRestorable

\* The others are idle while a caller runs.
LEMMA Others ==
    ASSUME SlotInv, NEW p \in Callers, pc[p] # "idle", Moves(p) \/ Ends(p)
    PROVE  \A q \in Callers : q # p => RunInv(q)'
<1> SUFFICES ASSUME NEW q \in Callers, q # p PROVE RunInv(q)'
  OBVIOUS
<1>1. pc'[q] = "idle"
  BY DEF SlotInv, BackupTypeOK, Moves, Ends
<1> QED
  BY <1>1, RunIdle

\* Steps that leave backups, WAL and the world alone.
LEMMA RestFrame ==
    ASSUME SlotInv, SlotInv', Rest, UNCHANGED <<worldVars, wal, dir, info, done>>
    PROVE  Rest'
<1>1. OrderInv'
  BY DEF Rest, OrderInv, Begun, Started
<1>2. LossInv'
  BY DEF Rest, LossInv, Deleted, Good, Marked, KeptFrom, Started, WindowStart
<1>3. BackupsAreRestorable'
  BY DEF Rest, BackupsAreRestorable, Needed
<1> QED
  BY <1>1, <1>2, <1>3 DEF Rest

LEMMA WorldStep ==
    ASSUME SlotInv, SlotInv', Rest, \A p \in Callers : RunInv(p), Tick \/ ArchiveWal \/ Promote
    PROVE  Rest' /\ \A p \in Callers : RunInv(p)'
<1>0. BackupTypeOK /\ BackupTypeOK'
  BY DEF SlotInv
<1>1. UNCHANGED <<dir, info, pc, plan, done>>
  BY DEF Tick, ArchiveWal, Promote
<1>2. TimePasses
  BY <1>0, Numbers DEF TimePasses, Tick, ArchiveWal, Promote
<1>3. \A b \in Backups : SameBackup(b) /\ (Begun(b)' <=> Begun(b))
  BY <1>1 DEF SameBackup, Begun, Started
<1>4. OrderInv'
  BY <1>0, <1>2, <1>3, OrderFrame DEF Rest
<1>5. Marked' = Marked /\ \A b \in Backups : Deleted(b)' <=> Deleted(b)
  BY <1>1 DEF Marked, Deleted
<1>6. LossInv'
  BY <1>0, <1>1, <1>2, <1>3, <1>5, LossFrame DEF Rest, TimePasses
<1>7. ASSUME NEW b \in Backups, Begun(b), Needed(b) \subseteq wal PROVE Needed(b)' \subseteq wal'
  <2>1. CASE Tick
    BY <1>3, <1>7, <2>1, NeededFrame DEF Tick
  <2>2. CASE ArchiveWal \/ Promote
    BY <1>0, <1>3, <1>7, <2>2, NeededWorld DEF Rest, OrderInv
  <2> QED
    BY <2>1, <2>2
<1>8. BackupsAreRestorable'
  BY <1>1, <1>7 DEF Rest, BackupsAreRestorable, Begun
<1>9. \A a \in Backups : Good(a) => Good(a)'
  BY <1>0, <1>2, <1>3, <1>5, GoodStays DEF TimePasses, Marked
<1>10. ASSUME NEW p \in Callers PROVE RunInv(p)'
  <2>0. RunInv(p)
    OBVIOUS
  <2>1. \A b \in Backups : Started(b)' = Started(b) /\ BackupBeginWAL(b)' = BackupBeginWAL(b)
    BY <1>1 DEF Started, BackupBeginWAL
  <2>2. pc[p] \in {"load", "create"} \/ Purging(p) =>
          \A b \in Backups : Begun(b)' => Started(b)' < now'
    BY <2>0, <2>1, <1>0, <1>2, <1>3, Numbers DEF RunInv, TimePasses, BackupTypeOK, Times
  <2>3. Purging(p)' =>
         /\ \A b \in Marked' \ plan'[p].del : ~WalBefore(BackupBeginWAL(b)', plan'[p].keepFrom)
         /\ \A b \in plan'[p].del : Begun(b)'
         /\ plan'[p].del # {} =>
              \E a \in Backups : Good(a)' /\ \A b \in plan'[p].del : Started(b)' < Started(a)'
    <3>1. plan[p].del \subseteq Backups
      BY <1>0 DEF BackupTypeOK, PlanType
    <3> QED
      BY <2>0, <2>1, <1>1, <1>3, <1>5, <1>9, <3>1 DEF RunInv, Purging, Marked
  <2>4. pc'[p] \in {"stream", "marker"} =>
          dir'[plan'[p].id] = "streaming" /\ Needed(plan[p].id)' \subseteq wal'
    <3> SUFFICES ASSUME pc[p] \in {"stream", "marker"}
                 PROVE  dir'[plan'[p].id] = "streaming" /\ Needed(plan[p].id)' \subseteq wal'
      BY <1>1
    <3>1. PICK i \in Backups : i = plan[p].id
      BY DEF SlotInv
    <3>2. dir[i] = "streaming" /\ Needed(i) \subseteq wal
      BY <2>0, <3>1 DEF RunInv, Needed
    <3>3. Needed(i)' \subseteq wal'
      BY <1>7, <3>2 DEF Begun
    <3>4. Needed(plan[p].id)' = Needed(i)'
      BY <1>1, <3>1 DEF Needed
    <3> QED
      BY <1>1, <3>1, <3>2, <3>3, <3>4
  <2> QED
    BY <2>0, <2>2, <2>3, <2>4, <1>1, <1>5 DEF RunInv, Purging, WalBefore, Deleted
<1> QED
  BY <1>4, <1>6, <1>8, <1>10 DEF Rest

\* loadSuccessfulBackups and the choice of the anchor.
LEMMA LoadStep ==
    ASSUME SoundFaults, SlotInv, SlotInv', Rest, NEW p \in Callers, RunInv(p), LoadBackups(p)
    PROVE  Rest' /\ RunInv(p)'
<1>0. BackupTypeOK /\ plan \in [Callers -> PlanType] /\ pc \in [Callers -> RunPoints]
  BY DEF SlotInv, BackupTypeOK
<1>1. Rest'
  BY RestFrame DEF LoadBackups
<1>2. \A b \in Backups : Begun(b) => Started(b) < now
  BY DEF LoadBackups, RunInv
<1>3. UNCHANGED <<now, dir, info>>
  BY DEF LoadBackups
<1>4. CASE Failed(p)
  BY <1>0, <1>1, <1>4, RunIdle DEF Failed, Goto
<1>5. CASE Plan(p, Readable)
  <2>1. CASE Readable = {} \/ ~RetentionEnable
    <3>1. pc'[p] = "create"
      BY <1>0, <1>5, <2>1 DEF Plan, Goto
    <3>2. \A b \in Backups : Begun(b)' => Started(b)' < now'
      BY <1>2, <1>3 DEF Begun, Started
    <3> QED
      BY <1>1, <3>1, <3>2 DEF RunInv, Purging
  <2>2. CASE ~(Readable = {} \/ ~RetentionEnable)
    <3>1. PICK a \in Readable : a = ChooseRecoveryWindowAnchor(Readable)
      BY <2>2, AnchorSound DEF Rest
    <3>2. PICK older \in SUBSET Backups : older = BackupsOlderThanAnchor(Readable, a)
      BY DEF BackupsOlderThanAnchor, Readable
    <3>3. /\ \A b \in Readable : Started(a) <= Started(b) => b \in Marked
          /\ older # {} => Good(a)
      BY <2>2, <3>1, <3>2, AnchorSound DEF Rest
    <3>4. /\ plan' = [plan EXCEPT ![p].del = older, ![p].keepFrom = BackupBeginWAL(a)]
          /\ pc' = [pc EXCEPT ![p] = "purge"]
      BY <1>5, <2>2, <3>1, <3>2 DEF Plan, Goto
    <3>5. pc'[p] = "purge" /\ plan'[p].del = older /\ plan'[p].keepFrom = BackupBeginWAL(a)
      BY <1>0, <3>4 DEF PlanType
    <3>6. a \in Backups /\ Begun(a)
      BY <3>1 DEF Readable, Begun
    <3>7. ASSUME NEW b \in Marked, b \notin older
          PROVE  ~WalBefore(BackupBeginWAL(b), BackupBeginWAL(a))
      <4>1. b \in Backups /\ Begun(b) /\ b \in Readable
        BY DEF Marked, Begun, Readable
      <4>2. Started(a) <= Started(b)
        BY <1>0, <3>2, <3>6, <3>7, <4>1, Numbers DEF BackupsOlderThanAnchor
      <4>3. info[a].tli <= info[b].tli /\ info[a].seg <= info[b].seg
        BY <3>6, <4>1, <4>2 DEF Rest, OrderInv
      <4> QED
        BY <1>0, <3>6, <4>1, <4>3, Numbers DEF WalBefore, BackupBeginWAL
    <3>8. \A b \in older : Begun(b) /\ Started(b) < Started(a)
      BY <3>2 DEF BackupsOlderThanAnchor, Readable, Begun
    <3>9. /\ \A b \in Backups : Begun(b)' <=> Begun(b)
          /\ \A b \in Backups : Started(b)' = Started(b)
          /\ \A b \in Backups : BackupBeginWAL(b)' = BackupBeginWAL(b)
          /\ Marked' = Marked
      BY <1>3 DEF Begun, Started, BackupBeginWAL, Marked
    <3>10. Good(a) => Good(a)'
      BY <1>3 DEF Good, Marked, KeptFrom, Started, WindowStart
    <3>11. \A b \in Marked' \ older : ~WalBefore(BackupBeginWAL(b)', plan'[p].keepFrom)
      BY <3>5, <3>7, <3>9 DEF Marked
    <3>12. older # {} =>
             \E g \in Backups : Good(g)' /\ \A b \in older : Started(b)' < Started(g)'
      BY <3>3, <3>6, <3>8, <3>9, <3>10
    <3> QED
      BY <1>1, <1>2, <1>3, <3>5, <3>8, <3>9, <3>11, <3>12 DEF RunInv, Purging
  <2> QED
    BY <2>1, <2>2
<1>6. Failed(p) \/ Plan(p, Readable)
  BY DEF LoadBackups, Fault, SoundFaults
<1> QED
  BY <1>4, <1>5, <1>6

\* A backup is torn: only one that is older than a good anchor.
LEMMA DeleteStep ==
    ASSUME SlotInv, SlotInv', Rest, NEW p \in Callers, RunInv(p), DeleteBackup(p)
    PROVE  Rest' /\ RunInv(p)'
<1>0. /\ BackupTypeOK /\ BackupTypeOK' /\ plan \in [Callers -> PlanType]
      /\ pc \in [Callers -> RunPoints] /\ dir \in [Backups -> DirStates]
  BY DEF SlotInv, BackupTypeOK
<1>1. PICK b \in plan[p].del, left \in {"torn", "tornMarked"} :
        plan' = [plan EXCEPT ![p].cur = b] /\ dir' = [dir EXCEPT ![b] = left]
  BY DEF DeleteBackup
<1>2. /\ b \in Backups /\ Begun(b) /\ pc[p] = "purge" /\ pc'[p] = "deleteDir"
      /\ UNCHANGED <<now, curTli, head, forkSeg, wal, info, done>>
  BY <1>0 DEF DeleteBackup, RunInv, Purging, PlanType, Goto
<1>3. plan'[p].cur = b /\ plan'[p].del = plan[p].del /\ plan'[p].keepFrom = plan[p].keepFrom
  BY <1>0, <1>1 DEF PlanType
<1>4. /\ Deleted(b)' /\ Begun(b)' /\ Marked' = Marked \ {b}
      /\ \A c \in Backups : c # b => (Deleted(c)' <=> Deleted(c))
      /\ \A c \in Backups : Begun(c)' <=> Begun(c)
  BY <1>0, <1>1, <1>2 DEF Deleted, Begun, Marked
<1>5. \A c \in Backups :
        SameBackup(c) /\ Started(c)' = Started(c) /\ BackupBeginWAL(c)' = BackupBeginWAL(c)
  BY <1>2 DEF SameBackup, Started, BackupBeginWAL
<1>6. PICK a \in Backups : Good(a) /\ \A c \in plan[p].del : Started(c) < Started(a)
  BY <1>2 DEF RunInv, Purging
<1>7. \A g \in Backups : Good(g) /\ Started(a) <= Started(g) => Good(g)'
  <2> SUFFICES ASSUME NEW g \in Backups, Good(g), Started(a) <= Started(g) PROVE Good(g)'
    OBVIOUS
  <2>1. Started(b) < Started(g)
    BY <1>0, <1>2, <1>6, Numbers
  <2>2. \A c \in Marked : Started(g) <= Started(c) => c \in Marked'
    BY <1>0, <1>2, <1>4, <2>1, Numbers DEF Marked
  <2> QED
    BY <1>0, <1>2, <1>5, <2>2, GoodStays, Numbers DEF Marked
<1>8. Good(a)'
  BY <1>0, <1>6, <1>7, Numbers
<1>9. OrderInv'
  BY <1>0, <1>2, <1>4, <1>5, OrderFrame, Numbers DEF Rest, TimePasses
<1>10. LossInv'
  <2>1. ASSUME NEW c \in Backups, Deleted(c)'
        PROVE  \E g \in Backups : Good(g)' /\ Started(c)' < Started(g)'
    <3>1. CASE c = b
      BY <1>2, <1>5, <1>6, <1>8, <3>1
    <3>2. CASE c # b
      <4>1. PICK g \in Backups : Good(g) /\ Started(c) < Started(g)
        BY <1>4, <2>1, <3>2 DEF Rest, LossInv
      <4>2. CASE Started(a) <= Started(g)
        BY <1>5, <1>7, <4>1, <4>2
      <4>3. CASE ~(Started(a) <= Started(g))
        BY <1>0, <1>5, <1>8, <4>1, <4>3, Numbers
      <4> QED
        BY <4>2, <4>3
    <3> QED
      BY <3>1, <3>2
  <2>2. \A c \in done' : dir'[c] = "marked" \/ Deleted(c)'
    BY <1>0, <1>1, <1>2, <1>4 DEF Rest, LossInv, BackupTypeOK
  <2> QED
    BY <2>1, <2>2 DEF LossInv, Deleted
<1>11. BackupsAreRestorable'
  <2>1. \A c \in Backups : Needed(c)' = Needed(c)
    BY <1>2, <1>5, NeededFrame
  <2> QED
    BY <1>2, <1>4, <2>1 DEF Rest, BackupsAreRestorable, Marked
<1>12. RunInv(p)'
  <2>1. \A c \in Marked' \ plan'[p].del : ~WalBefore(BackupBeginWAL(c)', plan'[p].keepFrom)
    BY <1>2, <1>3, <1>4, <1>5 DEF RunInv, Purging, Marked
  <2>2. plan[p].del \subseteq Backups
    BY <1>0 DEF PlanType
  <2>3. \A c \in plan'[p].del : Begun(c)' /\ Started(c)' < Started(a)'
    BY <1>2, <1>3, <1>4, <1>5, <1>6, <2>2 DEF RunInv, Purging
  <2>4. \A c \in Backups : Begun(c)' => Started(c)' < now'
    BY <1>2, <1>4, <1>5 DEF RunInv, Purging
  <2>5. plan'[p].cur \in plan'[p].del /\ Deleted(plan[p].cur)'
    BY <1>3, <1>4 DEF Deleted
  <2> QED
    BY <1>2, <1>8, <2>1, <2>3, <2>4, <2>5 DEF RunInv, Purging
<1> QED
  BY <1>9, <1>10, <1>11, <1>12 DEF Rest

LEMMA DirEndsStep ==
    ASSUME SlotInv, SlotInv', Rest, NEW p \in Callers, RunInv(p), DeleteDirEnds(p)
    PROVE  Rest' /\ RunInv(p)'
<1>0. /\ BackupTypeOK /\ BackupTypeOK' /\ plan \in [Callers -> PlanType]
      /\ pc \in [Callers -> RunPoints] /\ dir \in [Backups -> DirStates]
  BY DEF SlotInv, BackupTypeOK
<1>1. PICK b \in plan[p].del : b = plan[p].cur
  BY DEF DeleteDirEnds, RunInv
<1>2. /\ b \in Backups /\ Deleted(b) /\ pc[p] = "deleteDir" /\ pc'[p] = "purge"
      /\ UNCHANGED <<now, curTli, head, forkSeg, wal, info, done>>
      /\ dir' = [dir EXCEPT ![b] = "gone"]
  BY <1>0, <1>1 DEF DeleteDirEnds, RunInv, PlanType, Goto, Deleted
<1>3. plan'[p].del = plan[p].del \ {b} /\ plan'[p].keepFrom = plan[p].keepFrom
  BY <1>0, <1>1 DEF DeleteDirEnds, PlanType
<1>4. /\ Marked' = Marked /\ b \notin Marked
      /\ \A c \in Backups : Deleted(c)' <=> Deleted(c)
      /\ \A c \in Backups : Begun(c)' <=> Begun(c)
  BY <1>0, <1>2 DEF Deleted, Begun, Marked
<1>5. \A c \in Backups :
        SameBackup(c) /\ Started(c)' = Started(c) /\ BackupBeginWAL(c)' = BackupBeginWAL(c)
  BY <1>2 DEF SameBackup, Started, BackupBeginWAL
<1>6. OrderInv'
  BY <1>0, <1>2, <1>4, <1>5, OrderFrame, Numbers DEF Rest, TimePasses
<1>7. LossInv'
  BY <1>0, <1>2, <1>4, <1>5, LossFrame, Numbers DEF Rest
<1>8. BackupsAreRestorable'
  <2>1. \A c \in Backups : Needed(c)' = Needed(c)
    BY <1>2, <1>5, NeededFrame
  <2> QED
    BY <1>2, <1>4, <2>1 DEF Rest, BackupsAreRestorable, Marked
<1>9. \A a \in Backups : Good(a) => Good(a)'
  BY <1>0, <1>2, <1>4, <1>5, GoodStays, Numbers DEF Marked
<1>10. RunInv(p)'
  <2>1. plan[p].del \subseteq Backups
    BY <1>0 DEF PlanType
  <2>2. \A c \in Marked' \ plan'[p].del : ~WalBefore(BackupBeginWAL(c)', plan'[p].keepFrom)
    BY <1>2, <1>3, <1>4, <1>5 DEF RunInv, Purging, Marked
  <2>3. \A c \in plan'[p].del : Begun(c)'
    BY <1>2, <1>3, <1>4, <2>1 DEF RunInv, Purging
  <2>4. plan'[p].del # {} =>
          \E a \in Backups : Good(a)' /\ \A c \in plan'[p].del : Started(c)' < Started(a)'
    BY <1>2, <1>3, <1>5, <1>9, <2>1 DEF RunInv, Purging
  <2>5. \A c \in Backups : Begun(c)' => Started(c)' < now'
    BY <1>2, <1>4, <1>5 DEF RunInv, Purging
  <2> QED
    BY <1>2, <2>2, <2>3, <2>4, <2>5 DEF RunInv, Purging
<1> QED
  BY <1>6, <1>7, <1>8, <1>10 DEF Rest

\* The WAL: what is deleted sorts before everything a whole backup needs.
LEMMA ListStep ==
    ASSUME SlotInv, SlotInv', Rest, NEW p \in Callers, RunInv(p), ListWal(p)
    PROVE  Rest' /\ RunInv(p)'
<1>0. BackupTypeOK /\ plan \in [Callers -> PlanType] /\ pc \in [Callers -> RunPoints]
  BY DEF SlotInv, BackupTypeOK
<1>1. Rest'
  BY RestFrame DEF ListWal
<1>2. pc[p] = "purge" /\ pc'[p] = "clean" /\ plan[p].del = {} /\ UNCHANGED <<now, dir, info>>
  BY <1>0 DEF ListWal, Goto
<1>3. PICK W : W = {w \in wal : WalBefore(w, plan[p].keepFrom)}
  OBVIOUS
<1>4. plan'[p].del = {} /\ plan'[p].keepFrom = plan[p].keepFrom /\ plan'[p].wals = W
  BY <1>0, <1>2, <1>3 DEF ListWal, PlanType
<1>5. \A w \in plan'[p].wals : WalBefore(w, plan'[p].keepFrom)
  BY <1>3, <1>4
<1>6. \A b \in Marked' \ plan'[p].del : ~WalBefore(BackupBeginWAL(b)', plan'[p].keepFrom)
  BY <1>2, <1>4 DEF RunInv, Purging, Marked, BackupBeginWAL
<1>7. \A b \in Backups : Begun(b)' => Started(b)' < now'
  BY <1>2 DEF RunInv, Purging, Begun, Started
<1> QED
  BY <1>1, <1>2, <1>4, <1>5, <1>6, <1>7 DEF RunInv, Purging, WalBefore

LEMMA DeleteWalStep ==
    ASSUME SlotInv, SlotInv', Rest, NEW p \in Callers, RunInv(p), DeleteWal(p)
    PROVE  Rest' /\ RunInv(p)'
<1>0. BackupTypeOK /\ plan \in [Callers -> PlanType] /\ pc \in [Callers -> RunPoints]
  BY DEF SlotInv, BackupTypeOK
<1>1. CASE Failed(p) /\ UNCHANGED wal
  <2>1. Rest'
    BY <1>1, RestFrame DEF DeleteWal
  <2> QED
    BY <1>0, <1>1, <2>1, RunIdle DEF Failed, Goto
<1>2. ASSUME NEW w \in plan[p].wals, wal' = wal \ {w},
             plan' = [plan EXCEPT ![p].wals = plan[p].wals \ {w}], pc' = pc
      PROVE  Rest' /\ RunInv(p)'
  <2>1. UNCHANGED <<now, curTli, head, forkSeg, dir, info, done>> /\ pc[p] = "clean"
    BY DEF DeleteWal
  <2>2. /\ plan'[p].del = plan[p].del /\ plan'[p].keepFrom = plan[p].keepFrom
        /\ plan'[p].wals = plan[p].wals \ {w}
    BY <1>0, <1>2 DEF PlanType
  <2>3. OrderInv'
    BY <2>1 DEF Rest, OrderInv, Begun, Started
  <2>4. LossInv'
    BY <2>1 DEF Rest, LossInv, Deleted, Good, Marked, KeptFrom, Started, WindowStart
  <2>5. BackupsAreRestorable'
    <3>1. ASSUME NEW b \in Backups, dir[b] = "marked" PROVE w \notin Needed(b)
      <4>1. ~WalBefore(BackupBeginWAL(b), plan[p].keepFrom)
        BY <2>1, <3>1 DEF RunInv, Purging, Marked
      <4>2. WalBefore(w, plan[p].keepFrom) /\ plan[p].keepFrom \in WalFiles
        BY <1>0, <1>2, <2>1 DEF RunInv, PlanType
      <4> QED
        BY <1>0, <4>1, <4>2, NeededBefore
    <3>2. \A b \in Backups : Needed(b)' = Needed(b)
      BY <2>1 DEF Needed
    <3> QED
      BY <1>2, <2>1, <3>1, <3>2 DEF Rest, BackupsAreRestorable
  <2>6. RunInv(p)'
    <3>1. \A b \in Marked' \ plan'[p].del : ~WalBefore(BackupBeginWAL(b)', plan'[p].keepFrom)
      BY <2>1, <2>2 DEF RunInv, Purging, Marked, BackupBeginWAL
    <3>2. \A b \in Backups : Begun(b)' => Started(b)' < now'
      BY <2>1 DEF RunInv, Purging, Begun, Started
    <3>3. plan'[p].del = {} /\ \A v \in plan'[p].wals : WalBefore(v, plan'[p].keepFrom)
      BY <2>1, <2>2 DEF RunInv
    <3> QED
      BY <1>2, <2>1, <3>1, <3>2, <3>3 DEF RunInv, Purging, WalBefore
  <2> QED
    BY <2>3, <2>4, <2>5, <2>6 DEF Rest
<1> QED
  BY <1>1, <1>2 DEF DeleteWal

LEMMA CleanEndsStep ==
    ASSUME SlotInv, SlotInv', Rest, NEW p \in Callers, RunInv(p), CleanEnds(p)
    PROVE  Rest' /\ RunInv(p)'
<1>1. Rest'
  BY RestFrame DEF CleanEnds
<1>2. pc[p] = "clean" /\ pc'[p] = "create" /\ UNCHANGED <<now, dir, info>>
  BY DEF SlotInv, BackupTypeOK, CleanEnds, Goto
<1>3. \A b \in Backups : Begun(b)' => Started(b)' < now'
  BY <1>2 DEF RunInv, Purging, Begun, Started
<1> QED
  BY <1>1, <1>2, <1>3 DEF RunInv, Purging

\* A new backup starts after all the others and needs no WAL yet.
LEMMA StartStep ==
    ASSUME SlotInv, SlotInv', Rest, NEW p \in Callers, RunInv(p), StartBackup(p)
    PROVE  Rest' /\ RunInv(p)'
<1>0. /\ BackupTypeOK /\ BackupTypeOK' /\ plan \in [Callers -> PlanType]
      /\ pc \in [Callers -> RunPoints] /\ dir \in [Backups -> DirStates]
      /\ info \in [Backups -> Info]
  BY DEF SlotInv, BackupTypeOK
<1>1. CASE Failed(p) /\ UNCHANGED <<dir, info>>
  <2>1. Rest'
    BY <1>1, RestFrame DEF StartBackup
  <2> QED
    BY <1>0, <1>1, <2>1, RunIdle DEF Failed, Goto
<1>2. ASSUME NEW b \in Backups, dir[b] = "none", dir' = [dir EXCEPT ![b] = "streaming"],
             info' = [info EXCEPT ![b] = [startedAt |-> now, finishedAt |-> now,
                                          tli |-> curTli, seg |-> head]],
             plan' = [plan EXCEPT ![p].id = b], Goto(p, "stream")
      PROVE  Rest' /\ RunInv(p)'
  <2>1. UNCHANGED <<now, curTli, head, forkSeg, wal, done>> /\ pc[p] = "create"
    BY DEF StartBackup
  <2>2. /\ dir'[b] = "streaming" /\ pc'[p] = "stream" /\ plan'[p].id = b
        /\ Started(b)' = now /\ info'[b].tli = curTli /\ info'[b].seg = head
    BY <1>0, <1>2 DEF Goto, PlanType, Started
  <2>3. \A c \in Backups : c # b => SameBackup(c) /\ dir'[c] = dir[c]
    BY <1>0, <1>2 DEF SameBackup, Started
  <2>4. \A c \in Backups : Begun(c) => c # b /\ Started(c) < now
    BY <1>2, <2>1 DEF RunInv, Begun
  <2>5. OrderInv'
    <3>1. \A c \in Backups : Begun(c)' /\ c # b => Begun(c)
      BY <2>3 DEF Begun
    <3>2. \A c \in Backups : Begun(c)' =>
            Started(c)' <= now' /\ info'[c].tli <= curTli' /\ info'[c].seg <= head'
      BY <1>0, <2>1, <2>2, <2>3, <3>1, Numbers DEF Rest, OrderInv, SameBackup
    <3>3. ASSUME NEW c \in Backups, NEW d \in Backups, Begun(c)', Begun(d)',
                 Started(c)' <= Started(d)'
          PROVE  info'[c].tli <= info'[d].tli /\ info'[c].seg <= info'[d].seg
      <4>1. CASE d = b
        BY <2>1, <2>2, <3>2, <3>3, <4>1
      <4>2. CASE d # b /\ c = b
        <5>1. Started(d)' < now /\ Started(d)' \in Int /\ now \in Int
          BY <1>0, <2>3, <2>4, <3>1, <3>3, <4>2, Numbers DEF SameBackup
        <5> QED
          BY <2>2, <3>3, <4>2, <5>1
      <4>3. CASE d # b /\ c # b
        BY <2>3, <3>1, <3>3, <4>3 DEF Rest, OrderInv, SameBackup
      <4> QED
        BY <4>1, <4>2, <4>3
    <3> QED
      BY <3>2, <3>3 DEF OrderInv
  <2>6. LossInv'
    <3>1. \A c \in Backups : Begun(c) => SameBackup(c)
      BY <2>3, <2>4
    <3>2. \A c \in Marked : c \in Marked'
      BY <1>2, <2>3 DEF Marked
    <3>3. \A c \in Backups : Deleted(c)' <=> Deleted(c)
      BY <1>2, <2>2, <2>3 DEF Deleted
    <3> QED
      BY <1>0, <2>1, <3>1, <3>2, <3>3, LossFrame, Numbers DEF Rest
  <2>7. BackupsAreRestorable'
    BY <2>1, <2>2, <2>3, NeededFrame DEF Rest, BackupsAreRestorable
  <2>8. Needed(plan[p].id)' \subseteq wal'
    <3>1. Needed(plan[p].id)' = {}
      BY <1>0, <2>1, <2>2, Numbers DEF Needed, WalFiles, TLIs, Segs
    <3> QED
      BY <3>1
  <2> QED
    BY <2>2, <2>5, <2>6, <2>7, <2>8 DEF Rest, RunInv, Purging
<1> QED
  BY <1>1, <1>2 DEF StartBackup

\* The end of the stream changes nothing the retention looks at.
LEMMA StreamStep ==
    ASSUME SlotInv, SlotInv', Rest, NEW p \in Callers, RunInv(p), StreamEnds(p)
    PROVE  Rest' /\ RunInv(p)'
<1>0. /\ BackupTypeOK /\ BackupTypeOK' /\ pc \in [Callers -> RunPoints]
      /\ info \in [Backups -> Info]
  BY DEF SlotInv, BackupTypeOK
<1>1. /\ UNCHANGED <<now, curTli, head, forkSeg, wal, dir, plan, done>>
      /\ pc[p] = "stream" /\ pc'[p] = "marker"
  BY <1>0 DEF StreamEnds, Goto
<1>2. \A b \in Backups : SameBackup(b)
  BY <1>0 DEF StreamEnds, SameBackup, Started, Info
<1>3. /\ \A b \in Backups : (Begun(b)' <=> Begun(b)) /\ (Deleted(b)' <=> Deleted(b))
      /\ Marked' = Marked
  BY <1>1 DEF Begun, Deleted, Marked
<1>4. OrderInv'
  BY <1>0, <1>1, <1>2, <1>3, OrderFrame, Numbers DEF Rest, TimePasses
<1>5. LossInv'
  BY <1>0, <1>1, <1>2, <1>3, LossFrame, Numbers DEF Rest
<1>6. \A b \in Backups : Needed(b)' = Needed(b)
  BY <1>1, <1>2, NeededFrame
<1>7. BackupsAreRestorable'
  BY <1>1, <1>6 DEF Rest, BackupsAreRestorable
<1>8. PICK i \in Backups : i = plan[p].id
  BY <1>1 DEF SlotInv
<1>9. dir'[i] = "streaming" /\ Needed(i)' \subseteq wal'
  BY <1>1, <1>6, <1>8 DEF RunInv, Needed
<1>10. Needed(plan[p].id)' = Needed(i)'
  BY <1>1, <1>8 DEF Needed
<1> QED
  BY <1>1, <1>4, <1>5, <1>7, <1>8, <1>9, <1>10 DEF Rest, RunInv, Purging

\* The marker: the backup becomes whole, with the WAL it needs in the archive.
LEMMA MarkerStep ==
    ASSUME SlotInv, SlotInv', Rest, NEW p \in Callers, RunInv(p), PutMarker(p)
    PROVE  Rest' /\ RunInv(p)'
<1>0. /\ BackupTypeOK /\ BackupTypeOK' /\ pc \in [Callers -> RunPoints]
      /\ dir \in [Backups -> DirStates]
  BY DEF SlotInv, BackupTypeOK
<1>1. /\ UNCHANGED <<now, curTli, head, forkSeg, wal, info>>
      /\ pc[p] = "marker" /\ pc'[p] = "finish"
  BY <1>0 DEF PutMarker, Goto
<1>2. PICK i \in Backups : i = plan[p].id
  BY <1>1 DEF SlotInv
<1>3. /\ dir[i] = "streaming" /\ Needed(i) \subseteq wal
      /\ dir' = [dir EXCEPT ![i] = "marked"] /\ done' = done \cup {i}
  BY <1>1, <1>2 DEF PutMarker, RunInv, Needed
<1>4. \A b \in Backups : SameBackup(b)
  BY <1>1 DEF SameBackup, Started
<1>5. /\ \A b \in Backups : (Begun(b)' <=> Begun(b)) /\ (Deleted(b)' <=> Deleted(b))
      /\ Marked' = Marked \cup {i}
  BY <1>0, <1>3 DEF Begun, Deleted, Marked
<1>6. OrderInv'
  BY <1>0, <1>1, <1>4, <1>5, OrderFrame, Numbers DEF Rest, TimePasses
<1>7. LossInv'
  BY <1>0, <1>1, <1>3, <1>4, <1>5, LossFrame, Numbers DEF Rest
<1>8. \A b \in Backups : Needed(b)' = Needed(b)
  BY <1>1, <1>4, NeededFrame
<1>9. BackupsAreRestorable'
  BY <1>0, <1>1, <1>3, <1>8 DEF Rest, BackupsAreRestorable
<1> QED
  BY <1>1, <1>6, <1>7, <1>9, RunIdle DEF Rest

\* A run fails, or the process goes: a backup without a marker is abandoned.
LEMMA AbandonFrame ==
    ASSUME SlotInv, SlotInv', Rest, UNCHANGED <<worldVars, wal, info, done>>,
           \A b \in Backups : dir'[b] = dir[b] \/ (dir[b] = "streaming" /\ dir'[b] = "unmarked")
    PROVE  Rest'
<1>0. BackupTypeOK /\ BackupTypeOK'
  BY DEF SlotInv
<1>1. \A b \in Backups : SameBackup(b)
  BY DEF SameBackup, Started
<1>2. /\ \A b \in Backups : (Begun(b)' <=> Begun(b)) /\ (Deleted(b)' <=> Deleted(b))
      /\ Marked' = Marked
  BY DEF Begun, Deleted, Marked
<1>3. OrderInv'
  BY <1>0, <1>1, <1>2, OrderFrame, Numbers DEF Rest, TimePasses
<1>4. LossInv'
  BY <1>0, <1>1, <1>2, LossFrame, Numbers DEF Rest
<1>5. BackupsAreRestorable'
  BY <1>1, <1>2, NeededFrame DEF Rest, BackupsAreRestorable, Marked
<1> QED
  BY <1>3, <1>4, <1>5 DEF Rest

LEMMA FailStep ==
    ASSUME SlotInv, SlotInv', Rest, NEW p \in Callers, RunFails(p)
    PROVE  Rest' /\ RunInv(p)'
<1>0. dir \in [Backups -> DirStates] /\ pc \in [Callers -> RunPoints]
  BY DEF SlotInv, BackupTypeOK
<1>1. \A b \in Backups : dir'[b] = dir[b] \/ (dir[b] = "streaming" /\ dir'[b] = "unmarked")
  BY <1>0 DEF RunFails, Abandoned
<1>2. Rest'
  BY <1>1, AbandonFrame DEF RunFails
<1> QED
  BY <1>0, <1>2, RunIdle DEF RunFails, Failed, Goto

LEMMA RestartStep ==
    ASSUME SlotInv, SlotInv', Rest, Restarted
    PROVE  Rest' /\ \A p \in Callers : RunInv(p)'
<1>1. \A b \in Backups : dir'[b] = dir[b] \/ (dir[b] = "streaming" /\ dir'[b] = "unmarked")
  BY DEF Restarted, Abandoned
<1>2. Rest'
  BY <1>1, AbandonFrame DEF Restarted
<1>3. \A p \in Callers : pc'[p] = "idle"
  BY DEF Restarted
<1> QED
  BY <1>2, <1>3, RunIdle

\* Begin: no other run is under way, and every backup started before now.
LEMMA ReserveStep ==
    ASSUME SlotInv, SlotInv', Rest, NEW p \in Callers, Reserve(p)
    PROVE  Rest' /\ \A q \in Callers : RunInv(q)'
<1>0. pc \in [Callers -> RunPoints]
  BY DEF SlotInv, BackupTypeOK
<1>1. Rest'
  BY RestFrame DEF Reserve
<1>2. RunInv(p)'
  <2>1. pc'[p] = "load" /\ UNCHANGED <<now, dir, info>>
    BY <1>0 DEF Reserve, Goto
  <2>2. \A b \in Backups : Begun(b)' => Started(b)' < now'
    BY <2>1 DEF Reserve, Begun, Started
  <2> QED
    BY <2>1, <2>2 DEF RunInv, Purging
<1>3. ASSUME NEW q \in Callers, q # p PROVE RunInv(q)'
  <2>1. pc'[q] = "idle"
    BY <1>0, <1>3 DEF Reserve, SlotFree, Goto, SlotInv
  <2> QED
    BY <2>1, RunIdle
<1> QED
  BY <1>1, <1>2, <1>3

LEMMA RunFrame ==
    ASSUME NEW p \in Callers, RunInv(p), UNCHANGED <<worldVars, wal, dir, info, pc, plan>>
    PROVE  RunInv(p)'
  BY DEF RunInv, Purging, Begun, Started, Marked, WalBefore, BackupBeginWAL, Good, KeptFrom,
         WindowStart, Deleted, Needed

-----------------------------------------------------------------------------
(***************************************************************************)
(* The induction.                                                          *)
(***************************************************************************)
LEMMA RetentionInit == Init => RetentionInv
<1> SUFFICES ASSUME Init PROVE RetentionInv
  OBVIOUS
<1>1. SlotInv
  BY SlotInit
<1>2. \A b \in Backups : dir[b] = "none"
  BY DEF Init
<1>3. OrderInv /\ LossInv /\ BackupsAreRestorable
  BY <1>2 DEF Init, OrderInv, LossInv, BackupsAreRestorable, Begun, Deleted
<1>4. \A p \in Callers : RunInv(p)
  BY DEF Init, RunInv, Purging
<1> QED
  BY <1>1, <1>3, <1>4 DEF RetentionInv

LEMMA RetentionNext ==
    ASSUME SoundFaults
    PROVE  RetentionInv /\ [Next]_vars => RetentionInv'
<1> SUFFICES ASSUME RetentionInv, [Next]_vars PROVE RetentionInv'
  OBVIOUS
<1>0. SlotInv /\ SlotInv' /\ Rest /\ \A p \in Callers : RunInv(p)
  BY SlotNext DEF RetentionInv, Rest
<1>z. SUFFICES Rest' /\ \A p \in Callers : RunInv(p)'
  BY <1>0 DEF RetentionInv, Rest
<1>1. CASE Tick \/ ArchiveWal \/ Promote
  BY <1>0, <1>1, WorldStep
<1>2. ASSUME NEW p \in Callers, Reserve(p) PROVE Rest' /\ \A q \in Callers : RunInv(q)'
  BY <1>0, <1>2, ReserveStep
<1>3. ASSUME NEW p \in Callers, RunStep(p) PROVE Rest' /\ \A q \in Callers : RunInv(q)'
  <2>1. \A q \in Callers : q # p => RunInv(q)'
    BY <1>0, <1>3, RunMoves, Others
  <2>2. CASE LoadBackups(p)    BY <1>0, <2>1, <2>2, LoadStep
  <2>3. CASE DeleteBackup(p)   BY <1>0, <2>1, <2>3, DeleteStep
  <2>4. CASE DeleteDirEnds(p)  BY <1>0, <2>1, <2>4, DirEndsStep
  <2>5. CASE ListWal(p)        BY <1>0, <2>1, <2>5, ListStep
  <2>6. CASE DeleteWal(p)      BY <1>0, <2>1, <2>6, DeleteWalStep
  <2>7. CASE CleanEnds(p)      BY <1>0, <2>1, <2>7, CleanEndsStep
  <2>8. CASE StartBackup(p)    BY <1>0, <2>1, <2>8, StartStep
  <2>9. CASE StreamEnds(p)     BY <1>0, <2>1, <2>9, StreamStep
  <2>10. CASE PutMarker(p)     BY <1>0, <2>1, <2>10, MarkerStep
  <2>11. CASE Finish(p)
    <3>1. Rest'
      BY <1>0, <2>11, RestFrame DEF Finish
    <3>2. pc'[p] = "idle"
      BY <1>0, <2>11 DEF Finish, Goto, SlotInv, BackupTypeOK
    <3> QED
      BY <2>1, <3>1, <3>2, RunIdle
  <2> QED
    BY <1>3, <2>2, <2>3, <2>4, <2>5, <2>6, <2>7, <2>8, <2>9, <2>10, <2>11 DEF RunStep
<1>4. ASSUME NEW p \in Callers, RunFails(p) PROVE Rest' /\ \A q \in Callers : RunInv(q)'
  <2>1. \A q \in Callers : q # p => RunInv(q)'
    BY <1>0, <1>4, RunFailsMoves, Others
  <2> QED
    BY <1>0, <1>4, <2>1, FailStep
<1>5. CASE Cancel
  BY <1>0, <1>5, RestFrame, RunFrame DEF Cancel
<1>6. CASE Exit \/ Kill
  BY <1>0, <1>6, RestartStep DEF Exit, Kill
<1>7. CASE UNCHANGED vars
  BY <1>0, <1>7, RestFrame, RunFrame DEF vars
<1> QED
  BY <1>1, <1>2, <1>3, <1>4, <1>5, <1>6, <1>7 DEF Next

(***************************************************************************)
(* The retention's account of what is deleted, why, and which WAL the rest *)
(* needs holds at every step of a purge and after every interrupted one.   *)
(***************************************************************************)
THEOREM RetentionInvariant ==
    ASSUME SoundFaults
    PROVE  Spec => []RetentionInv
<1> QED
  BY RetentionInit, RetentionNext, PTL DEF Spec

(***************************************************************************)
(* Every whole backup can be rolled forward to the end of the archive, at  *)
(* every step of a purge, after every interrupted one, and along every     *)
(* number of timelines: WAL is deleted only when the backups that need it  *)
(* are.                                                                    *)
(***************************************************************************)
THEOREM RetentionKeepsWal ==
    ASSUME SoundFaults
    PROVE  Spec => []BackupsAreRestorable
<1>1. RetentionInv => BackupsAreRestorable
  BY DEF RetentionInv
<1> QED
  BY <1>1, RetentionInvariant, PTL

(***************************************************************************)
(* Once a backup reaches back to the beginning of the recovery window,     *)
(* one always does, for every window and every keep_last.                  *)
(***************************************************************************)
THEOREM RetentionKeepsWindow ==
    ASSUME SoundFaults
    PROVE  Spec => []WindowAnchored
<1>1. RetentionInv => WindowAnchored
  <2> SUFFICES ASSUME RetentionInv, NEW b \in done, Started(b) <= WindowStart
               PROVE  \E c \in Backups : Restorable(c) /\ Started(c) <= WindowStart
    BY DEF WindowAnchored
  <2>1. b \in Backups
    BY DEF RetentionInv, SlotInv, BackupTypeOK
  <2>2. CASE dir[b] = "marked"
    BY <2>1, <2>2 DEF RetentionInv, BackupsAreRestorable, Restorable
  <2>3. CASE Deleted(b)
    BY <2>1, <2>3 DEF RetentionInv, LossInv, Good, Marked, BackupsAreRestorable, Restorable
  <2> QED
    BY <2>2, <2>3 DEF RetentionInv, LossInv
<1> QED
  BY <1>1, RetentionInvariant, PTL

(***************************************************************************)
(* keep_last: as many whole backups as it asks for stay, or all there ever *)
(* were.                                                                   *)
(***************************************************************************)
THEOREM RetentionKeepsLast ==
    ASSUME SoundFaults
    PROVE  Spec => []KeepsLast
<1>1. RetentionInv => KeepsLast
  <2> SUFFICES ASSUME RetentionInv PROVE KeepsLast
    OBVIOUS
  <2> DEFINE kept == {b \in Backups : Restorable(b)}
  <2>0. BackupTypeOK /\ done \subseteq Backups
    BY DEF RetentionInv, SlotInv, BackupTypeOK
  <2>1. kept = Marked /\ kept \in SUBSET Backups
    BY DEF RetentionInv, BackupsAreRestorable, Restorable, Marked
  <2>2. CASE \E b \in done : Deleted(b)
    <3>1. PICK a \in Backups : Good(a)
      BY <2>0, <2>2 DEF RetentionInv, LossInv
    <3>2. KeptFrom(Marked, a) \in SUBSET kept
      BY <2>1 DEF KeptFrom
    <3>3. Cardinality(KeptFrom(Marked, a)) <= Cardinality(kept)
      BY <2>1, <3>2, SmallerSet
    <3>4. Cardinality(kept) \in Nat /\ Cardinality(KeptFrom(Marked, a)) \in Nat
      BY <2>1, <3>2, FiniteBackups
    <3>5. Cardinality(kept) >= MinimumBackups
      BY <2>0, <3>1, <3>3, <3>4, Numbers DEF Good
    <3> QED
      BY <3>5 DEF KeepsLast
  <2>3. CASE ~\E b \in done : Deleted(b)
    <3>1. done \in SUBSET kept
      BY <2>0, <2>1, <2>3 DEF RetentionInv, LossInv, Marked
    <3>2. Cardinality(done) <= Cardinality(kept)
      BY <2>1, <3>1, SmallerSet
    <3>3. Cardinality(kept) \in Nat /\ Cardinality(done) \in Nat
      BY <2>0, <2>1, FiniteBackups
    <3> QED
      BY <3>2, <3>3 DEF KeepsLast
  <2> QED
    BY <2>2, <2>3
<1> QED
  BY <1>1, RetentionInvariant, PTL
=================================================================================
