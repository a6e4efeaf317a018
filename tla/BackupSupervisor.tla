---------------------------- MODULE BackupSupervisor ----------------------------
(***************************************************************************)
(* The base backup supervisor (backupsv): the single backup slot           *)
(* (state.go), the runs that compete for it (runner.go, supervisor.go),    *)
(* the recovery-window retention each run begins with (retain.go,          *)
(* recovery_window_retention.go, backup_store.go, wal_cleaner.go) and the  *)
(* base backup it ends with (basebackup/backup).                           *)
(*                                                                         *)
(* Deletions and uploads are steps of their own, so that an error, a       *)
(* shutdown or a crash can come between any two of them; the storage       *)
(* outlives the process.                                                   *)
(*                                                                         *)
(* Abstractions.                                                           *)
(*  - Time is a counter; two backups never start at the same instant.      *)
(*  - The WAL archive is the set of its complete segments, each archived   *)
(*    when it is complete.  History files and *.partial objects, which     *)
(*    the cleaner always keeps, are left out.                              *)
(*  - A backup directory is whole or not: `dir' says how far its objects   *)
(*    and its marker (<id>.json, written last) have come.                  *)
(*  - A panic of a run is an error (runReserved recovers it).              *)
(***************************************************************************)
EXTENDS XLog, FiniteSets

CONSTANTS
    Callers,          \* goroutines that run backups: the cron job, the manual trigger
    RecoveryWindow,   \* retention.value
    KeepLast,         \* retention.keep_last
    RetentionEnable,  \* retention.enable
    MaxBackups,       \* bound: base backups begun
    MaxTime,          \* bound: the clock
    MaxSeg,           \* bound: WAL segments
    MaxTLI,           \* bound: timelines
    MaxFaults,        \* bound: faults
    Faults            \* a subset of FaultKinds

\* "storage"  a call to the storage or to the primary fails
\* "kill"     the process dies
\* "manifest" a marker cannot be read, for the moment
FaultKinds == {"storage", "kill", "manifest"}

ASSUME BackupAssumption ==
    /\ RecoveryWindow \in Nat /\ KeepLast \in Nat /\ RetentionEnable \in BOOLEAN
    /\ MaxBackups \in Nat /\ MaxTime \in Nat /\ MaxSeg \in Nat
    /\ MaxTLI \in Nat \ {0} /\ MaxFaults \in Nat
    /\ Faults \subseteq FaultKinds

Backups == 1..MaxBackups
Times == 0..MaxTime
TLIs == 1..MaxTLI
Segs == 0..MaxSeg
WalFiles == TLIs \X Segs

VARIABLES
    now,       \* the clock
    curTli,    \* the primary's timeline
    head,      \* the segment it is writing
    forkSeg,   \* forkSeg[t]: the segment in which timeline t ended
    wal,       \* complete segments in the WAL archive
    dir,       \* dir[b]: the directory of backup b
    info,      \* info[b]: what its marker says
    running,   \* BackupRunState.Running
    status,    \* BackupRunState.Status
    ctxDone,   \* the application context is cancelled
    pc,        \* pc[p]: the call caller p is about to make
    plan,      \* plan[p]: locals of its run
    done,      \* backups ever completed
    faults

worldVars == <<now, curTli, head, forkSeg>>
stateVars == <<running, status>>
vars == <<now, curTli, head, forkSeg, wal, dir, info, running, status, ctxDone, pc, plan,
          done, faults>>

\* "streaming": objects are being written; "unmarked": abandoned without a marker;
\* "torn": DeleteDir has removed some objects; "tornMarked": all but the marker.
DirStates == {"none", "streaming", "unmarked", "marked", "torn", "tornMarked", "gone"}
Info == [startedAt: Times, finishedAt: Times, tli: TLIs, seg: Segs]
NoInfo == [startedAt |-> 0, finishedAt |-> 0, tli |-> 1, seg |-> 0]
NoPlan == [del |-> {}, cur |-> 0, keepFrom |-> <<1, 0>>, wals |-> {}, id |-> 0, err |-> FALSE]

Goto(p, next) == pc' = [pc EXCEPT ![p] = next]

Fault(kind) ==
    /\ kind \in Faults
    /\ faults < MaxFaults
    /\ faults' = faults + 1

-----------------------------------------------------------------------------
(***************************************************************************)
(* The clock, the primary and the receiver that archives its WAL.          *)
(***************************************************************************)
Tick ==
    /\ now < MaxTime
    /\ now' = now + 1
    /\ UNCHANGED <<curTli, head, forkSeg, wal, dir, info, stateVars, ctxDone, pc, plan,
                   done, faults>>

ArchiveWal ==
    /\ head < MaxSeg
    /\ head' = head + 1
    /\ wal' = wal \cup {<<curTli, head>>}
    /\ UNCHANGED <<now, curTli, forkSeg, dir, info, stateVars, ctxDone, pc, plan, done,
                   faults>>

\* Failover.  It breaks the connection of a base backup first.
Promote ==
    /\ curTli < MaxTLI
    /\ \A p \in Callers : pc[p] # "stream"
    /\ curTli' = curTli + 1
    /\ forkSeg' = [forkSeg EXCEPT ![curTli] = head]
    /\ UNCHANGED <<now, head, wal, dir, info, stateVars, ctxDone, pc, plan, done, faults>>

-----------------------------------------------------------------------------
(***************************************************************************)
(* retain.go.                                                              *)
(***************************************************************************)
Started(b) == info[b].startedAt
WindowStart == now - RecoveryWindow
MinimumBackups == IF KeepLast = 0 THEN 1 ELSE KeepLast

KeptFrom(S, a) == {b \in S : Started(b) >= Started(a)}
NewestOf(S) == CHOOSE b \in S : \A c \in S : Started(c) <= Started(b)
OldestOf(S) == CHOOSE b \in S : \A c \in S : Started(b) <= Started(c)

\* Mutants: the window, or the minimum, is not looked at.
ChooseNewestAnchor(S) ==
    LET deepEnough == {b \in S : Cardinality(KeptFrom(S, b)) >= MinimumBackups}
    IN  IF deepEnough # {} THEN NewestOf(deepEnough) ELSE OldestOf(S)

ChooseAnchorByWindow(S) ==
    LET before == {b \in S : Started(b) <= WindowStart}
    IN  IF before # {} THEN NewestOf(before) ELSE OldestOf(S)

\* The newest backup that started at or before the window's start, else the oldest;
\* an older one when fewer than MinimumBackups would be kept.
ChooseRecoveryWindowAnchor(S) ==
    LET before == {b \in S : Started(b) <= WindowStart}
        byWindow == IF before # {} THEN NewestOf(before) ELSE OldestOf(S)
        deepEnough == {b \in S : Cardinality(KeptFrom(S, b)) >= MinimumBackups}
    IN  IF Cardinality(KeptFrom(S, byWindow)) >= MinimumBackups THEN byWindow
        ELSE IF deepEnough # {} THEN NewestOf(deepEnough) ELSE OldestOf(S)

BackupsOlderThanAnchor(S, anchor) == {b \in S : Started(b) < Started(anchor)}

\* Mutant: the segment before, which wraps below zero.
BackupBeginWALMinusOne(b) == <<info[b].tli, info[b].seg - 1>>

BackupBeginWAL(b) == <<info[b].tli, info[b].seg>>

\* WAL file names compare as strings: the timeline first, then the segment.
WalBefore(w, boundary) ==
    w[1] < boundary[1] \/ (w[1] = boundary[1] /\ w[2] < boundary[2])

-----------------------------------------------------------------------------
(***************************************************************************)
(* A run.                                                                  *)
(***************************************************************************)
\* Mutant: Begin does not look at Running.
SlotAlwaysFree == TRUE

\* reserve: Begin under the mutex.  ErrBackupAlreadyRunning changes nothing.
SlotFree == ~running

Reserve(p) ==
    /\ pc[p] = "idle"
    /\ ~ctxDone
    /\ SlotFree
    /\ \E b \in Backups : dir[b] = "none"                       \* bound
    /\ \A b \in Backups : dir[b] # "none" => Started(b) < now
    /\ running' = TRUE /\ status' = "running"
    /\ Goto(p, "load")
    /\ UNCHANGED <<worldVars, wal, dir, info, ctxDone, plan, done, faults>>

Failed(p) ==
    /\ plan' = [plan EXCEPT ![p] = [NoPlan EXCEPT !.err = TRUE]]
    /\ Goto(p, "finish")

\* RunBeforeBackup with the readable backups S: choose the anchor, then purge.
Plan(p, S) ==
    IF S = {} \/ ~RetentionEnable
      THEN UNCHANGED plan /\ Goto(p, "create")
      ELSE LET anchor == ChooseRecoveryWindowAnchor(S)
           IN  /\ plan' = [plan EXCEPT ![p].del = BackupsOlderThanAnchor(S, anchor),
                                       ![p].keepFrom = BackupBeginWAL(anchor)]
               /\ Goto(p, "purge")

\* loadSuccessfulBackups: a backup whose marker cannot be read is skipped.
Readable == {b \in Backups : dir[b] \in {"marked", "tornMarked"}}

LoadBackups(p) ==
    /\ pc[p] = "load"
    /\ IF ctxDone THEN Failed(p) /\ UNCHANGED faults
       ELSE \/ Plan(p, Readable) /\ UNCHANGED faults
            \/ \E b \in Readable : Fault("manifest") /\ Plan(p, Readable \ {b})
    /\ UNCHANGED <<worldVars, wal, dir, info, stateVars, ctxDone, done>>

\* DeleteBackups, in no particular order; DeleteDir removes object after object.
DeleteBackup(p) ==
    /\ pc[p] = "purge"
    /\ \E b \in plan[p].del :
         /\ plan' = [plan EXCEPT ![p].cur = b]
         /\ \E left \in {"torn", "tornMarked"} : dir' = [dir EXCEPT ![b] = left]
    /\ Goto(p, "deleteDir")
    /\ UNCHANGED <<worldVars, wal, info, stateVars, ctxDone, done, faults>>

DeleteDirEnds(p) ==
    /\ pc[p] = "deleteDir"
    /\ dir' = [dir EXCEPT ![plan[p].cur] = "gone"]
    /\ plan' = [plan EXCEPT ![p].del = @ \ {plan[p].cur}, ![p].cur = 0]
    /\ Goto(p, "purge")
    /\ UNCHANGED <<worldVars, wal, info, stateVars, ctxDone, done, faults>>

\* Mutant: WAL is cleaned before the backups are purged.
ListWalFirst(p) ==
    /\ pc[p] = "purge"
    /\ plan' = [plan EXCEPT ![p].wals = {w \in wal : WalBefore(w, plan[p].keepFrom)}]
    /\ Goto(p, "clean")
    /\ UNCHANGED <<worldVars, wal, dir, info, stateVars, ctxDone, done, faults>>

\* DeleteBefore: list the archive, then delete what sorts before the anchor's WAL.
ListWal(p) ==
    /\ pc[p] = "purge"
    /\ plan[p].del = {}
    /\ plan' = [plan EXCEPT ![p].wals = {w \in wal : WalBefore(w, plan[p].keepFrom)}]
    /\ Goto(p, "clean")
    /\ UNCHANGED <<worldVars, wal, dir, info, stateVars, ctxDone, done, faults>>

DeleteWal(p) ==
    /\ pc[p] = "clean"
    /\ \E w \in plan[p].wals :
         IF ctxDone THEN Failed(p) /\ UNCHANGED wal
         ELSE /\ wal' = wal \ {w}
              /\ plan' = [plan EXCEPT ![p].wals = @ \ {w}]
              /\ UNCHANGED pc
    /\ UNCHANGED <<worldVars, dir, info, stateVars, ctxDone, done, faults>>

CleanEnds(p) ==
    /\ pc[p] = "clean"
    /\ plan[p].wals = {}
    /\ plan' = [plan EXCEPT ![p] = NoPlan]
    /\ Goto(p, "create")
    /\ UNCHANGED <<worldVars, wal, dir, info, stateVars, ctxDone, done, faults>>

\* CreateBaseBackup: BASE_BACKUP answers with the start LSN, then startTime is taken.
StartBackup(p) ==
    /\ pc[p] = "create"
    /\ IF ctxDone THEN Failed(p) /\ UNCHANGED <<dir, info>>
       ELSE \E b \in Backups :
              /\ dir[b] = "none" /\ \A c \in Backups : c < b => dir[c] # "none"
              /\ dir' = [dir EXCEPT ![b] = "streaming"]
              /\ info' = [info EXCEPT ![b] = [startedAt |-> now, finishedAt |-> now,
                                              tli |-> curTli, seg |-> head]]
              /\ plan' = [plan EXCEPT ![p].id = b]
              /\ Goto(p, "stream")
    /\ UNCHANGED <<worldVars, wal, stateVars, ctxDone, done, faults>>

\* CopyDone: every archive file was put, the backup is finished on the primary.
StreamEnds(p) ==
    /\ pc[p] = "stream"
    /\ info' = [info EXCEPT ![plan[p].id].finishedAt = now]
    /\ Goto(p, "marker")
    /\ UNCHANGED <<worldVars, wal, dir, stateVars, ctxDone, plan, done, faults>>

PutMarker(p) ==
    /\ pc[p] = "marker"
    /\ dir' = [dir EXCEPT ![plan[p].id] = "marked"]
    /\ done' = done \cup {plan[p].id}
    /\ plan' = [plan EXCEPT ![p] = NoPlan]
    /\ Goto(p, "finish")
    /\ UNCHANGED <<worldVars, wal, info, stateVars, ctxDone, faults>>

\* Mutant: only a successful run releases the slot.
FinishOnSuccess(p) ==
    /\ pc[p] = "finish"
    /\ running' = plan[p].err
    /\ status' = IF plan[p].err THEN "failed" ELSE "succeeded"
    /\ plan' = [plan EXCEPT ![p] = NoPlan]
    /\ Goto(p, "idle")
    /\ UNCHANGED <<worldVars, wal, dir, info, ctxDone, done, faults>>

\* The deferred call of runReserved.
Finish(p) ==
    /\ pc[p] = "finish"
    /\ running' = FALSE
    /\ status' = IF plan[p].err THEN "failed" ELSE "succeeded"
    /\ plan' = [plan EXCEPT ![p] = NoPlan]
    /\ Goto(p, "idle")
    /\ UNCHANGED <<worldVars, wal, dir, info, ctxDone, done, faults>>

Abandoned(d) == IF d = "streaming" THEN "unmarked" ELSE d

\* A call fails, or the base backup's own signal context ends it.
RunFails(p) ==
    /\ pc[p] \notin {"idle", "finish"}
    /\ \/ Fault("storage")
       \/ ctxDone /\ pc[p] \in {"stream", "marker"} /\ UNCHANGED faults
    /\ dir' = IF pc[p] \in {"stream", "marker"}
                THEN [dir EXCEPT ![plan[p].id] = Abandoned(@)] ELSE dir
    /\ Failed(p)
    /\ UNCHANGED <<worldVars, wal, info, stateVars, ctxDone, done>>

-----------------------------------------------------------------------------
Cancel ==
    /\ ~ctxDone
    /\ ctxDone' = TRUE
    /\ UNCHANGED <<worldVars, wal, dir, info, stateVars, pc, plan, done, faults>>

\* The process is gone and started again: BackupRunState lives in memory only.
Restarted ==
    /\ running' = FALSE /\ status' = "idle" /\ ctxDone' = FALSE
    /\ dir' = [b \in Backups |-> Abandoned(dir[b])]
    /\ pc' = [p \in Callers |-> "idle"]
    /\ plan' = [p \in Callers |-> NoPlan]
    /\ UNCHANGED <<worldVars, wal, info, done>>

\* A shutdown waits for the cron job for a limited time, and for no manual run.
Exit == ctxDone /\ Restarted /\ UNCHANGED faults
Kill == Fault("kill") /\ Restarted

Init ==
    /\ now = 0 /\ curTli = 1 /\ head = 0
    /\ forkSeg = [t \in TLIs |-> 0]
    /\ wal = {}
    /\ dir = [b \in Backups |-> "none"]
    /\ info = [b \in Backups |-> NoInfo]
    /\ running = FALSE /\ status = "idle" /\ ctxDone = FALSE
    /\ pc = [p \in Callers |-> "idle"]
    /\ plan = [p \in Callers |-> NoPlan]
    /\ done = {} /\ faults = 0

RunStep(p) ==
    \/ LoadBackups(p) \/ DeleteBackup(p) \/ DeleteDirEnds(p)
    \/ ListWal(p) \/ DeleteWal(p) \/ CleanEnds(p)
    \/ StartBackup(p) \/ StreamEnds(p) \/ PutMarker(p) \/ Finish(p)

Next ==
    \/ Tick \/ ArchiveWal \/ Promote
    \/ \E p \in Callers : Reserve(p) \/ RunStep(p) \/ RunFails(p)
    \/ Cancel \/ Exit \/ Kill

Spec == Init /\ [][Next]_vars

\* A run that has begun goes on: storage and primary answer, or fail, in the end.
Fairness == \A p \in Callers : WF_vars(RunStep(p))

FairSpec == Spec /\ Fairness

-----------------------------------------------------------------------------
RunPoints == {"idle", "load", "purge", "deleteDir", "clean", "create", "stream", "marker",
              "finish"}
PlanType == [del: SUBSET Backups, cur: 0..MaxBackups, keepFrom: WalFiles,
             wals: SUBSET WalFiles, id: 0..MaxBackups, err: BOOLEAN]

\* The type of the state: the archive holds segments the primary has completed.
BackupTypeOK ==
    /\ now \in Times /\ curTli \in TLIs /\ head \in Segs
    /\ forkSeg \in [TLIs -> Segs]
    /\ wal \subseteq TLIs \X (0..(head - 1))
    /\ dir \in [Backups -> DirStates] /\ info \in [Backups -> Info]
    /\ running \in BOOLEAN /\ status \in {"idle", "running", "succeeded", "failed"}
    /\ ctxDone \in BOOLEAN
    /\ pc \in [Callers -> RunPoints] /\ plan \in [Callers -> PlanType]
    /\ done \subseteq Backups
    /\ faults \in 0..MaxFaults

(***************************************************************************)
(* Begin reserves the single slot for the scheduler and the manual trigger *)
(* alike ("this avoids a check-then-start race"), and Finish releases it:  *)
(* at most one run is under way, and the reported state says so.           *)
(***************************************************************************)
SingleRun ==
    LET active == {p \in Callers : pc[p] # "idle"}
    IN  Cardinality(active) <= 1 /\ (running <=> active # {})

\* The segments a restore of backup b has to read, along the primary's history.
Needed(b) ==
    {w \in WalFiles :
        /\ info[b].tli <= w[1] /\ w[1] <= curTli
        /\ (IF w[1] = info[b].tli THEN info[b].seg ELSE forkSeg[w[1] - 1]) <= w[2]
        /\ w[2] < (IF w[1] = curTli THEN head ELSE forkSeg[w[1]])}

Restorable(b) == dir[b] = "marked" /\ Needed(b) \subseteq wal

(***************************************************************************)
(* Every whole backup in the storage can be rolled forward to the end of   *)
(* the archive, at every point of a purge: retention that stops half-way   *)
(* never leaves a backup without its WAL.                                  *)
(***************************************************************************)
BackupsAreRestorable == \A b \in Backups : dir[b] = "marked" => Needed(b) \subseteq wal

(***************************************************************************)
(* Once a backup reaches back to the beginning of the recovery window,     *)
(* there always is one that does.                                          *)
(***************************************************************************)
WindowAnchored ==
    (\E b \in done : Started(b) <= WindowStart) =>
        \E b \in Backups : Restorable(b) /\ Started(b) <= WindowStart

(***************************************************************************)
(* keep_last: "Minimum number of successful backups to keep, even if       *)
(* outside/inside the recovery window".                                    *)
(***************************************************************************)
KeepsLast ==
    LET kept == Cardinality({b \in Backups : Restorable(b)})
    IN  kept >= MinimumBackups \/ kept >= Cardinality(done)

(***************************************************************************)
(* README: "keep enough backups/WALs to recover to any point in the last   *)
(* 72h".  A backup serves the points from its end on, not from its start.  *)
(***************************************************************************)
RecoverableToAnyPoint ==
    \A t \in Times : WindowStart <= t /\ t <= now =>
        ((\E b \in done : info[b].finishedAt <= t) =>
            \E b \in Backups : Restorable(b) /\ info[b].finishedAt <= t)

(***************************************************************************)
(* The slot is released after every outcome of a run: an error, a panic or *)
(* a shutdown never leaves "backup already running" behind.                *)
(***************************************************************************)
SlotIsReleased == running ~> ~running
=================================================================================
