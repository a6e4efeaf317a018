------------------------------- MODULE WalReceiver -------------------------------
(***************************************************************************)
(* The WAL receiver: Run / streamLog / findStreamingStart                  *)
(* (pg_receivewal.go), ReceiveXlogStream and handleCopyStream              *)
(* (receivelog.go), the segment file operations (walfile.go), and what     *)
(* they lean on: the primary with its replication slot, the connection     *)
(* and the local directory with what a power failure may take from it.     *)
(*                                                                         *)
(* The receiver is one goroutine; `pc' names the call it is about to make, *)
(* so that a crash, a failing call or another goroutine (the uploader of   *)
(* ArchiveSupervisor) can come between any two of its effects.             *)
(*                                                                         *)
(* Abstractions.                                                           *)
(*  - A byte of WAL is its position.  A file holds a prefix of its         *)
(*    segment; a reopened *.partial is overwritten with the same bytes.    *)
(*  - Feedback in flight is one value: a newer status update supersedes    *)
(*    an unread older one.  It is lost when the connection breaks.         *)
(*  - Timers are nondeterministic: a receive may time out at any moment,   *)
(*    the status interval may have passed at any turn of the loop.         *)
(*  - Messages with no effect on the state (a keepalive that wants no      *)
(*    reply, CommandComplete, ReadyForQuery) are stuttering steps.         *)
(*  - findStreamingStart walks the tree below the receive directory; the   *)
(*    entries are those of the directory itself.  A plain local archive,   *)
(*    which lies in that tree, would add its own.                          *)
(***************************************************************************)
EXTENDS XLog

CONSTANTS
    WalSegSz,     \* bytes per segment
    InitLSN,      \* the primary's WAL end when the history begins
    MaxLSN,       \* bound: last WAL position of the primary
    MaxTLI,       \* bound: last timeline of the primary
    MaxChunk,     \* bound: WAL bytes in one XLogData message
    MaxFaults,    \* bound: faults in one behaviour
    NoLoop,       \* the --no-loop option
    SlotExists,   \* the slot was created, and reserved WAL, before the first start
    Faults        \* what the environment may do, a subset of FaultKinds

(***************************************************************************)
(* "kill"    the process dies at any point (SIGKILL, OOM)                  *)
(* "power"   the machine loses power                                       *)
(* "net"     the connection breaks, or the server shuts down               *)
(* "io"      a file system call fails                                      *)
(* "walk"    findStreamingStart cannot read the receive directory          *)
(* "cancel"  the context is cancelled (SIGTERM)                            *)
(* "reopen"  the fsync of an existing *.partial fails in OpenWalFile       *)
(* "recycle" the primary recycles WAL while the slot has no restart_lsn    *)
(* "dirent"  fsync of a new file does not persist its directory entry:     *)
(*           POSIX, but not a journalling file system such as ext4 or xfs  *)
(* "overlap" a promoted standby forks its timeline below WAL it has sent   *)
(***************************************************************************)
FaultKinds == {"kill", "power", "net", "io", "walk", "cancel", "reopen",
               "recycle", "dirent", "overlap"}

ASSUME ConstantsAssumption ==
    /\ WalSegSz \in Nat \ {0}
    /\ InitLSN \in Nat /\ InitLSN >= WalSegSz
    /\ MaxLSN \in Nat /\ MaxLSN >= InitLSN
    /\ MaxTLI \in Nat \ {0}
    /\ MaxChunk \in Nat \ {0}
    /\ MaxFaults \in Nat
    /\ NoLoop \in BOOLEAN /\ SlotExists \in BOOLEAN
    /\ Faults \subseteq FaultKinds

Seg(lsn) == XLByteToSeg(lsn, WalSegSz)
Off(lsn) == XLogSegmentOffset(lsn, WalSegSz)
SegStart(lsn) == lsn - Off(lsn)

LSNs == 0..MaxLSN
TLIs == 1..MaxTLI
Segs == 0..(MaxLSN \div WalSegSz)
Files == TLIs \X Segs          \* a segment file: its timeline and its number
NoSlot == -1
Lesser(a, b) == IF a < b THEN a ELSE b
Greater(a, b) == IF a < b THEN b ELSE a

VARIABLES
    \* the primary
    srvTli,     \* its timeline
    srvEnd,     \* end of its WAL
    fork,       \* fork[t]: where timeline t ended and t+1 began
    srvMin,     \* WAL below this position has been recycled
    slot,       \* restart_lsn of the replication slot: NoSlot, 0 (unset) or a position
    \* the connection
    sent,       \* next position the walsender sends
    inflight,   \* flush position of a status update not yet read, or 0
    \* StreamCtl and its goroutine
    pc,
    tli, startPos, blockPos, lastFlush,
    left,       \* bytes of the current XLogData not yet written
    walfile,    \* the open segment; f survives the close as the local `pathname'
    eoc,        \* why the copy stream ended: "none", "switch", "shutdown"
    ctxDone,    \* the context is cancelled
    \* the receive directory
    part,       \* part[f]: the *.partial of f (or its not yet durable final name)
    full,       \* full[f]: the completed segment file of f exists
    hist,       \* hist[t]: the timeline history file of t
    \* observation
    base,       \* first position the receiver undertook to store, or 0
    acked,      \* highest flush position reported, on the primary's present history
    faults

serverVars == <<srvTli, srvEnd, fork, srvMin>>
connVars == <<sent, inflight>>
streamVars == <<tli, startPos, blockPos, lastFlush>>
fileVars == <<part, full, hist>>
ghostVars == <<base, acked>>
vars == <<srvTli, srvEnd, fork, srvMin, slot, sent, inflight, pc, tli, startPos,
          blockPos, lastFlush, left, walfile, eoc, ctxDone, part, full, hist,
          base, acked, faults>>

-----------------------------------------------------------------------------
(***************************************************************************)
(* The receive directory.                                                  *)
(*                                                                         *)
(* A *.partial is "empty" (created), "sized" (padded to WalSegSz, the size *)
(* still in the page cache), "synced" (padded and fsynced since), or       *)
(* "renamed" (its name is already the final one, the directory not yet     *)
(* fsynced).  `data' is the prefix written, `flushed' the prefix that has  *)
(* reached the disk, `linked' that its directory entry has.                *)
(***************************************************************************)
PartStates == {"none", "empty", "sized", "synced", "renamed"}
Part == [st: PartStates, data: 0..WalSegSz, flushed: 0..WalSegSz, linked: BOOLEAN]
NoPart == [st |-> "none", data |-> 0, flushed |-> 0, linked |-> FALSE]

PartialVisible(f) == part[f].st \in {"empty", "sized", "synced"}
CompleteVisible(f) == full[f] \/ part[f].st = "renamed"

\* fsync of a *.partial, through its descriptor or its path.
FsyncedPart(p) ==
    [st |-> IF p.st = "sized" THEN "synced" ELSE p.st,
     data |-> p.data,
     flushed |-> p.data,
     linked |-> p.st # "none" /\ (p.linked \/ "dirent" \notin Faults)]

\* fsync of the directory: every name in it is durable from now on.
DirSyncedPart(p) ==
    IF p.st \in {"none", "renamed"} THEN NoPart ELSE [p EXCEPT !.linked = TRUE]

\* Mutant: the file is fsynced under its new name, the directory is not.
FsyncDirSkipped(disk) == part' = disk /\ UNCHANGED <<full, hist>>

FsyncDir(disk) ==
    /\ part' = [f \in Files |-> DirSyncedPart(disk[f])]
    /\ full' = [f \in Files |-> full[f] \/ disk[f].st = "renamed"]
    /\ hist' = [t \in TLIs |-> IF hist[t] = "none" THEN "none" ELSE "durable"]

\* What a power failure leaves of a *.partial: `kept' says whether a change of the
\* directory that was not yet durable survives, `cut' how much unflushed data does.
PoweredPart(p, kept, cut) ==
    CASE p.st = "none" -> NoPart
      [] p.st = "renamed" ->
           IF kept \/ ~p.linked THEN NoPart ELSE [p EXCEPT !.st = "synced"]
      [] OTHER ->
           IF ~kept /\ ~p.linked THEN NoPart
           ELSE IF p.st = "empty" \/ (p.st = "sized" /\ cut = 0)
                THEN [st |-> "empty", data |-> 0, flushed |-> 0, linked |-> TRUE]
                ELSE LET d == Greater(p.flushed, Lesser(p.data, cut))
                     IN  [st |-> "synced", data |-> d, flushed |-> d, linked |-> TRUE]

PoweredFull(f, kept) == full[f] \/ (part[f].st = "renamed" /\ kept)
PoweredHist(t, kept) ==
    IF hist[t] = "durable" \/ (hist[t] = "renamed" /\ kept) THEN "durable" ELSE "none"

-----------------------------------------------------------------------------
\* A fault happens; MaxFaults bounds their number.
Fault(kind) ==
    /\ kind \in Faults
    /\ faults < MaxFaults
    /\ faults' = faults + 1

-----------------------------------------------------------------------------
(***************************************************************************)
(* The primary.                                                            *)
(***************************************************************************)
ServerWrite ==
    /\ srvEnd < MaxLSN
    /\ srvEnd' = srvEnd + 1
    /\ UNCHANGED <<srvTli, fork, srvMin, slot, connVars, pc, streamVars, left, walfile,
                   eoc, ctxDone, fileVars, ghostVars, faults>>

\* The timeline ends and its successor begins, at the end of the WAL or, when the
\* last record sent was incomplete, below it.
Promote ==
    /\ srvTli < MaxTLI
    /\ \E at \in {srvEnd} \cup (IF "overlap" \in Faults THEN {srvEnd - 1} ELSE {}) :
         /\ at >= InitLSN
         /\ srvTli > 1 => at > fork[srvTli - 1]
         /\ fork' = [fork EXCEPT ![srvTli] = at]
         /\ srvEnd' = at
         /\ acked' = Lesser(acked, at)
    /\ srvTli' = srvTli + 1
    /\ UNCHANGED <<srvMin, slot, connVars, pc, streamVars, left, walfile, eoc, ctxDone,
                   fileVars, base, faults>>

\* A checkpoint removes the WAL no slot holds back.
Recycle ==
    LET limit == SegStart(IF slot > 0 /\ slot < srvEnd THEN slot ELSE srvEnd)
    IN  /\ slot > 0 \/ "recycle" \in Faults
        /\ limit > srvMin
        /\ srvMin' = limit
        /\ UNCHANGED <<srvTli, srvEnd, fork, slot, connVars, pc, streamVars, left,
                       walfile, eoc, ctxDone, fileVars, ghostVars, faults>>

\* The walsender reads a status update: the slot follows the reported flush position.
ApplyFeedback ==
    /\ inflight # 0
    /\ slot' = inflight
    /\ inflight' = 0
    /\ UNCHANGED <<serverVars, sent, pc, streamVars, left, walfile, eoc, ctxDone,
                   fileVars, ghostVars, faults>>

\* The slot once the status update in flight, if any, has been read: what an orderly
\* close of the connection, or the kernel's after the process died, leads to.
Delivered == IF inflight # 0 THEN inflight ELSE slot

\* Where the WAL of timeline t ends on the primary.
TimelineEnd(t) == IF t = srvTli THEN srvEnd ELSE fork[t]

\* The timeline of a position in the primary's history (restart_tli).
IsTimelineOf(t, lsn) ==
    /\ t = srvTli \/ (t < srvTli /\ lsn < fork[t])
    /\ \A u \in TLIs : u < t => fork[u] <= lsn

-----------------------------------------------------------------------------
(***************************************************************************)
(* streamLog: connect, slot, where to start.                               *)
(***************************************************************************)
Goto(next) == pc' = next

Connect ==
    /\ pc = "connect"
    /\ Goto("slot")
    /\ UNCHANGED <<serverVars, slot, connVars, streamVars, left, walfile, eoc, ctxDone,
                   fileVars, ghostVars, faults>>

\* The directory entries findStreamingStart collects.
WalEntries ==
    {<<f, TRUE>> : f \in {g \in Files : PartialVisible(g)}} \cup
    {<<f, FALSE>> : f \in {g \in Files : CompleteVisible(g)}}

\* Mutant: the sort is ascending.
SortsBeforeAscending(d, e) ==
    \/ d[1][2] < e[1][2]
    \/ d[1][2] = e[1][2] /\ d[1][1] < e[1][1]
    \/ d[1] = e[1] /\ d[2] /\ ~e[2]

\* The order of its sort: later segment, later timeline, complete before partial.
SortsBefore(d, e) ==
    \/ d[1][2] > e[1][2]
    \/ d[1][2] = e[1][2] /\ d[1][1] > e[1][1]
    \/ d[1] = e[1] /\ ~d[2] /\ e[2]

\* Mutant: a partial segment is taken for a complete one.
EntryStartAfterPartial(e) == XLogSegNoToRecPtr(e[1][2] + 1, WalSegSz)

\* A partial segment is received again, a complete one is followed by the next.
EntryStart(e) == XLogSegNoToRecPtr(IF e[2] THEN e[1][2] ELSE e[1][2] + 1, WalSegSz)

\* NewStream and SetStream, then the first lines of ReceiveXlogStream.
BeginStream(lsn, t) ==
    /\ startPos' = SegStart(lsn)
    /\ tli' = t
    /\ blockPos' = 0
    /\ lastFlush' = SegStart(lsn)
    /\ walfile' = [walfile EXCEPT !.st = "nil"]
    /\ Goto("history")

StartFromDirectory ==
    /\ \E e \in WalEntries :
         /\ \A d \in WalEntries : d = e \/ SortsBefore(e, d)
         /\ BeginStream(EntryStart(e), e[1][1])
    /\ UNCHANGED <<base, faults>>

\* Mutant: the slot's restart_lsn is not consulted.
StartFromServerEnd(restart) == BeginStream(srvEnd, srvTli) /\ base' = SegStart(srvEnd)

\* No usable entry: the slot's restart_lsn, else the end of the server's WAL.
StartFromServer(restart) ==
    IF restart # 0
      THEN /\ \E t \in TLIs : IsTimelineOf(t, restart) /\ BeginStream(restart, t)
           /\ base' = IF base = 0 THEN SegStart(restart) ELSE base
      ELSE /\ BeginStream(srvEnd, srvTli)
           /\ base' = SegStart(srvEnd)

FindStart ==
    /\ pc = "slot"
    /\ ~ctxDone
    /\ LET restart == IF slot = NoSlot THEN 0 ELSE slot   \* CREATE_REPLICATION_SLOT
       IN  /\ slot' = restart
           /\ \/ StartFromDirectory
              \/ /\ WalEntries = {}
                 /\ StartFromServer(restart)
                 /\ UNCHANGED faults
              \/ /\ WalEntries # {}                       \* findStreamingStart failed
                 /\ Fault("walk")
                 /\ StartFromServer(restart)
    /\ UNCHANGED <<serverVars, connVars, left, eoc, ctxDone, fileVars, acked>>

-----------------------------------------------------------------------------
(***************************************************************************)
(* ReceiveXlogStream, before and after the copy stream.                    *)
(***************************************************************************)
HasHistory == tli = 1 \/ hist[tli] # "none"

\* The history file is written under a temporary name, fsynced and renamed.
FetchHistory ==
    /\ pc = "history"
    /\ HasHistory \/ ~ctxDone
    /\ hist' = IF HasHistory THEN hist ELSE [hist EXCEPT ![tli] = "renamed"]
    /\ Goto("start")
    /\ UNCHANGED <<serverVars, slot, connVars, streamVars, left, walfile, eoc, ctxDone,
                   part, full, ghostVars, faults>>

\* START_REPLICATION enters the copy stream.  Past the end it is refused; at the very
\* end of a timeline that has a successor there is nothing to copy, and the answer, a
\* result set that names the successor, is an error to pglogrepl.StartReplication.
ServerCanStart ==
    /\ tli <= srvTli
    /\ startPos >= srvMin
    /\ startPos <= TimelineEnd(tli)
    /\ tli < srvTli => startPos # fork[tli]

StartReplication ==
    /\ pc = "start"
    /\ IF ServerCanStart /\ ~ctxDone
         THEN /\ sent' = startPos
              /\ blockPos' = startPos
              /\ Goto("loop")
         ELSE /\ Goto("ended")
              /\ UNCHANGED <<sent, blockPos>>
    /\ UNCHANGED <<serverVars, slot, inflight, tli, startPos, lastFlush, left, walfile,
                   eoc, ctxDone, fileVars, ghostVars, faults>>

\* Mutant: the next timeline is requested from its fork, not from a segment's start.
NextTimelineUnaligned ==
    /\ pc = "copydone"
    /\ IF eoc = "switch" /\ fork[tli] <= blockPos
         THEN /\ tli' = tli + 1
              /\ startPos' = fork[tli]
              /\ Goto("history")
         ELSE Goto("fail") /\ UNCHANGED <<tli, startPos>>
    /\ eoc' = "none"
    /\ UNCHANGED <<serverVars, slot, connVars, blockPos, lastFlush, left, walfile,
                   ctxDone, fileVars, ghostVars, faults>>

\* Mutant: the end of a timeline is an error like any other.
NextTimelineFails ==
    /\ pc = "copydone"
    /\ Goto("fail")
    /\ eoc' = "none"
    /\ UNCHANGED <<serverVars, slot, connVars, streamVars, left, walfile, ctxDone,
                   fileVars, ghostVars, faults>>

\* handleEndOfCopyStream sends CopyDone and sets stopPos to blockPos; the server
\* answers with the next timeline and its start, or, when it shuts down, with nothing.
NextTimeline ==
    /\ pc = "copydone"
    /\ IF eoc = "switch" /\ fork[tli] <= blockPos
         THEN /\ tli' = tli + 1
              /\ startPos' = SegStart(fork[tli])
              /\ Goto("history")
         ELSE /\ Goto("fail")
              /\ UNCHANGED <<tli, startPos>>
    /\ eoc' = "none"
    /\ UNCHANGED <<serverVars, slot, connVars, blockPos, lastFlush, left, walfile,
                   ctxDone, fileVars, ghostVars, faults>>

\* CloseWalFileIfPresentNoRename; a descriptor that is already closed cannot be
\* closed again and stays in the abandoned stream.
CloseOnError ==
    /\ pc = "fail"
    /\ left' = 0 /\ eoc' = "none"
    /\ IF walfile.st = "open"
         THEN walfile' = [walfile EXCEPT !.st = "nil"] /\ Goto("failsync")
         ELSE UNCHANGED walfile /\ Goto("ended")
    /\ UNCHANGED <<serverVars, slot, connVars, streamVars, ctxDone, fileVars, ghostVars,
                   faults>>

\* FsyncFnameAndDir on the closed *.partial; its error is only logged.
SyncOnError ==
    /\ pc = "failsync"
    /\ IF part[walfile.f].st = "none"
         THEN UNCHANGED fileVars
         ELSE FsyncDir([part EXCEPT ![walfile.f] = FsyncedPart(@)])
    /\ Goto("ended")
    /\ UNCHANGED <<serverVars, slot, connVars, streamVars, left, walfile, eoc, ctxDone,
                   ghostVars, faults>>

\* The end of streamLog: fsync the directory, close the connection; then Run.
EndStream ==
    /\ pc = "ended"
    /\ FsyncDir(part)
    /\ slot' = Delivered
    /\ inflight' = 0
    /\ Goto(IF ctxDone \/ NoLoop THEN "exited" ELSE "connect")
    /\ UNCHANGED <<serverVars, sent, streamVars, left, walfile, eoc, ctxDone, ghostVars,
                   faults>>

-----------------------------------------------------------------------------
(***************************************************************************)
(* handleCopyStream.                                                       *)
(***************************************************************************)
\* sendFeedback with the given flush position.
SendFeedback(flush) ==
    /\ inflight' = flush
    /\ acked' = Greater(acked, IF tli = srvTli THEN flush ELSE Lesser(flush, fork[tli]))

MustFlush == lastFlush < blockPos /\ walfile.st = "open"

\* Mutant: the fsync is missing.
SyncWalFileSkipped == UNCHANGED part

\* SyncWalFile; a name that is gone leaves the descriptor on an unlinked file.
SyncWalFile == part' = [part EXCEPT ![walfile.f] = FsyncedPart(@)]

\* Top of the loop: flush and report what was received, or report because the status
\* interval has passed, or neither; then look at the context.
AfterTop == Goto(IF ctxDone THEN "fail" ELSE "recv")

LoopSync ==
    /\ pc = "loop" /\ MustFlush
    /\ SyncWalFile
    /\ lastFlush' = blockPos
    /\ SendFeedback(blockPos)
    /\ AfterTop
    /\ UNCHANGED <<serverVars, slot, sent, tli, startPos, blockPos, left, walfile, eoc,
                   ctxDone, full, hist, base, faults>>

LoopStatus ==
    /\ pc = "loop" /\ ~MustFlush
    /\ SendFeedback(lastFlush)
    /\ AfterTop
    /\ UNCHANGED <<serverVars, slot, sent, streamVars, left, walfile, eoc, ctxDone,
                   fileVars, base, faults>>

LoopIdle ==
    /\ pc = "loop" /\ ~MustFlush
    /\ AfterTop
    /\ UNCHANGED <<serverVars, slot, connVars, streamVars, left, walfile, eoc, ctxDone,
                   fileVars, ghostVars, faults>>

\* ReceiveMessage times out, at once when its context is done already; a cancellation
\* that finds it waiting is an error.
ReceiveTimeout ==
    /\ pc = "recv"
    /\ pc' \in (IF ctxDone THEN {"loop", "fail"} ELSE {"loop"})
    /\ UNCHANGED <<serverVars, slot, connVars, streamVars, left, walfile, eoc, ctxDone,
                   fileVars, ghostVars, faults>>

\* A keepalive that requests a reply.
ProcessKeepalive ==
    /\ pc = "recv" /\ ~ctxDone
    /\ IF MustFlush
         THEN /\ SyncWalFile
              /\ lastFlush' = blockPos
              /\ SendFeedback(blockPos)
         ELSE /\ SendFeedback(lastFlush)
              /\ UNCHANGED <<part, lastFlush>>
    /\ UNCHANGED <<serverVars, slot, sent, pc, tli, startPos, blockPos, left, walfile,
                   eoc, ctxDone, full, hist, base, faults>>

\* processXLogDataMsg up to the write loop: the message must continue the open
\* segment, or begin one.
ReceiveXLogData ==
    /\ pc = "recv" /\ ~ctxDone
    /\ \E n \in 1..MaxChunk :
         /\ sent + n <= TimelineEnd(tli)
         /\ blockPos' = sent
         /\ left' = n
         /\ sent' = sent + n
    /\ Goto(IF \/ walfile.st = "nil" /\ Off(sent) # 0
               \/ walfile.st = "open" /\ walfile.pos # Off(sent)
              THEN "fail" ELSE "data")
    /\ UNCHANGED <<serverVars, slot, inflight, tli, startPos, lastFlush, walfile, eoc,
                   ctxDone, fileVars, ghostVars, faults>>

\* The server ends the copy stream: its timeline has ended, or it shuts down.
EndOfCopy(why) ==
    /\ pc = "recv" /\ ~ctxDone
    /\ eoc' = why
    /\ Goto(IF walfile.st = "open" THEN "close" ELSE "copydone")
    /\ UNCHANGED <<serverVars, slot, connVars, streamVars, left, walfile, ctxDone,
                   fileVars, ghostVars>>

ReceiveCopyDone ==
    /\ tli < srvTli /\ sent >= fork[tli]
    /\ EndOfCopy("switch")
    /\ UNCHANGED faults

ServerShutdown ==
    /\ Fault("net")
    /\ EndOfCopy("shutdown")

-----------------------------------------------------------------------------
(***************************************************************************)
(* The write loop of processXLogDataMsg, and walfile.go.                   *)
(***************************************************************************)
CurrentFile == <<tli, Seg(blockPos)>>

\* OpenWalFile, no *.partial of full size: create it (truncating an empty one)...
CreateWalFile ==
    LET f == CurrentFile IN
    /\ pc = "data" /\ walfile.st = "nil"
    /\ part[f].st \notin {"sized", "synced"}
    \* a rename still pending here had its fsync fail; the name it replaced is free again
    /\ full' = [full EXCEPT ![f] = @ \/ part[f].st = "renamed"]
    /\ part' = [part EXCEPT ![f] = [st |-> "empty", data |-> 0, flushed |-> 0,
                                    linked |-> @.st = "empty" /\ @.linked]]
    /\ Goto("truncate")
    /\ UNCHANGED <<serverVars, slot, connVars, streamVars, left, walfile, eoc, ctxDone,
                   hist, ghostVars, faults>>

\* ... and pad it.
TruncateWalFile ==
    LET f == CurrentFile IN
    /\ pc = "truncate"
    /\ part' = [part EXCEPT ![f].st = IF @ = "empty" THEN "sized" ELSE @]
    /\ Goto("assign")
    /\ UNCHANGED <<serverVars, slot, connVars, streamVars, left, walfile, eoc, ctxDone,
                   full, hist, ghostVars, faults>>

\* OpenWalFile, a *.partial of full size: os.Stat has seen it ...
FindWalFile ==
    /\ pc = "data" /\ walfile.st = "nil"
    /\ part[CurrentFile].st \in {"sized", "synced"}
    /\ Goto("reopen")
    /\ UNCHANGED <<serverVars, slot, connVars, streamVars, left, walfile, eoc, ctxDone,
                   fileVars, ghostVars, faults>>

\* ... openFileAndFsync opens it, and exits the process when the name is gone.
ReopenWalFile ==
    LET f == CurrentFile IN
    /\ pc = "reopen"
    /\ part' = [part EXCEPT ![f] = FsyncedPart(@)]
    /\ IF part[f].st = "none"
         THEN /\ Goto("exited")
              /\ slot' = Delivered
              /\ inflight' = 0 /\ left' = 0
         ELSE /\ Goto("assign")
              /\ UNCHANGED <<slot, inflight, left>>
    /\ UNCHANGED <<serverVars, sent, streamVars, walfile, eoc, ctxDone, full, hist,
                   ghostVars, faults>>

\* stream.walfile is set only now: until here CurrentOpenWALFileName is empty.
AssignWalFile ==
    /\ pc = "assign"
    /\ walfile' = [st |-> "open", f |-> CurrentFile, pos |-> 0]
    /\ Goto("data")
    /\ UNCHANGED <<serverVars, slot, connVars, streamVars, left, eoc, ctxDone, fileVars,
                   ghostVars, faults>>

\* Mutant: the write is not cut at the end of the segment.
BytesToWriteUncut == left

\* One turn of the write loop: up to the end of the segment.
BytesToWrite == Lesser(left, WalSegSz - Off(blockPos))

WriteWalFile ==
    LET f == walfile.f
        n == BytesToWrite
    IN
    /\ pc = "data" /\ walfile.st = "open"
    /\ part' = IF part[f].st = "none" THEN part
               ELSE [part EXCEPT ![f].data = Greater(@, Off(blockPos) + n)]
    /\ walfile' = [walfile EXCEPT !.pos = @ + n]
    /\ blockPos' = blockPos + n
    /\ left' = left - n
    /\ Goto(IF Off(blockPos + n) = 0 THEN "close" ELSE IF left = n THEN "recv" ELSE "data")
    /\ UNCHANGED <<serverVars, slot, connVars, tli, startPos, lastFlush, eoc, ctxDone,
                   full, hist, ghostVars, faults>>

\* CloseWalFile: a complete segment is fsynced by path and goes on to the rename, an
\* incomplete one is only closed.
CloseWalFile ==
    /\ pc = "close"
    /\ IF walfile.pos = WalSegSz
         THEN /\ walfile' = [walfile EXCEPT !.st = "closed"]
              /\ SyncWalFile
              /\ Goto(IF part[walfile.f].st = "none" THEN "fail" ELSE "rename")
         ELSE /\ walfile' = [walfile EXCEPT !.st = "nil"]
              /\ UNCHANGED part
              /\ Goto("closesync")
    /\ UNCHANGED <<serverVars, slot, connVars, streamVars, left, eoc, ctxDone, full, hist,
                   ghostVars, faults>>

RenameWalFile ==
    LET f == walfile.f IN
    /\ pc = "rename"
    /\ IF part[f].st = "none"
         THEN Goto("fail") /\ UNCHANGED <<part, walfile>>
         ELSE /\ part' = [part EXCEPT ![f].st = "renamed"]
              /\ walfile' = [walfile EXCEPT !.st = "nil"]
              /\ Goto("closesync")
    /\ UNCHANGED <<serverVars, slot, connVars, streamVars, left, eoc, ctxDone, full, hist,
                   ghostVars, faults>>

\* FsyncFnameAndDir on the name the file now has; only then is blockPos flushed.
ClosedNameVisible(f) ==
    IF walfile.pos = WalSegSz THEN CompleteVisible(f) ELSE PartialVisible(f)

SyncClosedFile ==
    LET f == walfile.f IN
    /\ pc = "closesync"
    /\ IF ClosedNameVisible(f)
         THEN /\ FsyncDir([part EXCEPT ![f] = FsyncedPart(@)])
              /\ lastFlush' = blockPos
              /\ Goto(IF eoc # "none" THEN "copydone"
                      ELSE IF left = 0 THEN "recv" ELSE "data")
         ELSE /\ Goto("fail")
              /\ UNCHANGED <<part, full, hist, lastFlush>>
    /\ UNCHANGED <<serverVars, slot, connVars, tli, startPos, blockPos, left, walfile, eoc,
                   ctxDone, ghostVars, faults>>

-----------------------------------------------------------------------------
(***************************************************************************)
(* Failures.                                                               *)
(***************************************************************************)
\* A file system call of the stream fails; what it did before stays done.
IOError ==
    /\ Fault("io")
    /\ \/ pc \in {"data", "truncate", "rename", "closesync"} /\ UNCHANGED walfile
       \/ pc \in {"loop", "recv"} /\ MustFlush /\ UNCHANGED walfile
       \/ pc = "close" /\ walfile' = [walfile EXCEPT !.st = "closed"]
       \/ pc = "history" /\ ~HasHistory /\ UNCHANGED walfile
    /\ Goto(IF pc = "history" THEN "ended" ELSE "fail")
    /\ UNCHANGED <<serverVars, slot, connVars, streamVars, left, eoc, ctxDone, fileVars,
                   ghostVars>>

\* fsync of the partial, or of the directory after it, fails on the error path.
SyncOnErrorFails ==
    /\ Fault("io")
    /\ pc = "failsync"
    /\ Goto("ended")
    /\ UNCHANGED <<serverVars, slot, connVars, streamVars, left, walfile, eoc, ctxDone,
                   fileVars, ghostVars>>

\* The fsync that ends streamLog fails: the connection is kept, and the next round
\* asks it for the slot, which is fatal when it still is in the copy stream.
EndStreamFails ==
    /\ Fault("io")
    /\ pc = "ended"
    /\ slot' = Delivered
    /\ inflight' = 0
    /\ pc' \in (IF ctxDone \/ NoLoop THEN {"exited"} ELSE {"slot", "exited"})
    /\ UNCHANGED <<serverVars, sent, streamVars, left, walfile, eoc, ctxDone, fileVars,
                   ghostVars>>

\* openFileAndFsync cannot fsync the *.partial: it is removed and the process exits.
ReopenFails ==
    LET f == CurrentFile IN
    /\ Fault("reopen")
    /\ pc = "reopen"
    /\ part' = [part EXCEPT ![f] = NoPart]
    /\ Goto("exited")
    /\ slot' = Delivered
    /\ inflight' = 0 /\ left' = 0 /\ eoc' = "none"
    /\ UNCHANGED <<serverVars, sent, streamVars, walfile, ctxDone, full, hist,
                   ghostVars>>

\* The connection breaks.  Before the stream begins that ends streamLog with an error,
\* which is fatal to the process.
ConnectionLost ==
    /\ Fault("net")
    /\ \/ pc = "slot" /\ Goto("exited")
       \/ pc \in {"history", "start"} /\ Goto("ended")
       \/ pc \in {"loop", "recv", "copydone"} /\ Goto("fail")
    /\ inflight' = 0
    /\ UNCHANGED <<serverVars, slot, sent, streamVars, left, walfile, eoc, ctxDone,
                   fileVars, ghostVars>>

Cancel ==
    /\ Fault("cancel")
    /\ ~ctxDone /\ pc # "exited"
    /\ ctxDone' = TRUE
    /\ UNCHANGED <<serverVars, slot, connVars, pc, streamVars, left, walfile, eoc,
                   fileVars, ghostVars>>

\* IdentifySystem and TimelineHistory return at once when the context is cancelled.
CancelledBeforeStream ==
    /\ ctxDone
    /\ \/ pc = "slot" /\ Goto("exited")
       \/ pc = "history" /\ ~HasHistory /\ Goto("ended")
    /\ UNCHANGED <<serverVars, slot, connVars, streamVars, left, walfile, eoc, ctxDone,
                   fileVars, ghostVars, faults>>

\* What is left of the stream when its process is gone.
ProcessGone ==
    /\ Goto("exited")
    /\ inflight' = 0 /\ left' = 0 /\ eoc' = "none"
    /\ walfile' = [walfile EXCEPT !.st = "nil"]
    /\ UNCHANGED <<serverVars, sent, streamVars, ctxDone, ghostVars>>

Kill ==
    /\ Fault("kill")
    /\ pc # "exited"
    /\ ProcessGone
    /\ slot' = Delivered
    /\ UNCHANGED fileVars

\* Files whose state a power failure may change.
Volatile == {f \in Files : part[f].st # "none" /\ ~(part[f].st = "synced" /\ part[f].linked)}

PowerFailure ==
    /\ Fault("power")
    /\ \E kept \in SUBSET Volatile, histKept \in SUBSET {t \in TLIs : hist[t] = "renamed"},
          cut \in 0..WalSegSz :
         /\ part' = [f \in Files |-> PoweredPart(part[f], f \in kept, cut)]
         /\ full' = [f \in Files |-> PoweredFull(f, f \in kept)]
         /\ hist' = [t \in TLIs |-> PoweredHist(t, t \in histKept)]
    /\ ProcessGone
    /\ UNCHANGED slot

\* The service manager starts the process again.
Restart ==
    /\ pc = "exited"
    /\ Goto("connect")
    /\ ctxDone' = FALSE
    /\ inflight' = 0
    /\ UNCHANGED <<serverVars, slot, sent, streamVars, left, walfile, eoc, fileVars,
                   ghostVars, faults>>

-----------------------------------------------------------------------------
Init ==
    /\ srvTli = 1 /\ srvEnd = InitLSN /\ srvMin = SegStart(InitLSN)
    /\ fork = [t \in TLIs |-> 0]
    /\ slot = IF SlotExists THEN InitLSN ELSE NoSlot
    /\ sent = 0 /\ inflight = 0
    /\ pc = "connect"
    /\ tli = 1 /\ startPos = 0 /\ blockPos = 0 /\ lastFlush = 0
    /\ left = 0 /\ eoc = "none" /\ ctxDone = FALSE
    /\ walfile = [st |-> "nil", f |-> <<1, 0>>, pos |-> 0]
    /\ part = [f \in Files |-> NoPart]
    /\ full = [f \in Files |-> FALSE]
    /\ hist = [t \in TLIs |-> "none"]
    /\ base = 0 /\ acked = 0
    /\ faults = 0

ServerStep == ServerWrite \/ Promote \/ Recycle \/ ApplyFeedback

\* The receiver's own steps, as long as nothing fails.
ReceiverStep ==
    \/ Connect \/ FindStart \/ FetchHistory \/ StartReplication
    \/ LoopSync \/ LoopStatus \/ LoopIdle
    \/ ReceiveTimeout \/ ProcessKeepalive \/ ReceiveXLogData \/ ReceiveCopyDone
    \/ CreateWalFile \/ TruncateWalFile \/ FindWalFile \/ ReopenWalFile
    \/ AssignWalFile \/ WriteWalFile
    \/ CloseWalFile \/ RenameWalFile \/ SyncClosedFile
    \/ NextTimeline \/ CloseOnError \/ SyncOnError \/ EndStream
    \/ CancelledBeforeStream \/ Restart

FaultStep ==
    \/ ServerShutdown \/ IOError \/ SyncOnErrorFails \/ EndStreamFails \/ ReopenFails
    \/ ConnectionLost \/ Cancel \/ Kill \/ PowerFailure

Next == ServerStep \/ ReceiverStep \/ FaultStep

Spec == Init /\ [][Next]_vars

(***************************************************************************)
(* Fairness: the goroutine and the service manager keep running, the       *)
(* walsender reads its socket and sends what it has whenever the receiver  *)
(* comes back to read, and the status interval passes again and again.     *)
(***************************************************************************)
Fairness ==
    /\ WF_vars(ReceiverStep)
    /\ WF_vars(ApplyFeedback)
    /\ SF_vars(ReceiveXLogData)
    /\ SF_vars(ReceiveCopyDone)
    /\ SF_vars(LoopStatus)
    /\ SF_vars(ReceiveTimeout)

FairSpec == Spec /\ Fairness

-----------------------------------------------------------------------------
(***************************************************************************)
(* Properties.                                                             *)
(***************************************************************************)
PCs == {"connect", "slot", "history", "start", "loop", "recv", "data", "truncate",
        "reopen", "assign", "close", "rename", "closesync", "copydone", "fail", "failsync",
        "ended", "exited"}
WalFile == [st: {"nil", "open", "closed"}, f: Files, pos: 0..WalSegSz]

\* The type of the state: no position outruns the primary's WAL, no write its segment.
TypeOK ==
    /\ srvTli \in TLIs /\ srvEnd \in LSNs /\ srvMin \in LSNs
    /\ fork \in [TLIs -> LSNs]
    /\ slot \in LSNs \cup {NoSlot}
    /\ sent \in LSNs /\ inflight \in LSNs
    /\ pc \in PCs
    /\ tli \in TLIs /\ startPos \in LSNs /\ blockPos \in LSNs /\ lastFlush \in LSNs
    /\ left \in 0..MaxChunk
    /\ walfile \in WalFile
    /\ eoc \in {"none", "switch", "shutdown"}
    /\ ctxDone \in BOOLEAN
    /\ part \in [Files -> Part]
    /\ full \in [Files -> BOOLEAN]
    /\ hist \in [TLIs -> {"none", "renamed", "durable"}]
    /\ base \in LSNs /\ acked \in LSNs
    /\ faults \in 0..MaxFaults

\* Byte lsn is in the file of timeline t whatever a power failure takes.
SurvivesIn(t, lsn) ==
    LET f == <<t, Seg(lsn)>>
        p == part[f]
    IN  \/ full[f]
        \/ p.linked /\ p.st \in {"synced", "renamed"} /\ p.flushed > Off(lsn)

\* Byte lsn of timeline t is also a byte of the primary's present history.
InHistory(t, lsn) == \A u \in TLIs : t <= u /\ u < srvTli => lsn < fork[u]

Stored(lsn) == \E t \in TLIs : t <= srvTli /\ InHistory(t, lsn) /\ SurvivesIn(t, lsn)

StoredBelow(lsn) == \A l \in LSNs : base <= l /\ l < lsn => Stored(l)

(***************************************************************************)
(* RPO = 0: what sendFeedback reports as flushed, and a synchronous commit *)
(* therefore counts on, survives a power failure of the receiver's host.   *)
(***************************************************************************)
AckedIsStored == StoredBelow(Lesser(acked, srvEnd))

(***************************************************************************)
(* Weaker, and true even when OpenWalFile removes a *.partial it cannot    *)
(* fsync: a byte of WAL is stored or still held back by the slot.          *)
(***************************************************************************)
NothingLost ==
    base > 0 /\ slot > 0 => StoredBelow(Lesser(SegStart(slot), srvEnd))

(***************************************************************************)
(* ReceiveXlogStream takes its start position as flushed ("it's the        *)
(* caller's responsibility that that's sane"): whatever findStreamingStart *)
(* made of the directory after a crash, everything below is stored.        *)
(***************************************************************************)
StartIsSane == pc = "start" => StoredBelow(startPos)

(***************************************************************************)
(* Once the slot holds WAL back, the receiver only asks for WAL the slot   *)
(* protects, and never past the end of a timeline.  Otherwise              *)
(* START_REPLICATION fails again and again.  The very end of a timeline is *)
(* not excluded: see StartsAtFork.                                         *)
(***************************************************************************)
StartIsAvailable ==
    pc = "start" /\ slot > 0 =>
        /\ startPos >= SegStart(slot)
        /\ tli <= srvTli /\ startPos <= TimelineEnd(tli)

(***************************************************************************)
(* The offset checks of processXLogDataMsg never abort a stream: however   *)
(* messages are cut and timelines switch, the next message continues the   *)
(* open file or begins a segment.                                          *)
(***************************************************************************)
NextMessageFits ==
    pc = "recv" => IF walfile.st = "open" THEN walfile.pos = Off(sent) ELSE Off(sent) = 0

(***************************************************************************)
(* closeAndRename gives a segment its final name only once all of it is on *)
(* disk: the final name is what findStreamingStart and a restore trust.    *)
(***************************************************************************)
FinalNameMeansFlushed ==
    \A f \in Files : part[f].st = "renamed" => part[f].flushed = WalSegSz

(***************************************************************************)
(* The choice of the start falls back to the end of the server's WAL only  *)
(* while nothing has been reported flushed: never a silent gap.            *)
(***************************************************************************)
NoSilentSkip == [][base # 0 /\ base' # base => acked <= base]_vars

(***************************************************************************)
(* However often streaming is interrupted, in the end the primary's slot   *)
(* learns that all of its WAL is flushed.  Not so when findStreamingStart  *)
(* asks for the end of a timeline that has a successor.                    *)
(***************************************************************************)
EventuallyAllAcked == <>[](slot = srvEnd)

\* What the directory makes findStreamingStart choose is the fork of a timeline.
StartsAtFork ==
    \E e \in WalEntries :
        /\ \A d \in WalEntries : d = e \/ SortsBefore(e, d)
        /\ e[1][1] < srvTli
        /\ EntryStart(e) = fork[e[1][1]]

(***************************************************************************)
(* Streaming comes back after every interruption, over segment ends and    *)
(* timeline switches, and the slot in the end follows all of the WAL; the  *)
(* one way to stay behind for good is the start at a fork.                 *)
(***************************************************************************)
EventuallyAllAckedOrAtFork == <>[](slot = srvEnd \/ StartsAtFork)
=================================================================================
