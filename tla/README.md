# pgrwl: TLA+ models, checks and proofs

pgrwl streams the write-ahead log (WAL) of a PostgreSQL primary into a
directory, moves finished segments to a WAL archive, takes base backups and
purges what its retention policy no longer needs. It promises that WAL it has
reported flushed is never lost (RPO = 0), that what is archived can be restored,
and that retention keeps enough. This directory holds models of the parts those
promises depend on, TLC runs over small instances, refinements that show the
storage pipeline to implement the store its users assume and receiver, uploader
and daemon to lead a segment through one and the same life, and TLAPS proofs of
the safety of every component, and of the refinements, for every instance.

Commands, in this directory: `tlc -config WalReceiverCrash.cfg MCWalReceiver`,
`tlapm WalReceiverProofs.tla`. `PROJECT.json` lists the runs, the mutants that
show that each property can be broken, the source lines behind each definition,
the hazards, the findings and the theorems.

## 1. Inventory

| Component | State | Operations | What makes it correct |
|---|---|---|---|
| WAL receiver (`internal/core/xlog`) | `StreamCtl` (timeline, positions, `lastFlushPosition`, the open file), the receive directory | `Run`, `streamLog`, `findStreamingStart`, `ReceiveXlogStream`, `handleCopyStream`, open / write / sync / close a segment, history files, status updates | what it reports flushed is on disk; after any crash it resumes without a gap from WAL the slot still holds; it follows timelines; it makes progress |
| WAL addresses and names (`internal/core/xlog/xlog_internal*.go`) | none | segment arithmetic, formatting and parsing of names | names order as positions do, parsing inverts formatting |
| Archive supervisor (`supervisors/receivesv`) | the list of a tick, the workers | tick, list, filter, upload, remove | nothing leaves the directory before it is in the archive; the file being written is left alone; every complete segment is archived in the end |
| Backup supervisor (`supervisors/backupsv`) | `BackupRunState` under its mutex, the cron schedule | scheduled and manual runs, recovery-window retention, base backup | one run at a time; the slot is always released; every kept backup has its WAL; the window and `keep_last` are honoured |
| Base backup (`basebackup/backup`) | the replication connection, `curFile` with its pipe, goroutine and `putErr` | `BASE_BACKUP`, the copy stream, `Put` per file, the marker last | a marked backup is whole; whatever fails, it returns and leaves no upload behind |
| Base backup restore (`basebackup/restore`) | none | choose, list, read the marker, download, unpack | only a whole backup is restored |
| Storage backends (`shared/storecrypt`) | objects | `Put`, `Get`, `List`, `Delete`, `DeleteDir`, `Rename`, local, SFTP, S3 with multipart upload | a visible object is whole, or its source still exists |
| Variadic storage (`storecrypt/dynstor.go`) | which extension (compression, encryption) a name has | the same calls | a read finds what any earlier configuration wrote |
| Compression, encryption | streams | `aesgcm` chunk framing, gzip, zstd | decode inverts encode, truncation is noticed |
| Receive mode (`opt/cmd/mode_receive.go`) | goroutines, a fatal error channel, the context | start, signal, bounded shutdown | everything ends, an error is not swallowed, only critical parts stop the daemon |
| Serve mode, `GetWalFile` | directory and archive | restore of one segment | a segment is found wherever it has moved |
| Configuration (`config`, `api.SetupStorage`) | the loaded configuration | load, validate, set up | what is accepted can be used, and means what it says |
| HTTP API | none of its own | status, manual backup, configuration | the manual trigger respects the slot |
| Command line | none | daemon, backup, restore, restore-command, validate | starts the right process with a checked configuration |
| UI, logging, metrics, job queue | | | not part of the promises above |

How they interact. Receiver and archive supervisor are goroutines of one process
over one directory: they share it without a lock, apart from
`CurrentOpenWALFileName`, which reads `stream.walfile`. The receiver talks to
the primary over a replication connection (data one way, status updates the
other); the status updates move the slot, and the slot is what lets the primary
recycle WAL. The backup supervisor deletes from the archive the other supervisor
fills. Cron and HTTP handler compete for one backup slot. Every `Put` runs
through two goroutines and a pipe without a buffer, and for a base backup
through a third goroutine and a second pipe. `RunReceiveMode` owns the
goroutines; they report to it through a channel of one element and the context.
A serve process and a restore read directory and storage from outside, under no
lock.

Hard behaviours. The order of write, fsync, rename, directory fsync and status
update against a crash at any point; the choice of the restart position from
whatever names survived; timelines that end in the middle of a segment; messages
cut anywhere; the uploader listing, opening and unlinking files while the
receiver creates, writes and renames them; failed uploads that leave torn
objects; retention that stops half-way; a backup that takes longer than the
distance to the window; a `Put` that fails behind two pipes while its writer goes
on; multipart uploads that can neither be completed nor aborted; a segment that
moves while it is looked for; a configuration changed between two starts; a
shutdown with an error on its way. `PROJECT.json` lists each at its line under "hazards".

## 2. Modules

| Module | Models | Rests on |
|---|---|---|
| `XLog` | segment arithmetic of `xlog_internal.go` | |
| `WalReceiver` | the receiver, the primary with its slot, the connection, the directory and what a power failure takes from it | `XLog` |
| `SegmentLife` | abstract: the life of a segment between receive directory and archive | |
| `ArchiveSupervisor` | the uploader composed with the receiver over the same directory, with the mapping to `SegmentLife` | `WalReceiver`, `SegmentLife` (INSTANCE) |
| `BackupSupervisor` | backup slot, runs, retention, base backup, storage | `XLog` |
| `ObjectStore` | abstract: what a `Put` promises to its callers | |
| `StoragePut` | `Put` through compression, encryption and backend, with the mapping to `ObjectStore` | `ObjectStore` (INSTANCE) |
| `BaseBackup` | the copy protocol, `StreamingFile`, the marker, the restore | `StoragePut` |
| `Config` | `validate`, `SetupStorage`, `getWriteExt` as operators | |
| `VariadicStorage` | extensions and their lookup as operators | |
| `ReceiveMode` | the life of a daemon in either mode | |
| `Daemon` | a process with its configuration, one segment, the request of a `restore_command`, with the mapping to `SegmentLife` | `Config`, `VariadicStorage`, `ReceiveMode`, `SegmentLife` (INSTANCE) |
| `WalReceiverInv` | the inductive invariant and the lemmas on segments and disks | `WalReceiver` |
| `WalReceiverShape` | first induction: types and the shape of files and positions | `WalReceiverInv` |
| `WalReceiverProofs` | second induction and the receiver's theorems | `WalReceiverShape` |
| `WalReceiverStart` | third induction: names, slot and the place where streaming begins | `WalReceiverProofs` |
| `ArchiveSupervisorProofs` | the induction over receiver and uploader together; the refinement of `SegmentLife` | `ArchiveSupervisor`, `WalReceiverShape` |
| `BackupSupervisorProofs` | two inductions: the slot, the retention | `BackupSupervisor` |
| `BaseBackupProofs` | the account of the chunks; the refinement of `ObjectStore` | `BaseBackup` |
| `DaemonProofs` | process, segment and request; the refinement of `SegmentLife` | `Daemon` |
| `MC*` | instances for TLC | |

### WalReceiver

`pc` names the call the receiver's goroutine is about to make; between two
values lies one effect on the directory, the connection or the stream:

| `pc` | Code | Actions |
|---|---|---|
| `connect`, `slot` | `streamLog` up to the choice of the start, `findStreamingStart` | `Connect`, `FindStart` |
| `history`, `start` | the top of the loop in `ReceiveXlogStream` | `FetchHistory`, `StartReplication` |
| `loop`, `recv` | `handleCopyStream`: sync and status update before each receive, the drain loop | `LoopSync`, `LoopStatus`, `LoopIdle`, `ReceiveTimeout`, `ReceiveXLogData`, `ProcessKeepalive`, `ReceiveCopyDone` |
| `data`, `truncate`, `reopen`, `assign` | `processXLogDataMsg`, `OpenWalFile` | `FindWalFile`, `CreateWalFile`, `TruncateWalFile`, `ReopenWalFile`, `AssignWalFile`, `WriteWalFile` |
| `close`, `rename`, `closesync` | `closeAndRename` | `CloseWalFile`, `RenameWalFile`, `SyncClosedFile` |
| `copydone`, `fail`, `failsync`, `ended`, `exited` | the end of a timeline, the error paths, the end of `streamLog`, the process and its restart | `NextTimeline`, `CloseOnError`, `SyncOnError`, `EndStream`, `Restart` |

A byte of WAL is its position; a file is the prefix of its segment that has been
written and the shorter prefix that has reached the disk, with the state of its
name: created, padded, fsynced, renamed but with the directory not yet fsynced,
final. `PowerFailure` keeps the durable part and any choice of the rest. The
primary writes, is promoted (a new timeline forks), recycles WAL below the slot
and applies status updates some time after they are sent. `acked` and `base` are
observations: the highest position reported, and the first one the receiver
undertook to store. The constant `Faults` selects what the environment may do;
its values are explained at `FaultKinds`.

### ArchiveSupervisor

A tick lists and filters in one step. A worker opens, puts, removes in a step
each; a put may fail and leave a torn object, and the end of the process tears
the puts under way. Removal is by name, as in the code: a file renamed since is
not found. Every step of `WalReceiver` is a step here (`OtherStep`).

`ArchiveImplementsLife` is the refinement of `SegmentLife`. There a segment is
absent, being received or complete in the directory, and its object is none, torn
or whole in the archive. It gets its final name from its `*.partial` only; its
object is written, and torn, only while the complete file is there and stays; and
the complete file goes only when the object is whole. `DirState` and `ObjectState`
are the mapping: a segment whose final name and `*.partial` both exist counts as
complete. That happens when the directory could not be read and the receiver began
a segment again that lay there complete; the file that is then released leaves a
`*.partial` behind, which `Release` allows. One step may be a step of several
segments, since the end of a process tears all its uploads at once. `Daemon`
implements the same specification for its one segment (`DaemonImplementsLife`),
where the object is whole when a variant under any extension is.

### BackupSupervisor

A caller reserves the slot, loads the markers, purges directory after
directory, lists and deletes WAL segment by segment, starts and ends the base
backup, writes the marker and releases the slot; an error, a shutdown or a kill
may come anywhere. WAL names order by timeline and then by segment, as the
strings do.

### StoragePut and BaseBackup

Three goroutines work on an archive of a base backup, and each has a program
counter: the loop of `streamBaseBackup` (`pc`), the goroutine of
`NewStreamingFile` (`gpc`, with the backend's `Put` as `bpc`) and the transform
goroutine of `CompressAndEncryptOptional` (`tpc`). They are joined by two
`io.Pipe`s, `outer` and `inner`: a write waits until it is read or an end is
closed.

| Steps | Code |
|---|---|
| `ReceiveNewArchive`, `OpenFile`, `ReceiveData`, `WriteTaken`, `WriteFails`, `ReceiveManifest`, `ReceiveCopyDone`, `ReceiveFails`, `ReceiveUnexpected` | the message loop of `streamBaseBackup`, `StreamingFile.Write` |
| `CloseCurrent`, `JoinFile` | `closeCurrent`, `StreamingFile.Close`: close the pipe, wait for `done`, look at `putErr` |
| `FinishBaseBackup`, `MarkerBegins`, `MarkerEnds` | the end of the stream, `StreamBackup` |
| `PutReturns`, `ClosePipe` | the end of `NewStreamingFile`'s goroutine |
| `TransformRead`, `TransformEnd`, `TransformClose`, `TransformFails` | `CompressAndEncryptOptional`; a compressor may hold a chunk back |
| `BackendBegin`, `BackendRead`, `BackendEOF`, `UploadPart`, `Commit`, `PutCallFails`, `Abort` | `localStorage.Put`, `sftpStorage.Put`, `putMultipartStream`, `abortMultipartUpload` |
| `RestoreChoose` ... `RestoreEnds` | `RestoreBaseBackup`, one read of the storage per step |

Content is a number of chunks, so a truncated object is one with fewer. A
completion that fails may have taken effect. The restore may choose any existing
directory, as `--id` may name it.

`PutImplementsStore` is the refinement: `Store!Spec`, the specification of
`ObjectStore`, with `put` mapped to `AbstractPut` (what was taken from the source
is what the transform goroutine holds, what is in the inner pipe and what the
backend has read) and `atomic` to `backend = "s3"`. It says that a `Put` reports
success only after the end of its source and with all of it stored, and that S3
never shows a part. `ArchiveSupervisor`, `BackupSupervisor` and `Daemon` use
stores of exactly this kind: a `Put` that is whole, or failed and perhaps torn.

### Config, VariadicStorage, ReceiveMode, Daemon

`Config` states each check of `config.go` as a predicate over records whose
fields take the values the code tells apart; `Accepted` is the set of what the
program would use after `validate`, over all of them. `VariadicStorage` holds the
six extensions in the order of lookup. `ReceiveMode` has the main goroutine
(`init`, `select`, `wait`, `returned`), one state per component goroutine
(`run`, `send`, `cancel`, `down`), the channel and the context; an error is put
into the channel and cancels the context in two steps, as in `sendFatalErr`.

`Daemon` composes them around one segment: `StartProcess`, `LoadConfig`,
`ConfigRefused`, `SetUp` are `daemonCmd` up to the goroutines; the receiver opens,
completes or receives the segment again; the uploader puts and removes it; a
request goes through `GetWalFile` place by place. Receiver and uploader are
reduced to what one file goes through; `WalReceiver` and `ArchiveSupervisor` are
the detailed models of the same code. History variables: `completed`, `again`
(received a second time), `leftover` (a torn variant under another extension when
a configuration was loaded).

## 3. Runs

| Run | Checks | Shows |
|---|---|---|
| `receiver_crash` | `TypeOK`, `AckedIsStored`, `StartIsSane`, `StartIsAvailable`, `NextMessageFits`, `FinalNameMeansFlushed`, `IInv`, `StartInv` | two power failures, lost connections or cancellations anywhere: acknowledged WAL survives, the restart is sane and possible |
| `receiver_io` | `NothingLost`, `NoSilentSkip`, `EventuallyAllAckedOrAtFork` | failing file system calls, kills, cancellations, lost connections, an unreadable directory, with an existing slot: nothing is lost, and the slot reaches the end of the primary's WAL over a timeline switch, unless the start is a fork |
| `archive` | `ArchiveTypeOK`, `NothingLostToUploads`, `RemovedOnlyWhenArchived`, `ArchiveImplementsLife`, `CompleteIsArchived` | two workers beside the receiver, torn uploads, kills, lost connections; again and again every complete segment is archived |
| `backup` | `BackupTypeOK`, `SingleRun`, `BackupsAreRestorable`, `WindowAnchored`, `KeepsLast` | retention and backups across a failover, with a fault anywhere |
| `backup_live` | `SlotIsReleased` | every run releases the slot |
| `base_backup` | `BaseBackupTypeOK`, `MarkedIsWhole`, `RestoredIsWhole`, `UploadsAreJoined`, `PutImplementsStore`, `BackupReturns` | two archives over both kinds of backend, two faults anywhere (a storage call, the connection, an unexpected message, a kill, a read of the restore) |
| `daemon` | `DaemonTypeOK`, `RunsAsConfigured`, `CompletedIsAvailable`, `CompletedIsServed`, `FatalIsReturned`, `ReceivingGoesOn`, `DaemonStops`, `DaemonImplementsLife` | two starts in any mode with any accepted configuration, one fault or kill, a signal, requests at any time |
| `receiver_overlap`, `archive_acked`, `retention_window`, `receiver_fork`, `config_accepted` | one property each, violated | section 6 |

Bounds. A segment of two bytes is the smallest with an inside and a boundary.
`InitLSN` = 3 starts in the middle of a segment and `MaxLSN` = 6 reaches over
three of them, so that there is a first, partly received segment, one received
whole and one begun. `MaxChunk` = 3 is more than a segment: a message can span a
boundary. Two timelines give one switch, at every offset. Two faults let a
failure hit the recovery from another one. With the uploader, one timeline and
`MaxLSN` = 5 keep the product small: two segments, two workers, one failed put
and one fault. For retention, four backups with `KeepLast` = 2 and a window of 3
ticks out of 4 let the window and the minimum decide in turn; two segments and
two timelines put a failover between backups. The two callers are symmetric; no
run that checks liveness uses symmetry. The receiver runs without `--no-loop`;
the exit it would take is the one a cancellation takes. `receiver_fork` needs
one segment, a switch at its end and one lost connection. The proofs remove the
bounds for safety.

For the base backup, a part of two chunks and at most two parts let a source of
up to five be empty, end in a short part, end with a full one and exceed the
limit; two archives bring a second file opened after the first was closed, and a
tablespace tar. Two faults are a failing call and the failing abort after it. One
backup is enough: backups share nothing but the storage, where their names
differ. SFTP takes the steps of the local backend. For the daemon, one segment is
enough because the properties speak of one; two starts give a change of mode and
of configuration; every accepted configuration is loaded and judged, and the
process is followed further with the first and the last extension in the order of
lookup, so that either can shadow the other. The backend does not change between
starts: what another one holds is out of the program's sight.

Deadlock is checked in the runs of the receiver, the archive and the backup
supervisor. `base_backup` and `daemon` end when the bounded backup has returned
and the restore is over, or when no start is left.

Excluded by a property, because the code does otherwise (section 6): a request
whose reading breaks off, a segment that is being received again, a torn variant
of another extension (`CompletedIsServed`); a return on an unexpected message
(`UploadsAreJoined`), and there also an S3 upload whose creation was reported as
failed but took effect, since the program never learnt its id; a start at the end
of a historic timeline (`EventuallyAllAckedOrAtFork`); a set-up that fails
(`RunsAsConfigured` speaks of the processes that run, `AcceptedIsUsable` of all).
`CompletedIsServed` allows an error, which is also the answer for a variant
encrypted with another password. `RestoredIsWhole` speaks of restores that chose a
backup: with none in the storage and no `--id` the command restores nothing and
reports no error.

Which faults share a run. A kill between the rename and the directory fsync
followed by a power failure can take the final name back after a later start has
trusted it: the file is then found again as `*.partial`, while the slot has
moved on, and `StartIsAvailable` fails. `receiver_crash` therefore has power
failures without kills and `receiver_io` kills without power failures. The
receiver's theorems cover both together, but for the two about `StartIsAvailable`,
which cover each without the other (`CrashesApart`, section 4). An unreadable
directory combined with a slot whose `restart_lsn` is unset falls back to the end
of the server's WAL, so `receiver_io` starts from an existing slot. A new slot is
created without reserving WAL; `recycle` lets the primary recycle before the first
status update. It is part of `receiver_crash` and left out of `receiver_io`, where
START_REPLICATION could then fail for ever. That a start after a power failure is
available is `StartIsAvailable` in `receiver_crash` and its theorem; liveness after
it is not checked. `StartIsAvailable` allows the end of a historic timeline, where
the WAL exists but the server refuses to start a copy: `StartsAtFork` names that
case.

### Fairness

- Receiver: weak fairness of its own steps and of the restart (the goroutine is
  scheduled; the service manager restarts the process) and of the walsender
  reading its socket. Strong fairness of receiving data, of the end of copy and
  of the receive timeout, since the receiver comes back to the same receive call
  and what is waiting there is delivered in the end, and of the status update,
  since the status interval passes again and again. The number of faults is
  bounded.
- Archive: weak fairness of the uploader (ticker and workers) and of the restart.
  Nothing is assumed of the receiver.
- Backup: weak fairness of each run's next call: storage and primary answer or
  fail in the end. Nothing is assumed of triggers, of the clock or of WAL.
- Base backup: weak fairness of the message loop (the server sends its next
  message, or the connection fails), of the goroutine of the file, of the
  transform goroutine and of the backend (a call to the storage returns).
  `BackupReturns` is about the waiting between them; nothing is assumed of the
  restore.
- Daemon: weak fairness of the main goroutine, whose timer fires in receive mode;
  of an error on its way into channel and context; and of the HTTP server, which
  ends after the context with a timeout of its own. Nothing is assumed of
  receiver, uploads and scheduler: `DaemonStops` holds although they may hang,
  in receive mode by the timeout.

## 4. Proofs

Each theorem holds for every value of the constants its module's named assumptions
allow (`ConstantsAssumption`, `UploaderAssumption`, `BackupAssumption`, ...): any
segment and message size, any number of timelines, workers, callers, backups,
archives, chunks, starts, failing calls and kills, every window and `keep_last`.

| Theorem | States | Besides |
|---|---|---|
| `WalReceiverShape` | | |
| `TypeCorrect` | `Spec => []TypeOK` | `SoundFaults` |
| `WalReceiverProofs` | | |
| `Invariance` | `Spec => []IInv` | `SoundFaults` |
| `AckedSurvives` | `Spec => []AckedIsStored` | `SoundFaults` |
| `SlotReleasesOnlyStored` | `Spec => []NothingLost` | `SoundFaults` |
| `SaneStart` | `Spec => []StartIsSane` | `SoundFaults` |
| `MessagesFit` | `Spec => []NextMessageFits` | `SoundFaults` |
| `FinalNameIsTrusted` | `Spec => []FinalNameMeansFlushed` | `SoundFaults` |
| `NoGapIsSilent` | `Spec => NoSilentSkip` | `SoundFaults`; a readable directory or an existing slot |
| `WalReceiverStart` | | |
| `StartInvariance` | `Spec => []StartInv` | `SoundFaults`, `CrashesApart`, `WalkSafe` |
| `StartStaysAvailable` | `Spec => []StartIsAvailable` | `SoundFaults`, `CrashesApart`, `WalkSafe` |
| `ArchiveSupervisorProofs` | | |
| `ArchiveTyped` | `ArchiveSpec => []ArchiveTypeOK` | `SoundFaults`, `NoPower` |
| `UploadsLoseNothing` | `ArchiveSpec => []NothingLostToUploads` | `SoundFaults`, `NoPower` |
| `RemovalNeedsArchive` | `ArchiveSpec => RemovedOnlyWhenArchived` | `SoundFaults`, `NoPower` |
| `UploadsFollowLife` | `ArchiveSpec => ArchiveImplementsLife` | `SoundFaults`, `NoPower` |
| `LifeKeeps` | `ArchiveSpec => Life!KeptForGood` | `SoundFaults`, `NoPower` |
| `BackupSupervisorProofs` | | |
| `BackupTyped` | `Spec => []BackupTypeOK` | |
| `OneRunAtATime` | `Spec => []SingleRun` | |
| `RetentionKeepsWal` | `Spec => []BackupsAreRestorable` | readable markers |
| `RetentionKeepsWindow` | `Spec => []WindowAnchored` | readable markers |
| `RetentionKeepsLast` | `Spec => []KeepsLast` | readable markers |
| `BaseBackupProofs` | | |
| `BaseBackupTyped` | `Spec => []BaseBackupTypeOK` | |
| `BackupsAreWhole` | `Spec => []MarkedIsWhole` | |
| `RestoresAreWhole` | `Spec => []RestoredIsWhole` | |
| `UploadsJoined` | `Spec => []UploadsAreJoined` | |
| `PipelineIsAStore` | `Spec => PutImplementsStore` | |
| `DaemonProofs` | | |
| `DaemonTyped` | `Spec => []DaemonTypeOK` | |
| `RunningAsConfigured` | `Spec => []RunsAsConfigured` | |
| `SegmentStays` | `Spec => []CompletedIsAvailable` | |
| `SegmentIsServed` | `Spec => []CompletedIsServed` | |
| `FailuresAreReturned` | `Spec => []FatalIsReturned` | |
| `ReceiveModeGoesOn` | `Spec => []ReceivingGoesOn` | |
| `SegmentFollowsLife` | `Spec => DaemonImplementsLife` | |

The hypotheses are about faults only, and each is needed:

- `SoundFaults` of the receiver: the faults `reopen`, `dirent` and `overlap` do
  not occur. The first and the last break `AckedIsStored` (section 6), the second
  is a file system that does not persist the name of a file it has fsynced.
- `NoGapIsSilent`: with `walk` and a slot that is new, TLC finds the gap: the
  status update is lost with the connection, the directory cannot be read, and the
  start falls back to the end of the server's WAL.
- `CrashesApart`: power failures do not come together with kills or failing calls.
  With a kill and a power failure TLC refutes `StartIsAvailable` in 29 steps: the
  process is killed between rename and directory fsync, the next one trusts the
  final name and reports WAL behind it, the slot moves, and the power failure takes
  the name back. Two failing fsyncs do the same as the kill.
- `WalkSafe`: a readable directory or an existing slot. With `walk` and a new slot
  three faults refute `StartIsAvailable`, for the reason given for `NoGapIsSilent`.
- `NoPower`: the archive model has no power failure (section 5).
- `SoundFaults` of the backup supervisor: the fault `manifest`, a marker that
  cannot be read, does not occur. With it `BackupsAreRestorable` and `KeepsLast`
  fail (section 6).

### The receiver

`AckedIsStored` is not inductive: that a status update is honest depends on what
`lastFlushPosition` stands for, that on the open file, that on the start position,
and that on every name in the directory. `IInv` says so in layers.

`ShapeInv` needs nothing about durability: types; timelines fork in order
(`ForkInv`); a `*.partial` is in a legal state (`PartInv`); files hold WAL of
their own timeline (`FilesInv`); the message, the positions and the open file
agree at each `pc` (`MsgInv`, `PosInv`, `OpenInv`). It is preserved by every
action on its own and gives `TypeCorrect`, `MessagesFit` and `FinalNameIsTrusted`.
It allows the name of the open file to be gone, so that it also holds beside the
uploader; `NamedInv` says that the receiver alone never loses it.

`HeldInv` says where WAL is: every visible name has everything below it on disk
(`VisibleInv`, the reason why `findStreamingStart` can be trusted), everything
reported, in flight or taken over by the slot is on disk (`AckInv`), and so is
everything below `lastFlush` while streaming (`StreamInv`). Its induction uses
`ShapeInv` before and after the step. Most actions are `Calm`: they leave every
byte that is on disk there, and lemmas about fsync, directory fsync and power
failure (`FsyncIsMild`, `DirSyncIsMild`, `PowerIsMild`) show it once for all of
them. What remains are the steps that add something to be held: a status update
after a sync, the start chosen from the directory, a file created, a rename.
`HeldIsStored` turns "held in some file" into "held in a file of the present
history". `IInv` is an invariant of `receiver_crash` too.

`NoGapIsSilent` adds that a slot with a `restart_lsn` never loses it (`SlotSet`),
that only `FindStart` without a usable entry moves `base` (`BaseMoves`), and that
what was reported lies in a file `findStreamingStart` sees (`ReportedHasEntry`).

`StartIsAvailable` is the converse of all this: not that what is found can be
trusted, but that enough is found. The primary may recycle what lies below the
slot's segment, so the start must never be below it, and that is a matter of
names, not of bytes: a `*.partial` with every reported byte in it leads back to
the beginning of its segment, which is still the slot's own, while a completed
segment that lost its final name would lead below. `StartInv` says, in five parts,
that positions and slot lie between `base` and the primary's end (`SlotInv`); that
a name is one of the primary's history (`NameInv`); that the stream is on its
timeline with the slot not ahead of its segment (`CursorInv`); that every segment
with a name or with a position in it was reached, which means that streaming began
there or that a segment next below it has its final name for good (`ReachInv`,
`Done`); and that under power failures a final name waits for the directory fsync
only between the two calls of `closeAndRename` (`RenameInv`). `FindStart` takes the
largest entry by segment and timeline; the entry that `ReachInv` promises for the
slot's segment sorts below it or is it, so the start is not below the slot, and
`NameInv` puts it on its timeline. The induction uses `IInv` before and after each
step, and `SlotSet` for the case of an unreadable directory.

### The uploader beside the receiver

`HeldInv` is false here, as finding 2 shows: the uploader may take a `*.partial`
with reported WAL away. What is true is about whole segments, so the second layer
is another one. `Complete(f)` means that the segment is in the directory under its
final name or whole in the archive; `D(x)` that every segment between `base` and
`x` is complete on some timeline. `DoneInv` says that `D` holds of everything
`findStreamingStart` may find, everything the stream takes as flushed, everything
in flight and the slot. It is kept because completeness is never lost
(`CompleteStays`): the receiver takes no final name away (`NextKeepsComplete`), and
the uploader only one whose object is whole (`OnlyArchivedIsRemoved`), which rests
on `UploadInv` and on the one-pair-of-hands clause of `ArchiveTypeOK`: a torn
object is one whose source is still open, hence still there. A `*.partial` that
disappears costs nothing, since its segment does not count before the rename;
`OwnInv` and `FilesInv` place a complete segment in the present history
(`CompleteIsReadable`).

The refinement of `SegmentLife` uses the same facts the other way round, segment by
segment: `LifeNames` (only `RenameWalFile` gives a final name, and it takes a
visible `*.partial`), `LifeObject` (an object changes only while its file is there
and stays) and `OnlyArchivedIsRemoved`. `LifeKeeps` is then a fact about
`SegmentLife` alone.

### Slot and retention

`SlotInv` is the mutual exclusion of runs with its reason, that `running` is set
exactly while some run is not idle. `RetentionInv` explains a purge. Backups that
start later begin later in the WAL (`OrderInv`). Whatever has been deleted is
older than a good anchor, a whole backup that reaches back to the beginning of the
window with enough whole backups from it on (`LossInv`): the clause that makes the
window and `keep_last` survive a purge that stops anywhere. A run that purges
knows that no backup it spares needs WAL below `keepFrom` and that all it will
delete is older than a good anchor (`RunInv`): the clause behind
`BackupsAreRestorable`, which speaks of the states between two deletions.

### Base backup and storage

`BBInv` keeps an account of the chunks. As long as the backup is not failing, a
chunk the server sent is in the outer pipe, held by the compressor, in the inner
pipe or read by the backend. `Put` succeeds only after the end of the inner pipe,
which the transform goroutine writes when the other three are empty; so all chunks
are in the object. The marker comes after every file was joined without an error.
`PipelineIsAStore` takes the same invariant and shows that every step of the three
goroutines and of the backend is a step of `ObjectStore` under the mapping, or
leaves the mapped state alone.

### Daemon

`DInv` relates three things. A failure not yet reported sits in its goroutine, in
the channel, or is the reason of the shutdown (`LifeInv`). What is being uploaded
is in the directory until it is whole in the storage (`FileInv`). A request that
has missed the segment in the directory finds it in the storage (`RequestInv`).
`FileInv` is also what the refinement of `SegmentLife` rests on: an upload in its
second half has the whole variant behind it, one in its first half the file.
`RunsAsConfigured` rests on `ConfInv`: that storage is not plain against the
configuration and that the numbers the supervisors divide and wait by are
positive are facts about `validate`, for all configurations at once; that the
backend is the configured one is what set-up guards, by failing. That set-up
succeeds is not a theorem: it is false (finding 5).

### How the invariants were checked first

Before its proof each inductive invariant was an invariant of a TLC run over the
instance of the component's run: `DInv` 535 313 states, `RetentionInv` 1 563 040,
`BBInv` 10 073 472, `IInv` and `StartInv` 1 754 704 (`receiver_crash`), `ArcInv`
1 652 420 with failing file system calls added, and 2 478 362 with two timelines
and no fault. `StartInv` was checked with other faults too, two at a time: kills,
failing calls and cancellations with a new slot (1 304 166) and, with an
unreadable directory, with an existing one (435 768); power failures with an
unreadable directory and an existing slot (646 682); power failures over three
timelines from a segment's start (2 228 566). `ArchiveImplementsLife` was checked
with failing calls (1 652 420) and with an unreadable directory and two faults
(1 412 637), where the `*.partial` beside a complete segment turned up.

### Only model-checked

- Liveness (`EventuallyAllAckedOrAtFork`, `CompleteIsArchived`, `SlotIsReleased`,
  `BackupReturns`, `DaemonStops`): fairness and ENABLED are out of this prover's
  reach.

Every invariant and action property of the passing runs is also proved.

## 5. Not modelled

- Bytes, checksums, the formats of compression and encryption, names as strings;
  decoding of configuration files and environment variables.
- `Rename` of the storages and the seekable upload of S3, which no command
  reaches; `mem.go`, which serves tests; the job queue and retry helpers, which
  the daemon does not use.
- HTTP handlers other than the manual trigger and the WAL download, the UI, logs,
  metrics, help texts: they change no state the promises are about.
- Where a restore puts files, and the PostgreSQL that starts on them.
- The `backup` command takes a base backup in a process of its own, outside the
  slot; `BackupSupervisor` has no such caller.
- The archive and daemon models have no power failure. Backup directories are
  taken to be named apart: two backups never begin within the same second. A
  backup of the retention model lies on one timeline.
- `findStreamingStart` walks the whole tree below the receive directory, and local
  storage lies there: a plain archived segment or `*.partial` is an entry too. The
  model's entries are those of the directory itself, which is all there is with a
  remote, compressed or encrypted archive. A file the uploader unlinks between the
  listing and its `os.Stat` makes the walk fail; the fault `walk` stands for it.
- Goroutines that a failed backup leaves blocked on their pipes are forgotten by
  the model when the next backup begins: they hold memory, not state.

## 6. Findings

1. `receiver_overlap`. `ReceiveXlogStream` keeps `lastFlushPosition` over a
   timeline switch. When the new timeline forks below WAL already flushed (its
   own comment names the case), the next status update reports the old position
   for the new timeline.
2. `archive_acked`. The uploader leaves out only the file named by
   `stream.walfile`, which is set after the file was created; a `*.partial`
   listed in that gap, or abandoned after an error, is uploaded and unlinked. No
   fault is needed. The README says that partial files are ignored. The later
   rename or fsync of the removed name can also fail and end the stream.
3. `retention_window`. The anchor is chosen by the time a backup started, but a
   backup serves points after its end.
4. `receiver_fork`. The code follows a timeline switch out of a running copy stream
   only. When the old timeline ends on a segment boundary and the connection is
   lost before the switch is read, `findStreamingStart` chooses exactly the end of
   the old timeline. The server has nothing to copy there and answers
   START_REPLICATION with the result set at once; `pglogrepl.StartReplication`
   reports an error, and every retry makes the same choice, as long as the
   segment is in the tree it walks.
5. `config_accepted`. `checkStorageConfig` accepts an SFTP section with only a
   password (`config.go:520`), and `README.md:617` calls the key optional, but
   `SetupStorage` does not pass the password on and `NewSFTPClient` always reads a
   private key: set-up fails. `Config` has it as the backend `nokey`. The property
   asks the same of `backup.cron`: any text that is not empty is accepted
   (`config.go:480`), `RunCron` fails on one it cannot parse, the error is logged
   and the daemon goes on without base backups.

Seen while modelling, with no run of their own:

- `openFileAndFsync` (`walfile.go:174`) removes an existing `*.partial` whose
  fsync fails, and the process ends. The file may hold acknowledged WAL: with the
  fault `reopen` added to `receiver_crash`, `AckedIsStored` fails.
  `docs/developer_notes.md:10`: "WAL files must be reliably persisted to prevent
  data loss - no compromises." `NothingLost` holds with that fault
  (`receiver_io`): the primary still keeps the segment of the slot's position,
  and it is received again.
- `loadSuccessfulBackups` (`recovery_window_retention.go:103`) skips a backup
  whose marker cannot be read, whatever the error, and its WAL is then deleted:
  with the fault `manifest` added to `backup`, `BackupsAreRestorable` and
  `KeepsLast` fail. `README.md:551`:
  "Minimum number of successful backups to keep, even if outside/inside the
  recovery window".
- `checkMode` compares without case, `checkReceiverConfig` exactly: `validate
  --mode RECEIVE` passes without the receiver's checks. The daemon compares
  exactly and refuses the mode.
- `findExistingName` takes the first extension in its order. A torn variant left
  by a killed upload shadows a whole one that was written under another
  extension later (`leftover`).
- A segment received again after it was archived is a local `*.partial` for a
  while, and `GetWalFile` prefers that to the whole copy in the storage (`again`).
- A file found by `GetWalFile` may be removed before it is opened; the answer is
  404 although the storage has it, which for `restore_command` means the end of
  the archive. A repeated request succeeds.
- When reading fails after the answer has begun, `WalFileDownloadHandler` cannot
  change the status: the answer is 200 with a short body.
- An unexpected message returns from `streamBaseBackup` without closing
  `curFile`. A `Put` that fails early leaves the transform goroutine waiting on
  the inner pipe, whose reading end nobody closes.
- `RestoreBaseBackup` returns nil when the storage has no backup
  (`restore.go:62`): the command succeeds and has restored nothing.
- `restoreTblspc` unpacks the tars it finds, not the tablespaces of the manifest:
  a directory that is half deleted, with its marker, restores without them.
- `createFileAndTruncate` never fsyncs the directory (fault `dirent`); a rename is
  made durable by no later directory fsync when the process is killed (section
  3); an unreadable directory falls back to the server's position when the slot
  is unset (section 3).
- The drain loop may wait a second for the next message before it flushes and
  reports, which `README.md` describes as immediate.
- `backupBeginWAL` reads the first WAL range of the manifest, which for a backup
  of a standby across a switch need not be the earliest.

## 7. Plan

Done, the most important behaviour first: the receiver with its proofs, the
uploader over the same directory, retention and the backup slot, the base backup
over the storage pipeline with its refinement, the daemon with configuration,
shutdown and restore; then the proofs of the safety of each of them, of the
availability of the start, and of the refinements.

Left:

1. Formatting, parsing and ordering of WAL names as pure operators against a
   reference definition.
2. The `backup` command as a caller outside the slot, and a power failure in the
   archive model.
3. An abstract durable log (append, acknowledge, fail) for `WalReceiver`: beyond
   `AckedIsStored`, `NothingLost` and `StartIsAvailable` it would say how the
   reported position moves.
