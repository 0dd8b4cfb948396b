# ZzLogg in TLA+

ZzLogg is a viewer for large log files (a fork of klogg) with an updater of its own for
Windows. This directory holds TLA+ modules translated from its source, TLC
configurations that check them on small instances, and theorems that TLAPS checks for
every value of the constants. `PROJECT.json` is the index: components, runs, the map from
definitions to source lines, the findings, the hazards and the theorems. Paths below are
relative to `src/src/` unless they begin with `src/`.

Contents: 1 the system; 2 the modules; 3 the runs; 4 fairness; 5 the proofs; 6 findings;
7 known behaviours without a run; 8 what is not modelled; 9 the plan.

## 1. The system

### Log loading (`logdata/`, `filewatch/`)

*State.* `LogData` owns the index of one file (`IndexingData`: line positions, size,
digests), a reference-counted handle (`FileHolder`), a queue of one executing and one
pending operation (`OperationQueue`), and a worker (`LogDataWorker`) with a pool of one
thread. *Operations.* attach, reload, interrupt, change of encoding, close; on the event
loop: file changed, indexing finished, check finished. *Interaction.* The GUI thread
starts a runnable under a mutex and waits on a semaphore until it runs; the runnable
answers with queued signals; the watcher posts `fileChanged`.

*Hard.* Two threads, queued signals, a file that other programs append to, truncate,
rewrite or rotate at any moment, and a queue whose single slot overwrites what waits.
*Correct if* one operation runs at a time and each ends; readers are attached and detached
in pairs; a partial index is only ever joined to contents that were found to be a prefix
of the file; a check's verdict is true; when all is quiet the index is the file; closing
terminates.

### Line positions (`logdata/src/compressedlinestorage.cpp`, `linepositionarray.h`, `logdataworker.cpp`)

*State.* The end of every line, packed 128 to a block, the open block, and whether the
last end is a line feed that is only pretended. *Operations.* append, pop_back, at, range,
move; indexing a file block after block, from the beginning or from where the last index
stopped. *Hard.* Boundaries: a position that fills a block, a pretended line feed that has
to be taken back out of a packed block, a line feed that is the last byte of what is read
at once, a file that grows between two indexes or during one. *Correct if* the packed
storage can be exchanged for the plain vector, and the lines are those of the file.

### Search (`logfiltereddata.cpp`, `logfiltereddataworker.cpp`, `ui/src/crawlerwidget.cpp`)

*State.* Matches, marks and their union, a cache of results by pattern and range, a worker
whose results accumulate in `SearchData`, and the search state of the window.
*Operations.* run, update, interrupt and clear a search; mark a line; progress on the event
loop; refresh when the log has grown; a nested event loop before a search is replaced.
*Hard.* Blocks matched in parallel and joined out of order, results taken as differences,
progress signals of an earlier search, interruption between blocks, a log that grows or is
truncated under the search. *Correct if* what is shown for a pattern is what matches, a
cached or updated result has no holes, and no search stays shown as running.

### Windows and session (`app/kloggapp.h`, `ui/src/session.cpp`, `sessioninfo.cpp`, `mainwindow.cpp`, `documentworkspace.cpp`, `app/applicationrunner.cpp`)

*State.* The windows with their documents, the file that stores them, and the state of an
exit that is being prepared (to quit, to restart, to update). *Operations.* open and close
windows and files, a file forwarded by another start, a load that ends or fails, prepare,
commit and cancel the exit, quit, start again. *Hard.* Closing the last window is told from
closing one of many by what is stored; windows are deleted later than they are closed;
modal dialogs run an event loop of their own; the preparation writes one window after the
other. *Correct if* the session file knows the open windows, a prepared snapshot stays
true, and what was open at the end is found by the next start.

### Storage location and migration (`storage/`, `app/storagebootstrap.cpp`)

*State.* Two locator files (beside the program, in the user's directory), each with the
active location and perhaps a pending migration or the outcome of the last one; two
configuration files and logs in a data directory; its manifest; two lock files.
*Operations.* resolve, write active, write/commit/roll back pending, execute and recover a
migration, bootstrap. *Hard.* Kills between any two files, recovery at the next start and
its retry, two instances starting at once. *Correct if* the active location always holds
complete data, a migration is done or undone, no setting is lost, and a start after a crash
converges.

### Update transaction (`updater/txengine_win.cpp`, `txjournal_win.cpp`)

*State.* The installation tree, a journal of checksummed records, a directory of backups.
*Operations.* prepare (derive the plan from two manifests), execute (for each target:
journal a backup, copy it, journal the operation, apply it; finally a Complete record),
roll back, recover.
*Hard.* A kill or a failing call at every step, in the run, in its rollback and in every
recovery, torn and unflushed records, other programs that write into the directory.
*Correct if* the outcome reported is the truth about the tree, every file touched can be
restored, a settled transaction is never reopened, and foreign files are kept.

### Update handoff (`app/applicationupdatehandoff.cpp`, `updater/relay.cpp`, `coordinator.cpp`, `txengine_main.cpp`, `installationactivity_win.cpp`)

*State.* In the application a state machine on the GUI thread, the task queue of a worker
thread and queued completions; a relay process and, started by the elevated installer, an
engine process; two pipes; a named mutex that closes the directory to new instances.
*Operations.* begin, cancel, preparation lost, exit; the relay's and the engine's
sequences; entering the directory; restart. *Hard.* Three processes and one extra thread,
a deadline on every wait, the death of each process at any moment, completions of a
cancelled attempt, a directory that must stay closed across the end of the process that
closed it. *Correct if* files are replaced only while the application is gone and the
directory closed, an update the user cancelled is not carried out, the application comes
back and is let in, and the directory opens again.

### Checks, downloads, metadata (`update/`, `updateqt/`, `ui/src/updatecheckdialog.cpp`)

*State.* In each instance the check that runs, the download, the dialog; shared by all, a
state file with the accepted release and the back-off of each channel, under a lock file,
and a cache of packages. *Operations.* look for updates by timer or on request, cancel,
skip, change the channel, download, install; the network's answers. *Hard.* Two instances,
old or conflicting manifests, answers after a cancel or a change of channel, a lock that
cannot be had, a clock that runs on. *Correct if* the accepted release never goes back,
nothing is shown or installed that was not accepted, and every transfer ends.

### Portable updater (`portableupdater/`)

*State.* The installation, a backup and a stage directory for each attempt, a mutex; the
application's installer with a task on the pool, and a helper process. *Operations.*
prepare, hand off, cancel, veto, wait for the application's end, replace with backup, roll
back, restart. The two talk by files (`ready`, `cancel`, `failed`, `complete`). *Hard.* The
end of the application for another reason, a cancel that races the exit, a failing call in
the replacement and in its rollback, a kill in their middle. *Correct if* files are
replaced by one helper that was allowed to and while no application runs, the tree ends
whole or as it was, and whatever was changed is in the backup.

### The rest

Text views, overview and dialogs (`ui/`, one thread, layout and painting), settings, regular
expressions, encodings, quick find, command-line tool, logging, platform probes, macOS
updates, vendored libraries. `PROJECT.json` lists each with the reason it has no module.

## 2. The modules

| Module | Models | State and actions |
|---|---|---|
| `FileHolder` | `FileHolder` | operators on a holder record; no state |
| `LogData` | log loading | 20 variables; world, watcher, GUI thread, runnable |
| `LogData_proofs` | | types, the queue, the verdicts of checks, following a log; that packed positions behave as the plain vector |
| `LineStorage` | the packed line positions | operators on a storage record; no state |
| `LineIndex` | what an index makes of bytes | operators over `LineStorage`; no state |
| `SearchWorker` | the worker and `SearchData` | 6 variables; one action per block read, matched, joined |
| `Search` | `LogFilteredData`, the search of a window | a queue of signals and nested handlers over the above |
| `Search_proofs` | | all its properties: the list, the cache, what is shown at rest |
| `TxPlan` | prepare | operators on manifests and trees; no state |
| `TxEngine` | execute, rollback, recover, journal | 14 variables; one action per durable effect |
| `AtomicUpdate` | what an update promises | the abstract specification of `TxEngine` |
| `TxEngine_proofs` | | types, outcomes, restorability, foreign files, refinement |
| `Handoff` | application, relay, engine, entry of instances | 22 variables, sessions as indices |
| `Handoff_proofs` | | who is in the directory, and who holds its mutex, at each step |
| `Migration` | locators, migration, recovery, start, several instances | 7 variables; one action per file read, written or removed |
| `UserSettings` | what the storage promises | the abstract specification of `Migration` |
| `Migration_proofs` | | for one process, locators and directories at each step, and that the settings survive; for two, one migration at a time |
| `PortableTransaction` | replacement, backup, rollback | one action per file; attempts as indices |
| `Portable` | installer, helper, mutex, stage | processes over the above |
| `Portable_proofs` | | the handshake with the mutex; files and backup at each step |
| `Updates` | checks, downloads, state file, dialog | a record for each instance; split at the file's lock |
| `Updates_proofs` | | the accepted release, and what an instance may know |
| `Session` | windows, stored session, exit | 18 variables; handlers, the steps of a preparation, kills |
| `Session_proofs` | | windows and stored session in every phase, the snapshot |
| `MCLogData`, `MCTxEngine`, `MCHandoff`, `MCMigration`, `MCSearch`, `MCPortable`, `MCUpdates`, `MCSession` | | the instances TLC checks |

Definitions named `X_Something` directly before `X` are faulty versions of `X`
(a dropped guard, a swapped order); they are used by nothing and serve to show that each
property can fail (`mutants` in `PROJECT.json`).

**LogData.** A file is a sequence of blocks, a block being the number of the change that
wrote it; so two blocks are equal iff their bytes are, and a digest is the prefix itself.
An inode is a separate file, which makes rotation visible. The GUI thread's handlers are
atomic because the event loop runs each to its end; the runnable is not: it takes one
action per block read or compared, one for opening, one for posting the result, one for
letting go of the mutex. The mutex and the semaphore appear as the guard `TakesMutex` and
the worker's `pc`. `Enqueue` with `StartNext` is the queue with its overwriting slot.

**LineStorage, LineIndex.** A packed block is one cell that holds the differences to its
first position modulo `Word` (2^32); what streamvbyte does to them is left out because it
is the identity on 32-bit numbers. `move` keeps the size of the packed storage that is in
use, as the code's `move_from` does. `LineIndex` reads a file as a sequence of line feeds
and other bytes, block by block like `doIndex`, with the pretended line feed. `MCLogData`
evaluates it: its assumptions say that a file is indexed to its lines whatever the size of
the blocks read and wherever it grew in between (`LinesOfEveryGrowth`), whatever was in
the storage before (`LinesAfterReload`), and what a file that grows *during* an index is
indexed to (`LinesOfAGrowingFile`).

**SearchWorker, Search.** The index is the sequence of what its lines contain. The worker
reads blocks in order, has up to `BlocksInFlight` of them matched at once and joins them in
any order; the GUI thread takes what was added and what was removed since it last looked
and keeps the sum. Its handlers are atomic except where `replaceCurrentSearch` lets Qt
empty the queue from inside (`frames`). Loading is reduced to what a search sees of it:
the log grows, is found truncated, is cleared and indexed again, and `loadingFinished` is
posted. `holes` (a line was passed without being searched), `tainted` (a signal of an
earlier search was let in), `following`, `listOf` and `data.of` are history variables: they
name the conditions under which the properties hold. Left out: the limit of the first
search is 0, one filtered view, an invalid expression ends like an empty one, and the
percentage is exact only for logs of up to 100 lines.

**TxEngine.** The tree maps each target to a content. `Absent`, `Partial` (a copy cut
short) and `Alien` (written by somebody else) are contents of their own. Each action is
one effect that a kill can separate from the next: append a record, copy a backup, apply,
drop. A write that is killed or fails leaves nothing, the whole record, or a torn one
(`LeavesBehind`). Whether a placement is a rename or a copy depends on `SameVolume`.
`records` is what the process knows, `journal` what is on disk: they differ when a flush
fails. Recovery reads `journal` and undoes it in reverse by the same actions as the
rollback. Before that it may be rejected, because the image, a path, the registration or the
marker does not pass its checks (`RecheckFails`), or find a journal it cannot read
(`ReplayFails`); what these checks look at is not in the tree, so each is a fault that may
happen at any recovery, over any tree. `settled` is a history variable. The constant `Plan` lists each difference of the
manifests once, and after them the registry value and the manifest itself
(`PlanAssumption`); the instances take it from `TxPlan`.

**TxPlan.** `prepare` as a function of the two manifests, the installation, the staged
files and the free space. Manifests compare paths exactly, the file system without case
(`Key`). `MCTxEngine` evaluates it (`PlansLead`): carried out, a plan leaves what the new
manifest says and everything else as it was, and takes no file twice, over all manifests of
up to two entries of two files (one with a second spelling) and all their trees.

**AtomicUpdate.** The tree may change while nothing is settled; it is settled only as
wholly new or wholly old, and never changes afterwards.

**Handoff.** A session is one attempt. The GUI thread's slots are actions; tasks of the
worker and queued completions are sequences, so that a completion can be handled after
the attempt it belongs to was cancelled. A pipe is a pair of ends, open or not, with the
messages not read yet; a closed end loses what it had not read. Every wait has a deadline,
so every receiving action has a failing alternative that is always possible. The mutex is
the set of its holders: it exists iff the set is not empty. `exited` and `committed` are
history variables that separate "the process ended" from "the process ended because it
committed its exit", which is what the relay cannot see.

**Migration.** A location is a data directory with the locator file that names it (the
mode follows from the two), a locator is a record like `StorageLocatorState` with the
outcome of the last migration, and a data directory maps each of its files to a content:
none, an empty INI, or the number of the save that wrote it. Every write of the code goes
through `QSaveFile`, so there are no torn files. Each instance is at a `pc` in the chain
`bootstrapStorage`, `resolveExisting`, `recoverPending`, `execute`, `commitPending`; what it
has read and works on is in its record `job`, and every action is one file read, written or
removed, so that a kill and another instance come in between. An operation on one locator
under the mutation lock is one action; where it touches both locators it is two, and the
lock is the variable `mutex`. `resolve`, which takes no lock, reads the two files in two
actions. A failing call leaves what the code's error path leaves, a failing restoration
included. Windows of the application save settings and schedule migrations; a command-line
search only starts and ends. The old layout is a directory of its own without a manifest.

**UserSettings.** Once there is a data directory, what is read from it is what was saved
last; where it lies does not show. `Migration` implements it with `settings` mapped to what
the next start would read (`Home`, `ReadFrom`).

**PortableTransaction, Portable.** A file is missing, old, new or the user's. Every rename,
removal and copy is an action with a failing alternative; names are compared as they are
spelled where the code does so, and folded where it does so. The installer's task, the
helper and the application's end are separate; `stage` holds the files through which they
talk, `mutex` has an owner, may be abandoned, and exists while somebody has a handle.
`story` is history: what the user was told of an attempt, whether a cancel could not be
saved, whether the exit was committed to it. Left out: subdirectories (one temporary name
serves all), links, the contents of the package (its inspection succeeds or fails), power
loss. The user does not create files *while* the replacement runs: one that appears at a
target after the targets were checked is removed (`transaction.cpp:127`).

**Updates.** The GUI thread of an instance runs each handler to its end, so a handler is a
function of the instance's record, and an instance's only interruption is the state file's
lock: `modify` (about to take it), `saving` (has read the file), `Commit`. The lock may be
busy and the file may fail to be written. The server may send any manifest that was ever
signed, old ones included, or none, and any bytes as a package. The clock moves between
handlers only; a timer that finds nothing due is not a step. Left out: the trust
environment and the keys (taken to be right), the build (a release), portable installations
except where they decide whether one may install, redirects and headers (part of failure),
display versions, and the dialog's signal `checkRequested`, which nothing emits.

**Session.** `order` is `mainWindows_`, `dying` what was closed and waits for `deleteLater`,
`active` the order of activation, `modal` the dialogs that run an event loop, `stored` the
session file. A handler is one action; the start is split where it removes stored
windows, one after the other, the preparation of an exit between windows, because a kill
may come there. Which tab
becomes current when one is closed is Qt's choice. `left` is history: what was open when
the process was told to end. Left out: the tray, a session that is not loaded at start
(`loadLastSession` is on), the options `-s`, `-n` and `--multi` (an instance that starts a
new session removes the windows of the other), macOS, a second request to exit in the
100 ms between commit and quit, view contexts and geometry. The settings are taken to be
written at the end of a handler.

## 3. The runs

Twelve runs. Deadlock is checked where the system can always go on, in TxEngine (it can be
recovered once more) and Migration (ZzLogg can be started once more); elsewhere users and
programs may stop acting, or the bounds are used up.

| Run | Question | Bounds, and why they are enough |
|---|---|---|
| `LogData_append` | queue, readers, following, liveness for a log that grows, with fast and full detection | 2 changes of a file of up to 2 blocks, 2 user calls: two changes are needed to have one arrive during the check of another, two calls for a reload and a close or an encoding change during it |
| `LogData_any` | joining and verdicts for rewrites, truncation, rotation, `keepFileClosed` | as above with 1 call and all kinds of change |
| `LogData_close` (violation) | closing always terminates | no change, no call: the close alone suffices |
| `Search_refresh` | the list against the worker's results and against the log, the cache, the state shown | 2 patterns, 2 contents, up to 3 lines, 1 change (the log grows or is truncated), 2 calls of the user (so a search can be replaced, stopped or refreshed during another), one line for each block and 2 blocks at once, so that they are joined out of order |
| `TxEngine_volumes` | outcomes, restorability, refinement, termination with the journal on another volume | a file created, one replaced, one deleted (one of each operation), the registry value and the manifest; 3 faults: one in the run, one in its rollback, one in a recovery, which may be rejected or not read the journal |
| `TxEngine_kill` | undoing is never refused, nothing is left half, foreign writes are kept, on one volume | 2 faults (neither a failing append nor a journal that passes for a missing one, which break `NothingLeftHalf`: section 7) and 2 foreign writes |
| `Handoff_update` | the whole handoff, with deaths | 2 sessions: what goes wrong with an earlier attempt needs a later one, and a third is like the second; each of the processes may be killed |
| `Migration_alone` | settings survive, the active directory is complete, one can always start again | one window; the user's directory, the program's (under either locator) and another one; 2 saves after the first, which tell the files apart; 6 transactions, more than are in use at once; 3 faults, kills or failures: one in a migration, one in its recovery, one in the retry |
| `Migration_pair` | one migration at a time, nothing in use is overwritten or removed | a window and a search over the old layout, `--data-dir`, 1 save, 1 fault (with 2 faults or two windows both invariants on the active directory fail: section 7) |
| `Portable_update` | replacement, revocation, backup, the mutex | 2 attempts in 2 sessions of the application (an attempt that was cancelled and the next one), 2 failing calls (one in the replacement, one in its rollback), 1 kill; a file of each kind: replaced, only old, only new, the manifest |
| `Updates_pair` | two instances, one state file, one cache | a release, a newer one, a conflicting one with the newer one's number, 2 packages, 2 channels; the clock reaches 1, at which checks are due again and the older manifest has expired; 3 calls (look, download, install), 1 fault |
| `Session_windows` | the stored session against the windows | 3 windows (one stays, one is closed, one is opened), 2 files, 2 starts, 1 forwarded file, 1 file opened by the user; symmetric in windows and files |

What the passing properties say:

* `OneOperation`, `ReadersBalanced`, `StatusMatchesOperation`: the queue and the holder
  stay consistent over every path through the three handlers.
* `VerdictSound`: a check that overlapped no change is right.
* `FollowsFile`: when all is quiet, after a notification and a successful load, the index
  is the file. It holds for logs that only grow, not for rotated ones (section 7).
* `ChangesSettle`: a change that was notified leads to rest.
* `DifferencesAddUp`: the list in the window, with what was not taken yet, is the worker's
  set of matches, although blocks are joined in any order and an update takes back a line
  that is shown.
* `SettledExact`, `SettledTruthful`, `CacheSound`: at rest the list is what a search of the
  log would give for the lines it covers, but perhaps for the last one; no search is shown
  as running, no reader is left, the count is the list's; a cached result is what a search
  would find, but perhaps for its last line.
* `OutcomeTruthful`, `Restorable`, `UndoNeverRefused`, `NothingLeftHalf`, `ForeignKept`,
  `AtomicSpec`, `ReportsOutcome`: see the comments in `TxEngine`.
* `NoAppWhileExecuting`, `GateHeld`: while the engine replaces files *and its relay
  lives*. When the relay is killed or its ten minutes are over both fail by design of the
  code (section 7), so the condition is part of the statement.
* `RestartEnters`, `FrozenOnlyInHandoff`, `LeavesForItsOwnSession`, `GateReopens`: see the
  comments in `Handoff`.
* `ActiveIsComplete`: a locator that has nothing pending names a directory with a manifest,
  after a migration also with both INIs, in every state between any two effects.
* `SettingsSurvive`: `Migration_alone` implements `UserSettings`.
* `Startable`: a start that keeps being repeated ends in a running application or in the
  question for a directory. It holds without the old layout (section 7 for the rest).
* `OneMigration`, `ActiveIsKept`: see the comments in `Migration`.
* `ReplacesAlone`, `RevokedStays`: files are replaced by one helper, after the exit it was
  granted, while no application runs, and never for an attempt of which the user was told
  that it is off, unless the cancel could not be saved (section 7).
* `EndsWhole`, `Recoverable`: a transaction that ends leaves the new tree or the old one or
  says that the rollback is incomplete, and at every moment the backup holds what was changed.
* `Opens`: the directory opens again, or a message is shown.
* `AcceptedForward`, `ShownIsAccepted`, `InstallsLatest`, `TransfersEnd`: the accepted
  release only goes forward, whatever two instances do at once; nothing is shown that the
  file does not know; what is installed is the last accepted, whole; transfers end.
* `StoredAreOpen`: outside an exit the session file knows the open windows and no other.
* `SnapshotHolds`: what a preparation saved is what is open until it is committed or given
  up, and no window is left frozen.
* `SessionKept`: what was open when the process was told to end is in the file when it has
  ended.

Each module of states has a type invariant (Updates states its types in the proof module); all
are proved (section 5), Migration's for one process and for two. The assumptions of `MCLogData` and `MCTxEngine`
evaluate the modules without a state (section 2): files of up to 5 bytes, blocks of 2
positions, 1 to 3 bytes read at once, up to three indexes one after the other; manifests of
up to 2 entries.

## 4. Fairness

Fairness is assumed only of threads and processes that are not killed.

* LogData: the worker's runnable (`WorkerStep`: the pool's thread), the destructor
  (`Destruction`), the watcher's timer (`Notify`), and each of the three handlers, since the
  event loop serves every posted signal. None for users and other programs.
* TxEngine: `Execute` and `Undo`: a process that is not killed goes on. None for `Recover`:
  nobody is obliged to start a recovery, so `ReportsOutcome` is about one process.
* Handoff: the GUI thread's queued events, the worker's tasks, the exit once decided, the
  start of an instance, and each relay and engine. Deadlines make every wait end, which is
  why fairness of a process suffices. None for users, deaths and the other instance.
* Migration: what a start does by itself (`Bootstrap`, `Migrate`), and `Launch`: `Startable`
  speaks of a user who starts ZzLogg again whenever it has ended. None for saving,
  scheduling, quitting and kills. The question for a directory counts as an answer, since
  the user need not give one (`Bootstrap` contains the choice, which only helps).
* Portable: the end of an application that is exiting, the installer's task with its queued
  signals and ticks, and each helper. None for the user, who need not dismiss a message
  either, and none for kills.
* Updates: the answer of the network (a total timeout bounds both transfers), the turn at
  the state file's lock (which may be found busy), the end of a download. None for users
  and for timers of later checks.
* Search, Session: none; their properties are about every state, at rest or not.

## 5. The proofs

The eight modules `*_proofs` are checked by tlapm; no step is left without proof. Every safety
property and every action property that a run checks is stated by a theorem for every value of
the constants. Where a theorem needs a hypothesis it is named below: without it the property
fails (section 7), and the run's instance satisfies it, with one exception, `ActiveIsKept`,
which the run checks of two processes and the theorem states of one. Each invariant was
checked by TLC on the instances before it was proved.

Assumptions on constants were added for the proofs, all about what stands for nothing: `None` is
no release (Updates), no number of a change (LogData), and no request, outcome, locator state or
place (`TypesAssumption` of Migration, which also types the locator files of the start);
`NoRoot` is no root (`NoRootAssumption`). Besides, Portable has at least one session, and saved
marks are line numbers (Search).

**LogData** (assumptions `LogDataAssumption`, `KeepFileClosedAssumption`).
`TypeCorrect`, then `QueueCorrect`: the invariant

    QueueInv == OneOperation /\ StatusMatchesOperation /\ ReadersBalanced
                /\ RunnableOfKind /\ NothingBeforeAttach

is inductive together with `TypeOK`. The two added parts are needed because the three
properties alone do not survive a step: `RunnableOfKind` ties the place where the runnable
is to the kind of the operation (so that the result it posts is one its handler expects),
and `NothingBeforeAttach` says that before the file is attached no operation executes and
there is no reader. `OneOperationAtATime`, `ReadersAlwaysBalanced` and
`StatusAlwaysMatches` follow. The argument has one lemma per group of actions: what
happens elsewhere, the runnable, the handlers, the user's calls; `StartNext` and `Enqueue`
have lemmas of their own, since all handlers go through them.

`VerdictsAreSound` (hypothesis `Detections \subseteq {"full"}`) rests on `VerdictInv ==
Compared /\ VerdictSound`: as long as the file has not changed since the check began, the size
the check took is the file's, its handle is the watched file's, and the blocks compared so far
are equal. With the fast detection two blocks are compared, and a verdict can be wrong.

`AppendedIsFollowed` (hypothesis `ChangeKinds \subseteq {"append", "touch"}`) rests on
`FollowInv`: the index is a beginning of the file (`Appended`), a change that was handed over
is one of a watched file (`Watched`), only operations that do something are queued (`Queued`),
and once the last change was handed over, what is pending, what executes, or the index as it is
accounts for it (`Upcoming`). The overwriting slot of the queue is what makes the last part
necessary: it must say of every place of a check and of a load what they have read so far.

**LineStorage** (in `LogData_proofs`; assumption `StorageAssumption`: blocks have at least one
position). The
sequence that a storage stands for is `Positions(s)`, what `at` answers line by line. For
every size of the blocks, `NewIsEmpty`, `PushedAppends` and `PoppedRemoves` say that a new
storage, one that was moved into, `append` and `pop_back` act on it as the plain vector
does; `append` needs that the position fits its block (`Fits`: 32 bits). The invariant is
`WellFormed`; that the first number of each packed cell is 0 is what makes a block that
was unpacked again continue with the right differences. `Place` and `Stored` divide the
lines into those of packed blocks and those of the current one, `AtCurrent` and `AtPacked`
say what `at` answers for each, `LongerByOne` and `Shorter` reduce a theorem to single lines.

**TxEngine** (assumptions `TxAssumption`, `PlanAssumption`). The types are proved first
(`TypeCorrect`). The inductive invariant is `CoreInv == foreign = 0 => Core`, with

* `GoodRecords` of the journal and of what the process knows: each record is the proved
  backup of a planned target, its operation together with that backup, or the end;
* `DirtyIsJournaled`: what is not old has its record on disk and its backup;
* `Executing`, `Undoing`: what is true at each `pc` of a run and of an undo;
* `Reported`: what each outcome that settles says of the journal and the tree;
* `OldOrNew`: on one volume a target holds its old or its new content, never part of one.

`OutcomeTruthful` is not inductive: that a rollback restores everything depends on every
changed target being among the records to undo, and that recovery may start anywhere
depends on the shape of the journal. `Rejected` settles nothing: of a run it means an untouched
tree, which `DirtyIsJournaled` gives as nothing is journaled yet; of a recovery it means only
that this call touched nothing, and `Restorable` holds of what it leaves. There is one lemma for each action (`CoreOpen`,
`CoreJournalBackup`, ..., `CoreKill`). From it follow `OutcomesAreTrue`,
`AlwaysRestorable`, `SettledIsFinal`; `NeverRefusedOnOneVolume` under `SameVolume`; and
`ImplementsAtomicUpdate` under `MaxForeign = 0`: every step of the engine and of its
recoveries is a step of `AtomicUpdate` or leaves its variables unchanged.

`NothingIsLeftHalf` (hypothesis: neither `"append"` nor `"hidden"` in `Faults`) adds `Whole`: the record of the end is
the last one and stands only where the tree is new. `ForeignIsKept` (hypotheses `SameVolume`,
`"window" \notin Faults`) rests on `Spared`: what is about to be replaced or deleted is not
another program's, in the run and in every undo, and no record takes a foreign content for the
new one; unlike the rest it speaks of `foreign > 0`.

**Search** (assumptions `SearchAssumption`, `CacheAssumption`). The invariants are layers, each
inductive together with the ones before:

* `Typed`: types (`SearchCorrect`). That the counts stay in their ranges needs `Blocked` and
  `Counted`: the blocks in the graph are disjoint, lie between `from` and `next` and hold no line
  that is a match already, and what is done and what is in the graph never exceed the range.
  `Attached`: there are as many readers as last signals in the queue, and one for an
  operation that goes on.
* `AddUpInv` (`Numbered`, `Sums`): searches are numbered, a list that waits for its search is
  empty; hence `DifferencesAlwaysAddUp`, through joins, the line an update takes back, and
  each taking.
* `TruthInv` (`Alone`, `Viewed`, `Stoppable`, `Reported`): whoever shows the stop button is
  followed by something that hides it, and the last signals in the queue carry the worker's
  count; hence `TruthfulWhenSettled`.
* `BookInv` (`Indexing`, `Agreed`): which search the signals, the operation, the key and the
  state of the window are for.
* `ExactInv` (`Sourced`, `Kept`, `Cached`, `Listed`), about `Ref`, the log as it is or is being
  indexed: the blocks hold its lines, a line that was passed and is in no block was searched,
  and a line that cannot have been completed since is in the results exactly if it
  matches; hence `CacheIsSound`. Appending changes the last line only (`Grown`), and a
  rewritten log has cleared the list and the cache, or taints them.
* `FollowInv` (`Limited`, `Promised`, `Followed`): with auto-refresh on, either something is
  coming (a nested handler, a load, its end in the queue) or the search goes to the end of the
  log uninterrupted and has the last line right; hence `ExactWhenSettled`.

**Handoff** (assumption `HandoffAssumption`). `HandoffInv == TypeOK /\ Turns /\ Queues /\ Parts /\
Away /\ Restarted`: the GUI thread owns the last session or none; a queued task or completion
belongs to the present generation exactly if it belongs to the present session, which has one
at a time; for each session (`Parts`), where its relay has its handles on the mutex, what it has
been told before it may go on, that a relay which may go on to the update is the last
session's, and that its engine executes after the application's process has ended; while a
relay of such a session has its handles no instance has entered (`Away`), but the one it
started itself after it let go (`Restarted`). `NoAppWhileExecuting`, `GateHeld` and
`RestartEnters` follow from where the relay is; `FrozenOnlyThen` from `Turns`; `LeavesForItsOwn`
needs `Queues`, since the completion of a cancelled attempt may be handled in a later one.

**Portable** (assumptions `PortableAssumption`, `TransactionAssumption`, `ListsAssumption`). `PortableInv == TypeOK /\ Counted /\ Control /\
Replacement`. `Control` is the handshake: the mutex has one owner, who has a handle; as long as a
helper has its handle no session enters but its own, and a helper goes on to the files when
that has gone; for each attempt, a user who was told it is off has left a note or there is no
helper to read it, one that has gone past its last look was sent and is not called back.
Hence `OneReplaces` and `RevokedForGood`. `Replacement` says for each step of a transaction
which files are new, which are as before, and which are in the backup: `BackupSuffices`, and
`EndsAsItSays` under `SpellingKept` (a name shared by both manifests is spelled alike: with a
rename in case the rollback fails, section 7).

**Updates** (assumption `UpdatesAssumption`). `KnowsInv` gives for each `pc` of an instance the
records it may have there: whatever it shows, downloads or has verified is known to the state
file, a verified package is whole in the cache, and who is between reading and writing the
file is alone there and knows it as it is. Releases only become known, so one instance's step
leaves the others' records valid. `AcceptedGoesForward` needs that what is written was read
under the same lock; `OnlyLatestInstalled` that the comparison is made in the step that
installs.

**Session** (no assumptions beyond the types of its constants). `SessionInv == TypeOK /\ Lists /\
Phases /\ Preparation`: a window is once in the list and has one entry in the file; in the phase
"clearing" the open windows are among the stored ones, in "run" they are the stored ones,
afterwards what was open at the end stays stored, because a window opened later has another
id; an exit freezes the windows that are part of it, and those that are done are stored as
they are. `SessionIsKept` is about the steps between the request to end and the end.

**Migration** (assumptions `MigrationAssumption`, `TypesAssumption`, `NoRootAssumption`). There
are two sets of theorems, both for any roots, locations and requests, with or without the old
layout, and any number of faults. Their hypotheses: `AtRest`, the files at the start are those of
a ZzLogg at rest (a locator names itself and a directory in use, or the old layout, and has
nothing pending), and there is always a new transaction id (`Inexhaustible`, `Plenty`: one
process knows five at most, two know six; the code draws UUIDs).

*One process* (`Instances = {p}`). `MigrationInv` says where the directories are. For the
locators: each names a directory in use or the old layout, a pending migration starts from what
its locator names (`Named`), and a second locator beside one with a pending migration is what its
commit has just written (`Both`). For each `pc`: what has been read still holds, as nobody else
writes (`Reading`); which of the two locators stands, and what of the target is there already
(`Moves`): from "commit" on the target is complete. `ActiveIsComplete` alone is not inductive: a
commit makes the target active, so that it is complete has to be known in every state from the
copying on, through any number of kills, recoveries and retries. Hence `ActiveAlwaysComplete`;
`ActiveAlwaysKept` from the same invariant, step by step: what a cleanup removes and a copy
creates is in a root the locators do not name. It also follows that with one process
`JudgeOutcome` never happens: a request that a start has read as pending is so when it is judged.

`SettingsAlwaysSurvive` is the refinement of `UserSettings`, and the invariant `SettingsInv` says
what the files hold. The pending request tells what its target must become (`Told`, `Pended`):
when the target is complete, its INIs are those of the source, or empty where the source has
none. `Bounded` keeps contents below the newest version, so that a save is a new one. For each
`pc` (`Doing`): a directory that is being selected has nothing to lose, a window that
runs saves to a directory of its own, an execution works on what its request tells. Each step
leaves what the next start reads (`SameView`), finds the first directory (`Attaching`), or is a
save (`Saving`). Its further hypotheses are `Window(p)`, a window without `--data-dir` and, where
there is an old layout, with kills but no failing calls, and `OldAtRest`: the old layout's root has no
manifest at the start, and a locator that names it stands alone, its target not in use. Without
the former it is false (section 7); the latter is what a ZzLogg at rest leaves.

*Two processes* (`Instances = {p, q}`). `OnlyOneMigration` rests on `PairInv`. What a process
knows is less, since the other may have changed the locators since it read them (`Knows`); but it
holds the lock of the locator its request starts from (`Holds`), between the two writes of a
commit both locators stand (`Removes`), and while it copies its migration is pending and is the
one a start would find (`Copies`). Two locks are not enough: a commit from the user's to the
program's locator whose second half fails leaves the user's locator with its migration pending
(`Remains`), and the program's may then be given a migration of its own. Both locators pending
at once is reachable, and who commits the older one overwrites the program's locator while the
other copies from it. Of two processes this cannot happen: to commit the older migration one must
have looked for the program's locator before that commit (`Stale`), to make one of the program's pending
one must have made that commit, or read what it left (`Starts`), and never are these two
different processes (`Apart`); once the program's locator has one pending nobody is `Stale`
(`Calm`). With three processes the third is the one that has read (section 7).

**What stays with TLC.** Liveness under fairness: `ChangesSettle`, `ReportsOutcome`,
`GateReopens`, `Startable`, `Opens`, `TransfersEnd`, and the `CloseTerminates` that fails.
`ActiveIsKept` of a window and a search: with one fault it holds of the run's instance, with two
it fails (section 7), so a theorem would have to count faults. `LineIndex` and `TxPlan` are
folds over their data, and induction over data is out of the prover's reach: they are evaluated
over bounded inputs.

## 6. Findings

`LogData_close` (`logdata/src/logdataworker.cpp:208`): the destructor waits with the mutex the
runnable has still to take. The counterexample is reproducible under that cfg. The
disagreements met elsewhere are in section 7, each with what reproduces it.

## 7. Known behaviours without a run

Seen while modelling; kept out of the runs to keep these to one per question. Where a
property states what fails, it stands at the end of its module.

### Log loading and line positions

* A check queued for a later change is overwritten by the partial index that an earlier
  check asked for (`logdata/src/logdata.cpp:240`): after a rotation, or an append followed by
  a truncation, the old lines stay. `FollowsFile` fails with `ChangeKinds = {"append",
  "rotate"}` and no calls.
* `FollowsFile` without its condition `told`, that is from the first load on, fails with
  one append and no call: the watcher is armed when the first load has ended
  (`logdata/src/logdata.cpp:208`), and does not announce what came between.
* A reload asked for by a change of encoding is overwritten by a partial index
  (`logdataoperation.cpp:127`): with changes append and touch and one call there is a quiet
  state with `codec # IndexCodec`.
* A change of encoding before the first block was read dereferences a null pointer
  (`logdata.cpp:298`): `life = "crashed"` is reachable with no change and two calls.
* A load that completed is reported as interrupted if the flag is set between the two
  times it is read (`logdataworker.cpp:805`); the window then closes the tab
  (`ui/src/mainwindow.cpp:1256`).
* With fast detection the ends are digested by a second reading
  (`logdataworker.cpp:725`); a file rotated in between is taken for the one indexed. Hence
  `LogData_any` uses full detection.
* `move_from` leaves `packedLinesStorageUsedSize_` as it is
  (`logdata/src/compressedlinestorage.cpp`), so after a reload or a truncation the packed blocks
  start behind the room the old ones took: memory grows by the index with each reload, and by
  a cell with each pretended line feed taken back out of a full block. No position is wrong
  (`LinesAfterReload`, `NewIsEmpty`). A block of 128 lines that spans more than 4 GiB does not
  fit its 32-bit differences (the check of `narrow_cast` is gone in a release build).
* A file that grows while it is indexed, with a last line without a line feed: the pretended
  end is put at the size the file had when it was opened, or left out, while the digest's
  size counts all that was read (`logdataworker.cpp:717`). The last line is cut or missing, and
  the next check finds nothing changed until the file grows again (`CompleteLines` holds
  there, `Exact` does not). A partial index measures the longest line from the middle of
  the line it starts in.

### Update transaction and handoff

* A placement that is cut short across volumes (`txengine_win.cpp:660`) leaves a file that no
  recovery accepts: `UndoNeverRefused` fails in `TxEngine_volumes` with one kill.
* TxEngine: a foreign write between the proof of a target and its replacement is lost
  (`txengine_win.cpp:698`): with `"window"` in `Faults`, `ForeignKept` fails. A torn record
  makes every later recovery answer `NeedsAuthorizedRecovery`
  (`txjournal_win.cpp:212`), as documented. A foreign file where the transaction created
  one stops the whole rollback at its first step (`txengine_win.cpp:440`). A transaction
  recovered after another installation deletes that one's file if the contents agree
  (`txengine_win.cpp:442`).
* TxEngine: after a failed flush of the Complete record, which is in the file all the same
  (`txengine_win.cpp:759`), and a kill during the rollback that follows, recovery finds a
  complete journal and answers `NothingToRecover` on a tree that is half restored:
  `NothingLeftHalf` fails with `Faults = {"kill", "append"}` and two faults.
* TxEngine: a recovery asks for the attributes of a journal it cannot open, and takes any
  failure for a missing file (`txengine_win.cpp:793`), though a present but unreadable one is
  to be a recovery failure (line 791): with `"hidden"` in `Faults`, `NothingLeftHalf` fails.
* TxEngine: a recovery is rejected before it looks at the journal
  (`txengine_win.cpp:776-784`), so that `Rejected` (exit code 42) does not tell an installation
  that was never touched from one that is half updated, which `txengine_win.h:64` might be read
  to say. A later recovery that passes the checks restores it (`Restorable`).
* TxPlan: `prepare` compares paths exactly while the file system ignores case
  (`txengine_win.cpp:562`). A release that changes only the case of a name is refused on an
  intact installation; where the user has removed the file, the plan creates it under the new
  spelling and deletes it under the old one, and if the contents agree the update reports
  success without the file (`Leads` holds only under `SpellingKept` or `Intact`). A directory
  that becomes a file is refused as a collision; a file that becomes a directory fails in the
  run, since creating comes before deleting, and is rolled back.
* Handoff: a cancel while CommitExit is being sent does not reach the relay
  (`app/applicationupdatehandoff.cpp:284`, against its lines 271-273 and
  `UPDATE_PROTOCOL.md:390`); if the user then quits, the update is carried out:
  `UpdatesOnlyIfCommitted` fails with one session and no deaths.
* Handoff: an instance that looked for the mutex before the reservation
  (`installationactivity_win.cpp:63`) and takes its lease after the exclusive test (line 147)
  runs through the whole update, against `UPDATE_PROTOCOL.md:445`:
  `NoOtherWhileExecuting` fails with one session and no deaths. So does `RelaunchEnters`: the
  application that is brought back after a failed transaction can be turned away by the
  handles of the relay that starts it (`relay.cpp:89`), which only the successful path
  releases (`coordinator.cpp:250`).
* Handoff: a relay that is killed, or whose 600 s for the engine are over, lets go of the
  mutex while the engine goes on (`coordinator.cpp:218`, `relay.cpp:86`); and a relay that
  fails between the exit of the application and the engine's result starts nobody
  (`relay.cpp:78-85`). The engine waits 60 s for Proceed (`txengine_main.cpp:98`), the relay up
  to 300 s for the exit (`relay.cpp:81`).

### Storage

* A migration of the old layout that is killed while it copies, and whose next start is
  killed between the rollback and the retry, leaves a target that is neither managed nor
  empty, and every later start refuses it (`storagebootstrap.cpp:231`,
  `storagelocator.cpp:791`): `Startable` fails over the layout of `Migration_pair` with one window and two kills.
* Migration, a failing commit and two windows: `rollbackFailure` rolls the locator back and
  then removes the files it made (`storagemigrator.cpp:923`). In between, a second window
  over the old layout finds no locator and a target with a manifest, adopts it
  (`storagebootstrap.cpp:220`) and loses its files to the cleanup: `ActiveIsComplete` and
  `ActiveIsKept` fail with `Greps = {}` in `Migration_pair.cfg`.
* Migration, a search before the first start: it makes a manifest in the user's directory
  (`storagebootstrap.cpp:206`), after which the application takes this empty directory for
  one in use and never migrates the old settings (`UseDefaultRoot`, then `AdoptTarget`).
  `SettingsSurvive` is therefore about one window; the run has no old layout, the theorem
  allows one.
* Migration of the old layout, failing calls: the commit fails and is rolled back, and in the
  cleanup a removal fails, so that the target keeps nothing but its manifest
  (`storagemigrator.cpp:923`). The next start takes it for a directory in use, adopts it
  (`storagebootstrap.cpp:220`), and the old settings are never read again: `SettingsSurvive` fails
  over the layout of `Migration_pair` with one window and two faults. Hence kills only in
  `SettingsAlwaysSurvive` where there is an old layout.
* Migration, two windows at a first start: both may select one directory, each with another
  locator. The one that finds the other's locator there removes the manifest it has made
  (`NotWritten`), which is the one the other uses: `ActiveIsComplete` fails without any fault.
* Migration, `--data-dir` naming the target of a scheduled migration: the run gives it a
  manifest, and the files it saves make it complete, so that the recovery commits without
  copying (`storagemigrator.cpp:1193`); hence `Overrides = {}` where `SettingsSurvive` is checked.
* Migration, a scheduled change with two windows: whichever instance starts next carries it
  out, and what the first window saves after that goes to the directory left behind. The
  same window, asked twice, resolves the two locators without a lock
  (`storagelocator.cpp:596`), so a commit from the user's to the program's locator in between
  shows it none, and it asks the question of the first start.
* Migration, three processes: `OneMigration` fails with three windows, two directories of which
  the program's locator names one, and one failing call. A window runs at the program's
  location; another commits a change to the user's locator and later one back, whose removal of
  the user's locator fails, so that this stays behind with its migration pending; a third had
  found no program's locator before, and reads the user's now. The first window schedules a change, which a start copies while the third
  commits the one left behind (`storagemigrator.cpp:1028`: each locks beside its own source).
  With two processes it cannot happen (`OnlyOneMigration`).
* Migration: whether a failed commit stands is read off the target's locator, which must be
  unverified (`storagemigrator.cpp:499`); if another window has verified it in the meantime,
  the failed migration is rolled back under that window.

### Search

* `replaceCurrentSearch` empties the queue once and goes on
  (`ui/src/crawlerwidget.cpp:1457`, against the comment above it at 1449): the last signal of
  the search it replaces may be posted after that, and is taken for one of the new search.
  `tainted` marks these behaviours; `DifferencesAddUp` fails without it.
* An interruption while blocks are matched out of order: `nbLinesProcessed_` is the end of the
  furthest block joined (`logfiltereddata.h:111`) and passes lines that were never searched;
  the incomplete result may be cached (`holes`).
* A last signal that comes after `clearSearch` or a reload caches an empty list under the
  old key.
* A truncation found while the info line is empty clears neither search nor cache
  (`crawlerwidget.cpp:807`); nor does one that a search began after, before the index is
  rebuilt.
* Appending to the last line does not drop the cached results that end with it.
* A hit in the cache leaves the worker with the results of another search, which an update
  goes on with.
* `clearMarks` in a reload leaves the old marks in `marks_and_matches_`.
* The filtered view is redrawn only if the count has changed (`crawlerwidget.cpp:567`), and a
  throttled report of an earlier search may hide the stop button of a later one.
* An exception in a search posts no last signal, and the file keeps its reader.

### Portable updater

* `rollback` looks a file up by its spelling among those backed up while
  `validateTransaction` folds case (`transaction.cpp:143`): a file whose name changed in case
  only is removed and not restored, against `transaction.h:15`. `EndsWhole` fails with such a
  name in `NewFiles`.
* A cancel whose file cannot be written is not seen by the helper
  (`portableupdateinstaller.cpp:124`), which then updates at the next normal exit within two
  minutes (`unsaved` in `story`).
* After a kill in the replacement, a `.zzlogg-update-new` or a new file that is already in
  place blocks every later update; a kill between the removal and the rename leaves no
  program, and nothing recovers it.
* The helper keeps its handle of the mutex while it shows a failure
  (`helper_win.cpp:141`), so the application cannot start; and a retry right after a cancel is
  refused until the first helper is gone.

### Checks and downloads

* A check that begins while an installation is being prepared keeps the verified download
  (`kloggapp.h:622`), so the dialog may show one release and offer to install another, against
  `docs/development/UPDATE_PROTOCOL.md:150`: `OfferConsistent` fails with one instance.
* "Skip this version" skips the release of the service, not the one that is shown
  (`kloggapp.h:656`, `updateservice.cpp:161`), or closes without skipping if a check is active.
* `changeChannel` leaves the channel as it is when the cancel of the running check cannot be
  recorded (`updateservice.cpp:59`).
* A cancelled check shortens a longer back-off to 15 minutes; a background check that is due
  cancels a download that runs and drops a verified package; what was skipped is read before
  the new release is accepted.

### Windows and session

* A restart does not bring back the session of a process that was started with files: they
  are on the command line again, which starts a new session
  (`applicationrunner.cpp:654`, against `BUILD.md:165`). `RestartRestores` fails.
* A forwarded file may be opened in a window that was closed and waits for its deletion
  (`kloggapp.h:299`): `ForwardedOpens` fails. It is dropped while the exit is prepared.
* While the alert about a load without memory is shown, a forwarded file becomes current,
  and is closed in place of the one that failed (`mainwindow.cpp:1278-1289`):
  `ClosesWhatFailed` fails.
* A file forwarded after the commit, or a kill between the savings of two windows, stores one
  file in two windows, and the next start opens it twice (`session.cpp:193`): `StoredOnce` fails.
* `QSettings::status` keeps its error: after one failed sync neither exit nor restart nor
  update succeeds again in that process, and the exit says nothing (`kloggapp.h:332`, `503`).
* A load that fails while the exit is prepared, or in a tab in the background, leaves its tab.

## 8. Not modelled, and why

* Temporary files of the engine: their names are never reused and no step reads one that
  another step wrote. The order in which an operating system writes back unflushed
  metadata at a power cut: a kill and a power cut differ there, the model has the kill.
* Formatting, parsing, hashing, signatures, process identities: their result is a constant
  or a step that can fail. Of `prepare`, also what it asks of the request's paths and of the
  registration; of `recover` these checks are a fault (`RecheckFails`).
* Portable: that a temporary file of the transaction cannot be removed (`transaction.cpp:136`), a
  rollback copy that is cut short by a kill (`transaction.cpp:143`), a status that cannot be
  written after the restart (`helper_win.cpp:136`). The helper opens the process and the mutex in
  one step (`helper_win.cpp:82`, `helper_win.cpp:100`): in between, under the lease of the
  directory, the parent would have to end and another session to begin.
* Migration: locators and directories that cannot be read or parsed, symbolic links in the
  trees, and the lock file left malformed by a kill; each ends the start with an error and
  changes nothing. Several log files are one.
* The text views, overview and dialogs: layout and painting on one thread, a third of the
  application's lines, with little state that outlives an event. Reading lines for them is
  pure.
* QuickFind: a cancellable search on a pool thread. Read, not modelled; what it exposes: the
  worker clears `interruptRequested_`, so an interrupt set before it starts is lost, and a
  search that ends after the limits were reset writes `firstMatch_`/`lastMatch_` of the old
  pattern, after which the new one may be reported to have no more matches.
* FileWatcher: the watched directories, the native back end and polling; one file's
  comparison and signal are in LogData. `removeWatch` keeps the `watchId`, and two views of
  one file share an entry.
* Everything listed as `not_modelled` in `PROJECT.json`, with its reason there.

## 9. The plan

Done: LogData with FileHolder; LineStorage, LineIndex; Search with its worker; TxPlan,
TxEngine with AtomicUpdate; Handoff; Migration with UserSettings; Portable; Updates;
Session. Proofs of all of them but LineIndex and TxPlan.

1. **Migration**: what a window and searches keep of the active directory when calls do not
   fail; the invariant would have to say of both what each may have read before.
2. **TxEngine**: the refinement with foreign writes, where `AtomicUpdate` allows a target that
   is another program's.
3. **Handoff**: the engine whose relay was killed, for which a weaker `NoAppWhileExecuting`
   may still hold of the application that starts after it.
4. **LineIndex**: a lemma for one step of the fold (one block read), from which the evaluated
   assumption follows by induction on paper.
5. **QuickFind** and the bookkeeping of **FileWatcher**: small modules, each in place of a
   question asked now, since runs are kept to a dozen.
