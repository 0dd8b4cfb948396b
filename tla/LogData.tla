------------------------------- MODULE LogData -------------------------------
(***************************************************************************)
(* Loading and following one log file: LogData with its OperationQueue,    *)
(* the LogDataWorker thread that indexes the file, the file watcher, and   *)
(* the part of CrawlerWidget that is called back when a load ends.         *)
(*                                                                         *)
(* Three parties interleave:                                               *)
(*   - the main (GUI) thread: user calls, and the handlers of the queued   *)
(*     signals fileChanged, indexingFinished, checkFileChangesFinished;    *)
(*     a handler runs to its end before the next one;                      *)
(*   - the one runnable of the worker's thread pool, which runs an index   *)
(*     or a check operation block by block;                                *)
(*   - the outside world, which changes the file at any moment.            *)
(*                                                                         *)
(* A file is a sequence of blocks; a block is the number of the change     *)
(* that wrote it, so two blocks are equal iff their bytes are.  A log that *)
(* is missing is an empty one, as the code treats it.                      *)
(***************************************************************************)
EXTENDS Naturals, Sequences, FileHolder

CONSTANTS
    Codecs,             \* one text codec for each class of EncodingParameters
    None,               \* nullptr, or no value
    Detected,           \* the codec EncodingDetector finds in this file
    Locale,             \* QTextCodec::codecForLocale()
    Latin1,             \* ISO-8859-1, what a new LogData displays
    DefaultEncoding,    \* Configuration::defaultEncodingMib(), or None
    Detections,         \* "fast" if Configuration::fastModificationDetection(),
                        \* else "full"; both if the user switches in between
    ChangeKinds,        \* what happens to the file: see Change
    MaxBlocks,          \* bound on the length of the file
    MaxChanges,         \* bound on the changes to the file
    MaxCalls            \* bound on the user's calls

LoadingStatus == {"Successful", "Interrupted"}
MonitoredFileStatus == {"Unchanged", "DataAdded", "Truncated"}

ASSUME LogDataAssumption ==
    /\ None \notin Codecs \cup LoadingStatus \cup MonitoredFileStatus
    /\ None \notin 0..MaxChanges
    /\ {Detected, Locale, Latin1} \subseteq Codecs
    /\ DefaultEncoding \in Codecs \cup {None}
    /\ Detections \subseteq {"full", "fast"}
    /\ ChangeKinds \subseteq {"append", "rewrite", "truncate", "rotate", "touch"}
    /\ MaxBlocks \in Nat /\ MaxChanges \in Nat /\ MaxCalls \in Nat

VARIABLES
    \* the outside world
    disk,           \* the blocks of every inode
    inode,          \* the inode the log's name refers to
    version,        \* how many changes the file went through
    \* the file watcher
    seen,           \* the version it knows, or None while the file is unwatched
    notified,       \* a fileChanged signal is posted to this LogData
    told,           \* history: a fileChanged signal was handled
    \* the main thread
    life,           \* where the object is in its life
    attached,       \* attachFile was called
    calls,          \* how many user calls were made
    holder,         \* attached_file_
    executing,      \* executingOperation_
    pending,        \* pendingOperation_
    fileStatus,     \* fileChangedOnDisk_
    codec,          \* codec_, the encoding of the displayed lines
    encodingMib,    \* CrawlerWidget::encodingMib_, the encoding the user chose
    lastStatus,     \* the status of the last loadingFinished, or None
    \* shared by both threads
    index,          \* indexing_data_
    interrupt,      \* interruptRequest_
    signal,         \* the finished signal posted by the runnable, or None
    \* the worker thread
    worker          \* the runnable of operationsPool_

worldVars == <<disk, inode, version>>
watchVars == <<seen, notified, told>>
queueVars == <<executing, pending, holder, worker, interrupt>>
vars == <<disk, inode, version, seen, notified, told, life, attached, calls,
          holder, executing, pending, fileStatus, codec, encodingMib,
          lastStatus, index, interrupt, signal, worker>>

-----------------------------------------------------------------------------
(* Operations, the index and the runnable *)

OpKinds == {"None", "Attach", "Full", "Partial", "Check"}
Op(kind, forced) == [kind |-> kind, forced |-> forced]
NoOp == Op("None", None)      \* std::monostate
Ops == [kind : OpKinds, forced : Codecs \cup {None}]

Data == Seq(0..MaxChanges)      \* the contents of a file

\* IndexingData
Indexes == [blocks : Data, header : Data \cup {None}, tail : Data \cup {None},
            tailPos : Nat, forced : Codecs \cup {None}, guess : Codecs \cup {None}]

\* IndexingData::clear: every hash is 0, which is no digest, not even that of
\* no bytes.  blocks stands for the line positions, hash_.size and fullDigest.
ClearedIndex == [blocks |-> <<>>, header |-> None, tail |-> None, tailPos |-> 0,
                 forced |-> None, guess |-> None]

\* What a read of n blocks from position pos of a file returns.
BlocksAt(data, pos, n) ==
    SubSeq(data, pos + 1, IF pos + n < Len(data) THEN pos + n ELSE Len(data))

\* "started" has released the semaphore and waits for operationsMutex_;
\* "unwinding" has posted its result and still holds the mutex.
WorkerPcs == {"idle", "started", "index", "result", "open", "check", "unwinding"}

Runnables == [pc : WorkerPcs, op : Ops, handle : 0..MaxChanges, pos : Nat,
              size : Nat, mode : {"full", "fast"}, same : BOOLEAN, since : 0..MaxChanges]

IdleWorker == [pc |-> "idle", op |-> NoOp, handle |-> 0, pos |-> 0, size |-> 0,
               mode |-> "full", same |-> TRUE, since |-> 0]

File == disk[inode]

Init ==
    /\ \E n \in 0..MaxBlocks :
          disk = [i \in 0..MaxChanges |-> [k \in 1..(IF i = 0 THEN n ELSE 0) |-> 0]]
    /\ inode = 0 /\ version = 0
    /\ seen = None /\ notified = FALSE /\ told = FALSE
    /\ life = "open" /\ attached = FALSE /\ calls = 0
    /\ holder = Unopened
    /\ executing = NoOp /\ pending = NoOp
    /\ fileStatus = "Unchanged" /\ lastStatus = None
    /\ codec = IF DefaultEncoding = None THEN Latin1 ELSE DefaultEncoding
    /\ encodingMib = DefaultEncoding
    /\ index = ClearedIndex
    /\ interrupt = FALSE /\ signal = None
    /\ worker = IdleWorker

-----------------------------------------------------------------------------
(* The outside world and the watcher *)

Write(content) == disk' = [disk EXCEPT ![inode] = content] /\ UNCHANGED inode

\* Another program changes the file: it appends a block, overwrites one in
\* place, cuts the file (copytruncate), moves it away and creates it anew, or
\* only sets its modification time.
Change ==
    /\ version < MaxChanges
    /\ version' = version + 1
    /\ \/ /\ "append" \in ChangeKinds /\ Len(File) < MaxBlocks
          /\ Write(Append(File, version'))
       \/ /\ "rewrite" \in ChangeKinds
          /\ \E i \in DOMAIN File : Write([File EXCEPT ![i] = version'])
       \/ /\ "truncate" \in ChangeKinds
          /\ \E n \in 0..(Len(File) - 1) : Write(SubSeq(File, 1, n))
       \/ /\ "rotate" \in ChangeKinds
          /\ inode' = version'
          /\ \E n \in 0..MaxBlocks :
                disk' = [disk EXCEPT ![version'] = [k \in 1..n |-> version']]
       \/ /\ "touch" \in ChangeKinds
          /\ UNCHANGED <<disk, inode>>
    /\ UNCHANGED <<seen, notified, told, life, attached, calls, holder, executing,
                   pending, fileStatus, codec, encodingMib, lastStatus, index,
                   interrupt, signal, worker>>

\* EfswFileWatcher::checkWatches and the throttled FileWatcher::fileChanged: the
\* stored size and time of a watched file differ from those on disk; they are
\* replaced, and the change is posted to LogData.
Notify ==
    /\ seen # None /\ seen # version
    /\ seen' = version
    /\ notified' = TRUE
    /\ UNCHANGED <<disk, inode, version, told, life, attached, calls, holder,
                   executing, pending, fileStatus, codec, encodingMib, lastStatus,
                   index, interrupt, signal, worker>>

-----------------------------------------------------------------------------
(* The operation queue: one operation executes, at most one is pending.      *)
(* h and flag are attached_file_ and interruptRequest_ as the calling handler *)
(* leaves them.                                                              *)

\* OperationQueue::tryStartPendingOperation, with the LogDataWorker method it
\* reaches: that waits for the previous runnable to end (waitForDone), clears
\* the interruption, starts the runnable and returns once it has begun.
StartNext(op, h, flag) ==
    /\ executing' = op
    /\ pending' = NoOp
    /\ \/ /\ op = NoOp
          /\ holder' = h
          /\ interrupt' = flag
          /\ UNCHANGED worker
       \/ /\ op # NoOp
          /\ worker.pc = "idle"
          /\ holder' = AttachReader(h, inode)
          /\ interrupt' = FALSE
          /\ worker' = [worker EXCEPT !.pc = "started", !.op = op]

\* Faults of Enqueue: it starts the operation beside the one that executes; it
\* refuses an operation while another one executes.
Enqueue_StartsAtOnce(op, h, flag) == StartNext(op, h, flag)
Enqueue_Refuses(op, h, flag) ==
    \/ /\ executing = NoOp
       /\ StartNext(op, h, flag)
    \/ /\ executing # NoOp
       /\ holder' = h
       /\ interrupt' = flag
       /\ UNCHANGED <<executing, pending, worker>>

\* OperationQueue::enqueueOperation: the new operation takes the one pending
\* slot, whatever was in it.
Enqueue(op, h, flag) ==
    \/ /\ executing = NoOp
       /\ StartNext(op, h, flag)
    \/ /\ executing # NoOp
       /\ pending' = op
       /\ holder' = h
       /\ interrupt' = flag
       /\ UNCHANGED <<executing, worker>>

(* CrawlerWidget::updateEncoding and LogData::doSetDisplayEncoding *)

WantedCodec(mib) ==
    IF mib # None THEN mib
    ELSE IF index.guess # None THEN index.guess ELSE Locale

IndexCodec == IF index.forced # None THEN index.forced ELSE index.guess

NeedReload(c) == IndexCodec # None /\ c # IndexCodec

\* LogData::reload's operation, with no forced codec when c is the guess.
ReloadFor(c) == Op("Full", IF c = index.guess THEN None ELSE c)

-----------------------------------------------------------------------------
(* The main thread: user calls *)

\* LogData::attachFile
AttachFile ==
    /\ life = "open" /\ ~attached
    /\ attached' = TRUE
    /\ Enqueue(Op("Attach", DefaultEncoding), OpenHolder(holder, inode), interrupt)
    /\ UNCHANGED <<worldVars, watchVars, life, calls, fileStatus, codec,
                   encodingMib, lastStatus, index, signal>>

UserCall ==
    /\ life = "open" /\ attached
    /\ calls < MaxCalls
    /\ calls' = calls + 1

\* LogData::interruptLoading
InterruptLoading ==
    /\ UserCall
    /\ interrupt' = TRUE
    /\ UNCHANGED <<worldVars, watchVars, life, attached, holder, executing, pending,
                   fileStatus, codec, encodingMib, lastStatus, index, signal, worker>>

\* LogData::reload, from CrawlerWidget::reload
Reload ==
    /\ UserCall
    /\ Enqueue(Op("Full", None), ReOpenFile(holder, inode), TRUE)
    /\ UNCHANGED <<worldVars, watchVars, life, attached, fileStatus, codec,
                   encodingMib, lastStatus, index, signal>>

\* CrawlerWidget::setEncoding
\*   IF the index was built with another codec
\*   THEN it is reloaded; the guess is read through a pointer that is null while
\*        a forced codec is set and no block has been parsed yet
SetEncoding ==
    /\ UserCall
    /\ \E mib \in Codecs \cup {None} :
        LET c == WantedCodec(mib)
        IN  /\ encodingMib' = mib
            /\ codec' = c
            /\ \/ /\ ~NeedReload(c)
                  /\ interrupt' = TRUE
                  /\ UNCHANGED <<executing, pending, holder, worker, life>>
               \/ /\ NeedReload(c) /\ index.guess # None
                  /\ Enqueue(ReloadFor(c), ReOpenFile(holder, inode), TRUE)
                  /\ UNCHANGED life
               \/ /\ NeedReload(c) /\ index.guess = None
                  /\ life' = "crashed"
                  /\ interrupt' = TRUE
                  /\ UNCHANGED <<executing, pending, holder, worker>>
    /\ UNCHANGED <<worldVars, watchVars, attached, fileStatus, lastStatus, index,
                   signal>>

\* LogData::~LogData: OperationQueue::shutdown interrupts the worker and destroys
\* it; the destructor takes operationsMutex_, then waits for the thread pool.
Close ==
    /\ life = "open"
    /\ life' = "locking"
    /\ interrupt' = TRUE
    /\ UNCHANGED <<worldVars, watchVars, attached, calls, holder, executing, pending,
                   fileStatus, codec, encodingMib, lastStatus, index, signal, worker>>

CloseLocks ==
    /\ life = "locking"
    /\ worker.pc \in {"idle", "started"}
    /\ life' = "waiting"
    /\ UNCHANGED <<worldVars, watchVars, attached, calls, holder, executing, pending,
                   fileStatus, codec, encodingMib, lastStatus, index, interrupt,
                   signal, worker>>

CloseDone ==
    /\ life = "waiting"
    /\ worker.pc = "idle"
    /\ life' = "gone"
    /\ seen' = None             \* FileHolder::~FileHolder stops the watch
    /\ UNCHANGED <<worldVars, notified, told, attached, calls, holder, executing,
                   pending, fileStatus, codec, encodingMib, lastStatus, index,
                   interrupt, signal, worker>>

-----------------------------------------------------------------------------
(* The main thread: handlers of queued signals *)

\* LogData::fileChangedOnDisk
FileChangedOnDisk ==
    /\ life = "open" /\ notified
    /\ notified' = FALSE
    /\ told' = TRUE
    /\ LET stale == holder.inode # inode \/ ~holder.open
       IN  Enqueue(Op("Check", None),
                   IF stale THEN ReOpenFile(holder, inode) ELSE holder, interrupt)
    /\ UNCHANGED <<worldVars, seen, life, attached, calls, fileStatus, codec,
                   encodingMib, lastStatus, index, signal>>

\* LogData::indexingFinished
\*   IF successful THEN the file is watched from now on
\*   loadingFinished runs CrawlerWidget::updateEncoding, which interrupts, and
\*   reloads when the displayed codec is not that of the index
\*   the pending operation starts
IndexingFinished ==
    /\ life = "open" /\ signal \in LoadingStatus
    /\ signal' = None
    /\ seen' = IF signal = "Successful" /\ seen = None THEN version ELSE seen
    /\ fileStatus' = "Unchanged"
    /\ lastStatus' = signal
    /\ LET c == WantedCodec(encodingMib)
           h == DetachReader(holder)
       IN  /\ codec' = c
           /\ \/ /\ ~NeedReload(c)
                 /\ StartNext(pending, h, TRUE)
              \/ /\ NeedReload(c)
                 /\ StartNext(ReloadFor(c), ReOpenFile(h, inode), TRUE)
    /\ UNCHANGED <<worldVars, notified, told, life, attached, calls, encodingMib,
                   index>>

\* What the verdict of a check makes of fileChangedOnDisk_: truncated stays so.
StatusAfter(verdict) == IF fileStatus = "Truncated" THEN "Truncated" ELSE verdict

\* Faults of OperationFor: a truncated file is indexed from where the index ends;
\* an unchanged file is checked again.
OperationFor_NeverFull(status) ==
    IF status = "Unchanged" THEN pending ELSE Op("Partial", None)
OperationFor_ChecksForever(status) ==
    CASE status = "Truncated" -> Op("Full", None)
      [] status = "DataAdded" -> Op("Partial", None)
      [] status = "Unchanged" -> Op("Check", None)

\* The operation that follows a check: one that the verdict asks for replaces
\* whatever is pending.
OperationFor(status) ==
    CASE status = "Truncated" -> Op("Full", None)
      [] status = "DataAdded" -> Op("Partial", None)
      [] status = "Unchanged" -> pending

\* LogData::checkFileChangesFinished
CheckFileChangesFinished ==
    /\ life = "open" /\ signal \in MonitoredFileStatus
    /\ signal' = None
    /\ fileStatus' = StatusAfter(signal)
    /\ StartNext(OperationFor(StatusAfter(signal)), DetachReader(holder), interrupt)
    /\ UNCHANGED <<worldVars, watchVars, life, attached, calls, codec, encodingMib,
                   lastStatus, index>>

-----------------------------------------------------------------------------
(* The worker thread *)

workerOnly == <<worldVars, watchVars, life, attached, calls, holder, executing,
                pending, fileStatus, codec, encodingMib, lastStatus, interrupt>>

\* The runnable takes operationsMutex_, unless the destructor holds it.
TakesMutex == worker.pc = "started" /\ life # "waiting"

\* FullIndexOperation::run up to the first block: the index is emptied, the file
\* opened by name.
RunFullIndex ==
    /\ TakesMutex /\ worker.op.kind \in {"Attach", "Full"}
    /\ index' = [ClearedIndex EXCEPT !.forced = worker.op.forced]
    /\ worker' = [worker EXCEPT !.pc = "index", !.handle = inode, !.pos = 0]
    /\ UNCHANGED <<workerOnly, signal>>

\* PartialIndexOperation::run up to the first block: it goes on where the index ends.
RunPartialIndex ==
    /\ TakesMutex /\ worker.op.kind = "Partial"
    /\ worker' = [worker EXCEPT !.pc = "index", !.handle = inode,
                                !.pos = Len(index.blocks)]
    /\ UNCHANGED <<workerOnly, index, signal>>

\* One round of readFileInBlocks with the indexNextBlock it feeds.
ReadBlock ==
    /\ worker.pc = "index" /\ ~interrupt
    /\ worker.pos < Len(disk[worker.handle])
    /\ index' = [index EXCEPT
                    !.blocks = Append(@, disk[worker.handle][worker.pos + 1]),
                    !.guess = IF @ = None THEN Detected ELSE @]
    /\ worker' = [worker EXCEPT !.pos = @ + 1]
    /\ UNCHANGED <<workerOnly, signal>>

\* The rest of doIndex, at the end of the file or at an interruption: the digests
\* of the first and of the last block are read from the file again; the index is
\* cleared IF the load was interrupted by now.
FinishIndex ==
    /\ worker.pc = "index"
    /\ interrupt \/ worker.pos >= Len(disk[worker.handle])
    /\ LET data == disk[worker.handle]
           end == worker.pos
           header == BlocksAt(data, 0, 1)
           sealed == IF end <= 1
                     THEN [index EXCEPT !.header = header, !.tail = header, !.tailPos = 0]
                     ELSE [index EXCEPT !.header = header, !.tailPos = end - 1,
                                        !.tail = BlocksAt(data, end - 1, 1)]
           kept == IF interrupt THEN ClearedIndex ELSE sealed
       IN  index' = [kept EXCEPT !.guess = IF @ = None THEN Locale ELSE @]
    /\ worker' = [worker EXCEPT !.pc = "result"]
    /\ UNCHANGED <<workerOnly, signal>>

\* The end of run(): the interruption is read once more for the result.
ReportResult ==
    /\ worker.pc = "result"
    /\ signal' = IF interrupt THEN "Interrupted" ELSE "Successful"
    /\ worker' = [worker EXCEPT !.pc = "unwinding"]
    /\ UNCHANGED <<workerOnly, index>>

\* run() catches an exception (no memory for a block): the index is cleared.
IndexingThrows ==
    /\ worker.pc = "index" /\ ~interrupt
    /\ worker.pos < Len(disk[worker.handle])
    /\ index' = ClearedIndex
    /\ signal' = "Interrupted"
    /\ worker' = [worker EXCEPT !.pc = "unwinding"]
    /\ UNCHANGED workerOnly

\* CheckFileChangesOperation::run: the size of the file decides first.
RunCheck ==
    /\ TakesMutex /\ worker.op.kind = "Check"
    /\ LET size == Len(File)
           begun == [worker EXCEPT !.size = size, !.since = version]
       IN  \/ /\ size = 0 \/ size < Len(index.blocks)
              /\ signal' = "Truncated"
              /\ worker' = [begun EXCEPT !.pc = "unwinding"]
           \/ /\ size # 0 /\ size >= Len(index.blocks)
              /\ worker' = [begun EXCEPT !.pc = "open"]
              /\ UNCHANGED signal
    /\ UNCHANGED <<workerOnly, index>>

\* doCheckFileChanges opens the file: an index without digests never matches.
OpenForCheck ==
    /\ worker.pc = "open"
    /\ \E mode \in Detections :
          worker' = [worker EXCEPT
                        !.pc = "check", !.handle = inode, !.pos = 0, !.mode = mode,
                        !.same = IF mode = "fast" THEN index.header # None
                                                  ELSE index.blocks # <<>>]
    /\ UNCHANGED <<workerOnly, index, signal>>

\* Fault of ChecksDue: the last indexed block is never compared.
ChecksDue_OneShort ==
    IF worker.mode = "fast" THEN 2 ELSE IF index.blocks = <<>> THEN 0 ELSE Len(index.blocks) - 1

\* How many reads getDigest makes: the first and the last block, or all of them.
ChecksDue == IF worker.mode = "fast" THEN 2 ELSE Len(index.blocks)

\* One read of getDigest, compared with what was indexed.
CheckBlock ==
    /\ worker.pc = "check" /\ worker.same /\ worker.pos < ChecksDue
    /\ LET data == disk[worker.handle]
           match == IF worker.mode = "full"
                    THEN BlocksAt(data, worker.pos, 1) = BlocksAt(index.blocks, worker.pos, 1)
                    ELSE IF worker.pos = 0
                    THEN BlocksAt(data, 0, Len(index.header)) = index.header
                    ELSE BlocksAt(data, index.tailPos, Len(index.tail)) = index.tail
       IN  worker' = [worker EXCEPT !.pos = @ + 1, !.same = match]
    /\ UNCHANGED <<workerOnly, index, signal>>

\* Fault of ReportCheck: one appended block is not noticed.
ReportCheck_MissesOne ==
    /\ worker.pc = "check" /\ (~worker.same \/ worker.pos >= ChecksDue)
    /\ signal' = IF ~worker.same THEN "Truncated"
                 ELSE IF worker.size > Len(index.blocks) + 1 THEN "DataAdded"
                 ELSE "Unchanged"
    /\ worker' = [worker EXCEPT !.pc = "unwinding"]
    /\ UNCHANGED <<workerOnly, index>>

\* The verdict of doCheckFileChanges is posted.
ReportCheck ==
    /\ worker.pc = "check" /\ (~worker.same \/ worker.pos >= ChecksDue)
    /\ signal' = IF ~worker.same THEN "Truncated"
                 ELSE IF worker.size > Len(index.blocks) THEN "DataAdded"
                 ELSE "Unchanged"
    /\ worker' = [worker EXCEPT !.pc = "unwinding"]
    /\ UNCHANGED <<workerOnly, index>>

\* The runnable returns: operationsMutex_ is free, the pool is idle.
RunnableDone ==
    /\ worker.pc = "unwinding"
    /\ worker' = IdleWorker
    /\ UNCHANGED <<workerOnly, index, signal>>

-----------------------------------------------------------------------------

UserAction == AttachFile \/ InterruptLoading \/ Reload \/ SetEncoding \/ Close

Handler == FileChangedOnDisk \/ IndexingFinished \/ CheckFileChangesFinished

Destruction == CloseLocks \/ CloseDone

WorkerStep ==
    \/ RunFullIndex \/ RunPartialIndex \/ ReadBlock \/ FinishIndex \/ ReportResult
    \/ IndexingThrows \/ RunCheck \/ OpenForCheck \/ CheckBlock \/ ReportCheck
    \/ RunnableDone

Next == Change \/ Notify \/ UserAction \/ Handler \/ Destruction \/ WorkerStep

Spec == Init /\ [][Next]_vars

\* The threads keep running, the event loop serves every posted signal, and the
\* watcher's timer fires; nothing obliges the user or other programs to act.
Fairness ==
    /\ WF_vars(WorkerStep) /\ WF_vars(Destruction) /\ WF_vars(Notify)
    /\ WF_vars(FileChangedOnDisk)
    /\ WF_vars(IndexingFinished) /\ WF_vars(CheckFileChangesFinished)

FairSpec == Spec /\ Fairness

-----------------------------------------------------------------------------
(* Properties *)

\* Every variable holds a value of its type.
TypeOK ==
    /\ disk \in [0..MaxChanges -> Data]
    /\ inode \in 0..MaxChanges /\ version \in 0..MaxChanges
    /\ seen \in (0..MaxChanges) \cup {None}
    /\ notified \in BOOLEAN /\ told \in BOOLEAN
    /\ life \in {"open", "locking", "waiting", "gone", "crashed"}
    /\ attached \in BOOLEAN /\ calls \in 0..MaxCalls
    /\ holder \in Holders
    /\ executing \in Ops /\ pending \in Ops
    /\ fileStatus \in MonitoredFileStatus
    /\ codec \in Codecs /\ encodingMib \in Codecs \cup {None}
    /\ lastStatus \in LoadingStatus \cup {None}
    /\ index \in Indexes
    /\ interrupt \in BOOLEAN
    /\ signal \in LoadingStatus \cup MonitoredFileStatus \cup {None}
    /\ worker \in Runnables

\* The runnable has not posted its result yet.
Working == worker.pc \notin {"idle", "unwinding"}

\* A signal that an operation of this kind may post.
ResultsOf(op) == IF op.kind = "Check" THEN MonitoredFileStatus ELSE LoadingStatus

\* While the log is open, an operation executes exactly as long as its runnable
\* works or its result waits for its handler, never both; the result is of the
\* operation's own sort, and nothing is pending while nothing executes.  The queue
\* would otherwise hang for ever, or start two operations (OperationQueue and the
\* LogDataWorker it drives).
OneOperation ==
    life = "open" =>
        /\ Working => worker.op = executing /\ executing # NoOp
        /\ Working => signal = None
        /\ executing # NoOp => Working \/ signal # None
        /\ signal # None => executing # NoOp /\ signal \in ResultsOf(executing)
        /\ pending # NoOp => executing # NoOp

\* The reader that FileHolder::open counts.
PermanentReaders == IF KeepFileClosed THEN 0 ELSE 1

\* Readers of the displayed file are attached and detached in pairs over every
\* path through the queue, and the file is open whenever an operation executes: a
\* reader too few closes the file under a running operation, one too many keeps it
\* open for ever (attachReader in tryStartPendingOperation, detachReader in the
\* two finished handlers).
ReadersBalanced ==
    life = "open" /\ attached =>
        /\ holder.readers = PermanentReaders + (IF executing = NoOp THEN 0 ELSE 1)
        /\ holder.open <=> holder.readers > 0

\* A partial index runs only after a check that found appended data, and a file
\* found truncated stays marked until the full index it caused has ended: old and
\* new contents are never joined knowingly (fileChangedOnDisk_ in
\* checkFileChangesFinished and indexingFinished).
StatusMatchesOperation ==
    life = "open" =>
        /\ fileStatus = "DataAdded" <=> executing.kind = "Partial"
        /\ fileStatus = "Truncated" => executing.kind = "Full"
        /\ pending.kind # "Partial"

\* The verdict of a check is true of any file that did not change since the check
\* began: "unchanged" only if the index holds exactly the file, "data added" only
\* if it holds a proper beginning of it (doCheckFileChanges).
VerdictSound ==
    life = "open" /\ worker.pc = "unwinding" /\ worker.op.kind = "Check"
    /\ worker.since = version =>
        /\ signal = "Unchanged" => index.blocks = File
        /\ signal = "DataAdded" =>
              /\ Len(index.blocks) < Len(File)
              /\ BlocksAt(File, 0, Len(index.blocks)) = index.blocks

\* Nothing is left to do: no operation, no posted signal, no change the watcher
\* does not know of.
Quiet ==
    /\ life = "open" /\ attached
    /\ executing = NoOp /\ ~notified /\ seen = version

\* When all is quiet after a successful load and at least one change notification,
\* the index is that of the file as it is, and the lines are read from it: no
\* change was lost between the watcher, the one-slot queue and the worker.
FollowsFile ==
    Quiet /\ told /\ lastStatus = "Successful" =>
        index.blocks = File /\ holder.inode = inode

\* Every posted change leads to an index that was started after it, or to a check:
\* the queue comes to rest once the file does.
ChangesSettle == notified ~> (~notified /\ executing = NoOp) \/ life # "open"

\* Closing a log terminates.
CloseTerminates == (life = "locking") ~> (life = "gone")
=============================================================================
