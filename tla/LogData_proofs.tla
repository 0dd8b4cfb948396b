--------------------------- MODULE LogData_proofs ---------------------------
(***************************************************************************)
(* Proofs about LogData, for every number of blocks, changes and calls,    *)
(* every set of codecs and every choice of the configuration; and about    *)
(* LineStorage, the line positions it keeps, for blocks of any size.       *)
(***************************************************************************)
EXTENDS LogData, LineStorage, TLAPS, SequenceTheorems

-----------------------------------------------------------------------------
(* Lemmas about the operators of the model *)

\* The holder stays a holder.
LEMMA HolderTypes ==
    ASSUME NEW h \in Holders, NEW i \in Nat
    PROVE  /\ Unopened \in Holders
           /\ ReOpenFile(h, i) \in Holders
           /\ OpenHolder(h, i) \in Holders
           /\ AttachReader(h, i) \in Holders
           /\ DetachReader(h) \in Holders
  <1>1. Unopened \in Holders
    BY DEF Holders, Unopened
  <1>2. \A g \in Holders : ReOpenFile(g, i) \in Holders
    BY DEF Holders, ReOpenFile
  <1>3. OpenHolder(h, i) \in Holders
    BY <1>2 DEF Holders, OpenHolder
  <1>4. \A g \in Holders : [g EXCEPT !.readers = @ + 1] \in Holders
    BY DEF Holders
  <1>5. AttachReader(h, i) \in Holders
    BY <1>2, <1>4 DEF AttachReader
  <1>6. [h EXCEPT !.readers = IF @ > 0 THEN @ - 1 ELSE 0] \in Holders
    BY DEF Holders
  <1>7. \A g \in Holders : [g EXCEPT !.open = FALSE] \in Holders
    BY DEF Holders
  <1>8. DetachReader(h) \in Holders
    BY <1>6, <1>7 DEF DetachReader
  <1>. QED BY <1>1, <1>2, <1>3, <1>5, <1>8

\* What attaching and detaching do to the count and to the handle.
LEMMA ReaderFacts ==
    ASSUME NEW h \in Holders, NEW i \in Nat
    PROVE  /\ ReOpenFile(h, i).readers = h.readers /\ ReOpenFile(h, i).open
           /\ AttachReader(h, i).readers = h.readers + 1
           /\ h.open \/ (KeepFileClosed /\ h.readers = 0) => AttachReader(h, i).open
           /\ h.readers > 0 => DetachReader(h).readers = h.readers - 1
           /\ KeepFileClosed /\ h.readers <= 1 => ~DetachReader(h).open
           /\ (~KeepFileClosed \/ h.readers > 1) /\ h.open => DetachReader(h).open
  <1>1. ReOpenFile(h, i).readers = h.readers /\ ReOpenFile(h, i).open
    BY DEF Holders, ReOpenFile
  <1>2. ReOpenFile(h, i) \in Holders
    BY HolderTypes
  <1>3. \A g \in Holders : /\ [g EXCEPT !.readers = @ + 1].readers = g.readers + 1
                           /\ [g EXCEPT !.readers = @ + 1].open = g.open
    BY DEF Holders
  <1>4. /\ AttachReader(h, i).readers = h.readers + 1
        /\ h.open \/ (KeepFileClosed /\ h.readers = 0) => AttachReader(h, i).open
    BY <1>1, <1>2, <1>3 DEF AttachReader
  <1>. DEFINE less == IF h.readers > 0 THEN h.readers - 1 ELSE 0
              left == [h EXCEPT !.readers = less]
  <1>5. /\ less \in Nat
        /\ h.readers > 0 => less = h.readers - 1
        /\ h.readers <= 1 => less = 0
        /\ h.readers > 1 => less # 0
    BY DEF Holders
  <1>6. /\ DetachReader(h) = IF KeepFileClosed /\ left.readers = 0
                             THEN [left EXCEPT !.open = FALSE] ELSE left
    BY DEF DetachReader
  <1>. HIDE DEF less
  <1>7. /\ left.readers = less /\ left.open = h.open
        /\ [left EXCEPT !.open = FALSE].readers = less
        /\ [left EXCEPT !.open = FALSE].open = FALSE
    BY DEF Holders
  <1>8. /\ KeepFileClosed /\ less = 0 => ~DetachReader(h).open
        /\ ~(KeepFileClosed /\ less = 0) => DetachReader(h).open = h.open
        /\ DetachReader(h).readers = less
    BY <1>6, <1>7
  <1>. QED BY <1>1, <1>4, <1>5, <1>8

\* A read returns data.
LEMMA BlocksAtType ==
    ASSUME NEW data \in Data, NEW pos \in Nat, NEW n \in Nat
    PROVE  BlocksAt(data, pos, n) \in Data
  <1>. DEFINE last == IF pos + n < Len(data) THEN pos + n ELSE Len(data)
  <1>1. Len(data) \in Nat /\ \A k \in 1..Len(data) : data[k] \in 0..MaxChanges
    BY LenProperties, ElementOfSeq DEF Data
  <1>2. last \in Int /\ last <= Len(data)
    BY <1>1
  <1>3. \A k \in (pos + 1)..last : data[k] \in 0..MaxChanges
    BY <1>1, <1>2
  <1>. HIDE DEF last
  <1>4. SubSeq(data, pos + 1, last) \in Seq(0..MaxChanges)
    BY <1>2, <1>3, SubSeqProperties
  <1>. QED BY <1>4 DEF BlocksAt, Data, last

\* The codecs that the encoding logic chooses among.
LEMMA CodecTypes ==
    ASSUME TypeOK, NEW mib \in Codecs \cup {None}
    PROVE  /\ WantedCodec(mib) \in Codecs
           /\ ReloadFor(WantedCodec(mib)) \in Ops
           /\ ReloadFor(WantedCodec(mib)).kind = "Full"
  <1>1. index.guess \in Codecs \cup {None}
    BY DEF TypeOK, Indexes
  <1>2. WantedCodec(mib) \in Codecs
    BY <1>1, LogDataAssumption DEF WantedCodec
  <1>. QED BY <1>2 DEF ReloadFor, Op, Ops, OpKinds

-----------------------------------------------------------------------------
(* Type correctness *)

\* The variables that the queue assigns keep their types.
QueueTypeOK ==
    /\ executing \in Ops /\ pending \in Ops
    /\ holder \in Holders
    /\ interrupt \in BOOLEAN
    /\ worker \in Runnables

LEMMA StartNextType ==
    ASSUME TypeOK, NEW op \in Ops, NEW h \in Holders, NEW flag \in BOOLEAN,
           StartNext(op, h, flag)
    PROVE  QueueTypeOK'
  <1>1. NoOp \in Ops
    BY DEF NoOp, Ops, Op, OpKinds
  <1>2. inode \in Nat
    BY LogDataAssumption DEF TypeOK
  <1>3. CASE op = NoOp
    BY <1>1, <1>3 DEF StartNext, QueueTypeOK, TypeOK
  <1>4. CASE op # NoOp
    <2>1. worker' = [worker EXCEPT !.pc = "started", !.op = op]
      BY <1>4 DEF StartNext
    <2>2. worker' \in Runnables
      BY <2>1 DEF TypeOK, Runnables, WorkerPcs
    <2>3. holder' \in Holders
      BY <1>2, <1>4, HolderTypes DEF StartNext
    <2>. QED BY <1>1, <1>4, <2>2, <2>3 DEF StartNext, QueueTypeOK
  <1>. QED BY <1>3, <1>4

LEMMA EnqueueType ==
    ASSUME TypeOK, NEW op \in Ops, NEW h \in Holders, NEW flag \in BOOLEAN,
           Enqueue(op, h, flag)
    PROVE  QueueTypeOK'
  <1>1. CASE executing = NoOp
    BY <1>1, StartNextType DEF Enqueue
  <1>2. CASE executing # NoOp
    BY <1>2 DEF Enqueue, QueueTypeOK, TypeOK
  <1>. QED BY <1>1, <1>2

LEMMA InitTypeOK == Init => TypeOK
  <1>. SUFFICES ASSUME Init PROVE TypeOK
    OBVIOUS
  <1>1. disk \in [0..MaxChanges -> Data]
    <2>1. PICK n \in 0..MaxBlocks :
             disk = [i \in 0..MaxChanges |-> [k \in 1..(IF i = 0 THEN n ELSE 0) |-> 0]]
      BY DEF Init
    <2>2. \A m \in Nat : [k \in 1..m |-> 0] \in Data
      BY SeqDef, LogDataAssumption DEF Data
    <2>3. \A i \in 0..MaxChanges : (IF i = 0 THEN n ELSE 0) \in Nat
      BY LogDataAssumption
    <2>. QED BY <2>1, <2>2, <2>3
  <1>2. NoOp \in Ops
    BY DEF NoOp, Ops, Op, OpKinds
  <1>3. holder \in Holders
    BY DEF Init, Holders, Unopened
  <1>4. codec \in Codecs /\ encodingMib \in Codecs \cup {None}
    BY LogDataAssumption DEF Init
  <1>5. index \in Indexes
    BY EmptySeq DEF Init, ClearedIndex, Indexes, Data
  <1>6. worker \in Runnables
    BY <1>2, LogDataAssumption DEF Init, IdleWorker, Runnables, WorkerPcs
  <1>7. inode \in 0..MaxChanges /\ version \in 0..MaxChanges /\ calls \in 0..MaxCalls
    BY LogDataAssumption DEF Init
  <1>8. notified \in BOOLEAN /\ told \in BOOLEAN /\ attached \in BOOLEAN
        /\ interrupt \in BOOLEAN
    BY DEF Init
  <1>. QED
    BY <1>1, <1>2, <1>3, <1>4, <1>5, <1>6, <1>7, <1>8
       DEF Init, TypeOK, MonitoredFileStatus

\* What the outside world, the watcher and the user do to the types.
LEMMA OutsideTypeOK ==
    ASSUME TypeOK, Change \/ Notify \/ Destruction
    PROVE  TypeOK'
  <1>1. CASE Change
    <2>1. version' \in 0..MaxChanges
      BY <1>1, LogDataAssumption DEF Change, TypeOK
    <2>2. File \in Data /\ Len(File) \in Nat
      BY LenProperties DEF File, TypeOK, Data
    <2>3. ASSUME NEW content \in Data, Write(content)
          PROVE  disk' \in [0..MaxChanges -> Data] /\ inode' \in 0..MaxChanges
      BY <2>3 DEF Write, TypeOK
    <2>4. disk' \in [0..MaxChanges -> Data] /\ inode' \in 0..MaxChanges
      <3>1. CASE Write(Append(File, version'))
        BY <2>1, <2>2, <2>3, <3>1, AppendProperties DEF Data
      <3>2. ASSUME NEW i \in DOMAIN File, Write([File EXCEPT ![i] = version'])
            PROVE  disk' \in [0..MaxChanges -> Data] /\ inode' \in 0..MaxChanges
        BY <2>1, <2>2, <2>3, <3>2, ExceptSeq, LenProperties DEF Data
      <3>3. ASSUME NEW n \in 0..(Len(File) - 1), Write(SubSeq(File, 1, n))
            PROVE  disk' \in [0..MaxChanges -> Data] /\ inode' \in 0..MaxChanges
        <4>0. \A k \in 1..Len(File) : File[k] \in 0..MaxChanges
          BY <2>2, ElementOfSeq DEF Data
        <4>1. \A k \in 1..n : File[k] \in 0..MaxChanges
          BY <2>2, <4>0
        <4>2. SubSeq(File, 1, n) \in Data
          BY <2>2, <4>1, SubSeqProperties DEF Data
        <4>. QED BY <2>3, <3>3, <4>2
      <3>4. ASSUME inode' = version', NEW n \in 0..MaxBlocks,
                   disk' = [disk EXCEPT ![version'] = [k \in 1..n |-> version']]
            PROVE  disk' \in [0..MaxChanges -> Data] /\ inode' \in 0..MaxChanges
        <4>1. [k \in 1..n |-> version'] \in Data
          BY <2>1, SeqDef, LogDataAssumption DEF Data
        <4>. QED BY <2>1, <3>4, <4>1 DEF TypeOK
      <3>5. CASE UNCHANGED <<disk, inode>>
        BY <3>5 DEF TypeOK
      <3>. QED BY <1>1, <3>1, <3>2, <3>3, <3>4, <3>5 DEF Change
    <2>. QED BY <1>1, <2>1, <2>4 DEF Change, TypeOK
  <1>2. CASE Notify
    BY <1>2 DEF Notify, TypeOK
  <1>3. CASE CloseLocks
    BY <1>3 DEF CloseLocks, TypeOK, worldVars, watchVars
  <1>4. CASE CloseDone
    BY <1>4 DEF CloseDone, TypeOK, worldVars
  <1>. QED BY <1>1, <1>2, <1>3, <1>4 DEF Destruction

\* The main thread's calls and handlers.
LEMMA MainTypeOK ==
    ASSUME TypeOK, UserAction \/ Handler
    PROVE  TypeOK'
  <1>. USE DEF worldVars, watchVars
  <1>1. /\ \A kind \in OpKinds, forced \in Codecs \cup {None} : Op(kind, forced) \in Ops
        /\ DefaultEncoding \in Codecs \cup {None}
    BY LogDataAssumption DEF Ops, Op
  <1>2. inode \in Nat /\ holder \in Holders
    BY LogDataAssumption DEF TypeOK
  <1>3. ReOpenFile(holder, inode) \in Holders /\ OpenHolder(holder, inode) \in Holders
        /\ DetachReader(holder) \in Holders
        /\ ReOpenFile(DetachReader(holder), inode) \in Holders
    BY <1>2, HolderTypes
  <1>4. CASE AttachFile
    <2>1. QueueTypeOK'
      BY <1>1, <1>3, <1>4, EnqueueType DEF AttachFile, OpKinds, TypeOK
    <2>. QED BY <1>4, <2>1 DEF AttachFile, TypeOK, QueueTypeOK
  <1>5. ASSUME UserCall
        PROVE  calls' \in 0..MaxCalls
    BY <1>5, LogDataAssumption DEF UserCall, TypeOK
  <1>6. CASE InterruptLoading
    <2>1. calls' \in 0..MaxCalls
      BY <1>5, <1>6 DEF InterruptLoading
    <2>. QED BY <1>6, <2>1 DEF InterruptLoading, TypeOK
  <1>7. CASE Reload
    <2>1. calls' \in 0..MaxCalls
      BY <1>5, <1>7 DEF Reload
    <2>2. QueueTypeOK'
      BY <1>1, <1>3, <1>7, EnqueueType DEF Reload, OpKinds
    <2>. QED BY <1>7, <2>1, <2>2 DEF Reload, TypeOK, QueueTypeOK
  <1>8. CASE SetEncoding
    <2>1. calls' \in 0..MaxCalls
      BY <1>5, <1>8 DEF SetEncoding
    <2>2. PICK mib \in Codecs \cup {None} :
             LET c == WantedCodec(mib)
             IN  /\ encodingMib' = mib
                 /\ codec' = c
                 /\ \/ /\ ~NeedReload(c)
                       /\ interrupt' = TRUE
                       /\ UNCHANGED <<executing, pending, holder, worker, life>>
                    \/ /\ NeedReload(c) /\ index.guess # None
                       /\ Enqueue(ReloadFor(c), ReOpenFile(holder, inode), TRUE)
                       /\ UNCHANGED life
                    \/ /\ NeedReload(c) /\ index.guess = None
                       /\ life' = "crashed"
                       /\ interrupt' = TRUE
                       /\ UNCHANGED <<executing, pending, holder, worker>>
      BY <1>8 DEF SetEncoding
    <2>3. codec' \in Codecs /\ encodingMib' \in Codecs \cup {None}
      BY <2>2, CodecTypes
    <2>4. QueueTypeOK'
      <3>1. CASE Enqueue(ReloadFor(WantedCodec(mib)), ReOpenFile(holder, inode), TRUE)
        BY <1>3, <3>1, CodecTypes, EnqueueType
      <3>2. CASE interrupt' = TRUE /\ UNCHANGED <<executing, pending, holder, worker>>
        BY <3>2 DEF TypeOK, QueueTypeOK
      <3>. QED BY <2>2, <3>1, <3>2
    <2>5. life' \in {"open", "locking", "waiting", "gone", "crashed"}
      BY <2>2 DEF TypeOK
    <2>. QED BY <1>8, <2>1, <2>3, <2>4, <2>5 DEF SetEncoding, TypeOK, QueueTypeOK
  <1>9. CASE Close
    BY <1>9 DEF Close, TypeOK
  <1>10. CASE FileChangedOnDisk
    <2>1. QueueTypeOK'
      <3>1. PICK h \in Holders : Enqueue(Op("Check", None), h, interrupt)
        BY <1>2, <1>3, <1>10 DEF FileChangedOnDisk
      <3>. QED BY <1>1, <3>1, EnqueueType DEF OpKinds, TypeOK
    <2>. QED BY <1>10, <2>1 DEF FileChangedOnDisk, TypeOK, QueueTypeOK
  <1>11. CASE IndexingFinished
    <2>1. encodingMib \in Codecs \cup {None} /\ codec' = WantedCodec(encodingMib)
      BY <1>11 DEF IndexingFinished, TypeOK
    <2>2. QueueTypeOK'
      <3>1. CASE StartNext(pending, DetachReader(holder), TRUE)
        BY <1>3, <3>1, StartNextType DEF TypeOK
      <3>2. CASE StartNext(ReloadFor(WantedCodec(encodingMib)),
                           ReOpenFile(DetachReader(holder), inode), TRUE)
        BY <1>3, <2>1, <3>2, CodecTypes, StartNextType
      <3>. QED BY <1>11, <3>1, <3>2 DEF IndexingFinished
    <2>3. codec' \in Codecs
      BY <2>1, CodecTypes
    <2>. QED
      BY <1>11, <2>2, <2>3
         DEF IndexingFinished, TypeOK, QueueTypeOK, MonitoredFileStatus
  <1>12. CASE CheckFileChangesFinished
    <2>1. StatusAfter(signal) \in MonitoredFileStatus
      BY <1>12 DEF CheckFileChangesFinished, StatusAfter, MonitoredFileStatus
    <2>2. OperationFor(StatusAfter(signal)) \in Ops
      BY <1>1, <2>1 DEF OperationFor, MonitoredFileStatus, OpKinds, TypeOK
    <2>3. QueueTypeOK'
      BY <1>3, <1>12, <2>2, StartNextType DEF CheckFileChangesFinished, TypeOK
    <2>. QED BY <1>12, <2>1, <2>3 DEF CheckFileChangesFinished, TypeOK, QueueTypeOK
  <1>. QED
    BY <1>4, <1>6, <1>7, <1>8, <1>9, <1>10, <1>11, <1>12 DEF UserAction, Handler

\* The worker changes the index, the posted signal and its own state, only.
WorkerTypeOK ==
    /\ index \in Indexes
    /\ signal \in LoadingStatus \cup MonitoredFileStatus \cup {None}
    /\ worker \in Runnables

LEMMA WorkerTypes ==
    ASSUME TypeOK, WorkerStep
    PROVE  TypeOK'
  <1>1. /\ worker.pos \in Nat /\ worker.handle \in 0..MaxChanges
        /\ inode \in 0..MaxChanges /\ inode \in Nat /\ version \in 0..MaxChanges
    BY LogDataAssumption DEF TypeOK, Runnables
  <1>2. /\ disk[worker.handle] \in Data
        /\ Len(disk[worker.handle]) \in Nat
        /\ index.blocks \in Data /\ Len(index.blocks) \in Nat
    BY <1>1, LenProperties DEF TypeOK, Data, Indexes
  <1>3. Len(File) \in Nat
    BY LenProperties DEF TypeOK, Data, File
  <1>4. ClearedIndex \in Indexes
    BY EmptySeq DEF ClearedIndex, Indexes, Data
  <1>5. WorkerTypeOK' /\ UNCHANGED workerOnly
    <2>1. CASE RunFullIndex
      <3>1. index' \in Indexes
        BY <1>4, <2>1 DEF RunFullIndex, Indexes, TypeOK, Runnables, Ops
      <3>2. worker' \in Runnables
        BY <1>1, <2>1 DEF RunFullIndex, TypeOK, Runnables, WorkerPcs
      <3>. QED BY <2>1, <3>1, <3>2 DEF RunFullIndex, WorkerTypeOK, TypeOK
    <2>2. CASE RunPartialIndex
      <3>1. worker' \in Runnables
        BY <1>1, <1>2, <2>2 DEF RunPartialIndex, TypeOK, Runnables, WorkerPcs
      <3>. QED BY <2>2, <3>1 DEF RunPartialIndex, WorkerTypeOK, TypeOK
    <2>3. CASE ReadBlock
      <3>1. worker' \in Runnables
        BY <1>1, <2>3 DEF ReadBlock, TypeOK, Runnables
      <3>2. disk[worker.handle][worker.pos + 1] \in 0..MaxChanges
        <4>1. worker.pos + 1 \in 1..Len(disk[worker.handle])
          BY <1>1, <1>2, <2>3 DEF ReadBlock
        <4>. QED BY <1>2, <4>1, ElementOfSeq DEF Data
      <3>3. Append(index.blocks, disk[worker.handle][worker.pos + 1]) \in Data
        BY <1>2, <3>2, AppendProperties DEF Data
      <3>4. index' \in Indexes
        BY <2>3, <3>3, LogDataAssumption DEF ReadBlock, TypeOK, Indexes
      <3>. QED BY <2>3, <3>1, <3>4 DEF ReadBlock, WorkerTypeOK, TypeOK
    <2>4. CASE FinishIndex
      <3>. DEFINE data == disk[worker.handle]
                  end == worker.pos
                  header == BlocksAt(data, 0, 1)
                  sealed == IF end <= 1
                            THEN [index EXCEPT !.header = header, !.tail = header,
                                               !.tailPos = 0]
                            ELSE [index EXCEPT !.header = header, !.tailPos = end - 1,
                                               !.tail = BlocksAt(data, end - 1, 1)]
                  kept == IF interrupt THEN ClearedIndex ELSE sealed
      <3>1. header \in Data
        BY <1>2, BlocksAtType
      <3>2. ASSUME end > 1
            PROVE  end - 1 \in Nat /\ BlocksAt(data, end - 1, 1) \in Data
        <4>1. end - 1 \in Nat
          BY <1>1, <3>2
        <4>. QED BY <1>2, <4>1, BlocksAtType
      <3>. HIDE DEF header
      <3>3. sealed \in Indexes
        <4>1. CASE end <= 1
          BY <3>1, <4>1 DEF TypeOK, Indexes
        <4>2. CASE end > 1
          BY <1>1, <3>1, <3>2, <4>2 DEF TypeOK, Indexes
        <4>. QED BY <1>1, <4>1, <4>2
      <3>. HIDE DEF sealed
      <3>4. kept \in Indexes
        BY <1>4, <3>3
      <3>5. index' = [kept EXCEPT !.guess = IF @ = None THEN Locale ELSE @]
        BY <2>4 DEF FinishIndex, kept, sealed, header
      <3>. HIDE DEF kept
      <3>6. index' \in Indexes
        BY <3>4, <3>5, LogDataAssumption DEF Indexes
      <3>7. worker' \in Runnables
        BY <2>4 DEF FinishIndex, TypeOK, Runnables, WorkerPcs
      <3>. QED BY <2>4, <3>6, <3>7 DEF FinishIndex, WorkerTypeOK, TypeOK
    <2>5. CASE ReportResult
      <3>1. worker' \in Runnables
        BY <2>5 DEF ReportResult, TypeOK, Runnables, WorkerPcs
      <3>. QED BY <2>5, <3>1 DEF ReportResult, WorkerTypeOK, TypeOK, LoadingStatus
    <2>6. CASE IndexingThrows
      <3>1. worker' \in Runnables
        BY <2>6 DEF IndexingThrows, TypeOK, Runnables, WorkerPcs
      <3>. QED
        BY <1>4, <2>6, <3>1 DEF IndexingThrows, WorkerTypeOK, TypeOK, LoadingStatus
    <2>7. CASE RunCheck
      <3>. DEFINE begun == [worker EXCEPT !.size = Len(File), !.since = version]
      <3>1. begun \in Runnables
        BY <1>1, <1>3 DEF TypeOK, Runnables
      <3>2. worker' = [begun EXCEPT !.pc = "unwinding"]
            \/ worker' = [begun EXCEPT !.pc = "open"]
        BY <2>7 DEF RunCheck
      <3>. HIDE DEF begun
      <3>3. worker' \in Runnables
        BY <3>1, <3>2 DEF Runnables, WorkerPcs
      <3>4. signal' \in {"Truncated", signal}
        BY <2>7 DEF RunCheck
      <3>. QED
        BY <2>7, <3>3, <3>4 DEF RunCheck, WorkerTypeOK, TypeOK, MonitoredFileStatus
    <2>8. CASE OpenForCheck
      <3>1. PICK mode \in {"full", "fast"}, b \in BOOLEAN :
               worker' = [worker EXCEPT !.pc = "check", !.handle = inode, !.pos = 0,
                                        !.mode = mode, !.same = b]
        BY <2>8, LogDataAssumption DEF OpenForCheck
      <3>2. worker' \in Runnables
        BY <1>1, <3>1 DEF TypeOK, Runnables, WorkerPcs
      <3>. QED BY <2>8, <3>2 DEF OpenForCheck, WorkerTypeOK, TypeOK
    <2>9. CASE CheckBlock
      <3>1. PICK b \in BOOLEAN : worker' = [worker EXCEPT !.pos = @ + 1, !.same = b]
        BY <2>9 DEF CheckBlock
      <3>2. PICK p \in Nat : p = worker.pos + 1
        BY <1>1
      <3>3. worker' = [worker EXCEPT !.pos = p, !.same = b]
        BY <3>1, <3>2
      <3>4. worker' \in Runnables
        BY <3>3 DEF TypeOK, Runnables
      <3>. QED BY <2>9, <3>4 DEF CheckBlock, WorkerTypeOK, TypeOK
    <2>10. CASE ReportCheck
      <3>1. worker' \in Runnables
        BY <2>10 DEF ReportCheck, TypeOK, Runnables, WorkerPcs
      <3>. QED
        BY <2>10, <3>1 DEF ReportCheck, WorkerTypeOK, TypeOK, MonitoredFileStatus
    <2>11. CASE RunnableDone
      <3>1. NoOp \in Ops
        BY DEF NoOp, Ops, Op, OpKinds
      <3>2. IdleWorker \in Runnables
        BY <3>1, LogDataAssumption DEF IdleWorker, Runnables, WorkerPcs
      <3>. QED BY <2>11, <3>2 DEF RunnableDone, WorkerTypeOK, TypeOK
    <2>. QED
      BY <2>1, <2>2, <2>3, <2>4, <2>5, <2>6, <2>7, <2>8, <2>9, <2>10, <2>11
         DEF WorkerStep
  <1>. QED
    BY <1>5 DEF WorkerTypeOK, TypeOK, workerOnly, worldVars, watchVars

LEMMA StutterTypeOK == TypeOK /\ UNCHANGED vars => TypeOK'
  BY DEF TypeOK, vars

\* Every variable holds a value of its type in every state.
THEOREM TypeCorrect == Spec => []TypeOK
  <1>1. Init => TypeOK
    BY InitTypeOK
  <1>2. TypeOK /\ [Next]_vars => TypeOK'
    BY OutsideTypeOK, MainTypeOK, WorkerTypes, StutterTypeOK DEF Next
  <1>. QED BY <1>1, <1>2, PTL DEF Spec

-----------------------------------------------------------------------------
(* The operation queue.  OneOperation, StatusMatchesOperation and            *)
(* ReadersBalanced are inductive together with two facts: where the runnable *)
(* is tells what kind of operation it runs, and before attachFile nothing    *)
(* has happened.                                                             *)

RunnableOfKind ==
    /\ worker.pc \in {"index", "result"} => worker.op.kind # "Check"
    /\ worker.pc \in {"open", "check"} => worker.op.kind = "Check"

NothingBeforeAttach ==
    ~attached => /\ executing = NoOp /\ pending = NoOp
                 /\ signal = None /\ ~notified /\ seen = None
                 /\ holder = Unopened /\ ~Working

QueueInv ==
    /\ OneOperation
    /\ StatusMatchesOperation
    /\ ReadersBalanced
    /\ RunnableOfKind
    /\ NothingBeforeAttach

\* NoOp and the operations that are enqueued.
LEMMA OpFacts ==
    /\ NoOp \in Ops /\ NoOp.kind = "None"
    /\ \A kind, forced : Op(kind, forced).kind = kind
    /\ \A op \in Ops : op.kind # "None" => op # NoOp
  BY DEF NoOp, Op, Ops, OpKinds

LEMMA StartNextOneOperation ==
    ASSUME TypeOK, NEW op \in Ops, NEW h, NEW flag, ~Working,
           StartNext(op, h, flag), signal' = None
    PROVE  OneOperation'
  <1>1. CASE op = NoOp
    BY <1>1 DEF StartNext, OneOperation, Working
  <1>2. CASE op # NoOp
    <2>1. worker'.pc = "started" /\ worker'.op = op
      BY <1>2 DEF StartNext, TypeOK, Runnables
    <2>. QED BY <1>2, <2>1 DEF StartNext, OneOperation, Working
  <1>. QED BY <1>1, <1>2

LEMMA EnqueueOneOperation ==
    ASSUME TypeOK, OneOperation, life = "open", NEW op \in Ops, op # NoOp,
           NEW h, NEW flag, Enqueue(op, h, flag), signal' = signal
    PROVE  OneOperation'
  <1>1. CASE executing = NoOp
    BY <1>1, StartNextOneOperation DEF Enqueue, OneOperation
  <1>2. CASE executing # NoOp
    BY <1>2 DEF Enqueue, OneOperation, Working, ResultsOf
  <1>. QED BY <1>1, <1>2

\* A holder with no reader but the permanent one.
Rested(h) == h.readers = PermanentReaders /\ (h.open <=> h.readers > 0)

LEMMA StartNextReaders ==
    ASSUME TypeOK, NEW op \in Ops, NEW h \in Holders, NEW flag,
           \/ Rested(h)
           \/ op # NoOp /\ h.readers = PermanentReaders /\ h.open,
           StartNext(op, h, flag)
    PROVE  ReadersBalanced'
  <1>1. CASE op = NoOp
    BY <1>1 DEF StartNext, ReadersBalanced, Rested, PermanentReaders, Holders
  <1>2. CASE op # NoOp
    <2>1. inode \in Nat /\ holder' = AttachReader(h, inode) /\ executing' = op
      BY <1>2, LogDataAssumption DEF StartNext, TypeOK
    <2>2. h.open \/ (KeepFileClosed /\ h.readers = 0)
      BY DEF Rested, PermanentReaders
    <2>3. holder'.readers = PermanentReaders + 1 /\ holder'.open
      BY <2>1, <2>2, ReaderFacts DEF Rested
    <2>4. holder'.readers > 0
      BY <2>3 DEF PermanentReaders
    <2>. QED BY <1>2, <2>1, <2>3, <2>4 DEF ReadersBalanced
  <1>. QED BY <1>1, <1>2

\* An operation enqueued while the log is attached; h is the holder, or the
\* holder reopened.
LEMMA EnqueueReaders ==
    ASSUME TypeOK, ReadersBalanced, life = "open", attached,
           NEW op \in Ops, op # NoOp, NEW flag, NEW h \in Holders,
           h = holder \/ (h.readers = holder.readers /\ h.open),
           Enqueue(op, h, flag)
    PROVE  ReadersBalanced'
  <1>1. CASE executing = NoOp
    <2>1. Rested(h) \/ (h.readers = PermanentReaders /\ h.open)
      BY <1>1 DEF ReadersBalanced, Rested, PermanentReaders
    <2>. QED BY <1>1, <2>1, StartNextReaders DEF Enqueue
  <1>2. CASE executing # NoOp
    <2>1. holder' = h /\ executing' = executing
      BY <1>2 DEF Enqueue
    <2>2. holder.readers = PermanentReaders + 1 /\ holder.open
      BY <1>2 DEF ReadersBalanced, PermanentReaders
    <2>3. holder.readers > 0
      BY <2>2 DEF PermanentReaders
    <2>. QED BY <1>2, <2>1, <2>2, <2>3 DEF ReadersBalanced
  <1>. QED BY <1>1, <1>2

\* An operation other than a partial index is enqueued.
LEMMA EnqueueStatus ==
    ASSUME TypeOK, OneOperation, StatusMatchesOperation, life = "open",
           NEW op \in Ops, op.kind # "Partial", NEW h, NEW flag,
           Enqueue(op, h, flag), fileStatus' = fileStatus
    PROVE  StatusMatchesOperation'
  <1>1. CASE executing = NoOp
    BY <1>1, OpFacts DEF Enqueue, StartNext, StatusMatchesOperation
  <1>2. CASE executing # NoOp
    BY <1>2 DEF Enqueue, StatusMatchesOperation
  <1>. QED BY <1>1, <1>2

LEMMA EnqueueRunnable ==
    ASSUME TypeOK, RunnableOfKind, NEW op \in Ops, NEW h, NEW flag,
           Enqueue(op, h, flag) \/ StartNext(op, h, flag)
    PROVE  RunnableOfKind'
  <1>1. worker' = worker \/ worker' = [worker EXCEPT !.pc = "started", !.op = op]
    BY DEF Enqueue, StartNext
  <1>2. worker' = worker \/ worker'.pc = "started"
    BY <1>1 DEF TypeOK, Runnables
  <1>. QED BY <1>2 DEF RunnableOfKind

LEMMA InitQueueInv == Init => QueueInv
  <1>. SUFFICES ASSUME Init PROVE QueueInv
    OBVIOUS
  <1>1. ~Working
    BY DEF Init, Working, IdleWorker
  <1>2. OneOperation
    BY <1>1 DEF Init, OneOperation
  <1>3. StatusMatchesOperation
    BY OpFacts DEF Init, StatusMatchesOperation
  <1>4. ReadersBalanced
    BY DEF Init, ReadersBalanced
  <1>5. RunnableOfKind
    BY DEF Init, RunnableOfKind, IdleWorker
  <1>6. NothingBeforeAttach
    BY <1>1 DEF Init, NothingBeforeAttach
  <1>. QED BY <1>2, <1>3, <1>4, <1>5, <1>6 DEF QueueInv

\* The parts of the invariant on which an enqueued operation bears.
LEMMA EnqueueInv ==
    ASSUME TypeOK, QueueInv, life = "open", attached, attached',
           NEW op \in Ops, op.kind \notin {"None", "Partial"}, NEW flag,
           NEW h \in Holders, h = holder \/ (h.readers = holder.readers /\ h.open),
           Enqueue(op, h, flag), signal' = signal, fileStatus' = fileStatus
    PROVE  QueueInv'
  <1>1. op # NoOp
    BY OpFacts
  <1>2. OneOperation'
    BY <1>1, EnqueueOneOperation DEF QueueInv
  <1>3. StatusMatchesOperation'
    BY EnqueueStatus DEF QueueInv
  <1>4. ReadersBalanced'
    BY <1>1, EnqueueReaders DEF QueueInv
  <1>5. RunnableOfKind'
    BY EnqueueRunnable DEF QueueInv
  <1>. QED BY <1>2, <1>3, <1>4, <1>5 DEF QueueInv, NothingBeforeAttach

\* A step that leaves the queue and the worker alone.
LEMMA ElsewhereInv ==
    ASSUME QueueInv, life' = "open" => life = "open",
           UNCHANGED <<attached, executing, pending, fileStatus, signal, worker, holder>>,
           ~attached => ~notified' /\ seen' = None
    PROVE  QueueInv'
  <1>1. Working' <=> Working
    BY DEF Working
  <1>2. OneOperation'
    BY <1>1 DEF QueueInv, OneOperation, ResultsOf
  <1>3. StatusMatchesOperation'
    BY DEF QueueInv, StatusMatchesOperation
  <1>4. ReadersBalanced'
    BY DEF QueueInv, ReadersBalanced
  <1>5. RunnableOfKind'
    BY DEF QueueInv, RunnableOfKind
  <1>6. NothingBeforeAttach'
    BY <1>1 DEF QueueInv, NothingBeforeAttach
  <1>. QED BY <1>2, <1>3, <1>4, <1>5, <1>6 DEF QueueInv

\* The worker's steps: those that post a result, and the others.
LEMMA WorkerInv ==
    ASSUME TypeOK, QueueInv, WorkerStep
    PROVE  QueueInv'
  <1>. USE DEF workerOnly, watchVars
  <1>1. /\ UNCHANGED <<life, attached, executing, pending, fileStatus, holder>>
        /\ UNCHANGED <<seen, notified>>
    BY DEF WorkerStep, RunFullIndex, RunPartialIndex, ReadBlock, FinishIndex,
           ReportResult, IndexingThrows, RunCheck, OpenForCheck, CheckBlock,
           ReportCheck, RunnableDone
  <1>2. \/ /\ Working /\ Working' /\ signal' = signal
           /\ worker'.op = worker.op
           /\ RunnableOfKind'
        \/ /\ Working /\ ~Working' /\ worker'.pc = "unwinding"
           /\ \/ worker.op.kind # "Check" /\ signal' \in LoadingStatus
              \/ worker.op.kind = "Check" /\ signal' \in MonitoredFileStatus
        \/ ~Working /\ ~Working' /\ signal' = signal /\ worker'.pc = "idle"
    <2>1. CASE RunFullIndex
      <3>1. worker'.pc = "index" /\ worker'.op = worker.op
        BY <2>1 DEF RunFullIndex, TypeOK, Runnables
      <3>. QED
        BY <2>1, <3>1 DEF RunFullIndex, TakesMutex, Working, RunnableOfKind
    <2>2. CASE RunPartialIndex
      <3>1. worker'.pc = "index" /\ worker'.op = worker.op
        BY <2>2 DEF RunPartialIndex, TypeOK, Runnables
      <3>. QED
        BY <2>2, <3>1 DEF RunPartialIndex, TakesMutex, Working, RunnableOfKind
    <2>3. CASE ReadBlock
      <3>1. worker'.pc = worker.pc /\ worker'.op = worker.op
        BY <2>3 DEF ReadBlock, TypeOK, Runnables
      <3>. QED BY <2>3, <3>1 DEF ReadBlock, Working, QueueInv, RunnableOfKind
    <2>4. CASE FinishIndex
      <3>1. worker'.pc = "result" /\ worker'.op = worker.op
        BY <2>4 DEF FinishIndex, TypeOK, Runnables
      <3>. QED BY <2>4, <3>1 DEF FinishIndex, Working, QueueInv, RunnableOfKind
    <2>5. CASE ReportResult
      <3>1. worker'.pc = "unwinding"
        BY <2>5 DEF ReportResult, TypeOK, Runnables
      <3>. QED
        BY <2>5, <3>1 DEF ReportResult, Working, QueueInv, RunnableOfKind, LoadingStatus
    <2>6. CASE IndexingThrows
      <3>1. worker'.pc = "unwinding"
        BY <2>6 DEF IndexingThrows, TypeOK, Runnables
      <3>. QED
        BY <2>6, <3>1 DEF IndexingThrows, Working, QueueInv, RunnableOfKind, LoadingStatus
    <2>7. CASE RunCheck
      <3>. DEFINE begun == [worker EXCEPT !.size = Len(File), !.since = version]
      <3>1. begun.op = worker.op
        BY DEF TypeOK, Runnables
      <3>2. \/ worker' = [begun EXCEPT !.pc = "unwinding"] /\ signal' = "Truncated"
            \/ worker' = [begun EXCEPT !.pc = "open"] /\ signal' = signal
        BY <2>7 DEF RunCheck
      <3>3. \A pc : [begun EXCEPT !.pc = pc].pc = pc /\ [begun EXCEPT !.pc = pc].op = begun.op
        BY DEF TypeOK, Runnables
      <3>. HIDE DEF begun
      <3>4. \/ worker'.pc = "unwinding" /\ signal' = "Truncated"
            \/ worker'.pc = "open" /\ worker'.op = worker.op /\ signal' = signal
        BY <3>1, <3>2, <3>3
      <3>. QED
        BY <2>7, <3>4
           DEF RunCheck, TakesMutex, Working, RunnableOfKind, MonitoredFileStatus
    <2>8. CASE OpenForCheck
      <3>1. PICK mode, b :
               worker' = [worker EXCEPT !.pc = "check", !.handle = inode, !.pos = 0,
                                        !.mode = mode, !.same = b]
        BY <2>8 DEF OpenForCheck
      <3>2. worker'.pc = "check" /\ worker'.op = worker.op
        BY <3>1 DEF TypeOK, Runnables
      <3>. QED BY <2>8, <3>2 DEF OpenForCheck, Working, QueueInv, RunnableOfKind
    <2>9. CASE CheckBlock
      <3>1. PICK p, b : worker' = [worker EXCEPT !.pos = p, !.same = b]
        BY <2>9 DEF CheckBlock
      <3>2. worker'.pc = worker.pc /\ worker'.op = worker.op
        BY <3>1 DEF TypeOK, Runnables
      <3>. QED BY <2>9, <3>2 DEF CheckBlock, Working, QueueInv, RunnableOfKind
    <2>10. CASE ReportCheck
      <3>1. worker'.pc = "unwinding"
        BY <2>10 DEF ReportCheck, TypeOK, Runnables
      <3>. QED
        BY <2>10, <3>1
           DEF ReportCheck, Working, QueueInv, RunnableOfKind, MonitoredFileStatus
    <2>11. CASE RunnableDone
      BY <2>11 DEF RunnableDone, IdleWorker, Working
    <2>. QED
      BY <2>1, <2>2, <2>3, <2>4, <2>5, <2>6, <2>7, <2>8, <2>9, <2>10, <2>11
         DEF WorkerStep
  <1>3. OneOperation'
    BY <1>1, <1>2, LogDataAssumption DEF QueueInv, OneOperation, ResultsOf
  <1>4. StatusMatchesOperation' /\ ReadersBalanced'
    BY <1>1 DEF QueueInv, StatusMatchesOperation, ReadersBalanced
  <1>5. RunnableOfKind'
    BY <1>2 DEF RunnableOfKind
  <1>6. NothingBeforeAttach'
    BY <1>1, <1>2 DEF QueueInv, NothingBeforeAttach
  <1>. QED BY <1>3, <1>4, <1>5, <1>6 DEF QueueInv

\* The handlers of the two results.  The result is of the executing operation,
\* whose runnable has therefore posted it and works no longer.
LEMMA HandlerInv ==
    ASSUME TypeOK, QueueInv, IndexingFinished \/ CheckFileChangesFinished
    PROVE  QueueInv'
  <1>1. /\ life = "open" /\ life' = life /\ signal # None /\ signal' = None
        /\ attached' = attached
    BY LogDataAssumption DEF IndexingFinished, CheckFileChangesFinished
  <1>2. executing # NoOp /\ ~Working /\ attached /\ signal \in ResultsOf(executing)
    BY <1>1 DEF QueueInv, OneOperation, NothingBeforeAttach
  <1>3. inode \in Nat /\ holder \in Holders /\ DetachReader(holder) \in Holders
        /\ ReOpenFile(DetachReader(holder), inode) \in Holders
    <2>1. inode \in Nat /\ holder \in Holders
      BY LogDataAssumption DEF TypeOK
    <2>2. DetachReader(holder) \in Holders
      BY <2>1, HolderTypes
    <2>. QED BY <2>1, <2>2, HolderTypes
  <1>4. Rested(DetachReader(holder))
    <2>1. holder.readers = PermanentReaders + 1 /\ holder.open
      BY <1>1, <1>2 DEF QueueInv, ReadersBalanced, PermanentReaders
    <2>2. CASE KeepFileClosed
      <3>1. holder.readers = 1
        BY <2>1, <2>2 DEF PermanentReaders
      <3>2. DetachReader(holder).readers = 0 /\ ~DetachReader(holder).open
        BY <1>3, <2>2, <3>1, ReaderFacts
      <3>. QED BY <2>2, <3>2 DEF Rested, PermanentReaders
    <2>3. CASE ~KeepFileClosed
      <3>1. holder.readers = 2
        BY <2>1, <2>3 DEF PermanentReaders
      <3>2. DetachReader(holder).readers = 1 /\ DetachReader(holder).open
        BY <1>3, <2>1, <2>3, <3>1, ReaderFacts
      <3>. QED BY <2>3, <3>2 DEF Rested, PermanentReaders
    <2>. QED BY <2>2, <2>3
  <1>5. ASSUME NEW op \in Ops, NEW h \in Holders, NEW flag, StartNext(op, h, flag),
               \/ h = DetachReader(holder)
               \/ op # NoOp /\ h = ReOpenFile(DetachReader(holder), inode)
        PROVE  OneOperation' /\ ReadersBalanced' /\ RunnableOfKind' /\ NothingBeforeAttach'
    <2>1. OneOperation'
      BY <1>1, <1>2, <1>5, StartNextOneOperation
    <2>2. \/ Rested(h)
          \/ op # NoOp /\ h.readers = PermanentReaders /\ h.open
      BY <1>3, <1>4, <1>5, ReaderFacts DEF Rested
    <2>3. ReadersBalanced'
      BY <1>5, <2>2, StartNextReaders
    <2>4. RunnableOfKind'
      BY <1>5, EnqueueRunnable DEF QueueInv
    <2>. QED BY <1>1, <1>2, <2>1, <2>3, <2>4 DEF NothingBeforeAttach
  <1>6. CASE IndexingFinished
    <2>1. encodingMib \in Codecs \cup {None} /\ pending \in Ops
      BY DEF TypeOK
    <2>2. \/ StartNext(pending, DetachReader(holder), TRUE)
          \/ StartNext(ReloadFor(WantedCodec(encodingMib)),
                       ReOpenFile(DetachReader(holder), inode), TRUE)
      BY <1>6 DEF IndexingFinished
    <2>3. /\ ReloadFor(WantedCodec(encodingMib)) \in Ops
          /\ ReloadFor(WantedCodec(encodingMib)).kind = "Full"
      BY <2>1, CodecTypes
    <2>4. fileStatus' = "Unchanged" /\ executing'.kind # "Partial" /\ pending' = NoOp
      BY <1>1, <1>6, <2>2, <2>3
         DEF IndexingFinished, StartNext, QueueInv, StatusMatchesOperation
    <2>5. StatusMatchesOperation'
      BY <2>4, OpFacts DEF StatusMatchesOperation
    <2>6. ReloadFor(WantedCodec(encodingMib)) # NoOp
      BY <2>3, OpFacts
    <2>. QED BY <1>3, <1>5, <2>1, <2>2, <2>3, <2>5, <2>6 DEF QueueInv
  <1>7. CASE CheckFileChangesFinished
    <2>1. executing.kind = "Check"
      BY <1>2, <1>7, LogDataAssumption
         DEF CheckFileChangesFinished, ResultsOf, LoadingStatus, MonitoredFileStatus
    <2>2. fileStatus = "Unchanged"
      BY <1>1, <2>1
         DEF QueueInv, StatusMatchesOperation, TypeOK, MonitoredFileStatus
    <2>3. StatusAfter(signal) = signal /\ signal \in MonitoredFileStatus
      BY <1>7, <2>2 DEF StatusAfter, CheckFileChangesFinished
    <2>4. StartNext(OperationFor(signal), DetachReader(holder), interrupt)
      BY <1>7, <2>3 DEF CheckFileChangesFinished
    <2>5. OperationFor(signal) \in Ops
      BY <2>3, LogDataAssumption
         DEF OperationFor, MonitoredFileStatus, TypeOK, Op, Ops, OpKinds
    <2>6. fileStatus' = signal /\ executing' = OperationFor(signal) /\ pending' = NoOp
      BY <1>7, <2>3, <2>4 DEF CheckFileChangesFinished, StartNext
    <2>7. StatusMatchesOperation'
      BY <1>1, <2>3, <2>6, OpFacts
         DEF StatusMatchesOperation, OperationFor, MonitoredFileStatus, QueueInv
    <2>. QED BY <1>3, <1>5, <2>4, <2>5, <2>7 DEF QueueInv
  <1>. QED BY <1>6, <1>7

\* The calls of the user and the notification of a change.
LEMMA CallInv ==
    ASSUME TypeOK, QueueInv, UserAction \/ FileChangedOnDisk
    PROVE  QueueInv'
  <1>. USE DEF worldVars, watchVars
  <1>1. /\ \A forced \in Codecs \cup {None} :
              Op("Attach", forced) \in Ops /\ Op("Full", forced) \in Ops
        /\ Op("Check", None) \in Ops
    BY DEF Op, Ops, OpKinds
  <1>2. /\ inode \in Nat /\ holder \in Holders
        /\ ReOpenFile(holder, inode) \in Holders /\ OpenHolder(holder, inode) \in Holders
        /\ ReOpenFile(holder, inode).readers = holder.readers
        /\ ReOpenFile(holder, inode).open
    BY LogDataAssumption, HolderTypes, ReaderFacts DEF TypeOK
  <1>3. CASE AttachFile
    <2>. DEFINE op == Op("Attach", DefaultEncoding)
                h == OpenHolder(holder, inode)
    <2>1. op \in Ops /\ op # NoOp
      BY <1>1, LogDataAssumption, OpFacts
    <2>2. /\ executing = NoOp /\ signal = None /\ ~Working /\ holder = Unopened
          /\ life = "open" /\ attached' /\ signal' = signal
          /\ fileStatus' = fileStatus /\ Enqueue(op, h, interrupt)
      BY <1>3 DEF AttachFile, QueueInv, NothingBeforeAttach
    <2>3. StartNext(op, h, interrupt)
      BY <2>2 DEF Enqueue
    <2>4. Rested(h)
      BY <2>2 DEF Rested, OpenHolder, ReOpenFile, Unopened, PermanentReaders
    <2>5. OneOperation'
      BY <2>1, <2>2, <2>3, StartNextOneOperation
    <2>6. StatusMatchesOperation'
      BY <2>1, <2>2, OpFacts, EnqueueStatus DEF QueueInv
    <2>7. ReadersBalanced'
      BY <1>2, <2>1, <2>3, <2>4, StartNextReaders
    <2>8. RunnableOfKind'
      BY <2>1, <2>3, EnqueueRunnable DEF QueueInv
    <2>. QED BY <2>2, <2>5, <2>6, <2>7, <2>8 DEF QueueInv, NothingBeforeAttach
  <1>4. CASE InterruptLoading
    BY <1>4, ElsewhereInv DEF InterruptLoading, QueueInv, NothingBeforeAttach
  <1>5. CASE Reload
    <2>1. Op("Full", None) \in Ops /\ Op("Full", None).kind = "Full"
      BY <1>1, OpFacts
    <2>2. /\ life = "open" /\ attached /\ attached'
          /\ UNCHANGED <<signal, fileStatus>>
          /\ Enqueue(Op("Full", None), ReOpenFile(holder, inode), TRUE)
      BY <1>5 DEF Reload, UserCall
    <2>. QED BY <1>2, <2>1, <2>2, EnqueueInv
  <1>6. CASE SetEncoding
    <2>1. PICK mib \in Codecs \cup {None} :
             \/ UNCHANGED <<executing, pending, holder, worker, life>>
             \/ /\ life' = "crashed"
                /\ UNCHANGED <<executing, pending, holder, worker>>
             \/ Enqueue(ReloadFor(WantedCodec(mib)), ReOpenFile(holder, inode), TRUE)
      BY <1>6 DEF SetEncoding
    <2>2. CASE Enqueue(ReloadFor(WantedCodec(mib)), ReOpenFile(holder, inode), TRUE)
      <3>1. /\ ReloadFor(WantedCodec(mib)) \in Ops
            /\ ReloadFor(WantedCodec(mib)).kind = "Full"
        BY CodecTypes
      <3>. QED BY <1>2, <1>6, <2>2, <3>1, EnqueueInv DEF SetEncoding, UserCall
    <2>3. CASE UNCHANGED <<executing, pending, holder, worker>>
               /\ (life' = life \/ life' = "crashed")
      BY <1>6, <2>3, ElsewhereInv DEF SetEncoding, UserCall, QueueInv, NothingBeforeAttach
    <2>. QED BY <2>1, <2>2, <2>3
  <1>7. CASE Close
    BY <1>7, ElsewhereInv DEF Close, QueueInv, NothingBeforeAttach
  <1>8. CASE FileChangedOnDisk
    <2>1. PICK h \in {holder, ReOpenFile(holder, inode)} :
             Enqueue(Op("Check", None), h, interrupt)
      BY <1>8 DEF FileChangedOnDisk
    <2>2. attached /\ attached' /\ life = "open" /\ UNCHANGED <<signal, fileStatus>>
      BY <1>8 DEF FileChangedOnDisk, QueueInv, NothingBeforeAttach, TypeOK
    <2>. QED BY <1>1, <1>2, <2>1, <2>2, OpFacts, EnqueueInv
  <1>. QED BY <1>3, <1>4, <1>5, <1>6, <1>7, <1>8 DEF UserAction

\* QueueInv is inductive, relative to the types.
LEMMA QueueInvNext == TypeOK /\ QueueInv /\ [Next]_vars => QueueInv'
  <1>. SUFFICES ASSUME TypeOK, QueueInv, [Next]_vars PROVE QueueInv'
    OBVIOUS
  <1>. USE DEF worldVars, watchVars
  <1>1. CASE Change
    BY <1>1, ElsewhereInv DEF Change, QueueInv, NothingBeforeAttach
  <1>2. CASE Notify
    BY <1>2, ElsewhereInv DEF Notify, QueueInv, NothingBeforeAttach
  <1>3. CASE UserAction \/ Handler
    BY <1>3, CallInv, HandlerInv DEF Handler
  <1>4. CASE CloseLocks
    BY <1>4, ElsewhereInv DEF CloseLocks, QueueInv, NothingBeforeAttach
  <1>5. CASE CloseDone
    BY <1>5, ElsewhereInv DEF CloseDone, QueueInv, NothingBeforeAttach
  <1>6. CASE WorkerStep
    BY <1>6, WorkerInv
  <1>7. CASE UNCHANGED vars
    BY <1>7, ElsewhereInv DEF vars, QueueInv, NothingBeforeAttach
  <1>. QED BY <1>1, <1>2, <1>3, <1>4, <1>5, <1>6, <1>7 DEF Next, Destruction

\* The inductive invariant of the operation queue.
THEOREM QueueCorrect == Spec => []QueueInv
  <1>1. Init => QueueInv
    BY InitQueueInv
  <1>2. TypeOK /\ TypeOK' /\ QueueInv /\ [Next]_vars => QueueInv'
    BY QueueInvNext
  <1>. QED BY <1>1, <1>2, TypeCorrect, PTL DEF Spec

\* One operation at a time: while the log is open, the operation the queue takes
\* for executing is the one whose runnable works or whose result is posted, and a
\* posted result is of that operation's sort.
THEOREM OneOperationAtATime == Spec => []OneOperation
  <1>1. QueueInv => OneOperation
    BY DEF QueueInv
  <1>. QED BY <1>1, QueueCorrect, PTL

\* The readers of the displayed file are attached and detached in pairs, so the
\* file is open while it is indexed or checked, and with keepFileClosed only then.
THEOREM ReadersAlwaysBalanced == Spec => []ReadersBalanced
  <1>1. QueueInv => ReadersBalanced
    BY DEF QueueInv
  <1>. QED BY <1>1, QueueCorrect, PTL

\* A partial index runs exactly while the last verdict is that data was added, and
\* what follows a truncation is a full one.
THEOREM StatusAlwaysMatches == Spec => []StatusMatchesOperation
  <1>1. QueueInv => StatusMatchesOperation
    BY DEF QueueInv
  <1>. QED BY <1>1, QueueCorrect, PTL

-----------------------------------------------------------------------------
(* The verdict of a check.  While the file has not changed since the check   *)
(* began, what the check remembers of it is true: the size it took, the      *)
(* handle it opened, and that the blocks compared so far are the same.  The  *)
(* fast detection compares two blocks only, and its verdict can be wrong.    *)

Compared ==
    /\ worker.since <= version
    /\ worker.pc = "check" => worker.mode \in Detections
    /\ worker.pc \in {"open", "check"} /\ worker.since = version =>
          worker.size = Len(File) /\ worker.size >= Len(index.blocks)
    /\ worker.pc = "check" /\ worker.since = version => worker.handle = inode
    /\ worker.pc = "check" /\ worker.mode = "full" /\ worker.same
       /\ worker.since = version =>
          /\ worker.pos <= Len(index.blocks)
          /\ \A i \in 1..worker.pos : File[i] = index.blocks[i]

VerdictInv == Compared /\ VerdictSound

\* A read of one block, and a read from the beginning.
LEMMA BlocksRead ==
    ASSUME NEW data \in Data
    PROVE  /\ \A pos \in Nat : pos < Len(data) =>
                 BlocksAt(data, pos, 1) = <<data[pos + 1]>>
           /\ \A n \in Nat : n <= Len(data) =>
                 /\ Len(BlocksAt(data, 0, n)) = n
                 /\ \A k \in 1..n : BlocksAt(data, 0, n)[k] = data[k]
  <1>1. Len(data) \in Nat /\ \A k \in 1..Len(data) : data[k] \in 0..MaxChanges
    BY LenProperties, ElementOfSeq DEF Data
  <1>2. ASSUME NEW pos \in Nat, NEW n \in Nat, pos + n <= Len(data)
        PROVE  /\ BlocksAt(data, pos, n) \in Data
               /\ Len(BlocksAt(data, pos, n)) = n
               /\ \A k \in 1..n : BlocksAt(data, pos, n)[k] = data[pos + k]
    <2>1. BlocksAt(data, pos, n) = SubSeq(data, pos + 1, pos + n)
      BY <1>1, <1>2 DEF BlocksAt
    <2>2. \A k \in (pos + 1)..(pos + n) : data[k] \in 0..MaxChanges
      BY <1>1, <1>2
    <2>3. PICK m \in Int, last \in Int : m = pos + 1 /\ last = pos + n
      OBVIOUS
    <2>4. /\ SubSeq(data, m, last) \in Seq(0..MaxChanges)
          /\ Len(SubSeq(data, m, last)) = IF m <= last THEN last - m + 1 ELSE 0
          /\ \A i \in 1..(last - m + 1) : SubSeq(data, m, last)[i] = data[m + i - 1]
      <3>1. \A k \in m..last : data[k] \in 0..MaxChanges
        BY <2>2, <2>3
      <3>. QED BY <3>1, SubSeqProperties
    <2>5. /\ (IF m <= last THEN last - m + 1 ELSE 0) = n
          /\ last - m + 1 = n
          /\ \A i \in 1..n : m + i - 1 = pos + i
      BY <2>3
    <2>. QED BY <2>1, <2>3, <2>4, <2>5 DEF Data
  <1>3. ASSUME NEW pos \in Nat, pos < Len(data)
        PROVE  BlocksAt(data, pos, 1) = <<data[pos + 1]>>
    <2>1. pos + 1 <= Len(data)
      BY <1>1, <1>3
    <2>2. BlocksAt(data, pos, 1) \in Data /\ Len(BlocksAt(data, pos, 1)) = 1
          /\ \A k \in 1..1 : BlocksAt(data, pos, 1)[k] = data[pos + k]
      BY <1>2, <2>1
    <2>. QED BY <2>2 DEF Data
  <1>4. ASSUME NEW n \in Nat, n <= Len(data)
        PROVE  /\ Len(BlocksAt(data, 0, n)) = n
               /\ \A k \in 1..n : BlocksAt(data, 0, n)[k] = data[k]
    BY <1>2, <1>4
  <1>. QED BY <1>3, <1>4

\* Two contents are the same if they agree block by block.
LEMMA SameData ==
    ASSUME NEW s \in Data, NEW t \in Data, Len(s) = Len(t),
           \A i \in 1..Len(s) : s[i] = t[i]
    PROVE  s = t
  BY SeqEqual DEF Data

\* Steps that leave the file, the index and the comparison alone: a runnable
\* may begin, and a posted signal may be taken.
LEMMA VerdictElsewhere ==
    ASSUME TypeOK, VerdictInv,
           UNCHANGED <<disk, inode, version, index>>,
           life' = "open" => life = "open",
           signal' = signal \/ signal' = None,
           \/ UNCHANGED worker
           \/ worker'.pc = "started" /\ worker'.since = worker.since
    PROVE  VerdictInv'
  <1>1. File' = File
    BY DEF File
  <1>2. Compared'
    BY <1>1 DEF VerdictInv, Compared
  <1>3. VerdictSound'
    BY <1>1, LogDataAssumption DEF VerdictInv, VerdictSound, MonitoredFileStatus
  <1>. QED BY <1>2, <1>3 DEF VerdictInv

\* What the queue does to the runnable.
LEMMA QueueStarts ==
    ASSUME TypeOK, NEW op, NEW h, NEW flag,
           Enqueue(op, h, flag) \/ StartNext(op, h, flag)
    PROVE  \/ UNCHANGED worker
           \/ worker'.pc = "started" /\ worker'.since = worker.since
              /\ worker'.handle = worker.handle
  <1>1. worker' = worker \/ worker' = [worker EXCEPT !.pc = "started", !.op = op]
    BY DEF Enqueue, StartNext
  <1>. QED BY <1>1 DEF TypeOK, Runnables

\* A change makes every check that has begun an old one.
LEMMA ChangeVerdict ==
    ASSUME TypeOK, VerdictInv, Change
    PROVE  VerdictInv'
  <1>1. worker.since \in Nat /\ version \in Nat
    BY LogDataAssumption DEF TypeOK, Runnables
  <1>2. worker' = worker /\ version' = version + 1
    BY DEF Change
  <1>3. worker'.since < version' /\ worker'.since # version'
    BY <1>1, <1>2 DEF VerdictInv, Compared
  <1>4. worker'.since <= version'
    BY <1>1, <1>2 DEF VerdictInv, Compared
  <1>. QED BY <1>2, <1>3, <1>4 DEF VerdictInv, Compared, VerdictSound

\* The steps of the worker, in their order.
LEMMA WorkerVerdict ==
    ASSUME TypeOK, QueueInv, VerdictInv, Detections \subseteq {"full"}, WorkerStep
    PROVE  VerdictInv'
  <1>. USE DEF workerOnly, worldVars, watchVars
  <1>1. UNCHANGED <<disk, inode, version, life>> /\ File' = File
    BY DEF WorkerStep, RunFullIndex, RunPartialIndex, ReadBlock, FinishIndex,
           ReportResult, IndexingThrows, RunCheck, OpenForCheck, CheckBlock,
           ReportCheck, RunnableDone, File
  <1>2. /\ worker.since \in Nat /\ version \in Nat /\ worker.pos \in Nat
        /\ Len(File) \in Nat /\ Len(index.blocks) \in Nat
        /\ File \in Data /\ index.blocks \in Data /\ worker.size \in Nat
    BY LenProperties, LogDataAssumption DEF TypeOK, Runnables, Indexes, File, Data
  <1>3. ASSUME worker'.since = worker.since,
               \/ worker'.pc \in {"index", "result"}
               \/ worker'.pc = "unwinding" /\ worker'.op.kind # "Check"
        PROVE  VerdictInv'
    BY <1>1, <1>3 DEF VerdictInv, Compared, VerdictSound
  <1>4. CASE RunFullIndex \/ RunPartialIndex
    <2>1. worker'.pc = "index" /\ worker'.since = worker.since
      BY <1>4 DEF RunFullIndex, RunPartialIndex, TypeOK, Runnables
    <2>. QED BY <1>3, <2>1
  <1>5. CASE ReadBlock \/ FinishIndex
    <2>1. worker'.pc \in {"index", "result"} /\ worker'.since = worker.since
      BY <1>5 DEF ReadBlock, FinishIndex, TypeOK, Runnables
    <2>. QED BY <1>3, <2>1
  <1>6. CASE ReportResult \/ IndexingThrows
    <2>1. worker'.pc = "unwinding" /\ worker'.since = worker.since
          /\ worker'.op = worker.op
      BY <1>6 DEF ReportResult, IndexingThrows, TypeOK, Runnables
    <2>2. worker.op.kind # "Check"
      BY <1>6 DEF ReportResult, IndexingThrows, QueueInv, RunnableOfKind
    <2>. QED BY <1>3, <2>1, <2>2
  <1>7. CASE RunCheck
    <2>. DEFINE begun == [worker EXCEPT !.size = Len(File), !.since = version]
    <2>1. \A pc \in WorkerPcs : /\ [begun EXCEPT !.pc = pc].pc = pc
                                /\ [begun EXCEPT !.pc = pc].size = Len(File)
                                /\ [begun EXCEPT !.pc = pc].since = version
      BY DEF TypeOK, Runnables
    <2>2. \/ worker' = [begun EXCEPT !.pc = "unwinding"] /\ signal' = "Truncated"
          \/ /\ worker' = [begun EXCEPT !.pc = "open"]
             /\ Len(File) >= Len(index.blocks)
      BY <1>7 DEF RunCheck
    <2>. HIDE DEF begun
    <2>3. worker'.since = version /\ worker'.size = Len(File)
          /\ \/ worker'.pc = "unwinding" /\ signal' = "Truncated"
             \/ worker'.pc = "open" /\ Len(File) >= Len(index.blocks)
      BY <2>1, <2>2 DEF WorkerPcs
    <2>4. Compared'
      BY <1>1, <1>2, <1>7, <2>3 DEF RunCheck, Compared
    <2>5. VerdictSound'
      BY <2>3 DEF VerdictSound
    <2>. QED BY <2>4, <2>5 DEF VerdictInv
  <1>8. CASE OpenForCheck
    <2>1. PICK mode \in Detections, b \in BOOLEAN :
             worker' = [worker EXCEPT !.pc = "check", !.handle = inode, !.pos = 0,
                                      !.mode = mode, !.same = b]
      BY <1>8 DEF OpenForCheck
    <2>2. /\ worker'.pc = "check" /\ worker'.handle = inode /\ worker'.pos = 0
          /\ worker'.mode = mode /\ worker'.since = worker.since
          /\ worker'.size = worker.size
      BY <2>1 DEF TypeOK, Runnables
    <2>3. index' = index /\ worker.pc = "open"
      BY <1>8 DEF OpenForCheck
    <2>4. Compared'
      BY <1>1, <1>2, <2>2, <2>3 DEF VerdictInv, Compared
    <2>. QED BY <2>2, <2>4 DEF VerdictInv, VerdictSound
  <1>9. CASE CheckBlock
    <2>1. /\ worker.pc = "check" /\ worker.same /\ worker.mode = "full"
          /\ index' = index /\ worker.pos < Len(index.blocks)
      BY <1>9 DEF CheckBlock, ChecksDue, VerdictInv, Compared
    <2>. DEFINE match == BlocksAt(disk[worker.handle], worker.pos, 1) =
                         BlocksAt(index.blocks, worker.pos, 1)
    <2>2. worker' = [worker EXCEPT !.pos = worker.pos + 1, !.same = match]
      BY <1>9, <2>1 DEF CheckBlock
    <2>. HIDE DEF match
    <2>3. PICK n, b : n \in Nat /\ n = worker.pos + 1 /\ b = match
      BY <1>2
    <2>4. worker' = [worker EXCEPT !.pos = n, !.same = b]
      BY <2>2, <2>3
    <2>5. /\ worker'.pc = "check" /\ worker'.mode = "full" /\ worker'.pos = n
          /\ worker'.same = b /\ worker'.since = worker.since
          /\ worker'.size = worker.size /\ worker'.handle = worker.handle
      BY <2>1, <2>4 DEF TypeOK, Runnables
    <2>6. ASSUME match, worker.since = version
          PROVE  /\ n <= Len(index.blocks)
                 /\ \A i \in 1..n : File[i] = index.blocks[i]
      <3>1. disk[worker.handle] = File /\ worker.pos < Len(File)
        BY <1>2, <2>1, <2>6 DEF VerdictInv, Compared, File
      <3>2. <<File[worker.pos + 1]>> = <<index.blocks[worker.pos + 1]>>
        BY <1>2, <2>1, <2>6, <3>1, BlocksRead DEF match
      <3>3. File[n] = index.blocks[n]
        BY <2>3, <3>2
      <3>4. \A i \in 1..worker.pos : File[i] = index.blocks[i]
        BY <2>1, <2>6 DEF VerdictInv, Compared
      <3>5. \A i \in 1..n : i = n \/ i \in 1..worker.pos
        BY <1>2, <2>3
      <3>. QED BY <1>2, <2>1, <2>3, <3>3, <3>4, <3>5
    <2>7. Compared'
      BY <1>1, <2>1, <2>3, <2>5, <2>6 DEF VerdictInv, Compared
    <2>. QED BY <2>5, <2>7 DEF VerdictInv, VerdictSound
  <1>10. CASE ReportCheck
    <2>1. /\ worker.pc = "check" /\ worker.mode = "full" /\ index' = index
          /\ ~worker.same => signal' = "Truncated"
          /\ worker.same =>
                /\ worker.pos >= Len(index.blocks)
                /\ signal' = IF worker.size > Len(index.blocks) THEN "DataAdded"
                             ELSE "Unchanged"
      BY <1>10 DEF ReportCheck, ChecksDue, VerdictInv, Compared
    <2>2. worker'.pc = "unwinding" /\ worker'.since = worker.since
      BY <1>10 DEF ReportCheck, TypeOK, Runnables
    <2>3. ASSUME worker.same, worker.since = version
          PROVE  /\ worker.size = Len(File) /\ Len(index.blocks) <= Len(File)
                 /\ \A i \in 1..Len(index.blocks) : File[i] = index.blocks[i]
      BY <1>2, <2>1, <2>3 DEF VerdictInv, Compared
    <2>4. ASSUME signal' = "Unchanged", worker.since = version
          PROVE  index.blocks = File
      <3>1. worker.same
        BY <2>1, <2>4
      <3>2. Len(index.blocks) = Len(File)
        BY <1>2, <2>1, <2>3, <2>4, <3>1
      <3>. QED BY <1>2, <2>3, <2>4, <3>1, <3>2, SameData
    <2>5. ASSUME signal' = "DataAdded", worker.since = version
          PROVE  /\ Len(index.blocks) < Len(File)
                 /\ BlocksAt(File, 0, Len(index.blocks)) = index.blocks
      <3>1. worker.same
        BY <2>1, <2>5
      <3>2. Len(index.blocks) < Len(File)
        BY <1>2, <2>1, <2>3, <2>5, <3>1
      <3>. DEFINE read == BlocksAt(File, 0, Len(index.blocks))
      <3>3. Len(index.blocks) <= Len(File) /\ 0 \in Nat
        BY <1>2, <3>2
      <3>4. read \in Data
        BY <1>2, <3>3, BlocksAtType
      <3>5. Len(read) = Len(index.blocks)
            /\ \A k \in 1..Len(index.blocks) : read[k] = File[k]
        BY <1>2, <3>3, BlocksRead
      <3>. HIDE DEF read
      <3>6. read = index.blocks
        BY <1>2, <2>3, <2>5, <3>1, <3>4, <3>5, SameData
      <3>. QED BY <3>2, <3>6 DEF read
    <2>6. Compared'
      BY <1>1, <2>2 DEF VerdictInv, Compared
    <2>7. VerdictSound'
      BY <1>1, <2>1, <2>2, <2>4, <2>5 DEF VerdictSound
    <2>. QED BY <2>6, <2>7 DEF VerdictInv
  <1>11. CASE RunnableDone
    <2>1. worker'.pc = "idle" /\ worker'.since = 0
      BY <1>11 DEF RunnableDone, IdleWorker
    <2>. QED BY <1>1, <1>2, <2>1 DEF VerdictInv, Compared, VerdictSound
  <1>. QED
    BY <1>4, <1>5, <1>6, <1>7, <1>8, <1>9, <1>10, <1>11 DEF WorkerStep

\* VerdictInv is inductive, relative to the types and to the queue.
LEMMA VerdictInvNext ==
    ASSUME TypeOK, QueueInv, VerdictInv, Detections \subseteq {"full"}, [Next]_vars
    PROVE  VerdictInv'
  <1>. USE DEF worldVars, watchVars
  <1>1. CASE Change
    BY <1>1, ChangeVerdict
  <1>2. CASE Notify
    BY <1>2, VerdictElsewhere DEF Notify
  <1>3. CASE UserAction \/ Handler
    <2>1. UNCHANGED <<disk, inode, version, index>>
      BY <1>3 DEF UserAction, Handler, AttachFile, InterruptLoading, Reload, SetEncoding,
                  Close, FileChangedOnDisk, IndexingFinished, CheckFileChangesFinished
    <2>2. life = "open"
      BY <1>3 DEF UserAction, Handler, AttachFile, InterruptLoading, Reload, SetEncoding,
                  Close, FileChangedOnDisk, IndexingFinished, CheckFileChangesFinished,
                  UserCall
    <2>3. signal' = signal \/ signal' = None
      BY <1>3 DEF UserAction, Handler, AttachFile, InterruptLoading, Reload, SetEncoding,
                  Close, FileChangedOnDisk, IndexingFinished, CheckFileChangesFinished
    <2>4. \/ UNCHANGED worker
          \/ \E op, h, flag : Enqueue(op, h, flag) \/ StartNext(op, h, flag)
      BY <1>3 DEF UserAction, Handler, AttachFile, InterruptLoading, Reload, SetEncoding,
                  Close, FileChangedOnDisk, IndexingFinished, CheckFileChangesFinished
    <2>5. \/ UNCHANGED worker
          \/ worker'.pc = "started" /\ worker'.since = worker.since
      BY <2>4, QueueStarts
    <2>. QED BY <2>1, <2>2, <2>3, <2>5, VerdictElsewhere
  <1>4. CASE Destruction
    BY <1>4, VerdictElsewhere DEF Destruction, CloseLocks, CloseDone
  <1>5. CASE WorkerStep
    BY <1>5, WorkerVerdict
  <1>6. CASE UNCHANGED vars
    BY <1>6, VerdictElsewhere DEF vars
  <1>. QED BY <1>1, <1>2, <1>3, <1>4, <1>5, <1>6 DEF Next

\* With the full detection, the verdict of a check is true of a file that has not
\* changed since the check began: "unchanged" means that the index is the file,
\* "data added" that it is a proper beginning of it.
THEOREM VerdictsAreSound ==
    ASSUME Detections \subseteq {"full"}
    PROVE  Spec => []VerdictSound
  <1>1. Init => VerdictInv
    <2>. SUFFICES ASSUME Init PROVE VerdictInv
      OBVIOUS
    <2>1. worker.pc = "idle" /\ worker.since = 0 /\ version = 0
      BY DEF Init, IdleWorker
    <2>. QED BY <2>1 DEF VerdictInv, Compared, VerdictSound
  <1>2. TypeOK /\ QueueInv /\ VerdictInv /\ [Next]_vars => VerdictInv'
    BY VerdictInvNext
  <1>3. VerdictInv => VerdictSound
    BY DEF VerdictInv
  <1>. QED BY <1>1, <1>2, <1>3, TypeCorrect, QueueCorrect, PTL DEF Spec

-----------------------------------------------------------------------------
(* Following a file to which others only append.  The index is always a      *)
(* beginning of the file (Appended), a change that was handed over is one of *)
(* a watched file (Watched), and as long as the watcher knows of the last    *)
(* change and nothing is posted, either the index is the whole file or what  *)
(* executes, or is pending, will see to it (Upcoming).                       *)

Appended ==
    /\ inode = 0 /\ holder.inode = 0 /\ worker.handle = 0
    /\ Len(index.blocks) <= Len(File)
    /\ \A i \in 1..Len(index.blocks) : index.blocks[i] = File[i]
    /\ worker.pc = "index" => worker.pos = Len(index.blocks)

Watched ==
    /\ seen # None => seen <= version
    /\ life = "open" /\ (notified \/ told) => seen # None

\* What is executed or pending is an operation of a kind that does something.
Queued ==
    /\ pending # NoOp => pending.kind \in {"Attach", "Full", "Check"}
    /\ executing # NoOp => executing.kind \in {"Attach", "Full", "Partial", "Check"}

\* The index is that of the file as it is.
Current == index.blocks = File

\* A load is under way that reads to the end of the file, or has done so.
Loading ==
    /\ executing.kind \in {"Attach", "Full", "Partial"}
    /\ \/ worker.pc \in {"started", "index"}
       \/ worker.pc = "result" /\ (interrupt \/ Current)
       \/ signal # None /\ (signal = "Successful" => Current)

\* A check is under way that took the size the file has, or has done so.
Checking ==
    /\ executing.kind = "Check"
    /\ \/ worker.pc = "started"
       \/ worker.pc \in {"open", "check"} /\ worker.size = Len(File)
       \/ signal # None /\ (signal = "Unchanged" => Current)

Settled == executing = NoOp /\ (lastStatus = "Successful" => Current)

Upcoming ==
    life = "open" /\ told /\ ~notified /\ seen = version =>
        pending.kind \in {"Check", "Full"} \/ Loading \/ Checking \/ Settled

FollowInv == Appended /\ Watched /\ Queued /\ Upcoming

\* Every operator of the holder leaves the inode or sets it.
LEMMA HolderInode ==
    ASSUME NEW h \in Holders, NEW i \in Nat, h.inode = i
    PROVE  /\ ReOpenFile(h, i).inode = i
           /\ OpenHolder(h, i).inode = i
           /\ AttachReader(h, i).inode = i
           /\ DetachReader(h).inode = i
  <1>1. \A g \in Holders : ReOpenFile(g, i).inode = i /\ ReOpenFile(g, i) \in Holders
    BY DEF Holders, ReOpenFile
  <1>2. [h EXCEPT !.readers = 1] \in Holders
    BY DEF Holders
  <1>3. OpenHolder(h, i).inode = i
    BY <1>1, <1>2 DEF OpenHolder
  <1>4. \A g \in Holders : [g EXCEPT !.readers = @ + 1].inode = g.inode
    BY DEF Holders
  <1>5. AttachReader(h, i).inode = i
    BY <1>1, <1>4 DEF AttachReader
  <1>. DEFINE less == IF h.readers > 0 THEN h.readers - 1 ELSE 0
              left == [h EXCEPT !.readers = less]
  <1>6. DetachReader(h) = IF KeepFileClosed /\ left.readers = 0
                          THEN [left EXCEPT !.open = FALSE] ELSE left
    BY DEF DetachReader
  <1>. HIDE DEF less
  <1>7. left.inode = i /\ [left EXCEPT !.open = FALSE].inode = i
    BY DEF Holders
  <1>. QED BY <1>1, <1>3, <1>5, <1>6, <1>7


\* What a queued operation does to the parts of the invariant but Upcoming.
LEMMA QueueFollows ==
    ASSUME TypeOK, Appended, Queued, NEW op \in Ops,
           op # NoOp => op.kind \in {"Attach", "Full", "Partial", "Check"},
           NEW h \in Holders, h.inode = 0, NEW flag,
           \/ Enqueue(op, h, flag) /\ op.kind # "Partial"
           \/ StartNext(op, h, flag),
           UNCHANGED <<disk, inode, index>>
    PROVE  Appended' /\ Queued'
  <1>1. inode = 0 /\ File' = File
    BY DEF Appended, File
  <1>2. AttachReader(h, inode).inode = 0
    BY <1>1, HolderInode
  <1>3. holder'.inode = 0
    BY <1>2 DEF Enqueue, StartNext
  <1>4. \/ UNCHANGED worker
        \/ worker'.pc = "started" /\ worker'.handle = worker.handle
    <2>1. worker' = worker \/ worker' = [worker EXCEPT !.pc = "started", !.op = op]
      BY DEF Enqueue, StartNext
    <2>. QED BY <2>1 DEF TypeOK, Runnables
  <1>5. Appended'
    BY <1>1, <1>3, <1>4 DEF Appended
  <1>6. Queued'
    BY DEF Queued, Enqueue, StartNext
  <1>. QED BY <1>5, <1>6

\* What an operation that starts will see to; h and the flag do not matter.
LEMMA StartedUpcoming ==
    ASSUME TypeOK, NEW op, NEW h, NEW flag, StartNext(op, h, flag),
           op.kind \in {"Attach", "Full", "Partial", "Check"}
    PROVE  Loading' \/ Checking'
  <1>1. op # NoOp
    BY OpFacts
  <1>2. worker' = [worker EXCEPT !.pc = "started", !.op = op] /\ executing' = op
    BY <1>1 DEF StartNext
  <1>3. worker'.pc = "started"
    BY <1>2 DEF TypeOK, Runnables
  <1>. QED BY <1>2, <1>3 DEF Loading, Checking

LEMMA EnqueuedUpcoming ==
    ASSUME TypeOK, NEW op, NEW h, NEW flag, Enqueue(op, h, flag),
           op.kind \in {"Full", "Check"}
    PROVE  Upcoming'
  <1>1. CASE executing = NoOp
    BY <1>1, StartedUpcoming DEF Enqueue, Upcoming
  <1>2. CASE executing # NoOp
    BY <1>2 DEF Enqueue, Upcoming
  <1>. QED BY <1>1, <1>2

\* A step of others that leaves the file, the queue and the worker alone.
LEMMA FollowElsewhere ==
    ASSUME FollowInv,
           UNCHANGED <<disk, inode, version, holder, executing, pending, lastStatus,
                       index, signal, worker>>,
           interrupt => interrupt',
           life' = "open" => life = "open" /\ seen' = seen /\ told' = told,
           notified' => notified, notified => notified',
           seen' # None => seen' = seen
    PROVE  FollowInv'
  <1>1. File' = File /\ (Current' <=> Current)
    BY DEF File, Current
  <1>2. Appended'
    BY <1>1 DEF FollowInv, Appended
  <1>3. Watched' /\ Queued'
    BY DEF FollowInv, Watched, Queued
  <1>4. /\ Loading => Loading'
        /\ Checking => Checking'
        /\ Settled => Settled'
    BY <1>1 DEF Loading, Checking, Settled
  <1>5. Upcoming'
    BY <1>4 DEF FollowInv, Upcoming
  <1>. QED BY <1>2, <1>3, <1>5 DEF FollowInv

\* A change appends to the file, or leaves its bytes as they are; it is new to
\* the watcher.
LEMMA ChangeFollows ==
    ASSUME TypeOK, FollowInv, ChangeKinds \subseteq {"append", "touch"}, Change
    PROVE  FollowInv'
  <1>1. /\ version \in Nat /\ version' = version + 1 /\ version' \in 0..MaxChanges
        /\ UNCHANGED <<seen, notified, told, life, holder, executing, pending,
                       index, worker>>
    BY LogDataAssumption DEF Change, TypeOK
  <1>2. /\ File \in Data /\ Len(File) \in Nat /\ Len(index.blocks) \in Nat
        /\ disk \in [0..MaxChanges -> Data] /\ inode \in 0..MaxChanges
    BY LenProperties DEF TypeOK, File, Data, Indexes
  <1>3. /\ inode' = inode
        /\ \/ File' = Append(File, version')
           \/ File' = File
    <2>1. \/ Write(Append(File, version'))
          \/ UNCHANGED <<disk, inode>>
      BY DEF Change
    <2>. QED BY <1>2, <2>1 DEF Write, File
  <1>4. Len(File) <= Len(File') /\ Len(File') \in Nat
        /\ \A i \in 1..Len(File) : File'[i] = File[i]
    <2>1. CASE File' = Append(File, version')
      <3>1. File \in Seq(0..MaxChanges)
        BY <1>2 DEF Data
      <3>2. /\ Len(Append(File, version')) = Len(File) + 1
            /\ \A i \in 1..Len(File) : Append(File, version')[i] = File[i]
        BY <1>1, <3>1, AppendProperties
      <3>. QED BY <1>2, <2>1, <3>2
    <2>2. CASE File' = File
      BY <1>2, <2>2
    <2>. QED BY <1>3, <2>1, <2>2
  <1>5. Appended'
    BY <1>1, <1>2, <1>3, <1>4 DEF FollowInv, Appended
  <1>6. Queued' /\ Watched'
    BY <1>1 DEF FollowInv, Queued, Watched, TypeOK
  <1>7. Upcoming'
    BY <1>1 DEF FollowInv, Upcoming, Watched, TypeOK
  <1>. QED BY <1>5, <1>6, <1>7 DEF FollowInv

\* The watcher posts the change.
LEMMA NotifyFollows ==
    ASSUME TypeOK, FollowInv, Notify
    PROVE  FollowInv'
  <1>1. version \in Nat /\ version # None
    BY LogDataAssumption DEF TypeOK
  <1>2. Appended'
    BY DEF FollowInv, Appended, Notify, File
  <1>3. Watched' /\ Queued'
    BY <1>1, LogDataAssumption DEF FollowInv, Watched, Queued, Notify
  <1>4. Upcoming'
    BY DEF Upcoming, Notify
  <1>. QED BY <1>2, <1>3, <1>4 DEF FollowInv

\* The worker: the index stays a beginning of the file, and a load that ends
\* uninterrupted has reached the end of it.
LEMMA WorkerFollows ==
    ASSUME TypeOK, QueueInv, FollowInv, WorkerStep
    PROVE  FollowInv'
  <1>. USE DEF workerOnly, worldVars, watchVars
  <1>1. /\ UNCHANGED <<disk, inode, version, seen, notified, told, life, holder>>
        /\ UNCHANGED <<executing, pending, lastStatus, interrupt>>
        /\ File' = File
    BY DEF WorkerStep, RunFullIndex, RunPartialIndex, ReadBlock, FinishIndex,
           ReportResult, IndexingThrows, RunCheck, OpenForCheck, CheckBlock,
           ReportCheck, RunnableDone, File
  <1>2. /\ Len(File) \in Nat /\ Len(index.blocks) \in Nat /\ worker.pos \in Nat
        /\ File \in Data /\ index.blocks \in Data
        /\ inode = 0 /\ disk[worker.handle] = File
    BY LenProperties
       DEF TypeOK, Runnables, Indexes, File, Data, FollowInv, Appended
  <1>3. Watched' /\ Queued'
    BY <1>1 DEF FollowInv, Watched, Queued
  <1>4. /\ Len(index.blocks) <= Len(File)
        /\ \A i \in 1..Len(index.blocks) : index.blocks[i] = File[i]
    BY DEF FollowInv, Appended
  <1>5. Len(index.blocks) >= Len(File) => Current
    <2>1. ASSUME Len(index.blocks) >= Len(File)
          PROVE  index.blocks = File
      <3>1. Len(index.blocks) = Len(File)
        BY <1>2, <1>4, <2>1
      <3>. QED BY <1>2, <1>4, <3>1, SeqEqual DEF Data
    <2>. QED BY <2>1 DEF Current
  <1>6. life = "open" /\ Working =>
           worker.op = executing /\ executing # NoOp /\ signal = None
    BY DEF QueueInv, OneOperation
  \* The steps that leave the blocks of the index alone.
  <1>7. ASSUME index'.blocks = index.blocks, worker'.handle = 0,
               worker'.pc = "index" => worker'.pos = Len(index.blocks)
        PROVE  Appended'
    BY <1>1, <1>7 DEF FollowInv, Appended
  \* The steps that empty it.
  <1>8. ASSUME index'.blocks = <<>>, worker'.handle = 0,
               worker'.pc = "index" => worker'.pos = 0
        PROVE  Appended'
    <2>1. Len(index'.blocks) = 0
      BY <1>8
    <2>. QED BY <1>1, <1>2, <1>8, <2>1 DEF FollowInv, Appended
  \* What is pending stays so, and what is settled while nothing executes.
  <1>9. ASSUME Working,
               Loading => Loading', Checking => Checking'
        PROVE  Upcoming'
    BY <1>1, <1>6, <1>9 DEF FollowInv, Upcoming, Settled
  <1>10. CASE RunFullIndex
    <2>1. worker'.pc = "index" /\ worker'.handle = 0 /\ worker'.pos = 0
      BY <1>2, <1>10 DEF RunFullIndex, TypeOK, Runnables
    <2>2. index'.blocks = <<>>
      BY <1>10 DEF RunFullIndex, ClearedIndex
    <2>3. Working /\ worker.pc = "started" /\ worker.op.kind # "Check"
      BY <1>10 DEF RunFullIndex, TakesMutex, Working
    <2>4. life = "open" => ~Checking
      BY <1>6, <2>3 DEF Checking
    <2>5. Upcoming'
      BY <1>1, <1>6, <2>1, <2>3, <2>4 DEF FollowInv, Upcoming, Settled, Loading
    <2>. QED BY <1>3, <1>8, <2>1, <2>2, <2>5 DEF FollowInv
  <1>11. CASE RunPartialIndex
    <2>1. worker'.pc = "index" /\ worker'.handle = 0 /\ worker'.pos = Len(index.blocks)
      BY <1>2, <1>11 DEF RunPartialIndex, TypeOK, Runnables
    <2>2. index' = index
      BY <1>11 DEF RunPartialIndex
    <2>3. Working /\ worker.pc = "started" /\ worker.op.kind # "Check"
      BY <1>11 DEF RunPartialIndex, TakesMutex, Working
    <2>4. life = "open" => ~Checking
      BY <1>6, <2>3 DEF Checking
    <2>5. Upcoming'
      BY <1>1, <1>6, <2>1, <2>3, <2>4 DEF FollowInv, Upcoming, Settled, Loading
    <2>. QED BY <1>3, <1>7, <2>1, <2>2, <2>5 DEF FollowInv
  <1>12. CASE ReadBlock
    <2>1. /\ worker'.pc = "index" /\ worker'.handle = 0
          /\ worker'.pos = worker.pos + 1 /\ worker.pc = "index"
          /\ signal' = signal
      BY <1>12 DEF ReadBlock, TypeOK, Runnables, FollowInv, Appended
    <2>2. /\ worker.pos = Len(index.blocks) /\ worker.pos < Len(File)
          /\ index'.blocks = Append(index.blocks, File[worker.pos + 1])
      BY <1>2, <1>12 DEF ReadBlock, FollowInv, Appended, TypeOK, Indexes
    <2>3. File[worker.pos + 1] \in 0..MaxChanges
      <3>1. worker.pos + 1 \in 1..Len(File)
        BY <1>2, <2>2
      <3>. QED BY <1>2, <3>1, ElementOfSeq DEF Data
    <2>4. /\ Len(index'.blocks) = Len(index.blocks) + 1
          /\ \A i \in 1..Len(index.blocks) : index'.blocks[i] = index.blocks[i]
          /\ index'.blocks[Len(index.blocks) + 1] = File[worker.pos + 1]
      BY <1>2, <2>2, <2>3, AppendProperties DEF Data
    <2>5. \A i \in 1..Len(index'.blocks) : index'.blocks[i] = File[i]
      <3>1. \A i \in 1..Len(index'.blocks) :
               i \in 1..Len(index.blocks) \/ i = Len(index.blocks) + 1
        BY <1>2, <2>4
      <3>. QED BY <1>4, <2>2, <2>4, <3>1
    <2>6. Appended'
      BY <1>1, <1>2, <2>1, <2>2, <2>4, <2>5 DEF FollowInv, Appended
    <2>7. Working /\ (Loading => Loading') /\ ~(Checking /\ life = "open")
      BY <1>1, <1>6, <2>1 DEF Working, Loading, Checking, QueueInv, RunnableOfKind
    <2>8. Upcoming'
      BY <1>1, <1>6, <2>7 DEF FollowInv, Upcoming, Settled
    <2>. QED BY <1>3, <2>6, <2>8 DEF FollowInv
  <1>13. CASE FinishIndex
    <2>1. /\ worker'.pc = "result" /\ worker'.handle = 0 /\ worker.pc = "index"
          /\ signal' = signal
      BY <1>13 DEF FinishIndex, TypeOK, Runnables, FollowInv, Appended
    <2>2. index'.blocks = IF interrupt THEN <<>> ELSE index.blocks
      <3>. DEFINE data == disk[worker.handle]
                  end == worker.pos
                  header == BlocksAt(data, 0, 1)
                  tail == BlocksAt(data, end - 1, 1)
                  sealed == IF end <= 1
                            THEN [index EXCEPT !.header = header, !.tail = header,
                                               !.tailPos = 0]
                            ELSE [index EXCEPT !.header = header, !.tailPos = end - 1,
                                               !.tail = tail]
                  kept == IF interrupt THEN ClearedIndex ELSE sealed
      <3>. HIDE DEF header, tail
      <3>1. sealed.blocks = index.blocks /\ sealed = [sealed EXCEPT !.guess = sealed.guess]
        BY DEF TypeOK, Indexes
      <3>2. ClearedIndex.blocks = <<>>
        BY DEF ClearedIndex
      <3>3. \A g : [sealed EXCEPT !.guess = g].blocks = sealed.blocks
        BY DEF TypeOK, Indexes
      <3>4. \A g : [ClearedIndex EXCEPT !.guess = g].blocks = <<>>
        BY DEF ClearedIndex
      <3>. HIDE DEF sealed
      <3>5. \E g : index' = [kept EXCEPT !.guess = g]
        BY <1>13 DEF FinishIndex, kept, sealed, header, tail
      <3>. QED BY <3>1, <3>2, <3>3, <3>4, <3>5
    <2>3. ~interrupt => Current'
      <3>1. ASSUME ~interrupt PROVE Len(index.blocks) >= Len(File)
        BY <1>2, <1>13, <2>1, <3>1 DEF FinishIndex, FollowInv, Appended
      <3>2. ~interrupt => Current
        BY <1>5, <3>1
      <3>. QED BY <1>1, <2>2, <3>2 DEF Current
    <2>4. Appended'
      BY <1>7, <1>8, <2>1, <2>2
    <2>5. Working /\ (Loading => Loading') /\ ~(Checking /\ life = "open")
      BY <1>1, <1>6, <2>1, <2>3 DEF Working, Loading, Checking, QueueInv, RunnableOfKind
    <2>6. Upcoming'
      BY <1>1, <1>6, <2>5 DEF FollowInv, Upcoming, Settled
    <2>. QED BY <1>3, <2>4, <2>6 DEF FollowInv
  <1>14. CASE ReportResult
    <2>1. /\ worker'.pc = "unwinding" /\ worker'.handle = 0 /\ worker.pc = "result"
          /\ index' = index
          /\ signal' = IF interrupt THEN "Interrupted" ELSE "Successful"
      BY <1>14 DEF ReportResult, TypeOK, Runnables, FollowInv, Appended
    <2>2. signal' # None
      BY <2>1, LogDataAssumption DEF LoadingStatus
    <2>3. Working /\ (life = "open" /\ Loading => Loading') /\ ~(Checking /\ life = "open")
      <3>1. Working
        BY <2>1 DEF Working
      <3>2. ~(Checking /\ life = "open")
        BY <1>6, <2>1, <3>1 DEF Checking, QueueInv, RunnableOfKind
      <3>3. Current' <=> Current
        BY <1>1, <2>1 DEF Current
      <3>. QED BY <1>1, <1>6, <2>1, <2>2, <3>1, <3>2, <3>3 DEF Loading
    <2>4. Upcoming'
      BY <1>1, <1>6, <2>3 DEF FollowInv, Upcoming, Settled
    <2>. QED BY <1>3, <1>7, <2>1, <2>4 DEF FollowInv
  <1>15. CASE IndexingThrows
    <2>1. /\ worker'.pc = "unwinding" /\ worker'.handle = 0 /\ worker.pc = "index"
          /\ index'.blocks = <<>> /\ signal' = "Interrupted"
      BY <1>15 DEF IndexingThrows, TypeOK, Runnables, FollowInv, Appended, ClearedIndex
    <2>2. signal' # None
      BY <2>1, LogDataAssumption DEF LoadingStatus
    <2>3. Working /\ (Loading => Loading') /\ ~(Checking /\ life = "open")
      BY <1>1, <1>6, <2>1, <2>2
         DEF Working, Loading, Checking, QueueInv, RunnableOfKind
    <2>4. Upcoming'
      BY <1>1, <1>6, <2>3 DEF FollowInv, Upcoming, Settled
    <2>. QED BY <1>3, <1>8, <2>1, <2>4 DEF FollowInv
  <1>16. CASE RunCheck
    <2>. DEFINE begun == [worker EXCEPT !.size = Len(File), !.since = version]
    <2>1. \A pc \in WorkerPcs : /\ [begun EXCEPT !.pc = pc].pc = pc
                                /\ [begun EXCEPT !.pc = pc].size = Len(File)
                                /\ [begun EXCEPT !.pc = pc].handle = worker.handle
      BY DEF TypeOK, Runnables
    <2>2. \/ worker' = [begun EXCEPT !.pc = "unwinding"] /\ signal' = "Truncated"
          \/ worker' = [begun EXCEPT !.pc = "open"]
      BY <1>16 DEF RunCheck
    <2>. HIDE DEF begun
    <2>3. /\ worker'.size = Len(File) /\ worker'.handle = 0
          /\ \/ worker'.pc = "unwinding" /\ signal' = "Truncated"
             \/ worker'.pc = "open"
      BY <2>1, <2>2 DEF WorkerPcs, FollowInv, Appended
    <2>4. index' = index /\ worker.pc = "started" /\ worker.op.kind = "Check"
      BY <1>16 DEF RunCheck, TakesMutex
    <2>5. signal' = "Truncated" => signal' # None
      BY LogDataAssumption DEF MonitoredFileStatus
    <2>6. Working /\ ~(Loading /\ life = "open") /\ (Checking => Checking')
      BY <1>1, <1>6, <2>3, <2>4, <2>5 DEF Working, Loading, Checking
    <2>7. Upcoming'
      BY <1>1, <1>6, <2>6 DEF FollowInv, Upcoming, Settled
    <2>. QED BY <1>3, <1>7, <2>3, <2>4, <2>7 DEF FollowInv
  <1>17. CASE OpenForCheck
    <2>1. PICK mode, b :
             worker' = [worker EXCEPT !.pc = "check", !.handle = inode, !.pos = 0,
                                      !.mode = mode, !.same = b]
      BY <1>17 DEF OpenForCheck
    <2>2. worker'.pc = "check" /\ worker'.handle = 0 /\ worker'.size = worker.size
      BY <1>2, <2>1 DEF TypeOK, Runnables
    <2>3. index' = index /\ signal' = signal /\ worker.pc = "open"
      BY <1>17 DEF OpenForCheck
    <2>4. Working /\ ~(Loading /\ life = "open") /\ (life = "open" /\ Checking => Checking')
      BY <1>1, <1>6, <2>2, <2>3
         DEF Working, Loading, Checking, QueueInv, RunnableOfKind
    <2>5. Upcoming'
      BY <1>1, <1>6, <2>4 DEF FollowInv, Upcoming, Settled
    <2>. QED BY <1>3, <1>7, <2>2, <2>3, <2>5 DEF FollowInv
  <1>18. CASE CheckBlock
    <2>1. PICK p, b : worker' = [worker EXCEPT !.pos = p, !.same = b]
      BY <1>18 DEF CheckBlock
    <2>2. worker'.pc = "check" /\ worker'.handle = 0 /\ worker'.size = worker.size
      BY <1>18, <2>1 DEF CheckBlock, TypeOK, Runnables, FollowInv, Appended
    <2>3. index' = index /\ signal' = signal /\ worker.pc = "check"
      BY <1>18 DEF CheckBlock
    <2>4. Working /\ ~(Loading /\ life = "open") /\ (life = "open" /\ Checking => Checking')
      BY <1>1, <1>6, <2>2, <2>3
         DEF Working, Loading, Checking, QueueInv, RunnableOfKind
    <2>5. Upcoming'
      BY <1>1, <1>6, <2>4 DEF FollowInv, Upcoming, Settled
    <2>. QED BY <1>3, <1>7, <2>2, <2>3, <2>5 DEF FollowInv
  <1>19. CASE ReportCheck
    <2>1. /\ worker'.pc = "unwinding" /\ worker'.handle = 0 /\ worker.pc = "check"
          /\ index' = index
      BY <1>19 DEF ReportCheck, TypeOK, Runnables, FollowInv, Appended
    <2>2. /\ signal' \in MonitoredFileStatus
          /\ signal' = "Unchanged" => ~(worker.size > Len(index.blocks))
      BY <1>19 DEF ReportCheck, MonitoredFileStatus
    <2>3. signal' # None
      BY <2>2, LogDataAssumption
    <2>4. worker.size = Len(File) /\ signal' = "Unchanged" => Current'
      <3>1. worker.size = Len(File) /\ signal' = "Unchanged" => Current
        BY <1>2, <1>5, <2>2
      <3>. QED BY <1>1, <2>1, <3>1 DEF Current
    <2>5. Working /\ ~(Loading /\ life = "open") /\ (life = "open" /\ Checking => Checking')
      BY <1>1, <1>6, <2>1, <2>3, <2>4
         DEF Working, Loading, Checking, QueueInv, RunnableOfKind
    <2>6. Upcoming'
      BY <1>1, <1>6, <2>5 DEF FollowInv, Upcoming, Settled
    <2>. QED BY <1>3, <1>7, <2>1, <2>6 DEF FollowInv
  <1>20. CASE RunnableDone
    <2>1. worker'.pc = "idle" /\ worker'.handle = 0
      BY <1>20 DEF RunnableDone, IdleWorker
    <2>2. index' = index /\ signal' = signal /\ worker.pc = "unwinding"
      BY <1>20 DEF RunnableDone
    <2>3. Current' <=> Current
      BY <1>1, <2>2 DEF Current
    <2>4. (Loading => Loading') /\ (Checking => Checking') /\ (Settled => Settled')
      BY <1>1, <2>2, <2>3 DEF Loading, Checking, Settled
    <2>5. Upcoming'
      BY <1>1, <2>4 DEF FollowInv, Upcoming
    <2>. QED BY <1>3, <1>7, <2>1, <2>2, <2>5 DEF FollowInv
  <1>. QED
    BY <1>10, <1>11, <1>12, <1>13, <1>14, <1>15, <1>16, <1>17, <1>18, <1>19, <1>20
       DEF WorkerStep

\* The handlers of the two results: what was pending starts, unless the result
\* asks for something else; nothing is left only if the result is a true one.
LEMMA HandlerFollows ==
    ASSUME TypeOK, QueueInv, FollowInv, IndexingFinished \/ CheckFileChangesFinished
    PROVE  FollowInv'
  <1>1. /\ UNCHANGED <<disk, inode, version, notified, told, life, index>>
        /\ File' = File /\ (Current' <=> Current)
        /\ life = "open" /\ signal # None /\ signal' = None
    BY LogDataAssumption
       DEF IndexingFinished, CheckFileChangesFinished, File, Current, worldVars, watchVars
  <1>2. executing # NoOp /\ ~Working /\ signal \in ResultsOf(executing)
    BY <1>1 DEF QueueInv, OneOperation
  <1>3. /\ inode = 0 /\ holder \in Holders /\ DetachReader(holder) \in Holders
        /\ DetachReader(holder).inode = 0
        /\ ReOpenFile(DetachReader(holder), inode) \in Holders
        /\ ReOpenFile(DetachReader(holder), inode).inode = 0
    <2>1. inode = 0 /\ holder \in Holders /\ holder.inode = 0 /\ 0 \in Nat
      BY DEF FollowInv, Appended, TypeOK
    <2>2. DetachReader(holder) \in Holders /\ DetachReader(holder).inode = 0
      BY <2>1, HolderTypes, HolderInode
    <2>. QED BY <2>1, <2>2, HolderTypes, HolderInode
  <1>4. pending \in Ops /\ (pending # NoOp => pending.kind \in {"Attach", "Full", "Check"})
    BY DEF TypeOK, FollowInv, Queued
  <1>5. worker.pc \notin {"started", "index", "result", "open", "check"}
    BY <1>2 DEF Working
  <1>6. CASE IndexingFinished
    <2>. DEFINE op == ReloadFor(WantedCodec(encodingMib))
    <2>1. op \in Ops /\ op.kind = "Full"
      BY CodecTypes DEF TypeOK
    <2>. HIDE DEF op
    <2>2. \/ StartNext(pending, DetachReader(holder), TRUE)
          \/ StartNext(op, ReOpenFile(DetachReader(holder), inode), TRUE)
      BY <1>6 DEF IndexingFinished, op
    <2>3. Appended' /\ Queued'
      BY <1>1, <1>3, <1>4, <2>1, <2>2, QueueFollows DEF FollowInv
    <2>4. Watched'
      <3>1. version \in Nat /\ version # None
        BY LogDataAssumption DEF TypeOK
      <3>2. seen' = seen \/ (seen = None /\ seen' = version)
        BY <1>6 DEF IndexingFinished
      <3>. QED BY <1>1, <3>1, <3>2 DEF FollowInv, Watched
    <2>5. signal \in LoadingStatus /\ lastStatus' = signal
      BY <1>6 DEF IndexingFinished
    <2>6. ASSUME told, ~notified, seen' = version
          PROVE  Loading' \/ Checking' \/ Settled'
      <3>1. seen = version
        BY <1>1, <1>6, <2>6 DEF IndexingFinished, FollowInv, Watched
      <3>2. ~Checking /\ ~Settled
        BY <1>2, <2>5 DEF Checking, Settled, ResultsOf, LoadingStatus, MonitoredFileStatus
      <3>3. CASE StartNext(op, ReOpenFile(DetachReader(holder), inode), TRUE)
        BY <2>1, <3>3, StartedUpcoming
      <3>4. CASE StartNext(pending, DetachReader(holder), TRUE) /\ pending # NoOp
        BY <1>4, <3>4, StartedUpcoming
      <3>5. CASE StartNext(pending, DetachReader(holder), TRUE) /\ pending = NoOp
        <4>1. Loading
          BY <1>1, <2>6, <3>1, <3>2, <3>5, OpFacts DEF FollowInv, Upcoming
        <4>2. signal = "Successful" => Current
          BY <1>5, <4>1 DEF Loading
        <4>3. executing' = NoOp
          BY <3>5 DEF StartNext
        <4>. QED BY <1>1, <2>5, <4>2, <4>3 DEF Settled
      <3>. QED BY <2>2, <3>3, <3>4, <3>5
    <2>7. Upcoming'
      BY <1>1, <2>6 DEF Upcoming
    <2>. QED BY <2>3, <2>4, <2>7 DEF FollowInv
  <1>7. CASE CheckFileChangesFinished
    <2>1. executing.kind = "Check" /\ signal \in MonitoredFileStatus
      BY <1>2, <1>7, LogDataAssumption
         DEF CheckFileChangesFinished, ResultsOf, LoadingStatus, MonitoredFileStatus
    <2>2. StatusAfter(signal) = signal
      BY <1>1, <2>1 DEF StatusAfter, QueueInv, StatusMatchesOperation
    <2>. DEFINE op == OperationFor(signal)
    <2>3. op \in Ops /\ (op # NoOp => op.kind \in {"Attach", "Full", "Partial", "Check"})
      BY <1>4, <2>1 DEF OperationFor, MonitoredFileStatus, Op, Ops, OpKinds
    <2>4. op = NoOp => signal = "Unchanged" /\ pending = NoOp
      BY <2>1, OpFacts DEF OperationFor, MonitoredFileStatus
    <2>. HIDE DEF op
    <2>5. StartNext(op, DetachReader(holder), interrupt)
      BY <1>7, <2>2 DEF CheckFileChangesFinished, op
    <2>6. Appended' /\ Queued'
      BY <1>1, <1>3, <2>3, <2>5, QueueFollows DEF FollowInv
    <2>7. seen' = seen /\ lastStatus' = lastStatus
      BY <1>7 DEF CheckFileChangesFinished, watchVars
    <2>8. Watched'
      BY <1>1, <2>7 DEF FollowInv, Watched
    <2>9. ASSUME told, ~notified, seen = version
          PROVE  Loading' \/ Checking' \/ Settled'
      <3>1. CASE op # NoOp
        BY <2>3, <2>5, <3>1, StartedUpcoming
      <3>2. CASE op = NoOp
        <4>1. Checking
          BY <1>1, <1>2, <2>1, <2>4, <2>9, <3>2, OpFacts
             DEF FollowInv, Upcoming, Loading, Settled
        <4>2. Current
          BY <1>5, <2>4, <3>2, <4>1 DEF Checking
        <4>3. executing' = NoOp
          BY <2>5, <3>2 DEF StartNext
        <4>. QED BY <1>1, <4>2, <4>3 DEF Settled
      <3>. QED BY <3>1, <3>2
    <2>10. Upcoming'
      BY <1>1, <2>7, <2>9 DEF Upcoming
    <2>. QED BY <2>6, <2>8, <2>10 DEF FollowInv
  <1>. QED BY <1>6, <1>7

\* The calls of the user and the notification of a change.
LEMMA CallFollows ==
    ASSUME TypeOK, QueueInv, FollowInv, UserAction \/ FileChangedOnDisk
    PROVE  FollowInv'
  <1>. USE DEF worldVars, watchVars
  <1>1. /\ inode = 0 /\ holder \in Holders
        /\ ReOpenFile(holder, inode) \in Holders /\ ReOpenFile(holder, inode).inode = 0
        /\ OpenHolder(holder, inode) \in Holders /\ OpenHolder(holder, inode).inode = 0
        /\ holder.inode = 0
    <2>1. inode = 0 /\ holder \in Holders /\ holder.inode = 0 /\ 0 \in Nat
      BY DEF FollowInv, Appended, TypeOK
    <2>. QED BY <2>1, HolderTypes, HolderInode
  <1>2. /\ Op("Full", None) \in Ops /\ Op("Full", None).kind = "Full"
        /\ Op("Check", None) \in Ops /\ Op("Check", None).kind = "Check"
        /\ Op("Attach", DefaultEncoding) \in Ops
        /\ Op("Attach", DefaultEncoding).kind = "Attach"
    BY LogDataAssumption DEF Op, Ops, OpKinds
  <1>3. ASSUME NEW op \in Ops, op.kind \in {"Full", "Check"},
               NEW h \in Holders, h.inode = 0, NEW flag, Enqueue(op, h, flag),
               UNCHANGED <<disk, inode, version, index, seen>>,
               life' = "open" => life = "open" /\ (notified' \/ told' => notified \/ told)
        PROVE  FollowInv'
    <2>1. Appended' /\ Queued'
      BY <1>3, QueueFollows DEF FollowInv
    <2>2. Watched'
      BY <1>3 DEF FollowInv, Watched
    <2>3. Upcoming'
      BY <1>3, EnqueuedUpcoming
    <2>. QED BY <2>1, <2>2, <2>3 DEF FollowInv
  <1>4. CASE AttachFile
    <2>1. /\ seen = None /\ life = "open"
          /\ UNCHANGED <<disk, inode, version, index, seen, notified, told, life>>
          /\ Enqueue(Op("Attach", DefaultEncoding), OpenHolder(holder, inode), interrupt)
      BY <1>4 DEF AttachFile, QueueInv, NothingBeforeAttach
    <2>2. Appended' /\ Queued'
      BY <1>1, <1>2, <2>1, QueueFollows DEF FollowInv
    <2>3. Watched'
      BY <2>1 DEF FollowInv, Watched
    <2>4. Upcoming'
      BY <2>1 DEF FollowInv, Watched, Upcoming
    <2>. QED BY <2>2, <2>3, <2>4 DEF FollowInv
  <1>5. CASE InterruptLoading
    BY <1>5, FollowElsewhere DEF InterruptLoading, UserCall
  <1>6. CASE Reload
    <2>1. /\ Enqueue(Op("Full", None), ReOpenFile(holder, inode), TRUE)
          /\ UNCHANGED <<disk, inode, version, index, seen, notified, told, life>>
      BY <1>6 DEF Reload
    <2>. QED BY <1>1, <1>2, <1>3, <2>1
  <1>7. CASE SetEncoding
    <2>1. PICK mib \in Codecs \cup {None} :
             \/ /\ UNCHANGED <<executing, pending, holder, worker, life>>
                /\ interrupt' = TRUE
             \/ /\ life' = "crashed" /\ interrupt' = TRUE
                /\ UNCHANGED <<executing, pending, holder, worker>>
             \/ /\ Enqueue(ReloadFor(WantedCodec(mib)), ReOpenFile(holder, inode), TRUE)
                /\ UNCHANGED life
      BY <1>7 DEF SetEncoding
    <2>2. UNCHANGED <<disk, inode, version, index, seen, notified, told, lastStatus, signal>>
      BY <1>7 DEF SetEncoding
    <2>3. CASE Enqueue(ReloadFor(WantedCodec(mib)), ReOpenFile(holder, inode), TRUE)
               /\ UNCHANGED life
      <3>1. /\ ReloadFor(WantedCodec(mib)) \in Ops
            /\ ReloadFor(WantedCodec(mib)).kind = "Full"
        BY CodecTypes
      <3>. QED BY <1>1, <1>3, <2>2, <2>3, <3>1
    <2>4. CASE UNCHANGED <<executing, pending, holder, worker>> /\ interrupt'
               /\ (life' = life \/ life' = "crashed")
      BY <2>2, <2>4, FollowElsewhere
    <2>. QED BY <2>1, <2>3, <2>4
  <1>8. CASE Close
    BY <1>8, FollowElsewhere DEF Close
  <1>9. CASE FileChangedOnDisk
    <2>1. PICK h \in {holder, ReOpenFile(holder, inode)} :
             Enqueue(Op("Check", None), h, interrupt)
      BY <1>9 DEF FileChangedOnDisk
    <2>2. /\ UNCHANGED <<disk, inode, version, index, seen, life>>
          /\ notified /\ life = "open"
      BY <1>9 DEF FileChangedOnDisk
    <2>. QED BY <1>1, <1>2, <1>3, <2>1, <2>2
  <1>. QED BY <1>4, <1>5, <1>6, <1>7, <1>8, <1>9 DEF UserAction

\* FollowInv is inductive, relative to the types and to the queue.
LEMMA FollowInvNext ==
    ASSUME TypeOK, QueueInv, FollowInv, ChangeKinds \subseteq {"append", "touch"},
           [Next]_vars
    PROVE  FollowInv'
  <1>. USE DEF worldVars, watchVars
  <1>1. CASE Change
    BY <1>1, ChangeFollows
  <1>2. CASE Notify
    BY <1>2, NotifyFollows
  <1>3. CASE UserAction \/ Handler
    BY <1>3, CallFollows, HandlerFollows DEF Handler
  <1>4. CASE CloseLocks
    BY <1>4, FollowElsewhere DEF CloseLocks
  <1>5. CASE CloseDone
    BY <1>5, FollowElsewhere DEF CloseDone
  <1>6. CASE WorkerStep
    BY <1>6, WorkerFollows
  <1>7. CASE UNCHANGED vars
    BY <1>7, FollowElsewhere DEF vars
  <1>. QED BY <1>1, <1>2, <1>3, <1>4, <1>5, <1>6, <1>7 DEF Next, Destruction

\* A log to which others only append is followed: when all is quiet after a
\* successful load and a change that was handed over, the index is the whole file
\* and the lines are read from it.  (A file that is also rewritten in place while
\* it is indexed need not be.)
THEOREM AppendedIsFollowed ==
    ASSUME ChangeKinds \subseteq {"append", "touch"}
    PROVE  Spec => []FollowsFile
  <1>1. Init => FollowInv
    <2>. SUFFICES ASSUME Init PROVE FollowInv
      OBVIOUS
    <2>1. /\ index.blocks = <<>> /\ Len(index.blocks) = 0
          /\ worker.pc = "idle" /\ worker.handle = 0
      BY DEF Init, ClearedIndex, IdleWorker
    <2>2. Len(File) \in Nat
      BY InitTypeOK, LenProperties DEF TypeOK, File, Data
    <2>3. Appended
      BY <2>1, <2>2 DEF Init, Appended, Unopened
    <2>. QED BY <2>3 DEF Init, FollowInv, Watched, Queued, Upcoming
  <1>2. TypeOK /\ QueueInv /\ FollowInv /\ [Next]_vars => FollowInv'
    BY FollowInvNext
  <1>3. QueueInv /\ FollowInv => FollowsFile
    <2>. SUFFICES ASSUME QueueInv, FollowInv, Quiet, told, lastStatus = "Successful"
                  PROVE  index.blocks = File /\ holder.inode = inode
      BY DEF FollowsFile
    <2>1. life = "open" /\ executing = NoOp /\ ~notified /\ seen = version
      BY DEF Quiet
    <2>2. pending = NoOp
      BY <2>1 DEF QueueInv, OneOperation
    <2>3. Settled
      BY <2>1, <2>2, OpFacts DEF FollowInv, Upcoming, Loading, Checking
    <2>. QED BY <2>3 DEF Settled, Current, FollowInv, Appended
  <1>. QED BY <1>1, <1>2, <1>3, TypeCorrect, QueueCorrect, PTL DEF Spec

-----------------------------------------------------------------------------
(* The packed storage of the line ends: after every append, pop and move it *)
(* holds the positions that the plain vector holds.                         *)

\* Division by the size of a block, for whatever size.
LEMMA Division ==
    ASSUME NEW line \in Nat
    PROVE /\ line \div BlockSize \in Nat
          /\ line % BlockSize \in 0..(BlockSize - 1)
          /\ line = BlockSize * (line \div BlockSize) + (line % BlockSize)
BY StorageAssumption, SMT

LEMMA Quotient ==
    ASSUME NEW block \in Nat, NEW rest \in 0..(BlockSize - 1)
    PROVE /\ (BlockSize * block + rest) \div BlockSize = block
          /\ (BlockSize * block + rest) % BlockSize = rest
BY StorageAssumption, SMT

\* A stored line lies in a packed block, or in the part of the current one that is filled.
LEMMA Place ==
    ASSUME NEW s, WellFormed(s), NEW line \in 0..(s.nbLines - 1)
    PROVE /\ line \div BlockSize \in 0..Len(s.blocks)
          /\ line % BlockSize \in 0..(BlockSize - 1)
          /\ line \div BlockSize = Len(s.blocks) => line % BlockSize < Len(s.current)
<1> DEFINE block == line \div BlockSize
           rest == line % BlockSize
           full == Len(s.blocks)
           before == BlockSize * block
           packed == BlockSize * full
<1>1. /\ line \in Nat /\ s.nbLines \in Nat /\ full \in Nat /\ Len(s.current) \in Nat
      /\ s.nbLines = packed + Len(s.current)
      /\ Len(s.current) < BlockSize
  BY DEF WellFormed, Storages
<1>2. block \in Nat /\ rest \in 0..(BlockSize - 1) /\ line = before + rest
  BY <1>1, Division
<1>3. block >= full + 1 => before >= packed + BlockSize
  <2>1. ASSUME NEW b \in Nat, NEW n \in Nat, b >= n + 1
        PROVE BlockSize * b >= BlockSize * n + BlockSize
    BY <2>1, StorageAssumption, SMT
  <2> QED BY <1>1, <1>2, <2>1
<1>4. block = full => before = packed
  OBVIOUS
<1>5. before \in Nat /\ packed \in Nat
  <2>1. ASSUME NEW n \in Nat PROVE BlockSize * n \in Nat
    BY StorageAssumption, SMT
  <2> QED BY <1>1, <1>2, <2>1
<1> HIDE DEF block, rest, full, before, packed
<1>6. block <= full
  BY <1>1, <1>2, <1>3, <1>5, StorageAssumption
<1>7. block = full => rest < Len(s.current)
  BY <1>1, <1>2, <1>4, <1>5
<1> QED BY <1>1, <1>2, <1>6, <1>7 DEF block, rest, full

-----------------------------------------------------------------------------
\* A new storage, and one that a new one was moved into, holds nothing.
THEOREM NewIsEmpty ==
    /\ WellFormed(NewStorage) /\ Positions(NewStorage) = <<>>
    /\ \A s : WellFormed(s) =>
          LET moved == Assigned(s, NewStorage)
          IN WellFormed(moved) /\ Positions(moved) = <<>>
<1>1. WellFormed(NewStorage)
  BY StorageAssumption DEF NewStorage, WellFormed, Storages
<1>2. ASSUME NEW s, WellFormed(s)
      PROVE WellFormed(Assigned(s, NewStorage)) /\ Assigned(s, NewStorage).nbLines = 0
  <2> DEFINE n == [blocks |-> <<>>, packed |-> <<>>, used |-> s.used, current |-> <<>>,
                   shifted |-> <<>>, nbLines |-> 0, lastPos |-> 0]
  <2>1. s.used \in Nat
    BY <1>2 DEF WellFormed, Storages
  <2>2. Assigned(s, NewStorage) = n
    BY DEF NewStorage, Assigned
  <2>3. WellFormed(n)
    BY <2>1, StorageAssumption DEF WellFormed, Storages
  <2> QED BY <2>2, <2>3
<1>3. ASSUME NEW s, s.nbLines = 0 PROVE Positions(s) = <<>>
  BY <1>3 DEF Positions
<1>4. NewStorage.nbLines = 0
  BY DEF NewStorage
<1> QED BY <1>1, <1>2, <1>3, <1>4

-----------------------------------------------------------------------------
\* Storages that agree on all lines but the last stand for sequences that do.
LEMMA LongerByOne ==
    ASSUME NEW s, NEW t, s.nbLines \in Nat, t.nbLines = s.nbLines + 1,
           \A line \in 0..(s.nbLines - 1) : At(t, line) = At(s, line)
    PROVE /\ Positions(t) = Append(Positions(s), At(t, s.nbLines))
          /\ Positions(s) = SubSeq(Positions(t), 1, s.nbLines)
<1> DEFINE n == s.nbLines
           ends == Positions(s)
           more == Positions(t)
<1>1. ends = [i \in 1..n |-> At(s, i - 1)] /\ more = [i \in 1..(n + 1) |-> At(t, i - 1)]
  BY DEF Positions
<1>2. \A i \in 1..n : more[i] = ends[i]
  BY <1>1
<1>3. more[n + 1] = At(t, n)
  BY <1>1
<1>4. Len(ends) = n /\ Len(more) = n + 1
  BY <1>1
<1> HIDE DEF ends, more
<1>5. Append(ends, At(t, n)) = [i \in 1..(n + 1) |-> IF i = n + 1 THEN At(t, n) ELSE ends[i]]
  BY <1>4 DEF ends
<1>6. more = Append(ends, At(t, n))
  BY <1>1, <1>2, <1>3, <1>5
<1>7. SubSeq(more, 1, n) = [i \in 1..n |-> more[i]]
  BY <1>4
<1>8. ends = SubSeq(more, 1, n)
  BY <1>1, <1>2, <1>7
<1> QED BY <1>6, <1>8 DEF ends, more

\* Where a line of the current block is, and one of a packed block.
LEMMA AtCurrent ==
    ASSUME NEW s, WellFormed(s), NEW i \in 0..(Len(s.current) - 1)
    PROVE At(s, BlockSize * Len(s.blocks) + i) = s.current[i + 1]
<1>1. Len(s.blocks) \in Nat /\ i \in 0..(BlockSize - 1)
  BY StorageAssumption DEF WellFormed, Storages
<1>2. /\ (BlockSize * Len(s.blocks) + i) \div BlockSize = Len(s.blocks)
      /\ (BlockSize * Len(s.blocks) + i) % BlockSize = i
  BY <1>1, Quotient
<1> QED BY <1>2, Zenon DEF At

LEMMA AtPacked ==
    ASSUME NEW s, Len(s.blocks) \in Nat, NEW k \in 0..(Len(s.blocks) - 1),
           NEW i \in 0..(BlockSize - 1)
    PROVE At(s, BlockSize * k + i)
            = s.blocks[k + 1].first + s.packed[s.blocks[k + 1].offset + 1][i + 1]
<1>1. k \in Nat /\ k # Len(s.blocks)
  OBVIOUS
<1>2. (BlockSize * k + i) \div BlockSize = k /\ (BlockSize * k + i) % BlockSize = i
  BY <1>1, Quotient
<1> QED BY <1>1, <1>2, Zenon DEF At, Unpacked

\* There is no other line.
LEMMA Stored ==
    ASSUME NEW s, WellFormed(s), NEW line \in 0..(s.nbLines - 1)
    PROVE \/ \E i \in 0..(Len(s.current) - 1) : line = BlockSize * Len(s.blocks) + i
          \/ \E k \in 0..(Len(s.blocks) - 1), i \in 0..(BlockSize - 1) :
                line = BlockSize * k + i
<1> DEFINE block == line \div BlockSize
           rest == line % BlockSize
<1>1. line \in Nat /\ Len(s.blocks) \in Nat /\ Len(s.current) \in Nat
  BY DEF WellFormed, Storages
<1>2. /\ block \in 0..Len(s.blocks) /\ rest \in 0..(BlockSize - 1)
      /\ block = Len(s.blocks) => rest < Len(s.current)
  BY Place
<1>3. line = BlockSize * block + rest
  BY <1>1, Division
<1> HIDE DEF block, rest
<1>4. CASE block = Len(s.blocks)
  <2>1. rest \in 0..(Len(s.current) - 1)
    BY <1>1, <1>2, <1>4
  <2> QED BY <1>3, <1>4, <2>1
<1>5. CASE block # Len(s.blocks)
  <2>1. block \in 0..(Len(s.blocks) - 1)
    BY <1>1, <1>2, <1>5
  <2> QED BY <1>2, <1>3, <2>1
<1> QED BY <1>4, <1>5

-----------------------------------------------------------------------------
\* Append, as the vectors of the storage use it.
LEMMA Longer ==
    ASSUME NEW q \in Seq(Nat), NEW e \in Nat
    PROVE /\ Append(q, e) \in Seq(Nat) /\ Len(Append(q, e)) = Len(q) + 1
          /\ Append(q, e)[Len(q) + 1] = e
          /\ \A k \in 1..Len(q) : Append(q, e)[k] = q[k]
          /\ Append(q, e)[1] \in Nat
OBVIOUS

\* append adds the position, whether it completes a block or not, as long as the
\* position is less than Word behind the first of its block.
THEOREM PushedAppends ==
    ASSUME NEW s, WellFormed(s), NEW pos \in Nat, Fits(s, pos)
    PROVE /\ WellFormed(Pushed(s, pos))
          /\ Positions(Pushed(s, pos)) = Append(Positions(s), pos)
<1> DEFINE n == Len(s.current)
           full == Len(s.blocks)
           base == BlockSize * full
           current == Append(s.current, pos)
           shift == (pos - current[1]) % Word
           shifted == Append(s.shifted, shift)
           t == Pushed(s, pos)
<1>1. /\ n \in Nat /\ n < BlockSize /\ BlockSize \in Nat /\ full \in Nat /\ base \in Nat
      /\ s.nbLines \in Nat /\ s.nbLines = base + n
      /\ s.used \in Nat
  <2>1. BlockSize * full \in Nat
    BY StorageAssumption, SMT DEF WellFormed, Storages
  <2> QED BY <2>1, StorageAssumption DEF WellFormed, Storages
<1>10. /\ s.blocks \in Seq([first : Nat, offset : Nat]) /\ Len(s.blocks) = full
       /\ s.packed \in Seq([1..BlockSize -> Nat]) /\ s.lastPos \in Nat
       /\ \A k \in 1..full : /\ s.blocks[k].offset < s.used
                             /\ s.blocks[k].offset < Len(s.packed)
                             /\ s.packed[s.blocks[k].offset + 1][1] = 0
  BY DEF WellFormed, Storages, Unpacked
<1>11. /\ s.current \in Seq(Nat) /\ s.shifted \in Seq(Nat)
       /\ Len(s.current) = n /\ Len(s.shifted) = n
       /\ \A i \in 1..n : s.current[i] = s.current[1] + s.shifted[i]
  BY DEF WellFormed, Storages
<1>12. BlockSize * (full + 1) = base + BlockSize
  BY <1>1, <1>10, <1>11, SMT
<1>13. \A line \in 0..(s.nbLines - 1) :
          \/ \E i \in 0..(n - 1) : line = base + i
          \/ \E k \in 0..(full - 1), i \in 0..(BlockSize - 1) : line = BlockSize * k + i
  BY Stored
<1> HIDE DEF n, full, base
<1>2. s = [blocks |-> s.blocks, packed |-> s.packed, used |-> s.used, current |-> s.current,
           shifted |-> s.shifted, nbLines |-> s.nbLines, lastPos |-> s.lastPos]
  BY DEF WellFormed, Storages
<1>3. /\ current \in Seq(Nat) /\ Len(current) = n + 1 /\ current[n + 1] = pos
      /\ \A i \in 1..n : current[i] = s.current[i]
      /\ current[1] \in Nat
  <2>1. /\ current \in Seq(Nat) /\ Len(current) = Len(s.current) + 1
        /\ current[Len(s.current) + 1] = pos /\ current[1] \in Nat
        /\ \A i \in 1..Len(s.current) : current[i] = s.current[i]
    BY <1>11, Longer, Zenon
  <2> QED BY <1>11, <2>1, Zenon
<1>4. shift \in Nat /\ pos = current[1] + shift
  <2>1. pos \in current[1]..(current[1] + Word - 1)
    <3>1. CASE n = 0
      BY <1>1, <1>10, <1>11, <1>3, <3>1, StorageAssumption
    <3>2. CASE n # 0
      <4>1. s.current # <<>> /\ current[1] = s.current[1]
        BY <1>1, <1>10, <1>11, <1>3, <3>2
      <4> QED BY <4>1 DEF Fits
    <3> QED BY <3>1, <3>2
  <2>2. \A d \in 0..(Word - 1) : d % Word = d
    BY StorageAssumption, SMT
  <2> HIDE DEF current
  <2>3. pos - current[1] \in 0..(Word - 1) /\ pos = current[1] + (pos - current[1])
    BY <1>3, <2>1, StorageAssumption
  <2>4. shift = pos - current[1]
    BY <2>2, <2>3, Zenon
  <2>5. shift \in Nat
    BY <2>3, <2>4, StorageAssumption
  <2> QED BY <2>3, <2>4, <2>5
<1> HIDE DEF shift
<1>5. /\ shifted \in Seq(Nat) /\ Len(shifted) = n + 1
      /\ \A i \in 1..n : shifted[i] = s.shifted[i]
      /\ shifted[n + 1] = shift
  BY <1>1, <1>11, <1>4
<1>6. \A i \in 1..(n + 1) : current[i] = current[1] + shifted[i]
  <2> TAKE i \in 1..(n + 1)
  <2>1. CASE i = n + 1
    BY <1>3, <1>4, <1>5, <2>1
  <2>2. CASE i # n + 1
    <3>1. i \in 1..n /\ 1 \in 1..n
      BY <1>1, <1>10, <1>11, <2>2
    <3> QED BY <1>1, <1>10, <1>11, <1>3, <1>5, <3>1
  <2> QED BY <2>1, <2>2
<1> HIDE DEF shifted
<1>7. SUFFICES /\ WellFormed(t) /\ t.nbLines = s.nbLines + 1 /\ At(t, s.nbLines) = pos
               /\ \A line \in 0..(s.nbLines - 1) : At(t, line) = At(s, line)
  BY <1>1, <1>10, <1>11, LongerByOne
<1>8. CASE n + 1 # BlockSize
  <2> DEFINE p == [blocks |-> s.blocks, packed |-> s.packed, used |-> s.used,
                   current |-> current, shifted |-> shifted,
                   nbLines |-> s.nbLines + 1, lastPos |-> pos]
  <2>1. t = p
    <3> DEFINE added == [s EXCEPT !.current = current, !.shifted = Append(@, shift)]
               known == [blocks |-> s.blocks, packed |-> s.packed, used |-> s.used,
                         current |-> current, shifted |-> shifted,
                         nbLines |-> s.nbLines, lastPos |-> s.lastPos]
    <3>1. added = [s EXCEPT !.current = current, !.shifted = Append(@, shift)]
      OBVIOUS
    <3>2. Len(current) # BlockSize
      BY <1>3, <1>8
    <3>3. t = [added EXCEPT !.lastPos = pos, !.nbLines = @ + 1]
      BY <3>2, Zenon DEF Pushed, shift
    <3> HIDE DEF current, added, t
    <3>4. added = known
      BY <1>2, <3>1 DEF shifted
    <3> QED BY <3>3, <3>4
  <2>2. WellFormed(p)
    <3> HIDE DEF current
    <3>1. p \in Storages
      BY <1>1, <1>10, <1>11, <1>3, <1>5 DEF Storages
    <3>2. Len(current) < BlockSize
      BY <1>1, <1>10, <1>11, <1>3, <1>8, StorageAssumption
    <3>3. s.nbLines + 1 = base + Len(current)
      BY <1>1, <1>3
    <3>4. ASSUME NEW i \in DOMAIN current PROVE current[i] = current[1] + shifted[i]
      BY <1>1, <1>3, <1>6
    <3>5. Len(shifted) = Len(current) /\ s.nbLines + 1 = BlockSize * Len(s.blocks) + Len(current)
      BY <1>3, <1>5, <1>10, <3>3 DEF base
    <3>6. \A k \in DOMAIN s.blocks :
             /\ s.blocks[k].offset < s.used /\ s.blocks[k].offset < Len(s.packed)
             /\ s.packed[s.blocks[k].offset + 1][1] = 0
      <4>1. DOMAIN s.blocks = 1..full
        BY <1>10
      <4> QED BY <1>10, <4>1, Zenon
    <3> QED BY <3>1, <3>2, <3>4, <3>5, <3>6 DEF WellFormed, Unpacked
  <2> HIDE DEF current
  <2>3. At(p, s.nbLines) = pos
    <3>1. p.blocks = s.blocks /\ p.current = current
      OBVIOUS
    <3>2. n \in 0..(Len(p.current) - 1)
      BY <1>1, <1>10, <1>11, <1>3, <3>1
    <3> HIDE DEF p
    <3>3. At(p, base + n) = current[n + 1]
      BY <1>10, <2>2, <3>1, <3>2, AtCurrent DEF base
    <3> QED BY <1>1, <1>3, <3>3
  <2>4. ASSUME NEW line \in 0..(s.nbLines - 1) PROVE At(p, line) = At(s, line)
    <3>1. p.blocks = s.blocks /\ p.current = current /\ p.packed = s.packed
      OBVIOUS
    <3> HIDE DEF p
    <3>2. ASSUME NEW i \in 0..(n - 1), line = base + i
          PROVE At(p, line) = At(s, line)
      <4>1. i \in 0..(Len(p.current) - 1) /\ i + 1 \in 1..n
        BY <1>1, <1>10, <1>11, <1>3, <3>1
      <4>2. At(p, line) = current[i + 1]
        BY <1>10, <2>2, <3>1, <3>2, <4>1, AtCurrent DEF base
      <4>3. At(s, line) = s.current[i + 1]
        BY <1>10, <1>11, <3>2, AtCurrent DEF base
      <4> QED BY <1>3, <4>1, <4>2, <4>3
    <3>3. ASSUME NEW k \in 0..(full - 1), NEW i \in 0..(BlockSize - 1),
                 line = BlockSize * k + i
          PROVE At(p, line) = At(s, line)
      <4>1. Len(p.blocks) \in Nat /\ k \in 0..(Len(p.blocks) - 1)
        BY <1>1, <1>10, <3>1
      <4>2. At(p, line) = s.blocks[k + 1].first + s.packed[s.blocks[k + 1].offset + 1][i + 1]
        BY <3>1, <3>3, <4>1, AtPacked
      <4>3. At(s, line) = s.blocks[k + 1].first + s.packed[s.blocks[k + 1].offset + 1][i + 1]
        BY <1>1, <1>10, <3>3, AtPacked
      <4> QED BY <4>2, <4>3
    <3> QED BY <1>13, <3>2, <3>3, Zenon
  <2> QED BY <2>1, <2>2, <2>3, <2>4
<1>9. CASE n + 1 = BlockSize
  <2> DEFINE u == s.used + 1
             block == [first |-> current[1], offset |-> s.used]
             blocks == Append(s.blocks, block)
             cell(k) == IF k = u THEN shifted
                        ELSE IF k \in DOMAIN s.packed THEN s.packed[k] ELSE Zeros
             packed == [k \in 1..u |-> cell(k)]
             p == [blocks |-> blocks, packed |-> packed, used |-> u, current |-> <<>>,
                   shifted |-> <<>>, nbLines |-> s.nbLines + 1, lastPos |-> pos]
  <2>1. t = p
    <3> DEFINE added == [s EXCEPT !.current = current, !.shifted = Append(@, shift)]
               known == [blocks |-> s.blocks, packed |-> s.packed, used |-> s.used,
                         current |-> current, shifted |-> shifted,
                         nbLines |-> s.nbLines, lastPos |-> s.lastPos]
               closed == [blocks |-> blocks, packed |-> packed, used |-> u, current |-> <<>>,
                          shifted |-> <<>>, nbLines |-> s.nbLines, lastPos |-> s.lastPos]
               done == Compressed(known)
    <3>1. added = [s EXCEPT !.current = current, !.shifted = Append(@, shift)]
      OBVIOUS
    <3>2. Len(current) = BlockSize
      BY <1>3, <1>9
    <3>3. t = [Compressed(added) EXCEPT !.lastPos = pos, !.nbLines = @ + 1]
      BY <3>2, Zenon DEF Pushed, shift
    <3>4. added = known
      <4> HIDE DEF current, added
      <4> QED BY <1>2, <3>1 DEF shifted
    <3>5. packed = [Resized(s.packed, u) EXCEPT ![u] = shifted]
      BY <1>1, <1>10 DEF Resized
    <3>6. done = [known EXCEPT !.blocks = blocks, !.packed = packed, !.used = u,
                               !.current = <<>>, !.shifted = <<>>]
      <4>1. /\ known.used = s.used /\ known.blocks = s.blocks /\ known.packed = s.packed
            /\ known.current = current /\ known.shifted = shifted
        OBVIOUS
      <4> HIDE DEF known, packed, current
      <4> QED BY <3>5, <4>1 DEF Compressed
    <3> HIDE DEF current, packed, blocks, done, t
    <3>7. done = closed
      BY <3>6
    <3>8. t = [done EXCEPT !.lastPos = pos, !.nbLines = @ + 1]
      <4> HIDE DEF added, known
      <4> QED BY <3>3, <3>4, Zenon DEF done
    <3> QED BY <3>7, <3>8
  <2>2. /\ blocks \in Seq([first : Nat, offset : Nat]) /\ Len(blocks) = full + 1
        /\ blocks[full + 1] = block
        /\ \A k \in 1..full : blocks[k] = s.blocks[k] /\ s.blocks[k].offset \in Nat
    <3>1. block \in [first : Nat, offset : Nat]
      BY <1>1, <1>3
    <3> HIDE DEF block
    <3>2. /\ blocks \in Seq([first : Nat, offset : Nat]) /\ Len(blocks) = Len(s.blocks) + 1
          /\ blocks[Len(s.blocks) + 1] = block
          /\ \A k \in 1..Len(s.blocks) : blocks[k] = s.blocks[k]
      <4> DEFINE Blocks == [first : Nat, offset : Nat]
      <4>1. s.blocks \in Seq(Blocks) /\ block \in Blocks
        BY <1>10, <3>1
      <4> HIDE DEF Blocks
      <4>2. blocks \in Seq(Blocks)
        BY <4>1
      <4>3. Len(blocks) = Len(s.blocks) + 1 /\ blocks[Len(s.blocks) + 1] = block
        BY <4>1
      <4>4. \A k \in 1..Len(s.blocks) : blocks[k] = s.blocks[k]
        BY <4>1
      <4> QED BY <4>2, <4>3, <4>4 DEF Blocks
    <3>5. /\ Len(blocks) = full + 1 /\ blocks[full + 1] = block
          /\ \A k \in 1..full : blocks[k] = s.blocks[k]
      BY <1>10, <3>2, Zenon
    <3>3. \A k \in 1..full : s.blocks[k] \in [first : Nat, offset : Nat]
      <4> DEFINE Blocks == [first : Nat, offset : Nat]
      <4>1. s.blocks \in Seq(Blocks) /\ Len(s.blocks) = full
        BY <1>10
      <4> HIDE DEF Blocks
      <4>2. \A k \in 1..full : s.blocks[k] \in Blocks
        BY <4>1
      <4> QED BY <4>2 DEF Blocks
    <3>4. \A k \in 1..full : s.blocks[k].offset \in Nat
      BY <3>3
    <3> QED BY <3>2, <3>4, <3>5, Zenon
  <2>3. packed \in Seq([1..BlockSize -> Nat]) /\ Len(packed) = u
    <3>1. shifted \in [1..BlockSize -> Nat]
      BY <1>1, <1>10, <1>11, <1>5, <1>9
    <3>2. Zeros \in [1..BlockSize -> Nat]
      BY DEF Zeros
    <3>3. \A k \in 1..u : cell(k) \in [1..BlockSize -> Nat]
      BY SMTT(30), <1>1, <1>10, <1>11, <3>1, <3>2
    <3>4. u \in Nat
      BY <1>1
    <3> HIDE DEF cell, u
    <3>5. packed \in [1..u -> [1..BlockSize -> Nat]]
      BY <3>3
    <3> QED BY <3>4, <3>5
  <2>4. packed[u] = shifted /\ \A k \in 1..s.used : k <= Len(s.packed) => packed[k] = s.packed[k]
    BY <1>1, <1>10, <1>11
  <2> HIDE DEF current, blocks, packed
  <2>6. WellFormed(p)
    <3>1. p \in Storages
      BY <1>1, <1>10, <1>11, <2>2, <2>3 DEF Storages
    <3>2. s.nbLines + 1 = BlockSize * Len(blocks) + 0
      <4>1. s.nbLines + 1 = BlockSize * (full + 1)
        BY <1>1, <1>9, <1>12
      <4>2. BlockSize * (full + 1) = BlockSize * (full + 1) + 0
        BY <1>1, <1>9, <1>12
      <4> QED BY <2>2, <4>1, <4>2, Zenon
    <3>3. ASSUME NEW k \in DOMAIN blocks
          PROVE /\ blocks[k].offset < u /\ blocks[k].offset < Len(packed)
                /\ packed[blocks[k].offset + 1][1] = 0
      <4>1. k \in 1..(full + 1)
        BY <1>1, <2>2
      <4>2. CASE k = full + 1
        <5>1. shifted[1] = 0
          <6>1. current[1] = current[1] + shifted[1] /\ shifted[1] \in Nat
            <7>1. 1 \in 1..(n + 1)
              BY <1>1
            <7>2. shifted[1] \in Nat
              BY <1>5, <7>1
            <7> QED BY <1>6, <7>1, <7>2, Zenon
          <6> QED BY <1>3, <6>1
        <5>2. blocks[k].offset < u /\ blocks[k].offset < Len(packed)
          BY <1>1, <2>2, <2>3, <4>2
        <5> QED BY <2>2, <2>4, <4>2, <5>1, <5>2
      <4>3. CASE k # full + 1
        <5>1. k \in 1..full /\ blocks[k] = s.blocks[k] /\ s.blocks[k].offset \in Nat
          BY <1>1, <2>2, <4>1, <4>3
        <5>2. /\ s.blocks[k].offset < s.used /\ s.blocks[k].offset < Len(s.packed)
              /\ s.packed[s.blocks[k].offset + 1][1] = 0 /\ Len(s.packed) \in Nat
          <6>1. Len(s.packed) \in Nat
            BY <1>10
          <6> QED BY <1>10, <5>1, <6>1, Zenon
        <5>3. blocks[k].offset < u /\ blocks[k].offset < Len(packed)
          BY <1>1, <2>3, <5>1, <5>2
        <5>4. s.blocks[k].offset + 1 \in 1..s.used /\ s.blocks[k].offset + 1 <= Len(s.packed)
          BY SMTT(30), <1>1, <5>1, <5>2
        <5>5. packed[s.blocks[k].offset + 1] = s.packed[s.blocks[k].offset + 1]
          BY <2>4, <5>4
        <5> QED BY <5>1, <5>2, <5>3, <5>5
      <4> QED BY <4>2, <4>3
    <3>4. 0 < BlockSize
      BY StorageAssumption
    <3>5. /\ p.blocks = blocks /\ p.packed = packed /\ p.used = u /\ p.current = <<>>
          /\ p.shifted = <<>> /\ p.nbLines = s.nbLines + 1
      OBVIOUS
    <3> HIDE DEF p, u
    <3> QED BY <3>1, <3>2, <3>3, <3>4, <3>5 DEF WellFormed, Unpacked
  <2>7. p.blocks = blocks /\ p.packed = packed
    OBVIOUS
  <2> HIDE DEF p
  <2>8. ASSUME NEW i \in 0..n PROVE At(p, base + i) = current[i + 1]
    <3>1. /\ full \in 0..(Len(p.blocks) - 1) /\ Len(p.blocks) \in Nat
          /\ i \in 0..(BlockSize - 1)
      BY <1>1, <1>10, <1>11, <1>9, <2>2, <2>7
    <3>2. At(p, BlockSize * full + i)
            = blocks[full + 1].first + packed[blocks[full + 1].offset + 1][i + 1]
      BY <2>7, <3>1, AtPacked
    <3>3. At(p, base + i) = current[1] + shifted[i + 1]
      <4>1. blocks[full + 1].first = current[1] /\ blocks[full + 1].offset + 1 = u
        BY <2>2
      <4>2. At(p, BlockSize * full + i) = current[1] + packed[u][i + 1]
        BY <3>2, <4>1, Zenon
      <4> QED BY <2>4, <4>2, Zenon DEF base
    <3> QED BY <1>1, <1>10, <1>11, <1>6, <3>3
  <2>9. At(p, s.nbLines) = pos
    <3>1. n \in 0..n
      BY <1>1
    <3> QED BY <1>1, <1>3, <2>8, <3>1, Zenon
  <2>10. ASSUME NEW line \in 0..(s.nbLines - 1) PROVE At(p, line) = At(s, line)
    <3>1. ASSUME NEW i \in 0..(n - 1), line = base + i
          PROVE At(p, line) = At(s, line)
      <4>1. i \in 0..n /\ i + 1 \in 1..n
        BY <1>1, <1>10, <1>11
      <4>2. At(s, line) = s.current[i + 1]
        BY <1>10, <1>11, <3>1, AtCurrent DEF base
      <4> QED BY <1>3, <2>8, <3>1, <4>1, <4>2
    <3>2. ASSUME NEW k \in 0..(full - 1), NEW i \in 0..(BlockSize - 1),
                 line = BlockSize * k + i
          PROVE At(p, line) = At(s, line)
      <4>1. Len(p.blocks) \in Nat /\ k \in 0..(Len(p.blocks) - 1)
        BY SMTT(30), <1>1, <1>10, <1>11, <2>2, <2>7
      <4>2. At(p, line) = blocks[k + 1].first + packed[blocks[k + 1].offset + 1][i + 1]
        BY <2>7, <3>2, <4>1, AtPacked
      <4>3. k + 1 \in 1..full
        BY <1>1
      <4>4. blocks[k + 1] = s.blocks[k + 1] /\ s.blocks[k + 1].offset \in Nat
        BY <2>2, <4>3
      <4>5. s.blocks[k + 1].offset < s.used /\ s.blocks[k + 1].offset < Len(s.packed)
        BY <1>10, <4>3
      <4>8. Len(s.packed) \in Nat
        BY <1>10
      <4>7. /\ s.blocks[k + 1].offset + 1 \in 1..s.used
            /\ s.blocks[k + 1].offset + 1 <= Len(s.packed)
        <5> DEFINE offset == s.blocks[k + 1].offset
        <5>1. offset \in Nat /\ offset < s.used /\ offset < Len(s.packed)
          BY <4>4, <4>5
        <5> HIDE DEF offset
        <5>2. offset + 1 \in 1..s.used /\ offset + 1 <= Len(s.packed)
          BY <1>1, <4>8, <5>1
        <5> QED BY <5>2 DEF offset
      <4>6. At(s, line) = s.blocks[k + 1].first + s.packed[s.blocks[k + 1].offset + 1][i + 1]
        BY <1>1, <1>10, <3>2, AtPacked
      <4> QED BY <2>4, <4>2, <4>4, <4>7, <4>6
    <3> QED BY <1>13, <3>1, <3>2, Zenon
  <2>11. p.nbLines = s.nbLines + 1
    BY DEF p
  <2> QED BY <2>1, <2>6, <2>9, <2>10, <2>11
<1> QED BY <1>8, <1>9

-----------------------------------------------------------------------------
\* A stored position is a number.
LEMMA AtIsNat ==
    ASSUME NEW s, WellFormed(s), NEW line \in 0..(s.nbLines - 1)
    PROVE At(s, line) \in Nat
<1>1. /\ s.current \in Seq(Nat) /\ Len(s.blocks) \in Nat
      /\ s.blocks \in Seq([first : Nat, offset : Nat])
      /\ s.packed \in Seq([1..BlockSize -> Nat])
      /\ \A k \in 1..Len(s.blocks) : s.blocks[k].offset < Len(s.packed)
  BY DEF WellFormed, Storages
<1>2. ASSUME NEW i \in 0..(Len(s.current) - 1), line = BlockSize * Len(s.blocks) + i
      PROVE At(s, line) \in Nat
  <2>1. At(s, line) = s.current[i + 1]
    BY <1>2, AtCurrent
  <2>2. s.current[i + 1] \in Nat
    BY <1>1
  <2> QED BY <2>1, <2>2
<1>3. ASSUME NEW k \in 0..(Len(s.blocks) - 1), NEW i \in 0..(BlockSize - 1),
             line = BlockSize * k + i
      PROVE At(s, line) \in Nat
  <2> DEFINE block == s.blocks[k + 1]
  <2>1. At(s, line) = block.first + s.packed[block.offset + 1][i + 1]
    BY <1>1, <1>3, AtPacked
  <2>2. k + 1 \in 1..Len(s.blocks)
    BY <1>1
  <2>3. block.first \in Nat /\ block.offset \in Nat
    <3> DEFINE Blocks == [first : Nat, offset : Nat]
    <3>1. s.blocks \in Seq(Blocks)
      BY <1>1
    <3> HIDE DEF Blocks
    <3>2. block \in Blocks
      BY <2>2, <3>1
    <3> QED BY <3>2 DEF Blocks
  <2>4. block.offset < Len(s.packed)
    BY <1>1, <2>2
  <2> HIDE DEF block
  <2>5. block.offset + 1 \in 1..Len(s.packed) /\ i + 1 \in 1..BlockSize
    <3>1. Len(s.packed) \in Nat
      BY <1>1
    <3>2. i + 1 \in 1..BlockSize
      BY StorageAssumption
    <3> QED BY <2>3, <2>4, <3>1, <3>2
  <2>6. s.packed[block.offset + 1] \in [1..BlockSize -> Nat]
    <3> DEFINE Cells == [1..BlockSize -> Nat]
    <3>1. s.packed \in Seq(Cells)
      BY <1>1
    <3> HIDE DEF Cells
    <3>2. s.packed[block.offset + 1] \in Cells
      BY <2>5, <3>1
    <3> QED BY <3>2 DEF Cells
  <2>7. s.packed[block.offset + 1][i + 1] \in Nat
    BY <2>5, <2>6, Zenon
  <2> QED BY <2>1, <2>3, <2>7
<1> QED BY <1>2, <1>3, Stored

\* The first blocks of s, and a current block with the lines that follow in s but for
\* the last one.
AllButLast(s, b, c, h) ==
    /\ b \in Seq([first : Nat, offset : Nat]) /\ c \in Seq(Nat) /\ h \in Seq(Nat)
    /\ Len(b) <= Len(s.blocks) /\ \A k \in 1..Len(b) : b[k] = s.blocks[k]
    /\ Len(c) < BlockSize /\ Len(h) = Len(c) /\ \A i \in 1..Len(c) : c[i] = c[1] + h[i]
    /\ s.nbLines = BlockSize * Len(b) + Len(c) + 1
    /\ \A i \in 0..(Len(c) - 1) : c[i + 1] = At(s, BlockSize * Len(b) + i)

\* A storage of these holds all lines but the last.
LEMMA Shorter ==
    ASSUME NEW s, WellFormed(s), NEW b, NEW c, NEW h, AllButLast(s, b, c, h),
           NEW l \in Nat,
           NEW p, p = [blocks |-> b, packed |-> s.packed, used |-> s.used, current |-> c,
                       shifted |-> h, nbLines |-> s.nbLines - 1, lastPos |-> l]
    PROVE /\ WellFormed(p)
          /\ Positions(p) = SubSeq(Positions(s), 1, s.nbLines - 1)
<1> DEFINE base == BlockSize * Len(b)
<1>1. /\ p.blocks = b /\ p.packed = s.packed /\ p.used = s.used /\ p.current = c
      /\ p.shifted = h /\ p.nbLines = s.nbLines - 1 /\ p.lastPos = l
  OBVIOUS
<1>10. /\ b \in Seq([first : Nat, offset : Nat]) /\ c \in Seq(Nat) /\ h \in Seq(Nat)
       /\ Len(b) <= Len(s.blocks) /\ \A k \in 1..Len(b) : b[k] = s.blocks[k]
       /\ Len(c) < BlockSize /\ Len(h) = Len(c) /\ \A i \in 1..Len(c) : c[i] = c[1] + h[i]
       /\ \A i \in 0..(Len(c) - 1) : c[i + 1] = At(s, base + i)
  BY DEF AllButLast
<1>2. /\ s.packed \in Seq([1..BlockSize -> Nat]) /\ s.used \in Nat /\ s.nbLines \in Nat
      /\ Len(s.blocks) \in Nat /\ Len(b) \in Nat /\ Len(c) \in Nat
      /\ \A k \in 1..Len(s.blocks) : /\ s.blocks[k].offset < s.used
                                     /\ s.blocks[k].offset < Len(s.packed)
                                     /\ s.packed[s.blocks[k].offset + 1][1] = 0
  BY SMTT(30), <1>10 DEF WellFormed, Storages, Unpacked
<1>3. base \in Nat
  BY <1>2, StorageAssumption, SMT
<1>4. s.nbLines = base + Len(c) + 1
  BY DEF AllButLast
<1> HIDE DEF base
<1>5. s.nbLines - 1 = base + Len(c) /\ s.nbLines - 1 \in Nat
  BY <1>2, <1>3, <1>4
<1>6. WellFormed(p)
  <2>1. p \in Storages
    <3> DEFINE Cells == Seq([1..BlockSize -> Nat])
               Blocks == Seq([first : Nat, offset : Nat])
    <3>1. s.packed \in Cells /\ b \in Blocks
      BY <1>2, <1>10
    <3> HIDE DEF Cells, Blocks
    <3>2. p \in [blocks : Blocks, packed : Cells, used : Nat, current : Seq(Nat),
                 shifted : Seq(Nat), nbLines : Nat, lastPos : Nat]
      BY <1>2, <1>5, <1>10, <3>1
    <3> QED BY <3>2, Zenon DEF Storages, Cells, Blocks
  <2>2. \A k \in DOMAIN b :
           /\ b[k].offset < s.used /\ b[k].offset < Len(s.packed)
           /\ s.packed[b[k].offset + 1][1] = 0
    <3> TAKE k \in DOMAIN b
    <3>1. k \in 1..Len(b) /\ k \in 1..Len(s.blocks)
      BY SMTT(30), <1>2, <1>10
    <3>2. b[k] = s.blocks[k]
      BY <1>10, <3>1, Zenon
    <3> QED BY <1>2, <3>1, <3>2, Zenon
  <2>3. p.nbLines = BlockSize * Len(p.blocks) + Len(p.current)
    BY <1>1, <1>5 DEF base
  <2>4. \A i \in DOMAIN c : c[i] = c[1] + h[i]
    BY <1>2, <1>10
  <2> QED BY <1>1, <1>10, <2>1, <2>2, <2>3, <2>4, Zenon DEF WellFormed, Unpacked
<1>7. ASSUME NEW line \in 0..(p.nbLines - 1) PROVE At(s, line) = At(p, line)
  <2>1. ASSUME NEW i \in 0..(Len(c) - 1), line = base + i
        PROVE At(s, line) = At(p, line)
    <3>1. At(p, BlockSize * Len(b) + i) = c[i + 1]
      BY <1>1, <1>6, AtCurrent
    <3> QED BY <1>10, <2>1, <3>1 DEF base
  <2>2. ASSUME NEW k \in 0..(Len(b) - 1), NEW i \in 0..(BlockSize - 1),
               line = BlockSize * k + i
        PROVE At(s, line) = At(p, line)
    <3>1. k \in 0..(Len(s.blocks) - 1) /\ k + 1 \in 1..Len(b)
      BY <1>2, <1>10
    <3>2. At(s, line) = s.blocks[k + 1].first + s.packed[s.blocks[k + 1].offset + 1][i + 1]
      BY <1>2, <2>2, <3>1, AtPacked
    <3>3. At(p, line) = b[k + 1].first + s.packed[b[k + 1].offset + 1][i + 1]
      <4>1. Len(p.blocks) \in Nat /\ k \in 0..(Len(p.blocks) - 1)
        BY <1>1, <1>2
      <4>2. At(p, BlockSize * k + i)
              = p.blocks[k + 1].first + p.packed[p.blocks[k + 1].offset + 1][i + 1]
        BY <4>1, AtPacked, Zenon
      <4> QED BY <1>1, <2>2, <4>2, Zenon
    <3>4. b[k + 1] = s.blocks[k + 1]
      BY <1>10, <3>1
    <3> QED BY <3>2, <3>3, <3>4
  <2>3. \/ \E i \in 0..(Len(c) - 1) : line = base + i
        \/ \E k \in 0..(Len(b) - 1), i \in 0..(BlockSize - 1) : line = BlockSize * k + i
    <3>1. \/ \E i \in 0..(Len(p.current) - 1) : line = BlockSize * Len(p.blocks) + i
          \/ \E k \in 0..(Len(p.blocks) - 1), i \in 0..(BlockSize - 1) :
                line = BlockSize * k + i
      BY <1>6, <1>7, Stored
    <3> QED BY <1>1, <3>1, Zenon DEF base
  <2> QED BY <2>1, <2>2, <2>3, Zenon
<1>8. p.nbLines \in Nat /\ s.nbLines = p.nbLines + 1
  BY <1>1, <1>2, <1>5
<1>9. Positions(p) = SubSeq(Positions(s), 1, p.nbLines)
  BY <1>7, <1>8, LongerByOne
<1> QED BY <1>1, <1>6, <1>9

\* pop_back removes the last position, also the last of a block that was packed.
THEOREM PoppedRemoves ==
    ASSUME NEW s, WellFormed(s), s.nbLines > 0
    PROVE /\ WellFormed(Popped(s))
          /\ Positions(Popped(s)) = SubSeq(Positions(s), 1, s.nbLines - 1)
<1> DEFINE n == Len(s.current)
           full == Len(s.blocks)
           t == Popped(s)
           Left(b, c, h, m, l) ==
               [blocks |-> b, packed |-> s.packed, used |-> s.used, current |-> c,
                shifted |-> h, nbLines |-> m, lastPos |-> l]
           open == IF s.current = <<>> /\ s.blocks # <<>> THEN Uncompressed(s) ELSE s
           less == IF open.current = <<>> THEN open
                   ELSE [open EXCEPT !.current = SubSeq(@, 1, Len(@) - 1),
                                     !.shifted = SubSeq(@, 1, Len(@) - 1)]
           last == IF s.nbLines = 1 THEN 0 ELSE At(less, s.nbLines - 2)
<1>1. /\ n \in Nat /\ n < BlockSize /\ BlockSize \in Nat \ {0} /\ full \in Nat
      /\ s.nbLines \in Nat /\ s.nbLines > 0 /\ s.used \in Nat /\ s.lastPos \in Nat
  BY StorageAssumption DEF WellFormed, Storages
<1>2. /\ s.blocks \in Seq([first : Nat, offset : Nat])
      /\ s.packed \in Seq([1..BlockSize -> Nat])
      /\ \A k \in 1..full : s.blocks[k].offset < Len(s.packed)
      /\ \A k \in 1..full : s.packed[s.blocks[k].offset + 1][1] = 0
  BY SMTT(30) DEF WellFormed, Storages, Unpacked
<1>3. /\ s.current \in Seq(Nat) /\ s.shifted \in Seq(Nat) /\ Len(s.shifted) = n
      /\ \A i \in 1..n : s.current[i] = s.current[1] + s.shifted[i]
  BY DEF WellFormed, Storages
<1>4. s = Left(s.blocks, s.current, s.shifted, s.nbLines, s.lastPos)
  BY DEF WellFormed, Storages
<1>5. s.nbLines = BlockSize * full + n
  BY DEF WellFormed
<1>6. t = [less EXCEPT !.nbLines = @ - 1, !.lastPos = last]
  <2>1. s.nbLines # 0
    BY <1>1
  <2> QED BY <2>1, Zenon DEF Popped
\* It is enough to know what is left of the blocks and of the current one.
<1>7. ASSUME NEW b, NEW c, NEW h, AllButLast(s, b, c, h),
             less = Left(b, c, h, s.nbLines, s.lastPos)
      PROVE WellFormed(t) /\ Positions(t) = SubSeq(Positions(s), 1, s.nbLines - 1)
  <2> HIDE DEF less, last, t
  <2> DEFINE p(l) == Left(b, c, h, s.nbLines - 1, l)
  <2>1. ASSUME NEW l \in Nat
        PROVE WellFormed(p(l)) /\ Positions(p(l)) = SubSeq(Positions(s), 1, s.nbLines - 1)
    BY <1>7, <2>1, Shorter
  <2>2. last \in Nat
    <3>1. CASE s.nbLines = 1
      BY <3>1 DEF last
    <3>2. CASE s.nbLines # 1
      <4>1. p(0).nbLines = s.nbLines - 1
        OBVIOUS
      <4>2. s.nbLines - 2 \in 0..(p(0).nbLines - 1)
        BY <1>1, <3>2, <4>1
      <4>3. At(p(0), s.nbLines - 2) \in Nat
        BY <2>1, <4>2, AtIsNat
      <4>4. At(p(0), s.nbLines - 2) = At(less, s.nbLines - 2)
        <5>1. /\ p(0).blocks = less.blocks /\ p(0).packed = less.packed
              /\ p(0).current = less.current
          BY <1>7
        <5> HIDE DEF p
        <5> QED BY <5>1, Zenon DEF At, Unpacked
      <4> QED BY <3>2, <4>3, <4>4 DEF last
    <3> QED BY <3>1, <3>2
  <2>3. t = p(last)
    BY <1>6, <1>7
  <2> QED BY <2>1, <2>2, <2>3, Zenon
<1>8. CASE s.current # <<>>
  <2> DEFINE c == SubSeq(s.current, 1, n - 1)
             h == SubSeq(s.shifted, 1, n - 1)
  <2>1. less = Left(s.blocks, c, h, s.nbLines, s.lastPos)
    <3>1. open = s /\ open.current # <<>>
      BY <1>8
    <3>2. less = [s EXCEPT !.current = SubSeq(@, 1, Len(@) - 1),
                           !.shifted = SubSeq(@, 1, Len(@) - 1)]
      <4> HIDE DEF open
      <4> QED BY <3>1, Zenon
    <3> HIDE DEF less
    <3> QED BY <1>1, <1>3, <1>4, <3>2
  <2>2. n > 0 /\ n - 1 \in Nat
    BY SMTT(30), <1>1, <1>3, <1>8
  <2>3. /\ c \in Seq(Nat) /\ h \in Seq(Nat) /\ Len(c) = n - 1 /\ Len(h) = n - 1
        /\ \A i \in 1..(n - 1) : c[i] = s.current[i] /\ h[i] = s.shifted[i]
    <3>1. ASSUME NEW q \in Seq(Nat), NEW m \in Nat, m <= Len(q)
          PROVE /\ SubSeq(q, 1, m) \in Seq(Nat) /\ Len(SubSeq(q, 1, m)) = m
                /\ \A i \in 1..m : SubSeq(q, 1, m)[i] = q[i]
      BY <3>1
    <3>2. n - 1 <= Len(s.current) /\ n - 1 <= Len(s.shifted)
      BY <1>1, <1>3
    <3> HIDE DEF n
    <3> QED BY <1>3, <2>2, <3>1, <3>2
  <2> HIDE DEF c, h, less, t
  <2>4. \A i \in 1..Len(c) : c[i] = c[1] + h[i]
    <3> TAKE i \in 1..Len(c)
    <3>1. i \in 1..(n - 1) /\ 1 \in 1..(n - 1) /\ i \in 1..n
      BY <1>1, <2>2, <2>3
    <3> QED BY <1>3, <2>3, <3>1
  <2>5. \A i \in 0..(Len(c) - 1) : c[i + 1] = At(s, BlockSize * Len(s.blocks) + i)
    <3> TAKE i \in 0..(Len(c) - 1)
    <3>1. i \in 0..(Len(s.current) - 1) /\ i + 1 \in 1..(n - 1)
      BY <1>1, <2>2, <2>3
    <3>2. At(s, BlockSize * Len(s.blocks) + i) = s.current[i + 1]
      BY <3>1, AtCurrent, Zenon
    <3> QED BY <2>3, <3>1, <3>2, Zenon
  <2>6. s.nbLines = BlockSize * Len(s.blocks) + Len(c) + 1
    <3> DEFINE base == BlockSize * Len(s.blocks)
    <3>1. base \in Nat
      BY <1>1, SMT
    <3>2. s.nbLines = base + n
      BY <1>5
    <3> HIDE DEF base
    <3>3. s.nbLines = base + Len(c) + 1
      BY <1>1, <2>3, <3>1, <3>2
    <3> QED BY <3>3 DEF base
  <2>7. Len(s.blocks) <= full /\ Len(c) < BlockSize /\ Len(h) = Len(c)
    BY <1>1, <2>3
  <2>8. \A k \in 1..Len(s.blocks) : s.blocks[k] = s.blocks[k]
    OBVIOUS
  <2>9. AllButLast(s, s.blocks, c, h)
    BY <1>2, <2>3, <2>4, <2>5, <2>6, <2>7, <2>8 DEF AllButLast
  <2> HIDE DEF n, full, Left, open, last
  <2> QED BY <1>7, <2>1, <2>9, Zenon DEF t
<1>9. CASE s.current = <<>>
  <2> DEFINE block == s.blocks[full]
             cell == Unpacked(s, block)
             b == SubSeq(s.blocks, 1, full - 1)
             all == [i \in 1..BlockSize |-> cell[i] + block.first]
             c == SubSeq(all, 1, BlockSize - 1)
             h == SubSeq(cell, 1, BlockSize - 1)
             base == BlockSize * (full - 1)
  <2>1. n = 0 /\ full > 0
    <3>1. BlockSize * 0 = 0
      BY <1>1
    <3> QED BY <1>1, <1>5, <1>9, <3>1
  <2>2. base \in Nat /\ BlockSize * full = base + BlockSize
    <3>1. ASSUME NEW m \in Nat
          PROVE BlockSize * m \in Nat /\ BlockSize * (m + 1) = BlockSize * m + BlockSize
      BY <1>1, SMT
    <3>2. full - 1 \in Nat /\ full = (full - 1) + 1
      BY <1>1, <2>1
    <3> QED BY <3>1, <3>2
  <2>3. block \in [first : Nat, offset : Nat]
    <3> DEFINE Blocks == [first : Nat, offset : Nat]
    <3>1. s.blocks \in Seq(Blocks)
      BY <1>2
    <3> HIDE DEF Blocks
    <3>2. block \in Blocks
      BY <1>1, <2>1, <3>1
    <3> QED BY <3>2 DEF Blocks
  <2>4. block.first \in Nat /\ block.offset \in Nat
    BY <2>3
  <2>5. cell \in [1..BlockSize -> Nat] /\ cell[1] = 0
    <3> DEFINE Cells == [1..BlockSize -> Nat]
    <3>1. s.packed \in Seq(Cells)
      BY <1>2
    <3>2. full \in 1..full
      BY <1>1, <2>1
    <3>3. block.offset < Len(s.packed) /\ s.packed[block.offset + 1][1] = 0
      BY <1>2, <3>2, Zenon
    <3> HIDE DEF Cells, block
    <3>4. s.packed[block.offset + 1] \in Cells
      BY <2>4, <3>1, <3>3
    <3> QED BY <3>3, <3>4, Zenon DEF Cells, Unpacked
  <2>6. less = Left(b, c, h, s.nbLines, s.lastPos)
    <3> DEFINE done == Uncompressed(s)
               known == Left(b, all, cell, s.nbLines, s.lastPos)
    <3>1. open = done
      <4>1. s.blocks # <<>>
        BY <1>1, <2>1
      <4> QED BY <1>9, <4>1
    <3>2. done = known
      <4>1. done = [s EXCEPT !.current = all, !.shifted = cell, !.blocks = SubSeq(@, 1, Len(@) - 1)]
        BY DEF Uncompressed
      <4> HIDE DEF done, all, cell
      <4> QED BY <1>4, <4>1
    <3>3. all # <<>>
      BY <1>1
    <3>4. less = [done EXCEPT !.current = SubSeq(@, 1, Len(@) - 1),
                              !.shifted = SubSeq(@, 1, Len(@) - 1)]
      <4>1. open.current # <<>>
        <5>1. known.current = all
          OBVIOUS
        <5> HIDE DEF open, done, known, all
        <5> QED BY <3>1, <3>2, <3>3, <5>1
      <4> HIDE DEF open, done
      <4> QED BY <3>1, <4>1, Zenon
    <3>5. Len(all) = BlockSize /\ Len(cell) = BlockSize
      BY <1>1, <2>5
    <3> HIDE DEF less, done, all, cell
    <3> QED BY <3>2, <3>4, <3>5
  <2> HIDE DEF block, cell
  <2>7. /\ c \in Seq(Nat) /\ h \in Seq(Nat)
        /\ Len(c) = BlockSize - 1 /\ Len(h) = BlockSize - 1
        /\ \A i \in 1..(BlockSize - 1) : c[i] = cell[i] + block.first /\ h[i] = cell[i]
    <3>1. ASSUME NEW q \in [1..BlockSize -> Nat]
          PROVE /\ SubSeq(q, 1, BlockSize - 1) \in Seq(Nat)
                /\ Len(SubSeq(q, 1, BlockSize - 1)) = BlockSize - 1
                /\ \A i \in 1..(BlockSize - 1) : SubSeq(q, 1, BlockSize - 1)[i] = q[i]
      BY <1>1, <3>1
    <3>2. all \in [1..BlockSize -> Nat]
      BY <1>1, <2>4, <2>5
    <3>3. \A i \in 1..(BlockSize - 1) : all[i] = cell[i] + block.first
      BY <1>1
    <3> HIDE DEF all
    <3> QED BY <2>5, <3>1, <3>2, <3>3
  <2>8. /\ b \in Seq([first : Nat, offset : Nat]) /\ Len(b) = full - 1
        /\ \A k \in 1..(full - 1) : b[k] = s.blocks[k]
    <3> DEFINE Blocks == [first : Nat, offset : Nat]
    <3>1. s.blocks \in Seq(Blocks) /\ full - 1 \in Nat
      BY <1>1, <1>2, <2>1
    <3> HIDE DEF Blocks
    <3>2. b \in Seq(Blocks) /\ Len(b) = full - 1
      BY <2>1, <3>1
    <3>3. \A k \in 1..(full - 1) : b[k] = s.blocks[k]
      BY <2>1, <3>1
    <3> QED BY <3>2, <3>3 DEF Blocks
  <2> HIDE DEF b, c, h, all, less, t, base
  <2>9. \A i \in 1..Len(c) : c[i] = c[1] + h[i]
    <3> TAKE i \in 1..Len(c)
    <3>1. i \in 1..(BlockSize - 1) /\ 1 \in 1..(BlockSize - 1) /\ i \in 1..BlockSize
      BY <1>1, <2>7
    <3>2. cell[i] \in Nat
      BY <2>5, <3>1
    <3>3. c[i] = cell[i] + block.first /\ c[1] = 0 + block.first /\ h[i] = cell[i]
      BY <2>5, <2>7, <3>1
    <3> QED BY <2>4, <3>2, <3>3
  <2>10. \A i \in 0..(Len(c) - 1) : c[i + 1] = At(s, BlockSize * Len(b) + i)
    <3> TAKE i \in 0..(Len(c) - 1)
    <3>1. /\ i \in 0..(BlockSize - 1) /\ i + 1 \in 1..(BlockSize - 1) /\ i + 1 \in 1..BlockSize
          /\ full - 1 \in 0..(Len(s.blocks) - 1) /\ (full - 1) + 1 = full
      BY <1>1, <2>1, <2>7
    <3>2. At(s, BlockSize * (full - 1) + i)
            = s.blocks[full].first + s.packed[s.blocks[full].offset + 1][i + 1]
      BY ZenonT(40), <1>1, <3>1, AtPacked
    <3>3. At(s, BlockSize * Len(b) + i) = block.first + cell[i + 1]
      BY <2>8, <3>2 DEF block, cell, Unpacked
    <3>4. cell[i + 1] \in Nat
      BY <2>5, <3>1
    <3> QED BY SMTT(30), <2>4, <2>7, <3>1, <3>3, <3>4
  <2>11. s.nbLines = BlockSize * Len(b) + Len(c) + 1
    <3>1. s.nbLines = base + BlockSize
      BY <1>1, <1>5, <2>1, <2>2
    <3>2. s.nbLines = base + Len(c) + 1
      BY <1>1, <2>2, <2>7, <3>1
    <3> QED BY <2>8, <3>2 DEF base
  <2>12. AllButLast(s, b, c, h)
    <3>1. Len(b) <= Len(s.blocks) /\ Len(c) < BlockSize /\ Len(h) = Len(c)
      BY <1>1, <2>7, <2>8
    <3> QED BY <2>7, <2>8, <2>9, <2>10, <2>11, <3>1 DEF AllButLast
  <2> HIDE DEF n, full, Left, open, last
  <2> QED BY <1>7, <2>6, <2>12, Zenon DEF t
<1> QED BY <1>8, <1>9
=============================================================================
