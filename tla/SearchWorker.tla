---------------------------- MODULE SearchWorker -----------------------------
(***************************************************************************)
(* A search over an indexed log: LogFilteredDataWorker, the SearchOperation *)
(* it runs in its thread pool, and SearchData, the mutex protected results  *)
(* that the worker fills and the main thread takes away.                   *)
(*                                                                         *)
(* The worker reads blocks of lines in order and hands them to matchers;   *)
(* the matched blocks are joined in any order.  The main thread never sees *)
(* the set of all matches: it takes what was added and what was removed    *)
(* since it last looked, and keeps the sum itself (module Search).         *)
(*                                                                         *)
(* The index is the one LogDataWorker builds (module LogData); here it is  *)
(* the sequence of what the lines contain, which grows, or is cleared and  *)
(* built again, while a search reads it.                                   *)
(***************************************************************************)
EXTENDS Naturals, Sequences, FiniteSets

CONSTANTS
    Patterns,           \* the regular expressions the user types
    Contents,           \* what a line may contain
    Hits,               \* Hits[p]: the contents that pattern p matches
    None,               \* no pattern
    ChunkLines,         \* Configuration::searchReadBufferSizeLines()
    BlocksInFlight,     \* the threshold of the limiter node
    MaxLines            \* bound on the length of the log

ASSUME SearchAssumption ==
    /\ Hits \in [Patterns -> SUBSET Contents]
    /\ None \notin Patterns
    /\ ChunkLines \in Nat \ {0} /\ BlocksInFlight \in Nat \ {0}
    /\ MaxLines \in Nat

VARIABLES
    index,          \* the lines of sourceLogData_, from line 0 on
    data,           \* searchData_
    op,             \* the operation in operationsPool_, or what is left of it
    interrupted,    \* interruptRequested_
    signals,        \* the signals posted to the main thread, in their order
    holes           \* history: a line before data.processed was not searched

workerVars == <<data, op, interrupted, holes>>

Lines == 0..(MaxLines - 1)
Least(a, b) == IF a < b THEN a ELSE b
Most(a, b) == IF a > b THEN a ELSE b

\* The numbers of the lines that p matches, when the first of them is first.
MatchesIn(p, contents, first) ==
    {first + i - 1 : i \in {j \in 1..Len(contents) : contents[j] \in Hits[p]}}

-----------------------------------------------------------------------------
(* SearchData.  "of" is history: the number of the search it holds. *)

Results == [matches : SUBSET Lines, new : SUBSET Lines, removed : SUBSET Lines,
            processed : 0..MaxLines, count : 0..MaxLines, of : Nat]

ClearedResults(search) ==
    [matches |-> {}, new |-> {}, removed |-> {}, processed |-> 0, count |-> 0,
     of |-> search]

AddAll(d, found, upto) ==
    [d EXCEPT !.matches = @ \cup found,
              !.new = @ \cup found,
              !.count = @ + Cardinality(found),
              !.processed = Most(@, upto)]

\* A fault of DeleteMatch: only what the main thread has not taken is removed.
DeleteMatch_NewOnly(d, line) ==
    [d EXCEPT !.matches = @ \ {line}, !.new = @ \ {line},
              !.count = IF line \in d.matches THEN @ - 1 ELSE @]

DeleteMatch(d, line) ==
    IF line \in d.matches
    THEN [d EXCEPT !.matches = @ \ {line}, !.new = @ \ {line},
                   !.removed = @ \cup {line}, !.count = @ - 1]
    ELSE [d EXCEPT !.new = @ \ {line}]

\* takeCurrentResults leaves the sums and empties both differences.
TakeCurrentResults(d) == [d EXCEPT !.new = {}, !.removed = {}]

-----------------------------------------------------------------------------
(* The operation.  Lines are numbered from 0; next is chunkStart, last the  *)
(* endLine of doSearch, from its initialLine.  A search begins with line 0:  *)
(* the first of the user's two search limits is left out.                   *)

Blocks == [start : Lines, lines : Seq(Contents)]

IdleOp == [pc |-> "idle", kind |-> "full", regexp |-> None, end |-> 0,
           position |-> 0, search |-> 0, from |-> 0, last |-> 0, next |-> 0,
           blocks |-> {}, joining |-> {}, done |-> 0, count |-> 0, toldCount |-> 0, percent |-> 0]

Idle == op.pc = "idle"

\* The signals of the operation, through those of the worker.
Progress(n, percent) ==
    [kind |-> "progress", n |-> n, percent |-> percent, search |-> op.search]

\* search and updateSearch wait for the pool, clear the flag and start the
\* runnable, which waits for operationsMutex_ until they have returned.
Request(kind, p, end, position, search) ==
    /\ Idle
    /\ interrupted' = FALSE
    /\ op' = [IdleOp EXCEPT !.pc = "requested", !.kind = kind, !.regexp = p,
                            !.end = end, !.position = position, !.search = search]

Interrupt == interrupted' = TRUE

\* The start of doSearch over what d holds.
Started(d, initial) ==
    [op EXCEPT !.pc = "searching", !.from = initial, !.next = initial,
               !.last = Least(Len(index), op.end),
               !.count = d.count, !.toldCount = d.count]

\* FullSearchOperation::run up to the loop of doSearch
BeginFull ==
    /\ op.pc = "requested" /\ op.kind = "full"
    /\ data' = ClearedResults(op.search)
    /\ op' = Started(data', 0)
    /\ holes' = FALSE
    /\ UNCHANGED <<index, interrupted, signals>>

\* A fault of Resumed: the last line of the previous search is taken as final.
Resumed_NoRescan(line) == [initial |-> line, data |-> data]

\* Where an update begins, and SearchData without the line it searches again.
Resumed(line) ==
    IF line >= 1
    THEN [initial |-> line - 1, data |-> DeleteMatch(data, line - 1)]
    ELSE [initial |-> line, data |-> data]

\* UpdateSearchOperation::run up to the loop of doSearch
BeginUpdate ==
    /\ op.pc = "requested" /\ op.kind = "update"
    /\ LET resumed == Resumed(Most(data.processed, op.position))
       IN /\ data' = resumed.data
          /\ op' = Started(resumed.data, resumed.initial)
    /\ UNCHANGED <<index, interrupted, signals, holes>>

\* getLinesRaw: nothing when the index no longer has all the lines.
LinesRaw(first, n) ==
    IF n = 0 \/ first + n > Len(index) THEN <<>> ELSE SubSeq(index, first + 1, first + n)

Reading == op.pc = "searching" /\ op.next < op.last /\ ~interrupted

\* One chunk is read and put into the graph, which has room for it.
ReadChunk ==
    /\ Reading
    /\ Cardinality(op.blocks) < BlocksInFlight
    /\ op' = [op EXCEPT
                !.next = op.next + ChunkLines,
                !.blocks = @ \cup {[start |-> op.next,
                                    lines |-> LinesRaw(op.next, Least(ChunkLines, op.last - op.next))]}]
    /\ UNCHANGED <<index, data, interrupted, signals, holes>>

\* The match processor takes a block that a matcher has searched, if nobody has
\* interrupted the search by then.  Blocks that are matched after an interruption
\* are empty, and dropped like the others.
TakeBlock ==
    /\ op.pc = "searching" /\ ~interrupted /\ op.joining = {}
    /\ \E b \in op.blocks : op' = [op EXCEPT !.joining = {b}]
    /\ UNCHANGED <<index, data, interrupted, signals, holes>>

\* It joins the block, which leaves room for another, and reports it.
JoinBlock ==
    /\ op.joining # {}
    /\ \E b \in op.joining :
          LET found == MatchesIn(op.regexp, b.lines, b.start)
              done == op.done + Len(b.lines)
              count == op.count + Cardinality(found)
              percent == (100 * done) \div (op.last - op.from)
              reports == percent > op.percent \/ count > op.toldCount
          IN /\ data' = IF b.lines = <<>> THEN data
                        ELSE AddAll(data, found, b.start + Len(b.lines))
             /\ op' = [op EXCEPT !.blocks = @ \ {b}, !.joining = {},
                                 !.done = done, !.count = count,
                                 !.percent = IF reports THEN percent ELSE @,
                                 !.toldCount = IF reports THEN count ELSE @]
             /\ signals' = IF reports
                           THEN Append(signals, Progress(count, Least(99, percent)))
                           ELSE signals
             \* an index that is being rebuilt has no such lines to search
             /\ holes' = (holes \/ b.lines = <<>>)
    /\ UNCHANGED <<index, interrupted>>

\* After an interruption every block that is still in the graph is dropped.
DropBlocks ==
    /\ op.pc = "searching" /\ interrupted /\ op.blocks # {} /\ op.joining = {}
    /\ op' = [op EXCEPT !.blocks = {}]
    /\ holes' = (holes \/ \E b \in op.blocks : b.start < data.processed)
    /\ UNCHANGED <<index, data, interrupted, signals>>

\* A fault of FinishSearch: an interrupted search posts no last signal.
FinishSearch_SilentIfInterrupted ==
    /\ op.pc = "searching" /\ ~Reading /\ op.blocks = {}
    /\ op' = [IdleOp EXCEPT !.end = op.end]
    /\ signals' = IF interrupted THEN signals ELSE Append(signals, Progress(op.count, 100))
    /\ UNCHANGED <<index, data, interrupted, holes>>

\* The graph is empty: the last signal, and the end of the runnable.
FinishSearch ==
    /\ op.pc = "searching" /\ ~Reading /\ op.blocks = {}
    /\ op' = [IdleOp EXCEPT !.end = op.end]
    /\ signals' = Append(signals, Progress(op.count, 100))
    /\ UNCHANGED <<index, data, interrupted, holes>>

SearchStep ==
    \/ BeginFull \/ BeginUpdate \/ ReadChunk \/ TakeBlock \/ JoinBlock \/ DropBlocks
    \/ FinishSearch
=============================================================================
