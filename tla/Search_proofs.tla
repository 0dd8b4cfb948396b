---------------------------- MODULE Search_proofs ----------------------------
(***************************************************************************)
(* Proofs about Search with its worker, for any patterns and contents, any *)
(* size of the blocks and any number of them in the graph.  In layers, each *)
(* of which rests on the ones before:                                      *)
(*   Typed      types, and what the worker's counters and blocks add up to *)
(*   AddUpInv   the list and what it was not told yet are the results      *)
(*   TruthInv   at rest the window shows no search, and its list's count   *)
(*   BookInv    which search the signals, the worker and the list are for  *)
(*   ExactInv   the results and the cache are what the log shows           *)
(*   FollowInv  with auto-refresh on, up to and with its last line         *)
(***************************************************************************)
EXTENDS Search, FiniteSetTheorems, SequenceTheorems, TLAPS

-----------------------------------------------------------------------------
(* Types *)

Found == [start : Lines, lines : Logs]

Operations ==
    [pc : {"idle", "requested", "searching"}, kind : {"full", "update"},
     regexp : Patterns \cup {None}, end : 0..MaxLines, position : 0..MaxLines,
     search : Nat, from : 0..MaxLines, last : 0..MaxLines, next : Nat,
     blocks : SUBSET Found, joining : SUBSET Found, done : 0..MaxLines,
     count : 0..MaxLines, toldCount : 0..MaxLines, percent : 0..100]

Signals ==
    [kind : {"progress"}, n : 0..MaxLines, percent : 0..100, search : Nat]
    \cup [kind : {"view"}, n : 0..MaxLines, percent : {100}]
    \cup [kind : {"loaded", "start"}]

WorkerTypes ==
    /\ index \in Logs /\ data \in Results /\ op \in Operations
    /\ IsFiniteSet(op.blocks) /\ Cardinality(op.blocks) <= BlocksInFlight
    /\ interrupted \in BOOLEAN /\ holes \in BOOLEAN
    /\ signals \in Seq(Signals)

-----------------------------------------------------------------------------
(* Lines *)

LEMMA LogsAre ==
    /\ MaxLines \in Nat /\ Lines \subseteq Nat
    /\ \A log \in Logs : /\ log \in Seq(Contents) /\ Len(log) \in 0..MaxLines
                         /\ DOMAIN log = 1..Len(log)
                         /\ \A i \in 1..Len(log) : log[i] \in Contents
<1>1. MaxLines \in Nat
  BY SearchAssumption
<1>2. \A log : log \in Logs <=> \E m \in 0..MaxLines : log \in [1..m -> Contents]
  BY DEF Logs, BoundedSeq, SeqOf
<1>3. ASSUME NEW log \in Logs
      PROVE /\ log \in Seq(Contents) /\ Len(log) \in 0..MaxLines
            /\ DOMAIN log = 1..Len(log)
            /\ \A i \in 1..Len(log) : log[i] \in Contents
  <2>1. PICK m \in 0..MaxLines : log \in [1..m -> Contents]
    BY <1>2
  <2>2. log \in Seq(Contents) /\ Len(log) = m
    BY <1>1, <2>1
  <2>3. QED
    BY <2>1, <2>2
<1>4. QED
  BY <1>1, <1>3 DEF Lines

LEMMA LogsHold ==
    ASSUME NEW s \in Seq(Contents), Len(s) <= MaxLines
    PROVE s \in Logs
<1>1. Len(s) \in 0..MaxLines /\ s \in [1..Len(s) -> Contents]
  BY SearchAssumption
<1>2. QED
  BY <1>1 DEF Logs, BoundedSeq, SeqOf

\* Sets of lines are finite, of at most as many as the log may have.
LEMMA LineSets ==
    ASSUME NEW S \in SUBSET Lines
    PROVE IsFiniteSet(S) /\ Cardinality(S) \in 0..MaxLines
<1>1. IsFiniteSet(Lines) /\ Cardinality(Lines) = MaxLines
  <2>1. 0 \in Int /\ MaxLines - 1 \in Int /\ MaxLines \in Nat
    BY SearchAssumption
  <2>2. /\ IsFiniteSet(0..(MaxLines - 1))
        /\ Cardinality(0..(MaxLines - 1)) =
              IF 0 > MaxLines - 1 THEN 0 ELSE (MaxLines - 1) - 0 + 1
    BY <2>1, FS_Interval
  <2>3. QED
    BY <2>1, <2>2 DEF Lines
<1>2. IsFiniteSet(S) /\ Cardinality(S) <= Cardinality(Lines)
  BY <1>1, FS_Subset
<1>3. Cardinality(S) \in Nat
  BY <1>2, FS_CardinalityType
<1>4. QED
  BY <1>1, <1>2, <1>3, SearchAssumption

\* What is read: all of the lines asked for, or nothing.
LEMMA RawLines ==
    ASSUME index \in Logs, NEW first \in Nat, NEW n \in Nat
    PROVE /\ LinesRaw(first, n) \in Logs
          /\ LinesRaw(first, n) # <<>> =>
                first + n <= Len(index) /\ Len(LinesRaw(first, n)) = n
          /\ Len(LinesRaw(first, n)) \in 0..n
          /\ \A i \in 1..Len(LinesRaw(first, n)) : LinesRaw(first, n)[i] = index[first + i]
<1>1. index \in Seq(Contents) /\ Len(index) \in 0..MaxLines /\ MaxLines \in Nat
  BY LogsAre
<1>2. CASE n = 0 \/ first + n > Len(index)
  <2>1. LinesRaw(first, n) = <<>>
    BY <1>2 DEF LinesRaw
  <2>2. <<>> \in Seq(Contents) /\ Len(<<>>) = 0
    OBVIOUS
  <2>3. <<>> \in Logs
    <3>1. PICK s \in Seq(Contents) : s = <<>> /\ Len(s) = 0
      BY <2>2
    <3>2. Len(s) <= MaxLines
      BY <1>1, <3>1
    <3>3. QED
      BY <3>1, <3>2, LogsHold
  <2>4. QED
    BY <2>1, <2>2, <2>3
<1>3. CASE n # 0 /\ first + n <= Len(index)
  <2>1. LinesRaw(first, n) = SubSeq(index, first + 1, first + n)
    BY <1>1, <1>3 DEF LinesRaw
  <2>2. /\ SubSeq(index, first + 1, first + n) \in Seq(Contents)
        /\ Len(SubSeq(index, first + 1, first + n)) = n
    BY <1>1, <1>3
  <2>3. \A i \in 1..n : SubSeq(index, first + 1, first + n)[i] = index[first + i]
    BY <1>1, <1>3
  <2>4. n <= MaxLines
    BY <1>1, <1>3
  <2>5. LinesRaw(first, n) \in Logs
    BY <2>1, <2>2, <2>4, LogsHold
  <2>6. QED
    BY <1>1, <1>3, <2>1, <2>2, <2>3, <2>5
<1>4. first + n > Len(index) \/ first + n <= Len(index)
  BY <1>1
<1>5. QED
  BY <1>2, <1>3, <1>4

LEMMA Minimum ==
    ASSUME NEW a \in Int, NEW b \in Int
    PROVE /\ Least(a, b) \in {a, b} /\ Least(a, b) <= a /\ Least(a, b) <= b
          /\ Most(a, b) \in {a, b} /\ Most(a, b) >= a /\ Most(a, b) >= b
BY DEF Least, Most

\* What a pattern matches in some lines is among these lines.
LEMMA MatchesAre ==
    ASSUME NEW p, NEW contents \in Logs, NEW first \in Nat
    PROVE MatchesIn(p, contents, first) =
             {l \in first..(first + Len(contents) - 1) : contents[l - first + 1] \in Hits[p]}
<1>1. Len(contents) \in Nat
  BY LogsAre
<1>2. ASSUME NEW l \in MatchesIn(p, contents, first)
      PROVE /\ l \in first..(first + Len(contents) - 1)
            /\ contents[l - first + 1] \in Hits[p]
  <2>1. PICK i \in 1..Len(contents) : l = first + i - 1 /\ contents[i] \in Hits[p]
    BY DEF MatchesIn
  <2>2. l - first + 1 = i
    BY <1>1, <2>1
  <2>3. QED
    BY <1>1, <2>1, <2>2
<1>3. ASSUME NEW l \in first..(first + Len(contents) - 1),
             contents[l - first + 1] \in Hits[p]
      PROVE l \in MatchesIn(p, contents, first)
  <2>1. PICK i \in 1..Len(contents) : i = l - first + 1
    BY <1>1
  <2>2. l = first + i - 1
    BY <1>1, <2>1
  <2>3. QED
    BY <1>3, <2>1, <2>2 DEF MatchesIn
<1>4. QED
  BY <1>2, <1>3

-----------------------------------------------------------------------------
(* The worker *)

Rows(b) == b.start..(b.start + Len(b.lines) - 1)
RowsOf(blocks) == UNION {Rows(b) : b \in blocks}

\* The blocks in the graph are apart from each other and from what was found, within
\* what was asked for and has been read; the lines that were joined or will be are at
\* most those read, and no line was counted twice.
Blocked ==
    /\ op.joining \subseteq op.blocks
    /\ op.pc # "searching" => op.blocks = {} /\ op.done = 0
    /\ \A b \in op.blocks :
          /\ op.from <= b.start /\ b.start < op.last
          /\ b.start + Len(b.lines) <= op.last
          /\ b.start + Len(b.lines) <= op.next
          /\ Rows(b) \cap data.matches = {}
    /\ \A a, b \in op.blocks : a = b \/ Rows(a) \cap Rows(b) = {}
    /\ op.pc = "searching" => \A l \in data.matches : l < op.next
    /\ \A l \in data.matches : l < data.processed

Counted ==
    /\ op.done + Cardinality(RowsOf(op.blocks)) + op.from <= op.next
    /\ \/ op.done + Cardinality(RowsOf(op.blocks)) = 0
       \/ op.done + Cardinality(RowsOf(op.blocks)) + op.from <= op.last
    /\ data.count = Cardinality(data.matches)
    /\ op.pc = "searching" => op.count = data.count

WorkerInv == WorkerTypes /\ Blocked /\ Counted

LEMMA RowsAre ==
    ASSUME NEW b \in Found
    PROVE /\ b.start \in Nat /\ b.start \in Lines /\ b.lines \in Logs
          /\ Len(b.lines) \in 0..MaxLines
          /\ IsFiniteSet(Rows(b)) /\ Cardinality(Rows(b)) = Len(b.lines)
          /\ Rows(b) \subseteq Nat
          /\ b.start + Len(b.lines) <= MaxLines => Rows(b) \subseteq Lines
<1>1. b.start \in Lines /\ b.lines \in Logs /\ b.start \in Nat /\ Len(b.lines) \in 0..MaxLines
  BY LogsAre DEF Found
<1>2. b.start \in Int /\ b.start + Len(b.lines) - 1 \in Int /\ MaxLines \in Nat
  BY <1>1, LogsAre
<1>3. /\ IsFiniteSet(Rows(b))
      /\ Cardinality(Rows(b)) = IF b.start > b.start + Len(b.lines) - 1 THEN 0
                                ELSE (b.start + Len(b.lines) - 1) - b.start + 1
  BY <1>2, FS_Interval DEF Rows
<1>4. QED
  BY <1>1, <1>2, <1>3 DEF Rows, Lines

\* The lines in the graph when a block enters it, and when it has left.
LEMMA RowsChange ==
    ASSUME NEW blocks \in SUBSET Found, NEW b \in Found,
           RowsOf(blocks) \subseteq Lines, Rows(b) \subseteq Lines,
           \A a \in blocks : a = b \/ Rows(a) \cap Rows(b) = {}
    PROVE /\ Cardinality(RowsOf(blocks)) \in 0..MaxLines
          /\ Cardinality(RowsOf(blocks \cup {b})) \in 0..MaxLines
          /\ Cardinality(RowsOf(blocks \cup {b})) <= Cardinality(RowsOf(blocks)) + Len(b.lines)
          /\ b \in blocks =>
                Cardinality(RowsOf(blocks \ {b})) = Cardinality(RowsOf(blocks)) - Len(b.lines)
<1>1. /\ Cardinality(Rows(b)) = Len(b.lines) /\ IsFiniteSet(Rows(b)) /\ Len(b.lines) \in Nat
      /\ MaxLines \in Nat
  BY RowsAre, LogsAre
<1>2. /\ IsFiniteSet(RowsOf(blocks)) /\ Cardinality(RowsOf(blocks)) \in 0..MaxLines
  BY LineSets
<1>3. RowsOf(blocks \cup {b}) = RowsOf(blocks) \cup Rows(b)
  BY DEF RowsOf
<1>4. /\ RowsOf(blocks \cup {b}) \subseteq Lines
      /\ Cardinality(RowsOf(blocks \cup {b})) \in 0..MaxLines
  BY <1>3, LineSets
<1>5. /\ Cardinality(RowsOf(blocks) \cup Rows(b)) =
            Cardinality(RowsOf(blocks)) + Cardinality(Rows(b))
                - Cardinality(RowsOf(blocks) \cap Rows(b))
  BY <1>1, <1>2, FS_Union
<1>6. Cardinality(RowsOf(blocks) \cap Rows(b)) \in 0..MaxLines
  <2>1. RowsOf(blocks) \cap Rows(b) \in SUBSET Lines
    OBVIOUS
  <2>2. QED
    BY <2>1, LineSets
<1>7. ASSUME b \in blocks
      PROVE Cardinality(RowsOf(blocks \ {b})) = Cardinality(RowsOf(blocks)) - Len(b.lines)
  <2>1. RowsOf(blocks \ {b}) = RowsOf(blocks) \ Rows(b) /\ Rows(b) \subseteq RowsOf(blocks)
    BY <1>7 DEF RowsOf
  <2>2. Cardinality(RowsOf(blocks) \ Rows(b)) =
           Cardinality(RowsOf(blocks)) - Cardinality(RowsOf(blocks) \cap Rows(b))
    BY <1>2, FS_Difference
  <2>3. RowsOf(blocks) \cap Rows(b) = Rows(b)
    BY <2>1
  <2>4. QED
    BY <1>1, <2>1, <2>2, <2>3
<1>8. Cardinality(RowsOf(blocks \cup {b})) <= Cardinality(RowsOf(blocks)) + Len(b.lines)
  <2>1. PICK c, d, e \in Nat : /\ c = Cardinality(RowsOf(blocks)) /\ d = Len(b.lines)
                              /\ e = Cardinality(RowsOf(blocks) \cap Rows(b))
    BY <1>1, <1>2, <1>6
  <2>2. Cardinality(RowsOf(blocks \cup {b})) = c + d - e
    BY <1>1, <1>3, <1>5, <2>1
  <2>3. c + d - e <= c + d
    OBVIOUS
  <2>4. QED
    BY <2>1, <2>2, <2>3
<1>9. QED
  BY <1>2, <1>4, <1>7, <1>8

LEMMA InGraph ==
    ASSUME WorkerInv
    PROVE /\ op.blocks \in SUBSET Found /\ op.joining \in SUBSET Found
          /\ RowsOf(op.blocks) \subseteq Lines
          /\ \A b \in op.blocks : Rows(b) \subseteq Lines
          /\ Cardinality(RowsOf(op.blocks)) \in 0..MaxLines
<1>1. op.blocks \in SUBSET Found /\ op.joining \in SUBSET Found /\ op.last \in 0..MaxLines
  BY DEF WorkerInv, WorkerTypes, Operations
<1>2. ASSUME NEW b \in op.blocks PROVE Rows(b) \subseteq Lines
  <2>1. b.start + Len(b.lines) <= op.last /\ b \in Found
    BY <1>1 DEF WorkerInv, Blocked
  <2>2. b.start + Len(b.lines) <= MaxLines
    <3>1. b.start \in Nat /\ Len(b.lines) \in Nat /\ MaxLines \in Nat
      BY <2>1, RowsAre, LogsAre
    <3>2. QED
      BY <1>1, <2>1, <3>1
  <2>3. QED
    BY <2>1, <2>2, RowsAre
<1>3. RowsOf(op.blocks) \subseteq Lines
  BY <1>2 DEF RowsOf
<1>4. QED
  BY <1>1, <1>2, <1>3, LineSets

\* Where an operation stands before and after its blocks.
LEMMA NoBlocks ==
    ASSUME NEW found \in SUBSET Lines
    PROVE /\ RowsOf({}) = {} /\ Cardinality(RowsOf({})) = 0
          /\ IsFiniteSet({}) /\ Cardinality({}) = 0 /\ 0 <= BlocksInFlight
          /\ Cardinality(found) \in 0..MaxLines /\ IsFiniteSet(found)
<1>1. RowsOf({}) = {}
  BY DEF RowsOf
<1>2. QED
  BY <1>1, FS_EmptySet, LineSets, SearchAssumption

LEMMA IdleOperation ==
    /\ IdleOp \in Operations
    /\ IdleOp.pc = "idle" /\ IdleOp.blocks = {} /\ IdleOp.joining = {} /\ IdleOp.done = 0
    /\ IdleOp.from = 0 /\ IdleOp.next = 0 /\ IdleOp.last = 0
    /\ \A n \in 0..MaxLines : [IdleOp EXCEPT !.end = n] \in Operations
<1>1. MaxLines \in Nat
  BY SearchAssumption
<1>2. QED
  BY <1>1 DEF IdleOp, Operations

\* The fields of an operation that its steps set.
LEMMA OperationFields ==
    ASSUME NEW o \in Operations
    PROVE /\ \A from, last, count \in 0..MaxLines, next \in Nat :
                [o EXCEPT !.pc = "searching", !.from = from, !.next = next, !.last = last,
                          !.count = count, !.toldCount = count] \in Operations
          /\ \A blocks \in SUBSET Found, next \in Nat :
                [o EXCEPT !.next = next, !.blocks = blocks] \in Operations
          /\ \A joining \in SUBSET Found : [o EXCEPT !.joining = joining] \in Operations
          /\ \A blocks \in SUBSET Found : [o EXCEPT !.blocks = blocks] \in Operations
<1> DEFINE L == 0..MaxLines
           B == SUBSET Found
           P == Patterns \cup {None}
           H == 0..100
<1>1. Operations =
        [pc : {"idle", "requested", "searching"}, kind : {"full", "update"},
         regexp : P, end : L, position : L, search : Nat, from : L, last : L, next : Nat,
         blocks : B, joining : B, done : L, count : L, toldCount : L, percent : H]
  BY DEF Operations
<1> HIDE DEF L, B, P, H
<1>2. /\ \A from, last, count \in L, next \in Nat :
            [o EXCEPT !.pc = "searching", !.from = from, !.next = next, !.last = last,
                      !.count = count, !.toldCount = count] \in Operations
      /\ \A blocks \in B, next \in Nat :
            [o EXCEPT !.next = next, !.blocks = blocks] \in Operations
      /\ \A joining \in B : [o EXCEPT !.joining = joining] \in Operations
      /\ \A blocks \in B : [o EXCEPT !.blocks = blocks] \in Operations
  BY <1>1
<1>3. QED
  BY <1>2 DEF L, B

LEMMA JoinedFields ==
    ASSUME NEW o \in Operations
    PROVE \A blocks \in SUBSET Found, done, count, told \in 0..MaxLines, percent \in 0..100 :
             [o EXCEPT !.blocks = blocks, !.joining = {}, !.done = done, !.count = count,
                       !.percent = percent, !.toldCount = told] \in Operations
<1> DEFINE L == 0..MaxLines
           B == SUBSET Found
           P == Patterns \cup {None}
           H == 0..100
<1>1. Operations =
        [pc : {"idle", "requested", "searching"}, kind : {"full", "update"},
         regexp : P, end : L, position : L, search : Nat, from : L, last : L, next : Nat,
         blocks : B, joining : B, done : L, count : L, toldCount : L, percent : H]
  BY DEF Operations
<1>2. {} \in B
  OBVIOUS
<1> HIDE DEF L, B, P, H
<1>3. \A blocks \in B, done, count, told \in L, percent \in H :
         [o EXCEPT !.blocks = blocks, !.joining = {}, !.done = done, !.count = count,
                   !.percent = percent, !.toldCount = told] \in Operations
  BY <1>1, <1>2
<1>4. QED
  BY <1>3 DEF L, B, H

\* An operation that has not begun reading over the results d.
LEMMA StartedBlocked ==
    ASSUME WorkerInv, NEW d \in Results, NEW initial \in 0..MaxLines, op.pc = "requested",
           d.count = Cardinality(d.matches),
           \A l \in d.matches : l < initial /\ l < d.processed,
           op' = Started(d, initial), data' = d, holes' \in BOOLEAN,
           UNCHANGED <<index, interrupted, signals>>
    PROVE WorkerInv'
<1>1. /\ index \in Logs /\ op \in Operations /\ op.blocks = {} /\ op.joining = {}
      /\ op.done = 0 /\ Len(index) \in 0..MaxLines
      /\ MaxLines \in Nat
  BY LogsAre DEF WorkerInv, WorkerTypes, Blocked
<1>2. PICK last \in 0..MaxLines : last = Least(Len(index), op.end)
  <2>1. op.end \in 0..MaxLines
    BY <1>1 DEF Operations
  <2>2. QED
    BY <1>1, <2>1, Minimum
<1>3. d.count \in 0..MaxLines /\ d.matches \in SUBSET Lines
  BY DEF Results
<1>4. op' = [op EXCEPT !.pc = "searching", !.from = initial, !.next = initial, !.last = last,
                       !.count = d.count, !.toldCount = d.count]
  BY <1>2 DEF Started
<1>5. op' \in Operations
  <2>1. initial \in Nat
    BY <1>1
  <2>2. \A f, l, c \in 0..MaxLines, n \in Nat :
           [op EXCEPT !.pc = "searching", !.from = f, !.next = n, !.last = l,
                      !.count = c, !.toldCount = c] \in Operations
    BY <1>1, OperationFields
  <2>3. [op EXCEPT !.pc = "searching", !.from = initial, !.next = initial, !.last = last,
                   !.count = d.count, !.toldCount = d.count] \in Operations
    BY <1>3, <2>1, <2>2
  <2>4. QED
    BY <1>4, <2>3
<1>6. /\ op'.pc = "searching" /\ op'.blocks = {} /\ op'.joining = {} /\ op'.done = 0
      /\ op'.from = initial /\ op'.next = initial /\ op'.count = d.count /\ op'.last = last
  BY <1>1, <1>4 DEF Operations
<1>7. WorkerTypes'
  BY <1>1, <1>5, <1>6, NoBlocks DEF WorkerInv, WorkerTypes
<1>8. Blocked'
  BY <1>6 DEF Blocked
<1>9. Counted'
  <2>1. Cardinality(RowsOf(op'.blocks)) = 0
    BY <1>6, NoBlocks
  <2>2. QED
    BY <1>1, <1>2, <1>6, <2>1 DEF Counted
<1>10. QED
  BY <1>7, <1>8, <1>9 DEF WorkerInv

LEMMA BeginFullKeeps == WorkerInv /\ BeginFull => WorkerInv'
<1> SUFFICES ASSUME WorkerInv, BeginFull PROVE WorkerInv'
  OBVIOUS
<1>1. op.search \in Nat /\ MaxLines \in Nat
  BY SearchAssumption DEF WorkerInv, WorkerTypes, Operations
<1> DEFINE d == ClearedResults(op.search)
<1>2. d \in Results /\ d.matches = {} /\ d.count = 0
  BY <1>1 DEF ClearedResults, Results
<1>3. 0 \in 0..MaxLines /\ d.count = Cardinality(d.matches)
  BY <1>1, <1>2, FS_EmptySet
<1>4. /\ op.pc = "requested" /\ op' = Started(d, 0) /\ data' = d /\ holes' \in BOOLEAN
      /\ UNCHANGED <<index, interrupted, signals>>
  BY DEF BeginFull
<1> HIDE DEF d
<1>5. QED
  BY <1>2, <1>3, <1>4, StartedBlocked

\* The last line is searched again: it leaves the results and their count.
LEMMA ResumedResults ==
    ASSUME WorkerInv, NEW line \in 0..MaxLines, data.processed <= line
    PROVE /\ Resumed(line).data \in Results /\ Resumed(line).initial \in 0..MaxLines
          /\ Resumed(line).data.count = Cardinality(Resumed(line).data.matches)
          /\ Resumed(line).data.processed = data.processed
          /\ Resumed(line).data.of = data.of
          /\ Resumed(line).initial <= line /\ line <= Resumed(line).initial + 1
          /\ \A l \in Lines : l \in Resumed(line).data.matches
                                <=> l \in data.matches /\ l < Resumed(line).initial
<1>1. /\ data \in Results /\ data.count = Cardinality(data.matches) /\ MaxLines \in Nat
      /\ data.matches \in SUBSET Lines
      /\ \A l \in data.matches : l < data.processed
      /\ data.processed \in 0..MaxLines /\ data.count \in 0..MaxLines
  BY LogsAre DEF WorkerInv, WorkerTypes, Blocked, Counted, Results
<1>2. CASE line = 0
  <2>1. Resumed(line) = [initial |-> line, data |-> data]
    BY <1>2 DEF Resumed
  <2>2. \A l \in Lines : l \in data.matches <=> l \in data.matches /\ l < line
    BY <1>1, <1>2, LogsAre
  <2>3. QED
    BY <1>1, <2>1, <2>2
<1>3. CASE line >= 1
  <2> DEFINE m == line - 1
             d == DeleteMatch(data, m)
  <2>1. Resumed(line) = [initial |-> m, data |-> d]
    BY <1>3 DEF Resumed
  <2>2. m \in 0..MaxLines /\ m <= line /\ line <= m + 1
    BY <1>1, <1>3
  <2> HIDE DEF m
  <2>3. \A l \in Lines : l \in data.matches \ {m} <=> l \in data.matches /\ l < m
    BY <1>1, <2>2, LogsAre
  <2>4. CASE m \in data.matches
    <3>1. PICK n \in 0..MaxLines : n = data.count - 1 /\ n = Cardinality(data.matches \ {m})
      <4>1. IsFiniteSet(data.matches)
        BY <1>1, LineSets
      <4>2. Cardinality(data.matches \ {m}) = Cardinality(data.matches) - 1
        BY <2>4, <4>1, FS_RemoveElement
      <4>3. Cardinality(data.matches \ {m}) \in 0..MaxLines
        BY <1>1, LineSets
      <4>4. QED
        BY <1>1, <4>2, <4>3
    <3>2. PICK kept, new, removed \in SUBSET Lines :
             /\ kept = data.matches \ {m} /\ new = data.new \ {m}
             /\ removed = data.removed \cup {m}
      BY <1>1, <2>4 DEF Results
    <3>3. d = [data EXCEPT !.matches = kept, !.new = new, !.removed = removed, !.count = n]
      BY <2>4, <3>1, <3>2 DEF DeleteMatch
    <3>4. /\ d \in Results /\ d.matches = kept /\ d.count = n
          /\ d.processed = data.processed /\ d.of = data.of
      BY <1>1, <3>1, <3>3 DEF Results
    <3> HIDE DEF d
    <3>5. d.count = Cardinality(d.matches)
      BY <3>1, <3>2, <3>4
    <3>6. QED
      <4>1. /\ Resumed(line).initial = m /\ Resumed(line).data = d
        BY <2>1
      <4>2. \A l \in Lines : l \in d.matches <=> l \in data.matches /\ l < m
        BY <2>3, <3>2, <3>4
      <4>3. QED
        BY SMTT(30), <2>2, <3>2, <3>4, <3>5, <4>1, <4>2
  <2>5. CASE m \notin data.matches
    <3>1. d = [data EXCEPT !.new = data.new \ {m}]
      BY <2>5 DEF DeleteMatch
    <3>2. /\ d \in Results /\ d.matches = data.matches /\ d.count = data.count
          /\ d.processed = data.processed /\ d.of = data.of
      BY <1>1, <3>1 DEF Results
    <3>3. data.matches \ {m} = data.matches
      BY <2>5
    <3> HIDE DEF d
    <3>4. QED
      BY <1>1, <2>1, <2>2, <2>3, <3>2, <3>3
  <2>6. QED
    BY <2>4, <2>5
<1>4. QED
  BY <1>2, <1>3

LEMMA BeginUpdateKeeps == WorkerInv /\ BeginUpdate => WorkerInv'
<1> SUFFICES ASSUME WorkerInv, BeginUpdate PROVE WorkerInv'
  OBVIOUS
<1>1. PICK line \in 0..MaxLines : line = Most(data.processed, op.position) /\ data.processed <= line
  <2>1. data.processed \in 0..MaxLines /\ op.position \in 0..MaxLines /\ MaxLines \in Nat
    BY SearchAssumption DEF WorkerInv, WorkerTypes, Results, Operations
  <2>2. QED
    BY <2>1, Minimum
<1> DEFINE d == Resumed(line).data
           initial == Resumed(line).initial
<1>2. /\ op.pc = "requested" /\ data' = d /\ op' = Started(d, initial)
      /\ UNCHANGED <<index, interrupted, signals, holes>>
  BY <1>1 DEF BeginUpdate
<1>3. /\ d \in Results /\ initial \in 0..MaxLines /\ d.count = Cardinality(d.matches)
      /\ d.processed = data.processed
      /\ \A l \in Lines : l \in d.matches <=> l \in data.matches /\ l < initial
  BY <1>1, ResumedResults
<1> HIDE DEF d, initial
<1>4. \A l \in d.matches : l < initial /\ l < d.processed
  <2>1. d.matches \subseteq Lines
    BY <1>3 DEF Results
  <2>2. \A l \in data.matches : l < data.processed
    BY DEF WorkerInv, Blocked
  <2>3. QED
    BY <1>3, <2>1, <2>2
<1>5. holes' \in BOOLEAN
  BY <1>2 DEF WorkerInv, WorkerTypes
<1>6. QED
  BY <1>2, <1>3, <1>4, <1>5, StartedBlocked

\* A block enters the graph; nothing of it was found or read before.
LEMMA ReadChunkKeeps == WorkerInv /\ ReadChunk => WorkerInv'
<1> SUFFICES ASSUME WorkerInv, ReadChunk PROVE WorkerInv'
  OBVIOUS
<1>1. /\ index \in Logs /\ op \in Operations /\ op.pc = "searching" /\ op.next < op.last
      /\ op.next \in Nat /\ op.last \in 0..MaxLines /\ op.from \in 0..MaxLines
      /\ op.done \in 0..MaxLines
      /\ MaxLines \in Nat /\ ChunkLines \in Nat \ {0} /\ BlocksInFlight \in Nat
      /\ UNCHANGED <<index, data, interrupted, signals, holes>>
      /\ Cardinality(op.blocks) < BlocksInFlight
  BY SearchAssumption DEF WorkerInv, WorkerTypes, Operations, ReadChunk, Reading
<1>2. PICK n \in Nat : /\ n = Least(ChunkLines, op.last - op.next) /\ n <= ChunkLines
                      /\ op.next + n <= op.last
  BY <1>1, Minimum
<1>3. PICK b : b = [start |-> op.next, lines |-> LinesRaw(op.next, n)]
  OBVIOUS
<1>4. /\ b \in Found /\ b.start = op.next /\ Len(b.lines) \in 0..n
      /\ op.next + Len(b.lines) <= op.last
  <2>1. LinesRaw(op.next, n) \in Logs /\ Len(LinesRaw(op.next, n)) \in 0..n
    BY <1>1, <1>2, RawLines
  <2>2. op.next \in Lines
    BY <1>1 DEF Lines
  <2>3. b \in Found /\ b.start = op.next /\ Len(b.lines) \in 0..n
    BY <1>3, <2>1, <2>2 DEF Found
  <2>4. QED
    BY <1>1, <1>2, <2>3
<1>5. PICK next \in Nat : next = op.next + ChunkLines
  BY <1>1
<1>6. op' = [op EXCEPT !.next = next, !.blocks = op.blocks \cup {b}]
  BY <1>2, <1>3, <1>5 DEF ReadChunk
<1>7. op.blocks \in SUBSET Found /\ op.blocks \cup {b} \in SUBSET Found
  BY <1>1, <1>4 DEF Operations
<1>8. op' \in Operations
  <2>1. \A blocks \in SUBSET Found, m \in Nat :
           [op EXCEPT !.next = m, !.blocks = blocks] \in Operations
    BY <1>1, OperationFields
  <2>2. [op EXCEPT !.next = next, !.blocks = op.blocks \cup {b}] \in Operations
    BY <1>7, <2>1
  <2>3. QED
    BY <1>6, <2>2
<1>9. /\ op'.pc = "searching" /\ op'.blocks = op.blocks \cup {b} /\ op'.joining = op.joining
      /\ op'.done = op.done /\ op'.from = op.from /\ op'.next = next /\ op'.count = op.count
      /\ op'.last = op.last
  BY <1>1, <1>6 DEF Operations
<1>10. WorkerTypes'
  <2>1. IsFiniteSet(op.blocks) /\ Cardinality(op.blocks) \in Nat
    BY FS_CardinalityType DEF WorkerInv, WorkerTypes
  <2>2. IsFiniteSet(op'.blocks) /\ Cardinality(op'.blocks) <= BlocksInFlight
    <3>1. /\ IsFiniteSet(op.blocks \cup {b})
          /\ Cardinality(op.blocks \cup {b}) =
                IF b \in op.blocks THEN Cardinality(op.blocks) ELSE Cardinality(op.blocks) + 1
      BY <2>1, FS_AddElement
    <3>2. Cardinality(op.blocks \cup {b}) <= BlocksInFlight
      BY <1>1, <2>1, <3>1
    <3>3. QED
      BY <1>9, <3>1, <3>2
  <2>3. QED
    BY <1>1, <1>8, <2>2 DEF WorkerInv, WorkerTypes
<1>11. \A a \in op.blocks : a.start \in Nat /\ Len(a.lines) \in Nat
  BY <1>7, RowsAre
<1>12. Rows(b) = op.next..(op.next + Len(b.lines) - 1)
  BY <1>4 DEF Rows
<1>13. \A a \in op.blocks : Rows(a) \cap Rows(b) = {}
  <2>1. PICK start \in Nat : start = op.next
    BY <1>1
  <2>2. Rows(b) = start..(start + Len(b.lines) - 1)
    BY <1>12, <2>1
  <2>3. \A a \in op.blocks : Rows(a) = a.start..(a.start + Len(a.lines) - 1)
                             /\ a.start + Len(a.lines) <= start
    BY <1>1, <2>1 DEF WorkerInv, Blocked, Rows
  <2>4. ASSUME NEW a \in op.blocks PROVE Rows(a) \cap Rows(b) = {}
    BY <1>4, <1>11, <2>2, <2>3
  <2>5. QED
    BY <2>4
<1>14. Rows(b) \cap data.matches = {}
  <2>1. \A l \in data.matches : l < op.next
    BY <1>1 DEF WorkerInv, Blocked
  <2>2. QED
    BY <1>1, <1>12, <2>1
<1>15. op.next <= next /\ op.next + Len(b.lines) <= next
  BY <1>1, <1>2, <1>4, <1>5
<1>16. \/ op.from <= op.next
       \/ op.from > op.next
  BY <1>1
<1>17. PICK c \in Nat : c = Cardinality(RowsOf(op.blocks))
  BY <1>1, InGraph
<1>18. op.done + c + op.from <= op.next
  BY <1>17 DEF WorkerInv, Counted
<1>19. Blocked'
  <2>1. op.from <= b.start
    BY <1>1, <1>4, <1>17, <1>18
  <2>2. ASSUME NEW a \in op.blocks
        PROVE /\ op.from <= a.start /\ a.start < op.last
              /\ a.start + Len(a.lines) <= op.last
              /\ a.start + Len(a.lines) <= next
              /\ Rows(a) \cap data.matches = {}
    BY <1>1, <1>11, <1>15, <2>2 DEF WorkerInv, Blocked
  <2>3. \A l \in data.matches : l < next
    <3>1. data.matches \subseteq Nat
      BY LogsAre DEF WorkerInv, WorkerTypes, Results
    <3>2. \A l \in data.matches : l < op.next
      BY <1>1 DEF WorkerInv, Blocked
    <3>3. QED
      BY <1>1, <1>15, <3>1, <3>2
  <2>4. \A a1, a2 \in op.blocks \cup {b} : a1 = a2 \/ Rows(a1) \cap Rows(a2) = {}
    BY <1>13 DEF WorkerInv, Blocked
  <2>5. op.joining \subseteq op.blocks \cup {b} /\ \A l \in data.matches : l < data.processed
    BY DEF WorkerInv, Blocked
  <2>6. \A a \in op.blocks \cup {b} :
              /\ op.from <= a.start /\ a.start < op.last
              /\ a.start + Len(a.lines) <= op.last
              /\ a.start + Len(a.lines) <= next
              /\ Rows(a) \cap data.matches = {}
    BY <1>1, <1>4, <1>14, <1>15, <2>1, <2>2
  <2>7. QED
    BY <1>1, <1>9, <2>3, <2>4, <2>5, <2>6 DEF Blocked
<1>20. Counted'
  <2>1. Rows(b) \subseteq Lines
    <3>1. b.start + Len(b.lines) <= MaxLines
      BY <1>1, <1>4
    <3>2. QED
      BY <1>4, <3>1, RowsAre
  <2>2. PICK e \in Nat : /\ e = Cardinality(RowsOf(op.blocks \cup {b}))
                        /\ e <= c + Len(b.lines)
    <3>1. RowsOf(op.blocks) \subseteq Lines
      BY InGraph
    <3>2. QED
      <4>1. /\ Cardinality(RowsOf(op.blocks \cup {b})) \in 0..MaxLines
            /\ Cardinality(RowsOf(op.blocks \cup {b}))
                  <= Cardinality(RowsOf(op.blocks)) + Len(b.lines)
        BY <1>4, <1>7, <1>13, <2>1, <3>1, RowsChange
      <4>2. QED
        BY <1>1, <1>17, <4>1
  <2>3. op.done + e + op.from <= next /\ op.done + e + op.from <= op.last
    <3>1. PICK w \in Nat : /\ w = Len(b.lines) /\ op.next + w <= next /\ op.next + w <= op.last
      BY <1>4, <1>15
    <3>2. op.done \in Nat /\ op.from \in Nat /\ op.last \in Nat
      BY <1>1
    <3>3. \A d, f, l, m, k, t \in Nat :
             d + c + f <= m /\ e <= c + k /\ m + k <= l /\ m + k <= t =>
                d + e + f <= t /\ d + e + f <= l
      OBVIOUS
    <3>4. op.done + c + op.from <= op.next /\ e <= c + w
      BY <1>18, <2>2, <3>1
    <3>5. PICK d, f, l, m, k, t \in Nat : /\ d = op.done /\ f = op.from /\ l = op.last
                                          /\ m = op.next /\ k = w /\ t = next
      BY <1>1, <3>2
    <3>6. d + e + f <= t /\ d + e + f <= l
      BY <3>1, <3>3, <3>4, <3>5
    <3>7. QED
      BY <3>5, <3>6
  <2>4. data.count = Cardinality(data.matches) /\ op.count = data.count
    BY <1>1 DEF WorkerInv, Counted
  <2>5. QED
    BY <1>1, <1>9, <2>2, <2>3, <2>4 DEF Counted
<1>21. QED
  BY <1>10, <1>19, <1>20 DEF WorkerInv

LEMMA TakeBlockKeeps == WorkerInv /\ TakeBlock => WorkerInv'
<1> SUFFICES ASSUME WorkerInv, TakeBlock PROVE WorkerInv'
  OBVIOUS
<1>1. PICK b \in op.blocks : op' = [op EXCEPT !.joining = {b}]
  BY DEF TakeBlock
<1>2. op \in Operations /\ {b} \in SUBSET Found
  BY DEF WorkerInv, WorkerTypes, Operations
<1>3. op' \in Operations
  <2>1. [op EXCEPT !.joining = {b}] \in Operations
    BY <1>2, OperationFields
  <2>2. QED
    BY <1>1, <2>1
<1>4. /\ op'.pc = op.pc /\ op'.blocks = op.blocks /\ op'.joining = {b}
      /\ op'.done = op.done /\ op'.from = op.from /\ op'.next = op.next /\ op'.count = op.count
      /\ op'.last = op.last
  BY <1>1, <1>2 DEF Operations
<1>5. UNCHANGED <<index, data, interrupted, signals, holes>>
  BY DEF TakeBlock
<1>6. QED
  BY <1>1, <1>3, <1>4, <1>5 DEF WorkerInv, WorkerTypes, Blocked, Counted

\* The blocks that are in the graph leave it, all of them.
LEMMA DropBlocksKeeps == WorkerInv /\ DropBlocks => WorkerInv'
<1> SUFFICES ASSUME WorkerInv, DropBlocks PROVE WorkerInv'
  OBVIOUS
<1>1. /\ op' = [op EXCEPT !.blocks = {}] /\ op.joining = {} /\ op.pc = "searching"
      /\ UNCHANGED <<index, data, interrupted, signals>> /\ holes' \in BOOLEAN
  BY DEF DropBlocks, WorkerInv, WorkerTypes
<1>2. op \in Operations
  BY DEF WorkerInv, WorkerTypes
<1>3. op' \in Operations
  <2>1. [op EXCEPT !.blocks = {}] \in Operations
    BY <1>2, OperationFields
  <2>2. QED
    BY <1>1, <2>1
<1>4. /\ op'.pc = op.pc /\ op'.blocks = {} /\ op'.joining = {}
      /\ op'.done = op.done /\ op'.from = op.from /\ op'.next = op.next /\ op'.count = op.count
      /\ op'.last = op.last
  BY <1>1, <1>2 DEF Operations
<1>5. WorkerTypes'
  BY <1>1, <1>3, <1>4, NoBlocks DEF WorkerInv, WorkerTypes
<1>6. Blocked'
  BY <1>1, <1>4 DEF WorkerInv, Blocked
<1>7. Counted'
  <2>1. /\ op.done \in Nat /\ op.from \in Nat /\ op.next \in Nat /\ op.last \in Nat
        /\ Cardinality(RowsOf(op.blocks)) \in Nat
    BY <1>2, InGraph, LogsAre DEF Operations
  <2>2. Cardinality(RowsOf(op'.blocks)) = 0
    BY <1>4, NoBlocks
  <2>3. QED
    BY <1>1, <1>4, <2>1, <2>2 DEF WorkerInv, Counted
<1>8. QED
  BY <1>5, <1>6, <1>7 DEF WorkerInv

LEMMA FinishSearchKeeps == WorkerInv /\ FinishSearch => WorkerInv'
<1> SUFFICES ASSUME WorkerInv, FinishSearch PROVE WorkerInv'
  OBVIOUS
<1>1. /\ op' = [IdleOp EXCEPT !.end = op.end] /\ signals' = Append(signals, Progress(op.count, 100))
      /\ UNCHANGED <<index, data, interrupted, holes>>
      /\ op \in Operations /\ op.end \in 0..MaxLines
  BY DEF FinishSearch, WorkerInv, WorkerTypes, Operations
<1>2. signals' \in Seq(Signals)
  <2>1. Progress(op.count, 100) \in Signals
    BY <1>1 DEF Progress, Signals, Operations
  <2>2. QED
    BY <1>1, <2>1 DEF WorkerInv, WorkerTypes
<1>3. op' \in Operations
  BY <1>1, IdleOperation
<1>4. /\ op'.pc = "idle" /\ op'.blocks = {} /\ op'.joining = {} /\ op'.done = 0 /\ op'.from = 0
      /\ op'.next = 0 /\ op'.last = 0
  BY <1>1, IdleOperation DEF IdleOp
<1>5. WorkerTypes'
  BY <1>1, <1>2, <1>3, <1>4, NoBlocks DEF WorkerInv, WorkerTypes
<1>6. Blocked'
  BY <1>1, <1>4 DEF WorkerInv, Blocked
<1>7. Counted'
  <2>1. Cardinality(RowsOf(op'.blocks)) = 0
    BY <1>4, NoBlocks
  <2>2. data' = data /\ data.count = Cardinality(data.matches)
    BY <1>1 DEF WorkerInv, Counted
  <2>3. QED
    BY <1>4, <2>1, <2>2 DEF Counted
<1>8. QED
  BY <1>5, <1>6, <1>7 DEF WorkerInv

LEMMA Percent ==
    ASSUME NEW a \in Nat, NEW b \in Nat \ {0}, a <= b
    PROVE (100 * a) \div b \in 0..100
OBVIOUS

\* What joining the block b does, in names.
Joins(b, found, done, count, told, percent) ==
    /\ b \in op.blocks
    /\ found = MatchesIn(op.regexp, b.lines, b.start) /\ found \subseteq Rows(b)
    /\ done = op.done + Len(b.lines)
    /\ count = Cardinality(data.matches \cup found)
    /\ data' = IF b.lines = <<>> THEN data
               ELSE [data EXCEPT !.matches = data.matches \cup found,
                                 !.new = data.new \cup found,
                                 !.count = count,
                                 !.processed = Most(data.processed,
                                                    b.start + Len(b.lines))]
    /\ op' = [op EXCEPT !.blocks = op.blocks \ {b}, !.joining = {}, !.done = done,
                        !.count = count, !.percent = percent, !.toldCount = told]
    /\ \/ signals' = signals
       \/ \E n \in 0..99 : signals' = Append(signals, Progress(count, n))
    /\ holes' = (holes \/ b.lines = <<>>)
    /\ UNCHANGED <<index, interrupted>>

LEMMA Joined ==
    ASSUME WorkerInv, JoinBlock
    PROVE \E b \in op.joining, found \in SUBSET Lines, done, count, told \in 0..MaxLines,
             percent \in 0..100 : Joins(b, found, done, count, told, percent)
<1>1. PICK b \in op.joining :
          LET found == MatchesIn(op.regexp, b.lines, b.start)
              done == op.done + Len(b.lines)
              count == op.count + Cardinality(found)
              percent == (100 * done) \div (op.last - op.from)
              reports == percent > op.percent \/ count > op.toldCount
          IN /\ data' = IF b.lines = <<>> THEN data
                        ELSE AddAll(data, found, b.start + Len(b.lines))
             /\ op' = [op EXCEPT !.blocks = @ \ {b}, !.joining = {},
                                 !.done = done, !.count = count,
                                 !.percent = IF reports THEN percent ELSE @,
                                 !.toldCount = IF reports THEN count ELSE @]
             /\ signals' = IF reports
                           THEN Append(signals, Progress(count, Least(99, percent)))
                           ELSE signals
             /\ holes' = (holes \/ b.lines = <<>>)
  BY DEF JoinBlock
<1>2. /\ b \in op.blocks /\ b \in Found /\ op \in Operations /\ data \in Results
      /\ op.pc = "searching" /\ op.count = data.count
      /\ data.count = Cardinality(data.matches) /\ data.matches \in SUBSET Lines
      /\ op.done \in Nat /\ op.from \in Nat /\ op.last \in 0..MaxLines /\ MaxLines \in Nat
      /\ op.percent \in 0..100 /\ op.toldCount \in 0..MaxLines
      /\ op.from <= b.start /\ b.start < op.last
      /\ Rows(b) \cap data.matches = {} /\ Rows(b) \subseteq Lines
  <2>1. b \in op.blocks /\ op \in Operations /\ data \in Results /\ MaxLines \in Nat
    BY <1>1, LogsAre DEF WorkerInv, WorkerTypes, Blocked
  <2>2. op.pc = "searching" /\ Rows(b) \cap data.matches = {}
        /\ op.from <= b.start /\ b.start < op.last
    BY <2>1 DEF WorkerInv, WorkerTypes, Blocked, Operations
  <2>3. op.count = data.count /\ data.count = Cardinality(data.matches)
    BY <2>2 DEF WorkerInv, Counted
  <2>4. b \in Found /\ Rows(b) \subseteq Lines
    BY <2>1, InGraph
  <2>5. /\ data.matches \in SUBSET Lines
        /\ op.done \in 0..MaxLines /\ op.from \in 0..MaxLines /\ op.last \in 0..MaxLines
        /\ op.percent \in 0..100 /\ op.toldCount \in 0..MaxLines
    BY <2>1 DEF Operations, Results
  <2>6. QED
    BY <2>1, <2>2, <2>3, <2>4, <2>5
<1>3. b.start \in Nat /\ b.lines \in Logs /\ Len(b.lines) \in Nat
  BY <1>2, RowsAre
<1>4. PICK found \in SUBSET Lines : /\ found = MatchesIn(op.regexp, b.lines, b.start)
                                   /\ found \subseteq Rows(b)
  <2>1. MatchesIn(op.regexp, b.lines, b.start) \subseteq Rows(b)
    <3>1. MatchesIn(op.regexp, b.lines, b.start) =
             {l \in b.start..(b.start + Len(b.lines) - 1) :
                 b.lines[l - b.start + 1] \in Hits[op.regexp]}
      BY ZenonT(40), <1>3, MatchesAre
    <3>2. QED
      BY <3>1 DEF Rows
  <2>2. QED
    BY <1>2, <2>1
<1>5. PICK count \in 0..MaxLines : /\ count = Cardinality(data.matches \cup found)
                                  /\ count = op.count + Cardinality(found)
  <2>1. /\ IsFiniteSet(data.matches) /\ IsFiniteSet(found)
        /\ Cardinality(data.matches) \in Nat /\ Cardinality(found) \in Nat
        /\ Cardinality(data.matches \cup found) \in 0..MaxLines
    <3>1. data.matches \cup found \in SUBSET Lines
      BY <1>2
    <3>2. \A S \in SUBSET Lines : IsFiniteSet(S) /\ Cardinality(S) \in 0..MaxLines
      BY LineSets
    <3>3. QED
      BY <1>2, <3>1, <3>2
  <2>2. Cardinality(data.matches \cup found) =
           Cardinality(data.matches) + Cardinality(found) - Cardinality(data.matches \cap found)
    BY <2>1, FS_Union
  <2>3. data.matches \cap found = {}
    BY <1>2, <1>4
  <2>4. Cardinality(data.matches \cap found) = 0
    BY <2>3, FS_EmptySet
  <2>5. QED
    BY <1>2, <2>1, <2>2, <2>4
<1>6. PICK done \in 0..MaxLines : /\ done = op.done + Len(b.lines)
                                 /\ op.last - op.from \in Nat \ {0}
                                 /\ done <= op.last - op.from
  <2>1. PICK c \in Nat : c = Cardinality(RowsOf(op.blocks))
    BY InGraph
  <2>2. op.done + c = 0 \/ op.done + c + op.from <= op.last
    BY <2>1 DEF WorkerInv, Counted
  <2>3. Len(b.lines) <= c
    <3>1. Rows(b) \subseteq RowsOf(op.blocks) /\ IsFiniteSet(RowsOf(op.blocks))
      BY <1>2, InGraph, LineSets DEF RowsOf
    <3>2. Cardinality(Rows(b)) <= Cardinality(RowsOf(op.blocks))
      BY <3>1, FS_Subset
    <3>3. QED
      BY <1>2, <2>1, <3>2, RowsAre
  <2>4. PICK w, d \in Nat : w = Len(b.lines) /\ d = op.done + w
    BY <1>2, <1>3
  <2>5. d + op.from <= op.last
    BY SMTT(30), <1>2, <1>3, <2>2, <2>3, <2>4
  <2>6. d <= op.last /\ d <= op.last - op.from
    BY <1>2, <2>5
  <2>7. op.last - op.from \in Nat \ {0}
    BY <1>2, <1>3
  <2>8. d \in 0..MaxLines
    BY <1>2, <2>6
  <2>9. QED
    BY <2>4, <2>6, <2>7, <2>8
<1>7. PICK percent \in 0..100 : percent = (100 * done) \div (op.last - op.from)
  <2>1. done \in Nat
    BY <1>2
  <2>2. QED
    BY <1>6, <2>1, Percent
<1> DEFINE reports == percent > op.percent \/ count > op.toldCount
<1>8. /\ data' = IF b.lines = <<>> THEN data ELSE AddAll(data, found, b.start + Len(b.lines))
      /\ op' = [op EXCEPT !.blocks = op.blocks \ {b}, !.joining = {},
                          !.done = done, !.count = count,
                          !.percent = IF reports THEN percent ELSE op.percent,
                          !.toldCount = IF reports THEN count ELSE op.toldCount]
      /\ signals' = IF reports
                    THEN Append(signals, Progress(count, Least(99, percent)))
                    ELSE signals
      /\ holes' = (holes \/ b.lines = <<>>)
  BY <1>1, <1>4, <1>5, <1>6, <1>7
<1> HIDE DEF reports
<1>9. PICK told \in 0..MaxLines, shown \in 0..100 :
          /\ told = IF reports THEN count ELSE op.toldCount
          /\ shown = IF reports THEN percent ELSE op.percent
  BY <1>2
<1>10. op' = [op EXCEPT !.blocks = op.blocks \ {b}, !.joining = {}, !.done = done,
                        !.count = count, !.percent = shown, !.toldCount = told]
  BY <1>8, <1>9
<1>11. Least(99, percent) \in 0..99
  BY DEF Least
<1>12. signals' = signals \/ \E n \in 0..99 : signals' = Append(signals, Progress(count, n))
  BY <1>8, <1>11
<1>13. data' = IF b.lines = <<>> THEN data
               ELSE [data EXCEPT !.matches = data.matches \cup found,
                                 !.new = data.new \cup found,
                                 !.count = count,
                                 !.processed = Most(data.processed, b.start + Len(b.lines))]
  BY <1>2, <1>5, <1>8 DEF AddAll
<1>14. UNCHANGED <<index, interrupted>>
  BY DEF JoinBlock
<1>15. /\ b \in op.blocks
       /\ done = op.done + Len(b.lines)
       /\ count = Cardinality(data.matches \cup found)
       /\ holes' = (holes \/ b.lines = <<>>)
  BY <1>2, <1>5, <1>6, <1>8
<1>16. Joins(b, found, done, count, told, shown)
  BY <1>4, <1>10, <1>12, <1>13, <1>14, <1>15 DEF Joins
<1>17. QED
  BY <1>16

LEMMA JoinBlockKeeps == WorkerInv /\ JoinBlock => WorkerInv'
<1> SUFFICES ASSUME WorkerInv, JoinBlock PROVE WorkerInv'
  OBVIOUS
<1>1. PICK b \in op.joining, found \in SUBSET Lines, done, count, told \in 0..MaxLines,
           percent \in 0..100 : Joins(b, found, done, count, told, percent)
  BY Joined
<1> USE DEF Joins
<1>2. /\ b \in Found /\ op \in Operations /\ data \in Results /\ op.pc = "searching"
      /\ MaxLines \in Nat /\ op.blocks \in SUBSET Found /\ op.last \in 0..MaxLines
      /\ op.next \in Nat /\ op.from \in Nat /\ op.done \in Nat
      /\ data.processed \in 0..MaxLines /\ data.matches \in SUBSET Lines
      /\ Rows(b) \subseteq Lines
  <2>1. b \in op.blocks /\ op \in Operations /\ data \in Results /\ MaxLines \in Nat
    BY <1>1, LogsAre DEF WorkerInv, WorkerTypes
  <2>2. op.pc = "searching"
    BY <2>1 DEF WorkerInv, Blocked
  <2>3. b \in Found /\ Rows(b) \subseteq Lines /\ op.blocks \in SUBSET Found
    BY <2>1, InGraph
  <2>4. /\ data.matches \in SUBSET Lines /\ data.processed \in 0..MaxLines
        /\ op.done \in 0..MaxLines /\ op.from \in 0..MaxLines /\ op.last \in 0..MaxLines
        /\ op.next \in Nat
    BY <2>1 DEF Operations, Results
  <2>5. QED
    BY <2>1, <2>2, <2>3, <2>4
<1>3. b.start \in Nat /\ b.lines \in Logs /\ Len(b.lines) \in Nat
  BY <1>2, RowsAre
<1>4. b.start + Len(b.lines) <= op.last /\ b.start + Len(b.lines) <= op.next
  BY <1>1 DEF WorkerInv, Blocked
<1>5. op' \in Operations
  <2>1. op.blocks \ {b} \in SUBSET Found
    BY <1>2
  <2>2. \A blocks \in SUBSET Found, d, c, t \in 0..MaxLines, q \in 0..100 :
           [op EXCEPT !.blocks = blocks, !.joining = {}, !.done = d, !.count = c,
                      !.percent = q, !.toldCount = t] \in Operations
    BY <1>2, JoinedFields
  <2>3. [op EXCEPT !.blocks = op.blocks \ {b}, !.joining = {}, !.done = done,
                   !.count = count, !.percent = percent, !.toldCount = told] \in Operations
    BY <2>1, <2>2
  <2>4. QED
    BY <1>1, <2>3
<1>6. /\ op'.pc = "searching" /\ op'.blocks = op.blocks \ {b} /\ op'.joining = {}
      /\ op'.done = done /\ op'.from = op.from /\ op'.next = op.next /\ op'.count = count
      /\ op'.last = op.last /\ op'.search = op.search
  BY <1>1, <1>2 DEF Operations
<1>7. /\ data' \in Results
      /\ data'.matches = data.matches \cup found /\ data'.count = count
      /\ data'.processed \in Nat /\ data.processed <= data'.processed
      /\ b.lines # <<>> => b.start + Len(b.lines) <= data'.processed
      /\ b.lines = <<>> => found = {}
  <2>1. CASE b.lines = <<>>
    <3>1. Len(b.lines) = 0
      BY <2>1
    <3>2. Rows(b) = {}
      BY <1>3, <3>1 DEF Rows
    <3>3. found = {} /\ data' = data
      BY <1>1, <2>1, <3>2
    <3>4. data.matches \cup found = data.matches
      BY <3>3
    <3>5. data.count = count
      BY <1>1, <3>4 DEF WorkerInv, Counted
    <3>6. QED
      BY <1>2, <2>1, <3>3, <3>4, <3>5
  <2>2. CASE b.lines # <<>>
    <3>1. PICK p \in 0..MaxLines : /\ p = Most(data.processed, b.start + Len(b.lines))
                                  /\ data.processed <= p /\ b.start + Len(b.lines) <= p
      BY SMTT(30), <1>2, <1>3, <1>4, Minimum
    <3>2. PICK m, n \in SUBSET Lines : m = data.matches \cup found /\ n = data.new \cup found
      BY <1>2 DEF Results
    <3>3. data' = [data EXCEPT !.matches = m, !.new = n, !.count = count, !.processed = p]
      BY <1>1, <2>2, <3>1, <3>2
    <3>4. [data EXCEPT !.matches = m, !.new = n, !.count = count, !.processed = p] \in Results
      BY <1>2 DEF Results
    <3>5. data'.matches = m /\ data'.count = count /\ data'.processed = p /\ data' \in Results
      BY <1>2, <3>3, <3>4 DEF Results
    <3>6. QED
      BY <1>2, <2>2, <3>1, <3>2, <3>5
  <2>3. QED
    BY <2>1, <2>2
<1>8. signals' \in Seq(Signals)
  <2>1. \A n \in 0..99 : Progress(count, n) \in Signals
    BY <1>2 DEF Progress, Signals, Operations
  <2>2. signals \in Seq(Signals)
    BY DEF WorkerInv, WorkerTypes
  <2>3. ASSUME NEW n \in 0..99, signals' = Append(signals, Progress(count, n))
        PROVE signals' \in Seq(Signals)
    <3>1. Progress(count, n) \in Signals
      BY <2>1
    <3>2. QED
      BY <2>2, <2>3, <3>1, AppendProperties
  <2>4. QED
    BY <1>1, <2>2, <2>3
<1>9. WorkerTypes'
  <2>1. IsFiniteSet(op.blocks) /\ Cardinality(op.blocks) <= BlocksInFlight
    BY DEF WorkerInv, WorkerTypes
  <2>2. /\ IsFiniteSet(op.blocks \ {b}) /\ Cardinality(op.blocks \ {b}) <= Cardinality(op.blocks)
        /\ Cardinality(op.blocks \ {b}) \in Nat /\ Cardinality(op.blocks) \in Nat
    <3>1. op.blocks \ {b} \in SUBSET op.blocks
      OBVIOUS
    <3>2. QED
      BY <2>1, <3>1, FS_Subset, FS_CardinalityType
  <2>3. Cardinality(op'.blocks) <= BlocksInFlight /\ IsFiniteSet(op'.blocks)
    BY <1>6, <2>1, <2>2, SearchAssumption
  <2>4. holes' \in BOOLEAN
    BY <1>1 DEF WorkerInv, WorkerTypes
  <2>5. QED
    BY <1>1, <1>5, <1>7, <1>8, <2>3, <2>4 DEF WorkerInv, WorkerTypes
<1>10. \A l \in found : b.start <= l /\ l < b.start + Len(b.lines) /\ l \in Nat
  BY <1>1, <1>3 DEF Rows
<1>11. Blocked'
  <2>1. \A a \in op.blocks \ {b} : Rows(a) \cap (data.matches \cup found) = {}
    BY <1>1 DEF WorkerInv, Blocked
  <2>2. \A l \in data.matches \cup found : l < op.next
    <3>1. \A l \in data.matches : l < op.next
      BY <1>2 DEF WorkerInv, Blocked
    <3>2. \A l \in found : l < op.next
      BY <1>2, <1>3, <1>4, <1>10
    <3>3. QED
      BY <3>1, <3>2
  <2>3. \A l \in data.matches \cup found : l < data'.processed
    <3>1. \A l \in data.matches : l < data.processed /\ l \in Nat
      BY <1>2, LogsAre DEF WorkerInv, Blocked
    <3>2. \A l \in data.matches : l < data'.processed
      BY <1>2, <1>7, <3>1
    <3>3. \A l \in found : l < data'.processed
      BY <1>3, <1>7, <1>10
    <3>4. QED
      BY <3>2, <3>3
  <2>4. QED
    BY <1>6, <1>7, <2>1, <2>2, <2>3 DEF WorkerInv, Blocked
<1>12. Counted'
  <2>1. PICK c, e \in Nat : c = Cardinality(RowsOf(op.blocks)) /\ c = e + Len(b.lines)
                           /\ e = Cardinality(RowsOf(op.blocks \ {b}))
    <3>1. \A a \in op.blocks : a = b \/ Rows(a) \cap Rows(b) = {}
      BY <1>1 DEF WorkerInv, Blocked
    <3>2. /\ Cardinality(RowsOf(op.blocks)) \in 0..MaxLines
          /\ Cardinality(RowsOf(op.blocks \ {b})) =
                Cardinality(RowsOf(op.blocks)) - Len(b.lines)
      BY <1>1, <1>2, <3>1, InGraph, RowsChange
    <3>3. Cardinality(RowsOf(op.blocks \ {b})) \in Nat
      <4>1. RowsOf(op.blocks \ {b}) \subseteq RowsOf(op.blocks)
        BY DEF RowsOf
      <4>2. RowsOf(op.blocks \ {b}) \in SUBSET Lines
        BY <4>1, InGraph
      <4>3. QED
        BY <1>2, <4>2, LineSets
    <3>4. QED
      BY <1>2, <1>3, <3>2, <3>3
  <2>2. PICK w \in Nat : w = Len(b.lines)
    BY <1>3
  <2>3. /\ op.done + c + op.from <= op.next
        /\ op.done + c = 0 \/ op.done + c + op.from <= op.last
    BY <2>1 DEF WorkerInv, Counted
  <2>4. done + e + op.from <= op.next /\ (done + e = 0 \/ done + e + op.from <= op.last)
    <3>1. done + e = op.done + c
      <4>1. done = op.done + w /\ c = e + w /\ op.done \in Nat
        BY <1>1, <1>2, <2>1, <2>2
      <4>2. QED
        BY <4>1
    <3>2. QED
      BY <2>3, <3>1
  <2>5. QED
    BY <1>1, <1>6, <1>7, <2>1, <2>4 DEF Counted
<1>13. QED
  BY <1>9, <1>11, <1>12 DEF WorkerInv

\* Whatever else happens to the worker: its operation stays or is asked for anew, and
\* only the differences of its results change.
LEMMA WorkerElsewhere ==
    ASSUME WorkerInv, index' \in Logs, interrupted' \in BOOLEAN, signals' \in Seq(Signals),
           holes' = holes,
           data' = data \/ data' = TakeCurrentResults(data),
           \/ op' = op
           \/ \E kind \in {"full", "update"}, p \in Patterns \cup {None}, end, position \in 0..MaxLines,
                 search \in Nat : Request(kind, p, end, position, search)
    PROVE WorkerInv'
<1>1. data \in Results /\ op \in Operations /\ holes \in BOOLEAN
  BY DEF WorkerInv, WorkerTypes
<1>2. /\ data' \in Results /\ data'.matches = data.matches /\ data'.count = data.count
      /\ data'.processed = data.processed
  BY <1>1 DEF TakeCurrentResults, Results
<1>3. CASE op' = op
  BY <1>1, <1>2, <1>3 DEF WorkerInv, WorkerTypes, Blocked, Counted
<1>4. ASSUME NEW kind \in {"full", "update"}, NEW p \in Patterns \cup {None},
             NEW end \in 0..MaxLines, NEW position \in 0..MaxLines, NEW search \in Nat,
             Request(kind, p, end, position, search)
      PROVE WorkerInv'
  <2>1. op' = [IdleOp EXCEPT !.pc = "requested", !.kind = kind, !.regexp = p,
                             !.end = end, !.position = position, !.search = search]
    BY <1>4 DEF Request
  <2>2. op' \in Operations
    <3>1. 0 \in 0..MaxLines /\ 0 \in 0..100 /\ {} \in SUBSET Found
      BY LogsAre
    <3>2. QED
      BY <2>1, <3>1 DEF Operations, IdleOp
  <2>3. /\ op'.pc = "requested" /\ op'.blocks = {} /\ op'.joining = {} /\ op'.done = 0
        /\ op'.from = 0 /\ op'.next = 0 /\ op'.last = 0
    BY <2>1 DEF IdleOp
  <2>4. Cardinality(RowsOf(op'.blocks)) = 0
    BY <2>3, NoBlocks
  <2>5. WorkerTypes'
    BY <1>1, <1>2, <2>2, <2>3, NoBlocks DEF WorkerTypes
  <2>6. Blocked'
    BY <1>2, <2>3 DEF WorkerInv, Blocked
  <2>7. Counted'
    BY <1>2, <2>3, <2>4 DEF WorkerInv, Counted
  <2>8. QED
    BY <2>5, <2>6, <2>7 DEF WorkerInv
<1>5. QED
  BY <1>3, <1>4

LEMMA SearchStepKeeps == WorkerInv /\ SearchStep => WorkerInv'
BY BeginFullKeeps, BeginUpdateKeeps, ReadChunkKeeps, TakeBlockKeeps, JoinBlockKeeps,
   DropBlocksKeeps, FinishSearchKeeps DEF SearchStep

-----------------------------------------------------------------------------
(* The signals *)

IsFinal(s) == s.kind = "progress" /\ s.percent = 100
Finals(queue) == {i \in 1..Len(queue) : IsFinal(queue[i])}
Views(queue) == {i \in 1..Len(queue) : queue[i].kind = "view"}

LEMMA FinalsFinite ==
    ASSUME NEW queue \in Seq(Signals)
    PROVE IsFiniteSet(Finals(queue)) /\ Cardinality(Finals(queue)) \in Nat
<1>1. IsFiniteSet(1..Len(queue))
  BY FS_Interval
<1>2. Finals(queue) \in SUBSET (1..Len(queue))
  BY DEF Finals
<1>3. QED
  BY <1>1, <1>2, FS_Subset, FS_CardinalityType

\* A signal is posted.
LEMMA PostedSignal ==
    ASSUME NEW queue \in Seq(Signals), NEW s \in Signals
    PROVE /\ Append(queue, s) \in Seq(Signals) /\ Len(Append(queue, s)) = Len(queue) + 1
          /\ Append(queue, s)[Len(queue) + 1] = s
          /\ \A i \in 1..Len(queue) : Append(queue, s)[i] = queue[i]
          /\ Append(queue, s) # <<>>
          /\ Finals(Append(queue, s)) =
                Finals(queue) \cup (IF IsFinal(s) THEN {Len(queue) + 1} ELSE {})
          /\ Views(Append(queue, s)) =
                Views(queue) \cup (IF s.kind = "view" THEN {Len(queue) + 1} ELSE {})
          /\ Cardinality(Finals(Append(queue, s))) =
                Cardinality(Finals(queue)) + (IF IsFinal(s) THEN 1 ELSE 0)
          /\ ~ IsFinal(s) => Finals(Append(queue, s)) = Finals(queue)
          /\ s.kind # "view" => Views(Append(queue, s)) = Views(queue)
          /\ s.kind = "view" => Views(Append(queue, s)) # {}
<1>1. /\ Append(queue, s) \in Seq(Signals) /\ Len(Append(queue, s)) = Len(queue) + 1
      /\ Append(queue, s)[Len(queue) + 1] = s
      /\ \A i \in 1..Len(queue) : Append(queue, s)[i] = queue[i]
      /\ Len(queue) \in Nat
  BY AppendProperties
<1> DEFINE t == Append(queue, s)
<1> HIDE DEF t
<1>2. 1..Len(t) = 1..Len(queue) \cup {Len(queue) + 1}
  BY <1>1 DEF t
<1>3. t[Len(queue) + 1] = s /\ \A i \in 1..Len(queue) : t[i] = queue[i]
  BY <1>1 DEF t
<1>4. Finals(t) = Finals(queue) \cup (IF IsFinal(s) THEN {Len(queue) + 1} ELSE {})
  BY <1>2, <1>3 DEF Finals
<1>5. Views(t) = Views(queue) \cup (IF s.kind = "view" THEN {Len(queue) + 1} ELSE {})
  BY <1>2, <1>3 DEF Views
<1>6. Cardinality(Finals(t)) = Cardinality(Finals(queue)) + (IF IsFinal(s) THEN 1 ELSE 0)
  <2>1. IsFiniteSet(Finals(queue)) /\ Cardinality(Finals(queue)) \in Nat
    BY FinalsFinite
  <2>2. CASE IsFinal(s)
    <3>1. Finals(t) = Finals(queue) \cup {Len(queue) + 1} /\ Len(queue) + 1 \notin Finals(queue)
      BY <1>1, <1>4, <2>2 DEF Finals
    <3>2. Cardinality(Finals(queue) \cup {Len(queue) + 1}) = Cardinality(Finals(queue)) + 1
      BY <2>1, <3>1, FS_AddElement
    <3>3. QED
      BY <2>2, <3>1, <3>2
  <2>3. CASE ~ IsFinal(s)
    <3>1. Finals(t) = Finals(queue)
      BY <1>4, <2>3
    <3>2. QED
      BY <2>1, <2>3, <3>1
  <2>4. QED
    BY <2>2, <2>3
<1>7. t # <<>>
  <2>1. Len(t) # 0
    BY <1>1 DEF t
  <2>2. QED
    BY <2>1
<1>8. /\ ~ IsFinal(s) => Finals(t) = Finals(queue)
      /\ s.kind # "view" => Views(t) = Views(queue)
      /\ s.kind = "view" => Views(t) # {}
  BY <1>4, <1>5
<1>9. QED
  BY <1>1, <1>4, <1>5, <1>6, <1>7, <1>8 DEF t

\* The first signal is handled.
LEMMA HandledSignal ==
    ASSUME NEW queue \in Seq(Signals), queue # <<>>
    PROVE /\ Tail(queue) \in Seq(Signals) /\ Len(Tail(queue)) = Len(queue) - 1
          /\ Len(queue) \in Nat \ {0}
          /\ \A i \in 1..(Len(queue) - 1) : Tail(queue)[i] = queue[i + 1]
          /\ Head(queue) = queue[1] /\ Head(queue) \in Signals
          /\ \A i \in 1..(Len(queue) - 1) : i \in Finals(Tail(queue)) <=> i + 1 \in Finals(queue)
          /\ \A i \in 1..(Len(queue) - 1) : i \in Views(Tail(queue)) <=> i + 1 \in Views(queue)
          /\ 1 \in Finals(queue) <=> IsFinal(Head(queue))
          /\ 1 \in Views(queue) <=> Head(queue).kind = "view"
          /\ Finals(Tail(queue)) \subseteq 1..(Len(queue) - 1)
          /\ Views(Tail(queue)) \subseteq 1..(Len(queue) - 1)
          /\ Cardinality(Finals(Tail(queue))) =
                Cardinality(Finals(queue)) - (IF IsFinal(Head(queue)) THEN 1 ELSE 0)
<1>1. /\ Tail(queue) \in Seq(Signals) /\ Len(Tail(queue)) = Len(queue) - 1
      /\ \A i \in 1..Len(Tail(queue)) : Tail(queue)[i] = queue[i + 1]
      /\ Head(queue) = queue[1] /\ Head(queue) \in Signals
      /\ Len(queue) \in Nat \ {0}
  BY HeadTailProperties, EmptySeq
<1> DEFINE t == Tail(queue)
           m == Len(queue)
<1>2. m \in Nat \ {0} /\ m - 1 \in Nat /\ Len(t) = m - 1 /\ \A i \in 1..(m - 1) : t[i] = queue[i + 1]
  BY <1>1
<1> HIDE DEF t, m
<1>3. /\ \A i : i \in Finals(t) <=> i \in 1..(m - 1) /\ IsFinal(t[i])
      /\ \A i : i \in Finals(queue) <=> i \in 1..m /\ IsFinal(queue[i])
      /\ \A i : i \in Views(t) <=> i \in 1..(m - 1) /\ t[i].kind = "view"
      /\ \A i : i \in Views(queue) <=> i \in 1..m /\ queue[i].kind = "view"
  BY <1>2 DEF Finals, Views, m
<1>4. \A i \in 1..(m - 1) : i + 1 \in 1..m
  BY <1>2
<1>5. /\ \A i \in 1..(m - 1) : i \in Finals(t) <=> i + 1 \in Finals(queue)
      /\ \A i \in 1..(m - 1) : i \in Views(t) <=> i + 1 \in Views(queue)
  BY <1>2, <1>3, <1>4
<1>6. 1 \in 1..m
  BY <1>2
<1>7. /\ 1 \in Finals(queue) <=> IsFinal(Head(queue))
      /\ 1 \in Views(queue) <=> Head(queue).kind = "view"
  BY <1>1, <1>3, <1>6
<1>8. Cardinality(Finals(t)) = Cardinality(Finals(queue)) - (IF IsFinal(Head(queue)) THEN 1 ELSE 0)
  <2>1. Finals(t) \subseteq 1..(m - 1) /\ Finals(queue) \subseteq 1..m
    BY <1>3
  <2>2. /\ IsFiniteSet(Finals(queue)) /\ Cardinality(Finals(queue)) \in Nat
        /\ IsFiniteSet(Finals(t)) /\ Cardinality(Finals(t)) \in Nat
    BY <1>1, FinalsFinite DEF t
  <2> DEFINE rest == Finals(queue) \ {1}
             f == [i \in Finals(t) |-> i + 1]
  <2>3. f \in Bijection(Finals(t), rest)
    <3>1. \A i \in Finals(t) : i \in 1..(m - 1) /\ i + 1 \in rest
      BY <1>2, <1>5, <2>1
    <3>2. f \in [Finals(t) -> rest]
      BY <3>1
    <3>3. \A i, j \in Finals(t) : f[i] = f[j] => i = j
      BY <1>2, <3>1
    <3>4. \A k \in rest : \E i \in Finals(t) : f[i] = k
      <4>1. TAKE k \in rest
      <4>2. k \in 1..m /\ k # 1
        BY <2>1
      <4>3. k - 1 \in 1..(m - 1) /\ (k - 1) + 1 = k
        BY <1>2, <4>2
      <4>4. k - 1 \in Finals(t)
        BY <1>5, <4>3
      <4>5. QED
        BY <4>3, <4>4
    <3>5. QED
      BY <3>2, <3>3, <3>4 DEF Bijection, Injection, Surjection, IsInjective
  <2>4. Cardinality(rest) = Cardinality(Finals(t))
    <3>1. ExistsBijection(Finals(t), rest)
      BY <2>3 DEF ExistsBijection
    <3>2. QED
      BY <2>2, <3>1, FS_Bijection
  <2>5. Cardinality(rest) = IF 1 \in Finals(queue) THEN Cardinality(Finals(queue)) - 1
                                                   ELSE Cardinality(Finals(queue))
    BY <2>2, FS_RemoveElement
  <2>6. QED
    BY <1>7, <2>2, <2>4, <2>5
<1>9. Finals(t) \subseteq 1..(m - 1) /\ Views(t) \subseteq 1..(m - 1)
  BY <1>3
<1>10. QED
  BY <1>1, <1>2, <1>5, <1>7, <1>8, <1>9 DEF t, m

-----------------------------------------------------------------------------
(* The window, and the readers of the file *)

ListTypes ==
    /\ regexp \in Patterns \cup {None}
    /\ matching \in SUBSET Lines /\ marks \in SUBSET Lines /\ union \in SUBSET Lines
    /\ processed \in 0..MaxLines /\ key \in Keys \cup {NoKey}
    /\ DOMAIN cache \subseteq Keys /\ \A k \in DOMAIN cache : cache[k] \in SUBSET Lines
    /\ listOf \in Nat /\ searches \in Nat /\ tainted \in BOOLEAN

ViewTypes ==
    /\ report \in [n : 0..MaxLines, percent : 0..100] /\ throttled \in BOOLEAN
    /\ text \in Patterns \cup {None} /\ state \in SearchStates /\ autoRefresh \in BOOLEAN
    /\ limit \in 0..MaxLines /\ nbMatches \in 0..MaxLines
    /\ stopShown \in BOOLEAN /\ following \in BOOLEAN
    /\ frames \in Seq({"user", "load"}) /\ leaving \in BOOLEAN /\ (leaving => frames # <<>>)
    /\ loading \in [kind : {"none", "full", "partial"}, to : Logs]

\* A search attaches itself to the file once, and the handler of its last signal detaches it.
Attached ==
    /\ readers \in Nat
    /\ readers = Cardinality(Finals(signals)) + (IF Idle THEN 0 ELSE 1)

Typed == WorkerInv /\ ListTypes /\ ViewTypes /\ Attached

LEMMA TypedIsTyped == Typed => TypeOK
<1> SUFFICES ASSUME Typed PROVE TypeOK
  OBVIOUS
<1>1. /\ index \in Logs /\ data \in Results /\ op \in Operations
      /\ Cardinality(op.blocks) <= BlocksInFlight
      /\ interrupted \in BOOLEAN /\ holes \in BOOLEAN /\ signals \in Seq(Signals)
  BY DEF Typed, WorkerInv, WorkerTypes
<1>2. /\ op.pc \in {"idle", "requested", "searching"} /\ op.kind \in {"full", "update"}
      /\ op.regexp \in Patterns \cup {None} /\ op.blocks \subseteq [start : Lines, lines : Logs]
      /\ op.percent \in 0..100 /\ op.done \in 0..MaxLines /\ op.count \in 0..MaxLines
  BY <1>1 DEF Operations, Found
<1>3. \A i \in DOMAIN signals : signals[i].kind \in {"progress", "view", "loaded", "start"}
  BY <1>1 DEF Signals
<1>4. report.percent \in 0..100 /\ readers \in Nat
  BY DEF Typed, ViewTypes, Attached
<1>5. QED
  BY <1>1, <1>2, <1>3, <1>4 DEF Typed, ListTypes, ViewTypes, TypeOK

LEMMA TypedInit == Init => Typed
<1> SUFFICES ASSUME Init PROVE Typed
  OBVIOUS
<1>1. MaxLines \in Nat
  BY SearchAssumption
<1>2. index \in Logs /\ Len(index) \in 0..MaxLines
  BY CacheAssumption, LogsAre DEF Init, Logs
<1>3. ClearedResults(0) \in Results /\ data.matches = {} /\ data.count = 0
  BY <1>1 DEF Init, ClearedResults, Results
<1>4. <<>> \in Seq(Signals) /\ Len(<<>>) = 0
  OBVIOUS
<1>5. WorkerTypes
  BY <1>2, <1>3, <1>4, IdleOperation, NoBlocks DEF WorkerTypes, Init
<1>6. Blocked
  BY <1>3, IdleOperation DEF Blocked, Init
<1>7. Counted
  <2>1. Cardinality(RowsOf(op.blocks)) = 0
    BY IdleOperation, NoBlocks DEF Init
  <2>2. Cardinality(data.matches) = 0
    BY <1>3, FS_EmptySet
  <2>3. QED
    BY <1>3, <2>1, <2>2, IdleOperation DEF Counted, Init
<1>8. ListTypes
  <2>1. PICK c : c = cache /\ c = << >>
    BY DEF Init
  <2>2. DOMAIN c = {}
    BY <2>1
  <2>3. DOMAIN cache = {}
    BY <2>1, <2>2
  <2>4. 0 \in 0..MaxLines /\ 0 \in Nat /\ {} \in SUBSET Lines
    BY <1>1
  <2>5. QED
    BY <2>3, <2>4 DEF Init, ListTypes
<1>9. <<>> \in Logs
  <2>0. <<>> \in Seq(Contents) /\ Len(<<>>) = 0
    OBVIOUS
  <2>1. PICK s \in Seq(Contents) : s = <<>> /\ Len(s) = 0
    BY <2>0
  <2>2. Len(s) <= MaxLines
    BY <1>1, <2>1
  <2>3. QED
    BY <2>1, <2>2, LogsHold
<1>10. ViewTypes
  <2>1. 0 \in 0..MaxLines /\ 0 \in 0..100
    BY <1>1
  <2>2. <<>> \in Seq({"user", "load"})
    OBVIOUS
  <2>3. frames \in Seq({"user", "load"})
    BY <2>2 DEF Init
  <2>4. [kind |-> "none", to |-> <<>>] \in [kind : {"none", "full", "partial"}, to : Logs]
    BY <1>9
  <2>5. loading \in [kind : {"none", "full", "partial"}, to : Logs]
    BY <2>4 DEF Init, NotLoading, NoLog
  <2>6. report \in [n : 0..MaxLines, percent : 0..100]
    BY <2>1 DEF Init
  <2>7. text \in Patterns \cup {None} /\ state \in SearchStates
    BY CacheAssumption DEF Init, SearchStates
  <2>8. QED
    BY <1>2, <2>1, <2>3, <2>5, <2>6, <2>7 DEF Init, ViewTypes
<1>11. Attached
  <2>1. PICK q \in Seq(Signals) : q = signals /\ Len(q) = 0
    BY <1>4 DEF Init
  <2>2. Finals(q) = {}
    BY <2>1 DEF Finals
  <2>3. Cardinality(Finals(signals)) = 0
    BY <2>1, <2>2, FS_EmptySet
  <2>4. Idle /\ readers = 0
    BY IdleOperation DEF Init, Idle
  <2>5. QED
    BY <2>3, <2>4 DEF Attached
<1>12. QED
  BY <1>5, <1>6, <1>7, <1>8, <1>10, <1>11 DEF Typed, WorkerInv

\* What the window and the worker have to do with each other in a step of the window: the
\* operation stays, or one is asked for; the results stay, or their differences are taken.
Aside ==
    /\ index' \in Logs /\ interrupted' \in BOOLEAN /\ holes' = holes
    /\ data' = data \/ data' = TakeCurrentResults(data)
    /\ op' = op

LEMMA AsideKeeps ==
    ASSUME Typed, Aside, signals' \in Seq(Signals)
    PROVE WorkerInv'
BY WorkerElsewhere DEF Typed, Aside

\* The file is attached to as before.
LEMMA AttachedAsBefore ==
    ASSUME Typed, op' = op, readers' = readers,
           \/ signals' = signals
           \/ \E s \in Signals : ~ IsFinal(s) /\ signals' = Append(signals, s)
           \/ signals # <<>> /\ ~ IsFinal(Head(signals)) /\ signals' = Tail(signals)
    PROVE Attached' /\ signals' \in Seq(Signals)
<1>1. signals \in Seq(Signals) /\ readers \in Nat /\ Cardinality(Finals(signals)) \in Nat
  BY FinalsFinite DEF Typed, WorkerInv, WorkerTypes, Attached
<1>2. Cardinality(Finals(signals')) = Cardinality(Finals(signals)) /\ signals' \in Seq(Signals)
  <2>1. CASE signals' = signals
    BY <1>1, <2>1
  <2>2. ASSUME NEW s \in Signals, ~ IsFinal(s), signals' = Append(signals, s)
        PROVE /\ Cardinality(Finals(signals')) = Cardinality(Finals(signals))
              /\ signals' \in Seq(Signals)
    BY <1>1, <2>2, PostedSignal
  <2>3. CASE signals # <<>> /\ ~ IsFinal(Head(signals)) /\ signals' = Tail(signals)
    BY <1>1, <2>3, HandledSignal
  <2>4. QED
    BY <2>1, <2>2, <2>3
<1>3. QED
  BY <1>1, <1>2 DEF Typed, Attached, Idle

LEMMA OtherSignals ==
    /\ \A n \in 0..MaxLines : [kind |-> "view", n |-> n, percent |-> 100] \in Signals
    /\ [kind |-> "loaded"] \in Signals /\ [kind |-> "start"] \in Signals
    /\ \A s \in Signals : s.kind # "progress" => ~ IsFinal(s)
    /\ \A s \in Signals : s.kind \in {"progress", "view"} => s.n \in 0..MaxLines /\ s.percent \in 0..100
    /\ \A s \in Signals : s.kind = "progress" => s.search \in Nat
BY DEF Signals, IsFinal

\* The user acts and no search is asked for.
LEMMA StatesAre ==
    ASSUME state \in SearchStates
    PROVE /\ StateWithoutRefresh \in SearchStates /\ StateAfterStart \in SearchStates
          /\ StateAfterTruncation \in SearchStates
          /\ \A refresh \in BOOLEAN : StateAfterRefresh(refresh) \in SearchStates
BY DEF SearchStates, StateWithoutRefresh, StateAfterStart, StateAfterTruncation,
       StateAfterRefresh, IsAutorefreshAllowed

LEMMA UserTypes ==
    ASSUME Typed,
           \/ StartNewSearch \/ SetSearchPattern \/ SearchTextChange \/ StopSearch
           \/ SearchRefreshChange \/ SetSearchLimits \/ StopLoading \/ MarkLine
    PROVE Typed'
<1>1. index \in Logs /\ Len(index) \in 0..MaxLines /\ state \in SearchStates /\ interrupted \in BOOLEAN
      /\ signals \in Seq(Signals)
  BY LogsAre DEF Typed, WorkerInv, WorkerTypes, ViewTypes
<1>2. Aside
  BY <1>1 DEF Aside, StartNewSearch, SetSearchPattern, SearchTextChange, StopSearch,
     SearchRefreshChange, SetSearchLimits, StopLoading, MarkLine, Interrupt, workerVars, worldVars
<1>3. readers' = readers /\ listOf' = listOf /\ searches' = searches /\ tainted' = tainted
      /\ matching' = matching
  BY DEF StartNewSearch, SetSearchPattern, SearchTextChange, StopSearch,
     SearchRefreshChange, SetSearchLimits, StopLoading, MarkLine, dataVars
<1>4. signals' = signals \/ signals' = Append(signals, [kind |-> "start"])
  BY DEF StartNewSearch, SetSearchPattern, SearchTextChange, StopSearch,
     SearchRefreshChange, SetSearchLimits, StopLoading, MarkLine
<1>5. Attached' /\ signals' \in Seq(Signals)
  <2>1. [kind |-> "start"] \in Signals /\ ~ IsFinal([kind |-> "start"])
    BY OtherSignals DEF IsFinal
  <2>2. QED
    BY <1>2, <1>3, <1>4, <2>1, AttachedAsBefore DEF Aside
<1>6. ListTypes'
  <2>1. CASE MarkLine
    <3>1. PICK line \in 0..(Len(index) - 1) :
             marks' = IF line \in marks THEN marks \ {line} ELSE marks \cup {line}
      BY <2>1 DEF MarkLine
    <3>2. line \in Lines
      BY <1>1, <3>1, LogsAre DEF Lines
    <3>3. marks' \in SUBSET Lines /\ union' \in SUBSET Lines
      BY <2>1, <3>1, <3>2 DEF MarkLine, Typed, ListTypes
    <3>4. QED
      BY <1>3, <2>1, <3>3 DEF MarkLine, Typed, ListTypes
  <2>2. CASE ~ MarkLine
    <3>1. UNCHANGED dataVars
      BY <2>2 DEF StartNewSearch, SetSearchPattern, SearchTextChange, StopSearch,
         SearchRefreshChange, SetSearchLimits, StopLoading
    <3>2. QED
      BY <1>3, <3>1 DEF dataVars, Typed, ListTypes
  <2>3. QED
    BY <2>1, <2>2
<1>7. ViewTypes'
  <2>1. CASE StartNewSearch
    <3>1. frames' \in Seq({"user", "load"}) /\ frames' # <<>>
      BY <2>1 DEF StartNewSearch, Typed, ViewTypes
    <3>2. QED
      BY <2>1, <3>1 DEF StartNewSearch, crawlerVars, worldVars, Typed, ViewTypes
  <2>2. CASE SetSearchPattern
    BY <1>1, <2>2, StatesAre DEF SetSearchPattern, Typed, ViewTypes, frameVars, worldVars
  <2>3. CASE SearchTextChange
    BY <1>1, <2>3, StatesAre DEF SearchTextChange, Typed, ViewTypes, frameVars, worldVars
  <2>4. CASE StopSearch
    BY <1>1, <2>4, StatesAre DEF StopSearch, Typed, ViewTypes, frameVars, worldVars
  <2>5. CASE SearchRefreshChange
    <3>1. autoRefresh' \in BOOLEAN /\ state' \in SearchStates
      BY <1>1, <2>5, StatesAre DEF SearchRefreshChange, Typed, ViewTypes
    <3>2. QED
      BY <2>5, <3>1 DEF SearchRefreshChange, Typed, ViewTypes, frameVars, worldVars
  <2>6. CASE SetSearchLimits
    <3>1. limit' \in 0..MaxLines
      BY <1>1, <2>6, LogsAre DEF SetSearchLimits
    <3>2. QED
      BY <2>6, <3>1 DEF SetSearchLimits, Typed, ViewTypes, frameVars, worldVars
  <2>7. CASE StopLoading \/ MarkLine
    BY <2>7 DEF StopLoading, MarkLine, Typed, ViewTypes, crawlerVars, frameVars, worldVars
  <2>8. QED
    BY <2>1, <2>2, <2>3, <2>4, <2>5, <2>6, <2>7
<1>8. QED
  BY <1>2, <1>5, <1>6, <1>7, AsideKeeps DEF Typed

LEMMA Nothing ==
    /\ <<>> \in Logs /\ DOMAIN << >> = {} /\ Len(<<>>) = 0
    /\ 0 \in 0..MaxLines /\ {} \in SUBSET Lines
<1>1. MaxLines \in Nat
  BY SearchAssumption
<1>2. <<>> \in Seq(Contents) /\ Len(<<>>) = 0
  OBVIOUS
<1>3. PICK s \in Seq(Contents) : s = <<>> /\ Len(s) = 0
  BY <1>2
<1>4. DOMAIN s = {} /\ Len(s) <= MaxLines
  BY <1>1, <1>3
<1>5. <<>> \in Logs
  BY <1>3, <1>4, LogsHold
<1>6. QED
  BY <1>1, <1>3, <1>4, <1>5

LEMMA ClearSearchTypes ==
    ASSUME ListTypes, NEW m \in SUBSET Lines, NEW dropCache \in BOOLEAN, ClearSearch(m, dropCache)
    PROVE /\ interrupted' = TRUE /\ regexp' \in Patterns \cup {None} /\ matching' \in SUBSET Lines
          /\ union' \in SUBSET Lines /\ processed' \in 0..MaxLines /\ listOf' \in Nat
          /\ DOMAIN cache' \subseteq Keys /\ \A k \in DOMAIN cache' : cache'[k] \in SUBSET Lines
<1>1. CASE dropCache
  <2>1. PICK c : c = cache' /\ c = << >>
    BY <1>1 DEF ClearSearch
  <2>2. DOMAIN c = {}
    BY <2>1, Nothing
  <2>3. DOMAIN cache' = {}
    BY <2>1, <2>2
  <2>4. QED
    BY <2>3, Nothing DEF ClearSearch, Interrupt
<1>2. CASE ~ dropCache
  BY <1>2, Nothing DEF ClearSearch, Interrupt, ListTypes
<1>3. QED
  BY <1>1, <1>2

\* The cache takes in the list under its key, and loses other entries.
LEMMA CacheChange ==
    ASSUME ListTypes, NEW m \in SUBSET Lines, UpdateCache(m)
    PROVE \/ cache' = cache
          \/ /\ key \in Keys /\ key # NoKey
             /\ \A k \in DOMAIN cache' :
                   IF k = key THEN cache'[k] = m ELSE k \in DOMAIN cache /\ cache'[k] = cache[k]
<1>1. CASE ~UseCache \/ key = NoKey \/ Cardinality(m) > CacheLines
  BY <1>1 DEF UpdateCache
<1>2. CASE ~(~UseCache \/ key = NoKey \/ Cardinality(m) > CacheLines)
  <2> DEFINE filled == [k \in DOMAIN cache \cup {key} |-> IF k = key THEN m ELSE cache[k]]
  <2>1. PICK gone \in Evictions(filled, key) :
           cache' = [k \in DOMAIN filled \ gone |-> filled[k]]
    BY <1>2 DEF UpdateCache
  <2>2. key # NoKey /\ key \in Keys
    BY <1>2 DEF ListTypes
  <2>3. DOMAIN cache' = (DOMAIN cache \cup {key}) \ gone
    BY <2>1
  <2>4. \A k \in DOMAIN cache' : cache'[k] = IF k = key THEN m ELSE cache[k]
    BY <2>1
  <2>5. QED
    BY <2>2, <2>3, <2>4
<1>3. QED
  BY <1>1, <1>2

LEMMA ReloadTypes == Typed /\ Reload => Typed'
<1> SUFFICES ASSUME Typed, Reload PROVE Typed'
  OBVIOUS
<1>1. Aside /\ signals' = signals /\ readers' = readers /\ signals \in Seq(Signals)
  BY DEF Reload, ClearSearch, Interrupt, Aside, Typed, WorkerInv, WorkerTypes
<1>2. ListTypes'
  <2>1. ListTypes /\ marks \in SUBSET Lines /\ ClearSearch(marks, TRUE)
    BY DEF Reload, Typed, ListTypes
  <2>2. UNCHANGED <<key, searches, tainted>> /\ marks' = {}
    BY DEF Reload
  <2>3. QED
    BY <2>1, <2>2, ClearSearchTypes DEF ListTypes
<1>3. ViewTypes'
  <2>1. loading' \in [kind : {"none", "full", "partial"}, to : Logs]
    BY DEF Reload, Typed, WorkerInv, WorkerTypes
  <2>2. state' \in SearchStates
    BY DEF Reload, SearchStates
  <2>3. QED
    BY <2>1, <2>2 DEF Reload, Typed, ViewTypes, frameVars
<1>4. Attached' /\ WorkerInv'
  BY <1>1, AttachedAsBefore, AsideKeeps DEF Aside
<1>5. QED
  BY <1>2, <1>3, <1>4 DEF Typed

LEMMA ProgressedTypes == Typed /\ HandleSearchProgressed => Typed'
<1> SUFFICES ASSUME Typed, HandleSearchProgressed PROVE Typed'
  OBVIOUS
<1> DEFINE s == Head(signals)
<1>1. signals \in Seq(Signals) /\ signals # <<>> /\ s.kind = "progress" /\ signals' = Tail(signals)
  BY DEF HandleSearchProgressed, Handles, Typed, WorkerInv, WorkerTypes
<1>2. s \in Signals /\ s.n \in 0..MaxLines /\ s.percent \in 0..100 /\ s.search \in Nat
  BY <1>1, HandledSignal, OtherSignals
<1>3. data \in Results /\ op' = op /\ index' = index /\ interrupted' = interrupted
  BY DEF HandleSearchProgressed, worldVars, Typed, WorkerInv, WorkerTypes
<1>4. WorkerInv'
  <2>1. Aside
    BY <1>3 DEF Aside, HandleSearchProgressed, Typed, WorkerInv, WorkerTypes
  <2>2. signals' \in Seq(Signals)
    BY <1>1, HandledSignal
  <2>3. QED
    BY <2>1, <2>2, AsideKeeps
<1>5. matching' \in SUBSET Lines /\ union' \in SUBSET Lines /\ processed' \in 0..MaxLines
  BY <1>3 DEF HandleSearchProgressed, MatchingAfter, UnionAfter, Results, Typed, ListTypes
<1>6. DOMAIN cache' \subseteq Keys /\ \A k \in DOMAIN cache' : cache'[k] \in SUBSET Lines
  <2>1. cache' = cache \/ UpdateCache(matching')
    BY DEF HandleSearchProgressed
  <2>2. ListTypes
    BY DEF Typed
  <2>3. CASE cache' = cache
    BY <2>2, <2>3 DEF ListTypes
  <2>4. CASE UpdateCache(matching') /\ cache' # cache
    <3>1. \A k \in DOMAIN cache' : /\ key \in Keys
             /\ IF k = key THEN cache'[k] = matching' ELSE k \in DOMAIN cache /\ cache'[k] = cache[k]
      BY <1>5, <2>2, <2>4, CacheChange
    <3>2. QED
      BY <1>5, <2>2, <3>1 DEF ListTypes
  <2>5. QED
    BY <2>1, <2>3, <2>4
<1>7. ListTypes'
  <2>1. tainted' \in BOOLEAN
    BY DEF HandleSearchProgressed, Typed, ListTypes
  <2>2. UNCHANGED <<regexp, marks, key, listOf, searches>>
    BY DEF HandleSearchProgressed
  <2>3. QED
    BY <1>5, <1>6, <2>1, <2>2 DEF Typed, ListTypes
<1>8. ViewTypes'
  <2>1. report' \in [n : 0..MaxLines, percent : 0..100] /\ throttled' = TRUE
    BY <1>2 DEF HandleSearchProgressed
  <2>2. UNCHANGED <<crawlerVars, nbMatches, frameVars, worldVars>>
    BY DEF HandleSearchProgressed
  <2>3. QED
    BY <2>1, <2>2 DEF Typed, ViewTypes, crawlerVars, frameVars, worldVars
<1>9. Attached'
  <2>1. Cardinality(Finals(signals')) = Cardinality(Finals(signals)) - (IF IsFinal(s) THEN 1 ELSE 0)
    BY <1>1, HandledSignal
  <2>2. /\ Cardinality(Finals(signals')) \in Nat /\ Cardinality(Finals(signals)) \in Nat
    BY <1>1, HandledSignal, FinalsFinite
  <2>3. readers' = IF s.percent = 100 THEN readers - 1 ELSE readers
    BY DEF HandleSearchProgressed, DetachReader
  <2>4. IsFinal(s) <=> s.percent = 100
    BY <1>1 DEF IsFinal
  <2>5. readers = Cardinality(Finals(signals)) + (IF Idle THEN 0 ELSE 1) /\ (Idle' <=> Idle)
    BY <1>3 DEF Typed, Attached, Idle
  <2>6. PICK e \in {0, 1} : e = IF Idle THEN 0 ELSE 1
    OBVIOUS
  <2>7. PICK f \in {0, 1} : f = IF IsFinal(s) THEN 1 ELSE 0
    OBVIOUS
  <2>8. readers' = readers - f
    <3>1. readers \in Nat
      BY DEF Typed, Attached
    <3>2. QED
      BY <2>3, <2>4, <2>7, <3>1
  <2>9. PICK c, d \in Nat : c = Cardinality(Finals(signals')) /\ d = Cardinality(Finals(signals))
    BY <2>2
  <2>10. c = d - f /\ readers = d + e
    BY <2>1, <2>5, <2>6, <2>7, <2>9
  <2>11. readers' = c + e /\ readers' \in Nat
    BY <2>8, <2>9, <2>10
  <2>12. QED
    BY <2>5, <2>6, <2>9, <2>11 DEF Attached, Idle
<1>10. QED
  BY <1>4, <1>7, <1>8, <1>9 DEF Typed

LEMMA ShownTypes ==
    Typed /\ (HandleSearchProgressedThrottled \/ UpdateFilteredView) => Typed'
<1> SUFFICES ASSUME Typed, HandleSearchProgressedThrottled \/ UpdateFilteredView PROVE Typed'
  OBVIOUS
<1>1. \E n \in 0..MaxLines, percent \in 0..100 : ShowProgress(n, percent)
  <2>1. CASE HandleSearchProgressedThrottled
    BY <2>1 DEF HandleSearchProgressedThrottled, Typed, ViewTypes
  <2>2. CASE UpdateFilteredView
    <3>1. Head(signals) \in Signals /\ Head(signals).kind = "view"
      BY <2>2, HandledSignal DEF UpdateFilteredView, Handles, Typed, WorkerInv, WorkerTypes
    <3>2. QED
      BY <2>2, <3>1, OtherSignals DEF UpdateFilteredView
  <2>3. QED
    BY <2>1, <2>2
<1>2. PICK n \in 0..MaxLines, percent \in 0..100 : ShowProgress(n, percent)
  BY <1>1
<1>3. UNCHANGED <<workerVars, dataVars, report, text, state, autoRefresh, limit,
                  firstLoadDone, following, frameVars, worldVars, calls, listOf, searches, tainted>>
  BY <1>2 DEF ShowProgress
<1>4. Aside
  BY <1>3 DEF Aside, workerVars, worldVars, Typed, WorkerInv, WorkerTypes
<1>5. \/ signals' = signals
      \/ signals # <<>> /\ ~ IsFinal(Head(signals)) /\ signals' = Tail(signals)
  BY DEF HandleSearchProgressedThrottled, UpdateFilteredView, Handles, IsFinal
<1>6. Attached' /\ signals' \in Seq(Signals)
  BY <1>3, <1>4, <1>5, AttachedAsBefore DEF Aside, dataVars
<1>7. ListTypes'
  BY <1>3 DEF dataVars, Typed, ListTypes
<1>8. ViewTypes'
  <2>1. nbMatches' \in 0..MaxLines /\ stopShown' \in BOOLEAN
    BY <1>2 DEF ShowProgress, Typed, ViewTypes
  <2>2. throttled' \in BOOLEAN
    BY DEF HandleSearchProgressedThrottled, UpdateFilteredView, Typed, ViewTypes
  <2>3. QED
    BY <1>3, <2>1, <2>2 DEF frameVars, worldVars, Typed, ViewTypes
<1>9. QED
  BY <1>4, <1>6, <1>7, <1>8, AsideKeeps DEF Typed

LEMMA FrameTypes == Typed /\ (StartPosted \/ LeaveProcessEvents) => Typed'
<1> SUFFICES ASSUME Typed, StartPosted \/ LeaveProcessEvents PROVE Typed'
  OBVIOUS
<1>1. /\ Aside
      /\ UNCHANGED <<dataVars, report, throttled, crawlerVars, nbMatches, worldVars, listOf,
                     searches, tainted>>
  BY DEF StartPosted, LeaveProcessEvents, Aside, Interrupt, Typed, WorkerInv, WorkerTypes, worldVars
<1>2. \/ signals' = signals
      \/ signals # <<>> /\ ~ IsFinal(Head(signals)) /\ signals' = Tail(signals)
  BY DEF StartPosted, LeaveProcessEvents, Handles, IsFinal
<1>3. Attached' /\ signals' \in Seq(Signals)
  BY <1>1, <1>2, AttachedAsBefore DEF Aside, dataVars
<1>4. frames' \in Seq({"user", "load"}) /\ leaving' \in BOOLEAN /\ (leaving' => frames' # <<>>)
  <2>1. frames \in Seq({"user", "load"}) /\ leaving \in BOOLEAN
    BY DEF Typed, ViewTypes
  <2>2. CASE StartPosted
    <3>1. Append(frames, "user") \in Seq({"user", "load"}) /\ Append(frames, "user") # <<>>
      BY <2>1
    <3>2. QED
      BY <2>1, <2>2, <3>1 DEF StartPosted
  <2>3. CASE LeaveProcessEvents
    BY <2>1, <2>3 DEF LeaveProcessEvents
  <2>4. QED
    BY <2>2, <2>3
<1>5. QED
  BY <1>1, <1>3, <1>4, AsideKeeps
     DEF Typed, ListTypes, ViewTypes, dataVars, crawlerVars, worldVars

\* A request attaches the window to the file.
LEMMA RequestTypes ==
    ASSUME Typed, NEW kind \in {"full", "update"}, NEW p \in Patterns \cup {None},
           NEW end \in 0..MaxLines, NEW position \in 0..MaxLines, NEW search \in Nat,
           Request(kind, p, end, position, search), readers' = readers + 1,
           index' = index, data' = data, holes' = holes,
           \/ signals' = signals
           \/ signals # <<>> /\ ~ IsFinal(Head(signals)) /\ signals' = Tail(signals)
    PROVE WorkerInv' /\ Attached'
<1>1. /\ signals \in Seq(Signals) /\ index' \in Logs /\ interrupted' \in BOOLEAN
      /\ Idle /\ op'.pc = "requested"
  BY DEF Typed, WorkerInv, WorkerTypes, Request, IdleOp
<1>2. Cardinality(Finals(signals')) = Cardinality(Finals(signals)) /\ signals' \in Seq(Signals)
  <2>1. CASE signals' = signals
    BY <1>1, <2>1
  <2>2. CASE signals # <<>> /\ ~ IsFinal(Head(signals)) /\ signals' = Tail(signals)
    <3>1. Cardinality(Finals(signals)) \in Nat
      BY <1>1, FinalsFinite
    <3>2. QED
      BY <1>1, <2>2, <3>1, HandledSignal
  <2>3. QED
    BY <2>1, <2>2
<1>3. WorkerInv'
  <2>1. WorkerInv
    BY DEF Typed
  <2>2. \E k \in {"full", "update"}, q \in Patterns \cup {None}, e, ps \in 0..MaxLines, sr \in Nat :
           Request(k, q, e, ps, sr)
    OBVIOUS
  <2>3. QED
    BY <1>1, <1>2, <2>1, <2>2, WorkerElsewhere
<1>4. Attached'
  <2>1. readers = Cardinality(Finals(signals)) + 0 /\ readers \in Nat
    BY <1>1 DEF Typed, Attached
  <2>2. ~ Idle'
    BY <1>1 DEF Idle
  <2>3. Cardinality(Finals(signals)) \in Nat
    BY <1>1, FinalsFinite
  <2>4. QED
    BY <1>2, <2>1, <2>2, <2>3 DEF Attached
<1>5. QED
  BY <1>3, <1>4

LEMMA LoadingTypes ==
    ASSUME Typed
    PROVE /\ Len(index) \in 0..MaxLines
          /\ {m \in SavedMarks : m < Len(index)} \subseteq Lines
          /\ MarksAfterLoad \in SUBSET Lines
<1>1. Len(index) \in 0..MaxLines /\ MaxLines \in Nat /\ SavedMarks \subseteq Nat
  BY LogsAre, CacheAssumption DEF Typed, WorkerInv, WorkerTypes
<1>2. {m \in SavedMarks : m < Len(index)} \subseteq Lines
  <2>1. ASSUME NEW m \in SavedMarks, m < Len(index) PROVE m \in 0..(MaxLines - 1)
    <3>1. m \in Nat
      BY <1>1
    <3>2. QED
      BY <1>1, <2>1, <3>1
  <2>2. QED
    BY <2>1 DEF Lines
<1>3. marks \in SUBSET Lines
  BY DEF Typed, ListTypes
<1>4. QED
  BY <1>1, <1>2, <1>3 DEF MarksAfterLoad

LEMMA LoadingFinishedTypes == Typed /\ LoadingFinished => Typed'
<1> SUFFICES ASSUME Typed, LoadingFinished PROVE Typed'
  OBVIOUS
<1>1. /\ signals # <<>> /\ ~ IsFinal(Head(signals)) /\ signals' = Tail(signals)
      /\ UNCHANGED <<data, holes, regexp, matching, processed, cache, report, throttled,
                     text, state, autoRefresh, infoShown, nbMatches, stopShown, following,
                     leaving, worldVars, calls, listOf, searches, tainted>>
  BY DEF LoadingFinished, Handles, IsFinal
<1>2. index' = index /\ loading' = loading /\ index \in Logs /\ interrupted \in BOOLEAN
  BY <1>1 DEF worldVars, Typed, WorkerInv, WorkerTypes
<1>3. CASE IsAutorefreshAllowed /\ IsFileTruncated
  <2>1. /\ interrupted' = TRUE /\ limit' = Len(index) /\ frames' = Append(frames, "load")
        /\ UNCHANGED <<op, marks, union, key, readers, firstLoadDone>>
    BY <1>3 DEF LoadingFinished, Interrupt
  <2>2. Aside
    BY <1>1, <1>2, <2>1 DEF Aside
  <2>3. Attached' /\ signals' \in Seq(Signals)
    BY <1>1, <2>1, AttachedAsBefore
  <2>4. frames' \in Seq({"user", "load"}) /\ frames' # <<>>
    BY <2>1 DEF Typed, ViewTypes
  <2>5. limit' \in 0..MaxLines
    BY <2>1, LoadingTypes
  <2>6. ListTypes'
    BY <1>1, <2>1 DEF Typed, ListTypes
  <2>7. ViewTypes'
    BY <1>1, <1>2, <2>4, <2>5 DEF Typed, ViewTypes
  <2>8. QED
    BY <2>2, <2>3, <2>6, <2>7, AsideKeeps DEF Typed
<1>4. CASE ~(IsAutorefreshAllowed /\ IsFileTruncated)
  <2>1. /\ limit' = Len(index) /\ marks' = MarksAfterLoad /\ frames' = frames
        /\ union' = IF marks' = marks THEN union ELSE matching \cup marks'
    BY <1>4 DEF LoadingFinished, ClearSearchLimits
  <2>2. WorkerInv' /\ Attached' /\ key' \in {key, NoKey}
    <3>1. CASE IsAutorefreshAllowed
      <4>1. /\ Request("update", regexp, Len(index), processed, listOf) /\ key' = NoKey
            /\ readers' = readers + 1
        BY <1>4, <3>1 DEF LoadingFinished, UpdateSearch
      <4>2. /\ regexp \in Patterns \cup {None} /\ processed \in 0..MaxLines /\ listOf \in Nat
            /\ Len(index) \in 0..MaxLines
        BY LoadingTypes DEF Typed, ListTypes
      <4>3. QED
        BY <1>1, <1>2, <4>1, <4>2, RequestTypes
    <3>2. CASE ~ IsAutorefreshAllowed
      <4>1. UNCHANGED <<op, interrupted, key, readers>>
        BY <1>4, <3>2 DEF LoadingFinished
      <4>2. Aside
        BY <1>1, <1>2, <4>1 DEF Aside
      <4>3. Attached' /\ signals' \in Seq(Signals)
        BY <1>1, <4>1, AttachedAsBefore
      <4>4. QED
        BY <4>1, <4>2, <4>3, AsideKeeps
    <3>3. QED
      BY <3>1, <3>2
  <2>3. limit' \in 0..MaxLines /\ marks' \in SUBSET Lines
    BY <2>1, LoadingTypes
  <2>4. ListTypes'
    <3>1. union' \in SUBSET Lines
      BY <2>1, <2>3 DEF Typed, ListTypes
    <3>2. key' \in Keys \cup {NoKey}
      BY <2>2 DEF Typed, ListTypes
    <3>3. QED
      BY <1>1, <2>3, <3>1, <3>2 DEF Typed, ListTypes
  <2>5. ViewTypes'
    BY <1>1, <1>2, <2>1, <2>3 DEF Typed, ViewTypes
  <2>6. QED
    BY <2>2, <2>4, <2>5 DEF Typed
<1>5. QED
  BY <1>3, <1>4

\* A new search, from the cache or by the worker.
LEMMA RunSearchTypes ==
    ASSUME Typed, NEW p \in Patterns, RunSearch(p), index' = index, data' = data, holes' = holes
    PROVE /\ WorkerInv' /\ Attached' /\ matching' \in SUBSET Lines /\ key' \in Keys
          /\ regexp' = p /\ processed' = 0 /\ listOf' \in Nat /\ searches' \in Nat
<1>1. /\ regexp' = p /\ processed' = 0 /\ key' = KeyOf(p)
      /\ (ShowCached(p) \/ RunWorker(p))
      /\ listOf' = searches + 1 /\ searches' = searches + 1
  BY DEF RunSearch
<1>2. limit \in 0..MaxLines /\ searches \in Nat
  BY DEF Typed, ListTypes, ViewTypes
<1>3. key' \in Keys
  BY <1>1, <1>2 DEF KeyOf, Keys
<1>4. CASE ShowCached(p)
  <2>1. PICK k \in CachedFor(p) :
          /\ interrupted' = TRUE /\ matching' = cache[k]
          /\ signals' = Append(signals, [kind |-> "view", n |-> Cardinality(cache[k]), percent |-> 100])
          /\ UNCHANGED <<op, readers>>
    BY <1>4 DEF ShowCached, Interrupt
  <2>2. cache[k] \in SUBSET Lines
    BY DEF CachedFor, Typed, ListTypes
  <2>3. Cardinality(cache[k]) \in 0..MaxLines
    BY <2>2, LineSets
  <2>4. PICK s \in Signals : ~ IsFinal(s) /\ signals' = Append(signals, s)
    BY <2>1, <2>3, OtherSignals
  <2>5. Attached' /\ signals' \in Seq(Signals)
    BY <2>1, <2>4, AttachedAsBefore
  <2>6. Aside
    BY <2>1 DEF Aside, Typed, WorkerInv, WorkerTypes
  <2>7. QED
    BY <1>1, <1>2, <1>3, <2>1, <2>2, <2>5, <2>6, AsideKeeps
<1>5. CASE RunWorker(p)
  <2>1. /\ Request("full", p, limit, 0, searches + 1) /\ readers' = readers + 1
        /\ matching' = {} /\ signals' = signals
    BY <1>5 DEF RunWorker
  <2>2. 0 \in 0..MaxLines /\ searches + 1 \in Nat
    BY <1>2, Nothing
  <2>3. WorkerInv' /\ Attached'
    BY <1>2, <2>1, <2>2, RequestTypes
  <2>4. QED
    BY <1>1, <1>2, <1>3, <2>1, <2>3
<1>6. QED
  BY <1>1, <1>4, <1>5

LEMMA ReplaceTypes == Typed /\ ReplaceCurrentSearch => Typed'
<1> SUFFICES ASSUME Typed, ReplaceCurrentSearch PROVE Typed'
  OBVIOUS
<1>1. /\ leaving /\ leaving' = FALSE /\ frames' = Front(frames) /\ nbMatches' = 0
      /\ UNCHANGED <<data, holes, report, throttled, text, autoRefresh, worldVars, calls, tainted>>
  BY DEF ReplaceCurrentSearch
<1>2. index' = index /\ loading' = loading
  BY <1>1 DEF worldVars
<1>3. limit' \in 0..MaxLines /\ marks' \in SUBSET Lines
  <2>1. \/ limit' = Len(index) /\ marks' = MarksAfterLoad
        \/ limit' = limit /\ marks' = marks
    BY DEF ReplaceCurrentSearch, ClearSearchLimits
  <2>2. QED
    BY <2>1, LoadingTypes DEF Typed, ListTypes, ViewTypes
<1>4. frames' \in Seq({"user", "load"})
  <2>1. frames \in Seq({"user", "load"}) /\ frames # <<>>
    BY <1>1 DEF Typed, ViewTypes
  <2>2. QED
    BY <1>1, <2>1 DEF Front
<1>5. CASE text # None
  <2>1. /\ RunSearch(text) /\ state' = StateAfterStart /\ infoShown' = FALSE /\ stopShown' = TRUE
        /\ following' = autoRefresh /\ union' = matching' \cup marks' /\ cache' = cache
    BY <1>5 DEF ReplaceCurrentSearch, RunSearch
  <2>2. text \in Patterns
    BY <1>5 DEF Typed, ViewTypes
  <2>3. /\ WorkerInv' /\ Attached' /\ matching' \in SUBSET Lines /\ key' \in Keys
        /\ regexp' = text /\ processed' = 0 /\ listOf' \in Nat /\ searches' \in Nat
    BY <1>1, <1>2, <2>1, <2>2, RunSearchTypes
  <2>4. ListTypes'
    BY <1>1, <1>3, <2>1, <2>2, <2>3, Nothing DEF Typed, ListTypes
  <2>5. ViewTypes'
    BY <1>1, <1>2, <1>3, <1>4, <2>1, Nothing, StatesAre DEF Typed, ViewTypes
  <2>6. QED
    BY <2>3, <2>4, <2>5 DEF Typed
<1>6. CASE text = None
  <2>1. /\ ClearSearch(marks', FALSE) /\ state' = "NoSearch" /\ following' = FALSE
        /\ UNCHANGED <<op, signals, key, readers, stopShown, searches>>
    BY <1>6 DEF ReplaceCurrentSearch
  <2>2. /\ interrupted' = TRUE /\ regexp' \in Patterns \cup {None} /\ matching' \in SUBSET Lines
        /\ union' \in SUBSET Lines /\ processed' \in 0..MaxLines /\ listOf' \in Nat
        /\ DOMAIN cache' \subseteq Keys /\ \A k \in DOMAIN cache' : cache'[k] \in SUBSET Lines
    <3>1. PICK m \in SUBSET Lines : m = marks'
      BY <1>3
    <3>2. ClearSearch(m, FALSE)
      BY <2>1, <3>1
    <3>3. ListTypes
      BY DEF Typed
    <3>4. QED
      BY <3>2, <3>3, ClearSearchTypes
  <2>3. Aside
    BY <1>1, <1>2, <2>1, <2>2 DEF Aside, Typed, WorkerInv, WorkerTypes
  <2>4. Attached' /\ signals' \in Seq(Signals)
    BY <2>1, AttachedAsBefore
  <2>5. ListTypes'
    BY <1>1, <1>3, <2>1, <2>2 DEF Typed, ListTypes
  <2>6. ViewTypes'
    BY <1>1, <1>2, <1>3, <1>4, <2>1, Nothing DEF Typed, ViewTypes, SearchStates
  <2>7. QED
    BY <2>3, <2>4, <2>5, <2>6, AsideKeeps DEF Typed
<1>7. QED
  BY <1>5, <1>6

LEMMA LogTypes == Typed /\ (Grow \/ FileTruncated \/ IndexCleared \/ IndexBuilt) => Typed'
<1> SUFFICES ASSUME Typed, Grow \/ FileTruncated \/ IndexCleared \/ IndexBuilt PROVE Typed'
  OBVIOUS
<1> DEFINE Loadings == [kind : {"none", "full", "partial"}, to : Logs]
<1>1. index \in Logs /\ signals \in Seq(Signals) /\ loading \in Loadings /\ interrupted \in BOOLEAN
  BY DEF Typed, WorkerInv, WorkerTypes, ViewTypes
<1>2. CASE Grow
  <2>1. index' \in Logs
    BY <1>2 DEF Grow
  <2>2. loading' \in Loadings
    BY <1>2, <2>1 DEF Grow
  <2>3. UNCHANGED <<workerVars, signals, dataVars, report, throttled, crawlerVars, nbMatches,
                    frameVars, calls, listOf, searches, tainted>>
    BY <1>2 DEF Grow
  <2>4. Aside
    BY <1>1, <2>1, <2>3 DEF Aside, workerVars
  <2>5. Attached' /\ signals' \in Seq(Signals)
    BY <2>3, AttachedAsBefore DEF workerVars, dataVars
  <2>6. ListTypes' /\ ViewTypes'
    BY <2>2, <2>3 DEF Typed, ListTypes, ViewTypes, dataVars, crawlerVars, frameVars
  <2>7. QED
    BY <2>4, <2>5, <2>6, AsideKeeps DEF Typed
<1>3. CASE FileTruncated
  <2>1. /\ marks' = {} /\ following' = FALSE
        /\ UNCHANGED <<data, op, holes, signals, key, readers, report, throttled, text,
                       autoRefresh, limit, stopShown, firstLoadDone, frameVars, index, calls,
                       searches, tainted>>
    BY <1>3 DEF FileTruncated
  <2>2. loading' \in Loadings
    BY <1>3, CacheAssumption DEF FileTruncated, Logs
  <2>3. /\ interrupted' \in BOOLEAN /\ regexp' \in Patterns \cup {None}
        /\ matching' \in SUBSET Lines
        /\ union' \in SUBSET Lines /\ processed' \in 0..MaxLines /\ listOf' \in Nat
        /\ DOMAIN cache' \subseteq Keys /\ \A k \in DOMAIN cache' : cache'[k] \in SUBSET Lines
        /\ state' \in SearchStates /\ nbMatches' \in 0..MaxLines
    <3>1. CASE infoShown
      <4>1. ClearSearch({}, TRUE) /\ state' = StateAfterTruncation /\ nbMatches' = 0
        BY <1>3, <3>1 DEF FileTruncated
      <4>2. ListTypes /\ state \in SearchStates
        BY DEF Typed, ViewTypes
      <4>3. QED
        BY <4>1, <4>2, ClearSearchTypes, StatesAre, Nothing
    <3>2. CASE ~ infoShown
      BY <1>1, <1>3, <3>2 DEF FileTruncated, Typed, ListTypes, ViewTypes
    <3>3. QED
      BY <3>1, <3>2
  <2>4. Aside
    BY <1>1, <2>1, <2>3 DEF Aside
  <2>5. Attached' /\ signals' \in Seq(Signals)
    BY <2>1, AttachedAsBefore
  <2>6. ListTypes'
    BY <2>1, <2>3, Nothing DEF Typed, ListTypes
  <2>7. ViewTypes'
    BY <2>1, <2>2, <2>3 DEF Typed, ViewTypes, frameVars
  <2>8. QED
    BY <2>4, <2>5, <2>6, <2>7, AsideKeeps DEF Typed
<1>4. CASE IndexCleared
  <2>1. UNCHANGED <<workerVars, signals, dataVars, report, throttled, crawlerVars, nbMatches,
                    frameVars, changes, calls, listOf, searches>>
    BY <1>4 DEF IndexCleared
  <2>2. index' \in Logs /\ loading' \in Loadings /\ tainted' \in BOOLEAN
    BY <1>1, <1>4, Nothing DEF IndexCleared, Typed, ListTypes
  <2>3. Aside
    BY <1>1, <2>1, <2>2 DEF Aside, workerVars
  <2>4. Attached' /\ signals' \in Seq(Signals)
    BY <2>1, AttachedAsBefore DEF workerVars, dataVars
  <2>5. ListTypes' /\ ViewTypes'
    BY <2>1, <2>2 DEF Typed, ListTypes, ViewTypes, dataVars, crawlerVars, frameVars
  <2>6. QED
    BY <2>3, <2>4, <2>5, AsideKeeps DEF Typed
<1>5. CASE IndexBuilt
  <2>1. /\ UNCHANGED <<workerVars, dataVars, report, throttled, crawlerVars, nbMatches,
                       frameVars, changes, calls, listOf, searches, tainted>>
        /\ signals' = Append(signals, [kind |-> "loaded"])
    BY <1>5 DEF IndexBuilt
  <2>2. index' \in Logs /\ loading' \in Loadings
    BY <1>1, <1>5, Nothing DEF IndexBuilt, NotLoading, NoLog
  <2>3. Aside
    BY <1>1, <2>1, <2>2 DEF Aside, workerVars
  <2>4. [kind |-> "loaded"] \in Signals /\ ~ IsFinal([kind |-> "loaded"])
    BY OtherSignals DEF IsFinal
  <2>5. Attached' /\ signals' \in Seq(Signals)
    BY <2>1, <2>4, AttachedAsBefore DEF workerVars, dataVars
  <2>6. ListTypes' /\ ViewTypes'
    BY <2>1, <2>2 DEF Typed, ListTypes, ViewTypes, dataVars, crawlerVars, frameVars
  <2>7. QED
    BY <2>3, <2>5, <2>6, AsideKeeps DEF Typed
<1>6. QED
  BY <1>2, <1>3, <1>4, <1>5

LEMMA WorkerStepTypes == Typed /\ WorkerStep => Typed'
<1> SUFFICES ASSUME Typed, WorkerStep PROVE Typed'
  OBVIOUS
<1>1. /\ SearchStep
      /\ UNCHANGED <<dataVars, report, throttled, crawlerVars, nbMatches, frameVars,
                     loading, changes, calls, listOf, searches, tainted>>
  BY DEF WorkerStep
<1>2. WorkerInv'
  BY <1>1, SearchStepKeeps DEF Typed
<1>3. ListTypes' /\ ViewTypes'
  BY <1>1 DEF Typed, ListTypes, ViewTypes, dataVars, crawlerVars, frameVars
<1>4. Attached'
  <2>1. /\ signals \in Seq(Signals) /\ readers \in Nat /\ Cardinality(Finals(signals)) \in Nat
        /\ readers' = readers /\ op \in Operations
    BY <1>1, FinalsFinite DEF Typed, WorkerInv, WorkerTypes, Attached, dataVars
  <2>2. CASE FinishSearch
    <3>1. /\ op.pc = "searching" /\ op' = [IdleOp EXCEPT !.end = op.end]
          /\ signals' = Append(signals, Progress(op.count, 100))
      BY <2>2 DEF FinishSearch
    <3>2. op'.pc = "idle"
      BY <3>1, IdleOperation DEF IdleOp
    <3>3. Progress(op.count, 100) \in Signals /\ IsFinal(Progress(op.count, 100))
      BY <2>1 DEF Progress, Signals, IsFinal, Operations
    <3>4. Cardinality(Finals(signals')) = Cardinality(Finals(signals)) + 1
      BY <2>1, <3>1, <3>3, PostedSignal
    <3>5. readers = Cardinality(Finals(signals)) + 1
      BY <3>1 DEF Typed, Attached, Idle
    <3>6. QED
      BY <2>1, <3>2, <3>4, <3>5 DEF Attached, Idle
  <2>3. CASE JoinBlock
    <3>1. PICK b \in op.joining, found \in SUBSET Lines, done, count, told \in 0..MaxLines,
               percent \in 0..100 : Joins(b, found, done, count, told, percent)
      BY <2>3, Joined DEF Typed
    <3>2. op.pc # "idle" /\ op'.pc # "idle"
      <4>1. op.pc = "searching"
        BY <3>1 DEF Joins, Typed, WorkerInv, Blocked
      <4>2. op'.pc = op.pc
        BY <2>1, <3>1 DEF Joins, Operations
      <4>3. QED
        BY <4>1, <4>2
    <3>3. Cardinality(Finals(signals')) = Cardinality(Finals(signals))
      <4>1. CASE signals' = signals
        BY <4>1
      <4>2. ASSUME NEW n \in 0..99, signals' = Append(signals, Progress(count, n))
            PROVE Cardinality(Finals(signals')) = Cardinality(Finals(signals))
        <5>1. Progress(count, n) \in Signals /\ ~ IsFinal(Progress(count, n))
          <6>1. n \in 0..100 /\ n # 100 /\ op.search \in Nat
            BY <2>1 DEF Operations
          <6>2. QED
            BY <6>1 DEF Progress, Signals, IsFinal
        <5>2. QED
          BY <2>1, <4>2, <5>1, PostedSignal
      <4>3. QED
        BY <3>1, <4>1, <4>2 DEF Joins
    <3>4. QED
      BY <2>1, <3>2, <3>3 DEF Typed, Attached, Idle
  <2>4. CASE BeginFull \/ BeginUpdate \/ ReadChunk \/ TakeBlock \/ DropBlocks
    <3>1. signals' = signals
      BY <2>4 DEF BeginFull, BeginUpdate, ReadChunk, TakeBlock, DropBlocks
    <3>2. op.pc # "idle" /\ op'.pc # "idle"
      <4>1. op.pc # "idle"
        BY <2>4 DEF BeginFull, BeginUpdate, ReadChunk, Reading, TakeBlock, DropBlocks
      <4>2. op'.pc \in {op.pc, "searching"}
        BY <2>1, <2>4
           DEF BeginFull, BeginUpdate, Started, ReadChunk, TakeBlock, DropBlocks, Operations
      <4>3. QED
        BY <4>1, <4>2
    <3>3. QED
      BY <2>1, <3>1, <3>2 DEF Typed, Attached, Idle
  <2>5. QED
    BY <1>1, <2>2, <2>3, <2>4 DEF SearchStep
<1>5. QED
  BY <1>2, <1>3, <1>4 DEF Typed

LEMMA TypedStep == Typed /\ [Next]_vars => Typed'
<1> SUFFICES ASSUME Typed, [Next]_vars PROVE Typed'
  OBVIOUS
<1>1. CASE UserAction
  BY <1>1, UserTypes, ReloadTypes DEF UserAction
<1>2. CASE Handler
  BY <1>2, ProgressedTypes, ShownTypes, LoadingFinishedTypes, FrameTypes, ReplaceTypes
     DEF Handler
<1>3. CASE WorkerStep
  BY <1>3, WorkerStepTypes
<1>4. CASE Grow \/ FileTruncated \/ Loads
  BY <1>4, LogTypes DEF Loads
<1>5. CASE UNCHANGED vars
  BY <1>5 DEF vars, workerVars, dataVars, crawlerVars, frameVars, worldVars, Typed, WorkerInv,
     WorkerTypes, Blocked, Counted, ListTypes, ViewTypes, Attached, Idle
<1>6. QED
  BY <1>1, <1>2, <1>3, <1>4, <1>5 DEF Next

\* Every variable of the window and of the worker stays in its type; with the blocks in the
\* graph apart from each other, no line is counted twice and the count is that of the matches.
THEOREM SearchCorrect == Spec => []TypeOK
<1>1. Spec => []Typed
  BY TypedInit, TypedStep, PTL DEF Spec
<1>2. QED
  BY <1>1, TypedIsTyped, PTL

-----------------------------------------------------------------------------
(* What the steps do to the list and to its search *)

\* Steps that leave the list, the results and the operation as they are.
Bystanders ==
    \/ StartNewSearch \/ SetSearchPattern \/ SearchTextChange \/ StopSearch
    \/ SearchRefreshChange \/ SetSearchLimits \/ StopLoading \/ MarkLine
    \/ StartPosted \/ LeaveProcessEvents
    \/ Grow \/ IndexCleared \/ IndexBuilt \/ (FileTruncated /\ ~infoShown)

LEMMA BystandersLeave ==
    ASSUME Bystanders
    PROVE /\ UNCHANGED <<data, op, holes, regexp, matching, processed, key, cache, report,
                         throttled, nbMatches, stopShown, listOf, searches>>
          /\ tainted => tainted'
          /\ \/ signals' = signals \/ signals' = Append(signals, [kind |-> "start"])
             \/ signals' = Append(signals, [kind |-> "loaded"])
             \/ signals # <<>> /\ Head(signals).kind = "start" /\ signals' = Tail(signals)
          /\ \/ leaving' = leaving
             \/ signals = <<>> /\ signals' = <<>>
<1>1. CASE StartNewSearch \/ SetSearchPattern \/ SearchTextChange \/ StopSearch
  BY <1>1 DEF StartNewSearch, SetSearchPattern, SearchTextChange, StopSearch, dataVars, workerVars,
     crawlerVars, frameVars
<1>2. CASE SearchRefreshChange \/ SetSearchLimits \/ StopLoading \/ MarkLine
  BY <1>2 DEF SearchRefreshChange, SetSearchLimits, StopLoading, MarkLine, dataVars, workerVars,
     crawlerVars, frameVars
<1>3. CASE StartPosted \/ LeaveProcessEvents
  BY <1>3 DEF StartPosted, LeaveProcessEvents, Handles, dataVars, workerVars, crawlerVars
<1>4. CASE Grow
  BY <1>4 DEF Grow, dataVars, workerVars, crawlerVars, frameVars
<1>5. CASE IndexCleared
  BY <1>5 DEF IndexCleared, dataVars, workerVars, crawlerVars, frameVars
<1>6. CASE IndexBuilt
  BY <1>6 DEF IndexBuilt, dataVars, workerVars, crawlerVars, frameVars
<1>7. CASE FileTruncated /\ ~infoShown
  BY <1>7 DEF FileTruncated, frameVars
<1>8. QED
  BY <1>1, <1>2, <1>3, <1>4, <1>5, <1>6, <1>7 DEF Bystanders

\* Steps that clear the list.
Clearing ==
    \/ Reload \/ (FileTruncated /\ infoShown) \/ (ReplaceCurrentSearch /\ text = None)

LEMMA ClearingLeaves ==
    ASSUME Clearing
    PROVE /\ listOf' = 0 /\ matching' = {} /\ processed' = 0
          /\ UNCHANGED <<data, op, holes, signals, report, throttled, stopShown, searches, tainted,
                         key, index>>
          /\ leaving' => leaving
          /\ interrupted' = TRUE
          /\ cache' = cache \/ cache' = << >>
BY DEF Clearing, Reload, FileTruncated, ReplaceCurrentSearch, ClearSearch, Interrupt, frameVars,
   worldVars

\* The list is started anew for a search that was asked for.
Starting == ReplaceCurrentSearch /\ text # None

LEMMA StartingDoes ==
    ASSUME Starting
    PROVE /\ leaving /\ ~ leaving' /\ stopShown' /\ RunSearch(text)
          /\ UNCHANGED <<data, holes, report, throttled, tainted, cache, index, loading>>
          /\ listOf' = searches + 1 /\ searches' = searches + 1
BY DEF Starting, ReplaceCurrentSearch, RunSearch, worldVars

LEMMA LoadingFinishedLeaves ==
    ASSUME LoadingFinished
    PROVE /\ UNCHANGED <<data, holes, regexp, matching, processed, cache, report, throttled,
                         nbMatches, stopShown, leaving, listOf, searches, tainted>>
          /\ ~ leaving /\ signals # <<>> /\ Head(signals).kind = "loaded" /\ signals' = Tail(signals)
          /\ op' = op \/ Request("update", regexp, Len(index), processed, listOf)
BY DEF LoadingFinished, UpdateSearch, Handles

LEMMA ShownLeaves ==
    ASSUME HandleSearchProgressedThrottled \/ UpdateFilteredView
    PROVE /\ UNCHANGED <<data, op, holes, regexp, matching, processed, key, cache, report,
                         listOf, searches, tainted, leaving, interrupted, index, loading>>
          /\ ~ leaving
          /\ \/ signals' = signals
             \/ signals # <<>> /\ Head(signals).kind = "view" /\ signals' = Tail(signals)
BY DEF HandleSearchProgressedThrottled, UpdateFilteredView, ShowProgress, Handles, workerVars,
   dataVars, frameVars, worldVars

LEMMA SixKinds ==
    Next <=> \/ Bystanders \/ Clearing \/ Starting \/ LoadingFinished
             \/ HandleSearchProgressedThrottled \/ UpdateFilteredView
             \/ HandleSearchProgressed \/ WorkerStep
BY DEF Next, UserAction, Handler, Loads, Bystanders, Clearing, Starting

-----------------------------------------------------------------------------
(* The list and the results of the worker *)

\* Searches are numbered as they are asked for; the list is for the latest one or cleared.  A
\* list that waits for its search to begin is empty.
Numbered ==
    /\ listOf \in {0, searches} /\ data.of <= searches /\ op.search <= searches
    /\ op.pc = "requested" /\ op.kind = "full" =>
          /\ data.of < op.search
          /\ op.search = listOf /\ ~ tainted => matching = {}

Sums == ~ tainted /\ listOf # 0 /\ data.of = listOf =>
            (matching \ data.removed) \cup data.new = data.matches

AddUpInv == Typed /\ Numbered /\ Sums

LEMMA AddUpInit == Init => AddUpInv
<1> SUFFICES ASSUME Init PROVE AddUpInv
  OBVIOUS
<1>1. Typed
  BY TypedInit
<1>2. data.of = 0 /\ op.search = 0 /\ op.pc = "idle" /\ listOf = 0 /\ searches = 0
  BY DEF Init, ClearedResults, IdleOp
<1>3. QED
  BY <1>1, <1>2 DEF AddUpInv, Numbered, Sums

LEMMA NumbersAre ==
    ASSUME Typed
    PROVE /\ data.of \in Nat /\ op.search \in Nat /\ listOf \in Nat /\ searches \in Nat
          /\ data \in Results /\ op \in Operations /\ signals \in Seq(Signals)
BY DEF Typed, ListTypes, WorkerInv, WorkerTypes, Results, Operations

LEMMA RequestedIs ==
    ASSUME NEW kind, NEW p, NEW end, NEW position, NEW search,
           Request(kind, p, end, position, search)
    PROVE /\ op.pc = "idle" /\ op'.pc = "requested" /\ op'.kind = kind /\ op'.regexp = p
          /\ op'.end = end /\ op'.position = position /\ op'.search = search
          /\ interrupted' = FALSE
BY DEF Request, Idle, IdleOp

LEMMA ElsewhereAddsUp ==
    ASSUME AddUpInv, Bystanders \/ Clearing \/ LoadingFinished
                     \/ HandleSearchProgressedThrottled \/ UpdateFilteredView
    PROVE Numbered' /\ Sums'
<1>1. data' = data /\ searches' = searches /\ (tainted => tainted')
      /\ (listOf' = 0 \/ (listOf' = listOf /\ matching' = matching))
  <2>1. CASE Bystanders
    BY <2>1, BystandersLeave
  <2>2. CASE Clearing
    BY <2>2, ClearingLeaves
  <2>3. CASE LoadingFinished
    BY <2>3, LoadingFinishedLeaves
  <2>4. CASE HandleSearchProgressedThrottled \/ UpdateFilteredView
    BY <2>4, ShownLeaves
  <2>5. QED
    BY <2>1, <2>2, <2>3, <2>4
<1>2. CASE op' = op
  BY <1>1, <1>2, NumbersAre DEF AddUpInv, Numbered, Sums
<1>3. CASE Request("update", regexp, Len(index), processed, listOf)
  <2>1. op'.pc = "requested" /\ op'.kind = "update" /\ op'.search = listOf
    BY <1>3, RequestedIs
  <2>2. QED
    BY <1>1, <2>1, NumbersAre DEF AddUpInv, Numbered, Sums
<1>4. op' = op \/ Request("update", regexp, Len(index), processed, listOf)
  BY BystandersLeave, ClearingLeaves, LoadingFinishedLeaves, ShownLeaves
<1>5. QED
  BY <1>2, <1>3, <1>4

LEMMA StartingAddsUp ==
    ASSUME AddUpInv, Starting
    PROVE /\ Numbered' /\ Sums' /\ data.of < listOf' /\ op.search < listOf'
          /\ listOf' = searches + 1
          /\ \/ ShowCached(text)
             \/ /\ Request("full", text, limit, 0, listOf') /\ signals' = signals
                /\ matching' = {}
<1>1. /\ listOf' = searches + 1 /\ searches' = searches + 1 /\ data' = data /\ tainted' = tainted
      /\ (ShowCached(text) \/ RunWorker(text))
  BY StartingDoes DEF RunSearch
<1>2. data.of < listOf' /\ op.search < listOf'
  BY <1>1, NumbersAre DEF AddUpInv, Numbered
<1>3. CASE ShowCached(text)
  <2>1. op' = op
    BY <1>3 DEF ShowCached
  <2>2. QED
    BY <1>1, <1>2, <1>3, <2>1, NumbersAre DEF AddUpInv, Numbered, Sums
<1>4. CASE RunWorker(text)
  <2>1. /\ Request("full", text, limit, 0, listOf') /\ signals' = signals /\ matching' = {}
    BY <1>1, <1>4 DEF RunWorker
  <2>2. op'.pc = "requested" /\ op'.kind = "full" /\ op'.search = listOf'
    BY <2>1, RequestedIs
  <2>3. QED
    BY <1>1, <1>2, <2>1, <2>2, NumbersAre DEF AddUpInv, Numbered, Sums
<1>5. QED
  BY <1>1, <1>3, <1>4

LEMMA ProgressedAddsUp ==
    ASSUME AddUpInv, HandleSearchProgressed
    PROVE Numbered' /\ Sums'
<1>1. /\ data' = TakeCurrentResults(data) /\ matching' = MatchingAfter(data)
      /\ UNCHANGED <<op, listOf, searches>>
      /\ tainted \/ data.of # listOf => tainted'
  BY DEF HandleSearchProgressed
<1>2. data'.of = data.of /\ data'.new = {} /\ data'.removed = {} /\ data'.matches = data.matches
  BY <1>1, NumbersAre DEF TakeCurrentResults, Results, AddUpInv
<1>3. Numbered'
  BY <1>1, <1>2, NumbersAre DEF AddUpInv, Numbered
<1>4. Sums'
  BY <1>1, <1>2 DEF MatchingAfter, AddUpInv, Sums
<1>5. QED
  BY <1>3, <1>4

LEMMA WorkerAddsUp ==
    ASSUME AddUpInv, WorkerStep
    PROVE Numbered' /\ Sums'
<1>1. /\ UNCHANGED <<matching, listOf, searches, tainted>> /\ SearchStep
  BY DEF WorkerStep, dataVars
<1>2. data \in Results /\ op \in Operations
  BY NumbersAre DEF AddUpInv
<1>3. CASE BeginFull
  <2>1. /\ op.pc = "requested" /\ op.kind = "full" /\ op'.pc = "searching"
        /\ data' = ClearedResults(op.search) /\ op'.search = op.search
    BY <1>2, <1>3 DEF BeginFull, Started, Operations
  <2>2. data'.of = op.search /\ data'.new = {} /\ data'.removed = {} /\ data'.matches = {}
    BY <2>1 DEF ClearedResults
  <2>3. QED
    BY <1>1, <2>1, <2>2 DEF AddUpInv, Numbered, Sums
<1>4. CASE BeginUpdate
  <2> DEFINE line == Most(data.processed, op.position)
  <2>1. /\ data' = Resumed(line).data /\ op' = Started(Resumed(line).data, Resumed(line).initial)
    BY <1>4 DEF BeginUpdate
  <2> HIDE DEF line
  <2>2. op'.pc = "searching" /\ op'.search = op.search
    BY <1>2, <2>1 DEF Started, Operations
  <2>3. data' = data \/ data' = DeleteMatch(data, line - 1)
    BY <2>1 DEF Resumed
  <2>4. CASE data' = data
    BY <1>1, <2>2, <2>4 DEF AddUpInv, Numbered, Sums
  <2>5. CASE data' = DeleteMatch(data, line - 1)
    <3>1. PICK l : l = line - 1
      OBVIOUS
    <3>2. /\ data'.of = data.of
          /\ data'.matches = data.matches \ {l} /\ data'.new = data.new \ {l}
          /\ data'.removed = IF l \in data.matches THEN data.removed \cup {l} ELSE data.removed
      BY <1>2, <2>5, <3>1 DEF DeleteMatch, Results
    <3>3. QED
      BY <1>1, <2>2, <3>2 DEF AddUpInv, Numbered, Sums
  <2>6. QED
    BY <2>3, <2>4, <2>5
<1>5. CASE JoinBlock
  <2>1. PICK b \in op.joining, found \in SUBSET Lines, done, count, told \in 0..MaxLines,
             percent \in 0..100 : Joins(b, found, done, count, told, percent)
    BY <1>5, Joined DEF AddUpInv, Typed
  <2>2. op.pc = "searching" /\ op'.pc = op.pc /\ op'.search = op.search
    BY <1>2, <2>1 DEF Joins, AddUpInv, Typed, WorkerInv, Blocked, Operations
  <2>3. /\ data'.of = data.of
        /\ \/ data' = data
           \/ /\ data'.matches = data.matches \cup found /\ data'.new = data.new \cup found
              /\ data'.removed = data.removed
    BY <1>2, <2>1 DEF Joins, Results
  <2>4. QED
    BY <1>1, <2>2, <2>3 DEF AddUpInv, Numbered, Sums
<1>6. CASE ReadChunk \/ TakeBlock \/ DropBlocks
  <2>1. data' = data /\ op.pc = "searching" /\ op'.pc = op.pc /\ op'.search = op.search
    BY <1>2, <1>6 DEF ReadChunk, Reading, TakeBlock, DropBlocks, Operations
  <2>2. QED
    BY <1>1, <2>1 DEF AddUpInv, Numbered, Sums
<1>7. CASE FinishSearch
  <2>1. data' = data /\ op'.pc = "idle" /\ op'.search = 0
    BY <1>2, <1>7 DEF FinishSearch, IdleOp
  <2>2. QED
    BY <1>1, <2>1, NumbersAre DEF AddUpInv, Numbered, Sums
<1>8. QED
  BY <1>1, <1>3, <1>4, <1>5, <1>6, <1>7 DEF SearchStep

LEMMA AddUpStep == AddUpInv /\ [Next]_vars => AddUpInv'
<1> SUFFICES ASSUME AddUpInv, [Next]_vars PROVE AddUpInv'
  OBVIOUS
<1>1. Typed'
  BY TypedStep DEF AddUpInv
<1>2. CASE UNCHANGED vars
  BY <1>1, <1>2 DEF AddUpInv, Numbered, Sums, vars, workerVars, dataVars
<1>3. CASE Next
  <2>1. Numbered' /\ Sums'
    BY <1>3, SixKinds, ElsewhereAddsUp, StartingAddsUp, ProgressedAddsUp, WorkerAddsUp
  <2>2. QED
    BY <1>1, <2>1 DEF AddUpInv
<1>4. QED
  BY <1>2, <1>3

LEMMA AddUpInvariant == Spec => []AddUpInv
BY AddUpInit, AddUpStep, PTL DEF Spec

\* DifferencesAddUp always: however the blocks are joined, updates take back the last line and
\* signals are handled late, the list with what was not taken yet is what the worker found,
\* and the worker's count is that of its lines.
THEOREM DifferencesAlwaysAddUp == Spec => []DifferencesAddUp
<1>1. AddUpInv => DifferencesAddUp
  BY DEF AddUpInv, Sums, Typed, WorkerInv, Counted, DifferencesAddUp, Feeding
<1>2. QED
  BY <1>1, AddUpInvariant, PTL

-----------------------------------------------------------------------------
(* What the window shows *)

\* The signals of a worker that rests: the last one of a search is final, with the count n.
Ended(queue, n) ==
    /\ \A i \in 1..Len(queue) : queue[i].kind = "progress" => \E j \in Finals(queue) : j >= i
    /\ \A i \in Finals(queue) : (\A j \in Finals(queue) : j <= i) => queue[i].n = n

LEMMA EndedPosted ==
    ASSUME NEW queue \in Seq(Signals), NEW n, Ended(queue, n), NEW s \in Signals,
           s.kind # "progress"
    PROVE Ended(Append(queue, s), n)
<1> DEFINE t == Append(queue, s)
           m == Len(queue)
<1>1. /\ Len(t) = m + 1 /\ t[m + 1] = s /\ m \in Nat /\ Finals(t) = Finals(queue)
      /\ \A i \in 1..m : t[i] = queue[i]
  <2>1. ~ IsFinal(s)
    BY DEF IsFinal
  <2>2. QED
    BY <2>1, PostedSignal, LenProperties
<1>2. Finals(queue) \subseteq 1..m
  BY DEF Finals
<1>3. 1..Len(t) = 1..m \cup {m + 1}
  BY <1>1
<1> HIDE DEF t, m
<1>4. \A i \in 1..Len(t) : t[i].kind = "progress" => \E j \in Finals(t) : j >= i
  <2>1. TAKE i \in 1..Len(t)
  <2>2. CASE i = m + 1
    BY <1>1, <2>2
  <2>3. CASE i \in 1..m
    BY <1>1, <2>3 DEF Ended, m
  <2>4. QED
    BY <1>3, <2>2, <2>3
<1>5. \A i \in Finals(t) : (\A j \in Finals(t) : j <= i) => t[i].n = n
  BY <1>1, <1>2 DEF Ended
<1>6. Ended(t, n)
  BY <1>4, <1>5 DEF Ended
<1>7. QED
  BY <1>6 DEF t

LEMMA EndedLast ==
    ASSUME NEW queue \in Seq(Signals), NEW s \in Signals, IsFinal(s)
    PROVE Ended(Append(queue, s), s.n) /\ Finals(Append(queue, s)) # {}
<1> DEFINE t == Append(queue, s)
           m == Len(queue)
<1>1. /\ Len(t) = m + 1 /\ t[m + 1] = s /\ m \in Nat
      /\ Finals(t) = Finals(queue) \cup {m + 1}
  BY PostedSignal, LenProperties
<1>2. Finals(queue) \subseteq 1..m
  BY DEF Finals
<1> HIDE DEF t, m
<1>3. \A i \in 1..Len(t) : m + 1 >= i /\ m + 1 \in Finals(t)
  BY <1>1
<1>4. \A i \in Finals(t) : (\A j \in Finals(t) : j <= i) => i = m + 1
  BY <1>1, <1>2
<1>5. Ended(t, s.n)
  BY <1>1, <1>3, <1>4 DEF Ended
<1>6. QED
  BY <1>1, <1>5 DEF t

LEMMA EndedHandled ==
    ASSUME NEW queue \in Seq(Signals), NEW n, Ended(queue, n), queue # <<>>
    PROVE /\ Ended(Tail(queue), n)
          /\ Head(queue).kind = "progress" /\ ~ IsFinal(Head(queue)) => Finals(Tail(queue)) # {}
          /\ IsFinal(Head(queue)) /\ Finals(Tail(queue)) = {} => Head(queue).n = n
          /\ ~ IsFinal(Head(queue)) /\ Finals(queue) # {} => Finals(Tail(queue)) # {}
          /\ Finals(Tail(queue)) # {} => Finals(queue) # {}
<1> DEFINE t == Tail(queue)
           m == Len(queue)
<1>1. /\ m \in Nat \ {0} /\ Len(t) = m - 1 /\ Head(queue) = queue[1]
      /\ \A i \in 1..(m - 1) : t[i] = queue[i + 1] /\ (i \in Finals(t) <=> i + 1 \in Finals(queue))
      /\ (1 \in Finals(queue) <=> IsFinal(Head(queue)))
      /\ Finals(t) \subseteq 1..(m - 1)
  BY HandledSignal
<1>2. Finals(queue) \subseteq 1..m
  BY DEF Finals
<1>3. /\ \A i \in 1..m : queue[i].kind = "progress" => \E j \in Finals(queue) : j >= i
      /\ \A i \in Finals(queue) : (\A j \in Finals(queue) : j <= i) => queue[i].n = n
  BY DEF Ended
<1> HIDE DEF t, m
<1>4. \A j \in Finals(queue) : j # 1 => j - 1 \in Finals(t) /\ (j - 1) + 1 = j
  <2>1. TAKE j \in Finals(queue)
  <2>2. HAVE j # 1
  <2>3. j - 1 \in 1..(m - 1) /\ (j - 1) + 1 = j
    BY <1>1, <1>2, <2>2
  <2>4. QED
    BY <1>1, <2>3
<1>5. \A i \in 1..(m - 1) : t[i].kind = "progress" => \E j \in Finals(t) : j >= i
  <2>1. SUFFICES ASSUME NEW i \in 1..(m - 1), t[i].kind = "progress"
                 PROVE \E j \in Finals(t) : j >= i
    OBVIOUS
  <2>2. i + 1 \in 1..m /\ queue[i + 1].kind = "progress"
    BY <1>1, <2>1
  <2>3. PICK j \in Finals(queue) : j >= i + 1
    BY <1>3, <2>2
  <2>4. j # 1 /\ j - 1 >= i
    BY <1>1, <1>2, <2>3
  <2>5. QED
    BY <1>4, <2>4
<1>6. \A i \in Finals(t) : (\A j \in Finals(t) : j <= i) => t[i].n = n
  <2>1. SUFFICES ASSUME NEW i \in Finals(t), \A j \in Finals(t) : j <= i
                 PROVE t[i].n = n
    OBVIOUS
  <2>2. i \in 1..(m - 1) /\ i + 1 \in Finals(queue) /\ t[i] = queue[i + 1]
    BY <1>1
  <2>3. \A j \in Finals(queue) : j <= i + 1
    <3>1. TAKE j \in Finals(queue)
    <3>2. CASE j = 1
      BY <1>1, <2>2, <3>2
    <3>3. CASE j # 1
      <4>1. j - 1 <= i
        BY <1>4, <2>1, <3>3
      <4>2. QED
        BY <1>1, <1>2, <2>2, <4>1
    <3>4. QED
      BY <3>2, <3>3
  <2>4. QED
    BY <1>3, <2>2, <2>3
<1>7. Ended(t, n)
  BY <1>1, <1>5, <1>6 DEF Ended
<1>8. Head(queue).kind = "progress" /\ ~ IsFinal(Head(queue)) => Finals(t) # {}
  <2>1. SUFFICES ASSUME queue[1].kind = "progress", 1 \notin Finals(queue)
                 PROVE Finals(t) # {}
    BY <1>1
  <2>2. 1 \in 1..m
    BY <1>1
  <2>3. PICK j \in Finals(queue) : j >= 1
    BY <1>3, <2>1, <2>2
  <2>4. QED
    BY <1>4, <2>1, <2>3
<1>9. IsFinal(Head(queue)) /\ Finals(t) = {} => Head(queue).n = n
  <2>1. SUFFICES ASSUME 1 \in Finals(queue), Finals(t) = {}
                 PROVE queue[1].n = n
    BY <1>1
  <2>2. \A j \in Finals(queue) : j = 1
    BY <1>4, <2>1
  <2>3. \A j \in Finals(queue) : j <= 1
    BY <2>2
  <2>4. QED
    BY <1>3, <2>1, <2>3
<1>10. ~ IsFinal(Head(queue)) /\ Finals(queue) # {} => Finals(t) # {}
  BY <1>1, <1>4
<1>11. Finals(t) # {} => Finals(queue) # {}
  BY <1>1
<1>12. QED
  BY <1>7, <1>8, <1>9, <1>10, <1>11 DEF t

\* Signals of other kinds that come or go.
LEMMA OtherQueue ==
    ASSUME Typed,
           \/ signals' = signals
           \/ \E s \in Signals : s.kind \notin {"progress", "view"} /\ signals' = Append(signals, s)
           \/ /\ signals # <<>> /\ Head(signals).kind \notin {"progress", "view"}
              /\ signals' = Tail(signals)
    PROVE /\ Views(signals) = {} <=> Views(signals') = {}
          /\ Finals(signals) = {} <=> Finals(signals') = {}
          /\ \A n : Ended(signals, n) => Ended(signals', n)
<1>1. signals \in Seq(Signals)
  BY NumbersAre
<1>2. ASSUME NEW s \in Signals, s.kind \notin {"progress", "view"}, signals' = Append(signals, s)
      PROVE /\ Views(signals) = {} <=> Views(signals') = {}
            /\ Finals(signals) = {} <=> Finals(signals') = {}
            /\ \A n : Ended(signals, n) => Ended(signals', n)
  BY <1>1, <1>2, PostedSignal, EndedPosted DEF IsFinal
<1>3. ASSUME signals # <<>>, Head(signals).kind \notin {"progress", "view"},
             signals' = Tail(signals)
      PROVE /\ Views(signals) = {} <=> Views(signals') = {}
            /\ Finals(signals) = {} <=> Finals(signals') = {}
            /\ \A n : Ended(signals, n) => Ended(signals', n)
  <2>1. PICK m \in Nat \ {0} : m = Len(signals)
    BY <1>1, <1>3, HandledSignal
  <2>2. /\ \A i \in 1..(m - 1) : i \in Finals(signals') <=> i + 1 \in Finals(signals)
        /\ \A i \in 1..(m - 1) : i \in Views(signals') <=> i + 1 \in Views(signals)
        /\ 1 \notin Finals(signals) /\ 1 \notin Views(signals)
        /\ Finals(signals') \subseteq 1..(m - 1) /\ Views(signals') \subseteq 1..(m - 1)
    BY <1>1, <1>3, <2>1, HandledSignal DEF IsFinal
  <2>3. Finals(signals) \subseteq 1..m /\ Views(signals) \subseteq 1..m
    BY <2>1 DEF Finals, Views
  <2>4. \A j \in 1..m : j = 1 \/ (j - 1 \in 1..(m - 1) /\ (j - 1) + 1 = j)
    BY <2>1
  <2>5. /\ Views(signals) = {} <=> Views(signals') = {}
        /\ Finals(signals) = {} <=> Finals(signals') = {}
    BY <2>2, <2>3, <2>4
  <2>6. \A n : Ended(signals, n) => Ended(signals', n)
    BY <1>1, <1>3, EndedHandled
  <2>7. QED
    BY <2>5, <2>6
<1>4. QED
  BY <1>2, <1>3

\* A view is posted for a list from the cache only, and no results of the worker are for it.
Viewed == Views(signals) # {} =>
    \/ listOf = 0
    \/ /\ data.of < listOf
       /\ op.pc = "requested" /\ op.kind = "full" => op.search < listOf

\* Whoever shows the stop button is followed by something that hides it.
Stoppable == stopShown => \/ ~ Idle \/ Finals(signals) # {} \/ Views(signals) # {}
                          \/ throttled /\ report.percent = 100

\* When the worker rests, its signals end with its count; once they are handled, the list has
\* taken all differences and the count is reported or shown.
Reported ==
    Idle => /\ Ended(signals, data.count)
            /\ Finals(signals) = {} =>
                  /\ data.new = {} /\ data.removed = {}
                  /\ Feeding => (IF throttled THEN report.n ELSE nbMatches) = data.count

Alone == leaving => Views(signals) = {}

TruthInv == AddUpInv /\ Alone /\ Viewed /\ Stoppable /\ Reported

LEMMA TruthInit == Init => TruthInv
<1> SUFFICES ASSUME Init PROVE TruthInv
  OBVIOUS
<1>1. AddUpInv
  BY AddUpInit
<1>2. PICK q \in Seq(Signals) : q = signals /\ Len(q) = 0
  <2>1. <<>> \in Seq(Signals) /\ Len(<<>>) = 0
    OBVIOUS
  <2>2. QED
    BY <2>1 DEF Init
<1>3. Finals(q) = {} /\ Views(q) = {}
  BY <1>2 DEF Finals, Views
<1>4. \A n : Ended(q, n)
  BY <1>2, <1>3 DEF Ended
<1>5. data.new = {} /\ data.removed = {} /\ ~ stopShown /\ ~ leaving /\ listOf = 0
  BY DEF Init, ClearedResults
<1>6. QED
  BY <1>1, <1>2, <1>3, <1>4, <1>5 DEF TruthInv, Alone, Viewed, Stoppable, Reported, Feeding

LEMMA BystandersTruth ==
    ASSUME TruthInv, Bystanders
    PROVE Alone' /\ Viewed' /\ Stoppable' /\ Reported'
<1>1. /\ UNCHANGED <<data, op, report, throttled, nbMatches, stopShown, listOf>>
      /\ tainted => tainted'
      /\ leaving' = leaving \/ (signals = <<>> /\ signals' = <<>>)
  BY BystandersLeave
<1>2. /\ Views(signals) = {} <=> Views(signals') = {}
      /\ Finals(signals) = {} <=> Finals(signals') = {}
      /\ \A n : Ended(signals, n) => Ended(signals', n)
  <2>1. \/ signals' = signals
        \/ \E s \in Signals : s.kind \notin {"progress", "view"} /\ signals' = Append(signals, s)
        \/ /\ signals # <<>> /\ Head(signals).kind \notin {"progress", "view"}
           /\ signals' = Tail(signals)
    BY BystandersLeave, OtherSignals
  <2>2. QED
    BY <2>1, OtherQueue DEF TruthInv, AddUpInv
<1>3. Alone'
  <2>1. CASE signals = <<>> /\ signals' = <<>>
    <3>1. PICK q \in Seq(Signals) : q = signals' /\ Len(q) = 0
      <4>1. <<>> \in Seq(Signals) /\ Len(<<>>) = 0
        OBVIOUS
      <4>2. QED
        BY <2>1, <4>1
    <3>2. Views(q) = {}
      BY <3>1 DEF Views
    <3>3. QED
      BY <3>1, <3>2 DEF Alone
  <2>2. CASE leaving' = leaving
    BY <1>2, <2>2 DEF TruthInv, Alone
  <2>3. QED
    BY <1>1, <2>1, <2>2
<1>4. Viewed' /\ Stoppable'
  BY <1>1, <1>2 DEF TruthInv, Viewed, Stoppable, Idle
<1>5. Reported'
  BY <1>1, <1>2 DEF TruthInv, Reported, Idle, Feeding
<1>6. QED
  BY <1>3, <1>4, <1>5

LEMMA ClearingTruth ==
    ASSUME TruthInv, Clearing
    PROVE Alone' /\ Viewed' /\ Stoppable' /\ Reported'
<1>1. /\ UNCHANGED <<data, op, signals, report, throttled, stopShown>> /\ listOf' = 0
      /\ leaving' => leaving
  BY ClearingLeaves
<1>2. QED
  BY <1>1 DEF TruthInv, Alone, Viewed, Stoppable, Reported, Idle, Feeding

LEMMA LoadingFinishedTruth ==
    ASSUME TruthInv, LoadingFinished
    PROVE Alone' /\ Viewed' /\ Stoppable' /\ Reported'
<1>1. /\ UNCHANGED <<data, report, throttled, nbMatches, stopShown, listOf, tainted, leaving>>
      /\ ~ leaving
      /\ op' = op \/ (op'.pc = "requested" /\ op'.kind = "update")
  BY LoadingFinishedLeaves, RequestedIs
<1>2. /\ Views(signals) = {} <=> Views(signals') = {}
      /\ Finals(signals) = {} <=> Finals(signals') = {}
      /\ \A n : Ended(signals, n) => Ended(signals', n)
  BY LoadingFinishedLeaves, OtherQueue DEF TruthInv, AddUpInv
<1>3. QED
  BY <1>1, <1>2 DEF TruthInv, Alone, Viewed, Stoppable, Reported, Idle, Feeding

LEMMA StartingTruth ==
    ASSUME TruthInv, Starting
    PROVE Alone' /\ Viewed' /\ Stoppable' /\ Reported'
<1>1. /\ leaving /\ ~ leaving' /\ stopShown'
      /\ UNCHANGED <<data, report, throttled, tainted>>
  BY StartingDoes
<1>2. /\ data.of < listOf' /\ op.search < listOf'
      /\ \/ ShowCached(text)
         \/ Request("full", text, limit, 0, listOf') /\ signals' = signals
  BY StartingAddsUp DEF TruthInv
<1>3. Views(signals) = {} /\ signals \in Seq(Signals) /\ data.of \in Nat /\ listOf' \in Nat
  <2>1. Typed'
    BY <1>1, ReplaceTypes DEF TruthInv, AddUpInv, Starting
  <2>2. listOf' \in Nat
    BY <2>1 DEF Typed, ListTypes
  <2>3. QED
    BY <1>1, <2>2, NumbersAre DEF TruthInv, AddUpInv, Alone
<1>4. ~ Feeding'
  BY <1>1, <1>2, <1>3 DEF Feeding
<1>5. Alone'
  BY <1>1 DEF Alone
<1>6. CASE ShowCached(text)
  <2>1. PICK k \in CachedFor(text) :
          /\ signals' = Append(signals, [kind |-> "view", n |-> Cardinality(cache[k]), percent |-> 100])
          /\ op' = op
    BY <1>6 DEF ShowCached
  <2>2. Cardinality(cache[k]) \in 0..MaxLines
    <3>1. cache[k] \in SUBSET Lines
      BY DEF CachedFor, TruthInv, AddUpInv, Typed, ListTypes
    <3>2. QED
      BY <3>1, LineSets
  <2>3. PICK s \in Signals : s.kind = "view" /\ signals' = Append(signals, s)
    BY <2>1, <2>2, OtherSignals
  <2>4. /\ Finals(signals') = Finals(signals) /\ Views(signals') # {}
        /\ \A n : Ended(signals, n) => Ended(signals', n)
    <3>1. ~ IsFinal(s) /\ s.kind # "progress"
      BY <2>3 DEF IsFinal
    <3>2. QED
      BY <1>3, <2>3, <3>1, PostedSignal, EndedPosted
  <2>5. Viewed' /\ Stoppable'
    BY <1>1, <1>2, <2>1, <2>4 DEF Viewed, Stoppable
  <2>6. Reported'
    BY <1>1, <1>4, <2>1, <2>4 DEF TruthInv, Reported, Idle
  <2>7. QED
    BY <1>5, <2>5, <2>6
<1>7. CASE Request("full", text, limit, 0, listOf') /\ signals' = signals
  <2>1. op'.pc = "requested"
    BY <1>7, RequestedIs
  <2>2. ~ Idle'
    BY <2>1 DEF Idle
  <2>3. QED
    BY <1>3, <1>5, <1>7, <2>2 DEF Viewed, Stoppable, Reported
<1>8. QED
  BY <1>2, <1>6, <1>7

LEMMA ShownTruth ==
    ASSUME TruthInv, HandleSearchProgressedThrottled \/ UpdateFilteredView
    PROVE Alone' /\ Viewed' /\ Stoppable' /\ Reported'
<1>1. UNCHANGED <<data, op, report, listOf, tainted, leaving>> /\ ~ leaving
  BY ShownLeaves
<1>2. Alone'
  BY <1>1 DEF Alone
<1>3. CASE HandleSearchProgressedThrottled
  <2>1. /\ throttled /\ throttled' = FALSE /\ signals' = signals /\ nbMatches' = report.n
        /\ stopShown' = (stopShown /\ report.percent # 100)
    BY <1>3 DEF HandleSearchProgressedThrottled, ShowProgress
  <2>2. Viewed' /\ Stoppable'
    BY <1>1, <2>1 DEF TruthInv, Viewed, Stoppable, Idle
  <2>3. Reported'
    BY <1>1, <2>1 DEF TruthInv, Reported, Idle, Feeding
  <2>4. QED
    BY <1>2, <2>2, <2>3
<1>4. CASE UpdateFilteredView
  <2>1. /\ signals # <<>> /\ Head(signals).kind = "view" /\ signals' = Tail(signals)
        /\ throttled' = throttled /\ signals \in Seq(Signals)
        /\ stopShown' = (stopShown /\ Head(signals).percent # 100)
    BY <1>4, NumbersAre
       DEF UpdateFilteredView, Handles, ShowProgress, TruthInv, AddUpInv
  <2>2. Head(signals) \in Signals /\ 1 \in Views(signals)
    BY <2>1, HandledSignal
  <2>3. Head(signals).percent = 100 /\ ~ IsFinal(Head(signals))
    BY <2>1, <2>2 DEF Signals, IsFinal
  <2>4. ~ Feeding'
    BY <1>1, <2>2, NumbersAre DEF TruthInv, AddUpInv, Viewed, Feeding
  <2>5. Viewed'
    BY <1>1, <2>2 DEF TruthInv, Viewed
  <2>6. Stoppable'
    BY <2>1, <2>3 DEF Stoppable
  <2>7. Reported'
    <3>1. \A n : Ended(signals, n) => /\ Ended(signals', n)
                                     /\ (Finals(signals') = {} => Finals(signals) = {})
      BY <2>1, <2>3, EndedHandled
    <3>2. SUFFICES ASSUME Idle
                   PROVE /\ Ended(signals', data.count)
                         /\ Finals(signals') = {} => data.new = {} /\ data.removed = {}
      BY <1>1, <2>4 DEF Reported, Idle
    <3>3. Ended(signals, data.count)
      BY <3>2 DEF TruthInv, Reported
    <3>4. QED
      BY <3>1, <3>2, <3>3 DEF TruthInv, Reported
  <2>8. QED
    BY <1>2, <2>5, <2>6, <2>7
<1>5. QED
  BY <1>3, <1>4

LEMMA ProgressedTruth ==
    ASSUME TruthInv, HandleSearchProgressed
    PROVE Alone' /\ Viewed' /\ Stoppable' /\ Reported'
<1> DEFINE s == Head(signals)
<1>1. /\ ~ leaving /\ leaving' = leaving /\ signals # <<>> /\ s.kind = "progress"
      /\ signals' = Tail(signals) /\ signals \in Seq(Signals)
      /\ data' = TakeCurrentResults(data) /\ throttled' = TRUE
      /\ report' = [n |-> s.n, percent |-> s.percent]
      /\ UNCHANGED <<op, stopShown, listOf>>
  BY NumbersAre DEF HandleSearchProgressed, Handles, frameVars, crawlerVars, TruthInv, AddUpInv
<1>2. /\ data'.new = {} /\ data'.removed = {} /\ data'.count = data.count /\ data'.of = data.of
  BY <1>1, NumbersAre DEF TakeCurrentResults, Results, TruthInv, AddUpInv
<1>3. report'.n = s.n /\ report'.percent = s.percent /\ (IsFinal(s) <=> s.percent = 100)
  BY <1>1 DEF IsFinal
<1>4. Views(signals) = {} => Views(signals') = {}
  <2>1. PICK m \in Nat \ {0} : m = Len(signals)
    BY <1>1, HandledSignal
  <2>2. /\ \A i \in 1..(m - 1) : i \in Views(signals') <=> i + 1 \in Views(signals)
        /\ Views(signals') \subseteq 1..(m - 1)
    BY <1>1, <2>1, HandledSignal
  <2>3. QED
    BY <2>2
<1>5. Alone' /\ Viewed'
  BY <1>1, <1>2, <1>4 DEF Alone, TruthInv, Viewed
<1>6. Idle => /\ Ended(signals', data.count)
              /\ ~ IsFinal(s) => Finals(signals') # {}
              /\ IsFinal(s) /\ Finals(signals') = {} => s.n = data.count
  BY <1>1, EndedHandled DEF TruthInv, Reported
<1>7. Stoppable'
  BY <1>1, <1>3, <1>6 DEF Stoppable, Idle
<1>8. Reported'
  BY <1>1, <1>2, <1>3, <1>6 DEF Reported, Idle
<1>9. QED
  BY <1>5, <1>7, <1>8

LEMMA WorkerTruth ==
    ASSUME TruthInv, WorkerStep
    PROVE Alone' /\ Viewed' /\ Stoppable' /\ Reported'
<1>1. /\ UNCHANGED <<listOf, tainted, leaving, stopShown, throttled, report>> /\ SearchStep
  BY DEF WorkerStep, frameVars, crawlerVars
<1>2. data \in Results /\ op \in Operations /\ signals \in Seq(Signals)
  BY NumbersAre DEF TruthInv, AddUpInv
<1>3. CASE FinishSearch
  <2>1. /\ op.pc = "searching" /\ op' = [IdleOp EXCEPT !.end = op.end] /\ data' = data
        /\ signals' = Append(signals, Progress(op.count, 100))
    BY <1>3 DEF FinishSearch
  <2>2. /\ op'.pc = "idle" /\ op.count = data.count /\ op.count \in 0..MaxLines
        /\ op.search \in Nat
    BY <1>2, <2>1 DEF IdleOp, TruthInv, AddUpInv, Typed, WorkerInv, Counted, Operations
  <2>3. PICK s \in Signals : /\ s = Progress(op.count, 100) /\ IsFinal(s) /\ s.n = data.count
                             /\ s.kind # "view"
    <3>1. Progress(op.count, 100) \in Signals /\ IsFinal(Progress(op.count, 100))
      BY <2>2 DEF Progress, Signals, IsFinal
    <3>2. Progress(op.count, 100).n = data.count /\ Progress(op.count, 100).kind # "view"
      BY <2>2 DEF Progress
    <3>3. QED
      BY <3>1, <3>2
  <2>4. Ended(signals', data.count) /\ Finals(signals') # {} /\ Views(signals') = Views(signals)
    BY <1>2, <2>1, <2>3, PostedSignal, EndedLast
  <2>5. QED
    BY <1>1, <2>1, <2>2, <2>4 DEF TruthInv, Alone, Viewed, Stoppable, Reported
<1>4. CASE ~ FinishSearch
  <2>1. op'.pc = "searching" /\ Views(signals') = Views(signals)
    <3>1. CASE JoinBlock
      <4>1. PICK b \in op.joining, found \in SUBSET Lines, done, count, told \in 0..MaxLines,
                 percent \in 0..100 : Joins(b, found, done, count, told, percent)
        BY <3>1, Joined DEF TruthInv, AddUpInv, Typed
      <4>2. op'.pc = "searching"
        BY <1>2, <4>1 DEF Joins, TruthInv, AddUpInv, Typed, WorkerInv, Blocked, Operations
      <4>3. Views(signals') = Views(signals)
        <5>1. ASSUME NEW n \in 0..99, signals' = Append(signals, Progress(count, n))
              PROVE Views(signals') = Views(signals)
          <6>1. n \in 0..100 /\ op.search \in Nat
            BY <1>2 DEF Operations
          <6>2. PICK s \in Signals : s = Progress(count, n) /\ s.kind # "view"
            <7>1. Progress(count, n) \in Signals
              BY <6>1 DEF Progress, Signals
            <7>2. Progress(count, n).kind # "view"
              BY DEF Progress
            <7>3. QED
              BY <7>1, <7>2
          <6>3. QED
            BY <1>2, <5>1, <6>2, PostedSignal
        <5>2. QED
          BY <4>1, <5>1 DEF Joins
      <4>4. QED
        BY <4>2, <4>3
    <3>2. CASE ~ JoinBlock
      <4>1. signals' = signals
        BY <1>1, <1>4, <3>2
           DEF SearchStep, BeginFull, BeginUpdate, ReadChunk, TakeBlock, DropBlocks
      <4>2. op'.pc = "searching"
        BY <1>1, <1>2, <1>4, <3>2
           DEF SearchStep, BeginFull, BeginUpdate, Started, ReadChunk, Reading, TakeBlock,
               DropBlocks, Operations
      <4>3. QED
        BY <4>1, <4>2
    <3>3. QED
      BY <3>1, <3>2
  <2>2. Alone' /\ Stoppable' /\ Reported'
    BY <1>1, <2>1 DEF TruthInv, Alone, Stoppable, Reported, Idle
  <2>3. Viewed'
    <3>1. SUFFICES ASSUME Views(signals) # {}, listOf # 0 PROVE data'.of < listOf
      BY <1>1, <2>1 DEF Viewed
    <3>2. data.of < listOf /\ (op.pc = "requested" /\ op.kind = "full" => op.search < listOf)
      BY <3>1 DEF TruthInv, Viewed
    <3>3. CASE BeginFull
      BY <3>2, <3>3 DEF BeginFull, ClearedResults
    <3>4. CASE BeginUpdate
      <4>1. PICK line : data' = Resumed(line).data
        BY <3>4 DEF BeginUpdate
      <4>2. data'.of = data.of
        BY <1>2, <4>1 DEF Resumed, DeleteMatch, Results
      <4>3. QED
        BY <3>2, <4>2
    <3>5. CASE JoinBlock
      <4>1. PICK b \in op.joining, found \in SUBSET Lines, done, count, told \in 0..MaxLines,
                 percent \in 0..100 : Joins(b, found, done, count, told, percent)
        BY <3>5, Joined DEF TruthInv, AddUpInv, Typed
      <4>2. data'.of = data.of
        BY <1>2, <4>1 DEF Joins, Results
      <4>3. QED
        BY <3>2, <4>2
    <3>6. CASE ReadChunk \/ TakeBlock \/ DropBlocks
      BY <3>2, <3>6 DEF ReadChunk, TakeBlock, DropBlocks
    <3>7. QED
      BY <1>1, <1>4, <3>3, <3>4, <3>5, <3>6 DEF SearchStep
  <2>4. QED
    BY <2>2, <2>3
<1>5. QED
  BY <1>3, <1>4

LEMMA TruthStep == TruthInv /\ [Next]_vars => TruthInv'
<1> SUFFICES ASSUME TruthInv, [Next]_vars PROVE TruthInv'
  OBVIOUS
<1>1. AddUpInv'
  BY AddUpStep DEF TruthInv
<1>2. CASE UNCHANGED vars
  BY <1>1, <1>2 DEF TruthInv, Alone, Viewed, Stoppable, Reported, Feeding, Idle, vars, workerVars,
     dataVars, crawlerVars, frameVars
<1>3. CASE Next
  <2>1. Alone' /\ Viewed' /\ Stoppable' /\ Reported'
    BY <1>3, SixKinds, BystandersTruth, ClearingTruth, StartingTruth, LoadingFinishedTruth,
       ShownTruth, ProgressedTruth, WorkerTruth
  <2>2. QED
    BY <1>1, <2>1 DEF TruthInv
<1>4. QED
  BY <1>2, <1>3

\* SettledTruthful always: when all has come to rest, no search is shown as running, every
\* reader was detached by the last signal of its search, and the count shown is the list's.
THEOREM TruthfulWhenSettled == Spec => []SettledTruthful
<1>1. TruthInv => SettledTruthful
  <2> SUFFICES ASSUME TruthInv, Settled
               PROVE ~ stopShown /\ readers = 0 /\ (Feeding => nbMatches = Cardinality(matching))
    BY DEF SettledTruthful
  <2>1. Idle /\ ~ throttled /\ signals = <<>>
    BY DEF Settled
  <2>2. PICK q \in Seq(Signals) : q = signals /\ Len(q) = 0
    <3>1. <<>> \in Seq(Signals) /\ Len(<<>>) = 0
      OBVIOUS
    <3>2. QED
      BY <2>1, <3>1
  <2>3. Finals(signals) = {} /\ Views(signals) = {}
    BY <2>2 DEF Finals, Views
  <2>4. ~ stopShown
    BY <2>1, <2>3 DEF TruthInv, Stoppable
  <2>5. readers = 0
    <3>1. Cardinality(Finals(signals)) = 0
      BY <2>3, FS_EmptySet
    <3>2. QED
      BY <2>1, <3>1 DEF TruthInv, AddUpInv, Typed, Attached
  <2>6. ASSUME Feeding PROVE nbMatches = Cardinality(matching)
    <3>1. data.new = {} /\ data.removed = {} /\ nbMatches = data.count
      BY <2>1, <2>3, <2>6 DEF TruthInv, Reported
    <3>2. matching = data.matches
      BY <2>6, <3>1 DEF TruthInv, AddUpInv, Sums, Feeding
    <3>3. data.count = Cardinality(data.matches)
      BY DEF TruthInv, AddUpInv, Typed, WorkerInv, Counted
    <3>4. QED
      BY <3>1, <3>2, <3>3
  <2>7. QED
    BY <2>4, <2>5, <2>6
<1>2. QED
  BY <1>1, TruthInit, TruthStep, PTL DEF Spec

-----------------------------------------------------------------------------
(* The log as it is being indexed *)

\* What the index shows, or is about to show again.
Ref == IF loading.kind = "partial" THEN loading.to ELSE index

Indexing ==
    /\ loading.kind = "partial" => index \in {<<>>, loading.to}
    /\ loading.kind = "none" => loading = NotLoading

\* The log other grew out of log: only what was its last line may have changed.
Grown(log, other) ==
    Len(other) >= Len(log) /\ \A i \in 1..(Len(log) - 1) : other[i] = log[i]

LEMMA RefIs ==
    ASSUME Typed
    PROVE /\ Ref \in Logs /\ Len(Ref) \in 0..MaxLines /\ index \in Logs
          /\ Len(index) \in 0..MaxLines
          /\ Grown(Ref, Ref)
<1>1. index \in Logs /\ loading.to \in Logs
  BY DEF Typed, WorkerInv, WorkerTypes, ViewTypes
<1>2. Ref \in Logs
  BY <1>1 DEF Ref
<1>3. Len(Ref) \in 0..MaxLines /\ Len(index) \in 0..MaxLines
  BY <1>1, <1>2, LogsAre
<1>4. QED
  BY <1>1, <1>2, <1>3 DEF Grown

LEMMA IndexIsRef ==
    ASSUME Typed, Indexing
    PROVE index = <<>> \/ index = Ref
BY DEF Indexing, Ref

\* A step leaves the log what it was or lets it grow; when the log becomes another one, the
\* list and the cache are empty or tainted.
LEMMA RefStep ==
    ASSUME Typed, Indexing, Next
    PROVE /\ Indexing' /\ Ref' \in Logs
          /\ \/ Grown(Ref, Ref') \/ tainted'
             \/ listOf = 0 /\ listOf' = 0 /\ cache = << >> /\ cache' = << >>
<1>1. Typed'
  BY TypedStep
<1>2. Ref' \in Logs /\ Ref \in Logs /\ Grown(Ref, Ref)
  BY <1>1, RefIs DEF Typed, WorkerInv, WorkerTypes, ViewTypes, Ref
<1>3. CASE index' = index /\ loading' = loading
  <2>1. Ref' = Ref
    BY <1>3 DEF Ref
  <2>2. QED
    BY <1>2, <1>3, <2>1 DEF Indexing
<1>4. CASE Grow
  <2>1. /\ loading = NotLoading /\ loading' = [kind |-> "partial", to |-> index'] /\ index' \in Logs
        /\ Len(index') >= Len(index) /\ \A i \in 1..(Len(index) - 1) : index'[i] = index[i]
    BY <1>4 DEF Grow
  <2>2. Ref = index /\ Ref' = index' /\ loading'.kind = "partial" /\ loading'.to = index'
    BY <2>1 DEF Ref, NotLoading
  <2>3. QED
    BY <1>2, <2>1, <2>2 DEF Grown, Indexing
<1>5. CASE Reload \/ FileTruncated
  <2>1. loading = NotLoading /\ index' = index /\ loading'.kind = "full"
    <3>1. CASE Reload
      BY <3>1 DEF Reload
    <3>2. CASE FileTruncated
      <4>1. PICK log \in Rewrites : loading' = [kind |-> "full", to |-> log]
        BY <3>2 DEF FileTruncated
      <4>2. QED
        BY <3>2, <4>1 DEF FileTruncated
    <3>3. QED
      BY <1>5, <3>1, <3>2
  <2>2. Ref' = Ref
    BY <2>1 DEF Ref, NotLoading
  <2>3. QED
    BY <1>2, <2>1, <2>2 DEF Indexing
<1>6. CASE IndexCleared
  <2>1. /\ loading.kind = "full" /\ index' = <<>> /\ loading' = [loading EXCEPT !.kind = "partial"]
        /\ tainted' = (tainted \/ (loading.to # index /\ (listOf # 0 \/ cache # << >>)))
        /\ UNCHANGED <<listOf, cache>>
    BY <1>6 DEF IndexCleared, dataVars
  <2>2. loading'.kind = "partial" /\ loading'.to = loading.to
    BY <2>1 DEF Typed, ViewTypes
  <2>3. Ref = index /\ Ref' = loading.to
    BY <2>1, <2>2 DEF Ref
  <2>4. Indexing'
    BY <2>1, <2>2 DEF Indexing
  <2>5. CASE loading.to = index
    BY <1>2, <2>3, <2>4, <2>5
  <2>6. CASE loading.to # index
    BY <1>2, <2>1, <2>4, <2>6
  <2>7. QED
    BY <2>5, <2>6
<1>7. CASE IndexBuilt
  <2>1. loading.kind = "partial" /\ index' = loading.to /\ loading' = NotLoading
    BY <1>7 DEF IndexBuilt
  <2>2. Ref' = Ref /\ loading'.kind = "none"
    BY <2>1 DEF Ref, NotLoading
  <2>3. QED
    BY <1>2, <2>1, <2>2 DEF Indexing
<1>8. CASE UserAction /\ ~ Reload
  BY <1>3, <1>8 DEF UserAction, StartNewSearch, SetSearchPattern, SearchTextChange, StopSearch,
     SearchRefreshChange, SetSearchLimits, StopLoading, MarkLine, worldVars
<1>9. CASE Handler
  BY <1>3, <1>9 DEF Handler, HandleSearchProgressed, HandleSearchProgressedThrottled, ShowProgress,
     UpdateFilteredView, LoadingFinished, StartPosted, LeaveProcessEvents, ReplaceCurrentSearch,
     worldVars
<1>10. CASE WorkerStep
  BY <1>3, <1>10 DEF WorkerStep, SearchStep, BeginFull, BeginUpdate, ReadChunk, TakeBlock, JoinBlock,
     DropBlocks, FinishSearch
<1>11. QED
  BY <1>4, <1>5, <1>6, <1>7, <1>8, <1>9, <1>10 DEF Next, Loads

\* Lines that a pattern matches in the first n lines of a log, but perhaps in the last of these.
Shows(lines, n, p, log) ==
    /\ lines \subseteq 0..(n - 1) /\ n <= Len(log)
    /\ \A l \in 0..(n - 2) : l \in lines <=> log[l + 1] \in Hits[p]

LEMMA ShowsGrown ==
    ASSUME NEW log \in Logs, NEW other \in Logs, Grown(log, other),
           NEW lines, NEW n \in Nat, NEW p, Shows(lines, n, p, log)
    PROVE Shows(lines, n, p, other)
<1>1. Len(log) \in Nat /\ Len(other) \in Nat
  BY LogsAre
<1>2. ASSUME NEW l \in 0..(n - 2) PROVE other[l + 1] = log[l + 1]
  BY <1>1 DEF Shows, Grown
<1>3. QED
  BY <1>1, <1>2 DEF Shows, Grown

-----------------------------------------------------------------------------
(* Who is searched for *)

\* The signals of searches carry their numbers.
Stamped(queue, n) ==
    \A i \in 1..Len(queue) : queue[i].kind = "progress" => queue[i].search \in 1..n

NoFinalOf(queue, n) == \A i \in 1..Len(queue) : IsFinal(queue[i]) => queue[i].search # n

HasLoaded(queue) == \E i \in 1..Len(queue) : queue[i].kind = "loaded"

LEMMA StampsPosted ==
    ASSUME NEW queue \in Seq(Signals), NEW s \in Signals
    PROVE /\ \A n : Stamped(queue, n) /\ (s.kind = "progress" => s.search \in 1..n)
                       => Stamped(Append(queue, s), n)
          /\ \A n : NoFinalOf(queue, n) /\ ~ IsFinal(s) => NoFinalOf(Append(queue, s), n)
          /\ HasLoaded(queue) \/ s.kind = "loaded" => HasLoaded(Append(queue, s))
<1> DEFINE t == Append(queue, s)
           m == Len(queue)
<1>1. /\ Len(t) = m + 1 /\ t[m + 1] = s /\ m \in Nat /\ \A i \in 1..m : t[i] = queue[i]
  BY PostedSignal, LenProperties
<1> HIDE DEF t
<1>2. 1..Len(t) = 1..m \cup {m + 1}
  BY <1>1
<1>3. \A n : Stamped(queue, n) /\ (s.kind = "progress" => s.search \in 1..n) => Stamped(t, n)
  BY <1>1, <1>2 DEF Stamped
<1>4. \A n : NoFinalOf(queue, n) /\ ~ IsFinal(s) => NoFinalOf(t, n)
  BY <1>1, <1>2 DEF NoFinalOf
<1>5. HasLoaded(queue) \/ s.kind = "loaded" => HasLoaded(t)
  BY <1>1, <1>2 DEF HasLoaded
<1>6. QED
  BY <1>3, <1>4, <1>5 DEF t

LEMMA StampsHandled ==
    ASSUME NEW queue \in Seq(Signals), queue # <<>>
    PROVE /\ \A n : Stamped(queue, n) => Stamped(Tail(queue), n)
          /\ \A n : NoFinalOf(queue, n) => NoFinalOf(Tail(queue), n)
          /\ \A n : Stamped(queue, n) /\ Head(queue).kind = "progress" => Head(queue).search \in 1..n
          /\ \A n : NoFinalOf(queue, n) /\ IsFinal(Head(queue)) => Head(queue).search # n
          /\ HasLoaded(queue) /\ Head(queue).kind # "loaded" => HasLoaded(Tail(queue))
<1> DEFINE t == Tail(queue)
           m == Len(queue)
<1>1. /\ m \in Nat \ {0} /\ Len(t) = m - 1 /\ Head(queue) = queue[1]
      /\ \A i \in 1..(m - 1) : t[i] = queue[i + 1]
  BY HandledSignal
<1> HIDE DEF t, m
<1>2. \A i \in 1..(m - 1) : i + 1 \in 1..m
  BY <1>1
<1>3. \A j \in 1..m : j = 1 \/ (j - 1 \in 1..(m - 1) /\ (j - 1) + 1 = j)
  BY <1>1
<1>4. 1 \in 1..m
  BY <1>1
<1>5. \A n : Stamped(queue, n) => Stamped(t, n)
  BY <1>1, <1>2 DEF Stamped, m
<1>6. \A n : NoFinalOf(queue, n) => NoFinalOf(t, n)
  BY <1>1, <1>2 DEF NoFinalOf, m
<1>7. /\ \A n : Stamped(queue, n) /\ Head(queue).kind = "progress" => Head(queue).search \in 1..n
      /\ \A n : NoFinalOf(queue, n) /\ IsFinal(Head(queue)) => Head(queue).search # n
  BY <1>1, <1>4 DEF Stamped, NoFinalOf, m
<1>8. HasLoaded(queue) /\ Head(queue).kind # "loaded" => HasLoaded(t)
  <2>1. SUFFICES ASSUME NEW j \in 1..m, queue[j].kind = "loaded", queue[1].kind # "loaded"
                 PROVE \E i \in 1..(m - 1) : t[i].kind = "loaded"
    BY <1>1 DEF HasLoaded, m
  <2>2. j - 1 \in 1..(m - 1) /\ t[j - 1] = queue[j]
    BY <1>1, <1>3, <2>1
  <2>3. QED
    BY <2>1, <2>2
<1>9. QED
  BY <1>5, <1>6, <1>7, <1>8 DEF t

\* The window and the worker speak of the same searches and patterns.
Agreed ==
    /\ Stamped(signals, searches)
    /\ op.pc # "idle" => op.search # 0
    /\ state \in {"Static", "Autorefreshing"} => listOf # 0
    /\ following => state = "Autorefreshing"
    /\ listOf # 0 =>
          /\ op.pc # "idle" /\ op.search = listOf => op.regexp = regexp
          /\ op.pc # "idle" /\ data.of = listOf => op.search = listOf
          /\ key # NoKey => key.regexp = regexp
          /\ key # NoKey /\ op.pc # "idle" /\ op.search = listOf => NoFinalOf(signals, listOf)
    /\ op.pc = "requested" /\ op.kind = "full" /\ op.search = listOf /\ ~ tainted => processed = 0

\* What the steps do to the state of the search and to auto-refresh.
LEMMA StateSteps ==
    ASSUME Next
    PROVE /\ Starting => state' = StateAfterStart /\ following' = autoRefresh
          /\ ~ Starting => \/ following' = FALSE
                           \/ following' = following /\ state' = state
          /\ ~ Starting => \/ listOf' = listOf /\ (state' \in {"Static", "Autorefreshing"} =>
                                                  state \in {"Static", "Autorefreshing"})
                           \/ state' \notin {"Static", "Autorefreshing"}
<1>1. CASE UserAction
  <2>1. CASE StartNewSearch \/ StopLoading \/ MarkLine \/ SetSearchLimits
    BY <2>1 DEF StartNewSearch, StopLoading, MarkLine, SetSearchLimits, crawlerVars, Starting,
       ReplaceCurrentSearch
  <2>2. CASE SetSearchPattern \/ SearchTextChange \/ StopSearch
    BY <2>2 DEF SetSearchPattern, SearchTextChange, StopSearch, StateWithoutRefresh, Starting,
       ReplaceCurrentSearch
  <2>3. CASE SearchRefreshChange
    BY <2>3 DEF SearchRefreshChange, StateAfterRefresh, Starting, ReplaceCurrentSearch
  <2>4. CASE Reload
    BY <2>4 DEF Reload, Starting, ReplaceCurrentSearch
  <2>5. QED
    BY <1>1, <2>1, <2>2, <2>3, <2>4 DEF UserAction
<1>2. CASE ReplaceCurrentSearch
  BY <1>2 DEF ReplaceCurrentSearch, Starting
<1>3. CASE Handler /\ ~ ReplaceCurrentSearch
  BY <1>3 DEF Handler, HandleSearchProgressed, HandleSearchProgressedThrottled, ShowProgress,
     UpdateFilteredView, LoadingFinished, StartPosted, LeaveProcessEvents, Starting, crawlerVars
<1>4. CASE WorkerStep
  BY <1>4 DEF WorkerStep, crawlerVars, Starting, ReplaceCurrentSearch, frameVars
<1>5. CASE FileTruncated
  BY <1>5 DEF FileTruncated, StateAfterTruncation, Starting, ReplaceCurrentSearch
<1>6. CASE Grow \/ Loads
  BY <1>6 DEF Grow, Loads, IndexCleared, IndexBuilt, crawlerVars, Starting, ReplaceCurrentSearch,
     frameVars
<1>7. QED
  BY <1>1, <1>2, <1>3, <1>4, <1>5, <1>6 DEF Next

BookInv == TruthInv /\ Indexing /\ Agreed

LEMMA BookInit == Init => BookInv
<1> SUFFICES ASSUME Init PROVE BookInv
  OBVIOUS
<1>1. TruthInv
  BY TruthInit
<1>2. PICK q \in Seq(Signals) : q = signals /\ Len(q) = 0
  <2>1. <<>> \in Seq(Signals) /\ Len(<<>>) = 0
    OBVIOUS
  <2>2. QED
    BY <2>1 DEF Init
<1>3. Stamped(q, searches)
  BY <1>2 DEF Stamped
<1>4. Indexing
  BY DEF Init, Indexing, NotLoading
<1>5. op.pc = "idle" /\ state = "NoSearch" /\ listOf = 0 /\ ~ following
  BY DEF Init, IdleOp
<1>6. QED
  BY <1>1, <1>2, <1>3, <1>4, <1>5 DEF BookInv, Agreed

\* The signals of steps outside the worker stay stamped.
LEMMA OtherStamps ==
    ASSUME Typed, Stamped(signals, searches),
           \/ signals' = signals
           \/ \E s \in Signals : s.kind # "progress" /\ signals' = Append(signals, s)
           \/ signals # <<>> /\ signals' = Tail(signals)
    PROVE /\ Stamped(signals', searches)
          /\ \A n : NoFinalOf(signals, n) => NoFinalOf(signals', n)
<1>1. signals \in Seq(Signals)
  BY NumbersAre
<1>2. ASSUME NEW s \in Signals, s.kind # "progress", signals' = Append(signals, s)
      PROVE /\ Stamped(signals', searches)
            /\ \A n : NoFinalOf(signals, n) => NoFinalOf(signals', n)
  <2>1. ~ IsFinal(s)
    BY <1>2 DEF IsFinal
  <2>2. QED
    BY <1>1, <1>2, <2>1, StampsPosted
<1>3. CASE signals # <<>> /\ signals' = Tail(signals)
  BY <1>1, <1>3, StampsHandled
<1>4. QED
  BY <1>2, <1>3

LEMMA QuietSignals ==
    ASSUME Typed, Bystanders \/ Clearing \/ LoadingFinished
                  \/ HandleSearchProgressedThrottled \/ UpdateFilteredView
                  \/ HandleSearchProgressed
    PROVE \/ signals' = signals
          \/ \E s \in Signals : s.kind # "progress" /\ signals' = Append(signals, s)
          \/ signals # <<>> /\ signals' = Tail(signals)
<1>1. CASE Bystanders
  <2>1. \/ signals' = signals \/ signals' = Append(signals, [kind |-> "start"])
        \/ signals' = Append(signals, [kind |-> "loaded"])
        \/ signals # <<>> /\ signals' = Tail(signals)
    BY <1>1, BystandersLeave
  <2>2. QED
    BY <2>1, OtherSignals
<1>2. CASE Clearing
  BY <1>2, ClearingLeaves
<1>3. CASE LoadingFinished
  BY <1>3, LoadingFinishedLeaves
<1>4. CASE HandleSearchProgressedThrottled \/ UpdateFilteredView
  BY <1>4, ShownLeaves
<1>5. CASE HandleSearchProgressed
  BY <1>5 DEF HandleSearchProgressed, Handles
<1>6. QED
  BY <1>1, <1>2, <1>3, <1>4, <1>5

\* An update is only asked for when the list is one of a search.
LEMMA UpdatedIs ==
    ASSUME BookInv, LoadingFinished, op' # op
    PROVE /\ Request("update", regexp, Len(index), processed, listOf)
          /\ key' = NoKey /\ listOf # 0 /\ state = "Autorefreshing"
          /\ limit' = Len(index) /\ frames' = frames
<1>1. IsAutorefreshAllowed /\ ~ IsFileTruncated
  BY DEF LoadingFinished
<1>2. state = "Autorefreshing"
  BY <1>1 DEF IsAutorefreshAllowed, IsFileTruncated
<1>3. UpdateSearch(Len(index)) /\ limit' = Len(index) /\ frames' = frames
  BY <1>1 DEF LoadingFinished, ClearSearchLimits
<1>4. QED
  BY <1>2, <1>3 DEF UpdateSearch, BookInv, Agreed

LEMMA ElsewhereAgrees ==
    ASSUME BookInv, ~ Starting, Bystanders \/ Clearing \/ LoadingFinished
                    \/ HandleSearchProgressedThrottled \/ UpdateFilteredView
    PROVE Agreed'
<1>1. /\ data' = data /\ searches' = searches /\ (tainted => tainted')
      /\ \/ listOf' = 0
         \/ UNCHANGED <<listOf, regexp, processed>> /\ key' \in {key, NoKey}
      /\ op' = op \/ (LoadingFinished /\ op' # op)
  <2>1. CASE Bystanders
    BY <2>1, BystandersLeave
  <2>2. CASE Clearing
    BY <2>2, ClearingLeaves
  <2>3. CASE LoadingFinished
    <3>1. key' \in {key, NoKey}
      BY <2>3 DEF LoadingFinished, UpdateSearch
    <3>2. QED
      BY <2>3, <3>1, LoadingFinishedLeaves
  <2>4. CASE HandleSearchProgressedThrottled \/ UpdateFilteredView
    BY <2>4, ShownLeaves
  <2>5. QED
    BY <2>1, <2>2, <2>3, <2>4
<1>2. Stamped(signals', searches') /\ \A n : NoFinalOf(signals, n) => NoFinalOf(signals', n)
  BY <1>1, QuietSignals, OtherStamps DEF BookInv, TruthInv, AddUpInv, Agreed
<1>3. /\ state' \in {"Static", "Autorefreshing"} => listOf' # 0
      /\ following' => state' = "Autorefreshing"
  <2>1. Next
    BY SixKinds
  <2>2. \/ listOf' = listOf /\ (state' \in {"Static", "Autorefreshing"} =>
                                 state \in {"Static", "Autorefreshing"})
        \/ state' \notin {"Static", "Autorefreshing"}
    BY <2>1, StateSteps
  <2>3. following' = FALSE \/ (following' = following /\ state' = state)
    BY <2>1, StateSteps
  <2>4. /\ state \in {"Static", "Autorefreshing"} => listOf # 0
        /\ following => state = "Autorefreshing"
    BY DEF BookInv, Agreed
  <2>5. state' \in {"Static", "Autorefreshing"} => listOf' # 0
    BY <2>2, <2>4
  <2>6. following' => state' = "Autorefreshing"
    BY <2>3, <2>4
  <2>7. QED
    BY <2>5, <2>6
<1>4. CASE op' = op
  <2>1. op'.pc # "idle" => op'.search # 0
    BY <1>4 DEF BookInv, Agreed
  <2>2. op'.pc = "requested" /\ op'.kind = "full" /\ op'.search = listOf' /\ ~ tainted' => processed' = 0
    BY <1>1, <1>4, <2>1 DEF BookInv, Agreed
  <2>3. CASE listOf' = 0
    BY <1>2, <1>3, <2>1, <2>2, <2>3 DEF Agreed
  <2>4. CASE UNCHANGED <<listOf, regexp, processed>> /\ key' \in {key, NoKey}
    BY <1>1, <1>2, <1>3, <1>4, <2>1, <2>2, <2>4 DEF BookInv, Agreed
  <2>5. QED
    BY <1>1, <2>3, <2>4
<1>5. CASE LoadingFinished /\ op' # op
  <2>1. /\ Request("update", regexp, Len(index), processed, listOf) /\ key' = NoKey /\ listOf # 0
    BY <1>5, UpdatedIs
  <2>2. op'.pc = "requested" /\ op'.kind = "update" /\ op'.regexp = regexp /\ op'.search = listOf
    BY <2>1, RequestedIs
  <2>3. listOf' = listOf /\ regexp' = regexp
    BY <1>5, LoadingFinishedLeaves
  <2>4. QED
    BY <1>2, <1>3, <2>1, <2>2, <2>3 DEF Agreed
<1>6. QED
  BY <1>1, <1>4, <1>5

LEMMA ProgressedAgrees ==
    ASSUME BookInv, HandleSearchProgressed
    PROVE Agreed'
<1>1. /\ UNCHANGED <<op, regexp, key, state, following, listOf, searches>>
      /\ data' = TakeCurrentResults(data)
      /\ tainted' = (tainted \/ Head(signals).search # listOf \/ data.of # listOf
                     \/ (cache' # cache /\ holes))
  BY DEF HandleSearchProgressed, crawlerVars
<1>2. data'.of = data.of
  BY <1>1, NumbersAre DEF TakeCurrentResults, Results, BookInv, TruthInv, AddUpInv
<1>3. Stamped(signals', searches) /\ \A n : NoFinalOf(signals, n) => NoFinalOf(signals', n)
  BY QuietSignals, OtherStamps DEF BookInv, TruthInv, AddUpInv, Agreed
<1>4. op.pc = "requested" /\ op.kind = "full" /\ op.search = listOf => tainted'
  <2>1. op.pc = "requested" /\ op.kind = "full" => data.of < op.search
    BY DEF BookInv, TruthInv, AddUpInv, Numbered
  <2>2. data.of \in Nat /\ op.search \in Nat
    BY NumbersAre DEF BookInv, TruthInv, AddUpInv
  <2>3. op.pc = "requested" /\ op.kind = "full" /\ op.search = listOf => data.of # listOf
    BY <2>1, <2>2
  <2>4. data.of # listOf => tainted'
    BY <1>1
  <2>5. QED
    BY <2>3, <2>4
<1>5. QED
  BY <1>1, <1>2, <1>3, <1>4 DEF BookInv, Agreed

LEMMA StartingAgrees ==
    ASSUME BookInv, Starting
    PROVE Agreed'
<1>1. /\ UNCHANGED <<data, tainted>> /\ listOf' = searches + 1 /\ searches' = searches + 1
      /\ regexp' = text /\ processed' = 0 /\ key' = KeyOf(text)
  BY StartingDoes DEF RunSearch
<1>2. /\ data.of < listOf' /\ op.search < listOf'
      /\ \/ ShowCached(text)
         \/ /\ Request("full", text, limit, 0, listOf') /\ signals' = signals
  BY StartingAddsUp DEF BookInv, TruthInv
<1>3. data.of \in Nat /\ op.search \in Nat /\ searches \in Nat /\ signals \in Seq(Signals)
  BY NumbersAre DEF BookInv, TruthInv, AddUpInv
<1>4. key'.regexp = text
  BY <1>1 DEF KeyOf
<1>5. /\ Stamped(signals, searches') /\ NoFinalOf(signals, listOf')
  <2>1. \A i \in 1..Len(signals) : IsFinal(signals[i]) => signals[i].kind = "progress"
    BY DEF IsFinal
  <2>2. \A i \in 1..Len(signals) : signals[i].kind = "progress" => signals[i].search \in 1..searches
    BY DEF BookInv, Agreed, Stamped
  <2>3. \A n \in 1..searches : n \in 1..searches' /\ n # listOf'
    BY <1>1, <1>3
  <2>4. QED
    BY <2>1, <2>2, <2>3 DEF Stamped, NoFinalOf
<1>6. /\ following' => state' = "Autorefreshing"
      /\ listOf' # 0
  <2>1. state' = StateAfterStart /\ following' = autoRefresh
    BY DEF Starting, ReplaceCurrentSearch
  <2>2. QED
    BY <1>1, <1>3, <2>1 DEF StateAfterStart
<1>7. CASE ShowCached(text)
  <2>1. PICK k \in CachedFor(text) :
          /\ signals' = Append(signals, [kind |-> "view", n |-> Cardinality(cache[k]), percent |-> 100])
          /\ op' = op
    BY <1>7 DEF ShowCached
  <2>2. Cardinality(cache[k]) \in 0..MaxLines
    <3>1. cache[k] \in SUBSET Lines
      BY DEF CachedFor, BookInv, TruthInv, AddUpInv, Typed, ListTypes
    <3>2. QED
      BY <3>1, LineSets
  <2>3. PICK s \in Signals : s.kind = "view" /\ signals' = Append(signals, s)
    BY <2>1, <2>2, OtherSignals
  <2>4. Stamped(signals', searches')
    BY <1>3, <1>5, <2>3, StampsPosted
  <2>5. op.pc # "idle" => op.search # 0
    BY DEF BookInv, Agreed
  <2>6. op'.search # listOf' /\ data'.of # listOf'
    BY <1>1, <1>2, <1>3, <2>1
  <2>7. QED
    BY <1>1, <1>4, <1>6, <2>1, <2>4, <2>5, <2>6 DEF Agreed
<1>8. CASE Request("full", text, limit, 0, listOf') /\ signals' = signals
  <2>1. op'.regexp = text /\ op'.search = listOf'
    BY <1>8, RequestedIs
  <2>2. QED
    BY <1>1, <1>4, <1>5, <1>6, <1>8, <2>1 DEF Agreed
<1>9. QED
  BY <1>2, <1>7, <1>8

LEMMA WorkerAgrees ==
    ASSUME BookInv, WorkerStep
    PROVE Agreed'
<1>1. /\ UNCHANGED <<listOf, searches, tainted, state, following, regexp, key, processed>>
      /\ SearchStep
  BY DEF WorkerStep, crawlerVars, dataVars
<1>2. data \in Results /\ op \in Operations /\ signals \in Seq(Signals) /\ searches \in Nat
      /\ op.search \in Nat /\ op.search <= searches
  BY NumbersAre DEF BookInv, TruthInv, AddUpInv, Numbered
<1>3. CASE FinishSearch
  <2>1. /\ op.pc = "searching" /\ op'.pc = "idle"
        /\ signals' = Append(signals, Progress(op.count, 100)) /\ data' = data
    BY <1>3 DEF FinishSearch, IdleOp
  <2>2. op.search \in 1..searches /\ op.count \in 0..MaxLines
    BY <1>2, <2>1 DEF BookInv, Agreed, Operations
  <2>3. PICK s \in Signals : s = Progress(op.count, 100) /\ s.search \in 1..searches
    <3>1. Progress(op.count, 100) \in Signals
      BY <1>2, <2>2 DEF Progress, Signals
    <3>2. Progress(op.count, 100).search = op.search
      BY DEF Progress
    <3>3. QED
      BY <2>2, <3>1, <3>2
  <2>4. Stamped(signals', searches)
    BY <1>2, <2>1, <2>3, StampsPosted DEF BookInv, Agreed
  <2>5. QED
    BY <1>1, <2>1, <2>4 DEF BookInv, Agreed
<1>4. CASE JoinBlock
  <2>1. PICK b \in op.joining, found \in SUBSET Lines, done, count, told \in 0..MaxLines,
             percent \in 0..100 : Joins(b, found, done, count, told, percent)
    BY <1>4, Joined DEF BookInv, TruthInv, AddUpInv, Typed
  <2>2. op.pc = "searching" /\ op'.pc = op.pc /\ op'.search = op.search /\ op'.regexp = op.regexp
    BY <1>2, <2>1 DEF Joins, BookInv, TruthInv, AddUpInv, Typed, WorkerInv, Blocked, Operations
  <2>3. data'.of = data.of
    BY <1>2, <2>1 DEF Joins, Results
  <2>4. Stamped(signals', searches) /\ \A n : NoFinalOf(signals, n) => NoFinalOf(signals', n)
    <3>1. Stamped(signals, searches)
      BY DEF BookInv, Agreed
    <3>2. ASSUME NEW n \in 0..99, signals' = Append(signals, Progress(count, n))
          PROVE /\ Stamped(signals', searches)
                /\ \A m : NoFinalOf(signals, m) => NoFinalOf(signals', m)
      <4>1. n \in 0..100 /\ n # 100 /\ op.search \in 1..searches
        BY <1>2, <2>2 DEF BookInv, Agreed
      <4>2. Progress(count, n) \in Signals /\ ~ IsFinal(Progress(count, n))
        BY <1>2, <4>1 DEF Progress, Signals, IsFinal
      <4>3. Progress(count, n).search = op.search
        BY DEF Progress
      <4>4. PICK s \in Signals : s = Progress(count, n) /\ ~ IsFinal(s) /\ s.search \in 1..searches
        BY <4>1, <4>2, <4>3
      <4>5. QED
        BY <1>2, <3>1, <3>2, <4>4, StampsPosted
    <3>3. QED
      BY <2>1, <3>1, <3>2 DEF Joins
  <2>5. QED
    BY <1>1, <2>2, <2>3, <2>4 DEF BookInv, Agreed
<1>5. CASE BeginFull
  <2>1. /\ op.pc = "requested" /\ op'.pc = "searching" /\ op'.search = op.search
        /\ op'.regexp = op.regexp /\ data'.of = op.search /\ signals' = signals
    BY <1>2, <1>5 DEF BeginFull, Started, ClearedResults, Operations
  <2>2. QED
    BY <1>1, <2>1 DEF BookInv, Agreed
<1>6. CASE BeginUpdate
  <2>1. PICK line : /\ op' = Started(Resumed(line).data, Resumed(line).initial)
                    /\ data' = Resumed(line).data
    BY <1>6 DEF BeginUpdate
  <2>2. /\ op.pc = "requested" /\ op'.pc = "searching" /\ op'.search = op.search
        /\ op'.regexp = op.regexp /\ signals' = signals
    BY <1>2, <1>6, <2>1 DEF BeginUpdate, Started, Operations
  <2>3. data'.of = data.of
    BY <1>2, <2>1 DEF Resumed, DeleteMatch, Results
  <2>4. QED
    BY <1>1, <2>2, <2>3 DEF BookInv, Agreed
<1>7. CASE ReadChunk \/ TakeBlock \/ DropBlocks
  <2>1. /\ op.pc = "searching" /\ op'.pc = "searching" /\ op'.search = op.search
        /\ op'.regexp = op.regexp /\ signals' = signals /\ data' = data
    BY <1>2, <1>7 DEF ReadChunk, Reading, TakeBlock, DropBlocks, Operations
  <2>2. QED
    BY <1>1, <2>1 DEF BookInv, Agreed
<1>8. QED
  BY <1>1, <1>3, <1>4, <1>5, <1>6, <1>7 DEF SearchStep

LEMMA BookStep == BookInv /\ [Next]_vars => BookInv'
<1> SUFFICES ASSUME BookInv, [Next]_vars PROVE BookInv'
  OBVIOUS
<1>1. TruthInv'
  BY TruthStep DEF BookInv
<1>2. CASE UNCHANGED vars
  <2>1. Indexing' /\ Agreed'
    BY <1>2 DEF BookInv, Indexing, Agreed, vars, workerVars, dataVars, crawlerVars, worldVars
  <2>2. QED
    BY <1>1, <2>1 DEF BookInv
<1>3. CASE Next
  <2>1. Indexing'
    BY <1>3, RefStep DEF BookInv, TruthInv, AddUpInv
  <2>2. Agreed'
    BY <1>3, SixKinds, ElsewhereAgrees, StartingAgrees, ProgressedAgrees, WorkerAgrees
  <2>3. QED
    BY <1>1, <2>1, <2>2 DEF BookInv
<1>4. QED
  BY <1>2, <1>3

-----------------------------------------------------------------------------
(* What the worker found is what the log shows *)

\* The lines a block stands for: more than it holds when the index was being rebuilt.
Width(b) == Least(ChunkLines, op.last - b.start)
Pending(l) == \E b \in op.blocks : b.start <= l /\ l < b.start + Width(b)

Exact(l) == l \in data.matches <=> Ref[l + 1] \in Hits[regexp]

\* Lines that were not perhaps the last one of the log when they were searched.
Sure(l) ==
    \/ l + 1 < data.processed
    \/ op.pc = "searching" /\ op.from <= l /\ l < op.next /\ l + 1 < op.last

\* The blocks hold what the log shows, and with no hole every line read is in one of them or
\* was joined.
Sourced ==
    Feeding /\ op.pc = "searching" =>
        /\ op.last <= Len(Ref)
        /\ data.processed <= op.last \/ data.processed <= op.from + 1
        /\ op.from = 0 \/ op.from < data.processed
        /\ \A b \in op.blocks : b.lines = <<>> \/ Len(b.lines) = Width(b)
        /\ \A b \in op.blocks : \A i \in 1..Len(b.lines) :
              b.start + i < op.last => b.lines[i] = Ref[b.start + i]
        /\ ~ holes /\ (~ interrupted \/ op.blocks # {}) =>
              \A l \in op.from..(Least(op.next, op.last) - 1) : l < data.processed \/ Pending(l)

Kept ==
    Feeding =>
        /\ processed <= data.processed /\ data.processed <= Len(Ref)
        /\ op.pc = "requested" => op.position <= data.processed
        /\ ~ holes => \A l \in 0..(data.processed - 1) : Sure(l) /\ ~ Pending(l) => Exact(l)

LEMMA Numbers ==
    ASSUME BookInv
    PROVE /\ data \in Results /\ op \in Operations /\ data.processed \in 0..MaxLines
          /\ op.end \in 0..MaxLines /\ op.position \in 0..MaxLines /\ op.from \in 0..MaxLines
          /\ op.last \in 0..MaxLines /\ op.next \in Nat /\ processed \in 0..MaxLines
          /\ MaxLines \in Nat /\ ChunkLines \in Nat \ {0}
          /\ op.blocks \in SUBSET Found /\ op.joining \in SUBSET Found
          /\ interrupted \in BOOLEAN /\ holes \in BOOLEAN /\ tainted \in BOOLEAN
          /\ \A b \in op.blocks : b.start \in Nat /\ Len(b.lines) \in Nat /\ b.lines \in Logs
<1>1. Typed
  BY DEF BookInv, TruthInv, AddUpInv
<1>2. data \in Results /\ op \in Operations
  BY <1>1, NumbersAre
<1>3. MaxLines \in Nat /\ ChunkLines \in Nat \ {0}
  BY SearchAssumption
<1>4. /\ data.processed \in 0..MaxLines
      /\ op.end \in 0..MaxLines /\ op.position \in 0..MaxLines /\ op.from \in 0..MaxLines
      /\ op.last \in 0..MaxLines /\ op.next \in Nat
      /\ op.blocks \in SUBSET Found /\ op.joining \in SUBSET Found
  BY <1>2 DEF Results, Operations
<1>5. processed \in 0..MaxLines /\ interrupted \in BOOLEAN /\ holes \in BOOLEAN /\ tainted \in BOOLEAN
  BY <1>1 DEF Typed, ListTypes, WorkerInv, WorkerTypes
<1>6. \A b \in op.blocks : b.start \in Nat /\ Len(b.lines) \in Nat /\ b.lines \in Logs
  <2>1. TAKE b \in op.blocks
  <2>2. b \in Found /\ 0..MaxLines \subseteq Nat
    BY <1>3, <1>4
  <2>3. QED
    BY <2>2, RowsAre
<1>7. QED
  BY <1>2, <1>3, <1>4, <1>5, <1>6

\* The operation goes on, or none does, while something else happens.
LEMMA ElsewhereKept ==
    ASSUME BookInv, Sourced, Kept, Next, op' = op, holes' = holes, interrupted => interrupted',
           data' = data \/ data' = TakeCurrentResults(data),
           Feeding' => Feeding /\ regexp' = regexp /\ processed' <= data.processed
    PROVE Sourced' /\ Kept'
<1>1. /\ data'.of = data.of /\ data'.matches = data.matches /\ data'.processed = data.processed
      /\ data'.count = data.count
  BY Numbers DEF TakeCurrentResults, Results
<1>2. SUFFICES ASSUME Feeding' PROVE Sourced' /\ Kept'
  BY DEF Sourced, Kept
<1>3. Feeding /\ regexp' = regexp /\ processed' <= data.processed
  BY <1>2
<1>4. Grown(Ref, Ref') /\ Ref \in Logs /\ Ref' \in Logs
  <2>1. listOf # 0 /\ ~ tainted'
    BY <1>2, <1>3 DEF Feeding
  <2>2. Typed /\ Indexing
    BY DEF BookInv, TruthInv, AddUpInv
  <2>3. QED
    BY <2>1, <2>2, RefStep, RefIs
<1>5. PICK m, n \in Nat : m = Len(Ref) /\ n = Len(Ref')
  BY <1>4, LogsAre
<1>6. n >= m /\ \A i \in 1..(m - 1) : Ref'[i] = Ref[i]
  BY <1>4, <1>5 DEF Grown
<1>7. /\ \A b : Width(b)' = Width(b)
      /\ \A l : Pending(l)' <=> Pending(l)
      /\ \A l : Sure(l)' <=> Sure(l)
  BY <1>1 DEF Width, Pending, Sure
<1>8. ASSUME op.pc = "searching" PROVE op.last <= m
  BY <1>3, <1>5, <1>8 DEF Sourced
<1>9. data.processed <= m
  BY <1>3, <1>5 DEF Kept
<1>10. Sourced'
  <2>1. SUFFICES ASSUME op.pc = "searching"
                 PROVE /\ op.last <= n
                       /\ data.processed <= op.last \/ data.processed <= op.from + 1
                       /\ op.from = 0 \/ op.from < data.processed
                       /\ \A b \in op.blocks : b.lines = <<>> \/ Len(b.lines) = Width(b)
                       /\ \A b \in op.blocks : \A i \in 1..Len(b.lines) :
                             b.start + i < op.last => b.lines[i] = Ref'[b.start + i]
                       /\ ~ holes /\ (~ interrupted \/ op.blocks # {}) =>
                             \A l \in op.from..(Least(op.next, op.last) - 1) :
                                 l < data.processed \/ Pending(l)
    BY <1>1, <1>5, <1>7 DEF Sourced
  <2>2. op.last <= n
    BY <1>5, <1>6, <1>8, <2>1, Numbers
  <2>3. ASSUME NEW b \in op.blocks, NEW i \in 1..Len(b.lines), b.start + i < op.last
        PROVE b.lines[i] = Ref'[b.start + i]
    <3>1. b.lines[i] = Ref[b.start + i]
      BY <1>3, <2>1, <2>3 DEF Sourced
    <3>2. b.start + i \in 1..(m - 1)
      BY SMTT(30), <1>8, <2>1, <2>3, Numbers
    <3>3. QED
      BY <1>6, <3>1, <3>2
  <2>4. QED
    BY <1>3, <2>1, <2>2, <2>3 DEF Sourced
<1>11. Kept'
  <2>1. ASSUME NEW l \in 0..(data.processed - 1), Sure(l), ~ Pending(l), ~ holes
        PROVE Exact(l)'
    <3>1. Exact(l)
      BY <1>3, <2>1 DEF Kept
    <3>2. l + 1 \in 1..(m - 1)
      BY <1>8, <1>9, <2>1, Numbers DEF Sure
    <3>3. QED
      BY <1>1, <1>3, <1>6, <3>1, <3>2 DEF Exact
  <2>2. data.processed <= n
    BY <1>5, <1>6, <1>9, Numbers
  <2>3. op.pc = "requested" => op.position <= data.processed
    BY <1>3 DEF Kept
  <2>4. QED
    BY <1>1, <1>3, <1>5, <1>7, <2>1, <2>2, <2>3 DEF Kept
<1>12. QED
  BY <1>10, <1>11

\* An update goes on from where the window was told the results are.
LEMMA UpdatedKept ==
    ASSUME BookInv, Sourced, Kept, LoadingFinished, op' # op
    PROVE Sourced' /\ Kept'
<1>1. /\ Request("update", regexp, Len(index), processed, listOf)
      /\ UNCHANGED <<data, holes, regexp, matching, processed, listOf, tainted>>
      /\ index' = index /\ loading' = loading
  BY UpdatedIs, LoadingFinishedLeaves DEF LoadingFinished, worldVars
<1>2. /\ op.pc = "idle" /\ op'.pc = "requested" /\ op'.position = processed
      /\ op'.blocks = {} /\ op.blocks = {}
  <2>1. op.pc = "idle" /\ op'.pc = "requested" /\ op'.position = processed
    BY <1>1, RequestedIs
  <2>2. op'.blocks = {}
    BY <1>1 DEF Request, IdleOp
  <2>3. QED
    BY <2>1, <2>2 DEF BookInv, TruthInv, AddUpInv, Typed, WorkerInv, Blocked
<1>3. Sourced'
  BY <1>2 DEF Sourced
<1>4. Ref' = Ref
  BY <1>1 DEF Ref
<1>5. Kept'
  BY <1>1, <1>2, <1>4 DEF Kept, Feeding, Sure, Pending, Exact
<1>6. QED
  BY <1>3, <1>5

LEMMA BeginFullKept ==
    ASSUME BookInv, BeginFull, UNCHANGED <<loading, listOf, processed, tainted, regexp>>
    PROVE Sourced' /\ Kept'
<1>1. /\ op.pc = "requested" /\ op.kind = "full" /\ index' = index
      /\ data'.of = op.search /\ data'.processed = 0
      /\ op'.pc = "searching" /\ op'.from = 0 /\ op'.next = 0
      /\ op'.last = Least(Len(index), op.end) /\ op'.blocks = op.blocks
  BY Numbers DEF BeginFull, Started, ClearedResults, Operations
<1>2. SUFFICES ASSUME Feeding' PROVE Sourced' /\ Kept'
  BY DEF Sourced, Kept
<1>3. processed = 0 /\ op'.blocks = {}
  <2>1. op.search = listOf /\ ~ tainted
    BY <1>1, <1>2 DEF Feeding
  <2>2. QED
    BY <1>1, <2>1 DEF BookInv, Agreed, TruthInv, AddUpInv, Typed, WorkerInv, Blocked
<1>4. op'.last <= Len(Ref') /\ op'.last \in Nat /\ Len(Ref') \in Nat
  <2>1. Ref' = Ref
    BY <1>1 DEF Ref
  <2>2. Len(index) \in Nat /\ Len(Ref) \in Nat /\ Len(index) <= Len(Ref) /\ op.end \in Nat
    <3>1. Typed /\ Indexing
      BY DEF BookInv, TruthInv, AddUpInv
    <3>2. Len(index) \in Nat /\ Len(Ref) \in Nat /\ Len(<<>>) = 0
      BY <3>1, RefIs, Nothing
    <3>3. index = <<>> \/ index = Ref
      BY <3>1, IndexIsRef
    <3>4. QED
      BY <3>2, <3>3, Numbers
  <2>3. QED
    BY <1>1, <2>1, <2>2 DEF Least
<1>5. Sourced'
  <2>1. op'.from..(Least(op'.next, op'.last) - 1) = {}
    BY <1>1, <1>4 DEF Least
  <2>2. QED
    BY <1>1, <1>3, <1>4, <2>1 DEF Sourced
<1>6. Kept'
  BY <1>1, <1>3, <1>4 DEF Kept
<1>7. QED
  BY <1>5, <1>6

LEMMA BeginUpdateKept ==
    ASSUME BookInv, Sourced, Kept, BeginUpdate,
           UNCHANGED <<loading, listOf, processed, tainted, regexp>>
    PROVE /\ Sourced' /\ Kept'
          /\ Feeding' =>
                /\ op'.blocks = {} /\ op'.last = Least(Len(index), op.end)
                /\ data'.processed = data.processed /\ op'.next = op'.from
                /\ data.processed = op'.from + 1 \/ (data.processed = 0 /\ op'.from = 0)
                /\ \A l \in 0..(data.processed - 2) : l \in data'.matches <=> l \in data.matches
<1>1. PICK line : /\ line = Most(data.processed, op.position)
                  /\ data' = Resumed(line).data
                  /\ op' = Started(Resumed(line).data, Resumed(line).initial)
                  /\ op.pc = "requested" /\ op.kind = "update" /\ index' = index
                  /\ UNCHANGED <<interrupted, holes>>
  BY DEF BeginUpdate
<1>2. /\ data'.of = data.of /\ data'.processed = data.processed
      /\ data'.matches = IF line >= 1 THEN data.matches \ {line - 1} ELSE data.matches
  BY <1>1, Numbers DEF Resumed, DeleteMatch, Results
<1>3. /\ op'.pc = "searching" /\ op'.from = Resumed(line).initial
      /\ op'.next = Resumed(line).initial /\ op'.last = Least(Len(index), op.end)
      /\ op'.blocks = op.blocks
  BY <1>1, Numbers DEF Started, Operations
<1>4. op.blocks = {}
  BY <1>1 DEF BookInv, TruthInv, AddUpInv, Typed, WorkerInv, Blocked
<1>5. SUFFICES ASSUME Feeding'
               PROVE /\ Sourced' /\ Kept'
                     /\ op'.blocks = {} /\ op'.last = Least(Len(index), op.end)
                     /\ data'.processed = data.processed /\ op'.next = op'.from
                     /\ data.processed = op'.from + 1 \/ (data.processed = 0 /\ op'.from = 0)
                     /\ \A l \in 0..(data.processed - 2) : l \in data'.matches <=> l \in data.matches
  BY DEF Sourced, Kept
<1>6. Feeding
  BY <1>2, <1>5 DEF Feeding
<1>7. line = data.processed
  BY <1>1, <1>6, Numbers DEF Kept, Most
<1>8. /\ data.processed = op'.from + 1 \/ (data.processed = 0 /\ op'.from = 0)
      /\ op'.from \in Nat
  BY <1>3, <1>7, Numbers DEF Resumed
<1>9. \A l \in 0..(data.processed - 2) : l \in data'.matches <=> l \in data.matches
  BY <1>2, <1>7, Numbers
<1>10. Ref' = Ref
  BY <1>1 DEF Ref
<1>11. op'.last <= Len(Ref) /\ op'.last \in Nat
  <2>1. Len(index) \in Nat /\ Len(Ref) \in Nat /\ Len(index) <= Len(Ref)
    <3>1. Typed /\ Indexing
      BY DEF BookInv, TruthInv, AddUpInv
    <3>2. Len(index) \in Nat /\ Len(Ref) \in Nat /\ Len(<<>>) = 0
      BY <3>1, RefIs, Nothing
    <3>3. index = <<>> \/ index = Ref
      BY <3>1, IndexIsRef
    <3>4. QED
      BY <3>2, <3>3
  <2>2. QED
    BY <1>3, <2>1, Numbers DEF Least
<1>12. Sourced'
  <2>1. op'.from..(Least(op'.next, op'.last) - 1) = {}
    BY <1>3, <1>8, <1>11 DEF Least
  <2>2. data'.processed <= op'.from + 1 /\ (op'.from = 0 \/ op'.from < data'.processed)
    BY <1>2, <1>8, Numbers
  <2>3. QED
    BY <1>3, <1>4, <1>10, <1>11, <2>1, <2>2 DEF Sourced
<1>13. Kept'
  <2>1. ASSUME NEW l \in 0..(data.processed - 1), Sure(l)', ~ holes PROVE Exact(l)'
    <3>1. l + 1 < data.processed
      BY <1>2, <1>3, <2>1, <1>8 DEF Sure
    <3>2. Sure(l) /\ ~ Pending(l) /\ l \in 0..(data.processed - 2)
      BY <1>4, <3>1, <2>1, Numbers DEF Sure, Pending
    <3>3. Exact(l)
      BY <1>6, <2>1, <3>2 DEF Kept
    <3>4. l \in data'.matches <=> l \in data.matches
      BY <1>9, <3>2
    <3>5. QED
      BY <1>10, <3>3, <3>4 DEF Exact
  <2>2. processed <= data.processed /\ data.processed <= Len(Ref)
    BY <1>6 DEF Kept
  <2>3. QED
    BY <1>1, <1>2, <1>3, <1>10, <2>1, <2>2 DEF Kept
<1>14. QED
  BY <1>2, <1>3, <1>4, <1>8, <1>9, <1>12, <1>13

\* The chunk that is read stands for the lines from next on, and holds them if the index has them.
LEMMA ChunkRead ==
    ASSUME BookInv, ReadChunk
    PROVE \E b \in Found :
            /\ op' = [op EXCEPT !.next = op.next + ChunkLines, !.blocks = op.blocks \cup {b}]
            /\ UNCHANGED <<index, data, interrupted, signals, holes>>
            /\ b.start = op.next /\ b.start < op.last /\ ~ interrupted
            /\ b.lines = <<>> \/ (index # <<>> /\ Len(b.lines) = Least(ChunkLines, op.last - op.next))
            /\ \A i \in 1..Len(b.lines) : b.lines[i] = Ref[b.start + i]
            /\ op.pc = "searching"
<1> DEFINE n == Least(ChunkLines, op.last - op.next)
           b == [start |-> op.next, lines |-> LinesRaw(op.next, n)]
<1>1. /\ op' = [op EXCEPT !.next = op.next + ChunkLines, !.blocks = op.blocks \cup {b}]
      /\ UNCHANGED <<index, data, interrupted, signals, holes>>
      /\ op.pc = "searching" /\ op.next < op.last /\ ~ interrupted
  BY DEF ReadChunk, Reading
<1>2. n \in Nat \ {0} /\ op.next \in Lines
  BY <1>1, Numbers DEF Least, Lines
<1> HIDE DEF n
<1>3. index \in Logs /\ Indexing /\ Typed
  BY DEF BookInv, TruthInv, AddUpInv, Typed, WorkerInv, WorkerTypes
<1>4. /\ LinesRaw(op.next, n) \in Logs
      /\ LinesRaw(op.next, n) # <<>> =>
            op.next + n <= Len(index) /\ Len(LinesRaw(op.next, n)) = n
      /\ \A i \in 1..Len(LinesRaw(op.next, n)) : LinesRaw(op.next, n)[i] = index[op.next + i]
  BY <1>2, <1>3, RawLines, Numbers
<1>5. b \in Found /\ b.start = op.next /\ b.lines = LinesRaw(op.next, n)
  BY <1>2, <1>4 DEF Found
<1> HIDE DEF b
<1>6. b.lines = <<>> \/ (index # <<>> /\ Len(b.lines) = n)
  <2>1. SUFFICES ASSUME b.lines # <<>> PROVE index # <<>>
    BY <1>4, <1>5
  <2>2. op.next + n <= Len(index)
    BY <1>4, <1>5, <2>1
  <2>3. Len(<<>>) = 0
    BY Nothing
  <2>4. QED
    BY <1>2, <2>2, <2>3, Numbers
<1>7. \A i \in 1..Len(b.lines) : b.lines[i] = Ref[b.start + i]
  <2>1. CASE b.lines = <<>>
    <3>1. PICK z : z = b.lines /\ Len(z) = 0
      BY <2>1, Nothing
    <3>2. QED
      BY <3>1
  <2>2. CASE b.lines # <<>>
    <3>1. index = Ref
      BY <1>3, <1>6, <2>2, IndexIsRef
    <3>2. QED
      BY <1>4, <1>5, <3>1
  <2>3. QED
    BY <2>1, <2>2
<1>8. QED
  BY <1>1, <1>5, <1>6, <1>7 DEF n

\* What is pending after a chunk was read: what was, and the lines it stands for.
LEMMA ChunkPending ==
    ASSUME BookInv, NEW b \in Found, b.start = op.next, b.start < op.last,
           op' = [op EXCEPT !.next = op.next + ChunkLines, !.blocks = op.blocks \cup {b}]
    PROVE /\ \A l : Pending(l) => Pending(l)'
          /\ \A l \in Nat : op.next <= l /\ l < op'.next /\ l < op.last => Pending(l)'
          /\ op'.next = op.next + ChunkLines /\ op'.blocks = op.blocks \cup {b}
          /\ op'.from = op.from /\ op'.last = op.last /\ op'.pc = op.pc /\ op'.end = op.end
          /\ \A a : Width(a)' = Width(a)
<1>1. /\ op'.next = op.next + ChunkLines /\ op'.blocks = op.blocks \cup {b}
      /\ op'.from = op.from /\ op'.last = op.last /\ op'.pc = op.pc /\ op'.end = op.end
  BY Numbers DEF Operations
<1>2. \A a : Width(a)' = Width(a)
  BY <1>1 DEF Width
<1>3. \A l : Pending(l) => Pending(l)'
  BY <1>1, <1>2 DEF Pending
<1>4. ASSUME NEW l \in Nat, op.next <= l, l < op.next + ChunkLines, l < op.last PROVE Pending(l)'
  <2>1. b.start <= l /\ l < b.start + Width(b)
    BY <1>4, Numbers DEF Width, Least
  <2>2. QED
    BY <1>1, <1>2, <2>1 DEF Pending
<1>5. QED
  BY <1>1, <1>2, <1>3, <1>4

LEMMA ReadChunkKept ==
    ASSUME BookInv, Sourced, Kept, ReadChunk,
           UNCHANGED <<loading, listOf, processed, tainted, regexp>>
    PROVE Sourced' /\ Kept'
<1>1. PICK b \in Found :
        /\ op' = [op EXCEPT !.next = op.next + ChunkLines, !.blocks = op.blocks \cup {b}]
        /\ UNCHANGED <<index, data, interrupted, signals, holes>>
        /\ b.start = op.next /\ b.start < op.last /\ ~ interrupted
        /\ b.lines = <<>> \/ (index # <<>> /\ Len(b.lines) = Least(ChunkLines, op.last - op.next))
        /\ \A i \in 1..Len(b.lines) : b.lines[i] = Ref[b.start + i]
        /\ op.pc = "searching"
  BY ChunkRead
<1>2. /\ \A l : Pending(l) => Pending(l)'
      /\ \A l \in Nat : op.next <= l /\ l < op'.next /\ l < op.last => Pending(l)'
      /\ op'.next = op.next + ChunkLines /\ op'.blocks = op.blocks \cup {b}
      /\ op'.from = op.from /\ op'.last = op.last /\ op'.pc = op.pc
      /\ \A a : Width(a)' = Width(a)
  BY <1>1, ChunkPending
<1>3. Ref' = Ref
  BY <1>1 DEF Ref
<1>4. SUFFICES ASSUME Feeding' PROVE Sourced' /\ Kept'
  BY DEF Sourced, Kept
<1>5. Feeding
  BY <1>1, <1>4 DEF Feeding
<1>6. Sourced'
  <2>1. \A a \in op'.blocks : a.lines = <<>> \/ Len(a.lines) = Width(a)'
    BY <1>1, <1>2, <1>5 DEF Sourced, Width
  <2>2. \A a \in op'.blocks : \A i \in 1..Len(a.lines) :
           a.start + i < op.last => a.lines[i] = Ref[a.start + i]
    BY <1>1, <1>2, <1>5 DEF Sourced
  <2>3. ASSUME ~ holes, NEW l \in op.from..(Least(op'.next, op.last) - 1)
        PROVE l < data.processed \/ Pending(l)'
    <3>1. l \in Nat /\ l < op'.next /\ l < op.last /\ op.from <= l
      BY <1>2, Numbers DEF Least
    <3>2. CASE l < op.next
      <4>1. l \in op.from..(Least(op.next, op.last) - 1)
        BY <3>1, <3>2, Numbers DEF Least
      <4>2. QED
        BY <1>1, <1>2, <1>5, <2>3, <4>1 DEF Sourced
    <3>3. CASE op.next <= l
      BY <1>2, <3>1, <3>3
    <3>4. QED
      BY <3>1, <3>2, <3>3, Numbers
  <2>4. QED
    BY <1>1, <1>2, <1>3, <1>5, <2>1, <2>2, <2>3 DEF Sourced
<1>7. Kept'
  <2>1. ASSUME ~ holes, NEW l \in 0..(data.processed - 1), Sure(l)', ~ Pending(l)'
        PROVE Exact(l)'
    <3>1. Sure(l)
      <4>1. CASE l + 1 < data.processed
        BY <4>1 DEF Sure
      <4>2. CASE op.from <= l /\ l < op'.next /\ l + 1 < op.last
        <5>1. l \in Nat /\ l < op.last
          BY <4>2, Numbers
        <5>2. l < op.next
          BY <1>2, <2>1, <4>2, <5>1, Numbers
        <5>3. QED
          BY <1>1, <4>2, <5>2 DEF Sure
      <4>3. QED
        BY <1>1, <1>2, <2>1, <4>1, <4>2 DEF Sure
    <3>2. ~ Pending(l)
      BY <1>2, <2>1
    <3>3. Exact(l)
      BY <1>5, <2>1, <3>1, <3>2 DEF Kept
    <3>4. QED
      BY <1>1, <1>3, <3>3 DEF Exact
  <2>2. QED
    BY <1>1, <1>2, <1>3, <1>5, <2>1 DEF Kept
<1>8. QED
  BY <1>6, <1>7

LEMMA TakeBlockKept ==
    ASSUME BookInv, Sourced, Kept, TakeBlock,
           UNCHANGED <<loading, listOf, processed, tainted, regexp>>
    PROVE Sourced' /\ Kept'
<1>1. /\ UNCHANGED <<index, data, interrupted, holes>>
      /\ op'.pc = op.pc /\ op'.blocks = op.blocks /\ op'.from = op.from /\ op'.last = op.last
      /\ op'.next = op.next /\ op'.position = op.position
  BY Numbers DEF TakeBlock, Operations
<1>2. Ref' = Ref
  BY <1>1 DEF Ref
<1>3. QED
  BY <1>1, <1>2 DEF Sourced, Kept, Feeding, Width, Pending, Sure, Exact

LEMMA DropBlocksKept ==
    ASSUME BookInv, Sourced, Kept, DropBlocks,
           UNCHANGED <<loading, listOf, processed, tainted, regexp>>
    PROVE Sourced' /\ Kept'
<1>1. /\ UNCHANGED <<index, data, interrupted>> /\ op.pc = "searching" /\ interrupted
      /\ holes' = (holes \/ \E b \in op.blocks : b.start < data.processed)
      /\ op'.pc = op.pc /\ op'.blocks = {} /\ op'.from = op.from /\ op'.last = op.last
      /\ op'.next = op.next
  BY Numbers DEF DropBlocks, Operations
<1>2. Ref' = Ref
  BY <1>1 DEF Ref
<1>3. Sourced'
  BY <1>1, <1>2 DEF Sourced, Feeding
<1>4. Kept'
  <2>1. SUFFICES ASSUME Feeding', Feeding
                 PROVE Kept'
    BY <1>1 DEF Kept, Feeding
  <2>2. ASSUME ~ holes', NEW l \in 0..(data.processed - 1), Sure(l)' PROVE Exact(l)'
    <3>1. ~ Pending(l)
      <4>1. SUFFICES ASSUME NEW b \in op.blocks, b.start <= l PROVE FALSE
        BY DEF Pending
      <4>2. b.start < data.processed
        BY <4>1, Numbers
      <4>3. QED
        BY <1>1, <2>2, <4>2
    <3>2. Sure(l) /\ ~ holes
      BY <1>1, <2>2 DEF Sure
    <3>3. Exact(l)
      BY <2>1, <2>2, <3>1, <3>2 DEF Kept
    <3>4. QED
      BY <1>1, <1>2, <3>3 DEF Exact
  <2>3. QED
    BY <1>1, <1>2, <2>1, <2>2 DEF Kept
<1>5. QED
  BY <1>3, <1>4

LEMMA FinishSearchKept ==
    ASSUME BookInv, Sourced, Kept, FinishSearch,
           UNCHANGED <<loading, listOf, processed, tainted, regexp>>
    PROVE Sourced' /\ Kept'
<1>1. /\ UNCHANGED <<index, data, interrupted, holes>> /\ op.blocks = {} /\ op'.pc = "idle"
  BY DEF FinishSearch, IdleOp
<1>2. Ref' = Ref
  BY <1>1 DEF Ref
<1>3. /\ \A l : Sure(l)' => Sure(l)
      /\ \A l : ~ Pending(l)
      /\ \A l : Exact(l)' <=> Exact(l)
  BY <1>1, <1>2 DEF Sure, Pending, Exact
<1>4. QED
  BY <1>1, <1>2, <1>3 DEF Sourced, Kept, Feeding

\* What the results are after a block was joined, line by line.
LEMMA JoinedLines ==
    ASSUME BookInv, NEW b \in op.joining, NEW found \in SUBSET Lines,
           NEW done \in 0..MaxLines, NEW count \in 0..MaxLines, NEW told \in 0..MaxLines,
           NEW percent \in 0..100, Joins(b, found, done, count, told, percent)
    PROVE /\ b \in op.blocks /\ b.start \in Nat /\ Len(b.lines) \in Nat
          /\ b.lines # <<>> => Len(b.lines) >= 1
          /\ op.pc = "searching" /\ op'.pc = "searching" /\ op'.blocks = op.blocks \ {b}
          /\ op'.from = op.from /\ op'.last = op.last /\ op'.next = op.next /\ op'.end = op.end
          /\ data'.of = data.of
          /\ holes' = (holes \/ b.lines = <<>>) /\ index' = index /\ interrupted' = interrupted
          /\ b.lines = <<>> => data' = data
          /\ b.lines # <<>> =>
                /\ data'.processed = Most(data.processed, b.start + Len(b.lines))
                /\ data'.matches = data.matches \cup found
          /\ op.from <= b.start /\ b.start < op.last
          /\ b.start + Len(b.lines) <= op.last /\ b.start + Len(b.lines) <= op.next
          /\ \A l \in Nat : l \in found <=> /\ b.start <= l /\ l < b.start + Len(b.lines)
                                           /\ b.lines[l - b.start + 1] \in Hits[op.regexp]
          /\ \A l \in Nat : b.start <= l /\ l < b.start + Len(b.lines) => l \notin data.matches
          /\ \A a : Width(a)' = Width(a)
<1>1. b \in op.blocks /\ b \in Found
  BY Numbers DEF Joins
<1>2. /\ b.start \in Nat /\ Len(b.lines) \in Nat /\ b.lines \in Logs
      /\ Rows(b) = b.start..(b.start + Len(b.lines) - 1)
  BY <1>1, Numbers DEF Rows
<1>3. b.lines # <<>> => Len(b.lines) >= 1
  <2>1. b.lines \in Seq(Contents)
    BY <1>2, LogsAre
  <2>2. b.lines # <<>> => Len(b.lines) # 0
    BY <2>1, EmptySeq
  <2>3. QED
    BY <1>2, <2>2
<1>4. /\ op.pc = "searching"
      /\ op.from <= b.start /\ b.start < op.last
      /\ b.start + Len(b.lines) <= op.last /\ b.start + Len(b.lines) <= op.next
      /\ Rows(b) \cap data.matches = {}
  BY <1>1 DEF BookInv, TruthInv, AddUpInv, Typed, WorkerInv, Blocked
<1>5. /\ op'.pc = op.pc /\ op'.blocks = op.blocks \ {b}
      /\ op'.from = op.from /\ op'.last = op.last /\ op'.next = op.next /\ op'.end = op.end
  BY Numbers DEF Joins, Operations
<1>6. \A a : Width(a)' = Width(a)
  BY <1>5 DEF Width
<1>7. /\ data'.of = data.of
      /\ b.lines = <<>> => data' = data
      /\ b.lines # <<>> =>
            /\ data'.processed = Most(data.processed, b.start + Len(b.lines))
            /\ data'.matches = data.matches \cup found
  BY Numbers DEF Joins, Results
<1>8. found = {l \in b.start..(b.start + Len(b.lines) - 1) :
                  b.lines[l - b.start + 1] \in Hits[op.regexp]}
  BY <1>2, MatchesAre DEF Joins
<1>9. \A l \in Nat : l \in b.start..(b.start + Len(b.lines) - 1)
                        <=> b.start <= l /\ l < b.start + Len(b.lines)
  BY <1>2
<1>10. \A l \in Nat : l \in found <=> /\ b.start <= l /\ l < b.start + Len(b.lines)
                                      /\ b.lines[l - b.start + 1] \in Hits[op.regexp]
  BY <1>8, <1>9
<1>11. \A l \in Nat : b.start <= l /\ l < b.start + Len(b.lines) => l \notin data.matches
  BY <1>2, <1>4, <1>9
<1>12. holes' = (holes \/ b.lines = <<>>) /\ index' = index /\ interrupted' = interrupted
  BY DEF Joins
<1>13. QED
  BY <1>1, <1>2, <1>3, <1>4, <1>5, <1>6, <1>7, <1>10, <1>11, <1>12

LEMMA JoinBlockKept ==
    ASSUME BookInv, Sourced, Kept, JoinBlock,
           UNCHANGED <<loading, listOf, processed, tainted, regexp>>
    PROVE Sourced' /\ Kept'
<1>1. PICK b \in op.joining, found \in SUBSET Lines, done, count, told \in 0..MaxLines,
           percent \in 0..100 : Joins(b, found, done, count, told, percent)
  BY Joined DEF BookInv, TruthInv, AddUpInv, Typed
<1>2. PICK s, k \in Nat : s = b.start /\ k = Len(b.lines)
  BY <1>1, JoinedLines
<1>3. /\ b \in op.blocks /\ (b.lines # <<>> => k >= 1)
      /\ op.pc = "searching" /\ op'.pc = "searching" /\ op'.blocks = op.blocks \ {b}
      /\ op'.from = op.from /\ op'.last = op.last /\ op'.next = op.next
      /\ data'.of = data.of
      /\ holes' = (holes \/ b.lines = <<>>) /\ index' = index /\ interrupted' = interrupted
      /\ (b.lines = <<>> => data' = data)
      /\ b.lines # <<>> =>
            /\ data'.processed = Most(data.processed, s + k)
            /\ data'.matches = data.matches \cup found
      /\ op.from <= s /\ s < op.last /\ s + k <= op.last /\ s + k <= op.next
      /\ \A l \in Nat : l \in found <=> /\ s <= l /\ l < s + k
                                       /\ b.lines[l - s + 1] \in Hits[op.regexp]
      /\ \A l \in Nat : s <= l /\ l < s + k => l \notin data.matches
      /\ \A a : Width(a)' = Width(a)
  BY <1>1, <1>2, JoinedLines
<1>4. Ref' = Ref
  BY <1>3 DEF Ref
<1>5. SUFFICES ASSUME Feeding' PROVE Sourced' /\ Kept'
  BY DEF Sourced, Kept
<1>6. Feeding
  BY <1>3, <1>5 DEF Feeding
<1>7. op.regexp = regexp
  BY <1>3, <1>6 DEF Feeding, BookInv, Agreed
<1>8. PICK p, last, from, next \in Nat :
         p = data.processed /\ last = op.last /\ from = op.from /\ next = op.next
  BY Numbers
<1>9. /\ last <= Len(Ref) /\ (p <= last \/ p <= from + 1) /\ (from = 0 \/ from < p)
      /\ (b.lines = <<>> \/ k = Width(b))
      /\ \A i \in 1..k : s + i < last => b.lines[i] = Ref[s + i]
      /\ ~ holes => \A l \in from..(Least(next, last) - 1) : l < p \/ Pending(l)
      /\ processed <= p /\ p <= Len(Ref)
      /\ ~ holes => \A l \in 0..(p - 1) : Sure(l) /\ ~ Pending(l) => Exact(l)
  BY <1>2, <1>3, <1>6, <1>8 DEF Sourced, Kept
<1>10. PICK q \in Nat : /\ q = data'.processed /\ q >= p
                        /\ q = p \/ (q = s + k /\ b.lines # <<>>)
                        /\ b.lines # <<>> => q >= s + k
  <2>1. CASE b.lines = <<>>
    BY <1>3, <1>8, <2>1
  <2>2. CASE b.lines # <<>>
    <3>1. data'.processed = Most(p, s + k)
      BY <1>3, <1>8, <2>2
    <3>2. PICK q \in Nat : q = Most(p, s + k) /\ q >= p /\ q >= s + k /\ q \in {p, s + k}
      BY DEF Most
    <3>3. QED
      BY <2>2, <3>1, <3>2
  <2>3. QED
    BY <2>1, <2>2
<1>11. q <= last \/ q <= from + 1
  BY <1>3, <1>8, <1>9, <1>10
<1>12. \A l : Pending(l) => Pending(l)' \/ (s <= l /\ l < s + Width(b))
  BY <1>2, <1>3 DEF Pending
<1>13. Sourced'
  <2>1. ASSUME ~ holes', NEW l \in from..(Least(next, last) - 1)
        PROVE l < q \/ Pending(l)'
    <3>1. ~ holes /\ b.lines # <<>> /\ k = Width(b) /\ q >= s + k
      BY <1>3, <1>9, <1>10, <2>1
    <3>2. l < p \/ Pending(l)
      BY <1>9, <2>1, <3>1
    <3>3. CASE l < p
      BY <1>10, <3>3
    <3>4. CASE s <= l /\ l < s + k
      BY <3>1, <3>4
    <3>5. QED
      BY <1>12, <3>1, <3>2, <3>3, <3>4
  <2>2. \A a \in op'.blocks : a.lines = <<>> \/ Len(a.lines) = Width(a)'
    BY <1>3, <1>6 DEF Sourced
  <2>3. \A a \in op'.blocks : \A i \in 1..Len(a.lines) :
           a.start + i < op'.last => a.lines[i] = Ref[a.start + i]
    BY <1>3, <1>6 DEF Sourced
  <2>4. q <= op'.last \/ q <= op'.from + 1
    BY <1>3, <1>8, <1>11
  <2>5. op'.from = 0 \/ op'.from < q
    BY <1>3, <1>8, <1>9, <1>10
  <2>6. ~ holes' => \A l \in op'.from..(Least(op'.next, op'.last) - 1) : l < q \/ Pending(l)'
    BY <1>3, <1>8, <2>1
  <2>7. op'.last <= Len(Ref)
    BY <1>3, <1>8, <1>9
  <2>8. QED
    BY <1>4, <1>10, <2>2, <2>3, <2>4, <2>5, <2>6, <2>7 DEF Sourced
<1>14. Kept'
  <2>1. ASSUME ~ holes', NEW l \in 0..(q - 1), Sure(l)', ~ Pending(l)'
        PROVE Exact(l)'
    <3>1. ~ holes /\ b.lines # <<>> /\ k = Width(b) /\ k >= 1 /\ q >= s + k
      BY <1>3, <1>9, <1>10, <2>1
    <3>2. data'.matches = data.matches \cup found /\ l \in Nat
      BY <1>3, <3>1
    <3>3. l + 1 < q \/ (from <= l /\ l < next /\ l + 1 < last)
      BY <1>3, <1>8, <1>10, <2>1 DEF Sure
    <3>4. CASE s <= l /\ l < s + k
      <4>1. l + 1 < last
        <5>1. from <= l
          BY <1>3, <1>8, <3>4
        <5>2. l + 1 < q => q <= last
          BY <1>11, <5>1
        <5>3. QED
          BY <3>3, <5>2
      <4>2. l - s + 1 \in 1..k /\ s + (l - s + 1) = l + 1
        BY <3>4
      <4>3. b.lines[l - s + 1] = Ref[l + 1]
        BY <1>9, <4>1, <4>2
      <4>4. l \in data'.matches <=> Ref[l + 1] \in Hits[regexp]
        BY <1>3, <1>7, <3>2, <3>4, <4>3
      <4>5. QED
        BY <1>3, <1>4, <1>6, <4>4 DEF Exact
    <3>5. CASE ~(s <= l /\ l < s + k)
      <4>1. ~ Pending(l) /\ l \notin found
        BY <1>3, <1>12, <2>1, <3>1, <3>2, <3>5
      <4>2. l < p /\ (l + 1 < p \/ (from <= l /\ l < next /\ l + 1 < last))
        <5>1. CASE l + 1 < p
          BY <3>2, <5>1
        <5>2. CASE p <= l + 1
          <6>1. from <= l /\ l < next /\ l + 1 < last
            <7>1. CASE from <= l /\ l < next /\ l + 1 < last
              BY <7>1
            <7>2. CASE l + 1 < q
              <8>1. q = s + k
                BY <1>10, <5>2, <7>2, <3>2
              <8>2. l < s
                BY <3>2, <3>5, <7>2, <8>1
              <8>3. l < next /\ l + 1 < last
                BY <1>3, <1>8, <3>1, <3>2, <8>2
              <8>4. from <= l
                BY <1>9, <3>2, <5>2
              <8>5. QED
                BY <8>3, <8>4
            <7>3. QED
              BY <3>3, <7>1, <7>2
          <6>2. l \in from..(Least(next, last) - 1)
            BY <6>1, <3>2 DEF Least
          <6>3. l < p
            BY <1>9, <3>1, <4>1, <6>2
          <6>4. QED
            BY <6>1, <6>3
        <5>3. QED
          BY <3>2, <5>1, <5>2
      <4>3. Sure(l) /\ l \in 0..(p - 1)
        BY <1>3, <1>8, <3>2, <4>2 DEF Sure
      <4>4. Exact(l)
        BY <1>9, <3>1, <4>1, <4>3
      <4>5. l \in data'.matches <=> l \in data.matches
        BY <3>2, <4>1
      <4>6. QED
        BY <1>4, <1>3, <4>4, <4>5 DEF Exact
    <3>6. QED
      BY <3>4, <3>5
  <2>2. processed' <= q /\ q <= Len(Ref)
    <3>1. PICK r \in Nat : r = processed
      BY Numbers
    <3>2. r <= q
      BY <1>9, <1>10, <3>1
    <3>3. Len(Ref) \in Nat
      BY RefIs DEF BookInv, TruthInv, AddUpInv
    <3>4. q <= Len(Ref)
      BY <1>3, <1>8, <1>9, <1>10, <3>3
    <3>5. QED
      BY <3>1, <3>2, <3>4
  <2>3. QED
    BY <1>3, <1>4, <1>10, <2>1, <2>2 DEF Kept
<1>15. QED
  BY <1>13, <1>14

LEMMA StartingKept ==
    ASSUME BookInv, Starting
    PROVE ~ Feeding'
<1>1. data.of < listOf' /\ data' = data
  BY StartingAddsUp, StartingDoes DEF BookInv, TruthInv
<1>2. data.of \in Nat /\ searches \in Nat /\ listOf' = searches + 1
  BY StartingDoes, NumbersAre DEF BookInv, TruthInv, AddUpInv
<1>3. QED
  BY <1>1, <1>2 DEF Feeding

\* What is unlike the steps of the worker and a new search: the operation goes on, or an
\* update is asked for.
LEMMA Aloof ==
    ASSUME BookInv, Bystanders \/ Clearing \/ LoadingFinished
                    \/ HandleSearchProgressedThrottled \/ UpdateFilteredView
                    \/ HandleSearchProgressed
    PROVE /\ holes' = holes /\ (tainted => tainted')
          /\ data' = data \/ data' = TakeCurrentResults(data)
          /\ \/ op' = op /\ (interrupted => interrupted')
             \/ LoadingFinished /\ op' # op
          /\ \/ listOf' = 0
             \/ listOf' = listOf /\ regexp' = regexp /\ processed' \in {processed, data.processed}
<1>1. CASE Bystanders
  <2>1. interrupted' \in {interrupted, TRUE}
    BY <1>1 DEF Bystanders, StartNewSearch, SetSearchPattern, SearchTextChange, StopSearch,
       SearchRefreshChange, SetSearchLimits, StopLoading, MarkLine, StartPosted,
       LeaveProcessEvents, Grow, IndexCleared, IndexBuilt, FileTruncated, Interrupt, workerVars
  <2>2. interrupted => interrupted'
    BY <2>1, Numbers
  <2>3. /\ data' = data /\ op' = op /\ holes' = holes /\ listOf' = listOf /\ regexp' = regexp
        /\ processed' = processed /\ (tainted => tainted')
    BY <1>1, BystandersLeave
  <2>4. QED
    BY <2>2, <2>3
<1>2. CASE Clearing
  BY <1>2, ClearingLeaves
<1>3. CASE LoadingFinished
  <2>1. op' = op => interrupted' \in {interrupted, TRUE}
    <3>1. \/ interrupted' \in {interrupted, TRUE}
          \/ Request("update", regexp, Len(index), processed, listOf)
      BY <1>3 DEF LoadingFinished, UpdateSearch, Interrupt
    <3>2. CASE Request("update", regexp, Len(index), processed, listOf)
      BY <3>2, RequestedIs
    <3>3. QED
      BY <3>1, <3>2
  <2>2. op' = op => (interrupted => interrupted')
    BY <2>1, Numbers
  <2>3. /\ data' = data /\ holes' = holes /\ listOf' = listOf /\ regexp' = regexp
        /\ processed' = processed /\ tainted' = tainted
    BY <1>3, LoadingFinishedLeaves
  <2>4. QED
    BY <1>3, <2>2, <2>3
<1>4. CASE HandleSearchProgressedThrottled \/ UpdateFilteredView
  <2>1. /\ data' = data /\ op' = op /\ holes' = holes /\ listOf' = listOf /\ regexp' = regexp
        /\ processed' = processed /\ tainted' = tainted /\ interrupted' = interrupted
    BY <1>4, ShownLeaves
  <2>2. QED
    BY <2>1
<1>5. CASE HandleSearchProgressed
  BY <1>5 DEF HandleSearchProgressed
<1>6. QED
  BY <1>1, <1>2, <1>3, <1>4, <1>5

LEMMA KeptStep ==
    ASSUME BookInv, Sourced, Kept, Next
    PROVE Sourced' /\ Kept'
<1>1. CASE Starting
  BY <1>1, StartingKept DEF Sourced, Kept
<1>2. CASE WorkerStep
  <2>1. SearchStep /\ UNCHANGED <<loading, listOf, processed, tainted, regexp>>
    BY <1>2 DEF WorkerStep, dataVars
  <2>2. QED
    BY <2>1, BeginFullKept, BeginUpdateKept, ReadChunkKept, TakeBlockKept, JoinBlockKept,
       DropBlocksKept, FinishSearchKept DEF SearchStep
<1>3. CASE Bystanders \/ Clearing \/ LoadingFinished \/ HandleSearchProgressedThrottled
           \/ UpdateFilteredView \/ HandleSearchProgressed
  <2>1. /\ holes' = holes /\ (tainted => tainted')
        /\ data' = data \/ data' = TakeCurrentResults(data)
        /\ \/ op' = op /\ (interrupted => interrupted')
           \/ LoadingFinished /\ op' # op
        /\ \/ listOf' = 0
           \/ listOf' = listOf /\ regexp' = regexp /\ processed' \in {processed, data.processed}
    BY <1>3, Aloof
  <2>2. CASE LoadingFinished /\ op' # op
    BY <2>2, UpdatedKept
  <2>3. CASE op' = op /\ (interrupted => interrupted')
    <3>1. data'.of = data.of
      BY <2>1, Numbers DEF TakeCurrentResults, Results
    <3>2. Feeding' => Feeding /\ regexp' = regexp
      BY <2>1, <3>1 DEF Feeding
    <3>3. Feeding' => processed' <= data.processed
      <4>1. SUFFICES ASSUME Feeding' PROVE processed' <= data.processed
        OBVIOUS
      <4>2. processed <= data.processed /\ processed' \in {processed, data.processed}
        BY <2>1, <3>2, <4>1 DEF Kept, Feeding
      <4>3. QED
        BY <4>2, Numbers
    <3>4. QED
      BY <2>1, <2>3, <3>2, <3>3, ElsewhereKept
  <2>4. QED
    BY <2>1, <2>2, <2>3
<1>4. QED
  BY <1>1, <1>2, <1>3, SixKinds

\* The list of a search that has ended, if no line was left out.
LEMMA KeptShows ==
    ASSUME BookInv, Kept, Feeding, op.blocks = {}, ~ holes
    PROVE Shows(data.matches, data.processed, regexp, Ref)
<1>1. \A l \in data.matches : l < data.processed /\ l \in Nat
  <2>1. data.matches \in SUBSET Lines
    BY Numbers DEF Results
  <2>2. QED
    BY <2>1, LogsAre DEF BookInv, TruthInv, AddUpInv, Typed, WorkerInv, Blocked
<1>2. data.matches \subseteq 0..(data.processed - 1)
  BY <1>1, Numbers
<1>3. data.processed <= Len(Ref)
  BY DEF Kept
<1>4. ASSUME NEW l \in 0..(data.processed - 2)
      PROVE l \in data.matches <=> Ref[l + 1] \in Hits[regexp]
  <2>1. l \in 0..(data.processed - 1) /\ Sure(l) /\ ~ Pending(l)
    BY <1>4, Numbers DEF Sure, Pending
  <2>2. Exact(l)
    BY <2>1 DEF Kept
  <2>3. QED
    BY <2>2 DEF Exact
<1>5. QED
  BY <1>2, <1>3, <1>4 DEF Shows

-----------------------------------------------------------------------------
(* The cache, and a list that came from it *)

Cached == ~ tainted => \A k \in DOMAIN cache : Shows(cache[k], k.end, k.regexp, Ref)

FromCache ==
    /\ ~ tainted /\ listOf # 0 /\ data.of # listOf /\ key # NoKey
    /\ ~(op.pc = "requested" /\ op.kind = "full" /\ op.search = listOf)

Listed == FromCache => Shows(matching, key.end, regexp, Ref)

ExactInv == BookInv /\ Sourced /\ Kept /\ Cached /\ Listed

LEMMA ExactInit == Init => ExactInv
<1> SUFFICES ASSUME Init PROVE ExactInv
  OBVIOUS
<1>1. BookInv
  BY BookInit
<1>2. listOf = 0
  BY DEF Init
<1>3. Cached
  <2>1. PICK c : c = cache /\ c = << >>
    BY DEF Init
  <2>2. DOMAIN c = {}
    BY <2>1, Nothing
  <2>3. DOMAIN cache = {}
    BY <2>1, <2>2
  <2>4. QED
    BY <2>3 DEF Cached
<1>4. QED
  BY <1>1, <1>2, <1>3 DEF ExactInv, Sourced, Kept, Feeding, Listed, FromCache

LEMMA KeysAre ==
    ASSUME BookInv
    PROVE /\ \A k \in DOMAIN cache : k \in Keys /\ k.end \in Nat
          /\ key \in Keys \cup {NoKey} /\ key.end \in Nat
<1>1. DOMAIN cache \subseteq Keys /\ key \in Keys \cup {NoKey}
  BY DEF BookInv, TruthInv, AddUpInv, Typed, ListTypes
<1>2. \A k \in Keys \cup {NoKey} : k.end \in Nat
  <2>1. 0..MaxLines \subseteq Nat
    BY SearchAssumption
  <2>2. QED
    BY <2>1 DEF Keys, NoKey
<1>3. QED
  BY <1>1, <1>2

\* The cache as it is while the log stays or grows.
LEMMA CachedStays ==
    ASSUME ExactInv, Next, cache' = cache \/ cache' = << >>, tainted => tainted'
    PROVE Cached'
<1>1. BookInv /\ Typed /\ Indexing
  BY DEF ExactInv, BookInv, TruthInv, AddUpInv
<1>2. SUFFICES ASSUME ~ tainted', NEW k \in DOMAIN cache'
               PROVE Shows(cache'[k], k.end, k.regexp, Ref')
  BY DEF Cached
<1>3. cache' = cache /\ cache # << >>
  <2>1. CASE cache' = << >>
    <3>1. PICK c : c = cache' /\ c = << >>
      BY <2>1
    <3>2. DOMAIN c = {}
      BY <3>1, Nothing
    <3>3. QED
      BY <1>2, <3>1, <3>2
  <2>2. QED
    BY <2>1
<1>4. Grown(Ref, Ref') /\ Ref' \in Logs /\ Ref \in Logs
  BY <1>1, <1>2, <1>3, RefStep, RefIs
<1>5. Shows(cache[k], k.end, k.regexp, Ref) /\ k.end \in Nat
  BY <1>1, <1>2, <1>3, KeysAre DEF ExactInv, Cached
<1>6. QED
  BY <1>3, <1>4, <1>5, ShowsGrown

\* What a search ended with is cached under its key.
LEMMA CachedGrows ==
    ASSUME ExactInv, HandleSearchProgressed
    PROVE Cached'
<1> DEFINE s == Head(signals)
<1>1. BookInv /\ Typed /\ Indexing /\ Next
  BY SixKinds DEF ExactInv, BookInv, TruthInv, AddUpInv
<1>2. /\ s.kind = "progress" /\ signals # <<>> /\ signals \in Seq(Signals)
      /\ data' = TakeCurrentResults(data) /\ matching' = MatchingAfter(data)
      /\ tainted' = (tainted \/ s.search # listOf \/ data.of # listOf
                     \/ (cache' # cache /\ holes))
      /\ index' = index /\ loading' = loading
      /\ (IF CacheDue(s.percent) THEN UpdateCache(matching') ELSE UNCHANGED cache)
  BY <1>1, NumbersAre DEF HandleSearchProgressed, Handles, worldVars
<1>3. CASE cache' = cache
  BY <1>1, <1>2, <1>3, CachedStays
<1>4. CASE cache' # cache
  <2>1. SUFFICES ASSUME ~ tainted', NEW k \in DOMAIN cache'
                 PROVE Shows(cache'[k], k.end, k.regexp, Ref')
    BY DEF Cached
  <2>2. ~ tainted /\ s.search = listOf /\ data.of = listOf /\ ~ holes
    BY <1>2, <1>4, <2>1
  <2>3. CacheDue(s.percent) /\ UpdateCache(matching')
    BY <1>2, <1>4
  <2>4. matching' \in SUBSET Lines /\ ListTypes
    BY <1>1, ProgressedTypes DEF Typed, ListTypes
  <2>5. /\ key \in Keys /\ key # NoKey
        /\ IF k = key THEN cache'[k] = matching' ELSE k \in DOMAIN cache /\ cache'[k] = cache[k]
    BY <1>4, <2>1, <2>3, <2>4, CacheChange
  <2>6. Ref' = Ref
    BY <1>2 DEF Ref
  <2>7. CASE k # key
    BY <2>2, <2>5, <2>6, <2>7 DEF ExactInv, Cached
  <2>8. CASE k = key
    <3>1. s.percent = 100 /\ data.processed = key.end /\ IsFinal(s)
      BY <1>2, <2>3 DEF CacheDue, IsFinal
    <3>2. listOf # 0
      <4>1. s.search \in 1..searches
        BY <1>1, <1>2, StampsHandled DEF BookInv, Agreed
      <4>2. searches \in Nat
        BY <1>1, NumbersAre
      <4>3. QED
        BY <2>2, <4>1, <4>2
    <3>3. Feeding /\ regexp = key.regexp
      BY <1>1, <2>2, <2>5, <3>2 DEF Feeding, BookInv, Agreed
    <3>4. op.blocks = {}
      <4>1. SUFFICES ASSUME op.pc # "idle" PROVE FALSE
        BY <1>1 DEF Typed, WorkerInv, Blocked
      <4>2. op.search = listOf
        BY <1>1, <2>2, <3>2, <4>1 DEF BookInv, Agreed
      <4>3. NoFinalOf(signals, listOf)
        BY <1>1, <2>5, <3>2, <4>1, <4>2 DEF BookInv, Agreed
      <4>4. QED
        BY <1>2, <2>2, <3>1, <4>3, StampsHandled
    <3>5. matching' = data.matches
      BY <1>1, <1>2, <3>3 DEF MatchingAfter, BookInv, TruthInv, AddUpInv, Sums, Feeding
    <3>6. Shows(data.matches, data.processed, regexp, Ref)
      BY <1>1, <2>2, <3>3, <3>4, KeptShows DEF ExactInv
    <3>7. QED
      BY <2>5, <2>6, <2>8, <3>1, <3>3, <3>5, <3>6
  <2>9. QED
    BY <2>7, <2>8
<1>5. QED
  BY <1>3, <1>4

LEMMA CachedStep ==
    ASSUME ExactInv, Next
    PROVE Cached'
<1>1. CASE HandleSearchProgressed
  BY <1>1, CachedGrows
<1>2. CASE ~ HandleSearchProgressed
  <2>1. (cache' = cache \/ cache' = << >>) /\ (tainted => tainted')
    <3>1. CASE Bystanders
      BY <3>1, BystandersLeave
    <3>2. CASE Clearing
      BY <3>2, ClearingLeaves
    <3>3. CASE Starting
      BY <3>3, StartingDoes
    <3>4. CASE LoadingFinished
      BY <3>4, LoadingFinishedLeaves
    <3>5. CASE HandleSearchProgressedThrottled \/ UpdateFilteredView
      BY <3>5, ShownLeaves
    <3>6. CASE WorkerStep
      BY <3>6 DEF WorkerStep, dataVars
    <3>7. QED
      BY <1>2, <3>1, <3>2, <3>3, <3>4, <3>5, <3>6, SixKinds
  <2>2. QED
    BY <2>1, CachedStays
<1>3. QED
  BY <1>1, <1>2

\* A list from the cache, as it is while the log stays or grows.
LEMMA ListedStays ==
    ASSUME ExactInv, Next, FromCache', FromCache, UNCHANGED <<matching, regexp, listOf>>, key' = key
    PROVE Shows(matching', key'.end, regexp', Ref')
<1>1. BookInv /\ Typed /\ Indexing
  BY DEF ExactInv, BookInv, TruthInv, AddUpInv
<1>2. Grown(Ref, Ref') /\ Ref' \in Logs /\ Ref \in Logs
  <2>1. ~ tainted' /\ listOf # 0
    BY DEF FromCache
  <2>2. QED
    BY <1>1, <2>1, RefStep, RefIs
<1>3. Shows(matching, key.end, regexp, Ref) /\ key.end \in Nat
  BY <1>1, KeysAre DEF ExactInv, Listed
<1>4. QED
  BY <1>2, <1>3, ShowsGrown

LEMMA ListedStep ==
    ASSUME ExactInv, Next
    PROVE Listed'
<1>1. BookInv /\ Typed /\ data \in Results /\ op \in Operations
  BY NumbersAre DEF ExactInv, BookInv, TruthInv, AddUpInv
<1> SUFFICES ASSUME FromCache' PROVE Shows(matching', key'.end, regexp', Ref')
  BY DEF Listed
<1>2. ~ tainted' /\ listOf' # 0 /\ data'.of # listOf' /\ key' # NoKey
      /\ ~(op'.pc = "requested" /\ op'.kind = "full" /\ op'.search = listOf')
  BY DEF FromCache
<1>3. CASE Bystanders \/ HandleSearchProgressedThrottled \/ UpdateFilteredView
  <2>1. UNCHANGED <<matching, regexp, listOf, key, data, op>> /\ (tainted => tainted')
    BY <1>3, BystandersLeave, ShownLeaves
  <2>2. FromCache
    BY <1>2, <2>1 DEF FromCache
  <2>3. QED
    BY <2>1, <2>2, ListedStays
<1>4. CASE Clearing
  BY <1>2, <1>4, ClearingLeaves
<1>5. CASE Starting
  <2>1. /\ cache' = cache /\ regexp' = text /\ key' = KeyOf(text) /\ index' = index
        /\ loading' = loading /\ tainted' = tainted
        /\ \/ ShowCached(text)
           \/ Request("full", text, limit, 0, listOf')
    BY <1>1, <1>5, StartingDoes, StartingAddsUp DEF RunSearch, BookInv, TruthInv
  <2>2. ShowCached(text)
    BY <1>2, <2>1, RequestedIs
  <2>3. PICK k \in DOMAIN cache : k = KeyOf(text) /\ matching' = cache[k]
    BY <2>2 DEF ShowCached, CachedFor
  <2>4. Shows(cache[k], k.end, k.regexp, Ref)
    BY <1>2, <2>1 DEF ExactInv, Cached
  <2>5. Ref' = Ref /\ k.regexp = text /\ key' = k
    BY <2>1, <2>3 DEF Ref, KeyOf
  <2>6. QED
    BY <2>1, <2>3, <2>4, <2>5
<1>6. CASE LoadingFinished
  <2>1. UNCHANGED <<matching, regexp, listOf, data, tainted>>
    BY <1>6, LoadingFinishedLeaves
  <2>2. op' = op /\ key' = key
    <3>1. op' = op
      BY <1>1, <1>2, <1>6, UpdatedIs
    <3>2. key' \in {key, NoKey}
      BY <1>6 DEF LoadingFinished, UpdateSearch
    <3>3. QED
      BY <1>2, <3>1, <3>2
  <2>3. FromCache
    BY <1>2, <2>1, <2>2 DEF FromCache
  <2>4. QED
    BY <2>1, <2>2, <2>3, ListedStays
<1>7. CASE HandleSearchProgressed
  <2>1. /\ data' = TakeCurrentResults(data) /\ listOf' = listOf
        /\ tainted' = (tainted \/ Head(signals).search # listOf \/ data.of # listOf
                       \/ (cache' # cache /\ holes))
    BY <1>7 DEF HandleSearchProgressed
  <2>2. data'.of = data.of
    BY <1>1, <2>1 DEF TakeCurrentResults, Results
  <2>3. QED
    BY <1>2, <2>1, <2>2
<1>8. CASE WorkerStep
  <2>1. UNCHANGED <<matching, regexp, listOf, key, tainted>> /\ SearchStep
    BY <1>8 DEF WorkerStep, dataVars
  <2>2. data.of # listOf /\ ~(op.pc = "requested" /\ op.kind = "full" /\ op.search = listOf)
    <3>1. CASE BeginFull
      <4>1. data'.of = op.search /\ op.pc = "requested" /\ op.kind = "full"
        BY <3>1 DEF BeginFull, ClearedResults
      <4>2. op.search # listOf
        BY <1>2, <2>1, <4>1
      <4>3. data.of # listOf
        BY <1>1, <1>2, <2>1, <4>1, <4>2 DEF BookInv, Agreed
      <4>4. QED
        BY <4>2, <4>3
    <3>2. CASE BeginUpdate
      <4>1. PICK line : data' = Resumed(line).data /\ op.kind = "update"
        BY <3>2 DEF BeginUpdate
      <4>2. data'.of = data.of
        BY <1>1, <4>1 DEF Resumed, DeleteMatch, Results
      <4>3. QED
        BY <1>2, <2>1, <4>1, <4>2
    <3>3. CASE JoinBlock
      <4>1. PICK b \in op.joining, found \in SUBSET Lines, done, count, told \in 0..MaxLines,
                 percent \in 0..100 : Joins(b, found, done, count, told, percent)
        BY <1>1, <3>3, Joined DEF BookInv, TruthInv, AddUpInv, Typed
      <4>2. data'.of = data.of /\ op.pc = "searching"
        BY <1>1, <4>1, JoinedLines
      <4>3. QED
        BY <1>2, <2>1, <4>2
    <3>4. CASE ReadChunk \/ TakeBlock \/ DropBlocks \/ FinishSearch
      BY <1>2, <2>1, <3>4 DEF ReadChunk, Reading, TakeBlock, DropBlocks, FinishSearch
    <3>5. QED
      BY <2>1, <3>1, <3>2, <3>3, <3>4 DEF SearchStep
  <2>3. FromCache
    BY <1>2, <2>1, <2>2 DEF FromCache
  <2>4. QED
    BY <2>1, <2>3, ListedStays
<1>9. QED
  BY <1>3, <1>4, <1>5, <1>6, <1>7, <1>8, SixKinds

LEMMA ExactStep == ExactInv /\ [Next]_vars => ExactInv'
<1> SUFFICES ASSUME ExactInv, [Next]_vars PROVE ExactInv'
  OBVIOUS
<1>1. BookInv'
  BY BookStep DEF ExactInv
<1>2. CASE UNCHANGED vars
  <2>1. UNCHANGED <<data, op, interrupted, holes, index, loading, listOf, tainted, regexp,
                    processed, matching, key, cache>>
    BY <1>2 DEF vars, workerVars, dataVars, worldVars
  <2>2. Ref' = Ref
    BY <2>1 DEF Ref
  <2>3. Sourced' /\ Kept'
    BY <2>1, <2>2 DEF ExactInv, Sourced, Kept, Feeding, Width, Pending, Sure, Exact
  <2>4. Cached' /\ Listed'
    BY <2>1, <2>2 DEF ExactInv, Cached, Listed, FromCache
  <2>5. QED
    BY <1>1, <2>3, <2>4 DEF ExactInv
<1>3. CASE Next
  <2>1. Sourced' /\ Kept'
    BY <1>3, KeptStep DEF ExactInv
  <2>2. QED
    BY <1>1, <1>3, <2>1, CachedStep, ListedStep DEF ExactInv
<1>4. QED
  BY <1>2, <1>3

LEMMA ExactInvariant == Spec => []ExactInv
BY ExactInit, ExactStep, PTL DEF Spec

\* CacheSound always: whatever was interrupted, updated and evicted, a cached result is what a
\* search for its pattern would find in its lines now, but perhaps for the last of them.
THEOREM CacheIsSound == Spec => []CacheSound
<1>1. ExactInv => CacheSound
  <2> SUFFICES ASSUME ExactInv, ~ tainted, loading = NotLoading,
                      NEW k \in DOMAIN cache, NEW l \in 0..(k.end - 2)
               PROVE l \in cache[k] <=> index[l + 1] \in Hits[k.regexp]
    BY DEF CacheSound
  <2>1. Ref = index
    BY DEF Ref, NotLoading
  <2>2. Shows(cache[k], k.end, k.regexp, Ref)
    BY DEF ExactInv, Cached
  <2>3. QED
    BY <2>1, <2>2 DEF Shows
<1>2. QED
  BY <1>1, ExactInvariant, PTL

-----------------------------------------------------------------------------
(* Auto-refresh: the last line too *)

\* Something is under way that leads to an update or to a new search.
Coming == frames # <<>> \/ loading # NotLoading \/ HasLoaded(signals)

Limited == limit <= Len(index) \/ loading # NotLoading \/ HasLoaded(signals)

Promised ==
    following /\ ~ tainted /\ op.pc = "requested" /\ op.search = listOf =>
        \/ Coming
        \/ /\ ~ interrupted /\ op.end <= Len(index)
           /\ op.kind = "update" /\ data.of = listOf => data.processed <= op.end

\* Nobody interrupts the search, which goes to the end of the log and finds even in the last
\* line what the log shows.
Thorough ==
    /\ ~ interrupted /\ op.last = op.end /\ data.processed <= op.last
    /\ \A b \in op.blocks : \A i \in 1..Len(b.lines) : b.lines[i] = Ref[b.start + i]
    /\ ~ holes =>
          \A l \in 0..(data.processed - 1) : l < op.next /\ ~ Pending(l) => Exact(l)

Complete == data.processed = op.end /\ \A l \in 0..(data.processed - 1) : Exact(l)

Followed ==
    following /\ Feeding =>
        /\ op.pc = "searching" => Coming \/ Thorough
        /\ Idle /\ ~ holes => Coming \/ Complete

FollowInv == ExactInv /\ Limited /\ Promised /\ Followed

LEMMA FollowInit == Init => FollowInv
<1> SUFFICES ASSUME Init PROVE FollowInv
  OBVIOUS
<1>1. ExactInv
  BY ExactInit
<1>2. limit = Len(index) /\ following = FALSE
  BY DEF Init
<1>3. Len(index) \in Nat
  BY <1>1, RefIs DEF ExactInv, BookInv, TruthInv, AddUpInv
<1>4. QED
  BY <1>1, <1>2, <1>3 DEF FollowInv, Limited, Promised, Followed

LEMMA LoadedPosted ==
    ASSUME NEW S, NEW queue \in Seq(S), NEW s, HasLoaded(queue) \/ s.kind = "loaded"
    PROVE HasLoaded(Append(queue, s))
<1> DEFINE t == Append(queue, s)
           m == Len(queue)
<1>1. m \in Nat /\ Len(t) = m + 1 /\ t[m + 1] = s /\ \A i \in 1..m : t[i] = queue[i]
  <2>1. queue \in Seq(S \cup {s}) /\ s \in S \cup {s}
    OBVIOUS
  <2>2. QED
    BY <2>1
<1> HIDE DEF t, m
<1>2. CASE s.kind = "loaded"
  BY <1>1, <1>2 DEF HasLoaded, t
<1>3. CASE HasLoaded(queue)
  <2>1. PICK i \in 1..m : queue[i].kind = "loaded"
    BY <1>3 DEF HasLoaded, m
  <2>2. i \in 1..(m + 1) /\ t[i].kind = "loaded"
    BY <1>1, <2>1
  <2>3. QED
    BY <1>1, <2>2 DEF HasLoaded, t
<1>4. QED
  BY <1>2, <1>3

\* An announced end of a load stays in the queue until it is handled.
LEMMA LoadedStays ==
    ASSUME BookInv, Next, ~ LoadingFinished, HasLoaded(signals)
    PROVE HasLoaded(signals')
<1>1. signals \in Seq(Signals)
  BY NumbersAre DEF BookInv, TruthInv, AddUpInv
<1>2. \/ signals' = signals \/ \E s : signals' = Append(signals, s)
      \/ signals # <<>> /\ Head(signals).kind # "loaded" /\ signals' = Tail(signals)
  <2>1. CASE Bystanders
    BY <2>1, BystandersLeave
  <2>2. CASE Clearing
    BY <2>2, ClearingLeaves
  <2>3. CASE Starting
    BY <2>3, StartingDoes DEF RunSearch, ShowCached, RunWorker
  <2>4. CASE HandleSearchProgressedThrottled \/ UpdateFilteredView
    BY <2>4, ShownLeaves
  <2>5. CASE HandleSearchProgressed
    BY <2>5 DEF HandleSearchProgressed, Handles
  <2>6. CASE WorkerStep
    <3>1. CASE JoinBlock
      BY <3>1 DEF JoinBlock
    <3>2. CASE ~ JoinBlock
      BY <2>6, <3>2 DEF WorkerStep, SearchStep, BeginFull, BeginUpdate, ReadChunk, TakeBlock,
         DropBlocks, FinishSearch
    <3>3. QED
      BY <3>1, <3>2
  <2>7. QED
    BY <2>1, <2>2, <2>3, <2>4, <2>5, <2>6, SixKinds
<1>3. CASE signals' = signals
  BY <1>3
<1>4. CASE \E s : signals' = Append(signals, s)
  BY <1>1, <1>4, LoadedPosted
<1>5. CASE signals # <<>> /\ Head(signals).kind # "loaded" /\ signals' = Tail(signals)
  BY <1>1, <1>5, StampsHandled
<1>6. QED
  BY <1>2, <1>3, <1>4, <1>5

LEMMA FramesPushed ==
    ASSUME BookInv, NEW x \in {"user", "load"}, frames' = Append(frames, x)
    PROVE Coming'
<1>1. frames \in Seq({"user", "load"})
  BY DEF BookInv, TruthInv, AddUpInv, Typed, ViewTypes
<1>2. Len(frames') # 0
  BY <1>1
<1>3. frames' # <<>>
  BY <1>2, Nothing
<1>4. QED
  BY <1>3 DEF Coming

LEMMA LoadGoesOn ==
    ASSUME BookInv, Grow \/ IndexCleared \/ IndexBuilt \/ StopLoading
    PROVE loading' # NotLoading \/ HasLoaded(signals')
<1>1. CASE Grow
  <2>1. loading'.kind = "partial"
    BY <1>1 DEF Grow
  <2>2. QED
    BY <2>1 DEF NotLoading
<1>2. CASE IndexCleared
  <2>1. loading \in [kind : {"none", "partial", "full"}, to : Logs]
    BY DEF BookInv, TruthInv, AddUpInv, Typed, ViewTypes
  <2>2. loading'.kind = "partial"
    BY <1>2, <2>1 DEF IndexCleared
  <2>3. QED
    BY <2>2 DEF NotLoading
<1>3. CASE IndexBuilt
  <2>1. signals \in Seq(Signals)
    BY NumbersAre DEF BookInv, TruthInv, AddUpInv
  <2>2. signals' = Append(signals, [kind |-> "loaded"])
    BY <1>3 DEF IndexBuilt
  <2>3. [kind |-> "loaded"].kind = "loaded"
    OBVIOUS
  <2>4. QED
    BY <2>1, <2>2, <2>3, LoadedPosted
<1>4. CASE StopLoading
  BY <1>4 DEF StopLoading, worldVars
<1>5. QED
  BY <1>1, <1>2, <1>3, <1>4

\* A step after which nothing is coming, and auto-refresh is on, changes neither the log nor
\* what the worker was told, but by asking for an update.
LEMMA StaysCalm ==
    ASSUME BookInv, Bystanders \/ Clearing \/ LoadingFinished
                    \/ HandleSearchProgressedThrottled \/ UpdateFilteredView
                    \/ HandleSearchProgressed,
           following', ~ Coming', op' = op
    PROVE /\ UNCHANGED <<interrupted, index, loading, listOf>>
          /\ ~ Coming /\ following
<1>1. Next
  BY SixKinds
<1>2. ~ Starting
  <2>1. listOf' = 0 \/ listOf' = listOf
    BY Aloof
  <2>2. listOf \in {0, searches} /\ searches \in Nat
    BY NumbersAre DEF BookInv, TruthInv, AddUpInv, Numbered
  <2>3. Starting => listOf' = searches + 1
    BY StartingDoes
  <2>4. QED
    BY <2>1, <2>2, <2>3
<1>3. following
  BY <1>1, <1>2, StateSteps
<1>4. ASSUME UNCHANGED <<interrupted, index, loading, listOf, frames>>, ~ LoadingFinished
      PROVE UNCHANGED <<interrupted, index, loading, listOf>> /\ ~ Coming /\ following
  <2>1. HasLoaded(signals) => HasLoaded(signals')
    BY <1>1, <1>4, LoadedStays
  <2>2. QED
    BY <1>3, <1>4, <2>1 DEF Coming
<1>5. CASE LoadingFinished
  <2>1. state = "Autorefreshing"
    BY <1>3 DEF BookInv, Agreed
  <2>2. IsAutorefreshAllowed /\ ~ IsFileTruncated
    BY <2>1 DEF IsAutorefreshAllowed, IsFileTruncated
  <2>3. Request("update", regexp, Len(index), processed, listOf)
    BY <1>5, <2>2 DEF LoadingFinished, UpdateSearch
  <2>4. QED
    BY <2>3, RequestedIs
<1>6. CASE Bystanders
  <2>1. CASE StartNewSearch \/ StartPosted
    BY <2>1, FramesPushed DEF StartNewSearch, StartPosted
  <2>2. CASE LeaveProcessEvents
    BY <2>2 DEF LeaveProcessEvents, Coming
  <2>3. CASE SetSearchPattern \/ SearchTextChange \/ StopSearch \/ SearchRefreshChange
             \/ FileTruncated
    BY <2>3 DEF SetSearchPattern, SearchTextChange, StopSearch, SearchRefreshChange, FileTruncated
  <2>4. CASE Grow \/ IndexCleared \/ IndexBuilt \/ StopLoading
    BY <2>4, LoadGoesOn DEF Coming
  <2>5. CASE SetSearchLimits \/ MarkLine
    <3>1. UNCHANGED <<interrupted, index, loading, listOf, frames>>
      BY <2>5 DEF SetSearchLimits, MarkLine, workerVars, frameVars, worldVars
    <3>2. QED
      BY <1>4, <1>5, <3>1
  <2>6. QED
    BY <1>6, <2>1, <2>2, <2>3, <2>4, <2>5 DEF Bystanders
<1>7. CASE Clearing
  BY <1>7 DEF Clearing, Reload, FileTruncated, ReplaceCurrentSearch
<1>8. CASE HandleSearchProgressedThrottled \/ UpdateFilteredView
  <2>1. UNCHANGED <<interrupted, index, loading, listOf, frames>>
    BY <1>8 DEF HandleSearchProgressedThrottled, UpdateFilteredView, ShowProgress, workerVars,
       frameVars, worldVars
  <2>2. CASE LoadingFinished
    BY <1>5, <2>2
  <2>3. QED
    BY <1>4, <2>1, <2>2
<1>9. CASE HandleSearchProgressed
  <2>1. UNCHANGED <<interrupted, index, loading, listOf, frames>>
    BY <1>9 DEF HandleSearchProgressed, frameVars, worldVars
  <2>2. QED
    BY <1>4, <1>5, <2>1
<1>10. QED
  BY <1>5, <1>6, <1>7, <1>8, <1>9

LEMMA LimitedStep ==
    ASSUME BookInv, Limited, Next
    PROVE Limited'
<1>1. CASE limit' = limit /\ index' = index /\ loading' = loading /\ ~ LoadingFinished
  <2>1. HasLoaded(signals) => HasLoaded(signals')
    BY <1>1, LoadedStays
  <2>2. QED
    BY <1>1, <2>1 DEF Limited
<1>2. CASE limit' \in 0..Len(index) /\ index' = index
  <2>1. Len(index) \in Nat
    BY RefIs DEF BookInv, TruthInv, AddUpInv
  <2>2. QED
    BY <1>2, <2>1 DEF Limited
<1>3. Len(index) \in 0..Len(index)
  BY RefIs DEF BookInv, TruthInv, AddUpInv
<1>4. CASE LoadingFinished
  <2>1. limit' = Len(index) /\ index' = index
    BY <1>4 DEF LoadingFinished, ClearSearchLimits, worldVars
  <2>2. QED
    BY <1>2, <1>3, <2>1
<1>5. CASE Grow \/ IndexCleared \/ IndexBuilt \/ StopLoading
  BY <1>5, LoadGoesOn DEF Limited
<1>6. CASE SetSearchLimits
  <2>1. limit' \in 1..Len(index) /\ index' = index
    BY <1>6 DEF SetSearchLimits, worldVars
  <2>2. limit' \in 0..Len(index)
    BY <1>3, <2>1
  <2>3. QED
    BY <1>2, <2>1, <2>2
<1>7. CASE Reload \/ FileTruncated
  <2>1. \E log : loading' = [kind |-> "full", to |-> log]
    <3>1. CASE Reload
      BY <3>1 DEF Reload
    <3>2. CASE FileTruncated
      BY <3>2 DEF FileTruncated
    <3>3. QED
      BY <1>7, <3>1, <3>2
  <2>2. loading'.kind = "full"
    BY <2>1
  <2>3. QED
    BY <2>2 DEF Limited, NotLoading
<1>8. CASE ReplaceCurrentSearch
  <2>1. index' = index /\ loading' = loading /\ (limit' = limit \/ limit' = Len(index))
    BY <1>8 DEF ReplaceCurrentSearch, ClearSearchLimits, worldVars
  <2>2. QED
    BY <1>1, <1>2, <1>3, <1>4, <2>1
<1>9. CASE \/ StartNewSearch \/ SetSearchPattern \/ SearchTextChange \/ StopSearch
           \/ SearchRefreshChange \/ MarkLine \/ StartPosted \/ LeaveProcessEvents
  <2>1. limit' = limit /\ index' = index /\ loading' = loading
    BY <1>9 DEF StartNewSearch, SetSearchPattern, SearchTextChange, StopSearch, SearchRefreshChange,
       MarkLine, StartPosted, LeaveProcessEvents, crawlerVars, worldVars
  <2>2. QED
    BY <1>1, <1>4, <2>1
<1>10. CASE HandleSearchProgressedThrottled \/ UpdateFilteredView \/ HandleSearchProgressed
  <2>1. limit' = limit /\ index' = index /\ loading' = loading
    BY <1>10 DEF HandleSearchProgressedThrottled, UpdateFilteredView, ShowProgress,
       HandleSearchProgressed, crawlerVars, worldVars
  <2>2. QED
    BY <1>1, <1>4, <2>1
<1>11. CASE WorkerStep
  <2>1. limit' = limit /\ loading' = loading
    BY <1>11 DEF WorkerStep, crawlerVars
  <2>2. index' = index
    BY <1>11 DEF WorkerStep, SearchStep, BeginFull, BeginUpdate, ReadChunk, TakeBlock, JoinBlock,
       DropBlocks, FinishSearch
  <2>3. QED
    BY <1>1, <1>4, <2>1, <2>2
<1>12. QED
  BY <1>4, <1>5, <1>6, <1>7, <1>8, <1>9, <1>10, <1>11 DEF Next, UserAction, Handler, Loads

LEMMA ElsewhereFollowed ==
    ASSUME BookInv, Promised, Followed, op' = op,
           Bystanders \/ Clearing \/ LoadingFinished \/ HandleSearchProgressedThrottled
              \/ UpdateFilteredView \/ HandleSearchProgressed
    PROVE Promised' /\ Followed'
<1>1. SUFFICES ASSUME following', ~ Coming' PROVE Promised' /\ Followed'
  BY DEF Promised, Followed
<1>2. /\ interrupted' = interrupted /\ index' = index /\ loading' = loading /\ listOf' = listOf
      /\ ~ Coming /\ following
  BY <1>1, StaysCalm
<1>3. /\ holes' = holes /\ (tainted => tainted')
      /\ data' = data \/ data' = TakeCurrentResults(data)
      /\ listOf' = 0 \/ (listOf' = listOf /\ regexp' = regexp)
  BY Aloof
<1>4. /\ data'.of = data.of /\ data'.processed = data.processed /\ data'.matches = data.matches
      /\ Ref' = Ref
  BY <1>2, <1>3, Numbers DEF TakeCurrentResults, Results, Ref
<1>5. Promised'
  BY <1>1, <1>2, <1>3, <1>4 DEF Promised
<1>6. Followed'
  <2>1. SUFFICES ASSUME Feeding'
                 PROVE /\ op.pc = "searching" => Thorough'
                       /\ Idle /\ ~ holes => Complete'
    BY <1>3 DEF Followed, Idle
  <2>2. Feeding /\ regexp' = regexp
    BY <1>2, <1>3, <1>4, <2>1 DEF Feeding
  <2>3. /\ \A l : Exact(l)' <=> Exact(l)
        /\ \A l : Pending(l)' <=> Pending(l)
    BY <1>4, <2>2 DEF Exact, Pending, Width
  <2>4. ASSUME op.pc = "searching" PROVE Thorough'
    <3>1. Thorough
      BY <1>2, <2>2, <2>4 DEF Followed
    <3>2. QED
      BY <1>2, <1>3, <1>4, <2>3, <3>1 DEF Thorough
  <2>5. ASSUME Idle, ~ holes PROVE Complete'
    <3>1. Complete
      BY <1>2, <2>2, <2>5 DEF Followed
    <3>2. QED
      BY <1>4, <2>3, <3>1 DEF Complete
  <2>6. QED
    BY <2>4, <2>5
<1>7. QED
  BY <1>5, <1>6

\* An update is asked for up to the end of the log.
LEMMA UpdatedFollowed ==
    ASSUME BookInv, Kept, LoadingFinished, op' # op
    PROVE Promised' /\ Followed'
<1>1. /\ Request("update", regexp, Len(index), processed, listOf)
      /\ UNCHANGED <<data, listOf, tainted>>
      /\ index' = index /\ loading' = loading
  BY UpdatedIs, LoadingFinishedLeaves DEF LoadingFinished, worldVars
<1>2. op'.pc = "requested" /\ op'.end = Len(index) /\ interrupted' = FALSE
  BY <1>1, RequestedIs
<1>3. Followed'
  BY <1>2 DEF Followed, Idle
<1>4. Len(index) \in Nat
  BY RefIs DEF BookInv, TruthInv, AddUpInv
<1>5. ASSUME ~ tainted', data'.of = listOf', ~ Coming', listOf # 0
      PROVE data'.processed <= op'.end
  <2>1. data.processed <= Len(Ref)
    BY <1>1, <1>5 DEF Kept, Feeding
  <2>2. loading = NotLoading
    BY <1>1, <1>5 DEF Coming
  <2>3. Ref = index
    BY <2>2 DEF Ref, NotLoading
  <2>4. QED
    BY <1>1, <1>2, <2>1, <2>3
<1>6. listOf # 0
  BY UpdatedIs
<1>7. Promised'
  <2>1. op'.end <= Len(index')
    BY <1>1, <1>2, <1>4
  <2>2. QED
    BY <1>2, <1>5, <1>6, <2>1 DEF Promised
<1>8. QED
  BY <1>3, <1>7

LEMMA StartingFollowed ==
    ASSUME BookInv, Limited, Starting
    PROVE Promised' /\ Followed'
<1>1. Followed'
  BY StartingKept DEF Followed
<1>2. CASE ShowCached(text)
  <2>1. op' = op /\ op.search < listOf'
    BY <1>2, StartingAddsUp DEF ShowCached, BookInv, TruthInv
  <2>2. op.search \in Nat /\ listOf' \in Nat
    <3>1. searches \in Nat /\ op.search \in Nat
      BY NumbersAre DEF BookInv, TruthInv, AddUpInv
    <3>2. QED
      BY <3>1, StartingDoes
  <2>3. op'.search # listOf'
    BY <2>1, <2>2
  <2>4. QED
    BY <1>1, <2>3 DEF Promised
<1>3. CASE Request("full", text, limit, 0, listOf') /\ signals' = signals
  <2>1. op'.kind = "full" /\ op'.end = limit /\ interrupted' = FALSE
    BY <1>3, RequestedIs
  <2>2. index' = index /\ loading' = loading
    BY StartingDoes
  <2>3. Coming' \/ limit <= Len(index')
    BY <1>3, <2>2 DEF Limited, Coming
  <2>4. QED
    BY <1>1, <2>1, <2>3 DEF Promised
<1>4. QED
  BY <1>2, <1>3, StartingAddsUp DEF BookInv, TruthInv

\* The steps of the worker leave all that could be coming.
Working ==
    /\ UNCHANGED <<loading, listOf, processed, tainted, regexp, following, frames>>
    /\ Coming => Coming'

LEMMA WorkerIsWorking ==
    ASSUME BookInv, WorkerStep
    PROVE SearchStep /\ Working
<1>1. /\ SearchStep
      /\ UNCHANGED <<loading, listOf, processed, tainted, regexp, following, frames, leaving>>
  BY DEF WorkerStep, dataVars, crawlerVars, frameVars
<1>2. HasLoaded(signals) => HasLoaded(signals')
  <2>1. CASE JoinBlock
    <3>1. \E s : signals' = signals \/ signals' = Append(signals, s)
      BY <2>1 DEF JoinBlock
    <3>2. signals \in Seq(Signals)
      BY NumbersAre DEF BookInv, TruthInv, AddUpInv
    <3>3. QED
      BY <3>1, <3>2, LoadedPosted
  <2>2. CASE FinishSearch
    <3>1. signals' = Append(signals, Progress(op.count, 100))
      BY <2>2 DEF FinishSearch
    <3>2. signals \in Seq(Signals)
      BY NumbersAre DEF BookInv, TruthInv, AddUpInv
    <3>3. QED
      BY <3>1, <3>2, LoadedPosted
  <2>3. CASE ~ JoinBlock /\ ~ FinishSearch
    BY <1>1, <2>3 DEF SearchStep, BeginFull, BeginUpdate, ReadChunk, TakeBlock, DropBlocks
  <2>4. QED
    BY <2>1, <2>2, <2>3
<1>3. QED
  BY <1>1, <1>2 DEF Working, Coming

LEMMA BeginFullFollowed ==
    ASSUME BookInv, Promised, BeginFull, Working
    PROVE following' /\ Feeding' => Coming' \/ Thorough'
<1>1. /\ op.pc = "requested" /\ op.kind = "full" /\ index' = index /\ interrupted' = interrupted
      /\ data'.of = op.search /\ data'.processed = 0
      /\ op'.next = 0 /\ op'.last = Least(Len(index), op.end) /\ op'.blocks = op.blocks
      /\ op'.end = op.end
  BY Numbers DEF BeginFull, Started, ClearedResults, Operations
<1>2. SUFFICES ASSUME following', Feeding', ~ Coming' PROVE Thorough'
  OBVIOUS
<1>3. following /\ ~ tainted /\ op.search = listOf /\ ~ Coming
  BY <1>1, <1>2 DEF Working, Feeding
<1>4. ~ interrupted /\ op.end <= Len(index)
  BY <1>1, <1>3 DEF Promised
<1>5. op'.blocks = {}
  BY <1>1 DEF BookInv, TruthInv, AddUpInv, Typed, WorkerInv, Blocked
<1>6. op'.last = op'.end /\ data'.processed <= op'.last
  <2>1. Len(index) \in Nat
    BY RefIs DEF BookInv, TruthInv, AddUpInv
  <2>2. QED
    BY <1>1, <1>4, <2>1, Numbers DEF Least
<1>7. 0..(data'.processed - 1) = {}
  BY <1>1
<1>8. QED
  BY <1>1, <1>4, <1>5, <1>6, <1>7 DEF Thorough

LEMMA BeginUpdateFollowed ==
    ASSUME BookInv, Sourced, Kept, Promised, BeginUpdate, Working
    PROVE following' /\ Feeding' => Coming' \/ Thorough'
<1>1. /\ op.pc = "requested" /\ op.kind = "update" /\ index' = index
      /\ interrupted' = interrupted /\ data'.of = data.of /\ op'.end = op.end
      /\ op'.pc = "searching"
  BY Numbers DEF BeginUpdate, Started, Resumed, DeleteMatch, Results, Operations
<1>2. SUFFICES ASSUME following', Feeding', ~ Coming' PROVE Thorough'
  OBVIOUS
<1>3. following /\ Feeding /\ ~ Coming
  BY <1>1, <1>2 DEF Working, Feeding
<1>4. op.search = listOf
  BY <1>1, <1>3 DEF Feeding, BookInv, Agreed
<1>5. ~ interrupted /\ op.end <= Len(index) /\ data.processed <= op.end
  BY <1>1, <1>3, <1>4 DEF Promised, Feeding
<1>6. /\ Kept'
      /\ op'.blocks = {} /\ op'.last = Least(Len(index), op.end)
      /\ data'.processed = data.processed /\ op'.next = op'.from
      /\ data.processed = op'.from + 1 \/ (data.processed = 0 /\ op'.from = 0)
  BY <1>2, BeginUpdateKept DEF Working
<1>7. op'.last = op'.end /\ data'.processed <= op'.last
  <2>1. Len(index) \in Nat
    BY RefIs DEF BookInv, TruthInv, AddUpInv
  <2>2. QED
    BY <1>1, <1>5, <1>6, <2>1, Numbers DEF Least
<1>8. ASSUME ~ holes', NEW l \in 0..(data'.processed - 1), l < op'.next
      PROVE Exact(l)'
  <2>1. PICK p, from \in Nat : p = data'.processed /\ from = op'.from
    <3>1. data'.processed \in Nat
      BY <1>6, Numbers
    <3>2. op'.from \in Nat
      <4>1. PICK m \in Nat : m = Most(data.processed, op.position)
        BY Numbers DEF Most
      <4>2. op'.from = Resumed(m).initial
        BY <4>1, Numbers DEF BeginUpdate, Started, Operations
      <4>3. Resumed(m).initial \in Nat
        BY <4>1 DEF Resumed
      <4>4. QED
        BY <4>2, <4>3
    <3>3. QED
      BY <3>1, <3>2
  <2>2. l + 1 < data'.processed
    BY <1>6, <1>8, <2>1
  <2>3. Sure(l)' /\ ~ Pending(l)'
    BY <1>6, <2>2 DEF Sure, Pending
  <2>4. QED
    BY <1>2, <1>6, <1>8, <2>3 DEF Kept
<1>9. QED
  BY <1>1, <1>5, <1>6, <1>7, <1>8 DEF Thorough

LEMMA ReadChunkFollowed ==
    ASSUME BookInv, Followed, ReadChunk, Working
    PROVE following' /\ Feeding' => Coming' \/ Thorough'
<1>1. PICK b \in Found :
        /\ op' = [op EXCEPT !.next = op.next + ChunkLines, !.blocks = op.blocks \cup {b}]
        /\ UNCHANGED <<index, data, interrupted, signals, holes>>
        /\ b.start = op.next /\ b.start < op.last /\ ~ interrupted
        /\ b.lines = <<>> \/ (index # <<>> /\ Len(b.lines) = Least(ChunkLines, op.last - op.next))
        /\ \A i \in 1..Len(b.lines) : b.lines[i] = Ref[b.start + i]
        /\ op.pc = "searching"
  BY ChunkRead
<1>2. /\ \A l : Pending(l) => Pending(l)'
      /\ \A l \in Nat : op.next <= l /\ l < op'.next /\ l < op.last => Pending(l)'
      /\ op'.next = op.next + ChunkLines /\ op'.blocks = op.blocks \cup {b}
      /\ op'.last = op.last /\ op'.end = op.end
  BY <1>1, ChunkPending
<1>3. SUFFICES ASSUME following', Feeding', ~ Coming' PROVE Thorough'
  OBVIOUS
<1>4. following /\ Feeding /\ ~ Coming
  BY <1>1, <1>3 DEF Working, Feeding
<1>5. Thorough
  BY <1>1, <1>4 DEF Followed
<1>6. Ref' = Ref /\ regexp' = regexp
  BY <1>1 DEF Working, Ref
<1>7. \A a \in op'.blocks : \A i \in 1..Len(a.lines) : a.lines[i] = Ref[a.start + i]
  BY <1>1, <1>2, <1>5 DEF Thorough
<1>8. ASSUME ~ holes, NEW l \in 0..(data.processed - 1), l < op'.next, ~ Pending(l)'
      PROVE Exact(l)'
  <2>1. PICK p, last, next \in Nat : p = data.processed /\ last = op.last /\ next = op.next
    BY Numbers
  <2>2. l \in Nat /\ l < last
    BY <1>5, <1>8, <2>1 DEF Thorough
  <2>3. l < next /\ ~ Pending(l)
    BY <1>2, <1>8, <2>1, <2>2
  <2>4. Exact(l)
    BY <1>5, <1>8, <2>1, <2>3 DEF Thorough
  <2>5. QED
    BY <1>1, <1>6, <2>4 DEF Exact
<1>9. QED
  BY <1>1, <1>2, <1>5, <1>6, <1>7, <1>8 DEF Thorough

LEMMA TakeBlockFollowed ==
    ASSUME BookInv, Followed, TakeBlock, Working
    PROVE following' /\ Feeding' => Coming' \/ Thorough'
<1>1. /\ UNCHANGED <<index, data, interrupted, holes>> /\ op.pc = "searching"
      /\ op'.blocks = op.blocks /\ op'.last = op.last /\ op'.end = op.end
      /\ op'.next = op.next
  BY Numbers DEF TakeBlock, Operations
<1>2. Ref' = Ref /\ regexp' = regexp
  BY <1>1 DEF Working, Ref
<1>3. SUFFICES ASSUME following', Feeding', ~ Coming' PROVE Thorough'
  OBVIOUS
<1>4. following /\ Feeding /\ ~ Coming
  BY <1>1, <1>3 DEF Working, Feeding
<1>5. Thorough
  BY <1>1, <1>4 DEF Followed
<1>6. QED
  BY <1>1, <1>2, <1>5 DEF Thorough, Pending, Width, Exact

LEMMA JoinBlockFollowed ==
    ASSUME BookInv, Sourced, Followed, JoinBlock, Working
    PROVE following' /\ Feeding' => Coming' \/ Thorough'
<1>1. PICK b \in op.joining, found \in SUBSET Lines, done, count, told \in 0..MaxLines,
           percent \in 0..100 : Joins(b, found, done, count, told, percent)
  BY Joined DEF BookInv, TruthInv, AddUpInv, Typed
<1>2. PICK s, k \in Nat : s = b.start /\ k = Len(b.lines)
  BY <1>1, JoinedLines
<1>3. /\ b \in op.blocks /\ (b.lines # <<>> => k >= 1)
      /\ op.pc = "searching" /\ op'.blocks = op.blocks \ {b}
      /\ op'.last = op.last /\ op'.next = op.next /\ op'.end = op.end
      /\ data'.of = data.of
      /\ holes' = (holes \/ b.lines = <<>>) /\ index' = index /\ interrupted' = interrupted
      /\ (b.lines = <<>> => data' = data)
      /\ b.lines # <<>> =>
            /\ data'.processed = Most(data.processed, s + k)
            /\ data'.matches = data.matches \cup found
      /\ s < op.last /\ s + k <= op.last /\ s + k <= op.next
      /\ \A l \in Nat : l \in found <=> /\ s <= l /\ l < s + k
                                       /\ b.lines[l - s + 1] \in Hits[op.regexp]
      /\ \A l \in Nat : s <= l /\ l < s + k => l \notin data.matches
      /\ \A a : Width(a)' = Width(a)
  BY ZenonT(60), <1>1, <1>2, JoinedLines
<1>4. SUFFICES ASSUME following', Feeding', ~ Coming' PROVE Thorough'
  OBVIOUS
<1>5. following /\ Feeding /\ ~ Coming
  BY <1>3, <1>4 DEF Working, Feeding
<1>6. Thorough
  BY <1>3, <1>5 DEF Followed
<1>7. Ref' = Ref /\ regexp' = regexp /\ op.regexp = regexp
  BY <1>3, <1>5 DEF Working, Ref, Feeding, BookInv, Agreed
<1>8. PICK p, last, from, next \in Nat :
         p = data.processed /\ last = op.last /\ from = op.from /\ next = op.next
  BY SMTT(30), Numbers
<1>9. /\ p <= last /\ (from = 0 \/ from < p) /\ (b.lines = <<>> \/ k = Width(b))
      /\ \A i \in 1..k : b.lines[i] = Ref[s + i]
      /\ ~ holes => \A l \in from..(Least(next, last) - 1) : l < p \/ Pending(l)
      /\ ~ holes => \A l \in 0..(p - 1) : l < next /\ ~ Pending(l) => Exact(l)
  BY <1>2, <1>3, <1>5, <1>6, <1>8 DEF Sourced, Thorough
<1>10. PICK q \in Nat : /\ q = data'.processed /\ q <= last
                        /\ q = p \/ q = s + k
  <2>1. CASE b.lines = <<>>
    BY <1>3, <1>8, <1>9, <2>1
  <2>2. CASE b.lines # <<>>
    <3>1. data'.processed = Most(p, s + k)
      BY <1>3, <1>8, <2>2
    <3>2. PICK q \in Nat : q = Most(p, s + k) /\ q \in {p, s + k}
      BY DEF Most
    <3>3. QED
      BY <1>3, <1>8, <1>9, <3>1, <3>2
  <2>3. QED
    BY <2>1, <2>2
<1>11. \A l : Pending(l) => Pending(l)' \/ (s <= l /\ l < s + Width(b))
  BY <1>2, <1>3 DEF Pending
<1>12. \A a \in op'.blocks : \A i \in 1..Len(a.lines) : a.lines[i] = Ref[a.start + i]
  BY <1>3, <1>6 DEF Thorough
<1>13. ASSUME ~ holes', NEW l \in 0..(q - 1), l < next, ~ Pending(l)'
       PROVE Exact(l)'
  <2>1. ~ holes /\ b.lines # <<>> /\ k = Width(b)
    BY <1>3, <1>9, <1>13
  <2>2. data'.matches = data.matches \cup found /\ l \in Nat
    BY <1>3, <2>1
  <2>3. CASE s <= l /\ l < s + k
    <3>1. l - s + 1 \in 1..k /\ s + (l - s + 1) = l + 1
      BY <2>2, <2>3
    <3>2. b.lines[l - s + 1] = Ref[l + 1]
      BY <1>9, <3>1
    <3>3. l \in data'.matches <=> Ref[l + 1] \in Hits[regexp]
      BY <1>3, <1>7, <2>2, <2>3, <3>2
    <3>4. QED
      BY <1>7, <3>3 DEF Exact
  <2>4. CASE ~(s <= l /\ l < s + k)
    <3>1. ~ Pending(l) /\ l \notin found
      BY <1>3, <1>11, <1>13, <2>1, <2>2, <2>4
    <3>2. l < p
      <4>1. SUFFICES ASSUME p <= l PROVE FALSE
        BY <1>8, <2>2
      <4>2. from <= l /\ l < next /\ l < last
        BY SMTT(30), <1>8, <1>9, <1>10, <1>13, <4>1
      <4>3. l \in from..(Least(next, last) - 1)
        BY <2>2, <4>2 DEF Least
      <4>4. l < p
        BY <1>9, <2>1, <3>1, <4>3
      <4>5. QED
        BY <1>8, <2>2, <4>1, <4>4
    <3>3. Exact(l)
      BY <1>9, <1>13, <2>1, <2>2, <3>1, <3>2
    <3>4. l \in data'.matches <=> l \in data.matches
      BY <2>2, <3>1
    <3>5. QED
      BY <1>7, <3>3, <3>4 DEF Exact
  <2>5. QED
    BY <2>3, <2>4
<1>14. QED
  <2>1. ~ interrupted' /\ op'.last = op'.end
    BY <1>3, <1>6 DEF Thorough
  <2>2. data'.processed <= op'.last
    BY <1>3, <1>8, <1>10
  <2>3. ~ holes' => \A l \in 0..(data'.processed - 1) : l < op'.next /\ ~ Pending(l)' => Exact(l)'
    BY <1>3, <1>8, <1>10, <1>13
  <2>4. QED
    BY <1>7, <1>12, <2>1, <2>2, <2>3 DEF Thorough

LEMMA DropBlocksFollowed ==
    ASSUME BookInv, Followed, DropBlocks, Working
    PROVE following' /\ Feeding' => Coming' \/ Thorough'
<1>1. op.pc = "searching" /\ interrupted /\ data' = data
  BY DEF DropBlocks
<1>2. SUFFICES ASSUME following', Feeding', ~ Coming' PROVE FALSE
  OBVIOUS
<1>3. following /\ Feeding /\ ~ Coming
  BY <1>1, <1>2 DEF Working, Feeding
<1>4. QED
  BY <1>1, <1>3 DEF Followed, Thorough

\* A search that nobody interrupted has found all that there is.
LEMMA FinishSearchFollowed ==
    ASSUME BookInv, Sourced, Followed, FinishSearch, Working, ~ holes'
    PROVE following' /\ Feeding' => Coming' \/ Complete'
<1>1. /\ UNCHANGED <<index, data, interrupted, holes>> /\ op.blocks = {} /\ op'.end = op.end
      /\ op.pc = "searching" /\ ~ Reading
  BY DEF FinishSearch, IdleOp
<1>2. SUFFICES ASSUME following', Feeding', ~ Coming' PROVE Complete'
  OBVIOUS
<1>3. following /\ Feeding /\ ~ Coming
  BY <1>1, <1>2 DEF Working, Feeding
<1>4. Thorough
  BY <1>1, <1>3 DEF Followed
<1>5. Ref' = Ref /\ regexp' = regexp
  BY <1>1 DEF Working, Ref
<1>6. PICK p, last, from, next \in Nat :
         p = data.processed /\ last = op.last /\ from = op.from /\ next = op.next
  BY Numbers
<1>7. last <= next
  BY <1>1, <1>4, <1>6 DEF Reading, Thorough
<1>8. \A l : ~ Pending(l)
  BY <1>1 DEF Pending
<1>9. p = last
  <2>1. p <= last /\ (from = 0 \/ from < p)
    BY <1>1, <1>3, <1>4, <1>6 DEF Thorough, Sourced
  <2>2. \A l \in from..(last - 1) : l < p
    <3>1. Least(next, last) = last
      BY <1>6, <1>7 DEF Least
    <3>2. QED
      BY <1>1, <1>3, <1>4, <1>6, <1>8, <3>1 DEF Sourced, Thorough
  <2>3. CASE last = 0
    BY <2>1, <2>3
  <2>4. CASE last > 0 /\ from <= last - 1
    <3>1. last - 1 \in from..(last - 1)
      BY <1>6, <2>4
    <3>2. last - 1 < p
      BY <2>2, <3>1
    <3>3. QED
      BY <1>6, <2>1, <3>2
  <2>5. QED
    BY <1>6, <2>1, <2>3, <2>4
<1>10. \A l \in 0..(p - 1) : Exact(l)
  BY <1>1, <1>4, <1>6, <1>7, <1>8, <1>9 DEF Thorough
<1>11. \A l : Exact(l)' <=> Exact(l)
  BY <1>1, <1>5 DEF Exact
<1>12. QED
  BY <1>1, <1>4, <1>6, <1>9, <1>10, <1>11 DEF Complete, Thorough

LEMMA WorkerFollowed ==
    ASSUME BookInv, Sourced, Kept, Promised, Followed, WorkerStep
    PROVE Promised' /\ Followed'
<1>1. SearchStep /\ Working
  BY WorkerIsWorking
<1>2. CASE FinishSearch
  <2>1. op'.pc = "idle"
    BY <1>2 DEF FinishSearch, IdleOp
  <2>2. QED
    BY <1>1, <1>2, <2>1, FinishSearchFollowed DEF Promised, Followed, Idle
<1>3. CASE ~ FinishSearch
  <2>1. op'.pc = "searching"
    <3>1. op'.pc = "searching" \/ JoinBlock
      BY <1>1, <1>3, Numbers DEF SearchStep, BeginFull, BeginUpdate, ReadChunk, TakeBlock,
         DropBlocks, Started, Operations, Reading
    <3>2. CASE JoinBlock
      <4>1. PICK b \in op.joining, found \in SUBSET Lines, done, count, told \in 0..MaxLines,
                 percent \in 0..100 : Joins(b, found, done, count, told, percent)
        BY <3>2, Joined DEF BookInv, TruthInv, AddUpInv, Typed
      <4>2. QED
        BY <4>1, JoinedLines
    <3>3. QED
      BY <3>1, <3>2
  <2>2. following' /\ Feeding' => Coming' \/ Thorough'
    BY <1>1, <1>3, BeginFullFollowed, BeginUpdateFollowed, ReadChunkFollowed, TakeBlockFollowed,
       JoinBlockFollowed, DropBlocksFollowed DEF SearchStep
  <2>3. QED
    BY <2>1, <2>2 DEF Promised, Followed, Idle
<1>4. QED
  BY <1>2, <1>3

LEMMA FollowStep == FollowInv /\ [Next]_vars => FollowInv'
<1> SUFFICES ASSUME FollowInv, [Next]_vars PROVE FollowInv'
  OBVIOUS
<1>1. ExactInv' /\ ExactInv /\ BookInv
  BY ExactStep DEF FollowInv, ExactInv
<1>2. CASE UNCHANGED vars
  <2>1. UNCHANGED <<data, op, interrupted, holes, index, loading, listOf, tainted, regexp,
                    signals, frames, limit, following>>
    BY <1>2 DEF vars, workerVars, dataVars, worldVars, crawlerVars, frameVars
  <2>2. Ref' = Ref
    BY <2>1 DEF Ref
  <2>3. Limited' /\ Promised' /\ (Coming' <=> Coming)
    BY <2>1 DEF FollowInv, Limited, Promised, Coming
  <2>4. /\ (Thorough' <=> Thorough) /\ (Complete' <=> Complete)
    BY <2>1, <2>2 DEF Thorough, Complete, Pending, Width, Exact
  <2>5. Followed'
    BY <2>1, <2>3, <2>4 DEF FollowInv, Followed, Feeding, Idle
  <2>6. QED
    BY <1>1, <2>3, <2>5 DEF FollowInv
<1>3. CASE Next
  <2>1. Limited'
    BY <1>1, <1>3, LimitedStep DEF FollowInv
  <2>2. CASE Starting
    BY <1>1, <2>1, <2>2, StartingFollowed DEF FollowInv
  <2>3. CASE WorkerStep
    BY <1>1, <2>1, <2>3, WorkerFollowed DEF FollowInv, ExactInv
  <2>4. CASE Bystanders \/ Clearing \/ LoadingFinished \/ HandleSearchProgressedThrottled
             \/ UpdateFilteredView \/ HandleSearchProgressed
    <3>1. op' = op \/ (LoadingFinished /\ op' # op)
      BY <1>1, <2>4, Aloof
    <3>2. Promised' /\ Followed'
      BY <1>1, <2>4, <3>1, ElsewhereFollowed, UpdatedFollowed DEF FollowInv, ExactInv
    <3>3. QED
      BY <1>1, <2>1, <3>2 DEF FollowInv
  <2>5. QED
    BY <1>3, <2>2, <2>3, <2>4, SixKinds
<1>4. QED
  BY <1>2, <1>3

\* SettledExact always: when all has come to rest, whatever the order of the steps was, the list
\* is what a search of the log would find, with its last line when auto-refresh was on.
THEOREM ExactWhenSettled == Spec => []SettledExact
<1>1. FollowInv => SettledExact
  <2> SUFFICES ASSUME FollowInv, Settled, ~ tainted, ~ holes, listOf # 0, Feeding \/ key # NoKey
               PROVE /\ matching \subseteq Covered
                     /\ \A l \in Covered :
                           \/ l \in matching <=> index[l + 1] \in Hits[regexp]
                           \/ l + 1 \notin Covered /\ ~(following /\ Feeding)
                     /\ following /\ Feeding => data.processed = op.end
    BY DEF SettledExact
  <2>1. ExactInv /\ BookInv /\ TruthInv /\ Typed
    BY DEF FollowInv, ExactInv, BookInv, TruthInv, AddUpInv
  <2>2. Idle /\ frames = <<>> /\ loading = NotLoading /\ Ref = index
    BY DEF Settled, Ref, NotLoading
  <2>3. Finals(signals) = {} /\ ~ HasLoaded(signals)
    <3>1. PICK q \in Seq(Signals) : q = signals /\ Len(q) = 0
      BY Nothing, <2>1, NumbersAre DEF Settled
    <3>2. QED
      BY <3>1 DEF Finals, HasLoaded
  <2>4. ~ Coming
    BY <2>2, <2>3 DEF Coming
  <2>5. CASE Feeding
    <3>1. matching = data.matches
      <4>1. data.new = {} /\ data.removed = {}
        BY <2>1, <2>2, <2>3 DEF TruthInv, Reported
      <4>2. QED
        BY <2>1, <2>5, <4>1 DEF TruthInv, AddUpInv, Sums, Feeding
    <3>2. Shows(data.matches, data.processed, regexp, index)
      <4>1. op.blocks = {}
        BY <2>1, <2>2 DEF Typed, WorkerInv, Blocked, Idle
      <4>2. QED
        BY <2>1, <2>2, <2>5, <4>1, KeptShows DEF ExactInv
    <3>3. Covered = 0..(data.processed - 1) /\ data.processed \in Nat
      BY <2>1, <2>5, Numbers DEF Covered
    <3>4. ASSUME following PROVE Complete
      BY <2>2, <2>4, <2>5, <3>4 DEF FollowInv, Followed
    <3>5. ASSUME NEW l \in Covered
          PROVE \/ l \in matching <=> index[l + 1] \in Hits[regexp]
                \/ l + 1 \notin Covered /\ ~(following /\ Feeding)
      <4>1. CASE following
        BY <2>2, <3>1, <3>3, <3>4, <3>5, <4>1 DEF Complete, Exact
      <4>2. CASE ~ following /\ l + 1 \in Covered
        <5>1. l \in 0..(data.processed - 2)
          BY <3>3, <3>5, <4>2
        <5>2. QED
          BY <3>1, <3>2, <5>1 DEF Shows
      <4>3. QED
        BY <4>1, <4>2
    <3>6. QED
      BY <3>1, <3>2, <3>3, <3>4, <3>5 DEF Shows, Complete
  <2>6. CASE ~ Feeding
    <3>1. FromCache
      BY <2>2, <2>6 DEF FromCache, Feeding, Idle
    <3>2. Shows(matching, key.end, regexp, index)
      BY <2>1, <2>2, <3>1 DEF ExactInv, Listed
    <3>3. Covered = 0..(key.end - 1) /\ key.end \in Nat
      BY <2>1, <2>6, KeysAre DEF Covered
    <3>4. ASSUME NEW l \in Covered, l + 1 \in Covered
          PROVE l \in matching <=> index[l + 1] \in Hits[regexp]
      <4>1. l \in 0..(key.end - 2)
        BY <3>3, <3>4
      <4>2. QED
        BY <3>2, <4>1 DEF Shows
    <3>5. QED
      BY <2>6, <3>2, <3>3, <3>4 DEF Shows
  <2>7. QED
    BY <2>5, <2>6
<1>2. Spec => []FollowInv
  BY FollowInit, FollowStep, PTL DEF Spec
<1>3. QED
  BY <1>1, <1>2, PTL

=============================================================================
