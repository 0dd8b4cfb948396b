------------------------------ MODULE LineIndex -----------------------------
(* From the bytes of a log to the ends of its lines: IndexOperation::doIndex *)
(* with its blocks, parseDataBlock, LinePosition and the line feed that is   *)
(* pretended at the end of a file that has none (logdataworker.cpp,          *)
(* linepositionarray.h).  LogData has what runs when; here is what one index *)
(* after the other makes of a file that grows between them.                  *)
(*                                                                           *)
(* A byte is a line feed or not: a code unit of one byte.  Blocks are parsed *)
(* one after the other in the order they were read (a serial node).          *)
EXTENDS LineStorage, SequencesExt, FiniteSetsExt

CONSTANT LF

\* IndexingData: linePosition_ with fakeFinalLF_, and hash_.size
NewIndex == [storage |-> NewStorage, fake |-> FALSE, size |-> 0]

\* IndexingData::clear: the new positions are moved into the old ones.
Cleared(index) == [NewIndex EXCEPT !.storage = Assigned(index.storage, NewStorage)]

\* LinePosition::append_list
WithList(index, positions, fake) ==
    [index EXCEPT
        !.storage = FoldLeft(Pushed, IF index.fake THEN Popped(@) ELSE @, positions),
        !.fake = fake]

\* parseDataBlock: what is before pos was parsed with an earlier block.
Parsed(beginning, block, pos) ==
    SetToSortSeq({beginning + j : j \in {i \in DOMAIN block :
                                            block[i] = LF /\ beginning + i > pos}}, <)

\* readFileInBlocks
BlocksFrom(file, from, chunk) ==
    [k \in 1..((Len(file) - from + chunk - 1) \div chunk) |->
        SubSeq(file, from + (k - 1) * chunk + 1, Min({from + k * chunk, Len(file)}))]

\* indexNextBlock; addAll counts the bytes.
WithBlock(state, block) ==
    LET ends == Parsed(state.index.size, block, state.pos) IN
    [index |-> [WithList(state.index, ends, FALSE) EXCEPT !.size = @ + Len(block)],
     pos |-> IF ends = <<>> THEN state.pos ELSE Last(ends)]

\* doIndex from byte `from` on: openSize is the size the file had when it was opened,
\* file what is read of it until its end.
DoIndex(index, from, file, openSize, chunk) ==
    LET read == FoldLeft(WithBlock, [index |-> index, pos |-> from],
                         BlocksFrom(file, from, chunk))
    IN IF openSize > read.pos THEN WithList(read.index, <<openSize + 1>>, TRUE)
       ELSE read.index

\* FullIndexOperation::run
FullIndex(index, file, openSize, chunk) == DoIndex(Cleared(index), 0, file, openSize, chunk)

\* PartialIndexOperation::run starts in the middle of the line it stopped in.
PartialIndex(index, file, openSize, chunk) ==
    DoIndex(index, index.size, file, openSize, chunk)

\* CompressedLinePositionStorage::range
RangeOf(s, first, count) ==
    LET last == first + count - 1
        firstBlock == first \div BlockSize
        lastBlock == last \div BlockSize
        part(cells, k) ==
            SubSeq(cells, (IF k = firstBlock THEN first % BlockSize ELSE 0) + 1,
                   IF k = lastBlock THEN (last % BlockSize) + 1 ELSE Len(cells))
        unpacked(k) == [i \in 1..BlockSize |->
                          s.blocks[k + 1].first + Unpacked(s, s.blocks[k + 1])[i]]
    IN IF firstBlock = Len(s.blocks) THEN part(s.current, firstBlock)
       ELSE FlattenSeq([k \in 1..(Min({lastBlock, Len(s.blocks) - 1}) - firstBlock + 1) |->
                           part(unpacked(firstBlock + k - 1), firstBlock + k - 1)])
            \o (IF lastBlock = Len(s.blocks) THEN part(s.current, lastBlock) ELSE <<>>)

-----------------------------------------------------------------------------
(* What the index should be *)

LineFeeds(file) == SetToSortSeq({i \in DOMAIN file : file[i] = LF}, <)

\* One end for each line feed, just after it, and one past the end of the file for a
\* last line without one.
EndsOf(file) ==
    LineFeeds(file) \o (IF file # <<>> /\ Last(file) # LF THEN <<Len(file) + 1>> ELSE <<>>)

\* The first index sees the first part of the file, each of the others what was
\* appended since; chunk bytes are read at a time, and old is what an earlier file
\* left behind.
Following(old, file, sizes, chunk) ==
    FoldLeft(LAMBDA index, n : PartialIndex(index, SubSeq(file, 1, n), n, chunk),
             FullIndex(old, SubSeq(file, 1, Head(sizes)), Head(sizes), chunk), Tail(sizes))

\* However the file was read and however it grew, its lines are those of the whole
\* file, in either storage.
Exact(index, file) ==
    /\ WellFormed(index.storage)
    /\ Positions(index.storage) = EndsOf(file)
    /\ \A first \in 0..(index.storage.nbLines - 1) :
       \A count \in 1..(index.storage.nbLines - first) :
          RangeOf(index.storage, first, count) = SubSeq(EndsOf(file), first + 1, first + count)

\* A file that grows while it is indexed: its lines with a line feed are there, the last
\* one without may be missing or cut (Exact does not hold) until the file grows again.
CompleteLines(index, file) ==
    LET ends == Positions(index.storage) IN
    (IF index.fake THEN SubSeq(ends, 1, Len(ends) - 1) ELSE ends) = LineFeeds(file)
=============================================================================
