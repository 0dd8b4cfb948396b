----------------------------- MODULE LineStorage ----------------------------
(* The ends of the lines of a log as they are kept in memory:                *)
(* CompressedLinePositionStorage (compressedlinestorage.cpp), which packs    *)
(* every BlockSize positions into one block, next to the plain vector of     *)
(* SimpleLinePositionStorage, for which it can be exchanged in the settings  *)
(* (LinePosition<Storage>, linepositionarray.h).                             *)
(*                                                                           *)
(* A packed block takes one cell of the packed storage, whatever its size in *)
(* bytes; what streamvbyte writes into a cell it reads from it again.  Line  *)
(* numbers start at 0, as in the code.                                       *)
EXTENDS Naturals, Sequences

CONSTANTS
    BlockSize,      \* SimdIndexBlockSize, 128 in the code
    Word            \* what a uint32_t can hold, 2^32

ASSUME StorageAssumption == BlockSize \in Nat \ {0} /\ Word \in Nat \ {0}

NewStorage ==
    [blocks |-> <<>>, packed |-> <<>>, used |-> 0, current |-> <<>>, shifted |-> <<>>,
     nbLines |-> 0, lastPos |-> 0]

\* The move assignment: packedLinesStorageUsedSize_ keeps its value, so the new blocks are
\* packed behind the room that the old ones took.
Assigned(s, orig) == [orig EXCEPT !.used = s.used]

\* vector::resize; a cell that nothing was written to holds zeros.
Zeros == [i \in 1..BlockSize |-> 0]
Resized(packed, n) ==
    [i \in 1..n |-> IF i \in DOMAIN packed THEN packed[i] ELSE Zeros]

\* compress_current_block
Compressed(s) ==
    [s EXCEPT !.blocks = Append(@, [first |-> s.current[1], offset |-> s.used]),
              !.packed = [Resized(@, s.used + 1) EXCEPT ![s.used + 1] = s.shifted],
              !.used = @ + 1,
              !.current = <<>>,
              !.shifted = <<>>]

\* append
Pushed(s, pos) ==
    LET current == Append(s.current, pos)
        added == [s EXCEPT !.current = current,
                           !.shifted = Append(@, (pos - current[1]) % Word)]
    IN [(IF Len(current) = BlockSize THEN Compressed(added) ELSE added)
            EXCEPT !.lastPos = pos, !.nbLines = @ + 1]

Unpacked(s, block) == s.packed[block.offset + 1]

\* at, for a line that is stored
At(s, line) ==
    LET inBlock == line % BlockSize IN
    IF line \div BlockSize = Len(s.blocks) THEN s.current[inBlock + 1]
    ELSE LET block == s.blocks[line \div BlockSize + 1]
         IN block.first + Unpacked(s, block)[inBlock + 1]

\* uncompress_last_block: the cell of the block stays in use.
Uncompressed(s) ==
    LET block == s.blocks[Len(s.blocks)] IN
    [s EXCEPT !.current = [i \in 1..BlockSize |-> Unpacked(s, block)[i] + block.first],
              !.shifted = Unpacked(s, block),
              !.blocks = SubSeq(@, 1, Len(@) - 1)]

\* pop_back
Popped(s) ==
    LET open == IF s.current = <<>> /\ s.blocks # <<>> THEN Uncompressed(s) ELSE s
        less == IF open.current = <<>> THEN open
                ELSE [open EXCEPT !.current = SubSeq(@, 1, Len(@) - 1),
                                  !.shifted = SubSeq(@, 1, Len(@) - 1)]
    IN IF s.nbLines = 0 THEN [less EXCEPT !.lastPos = 0]
       ELSE [less EXCEPT !.nbLines = @ - 1,
                         !.lastPos = IF s.nbLines = 1 THEN 0 ELSE At(less, s.nbLines - 2)]

-----------------------------------------------------------------------------
(* What the storage stands for *)

\* SimpleLinePositionStorage: the positions themselves.
Positions(s) == [i \in 1..s.nbLines |-> At(s, i - 1)]

\* A position that fits the block it is put into: at most Word away from its first.
Fits(s, pos) == s.current = <<>> \/ pos \in s.current[1]..(s.current[1] + Word - 1)

\* The state every sequence of operations leaves the storage in.
Storages ==
    [blocks : Seq([first : Nat, offset : Nat]), packed : Seq([1..BlockSize -> Nat]),
     used : Nat, current : Seq(Nat), shifted : Seq(Nat), nbLines : Nat, lastPos : Nat]

WellFormed(s) ==
    /\ s \in Storages
    /\ Len(s.current) < BlockSize
    /\ s.nbLines = BlockSize * Len(s.blocks) + Len(s.current)
    /\ Len(s.shifted) = Len(s.current)
    /\ \A i \in DOMAIN s.current : s.current[i] = s.current[1] + s.shifted[i]
    /\ \A k \in DOMAIN s.blocks :
          /\ s.blocks[k].offset < s.used /\ s.blocks[k].offset < Len(s.packed)
          /\ Unpacked(s, s.blocks[k])[1] = 0

=============================================================================
