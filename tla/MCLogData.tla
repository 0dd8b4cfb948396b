----------------------------- MODULE MCLogData ------------------------------
(* Instances of LogData for TLC, and the evaluation of LineIndex over small  *)
(* files, which LogData sees as blocks only.                                 *)
EXTENDS LogData, LineIndex

CONSTANT MaxBytes       \* bound on the length of the files for LineIndex

ByteFiles == UNION {[1..n -> {LF, "x"}] : n \in 0..MaxBytes}

\* The sizes at which a file that ends with n bytes was indexed.
Growths(n) ==
    {sizes \in UNION {[1..m -> 0..n] : m \in 1..3} :
        Last(sizes) = n /\ \A i \in 2..Len(sizes) : sizes[i - 1] <= sizes[i]}

Used == {FullIndex(NewIndex, file, Len(file), 2) : file \in ByteFiles}

\* Every way to read and to follow a file gives its lines.
ASSUME LinesOfEveryGrowth ==
    \A file \in ByteFiles, chunk \in 1..3 : \A sizes \in Growths(Len(file)) :
        Exact(Following(NewIndex, file, sizes, chunk), file)

\* What an earlier load left in the storage does not show.
ASSUME LinesAfterReload ==
    \A old \in Used, file \in ByteFiles :
        Len(file) <= 3 => Exact(Following(old, file, <<Len(file)>>, 2), file)

\* A file that grew from openSize on while it was read, and grows again.
ASSUME LinesOfAGrowingFile ==
    \A file \in ByteFiles, next \in {LF, "x"} : \A openSize \in 0..Len(file) :
        LET first == FullIndex(NewIndex, file, openSize, 2)
            more == Append(file, next)
        IN /\ CompleteLines(first, file)
           /\ Exact(PartialIndex(first, more, Len(more), 2), more)
=============================================================================
