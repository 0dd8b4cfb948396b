----------------------------- MODULE FileHolder -----------------------------
(***************************************************************************)
(* The counted handle through which the displayed lines of a log are read  *)
(* (src/src/logdata/src/fileholder.cpp).  A holder follows a file name; it *)
(* holds the inode the name had when it was last opened.  With             *)
(* keepFileClosed the file is open only while it has readers.              *)
(*                                                                         *)
(* The module has no state of its own: each operator maps the holder       *)
(* before a call to the holder after it.                                   *)
(***************************************************************************)
EXTENDS Naturals

CONSTANT KeepFileClosed     \* Configuration::keepFileClosed()

ASSUME KeepFileClosedAssumption == KeepFileClosed \in BOOLEAN

Holders == [readers : Nat, open : BOOLEAN, inode : Nat]

\* FileHolder::FileHolder: nothing opened yet.
Unopened == [readers |-> 0, open |-> FALSE, inode |-> 0]

\* FileHolder::reOpenFile: a new handle replaces the old one.  (The file is
\* readable in this model: a missing log is an empty one.)
ReOpenFile(h, inode) == [h EXCEPT !.open = TRUE, !.inode = inode]

\* FileHolder::open
OpenHolder(h, inode) ==
    IF KeepFileClosed THEN h ELSE ReOpenFile([h EXCEPT !.readers = 1], inode)

\* FileHolder::attachReader
AttachReader(h, inode) ==
    LET opened == IF KeepFileClosed /\ h.readers = 0 THEN ReOpenFile(h, inode)
                                                     ELSE h
    IN  [opened EXCEPT !.readers = @ + 1]

\* Fault of DetachReader: the file is closed, the count kept.
DetachReader_Leaks(h) == [h EXCEPT !.open = IF KeepFileClosed THEN FALSE ELSE @]

\* FileHolder::detachReader
DetachReader(h) ==
    LET left == [h EXCEPT !.readers = IF @ > 0 THEN @ - 1 ELSE 0]
    IN  IF KeepFileClosed /\ left.readers = 0 THEN [left EXCEPT !.open = FALSE]
                                              ELSE left
=============================================================================
