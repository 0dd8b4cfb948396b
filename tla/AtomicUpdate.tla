---------------------------- MODULE AtomicUpdate ----------------------------
(***************************************************************************)
(* What an update of an installation promises: it may change the tree in   *)
(* any way while it is under way, but once it is settled the tree is       *)
(* entirely the new one or entirely the old one, and stays so.             *)
(***************************************************************************)
CONSTANTS Old, New,     \* the old and the new tree
          Trees,        \* every tree there can be
          None          \* not settled

VARIABLES tree, settled

Init == tree = Old /\ settled = None

\* The update is under way, or is being undone.
Work ==
    /\ settled = None
    /\ tree' \in Trees
    /\ UNCHANGED settled

Commit ==
    /\ settled = None /\ tree = New
    /\ settled' = "updated"
    /\ UNCHANGED tree

Abort ==
    /\ settled = None /\ tree = Old
    /\ settled' = "restored"
    /\ UNCHANGED tree

Next == Work \/ Commit \/ Abort

Spec == Init /\ [][Next]_<<tree, settled>>
=============================================================================
