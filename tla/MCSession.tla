----------------------------- MODULE MCSession ------------------------------
(* Instances of Session for TLC. *)
EXTENDS Session, TLC

\* Neither windows nor files are told apart.
Symmetry == Permutations(Windows) \cup Permutations(Files)
=============================================================================
