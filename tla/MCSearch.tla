------------------------------ MODULE MCSearch ------------------------------
(* Instances of Search for TLC. *)
EXTENDS Search

\* Each pattern matches the lines of one content.
MCHits == [p \in Patterns |-> IF p = "error" THEN {"E"} ELSE {"W"}]

MCFirstLogs == {<<"E", "E", "W">>, <<"E", "E">>}
MCRewrites == {<<"W">>}
=============================================================================
