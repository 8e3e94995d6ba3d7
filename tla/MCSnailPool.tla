----------------------------- MODULE MCSnailPool -----------------------------
(* The instance of SnailPool for TLC.                                      *)
EXTENDS SnailPool

(* A fork among three fast blocks, fruits of other miners with two.        *)
MCScopes == {[fast |-> 3, forks |-> 1, remote |-> 0], [fast |-> 2, forks |-> 1, remote |-> 1]}
==============================================================================
