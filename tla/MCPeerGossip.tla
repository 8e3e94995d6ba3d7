---------------------------- MODULE MCPeerGossip ----------------------------
(* The instance of PeerGossip for TLC.                                     *)
EXTENDS PeerGossip

(* A failed send and three rounds; broadcasts that overtake each other and *)
(* votes from third parties.                                               *)
MCScopes ==
  {[voted |-> {0, 2}, round |-> 2, first |-> 2, fails |-> 1, strays |-> 0, own |-> 0, waiting |-> 1],
   [voted |-> {1}, round |-> 1, first |-> 0, fails |-> 0, strays |-> 0, own |-> 1, waiting |-> 2]}
=============================================================================
