---------------------------- MODULE MCTbftVoting ----------------------------
(***************************************************************************)
(* A committee of four with one faulty member, over two rounds.            *)
(***************************************************************************)
EXTENDS TbftVoting, TLC

MCRounds == 0..1

\* The correct members are interchangeable, and so are the blocks.
Symmetric == Permutations(Correct) \cup Permutations(Blocks)
============================================================================
