-------------------------- MODULE MCHeightVoteSet --------------------------
(* HeightVoteSet on a committee of four.                                   *)
EXTENDS HeightVoteSet, TLC

\* Members, blocks and peers are interchangeable.
Symmetric == Permutations(Validators) \cup Permutations(Values) \cup Permutations(Peers)

\* The blocks somebody voted for.
VotedFor == {roundVoteSets[x[1]].votes[x[2]].block : x \in Voted}

\* Bound: while only the first round is tracked, votes and claims are those of
\* the constants.  Over several rounds, whose vote sets do not touch each
\* other, there are three votes, for one block, and no claims.
Bounded ==
    \/ tracked = {0}
    \/ Cardinality(Voted) <= 3 /\ Cardinality(VotedFor) <= 1 /\ Claimed = {}
============================================================================
