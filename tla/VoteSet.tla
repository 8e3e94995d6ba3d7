------------------------------ MODULE VoteSet ------------------------------
(***************************************************************************)
(* The votes of one type in one round: consensus/tbft/types/vote_set.go.   *)
(* Operators take a vote set to the one the source's method leaves.        *)
(*                                                                         *)
(* Every member has voting power 1 (MakeValidators in node.go).  A vote is *)
(* a block, or nil, with the Result of validating it.  Its signature has   *)
(* been verified; a vote that fails the checks of addVote changes nothing. *)
(***************************************************************************)
EXTENDS Integers, FiniteSets

CONSTANTS
    Validators, \* the committee, valSet
    Values,     \* what a vote can be for: the blocks and nil
    Peers       \* the senders of votes and claims

ASSUME ValidatorsAssumption == IsFiniteSet(Validators)

None == "none"  \* a nil pointer
Agree == "agree"
Against == "against"
Results == {Agree, Against}

ASSUME ValuesAssumption == None \notin Values

NoVote == [block |-> None, result |-> None]
Votes == [block : Values, result : Results]

quorum == (Cardinality(Validators) * 2) \div 3 + 1

\* An entry of votesByBlock; tracked says that it exists.
newBlockVotes(tracked, peerMaj23) ==
    [ tracked |-> tracked, peerMaj23 |-> peerMaj23,
      votes |-> [i \in Validators |-> None], sum |-> 0 ]

NewVoteSet ==
    [ votes |-> [i \in Validators |-> NoVote], sum |-> 0, maj23 |-> None,
      votesByBlock |-> [b \in Values |-> newBlockVotes(FALSE, FALSE)],
      peerMaj23s |-> [p \in Peers |-> None] ]

\* Mutant: votes against the block count too.
addAnyVote(bv, i, result) ==
    IF bv.votes[i] # None THEN bv
    ELSE [bv EXCEPT !.tracked = TRUE, !.votes[i] = result, !.sum = @ + 1]

\* Mutant: votes against the block are subtracted.
addNetVote(bv, i, result) ==
    IF bv.votes[i] # None THEN bv
    ELSE [bv EXCEPT !.tracked = TRUE, !.votes[i] = result,
                    !.sum = IF result = Agree THEN @ + 1 ELSE @ - 1]

\* blockVotes.addVerifiedVote: only votes that agree count.
addBlockVote(bv, i, result) ==
    IF bv.votes[i] # None THEN bv
    ELSE [bv EXCEPT !.tracked = TRUE, !.votes[i] = result,
                    !.sum = IF result = Agree THEN @ + 1 ELSE @]

\* getVote finds the vote of member i for b.
HasVote(vs, i, b) == vs.votes[i].block = b \/ vs.votesByBlock[b].votes[i] # None

\* The votes to share, once those for the majority's block are copied over.
copyVotes(vs, b) ==
    [i \in Validators |->
        IF vs.votesByBlock[b].votes[i] = None THEN vs.votes[i]
        ELSE [block |-> b, result |-> vs.votesByBlock[b].votes[i]]]

\* Mutant: a conflicting vote counts again.
shareEveryVote(vs, i, b, result) ==
    IF vs.votes[i] = NoVote \/ vs.maj23 = b
    THEN [vs EXCEPT !.votes[i] = [block |-> b, result |-> result], !.sum = @ + 1]
    ELSE vs

\* The first part of addVerifiedVote: .votes keeps a member's first vote, or
\* its vote for the majority's block.
shareVote(vs, i, b, result) ==
    IF vs.votes[i] = NoVote
    THEN [vs EXCEPT !.votes[i] = [block |-> b, result |-> result], !.sum = @ + 1]
    ELSE IF vs.maj23 = b THEN [vs EXCEPT !.votes[i] = [block |-> b, result |-> result]]
    ELSE vs

\* Mutant: the last quorum wins.
lastQuorum(vs, b, bv) ==
    LET t == [vs EXCEPT !.votesByBlock[b] = bv]
    IN  IF vs.votesByBlock[b].sum < quorum /\ quorum <= bv.sum
        THEN [t EXCEPT !.maj23 = b, !.votes = copyVotes(t, b)] ELSE t

\* Mutant: the votes to share stay as they are.
countOnly(vs, b, bv) ==
    LET t == [vs EXCEPT !.votesByBlock[b] = bv]
    IN  IF vs.votesByBlock[b].sum < quorum /\ quorum <= bv.sum /\ vs.maj23 = None
        THEN [t EXCEPT !.maj23 = b] ELSE t

\* Mutant: the quorum has to be exceeded.
countBeyond(vs, b, bv) ==
    LET t == [vs EXCEPT !.votesByBlock[b] = bv]
    IN  IF vs.votesByBlock[b].sum <= quorum /\ quorum < bv.sum /\ vs.maj23 = None
        THEN [t EXCEPT !.maj23 = b, !.votes = copyVotes(t, b)] ELSE t

\* Its last part: the first block to cross the quorum is the majority.
countVote(vs, b, bv) ==
    LET t == [vs EXCEPT !.votesByBlock[b] = bv]
    IN  IF vs.votesByBlock[b].sum < quorum /\ quorum <= bv.sum /\ vs.maj23 = None
        THEN [t EXCEPT !.maj23 = b, !.votes = copyVotes(t, b)] ELSE t

\* A conflicting vote is kept only for a block some peer claims a majority of.
addVerifiedVote(vs, i, b, result) ==
    LET s == shareVote(vs, i, b, result)
        bv == vs.votesByBlock[b]
    IN  IF vs.votes[i] # NoVote /\ ~bv.peerMaj23 THEN s
        ELSE countVote(s, b, addBlockVote(bv, i, result))

addVote(vs, i, b, result) ==
    IF HasVote(vs, i, b) THEN vs ELSE addVerifiedVote(vs, i, b, result)

\* A peer claims a majority for b; it may claim one block.
SetPeerMaj23(vs, p, b) ==
    IF vs.peerMaj23s[p] # None THEN vs
    ELSE [vs EXCEPT !.peerMaj23s[p] = b,
                    !.votesByBlock[b] = [@ EXCEPT !.tracked = TRUE, !.peerMaj23 = TRUE]]

HasTwoThirdsAny(vs) == vs.sum > (Cardinality(Validators) * 2) \div 3

\* MakePbftSigns and MakeCommit: who is in the certificate of the majority.
Signers(vs, b) == {i \in Validators : vs.votesByBlock[b].votes[i] = Agree}
Committers(vs, b) == {i \in Validators : vs.votes[i] = [block |-> b, result |-> Agree]}
============================================================================
