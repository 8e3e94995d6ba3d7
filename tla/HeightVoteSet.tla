--------------------------- MODULE HeightVoteSet ---------------------------
(***************************************************************************)
(* All the votes of one height, consensus/tbft/types/height_vote_set.go,   *)
(* as the node and its peers' handlers change them.  hvs.mtx makes every   *)
(* method atomic.  A RoundVoteSet is two vote sets that never touch each   *)
(* other, prevotes and precommits; the model follows one of them.          *)
(***************************************************************************)
EXTENDS VoteSet

CONSTANTS
    MaxRound,   \* bound: the rounds of the model are 0..MaxRound
    MaxVotes,   \* bound: members' first votes, over all rounds
    MaxClaims   \* bound: peers' claims of a majority, over all rounds

ASSUME BoundsAssumption == MaxRound \in Nat /\ MaxVotes \in Nat /\ MaxClaims \in Nat

VARIABLES
    round,              \* the newest round the node asked for
    roundVoteSets,      \* round -> its vote set; meaningful when tracked
    tracked,            \* the keys of the source's roundVoteSets
    peerCatchupRounds   \* sender -> rounds it made the node track

vars == <<round, roundVoteSets, tracked, peerCatchupRounds>>

Rounds == 0 .. MaxRound

Init ==
    /\ round = 0
    /\ roundVoteSets = [r \in Rounds |-> NewVoteSet]
    /\ tracked = {0}
    /\ peerCatchupRounds = [p \in Peers |-> {}]

----------------------------------------------------------------------------
\* Mutant: a round a peer opened is made anew.
SetRoundAfresh(r) ==
    /\ r > round
    /\ tracked' = tracked \cup (round + 1 .. r)
    /\ roundVoteSets' = [q \in Rounds |-> IF q \in round + 1 .. r THEN NewVoteSet
                                          ELSE roundVoteSets[q]]
    /\ round' = r
    /\ UNCHANGED peerCatchupRounds

\* enterNewRound is the only caller; a round that does not grow panics, which
\* ConsensusState shows not to happen.  Rounds a peer opened are kept.
SetRound(r) ==
    /\ r > round
    /\ tracked' = tracked \cup (round + 1 .. r)
    /\ round' = r
    /\ UNCHANGED <<roundVoteSets, peerCatchupRounds>>

\* Mutant: a third catch-up round.
MayCatchUpOnce(p) == Cardinality(peerCatchupRounds[p]) <= 2

MayCatchUp(p) == Cardinality(peerCatchupRounds[p]) < 2

\* The vote of member i for b in round r arrives from p.  A vote for a round
\* that is not tracked opens it, at most twice for one sender; others are
\* refused.
AddVote(p, r, i, b, result) ==
    /\ \/ r \in tracked /\ UNCHANGED <<tracked, peerCatchupRounds>>
       \/ /\ r \notin tracked
          /\ MayCatchUp(p)
          /\ tracked' = tracked \cup {r}
          /\ peerCatchupRounds' = [peerCatchupRounds EXCEPT ![p] = @ \cup {r}]
    /\ roundVoteSets' = [roundVoteSets EXCEPT ![r] = addVote(@, i, b, result)]
    /\ UNCHANGED round

\* The node's VoteSetMaj23Message handler; unknown rounds are ignored.
PeerMaj23(p, r, b) ==
    /\ r \in tracked
    /\ roundVoteSets' = [roundVoteSets EXCEPT ![r] = SetPeerMaj23(@, p, b)]
    /\ UNCHANGED <<round, tracked, peerCatchupRounds>>

\* What the bounds count: members' first votes and peers' claims.
Voted == {x \in Rounds \X Validators : roundVoteSets[x[1]].votes[x[2]] # NoVote}
Claimed == {x \in Rounds \X Peers : roundVoteSets[x[1]].peerMaj23s[x[2]] # None}

Next ==
    \/ \E r \in Rounds : SetRound(r)
    \/ \E p \in Peers, r \in Rounds, i \in Validators, b \in Values, result \in Results :
        /\ <<r, i>> \in Voted \/ Cardinality(Voted) < MaxVotes
        /\ AddVote(p, r, i, b, result)
    \/ \E p \in Peers, r \in Rounds, b \in Values :
        /\ <<r, p>> \in Claimed \/ Cardinality(Claimed) < MaxClaims
        /\ PeerMaj23(p, r, b)

Spec == Init /\ [][Next]_vars

----------------------------------------------------------------------------
BlockVotes ==
    [ tracked : BOOLEAN, peerMaj23 : BOOLEAN,
      votes : [Validators -> Results \cup {None}], sum : Nat ]

VoteSets ==
    [ votes : [Validators -> Votes \cup {NoVote}], sum : Nat, maj23 : Values \cup {None},
      votesByBlock : [Values -> BlockVotes], peerMaj23s : [Peers -> Values \cup {None}] ]

TypeOK ==
    /\ round \in Rounds
    /\ roundVoteSets \in [Rounds -> VoteSets]
    /\ tracked \subseteq Rounds
    /\ peerCatchupRounds \in [Peers -> SUBSET Rounds]

Voters(vs) == {i \in Validators : vs.votes[i] # NoVote}

\* A majority rests on a quorum of members that agree, so that MakePbftSigns
\* gives a block a certificate the other nodes accept.
Maj23Backed ==
    \A r \in Rounds : LET vs == roundVoteSets[r] IN
        vs.maj23 # None => Cardinality(Signers(vs, vs.maj23)) >= quorum

\* .votes, which MakeCommit and the gossip to a peer that fell behind read,
\* holds that quorum too, whichever votes of the same members came first or
\* come later.
CommitCarriesQuorum ==
    \A r \in Rounds : LET vs == roundVoteSets[r] IN
        vs.maj23 # None => Cardinality(Committers(vs, vs.maj23)) >= quorum

\* sum counts every member that voted once, conflicting votes aside, so that
\* a majority implies HasTwoThirdsAny and HasAll means what it says.
VotersCountedOnce ==
    \A r \in Rounds : LET vs == roundVoteSets[r] IN
        /\ vs.sum = Cardinality(Voters(vs))
        /\ \A b \in Values, i \in Validators :
            vs.votesByBlock[b].votes[i] # None => i \in Voters(vs)
        /\ vs.maj23 # None => HasTwoThirdsAny(vs)

\* The members caught voting for two blocks in this round.
Conflicting(vs) ==
    {i \in Validators : \E b, c \in Values :
        b # c /\ vs.votesByBlock[b].votes[i] # None /\ vs.votesByBlock[c].votes[i] # None}

\* As long as less than a third of the members vote twice, a block that
\* reaches the quorum is the majority: no second quorum is hidden behind the
\* first.
OneQuorum ==
    \A r \in Rounds : LET vs == roundVoteSets[r] IN
        3 * Cardinality(Conflicting(vs)) < Cardinality(Validators) =>
            \A b \in Values : vs.votesByBlock[b].sum >= quorum => vs.maj23 = b

\* What other nodes make this one keep is bounded: one entry of votesByBlock per
\* member that voted and per peer that claimed (addVote, SetPeerMaj23), and two
\* rounds to come per peer that sent votes for them (AddVote).
KeptBounded ==
    /\ \A r \in Rounds : LET vs == roundVoteSets[r] IN
        Cardinality({b \in Values : vs.votesByBlock[b].tracked})
            <= vs.sum + Cardinality({p \in Peers : vs.peerMaj23s[p] # None})
    /\ Cardinality({r \in tracked : r > round})
        <= 2 * Cardinality({p \in Peers : peerCatchupRounds[p] # {}})

\* Every round up to the node's own is tracked: none of its votes is refused,
\* and POLInfo never meets a hole.
OwnRoundsTracked == 0 .. round \subseteq tracked

\* A majority is final, also for a round that a peer opened and the node
\* reaches later.
MajorityFinal ==
    [][\A r \in Rounds : roundVoteSets[r].maj23 # None =>
            roundVoteSets'[r].maj23 = roundVoteSets[r].maj23]_vars

\* A vote that was counted for a block stays counted.
VotesKept ==
    [][\A r \in Rounds, b \in Values, i \in Validators :
            roundVoteSets[r].votesByBlock[b].votes[i] # None =>
                roundVoteSets'[r].votesByBlock[b].votes[i]
                    = roundVoteSets[r].votesByBlock[b].votes[i]]_vars

\* What addVote keeps of a vote set: counters count members, a member counted
\* for a block is counted as a voter, the first quorum is the majority, and
\* its agreeing votes are the ones to share.
Sound(vs) ==
    /\ vs.sum = Cardinality(Voters(vs))
    /\ \A b \in Values : vs.votesByBlock[b].sum = Cardinality(Signers(vs, b))
    /\ \A b \in Values, i \in Validators :
        vs.votesByBlock[b].votes[i] # None => i \in Voters(vs)
    /\ vs.maj23 = None => \A b \in Values : vs.votesByBlock[b].sum < quorum
    /\ vs.maj23 # None => /\ vs.votesByBlock[vs.maj23].sum >= quorum
                          /\ Signers(vs, vs.maj23) \subseteq Committers(vs, vs.maj23)

\* The inductive invariant: every vote set is sound (addVote, SetPeerMaj23) and
\* no round of the node is missing (SetRound).
IInv ==
    /\ TypeOK
    /\ \A r \in Rounds : Sound(roundVoteSets[r])
    /\ OwnRoundsTracked
============================================================================
