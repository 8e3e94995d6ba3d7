--------------------------- MODULE ValidatorRules ---------------------------
(***************************************************************************)
(* What one committee member promises at one height, whatever order its    *)
(* messages and timeouts arrive in: the voting and locking rules of        *)
(* consensus/tbft/state.go with the timers, the proposal gossip and the    *)
(* vote bookkeeping left out.  ConsensusState, the detailed module, is     *)
(* shown to make only moves of this module; TbftVoting lets a whole        *)
(* committee make them and shows that it agrees.                           *)
(*                                                                         *)
(* A validator's state s is a record.  polkas is the set of <<r, v>> for   *)
(* which +2/3 prevotes exist and commits the set of <<r, b>> for which +2/3*)
(* precommits exist.                                                       *)
(***************************************************************************)
EXTENDS Integers

CONSTANTS
    Blocks,     \* the blocks that can be proposed at this height
    Rounds      \* the rounds of this height

ASSUME RoundsAssumption == Rounds \subseteq Nat /\ 0 \in Rounds

Nil == "nil"    \* a vote with an empty BlockID
None == "none"  \* no block; no vote, or a vote that no +2/3 can rest on

ASSUME BlocksAssumption == Nil \notin Blocks /\ None \notin Blocks

\* What can reach +2/3 prevotes.  blockVotes.sum counts votes whose Result is
\* VoteAgree only; a nil vote is a VoteAgree vote for the empty BlockID.  A
\* vote with another Result is recorded as None.
Electable == Blocks \cup {Nil}

\* cs.Step, as far as voting is concerned: "propose" is every step before
\* Prevote, "precommit" every step from Precommit on.
VotingSteps == {"propose", "prevote", "precommit"}

ValidatorState ==
    [ round : Rounds, step : VotingSteps,
      lockedRound : Rounds, lockedBlock : Blocks \cup {None},
      prevote : [Rounds -> Electable \cup {None}],
      precommit : [Rounds -> Blocks \cup {None}],
      decision : Blocks \cup {None} ]

\* updateToState
InitValidator ==
    [ round |-> 0, step |-> "propose",
      lockedRound |-> 0, lockedBlock |-> None,
      prevote |-> [r \in Rounds |-> None],
      precommit |-> [r \in Rounds |-> None],
      decision |-> None ]

----------------------------------------------------------------------------
\* enterNewRound: rounds only grow.
NewRound(s, r) == [s EXCEPT !.round = r, !.step = "propose"]

NewRounds(s) == {NewRound(s, r) : r \in {q \in Rounds : q > s.round}}

\* Mutant: the lock is ignored.
AnyPrevote(s) == Electable \cup {None}

\* defaultDoPrevote: a locked validator votes for its locked block; the vote
\* counts for nothing when its validation does not give VoteAgree or the
\* signer refuses.
AllowedPrevotes(s) ==
    IF s.lockedBlock # None THEN {s.lockedBlock, None} ELSE Electable \cup {None}

Prevote(s, v) ==
    [s EXCEPT !.step = "prevote", !.prevote = [@ EXCEPT ![s.round] = v]]

Prevotes(s) ==
    {Prevote(s, v) : v \in {w \in AllowedPrevotes(s) : s.step = "propose"}}

\* enterPrecommit, by the lock it leaves behind and the vote it signs.
Precommit(s, v, lr, lb) ==
    [s EXCEPT !.step = "precommit", !.precommit = [@ EXCEPT ![s.round] = v],
              !.lockedRound = lr, !.lockedBlock = lb]

\* No vote that counts for a block: the lock stays.
WeakPrecommit(s) == Precommit(s, None, s.lockedRound, s.lockedBlock)

\* +2/3 prevoted nil, or a block this validator does not have: unlock.
UnlockingPrecommits(s, polkas) ==
    {Precommit(s, None, 0, None) :
        p \in {q \in polkas : q[1] = s.round /\ q[2] # s.lockedBlock}}

\* Mutant: a block is locked without a polka.
LockingAnything(s, polkas) == {Precommit(s, b, s.round, b) : b \in Blocks}

\* +2/3 prevoted block b: lock b in this round and vote for it, or renew the
\* lock only, when validating b gives no VoteAgree or the signer refuses.
LockingPrecommits(s, polkas) ==
    {Precommit(s, x[1], s.round, x[2]) :
        x \in {y \in (Blocks \cup {None}) \X Blocks :
            <<s.round, y[2]>> \in polkas /\ y[1] \in {y[2], None}}}

Precommits(s, polkas) ==
    IF s.step = "precommit" THEN {}
    ELSE {WeakPrecommit(s)} \cup UnlockingPrecommits(s, polkas) \cup LockingPrecommits(s, polkas)

\* addVote: a polka for something else, later than the lock and not of a
\* round that is still to come, releases the lock.  A polka of the current
\* round also makes the validator precommit.
Unlocks(s, polkas) ==
    {[s EXCEPT !.lockedRound = 0, !.lockedBlock = None] :
        p \in {q \in polkas :
            /\ s.lockedBlock # None
            /\ s.lockedRound < q[1]
            /\ q[1] <= s.round
            /\ q[1] = s.round => s.step = "precommit"
            /\ q[2] # s.lockedBlock}}

\* finalizeCommit
Decisions(s, commits) ==
    {[s EXCEPT !.decision = b] :
        b \in {c \in Blocks : s.decision = None /\ \E r \in Rounds : <<r, c>> \in commits}}

Moves(s, polkas, commits) ==
    NewRounds(s) \cup Prevotes(s) \cup Precommits(s, polkas)
        \cup Unlocks(s, polkas) \cup Decisions(s, commits)
============================================================================
