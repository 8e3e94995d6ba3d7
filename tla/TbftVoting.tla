----------------------------- MODULE TbftVoting -----------------------------
(***************************************************************************)
(* A committee deciding one fast block: every correct member follows       *)
(* ValidatorRules, the others may vote anything, in every round, differently*)
(* to different members.  No state is kept for the faulty members: a       *)
(* quorum is reached as soon as its correct members' votes are there.      *)
(* Votes are never taken back, and a member may or may not act on the      *)
(* quorums that exist, so loss, delay, duplication and reordering of the   *)
(* messages are all covered.                                               *)
(***************************************************************************)
EXTENDS ValidatorRules, FiniteSets

CONSTANTS
    Validators, \* the committee; MakeValidators gives every member power 1
    Faulty      \* the members that need not follow the rules

ASSUME CommitteeAssumption ==
    /\ IsFiniteSet(Validators)
    /\ Faulty \subseteq Validators
    /\ 3 * Cardinality(Faulty) < Cardinality(Validators)

VARIABLE st     \* the state of every correct member

Correct == Validators \ Faulty

\* quorum := valSet.TotalVotingPower()*2/3 + 1
QuorumSize == (Cardinality(Validators) * 2) \div 3 + 1
Quorums == {Q \in SUBSET Validators : Cardinality(Q) >= QuorumSize}

\* The pairs <<r, v>> with +2/3 prevotes for v in round r.
Polkas ==
    {p \in Rounds \X Electable :
        \E Q \in Quorums : \A n \in Q \ Faulty : st[n].prevote[p[1]] = p[2]}

\* The pairs <<r, b>> with +2/3 precommits for block b in round r.
Commits ==
    {c \in Rounds \X Blocks :
        \E Q \in Quorums : \A n \in Q \ Faulty : st[n].precommit[c[1]] = c[2]}

Init == st = [n \in Correct |-> InitValidator]

Move(n, targets) == \E t \in targets : st' = [st EXCEPT ![n] = t]

EnterNewRound(n) == Move(n, NewRounds(st[n]))
EnterPrevote(n) == Move(n, Prevotes(st[n]))
EnterPrecommit(n) == Move(n, Precommits(st[n], Polkas))
UnlockOnPolka(n) == Move(n, Unlocks(st[n], Polkas))
FinalizeCommit(n) == Move(n, Decisions(st[n], Commits))

Next ==
    \E n \in Correct :
        \/ EnterNewRound(n)
        \/ EnterPrevote(n)
        \/ EnterPrecommit(n)
        \/ UnlockOnPolka(n)
        \/ FinalizeCommit(n)

Spec == Init /\ [][Next]_st

----------------------------------------------------------------------------
\* The type invariant of the committee.
TypeOK == st \in [Correct -> ValidatorState]

\* No two correct members finalize different blocks at one height
\* (finalizeCommit), in whatever rounds they do so.
Agreement ==
    \A m, n \in Correct :
        st[m].decision = None \/ st[n].decision = None \/ st[m].decision = st[n].decision

\* A block that was finalized was prevoted with VoteAgree by a correct member,
\* that is one whose own validateBlock accepted it.
DecisionValidated ==
    \A n \in Correct : st[n].decision # None =>
        \E m \in Correct, r \in Rounds : st[m].prevote[r] = st[n].decision

\* What a member that precommitted block b is bound to: a later prevote for
\* anything else is justified by +2/3 prevotes for something else in a round
\* between the two.
PrecommitBinds ==
    \A n \in Correct, r1, r2 \in Rounds :
        LET b == st[n].precommit[r1]
            v == st[n].prevote[r2]
        IN  (r1 < r2 /\ b \in Blocks /\ v \in Electable /\ v # b) =>
                \E p \in Polkas : r1 < p[1] /\ p[1] < r2 /\ p[2] # b

\* Some quorum has no correct member that precommitted b in round r or
\* still may.
Blocked(r, b) ==
    \E Q \in Quorums : \A n \in Q \ Faulty : st[n].round > r /\ st[n].precommit[r] # b

\* +2/3 prevotes for a value rule out +2/3 precommits for any other block in
\* every earlier round, for ever.
PolkaBlocksEarlier ==
    \A p \in Polkas, r \in Rounds, b \in Blocks :
        (r < p[1] /\ b # p[2]) => Blocked(r, b)

----------------------------------------------------------------------------
\* The rest of the inductive invariant.
\* A member in state s has not voted in a round, or a step, it has not reached.
InOrder(s) ==
    /\ \A r \in Rounds : r > s.round => s.prevote[r] = None /\ s.precommit[r] = None
    /\ s.step = "propose" => s.prevote[s.round] = None
    /\ s.step # "precommit" => s.precommit[s.round] = None
    /\ s.lockedBlock # None =>
        s.lockedRound <= s.round /\ (s.lockedRound = s.round => s.step = "precommit")

VotesInOrder == \A n \in Correct : InOrder(st[n])

\* A precommit for a block rests on +2/3 prevotes of its round.
PrecommitHasPolka ==
    \A n \in Correct, r \in Rounds :
        st[n].precommit[r] \in Blocks => <<r, st[n].precommit[r]>> \in Polkas

\* +2/3 prevotes after round r, for something else than b, that a member in
\* state s may already have acted on.
Released(s, r, b) ==
    \E p \in Polkas :
        /\ r < p[1] /\ p[1] <= s.round /\ p[2] # b
        /\ p[1] = s.round => s.step = "precommit"

\* A member that precommitted b is still locked on b, or was released.
LockedUntilReleased ==
    \A n \in Correct, r \in Rounds :
        LET b == st[n].precommit[r] IN
        b \in Blocks =>
            \/ st[n].lockedBlock = b /\ st[n].lockedRound >= r
            \/ Released(st[n], r, b)

\* A decision rests on +2/3 precommits.
DecisionHasCommit ==
    \A n \in Correct : st[n].decision # None =>
        \E r \in Rounds : <<r, st[n].decision>> \in Commits

IInv ==
    /\ TypeOK
    /\ VotesInOrder
    /\ PrecommitHasPolka
    /\ LockedUntilReleased
    /\ PrecommitBinds
    /\ PolkaBlocksEarlier
    /\ DecisionHasCommit
============================================================================
