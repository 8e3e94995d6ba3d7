-------------------------- MODULE CommitteeProofs ---------------------------
(***************************************************************************)
(* What a committee decides, and when the next one takes over.             *)
(*                                                                         *)
(* Agreement of the committee of TbftVoting for every committee with fewer *)
(* than a third of faulty members, every set of blocks and any number of   *)
(* rounds; and what follows from the promise of the election (Handover)    *)
(* for chains of any length and any number of terms.                       *)
(***************************************************************************)
EXTENDS TbftVoting, Sequences, FiniteSetTheorems, TLAPS

----------------------------------------------------------------------------
\* Quorums of valSet.TotalVotingPower()*2/3 + 1 members: any two of them
\* share a member that is not faulty.
LEMMA QuorumIntersection ==
    ASSUME NEW P \in Quorums, NEW Q \in Quorums
    PROVE  \E n \in P \cap Q : n \in Correct
<1> DEFINE N == Cardinality(Validators)
           F == Cardinality(Faulty)
<1>1. /\ IsFiniteSet(Validators) /\ N \in Nat
      /\ Faulty \subseteq Validators /\ 3 * F < N
    BY CommitteeAssumption, FS_CardinalityType
<1>2. /\ P \subseteq Validators /\ Q \subseteq Validators
      /\ Cardinality(P) >= (N * 2) \div 3 + 1
      /\ Cardinality(Q) >= (N * 2) \div 3 + 1
    BY DEF Quorums, QuorumSize
<1>3. /\ IsFiniteSet(P) /\ Cardinality(P) \in Nat
      /\ IsFiniteSet(Q) /\ Cardinality(Q) \in Nat
      /\ IsFiniteSet(Faulty) /\ F \in Nat
    BY <1>1, <1>2, FS_Subset, FS_CardinalityType
<1>4. /\ IsFiniteSet(P \cup Q) /\ Cardinality(P \cup Q) \in Nat
      /\ Cardinality(P \cup Q) <= N
      /\ Cardinality(P \cup Q) = Cardinality(P) + Cardinality(Q) - Cardinality(P \cap Q)
    <2>1. P \cup Q \in SUBSET Validators
        BY <1>2
    <2>2. IsFiniteSet(P \cup Q) /\ Cardinality(P \cup Q) <= N
        BY <2>1, <1>1, FS_Subset
    <2> QED
        BY <2>2, <1>3, FS_Union, FS_CardinalityType
<1>5. IsFiniteSet(P \cap Q) /\ Cardinality(P \cap Q) \in Nat
    <2>1. P \cap Q \in SUBSET P
        OBVIOUS
    <2> QED
        BY <2>1, <1>3, FS_Subset, FS_CardinalityType
<1>6. Cardinality(P \cap Q) > F
    <2>1. 3 * ((N * 2) \div 3) >= 2 * N - 2
        BY <1>1
    <2> HIDE DEF N, F
    <2> QED
        BY <2>1, <1>1, <1>2, <1>3, <1>4, <1>5
<1>7. ~(P \cap Q \subseteq Faulty)
    <2>1. P \cap Q \subseteq Faulty => Cardinality(P \cap Q) <= F
        BY <1>3, FS_Subset
    <2> QED
        BY <2>1, <1>3, <1>5, <1>6
<1> QED
    BY <1>7, <1>2 DEF Correct

----------------------------------------------------------------------------
(***************************************************************************)
(* What each move of ValidatorRules does to the fields of a member's state.*)
(***************************************************************************)
KeepsVotes(s, t) == t.prevote = s.prevote /\ t.precommit = s.precommit
KeepsLock(s, t) == t.lockedRound = s.lockedRound /\ t.lockedBlock = s.lockedBlock
KeepsPlace(s, t) == t.round = s.round /\ t.step = s.step

IsNewRound(s, t) ==
    /\ t.round \in Rounds /\ t.round > s.round /\ t.step = "propose"
    /\ KeepsVotes(s, t) /\ KeepsLock(s, t) /\ t.decision = s.decision

IsPrevote(s, t) ==
    /\ s.step = "propose" /\ t.round = s.round /\ t.step = "prevote"
    /\ \E v \in AllowedPrevotes(s) : t.prevote = [s.prevote EXCEPT ![s.round] = v]
    /\ t.precommit = s.precommit /\ KeepsLock(s, t) /\ t.decision = s.decision

\* A precommit that counts for no block and keeps the lock or drops it.
IsEmptyPrecommit(s, t, polkas) ==
    /\ s.step # "precommit" /\ t.round = s.round /\ t.step = "precommit"
    /\ t.prevote = s.prevote /\ t.precommit = [s.precommit EXCEPT ![s.round] = None]
    /\ \/ KeepsLock(s, t)
       \/ /\ t.lockedRound = 0 /\ t.lockedBlock = None
          /\ \E p \in polkas : p[1] = s.round /\ p[2] # s.lockedBlock
    /\ t.decision = s.decision

IsLocking(s, t, polkas) ==
    /\ s.step # "precommit" /\ t.round = s.round /\ t.step = "precommit"
    /\ t.prevote = s.prevote
    /\ \E v \in {t.lockedBlock, None} : t.precommit = [s.precommit EXCEPT ![s.round] = v]
    /\ t.lockedRound = s.round /\ t.lockedBlock \in Blocks
    /\ <<s.round, t.lockedBlock>> \in polkas
    /\ t.decision = s.decision

IsUnlock(s, t, polkas) ==
    /\ KeepsPlace(s, t) /\ KeepsVotes(s, t) /\ t.decision = s.decision
    /\ t.lockedRound = 0 /\ t.lockedBlock = None /\ s.lockedBlock # None
    /\ \E p \in polkas :
        /\ s.lockedRound < p[1] /\ p[1] <= s.round /\ p[2] # s.lockedBlock
        /\ p[1] = s.round => s.step = "precommit"

IsDecision(s, t, commits) ==
    /\ KeepsPlace(s, t) /\ KeepsVotes(s, t) /\ KeepsLock(s, t)
    /\ s.decision = None /\ t.decision \in Blocks
    /\ \E r \in Rounds : <<r, t.decision>> \in commits

\* Every move is one of these, field by field.
LEMMA MoveShapes ==
    ASSUME NEW s \in ValidatorState, NEW polkas, NEW commits,
           NEW t \in Moves(s, polkas, commits)
    PROVE  \/ IsNewRound(s, t)
           \/ IsPrevote(s, t)
           \/ IsEmptyPrecommit(s, t, polkas)
           \/ IsLocking(s, t, polkas)
           \/ IsUnlock(s, t, polkas)
           \/ IsDecision(s, t, commits)
<1> USE DEF ValidatorState, KeepsVotes, KeepsLock, KeepsPlace
<1>1. CASE t \in NewRounds(s)
    BY <1>1, Zenon DEF NewRounds, NewRound, IsNewRound
<1>2. CASE t \in Prevotes(s)
    BY <1>2, Zenon DEF Prevotes, Prevote, IsPrevote
<1>3. CASE s.step # "precommit" /\ t = WeakPrecommit(s)
    BY <1>3 DEF WeakPrecommit, Precommit, IsEmptyPrecommit
<1>4. CASE s.step # "precommit" /\ t \in UnlockingPrecommits(s, polkas)
    BY <1>4, Zenon DEF UnlockingPrecommits, Precommit, IsEmptyPrecommit
<1>5. CASE s.step # "precommit" /\ t \in LockingPrecommits(s, polkas)
    <2>1. PICK x \in (Blocks \cup {None}) \X Blocks :
                /\ <<s.round, x[2]>> \in polkas /\ x[1] \in {x[2], None}
                /\ t = Precommit(s, x[1], s.round, x[2])
        BY <1>5 DEF LockingPrecommits
    <2>2. /\ t.round = s.round /\ t.step = "precommit" /\ t.prevote = s.prevote
          /\ t.precommit = [s.precommit EXCEPT ![s.round] = x[1]]
          /\ t.lockedRound = s.round /\ t.lockedBlock = x[2]
          /\ t.decision = s.decision
        BY <2>1 DEF Precommit
    <2> QED
        BY <1>5, <2>1, <2>2 DEF IsLocking
<1>6. CASE t \in Unlocks(s, polkas)
    BY <1>6, Zenon DEF Unlocks, IsUnlock
<1>7. CASE t \in Decisions(s, commits)
    BY <1>7, Zenon DEF Decisions, IsDecision
<1> QED
    BY <1>1, <1>2, <1>3, <1>4, <1>5, <1>6, <1>7 DEF Moves, Precommits

\* A move keeps the type of the state.
LEMMA MoveType ==
    ASSUME NEW s \in ValidatorState, NEW polkas, NEW commits,
           NEW t \in Moves(s, polkas, commits)
    PROVE  t \in ValidatorState
<1> USE DEF ValidatorState, VotingSteps, Electable
<1>1. CASE t \in NewRounds(s)
    BY <1>1, Zenon DEF NewRounds, NewRound
<1>2. CASE t \in Prevotes(s)
    <2>1. PICK v \in AllowedPrevotes(s) : t = Prevote(s, v)
        BY <1>2 DEF Prevotes
    <2>2. v \in Electable \cup {None}
        BY DEF AllowedPrevotes
    <2>3. [s.prevote EXCEPT ![s.round] = v] \in [Rounds -> Electable \cup {None}]
        BY <2>2
    <2> HIDE DEF Electable
    <2> QED
        BY <2>1, <2>3, Zenon DEF Prevote
<1>3. CASE t = WeakPrecommit(s)
    BY <1>3, Zenon DEF WeakPrecommit, Precommit
<1>4. CASE t \in UnlockingPrecommits(s, polkas)
    <2>1. t = Precommit(s, None, 0, None)
        BY <1>4 DEF UnlockingPrecommits
    <2> QED
        BY <2>1, RoundsAssumption, Zenon DEF Precommit
<1>5. CASE t \in LockingPrecommits(s, polkas)
    <2>1. PICK x \in (Blocks \cup {None}) \X Blocks :
                t = Precommit(s, x[1], s.round, x[2])
        BY <1>5, Zenon DEF LockingPrecommits
    <2>2. x[1] \in Blocks \cup {None} /\ x[2] \in Blocks
        OBVIOUS
    <2> QED
        BY <2>1, <2>2, Zenon DEF Precommit
<1>6. CASE t \in Unlocks(s, polkas)
    BY <1>6, RoundsAssumption, Zenon DEF Unlocks
<1>7. CASE t \in Decisions(s, commits)
    BY <1>7 DEF Decisions
<1> QED
    BY <1>1, <1>2, <1>3, <1>4, <1>5, <1>6, <1>7 DEF Moves, Precommits

\* A move never goes back to an earlier round, never changes a vote and votes
\* in the current round only.
LEMMA MoveMonotone ==
    ASSUME NEW s \in ValidatorState, InOrder(s), NEW polkas, NEW commits,
           NEW t \in Moves(s, polkas, commits)
    PROVE  /\ InOrder(t)
           /\ t.round >= s.round
           /\ \A r \in Rounds : t.prevote[r] # s.prevote[r] =>
                    r = s.round /\ s.prevote[r] = None /\ IsPrevote(s, t)
           /\ \A r \in Rounds : t.precommit[r] # s.precommit[r] =>
                    r = s.round /\ s.precommit[r] = None /\ IsLocking(s, t, polkas)
<1>1. t \in ValidatorState
    BY MoveType
<1>2. /\ Rounds \subseteq Nat
      /\ s.round \in Rounds /\ t.round \in Rounds
      /\ s.prevote \in [Rounds -> Electable \cup {None}]
      /\ s.precommit \in [Rounds -> Blocks \cup {None}]
      /\ s.lockedRound \in Rounds /\ t.lockedRound \in Rounds
      /\ s.round \in Nat /\ t.round \in Nat /\ s.lockedRound \in Nat /\ t.lockedRound \in Nat
    BY <1>1, RoundsAssumption, Zenon DEF ValidatorState
<1>3. CASE IsNewRound(s, t)
    BY <1>2, <1>3 DEF IsNewRound, InOrder, KeepsVotes, KeepsLock
<1>4. CASE IsPrevote(s, t)
    <2>1. PICK v \in AllowedPrevotes(s) : t.prevote = [s.prevote EXCEPT ![s.round] = v]
        BY <1>4 DEF IsPrevote
    <2>2. /\ s.step = "propose" /\ t.step = "prevote" /\ t.round = s.round
          /\ t.precommit = s.precommit /\ KeepsLock(s, t)
        BY <1>4 DEF IsPrevote
    <2> QED
        BY <1>2, <1>4, <2>1, <2>2 DEF InOrder, KeepsLock
<1>5. CASE IsEmptyPrecommit(s, t, polkas)
    BY <1>2, <1>5 DEF IsEmptyPrecommit, InOrder, KeepsLock
<1>6. CASE IsLocking(s, t, polkas)
    <2>1. PICK v \in {t.lockedBlock, None} : t.precommit = [s.precommit EXCEPT ![s.round] = v]
        BY <1>6 DEF IsLocking
    <2>2. /\ s.step # "precommit" /\ t.step = "precommit" /\ t.round = s.round
          /\ t.prevote = s.prevote /\ t.lockedRound = s.round
        BY <1>6 DEF IsLocking
    <2>3. InOrder(t)
        BY <1>2, <2>1, <2>2 DEF InOrder
    <2>4. \A r \in Rounds : t.precommit[r] # s.precommit[r] =>
                r = s.round /\ s.precommit[r] = None
        BY <1>2, <2>1, <2>2 DEF InOrder
    <2> QED
        BY <1>2, <1>6, <2>2, <2>3, <2>4
<1>7. CASE IsUnlock(s, t, polkas)
    BY <1>2, <1>7 DEF IsUnlock, InOrder, KeepsVotes, KeepsPlace
<1>8. CASE IsDecision(s, t, commits)
    BY <1>2, <1>8 DEF IsDecision, InOrder, KeepsVotes, KeepsPlace, KeepsLock
<1> QED
    BY <1>3, <1>4, <1>5, <1>6, <1>7, <1>8, MoveShapes

----------------------------------------------------------------------------
\* What a step of the committee leaves in place: quorums once reached, and
\* the impossibility of a quorum of precommits.
LEMMA StepMonotone ==
    ASSUME TypeOK, VotesInOrder, NEW n \in Correct,
           NEW t \in Moves(st[n], Polkas, Commits), st' = [st EXCEPT ![n] = t]
    PROVE  /\ TypeOK' /\ VotesInOrder'
           /\ Polkas \subseteq Polkas'
           /\ \A p \in Polkas' : p \in Polkas \/ (p[1] = st[n].round /\ IsPrevote(st[n], t))
           /\ Commits \subseteq Commits'
           /\ \A r \in Rounds, b \in Blocks : Blocked(r, b) => Blocked(r, b)'
<1>1. /\ st[n] \in ValidatorState /\ InOrder(st[n]) /\ t \in ValidatorState
      /\ st' \in [Correct -> ValidatorState] /\ st'[n] = t
      /\ \A m \in Correct : m # n => st'[m] = st[m]
    BY MoveType DEF TypeOK, VotesInOrder
<1>2. /\ InOrder(t)
      /\ t.round >= st[n].round
      /\ \A r \in Rounds : t.prevote[r] # st[n].prevote[r] =>
              r = st[n].round /\ st[n].prevote[r] = None /\ IsPrevote(st[n], t)
      /\ \A r \in Rounds : t.precommit[r] # st[n].precommit[r] =>
              r = st[n].round /\ st[n].precommit[r] = None
    BY <1>1, MoveMonotone
<1>3. TypeOK' /\ VotesInOrder'
    BY <1>1, <1>2 DEF TypeOK, VotesInOrder
<1>4. Polkas \subseteq Polkas'
    <2> SUFFICES ASSUME NEW p \in Polkas PROVE p \in Polkas'
        OBVIOUS
    <2>1. PICK Q \in Quorums : \A m \in Q \ Faulty : st[m].prevote[p[1]] = p[2]
        BY DEF Polkas
    <2>2. p \in Rounds \X Electable /\ p[1] \in Rounds /\ p[2] # None
        BY BlocksAssumption DEF Polkas, Electable, Nil, None
    <2>3. \A m \in Q \ Faulty : m \in Correct
        BY DEF Quorums, Correct
    <2>4. \A m \in Q \ Faulty : st'[m].prevote[p[1]] = p[2]
        BY <1>1, <1>2, <2>1, <2>2, <2>3
    <2> QED
        BY <2>2, <2>4 DEF Polkas
<1>5. \A p \in Polkas' : p \in Polkas \/ (p[1] = st[n].round /\ IsPrevote(st[n], t))
    <2> SUFFICES ASSUME NEW p \in Polkas', ~(p[1] = st[n].round /\ IsPrevote(st[n], t))
                 PROVE  p \in Polkas
        OBVIOUS
    <2>1. PICK Q \in Quorums : \A m \in Q \ Faulty : st'[m].prevote[p[1]] = p[2]
        BY DEF Polkas
    <2>2. p \in Rounds \X Electable /\ p[1] \in Rounds
        BY DEF Polkas
    <2>3. \A m \in Q \ Faulty : m \in Correct
        BY DEF Quorums, Correct
    <2>4. \A m \in Q \ Faulty : st[m].prevote[p[1]] = p[2]
        BY <1>1, <1>2, <2>1, <2>2, <2>3
    <2> QED
        BY <2>2, <2>4 DEF Polkas
<1>6. Commits \subseteq Commits'
    <2> SUFFICES ASSUME NEW c \in Commits PROVE c \in Commits'
        OBVIOUS
    <2>1. PICK Q \in Quorums : \A m \in Q \ Faulty : st[m].precommit[c[1]] = c[2]
        BY DEF Commits
    <2>2. c \in Rounds \X Blocks /\ c[1] \in Rounds /\ c[2] # None
        BY BlocksAssumption DEF Commits
    <2>3. \A m \in Q \ Faulty : m \in Correct
        BY DEF Quorums, Correct
    <2>4. \A m \in Q \ Faulty : st'[m].precommit[c[1]] = c[2]
        BY <1>1, <1>2, <2>1, <2>2, <2>3
    <2> QED
        BY <2>2, <2>4 DEF Commits
<1>7. ASSUME NEW r \in Rounds, NEW b \in Blocks, Blocked(r, b)
      PROVE  Blocked(r, b)'
    <2>1. PICK Q \in Quorums : \A m \in Q \ Faulty : st[m].round > r /\ st[m].precommit[r] # b
        BY <1>7 DEF Blocked
    <2>2. \A m \in Q \ Faulty : m \in Correct
        BY DEF Quorums, Correct
    <2>3. r \in Nat /\ t.round \in Nat /\ st[n].round \in Nat
        BY <1>1, RoundsAssumption, Zenon DEF ValidatorState
    <2>4. \A m \in Q \ Faulty : st'[m].round > r /\ st'[m].precommit[r] # b
        BY <1>1, <1>2, <2>1, <2>2, <2>3
    <2> QED
        BY <2>4 DEF Blocked
<1> QED
    BY <1>3, <1>4, <1>5, <1>6, <1>7

\* A precommit for a block still rests on +2/3 prevotes after a step.
LEMMA KeepsPrecommitHasPolka ==
    ASSUME TypeOK, VotesInOrder, PrecommitHasPolka, NEW n \in Correct,
           NEW t \in Moves(st[n], Polkas, Commits), st' = [st EXCEPT ![n] = t]
    PROVE  PrecommitHasPolka'
<1> SUFFICES ASSUME NEW m \in Correct, NEW r \in Rounds, st'[m].precommit[r] \in Blocks
             PROVE  <<r, st'[m].precommit[r]>> \in Polkas'
    BY DEF PrecommitHasPolka
<1>1. /\ st[n] \in ValidatorState /\ InOrder(st[n]) /\ st'[n] = t
      /\ m # n => st'[m] = st[m]
    BY DEF TypeOK, VotesInOrder
<1>2. CASE st'[m].precommit[r] = st[m].precommit[r]
    BY <1>2, StepMonotone, Zenon DEF PrecommitHasPolka
<1>3. CASE st'[m].precommit[r] # st[m].precommit[r]
    <2>1. m = n /\ r = st[n].round /\ IsLocking(st[n], t, Polkas)
        BY <1>1, <1>3, MoveMonotone
    <2>2. PICK v \in {t.lockedBlock, None} :
                t.precommit = [st[n].precommit EXCEPT ![st[n].round] = v]
        BY <2>1 DEF IsLocking
    <2>3. t.precommit[r] = v
        BY <1>1, <2>1, <2>2 DEF ValidatorState
    <2>4. t.precommit[r] = t.lockedBlock
        BY <1>1, <2>1, <2>3, BlocksAssumption
    <2> QED
        BY <1>1, <2>1, <2>4, StepMonotone, Zenon DEF IsLocking
<1> QED
    BY <1>2, <1>3

\* A member that precommitted a block stays locked on it until it is released.
LEMMA KeepsLockedUntilReleased ==
    ASSUME TypeOK, VotesInOrder, LockedUntilReleased, NEW n \in Correct,
           NEW t \in Moves(st[n], Polkas, Commits), st' = [st EXCEPT ![n] = t]
    PROVE  LockedUntilReleased'
<1> DEFINE s == st[n]
<1>1. /\ s \in ValidatorState /\ InOrder(s) /\ st'[n] = t /\ t \in ValidatorState
      /\ \A m \in Correct : m # n => st'[m] = st[m]
      /\ Polkas \subseteq Polkas'
    BY StepMonotone, MoveType, Zenon DEF TypeOK, VotesInOrder
<1>2. \A m \in Correct : m # n =>
          \A r \in Rounds, b \in Blocks : Released(st[m], r, b) => Released(st[m], r, b)'
    BY <1>1 DEF Released
<1>3. ASSUME NEW r \in Rounds, t.precommit[r] \in Blocks
      PROVE  \/ t.lockedBlock = t.precommit[r] /\ t.lockedRound >= r
             \/ \E p \in Polkas :
                  /\ r < p[1] /\ p[1] <= t.round /\ p[2] # t.precommit[r]
                  /\ p[1] = t.round => t.step = "precommit"
    <2> DEFINE b == t.precommit[r]
    <2>1. /\ r \in Nat /\ s.round \in Nat /\ t.round \in Nat
          /\ s.lockedRound \in Nat /\ t.lockedRound \in Nat
          /\ s.precommit \in [Rounds -> Blocks \cup {None}] /\ s.round \in Rounds
          /\ \A p \in Polkas : p[1] \in Nat
          /\ b # None
        BY <1>1, <1>3, RoundsAssumption, BlocksAssumption, Zenon DEF ValidatorState, Polkas
    <2>2. CASE s.precommit[r] # b
        <3>1. r = s.round /\ IsLocking(s, t, Polkas)
            BY <1>1, <2>2, MoveMonotone
        <3>2. PICK v \in {t.lockedBlock, None} : t.precommit = [s.precommit EXCEPT ![s.round] = v]
            BY <3>1 DEF IsLocking
        <3>3. b = v
            BY <2>1, <3>1, <3>2
        <3> QED
            BY <2>1, <3>1, <3>2, <3>3 DEF IsLocking
    <2>3. CASE s.precommit[r] = b /\ s.lockedBlock = b /\ s.lockedRound >= r
        <3>1. s.step # "precommit" => r < s.round
            BY <1>1, <2>1, <2>3 DEF InOrder
        <3>2. KeepsLock(s, t) => t.lockedBlock = b /\ t.lockedRound >= r
            BY <2>3 DEF KeepsLock
        <3>3. CASE IsEmptyPrecommit(s, t, Polkas)
            BY <2>1, <2>3, <3>1, <3>2, <3>3 DEF IsEmptyPrecommit
        <3>4. CASE IsLocking(s, t, Polkas)
            <4>1. /\ <<s.round, t.lockedBlock>> \in Polkas /\ t.lockedRound = s.round
                  /\ t.round = s.round /\ t.step = "precommit" /\ r < s.round
                BY <3>1, <3>4 DEF IsLocking
            <4>2. CASE t.lockedBlock = b
                BY <2>1, <4>1, <4>2
            <4>3. CASE t.lockedBlock # b
                BY <2>1, <4>1, <4>3
            <4> QED
                BY <4>2, <4>3
        <3>5. CASE IsUnlock(s, t, Polkas)
            <4>1. PICK p \in Polkas :
                    /\ s.lockedRound < p[1] /\ p[1] <= s.round /\ p[2] # s.lockedBlock
                    /\ p[1] = s.round => s.step = "precommit"
                BY <3>5 DEF IsUnlock
            <4>2. r < p[1] /\ p[2] # b
                BY <2>1, <2>3, <4>1
            <4> QED
                BY <3>5, <4>1, <4>2 DEF IsUnlock, KeepsPlace
        <3> QED
            BY <1>1, <3>2, <3>3, <3>4, <3>5, MoveShapes DEF IsNewRound, IsPrevote, IsDecision
    <2>4. CASE s.precommit[r] = b /\ Released(s, r, b)
        <3>1. PICK p \in Polkas :
                /\ r < p[1] /\ p[1] <= s.round /\ p[2] # b
                /\ p[1] = s.round => s.step = "precommit"
            BY <2>4 DEF Released
        <3>2. t.round >= s.round
            BY <1>1, MoveMonotone
        <3>3. t.round = s.round /\ s.step = "precommit" => t.step = "precommit"
            <4>1. \/ IsNewRound(s, t) \/ IsPrevote(s, t) \/ IsEmptyPrecommit(s, t, Polkas)
                  \/ IsLocking(s, t, Polkas) \/ IsUnlock(s, t, Polkas) \/ IsDecision(s, t, Commits)
                BY <1>1, MoveShapes
            <4>2. IsNewRound(s, t) => t.round # s.round
                BY <2>1 DEF IsNewRound
            <4>3. IsPrevote(s, t) => s.step # "precommit"
                BY DEF IsPrevote
            <4> QED
                BY <4>1, <4>2, <4>3
                DEF IsEmptyPrecommit, IsLocking, IsUnlock, IsDecision, KeepsPlace
        <3> QED
            BY <2>1, <3>1, <3>2, <3>3
    <2> QED
        BY <1>3, <2>2, <2>3, <2>4 DEF LockedUntilReleased
<1>4. ASSUME NEW r \in Rounds, t.precommit[r] \in Blocks
      PROVE  \/ t.lockedBlock = t.precommit[r] /\ t.lockedRound >= r
             \/ Released(st[n], r, st[n].precommit[r])'
    BY <1>1, <1>3, <1>4 DEF Released
<1>5. ASSUME NEW m \in Correct, NEW r \in Rounds, st'[m].precommit[r] \in Blocks
      PROVE  \/ st'[m].lockedBlock = st'[m].precommit[r] /\ st'[m].lockedRound >= r
             \/ Released(st[m], r, st[m].precommit[r])'
    <2>1. CASE m = n
        BY <1>1, <1>4, <1>5, <2>1
    <2>2. CASE m # n
        <3>1. st'[m] = st[m]
            BY <1>1, <2>2
        <3>2. \/ st[m].lockedBlock = st[m].precommit[r] /\ st[m].lockedRound >= r
              \/ Released(st[m], r, st[m].precommit[r])
            BY <1>5, <3>1 DEF LockedUntilReleased
        <3>3. Released(st[m], r, st[m].precommit[r]) => Released(st[m], r, st[m].precommit[r])'
            BY <1>1, <3>1 DEF Released
        <3> QED
            BY <3>1, <3>2, <3>3
    <2> QED
        BY <2>1, <2>2
<1> QED
    BY <1>5 DEF LockedUntilReleased

\* After a step, a member still prevotes against its precommits only where
\* +2/3 prevotes in between justify it.
LEMMA KeepsPrecommitBinds ==
    ASSUME TypeOK, VotesInOrder, LockedUntilReleased, PrecommitBinds, NEW n \in Correct,
           NEW t \in Moves(st[n], Polkas, Commits), st' = [st EXCEPT ![n] = t]
    PROVE  PrecommitBinds'
<1> DEFINE s == st[n]
<1>1. /\ s \in ValidatorState /\ InOrder(s) /\ st'[n] = t
      /\ t \in ValidatorState /\ InOrder(t)
      /\ \A m \in Correct : m # n => st'[m] = st[m]
      /\ Polkas \subseteq Polkas'
    BY StepMonotone, MoveType, MoveMonotone, Zenon DEF TypeOK, VotesInOrder
<1> SUFFICES ASSUME NEW m \in Correct, NEW r1 \in Rounds, NEW r2 \in Rounds, r1 < r2,
                    st'[m].precommit[r1] \in Blocks, st'[m].prevote[r2] \in Electable,
                    st'[m].prevote[r2] # st'[m].precommit[r1]
             PROVE  \E p \in Polkas : r1 < p[1] /\ p[1] < r2 /\ p[2] # st'[m].precommit[r1]
    BY <1>1 DEF PrecommitBinds
<1>2. CASE st'[m].precommit[r1] = st[m].precommit[r1] /\ st'[m].prevote[r2] = st[m].prevote[r2]
    BY <1>2 DEF PrecommitBinds
<1>3. CASE st'[m].precommit[r1] # st[m].precommit[r1]
    <2>1. m = n /\ r1 = s.round /\ IsLocking(s, t, Polkas)
        BY <1>1, <1>3, MoveMonotone
    <2>2. t.round = s.round
        BY <2>1 DEF IsLocking
    <2>3. t.prevote[r2] = None
        BY <1>1, <2>1, <2>2 DEF InOrder
    <2> QED
        BY <1>1, <2>1, <2>3, BlocksAssumption DEF Electable, Nil, None
<1>4. CASE st'[m].precommit[r1] = st[m].precommit[r1] /\ st'[m].prevote[r2] # st[m].prevote[r2]
    <2> DEFINE b == s.precommit[r1]
    <2>1. m = n /\ r2 = s.round /\ IsPrevote(s, t)
        BY <1>1, <1>4, MoveMonotone
    <2>2. PICK v \in AllowedPrevotes(s) : t.prevote = [s.prevote EXCEPT ![s.round] = v]
        BY <2>1 DEF IsPrevote
    <2>3. t.prevote[r2] = v
        BY <1>1, <2>1, <2>2 DEF ValidatorState
    <2>4. b \in Blocks /\ v \in Electable /\ v # b
        BY <1>1, <1>4, <2>1, <2>3
    <2>5. b # None /\ v # None
        BY <2>4, BlocksAssumption DEF Electable, Nil, None
    <2>6. s.lockedBlock # b
        BY <2>4, <2>5 DEF AllowedPrevotes
    <2>7. Released(s, r1, b)
        BY <2>4, <2>6 DEF LockedUntilReleased
    <2>8. s.step # "precommit"
        BY <2>1 DEF IsPrevote
    <2>9. PICK p \in Polkas : r1 < p[1] /\ p[1] <= s.round /\ p[2] # b /\ p[1] # s.round
        BY <2>7, <2>8 DEF Released
    <2>10. p[1] \in Nat /\ s.round \in Nat
        BY <1>1, RoundsAssumption, Zenon DEF Polkas, ValidatorState
    <2> QED
        BY <1>1, <1>4, <2>1, <2>9, <2>10
<1> QED
    BY <1>2, <1>3, <1>4

\* +2/3 prevotes reached by a step rule out the earlier commits they must.
LEMMA KeepsPolkaBlocksEarlier ==
    ASSUME TypeOK, VotesInOrder, PrecommitBinds', PolkaBlocksEarlier, NEW n \in Correct,
           NEW t \in Moves(st[n], Polkas, Commits), st' = [st EXCEPT ![n] = t]
    PROVE  PolkaBlocksEarlier'
<1> SUFFICES ASSUME NEW p \in Polkas', NEW r \in Rounds, NEW b \in Blocks, r < p[1], b # p[2]
             PROVE  Blocked(r, b)'
    BY DEF PolkaBlocksEarlier
<1>1. /\ VotesInOrder' /\ TypeOK' /\ Polkas \subseteq Polkas'
      /\ \A q \in Polkas' : q \in Polkas \/ q[1] = st[n].round
      /\ Blocked(r, b) => Blocked(r, b)'
    BY StepMonotone, Zenon
<1>2. CASE p \in Polkas
    BY <1>1, <1>2 DEF PolkaBlocksEarlier
<1>3. CASE p \notin Polkas
    <2>1. p[1] = st[n].round /\ p[1] \in Rounds /\ p[1] \in Nat /\ r \in Nat /\ p[2] \in Electable
        BY <1>1, <1>3, RoundsAssumption, Zenon DEF Polkas
    <2>2. PICK Q \in Quorums : \A m \in Q \ Faulty : st'[m].prevote[p[1]] = p[2]
        BY DEF Polkas
    <2>3. CASE \E m \in Q \ Faulty : st'[m].precommit[r] = b
        <3>1. PICK m \in Q \ Faulty : st'[m].precommit[r] = b
            BY <2>3
        <3>2. m \in Correct
            BY <2>2, <3>1 DEF Quorums, Correct
        <3>3. PICK q \in Polkas' : r < q[1] /\ q[1] < p[1] /\ q[2] # b
            BY <2>1, <2>2, <3>1, <3>2 DEF PrecommitBinds
        <3>4. q \in Polkas
            BY <1>1, <2>1, <3>3
        <3> QED
            BY <1>1, <3>3, <3>4 DEF PolkaBlocksEarlier
    <2>4. CASE \A m \in Q \ Faulty : st'[m].precommit[r] # b
        <3>1. ASSUME NEW m \in Q \ Faulty PROVE st'[m].round > r
            <4>1. m \in Correct /\ st'[m].round \in Nat
                BY <1>1, <2>2, RoundsAssumption, Zenon DEF Quorums, Correct, TypeOK, ValidatorState
            <4>2. st'[m].prevote[p[1]] # None
                BY <2>1, <2>2, BlocksAssumption DEF Electable, Nil, None
            <4>3. ~(p[1] > st'[m].round)
                BY <1>1, <2>1, <4>1, <4>2 DEF VotesInOrder, InOrder
            <4> QED
                BY <2>1, <4>1, <4>3
        <3> QED
            BY <2>4, <3>1 DEF Blocked
    <2> QED
        BY <2>3, <2>4
<1> QED
    BY <1>2, <1>3

----------------------------------------------------------------------------
\* The invariant holds when the height begins (updateToState).
LEMMA InitInvariant == Init => IInv
<1> SUFFICES ASSUME Init PROVE IInv
    OBVIOUS
<1>1. st = [n \in Correct |-> InitValidator]
    BY DEF Init
<1>2. TypeOK
    BY <1>1, RoundsAssumption DEF TypeOK, InitValidator, ValidatorState, VotingSteps
<1>3. \A n \in Correct : /\ st[n].round = 0 /\ st[n].decision = None
                         /\ st[n].lockedBlock = None /\ st[n].step = "propose"
                         /\ \A r \in Rounds : st[n].prevote[r] = None /\ st[n].precommit[r] = None
    BY <1>1 DEF InitValidator
<1>4. VotesInOrder
    BY <1>3, RoundsAssumption DEF VotesInOrder, InOrder
<1>5. Polkas = {}
    <2> SUFFICES ASSUME NEW p \in Polkas PROVE FALSE
        OBVIOUS
    <2>1. PICK Q \in Quorums : \A n \in Q \ Faulty : st[n].prevote[p[1]] = p[2]
        BY DEF Polkas
    <2>2. PICK n \in Q : n \in Correct
        BY QuorumIntersection
    <2>3. p[1] \in Rounds /\ p[2] # None
        BY BlocksAssumption DEF Polkas, Electable, Nil, None
    <2> QED
        BY <1>3, <2>1, <2>2, <2>3 DEF Correct
<1> QED
    BY <1>2, <1>3, <1>4, <1>5, BlocksAssumption
    DEF IInv, PrecommitHasPolka, LockedUntilReleased, PrecommitBinds, PolkaBlocksEarlier, DecisionHasCommit

\* A decision still rests on +2/3 precommits after a step.
LEMMA KeepsDecisionHasCommit ==
    ASSUME TypeOK, VotesInOrder, DecisionHasCommit, NEW n \in Correct,
           NEW t \in Moves(st[n], Polkas, Commits), st' = [st EXCEPT ![n] = t]
    PROVE  DecisionHasCommit'
<1>1. /\ st[n] \in ValidatorState /\ st'[n] = t /\ Commits \subseteq Commits'
      /\ \A m \in Correct : m # n => st'[m] = st[m]
    BY StepMonotone, Zenon DEF TypeOK
<1>2. t.decision = st[n].decision \/ \E r \in Rounds : <<r, t.decision>> \in Commits
    <2>1. \/ IsNewRound(st[n], t) \/ IsPrevote(st[n], t) \/ IsEmptyPrecommit(st[n], t, Polkas)
          \/ IsLocking(st[n], t, Polkas) \/ IsUnlock(st[n], t, Polkas)
          \/ IsDecision(st[n], t, Commits)
        BY <1>1, MoveShapes
    <2> QED
        BY <2>1 DEF IsNewRound, IsPrevote, IsEmptyPrecommit, IsLocking, IsUnlock, IsDecision
<1> SUFFICES ASSUME NEW m \in Correct, st'[m].decision # None
             PROVE  \E r \in Rounds : <<r, st'[m].decision>> \in Commits
    BY <1>1 DEF DecisionHasCommit
<1> QED
    BY <1>1, <1>2 DEF DecisionHasCommit

\* Every step of the committee is a move of one correct member.
LEMMA StepIsMove ==
    ASSUME Next
    PROVE  \E n \in Correct : \E t \in Moves(st[n], Polkas, Commits) : st' = [st EXCEPT ![n] = t]
<1>1. PICK n \in Correct :
        \/ EnterNewRound(n) \/ EnterPrevote(n) \/ EnterPrecommit(n)
        \/ UnlockOnPolka(n) \/ FinalizeCommit(n)
    BY DEF Next
<1>2. \E t \in NewRounds(st[n]) \cup Prevotes(st[n]) \cup Precommits(st[n], Polkas)
                \cup Unlocks(st[n], Polkas) \cup Decisions(st[n], Commits) :
            st' = [st EXCEPT ![n] = t]
    BY <1>1 DEF EnterNewRound, EnterPrevote, EnterPrecommit, UnlockOnPolka, FinalizeCommit, Move
<1> QED
    BY <1>2, Zenon DEF Moves

\* The invariant is inductive.
LEMMA NextInvariant == IInv /\ [Next]_st => IInv'
<1> SUFFICES ASSUME IInv, [Next]_st PROVE IInv'
    OBVIOUS
<1>1. CASE UNCHANGED st
    <2>1. st' = st /\ Polkas' = Polkas /\ Commits' = Commits
        BY <1>1 DEF Polkas, Commits
    <2>2. TypeOK' /\ VotesInOrder'
        BY <2>1 DEF IInv, TypeOK, VotesInOrder
    <2>3. PrecommitHasPolka' /\ PrecommitBinds' /\ DecisionHasCommit'
        BY <2>1 DEF IInv, PrecommitHasPolka, PrecommitBinds, DecisionHasCommit
    <2>4. LockedUntilReleased'
        BY <2>1 DEF IInv, LockedUntilReleased, Released
    <2>5. PolkaBlocksEarlier'
        BY <2>1 DEF IInv, PolkaBlocksEarlier, Blocked
    <2> QED
        BY <2>2, <2>3, <2>4, <2>5 DEF IInv
<1>2. CASE Next
    <2>1. PICK n \in Correct : \E t \in Moves(st[n], Polkas, Commits) : st' = [st EXCEPT ![n] = t]
        BY <1>2, StepIsMove
    <2>2. PICK t \in Moves(st[n], Polkas, Commits) : st' = [st EXCEPT ![n] = t]
        BY <2>1, Zenon
    <2>3. /\ TypeOK /\ VotesInOrder /\ PrecommitHasPolka /\ LockedUntilReleased
          /\ PrecommitBinds /\ PolkaBlocksEarlier /\ DecisionHasCommit
        BY DEF IInv
    <2>4. TypeOK' /\ VotesInOrder'
        BY <2>2, <2>3, StepMonotone, Zenon
    <2>5. PrecommitHasPolka'
        BY <2>2, <2>3, KeepsPrecommitHasPolka, Zenon
    <2>6. LockedUntilReleased'
        BY <2>2, <2>3, KeepsLockedUntilReleased, Zenon
    <2>7. PrecommitBinds'
        BY <2>2, <2>3, KeepsPrecommitBinds, Zenon
    <2>8. PolkaBlocksEarlier'
        BY <2>2, <2>3, <2>7, KeepsPolkaBlocksEarlier, Zenon
    <2>9. DecisionHasCommit'
        BY <2>2, <2>3, KeepsDecisionHasCommit, Zenon
    <2> QED
        BY <2>4, <2>5, <2>6, <2>7, <2>8, <2>9 DEF IInv
<1> QED
    BY <1>1, <1>2

\* +2/3 precommits for a block rest on +2/3 prevotes of the same round.
LEMMA CommitHasPolka ==
    ASSUME IInv, NEW c \in Commits
    PROVE  <<c[1], c[2]>> \in Polkas
<1>1. PICK Q \in Quorums : \A n \in Q \ Faulty : st[n].precommit[c[1]] = c[2]
    BY DEF Commits
<1>2. PICK n \in Q : n \in Correct
    BY QuorumIntersection
<1>3. c[1] \in Rounds /\ c[2] \in Blocks /\ st[n].precommit[c[1]] = c[2]
    BY <1>1, <1>2 DEF Commits, Correct
<1> QED
    BY <1>2, <1>3 DEF IInv, PrecommitHasPolka

\* There are no +2/3 precommits for two blocks.
LEMMA CommitsAgree ==
    ASSUME IInv, NEW c \in Commits, NEW d \in Commits
    PROVE  c[2] = d[2]
<1>1. ASSUME NEW x \in Commits, NEW y \in Commits, x[1] < y[1], x[2] # y[2] PROVE FALSE
    <2>1. x[1] \in Rounds /\ x[2] \in Blocks /\ y[1] \in Rounds /\ y[2] \in Blocks
        BY DEF Commits
    <2>2. <<y[1], y[2]>> \in Polkas
        BY CommitHasPolka
    <2>3. Blocked(x[1], x[2])
        BY <1>1, <2>1, <2>2 DEF IInv, PolkaBlocksEarlier
    <2>4. PICK P \in Quorums : \A n \in P \ Faulty : st[n].precommit[x[1]] # x[2]
        BY <2>3 DEF Blocked
    <2>5. PICK Q \in Quorums : \A n \in Q \ Faulty : st[n].precommit[x[1]] = x[2]
        BY DEF Commits
    <2>6. PICK n \in P \cap Q : n \in Correct
        BY QuorumIntersection
    <2> QED
        BY <2>4, <2>5, <2>6 DEF Correct
<1>2. ASSUME c[1] = d[1] PROVE c[2] = d[2]
    <2>1. PICK P \in Quorums : \A n \in P \ Faulty : st[n].precommit[c[1]] = c[2]
        BY DEF Commits
    <2>2. PICK Q \in Quorums : \A n \in Q \ Faulty : st[n].precommit[d[1]] = d[2]
        BY DEF Commits
    <2>3. PICK n \in P \cap Q : n \in Correct
        BY QuorumIntersection
    <2> QED
        BY <1>2, <2>1, <2>2, <2>3 DEF Correct
<1>3. c[1] \in Nat /\ d[1] \in Nat
    BY RoundsAssumption, Zenon DEF Commits
<1>4. c[1] < d[1] \/ d[1] < c[1] \/ c[1] = d[1]
    BY <1>3
<1> QED
    BY <1>1, <1>2, <1>4

----------------------------------------------------------------------------
\* The inductive invariant holds throughout.
THEOREM InductiveInvariant == Spec => []IInv
    BY InitInvariant, NextInvariant, PTL DEF Spec

\* The committee's state stays well-typed.
THEOREM TypeCorrect == Spec => []TypeOK
<1>1. IInv => TypeOK
    BY DEF IInv
<1> QED
    BY <1>1, InductiveInvariant, PTL

\* finalizeCommit never gives two correct members different blocks of one
\* height, however many rounds they need and whatever fewer than a third of
\* the committee do.
THEOREM CommitteeAgrees == Spec => []Agreement
<1>1. ASSUME IInv PROVE Agreement
    <2> SUFFICES ASSUME NEW m \in Correct, NEW n \in Correct,
                        st[m].decision # None, st[n].decision # None
                 PROVE  st[m].decision = st[n].decision
        BY DEF Agreement
    <2>1. PICK r \in Rounds : <<r, st[m].decision>> \in Commits
        BY <1>1 DEF IInv, DecisionHasCommit
    <2>2. PICK q \in Rounds : <<q, st[n].decision>> \in Commits
        BY <1>1 DEF IInv, DecisionHasCommit
    <2> QED
        BY <1>1, <2>1, <2>2, CommitsAgree
<1> QED
    BY <1>1, InductiveInvariant, PTL

\* Every finalized block was validated and prevoted by a correct member.
THEOREM DecisionsValidated == Spec => []DecisionValidated
<1>1. ASSUME IInv PROVE DecisionValidated
    <2> SUFFICES ASSUME NEW n \in Correct, st[n].decision # None
                 PROVE  \E m \in Correct, r \in Rounds : st[m].prevote[r] = st[n].decision
        BY DEF DecisionValidated
    <2>1. PICK r \in Rounds : <<r, st[n].decision>> \in Commits
        BY <1>1 DEF IInv, DecisionHasCommit
    <2>2. <<r, st[n].decision>> \in Polkas
        BY <1>1, <2>1, CommitHasPolka
    <2>3. PICK Q \in Quorums : \A m \in Q \ Faulty : st[m].prevote[r] = st[n].decision
        BY <2>2 DEF Polkas
    <2>4. PICK m \in Q : m \in Correct
        BY QuorumIntersection
    <2> QED
        BY <2>3, <2>4 DEF Correct
<1> QED
    BY <1>1, InductiveInvariant, PTL

\* A precommit for a block binds the later prevotes of its sender.
THEOREM PrecommitsBind == Spec => []PrecommitBinds
<1>1. IInv => PrecommitBinds
    BY DEF IInv
<1> QED
    BY <1>1, InductiveInvariant, PTL

----------------------------------------------------------------------------
(***************************************************************************)
(* The hand-over from one committee to the next: the state of Handover and *)
(* what its steps preserve.                                                *)
(***************************************************************************)
VARIABLES head, ends, charge

H == INSTANCE Handover

(* The committee of block n is the number of terms that ended before it.   *)
LEMMA InChargeCounts ==
  \A n, es : H!InCharge(n, es) = Cardinality({i \in DOMAIN es : es[i] < n})
  BY DEF H!InCharge, H!Cardinality, Cardinality

(* The terms that ended before block n are finitely many.                  *)
LEMMA EndedFinite ==
  ASSUME NEW es \in Seq(Nat), NEW n \in Nat
  PROVE  /\ IsFiniteSet({i \in DOMAIN es : es[i] < n})
         /\ H!InCharge(n, es) \in Nat
<1> DEFINE S == {i \in DOMAIN es : es[i] < n}
<1>1. IsFiniteSet(1 .. Len(es))
  BY FS_Interval
<1>2. S \subseteq 1 .. Len(es)
  OBVIOUS
<1>3. IsFiniteSet(S)
  BY <1>1, <1>2, FS_Subset
<1>4. Cardinality(S) \in Nat
  BY <1>3, FS_CardinalityType
<1> QED
  BY <1>3, <1>4, InChargeCounts

(* The numbers from 1 to k are k.                                          *)
LEMMA IntervalSize ==
  ASSUME NEW k \in Nat
  PROVE  IsFiniteSet(1 .. k) /\ Cardinality(1 .. k) = k
<1>1. 1 \in Int /\ k \in Int
  OBVIOUS
<1>2. IsFiniteSet(1 .. k) /\ Cardinality(1 .. k) = IF 1 > k THEN 0 ELSE k - 1 + 1
  BY ONLY <1>1, FS_Interval
<1> QED
  BY <1>2

(* When all announced terms are over, each of their ends has been passed.  *)
LEMMA AllEnded ==
  ASSUME NEW es \in Seq(Nat), NEW n \in Nat, H!InCharge(n, es) = Len(es)
  PROVE  \A i \in DOMAIN es : es[i] < n
<1> DEFINE S == {i \in DOMAIN es : es[i] < n}
<1>0. Len(es) \in Nat
  OBVIOUS
<1>1. IsFiniteSet(1 .. Len(es)) /\ Cardinality(1 .. Len(es)) = Len(es)
  BY <1>0, IntervalSize
<1>2. S \subseteq 1 .. Len(es) /\ Cardinality(S) = Cardinality(1 .. Len(es))
  BY <1>1, InChargeCounts
<1>3. S = 1 .. Len(es)
  BY <1>1, <1>2, FS_Subset
<1> QED
  BY <1>3

(* A term that ends at or after n does not count for block n.              *)
LEMMA AppendKeeps ==
  ASSUME NEW es \in Seq(Nat), NEW e \in Nat, NEW n \in Nat, n <= e
  PROVE  H!InCharge(n, Append(es, e)) = H!InCharge(n, es)
<1>1. {i \in DOMAIN Append(es, e) : Append(es, e)[i] < n} = {i \in DOMAIN es : es[i] < n}
  OBVIOUS
<1> QED
  BY <1>1, InChargeCounts

(* A step of the abstract election keeps the invariant.                    *)
LEMMA ChargeStep == H!ChargeRight /\ [H!Next]_(H!vars) => H!ChargeRight'
<1> SUFFICES ASSUME H!ChargeRight, [H!Next]_(H!vars) PROVE H!ChargeRight'
  OBVIOUS
<1> USE DEF H!ChargeRight
<1>1. CASE H!Announce
  <2> DEFINE e == ends'[Len(ends')]
  <2>1. /\ e \in Nat /\ e > head /\ ends' = Append(ends, e)
        /\ head' = head /\ charge' = charge /\ H!InCharge(head + 1, ends) = Len(ends)
    BY <1>1 DEF H!Announce
  <2> HIDE DEF e
  <2>2. \A i \in DOMAIN ends : ends[i] < head + 1
    BY <2>1, AllEnded
  <2>3. ends' \in Seq(Nat)
    BY <2>1
  <2>4. H!InCharge(head + 1, ends') = H!InCharge(head + 1, ends)
    BY <2>1, AppendKeeps
  <2>5. \A i, j \in DOMAIN ends' : i < j => ends'[i] < ends'[j]
    <3> SUFFICES ASSUME NEW i \in DOMAIN ends', NEW j \in DOMAIN ends', i < j
                 PROVE  ends'[i] < ends'[j]
      OBVIOUS
    <3>1. CASE j = Len(ends) + 1
      <4>1. i \in DOMAIN ends /\ ends'[i] = ends[i] /\ ends'[j] = e
        BY <2>1, <3>1
      <4>2. ends[i] \in Nat /\ ends[i] < head + 1
        BY <2>2, <4>1
      <4> QED
        BY <2>1, <4>1, <4>2
    <3>2. CASE j # Len(ends) + 1
      <4>1. i \in DOMAIN ends /\ j \in DOMAIN ends /\ ends'[i] = ends[i] /\ ends'[j] = ends[j]
        BY <2>1, <3>2
      <4> QED
        BY <4>1
    <3> QED
      BY <3>1, <3>2
  <2> QED
    BY <2>1, <2>3, <2>4, <2>5
<1>2. CASE H!Decide
  <2>1. head' = head + 1 /\ ends' = ends /\ charge' = H!InCharge(head + 2, ends)
    BY <1>2 DEF H!Decide
  <2>2. head' + 1 = head + 2 /\ head' \in Nat
    BY <2>1
  <2> QED
    BY <2>1, <2>2
<1>3. CASE H!RollBack
  <2>1. head' \in 0 .. head /\ ends' = ends /\ charge' = H!InCharge(head' + 1, ends)
    BY <1>3 DEF H!RollBack
  <2> QED
    BY <2>1
<1>4. CASE UNCHANGED H!vars
  BY <1>4, InChargeCounts DEF H!vars
<1> QED
  BY <1>1, <1>2, <1>3, <1>4 DEF H!Next

(* The charge is always that of the next block, and terms never overlap    *)
(* (electedCommittee, getEndFast).                                         *)
THEOREM ChargeIsRight == H!Spec => []H!ChargeRight
<1>1. H!Init => H!ChargeRight
  <2> SUFFICES ASSUME H!Init PROVE H!ChargeRight
    OBVIOUS
  <2>1. {i \in DOMAIN ends : ends[i] < head + 1} = {}
    BY DEF H!Init
  <2>2. H!InCharge(head + 1, ends) = 0
    BY <2>1, FS_EmptySet, InChargeCounts
  <2> QED
    BY <2>2 DEF H!Init, H!ChargeRight
<1> QED
  BY <1>1, ChargeStep, PTL DEF H!Spec

(* Blocks of the past and the next one keep their committee, whatever is   *)
(* announced later (GetCommittee for a block of the past).                 *)
THEOREM BlocksKeepTheirCommittee == H!Spec => H!BlocksKeepCommittee
<1> DEFINE Kept == \A n \in 1 .. head + 1 : H!InCharge(n, ends') = H!InCharge(n, ends)
<1>1. H!ChargeRight /\ [H!Next]_(H!vars) => [Kept]_(H!vars)
  <2> SUFFICES ASSUME H!ChargeRight, H!Next, NEW n \in 1 .. head + 1
               PROVE  H!InCharge(n, ends') = H!InCharge(n, ends)
    BY DEF H!ChargeRight
  <2>1. CASE H!Announce
    <3> DEFINE e == ends'[Len(ends')]
    <3>1. e \in Nat /\ e > head /\ ends' = Append(ends, e)
      BY <2>1 DEF H!Announce
    <3> HIDE DEF e
    <3>2. n \in Nat /\ n <= e /\ ends \in Seq(Nat)
      BY <3>1 DEF H!ChargeRight
    <3> QED
      BY <3>1, <3>2, AppendKeeps
  <2>2. CASE H!Decide \/ H!RollBack
    BY <2>2 DEF H!Decide, H!RollBack
  <2> QED
    BY <2>1, <2>2 DEF H!Next
<1> QED
  BY <1>1, ChargeIsRight, PTL DEF H!Spec, H!BlocksKeepCommittee

(* The next committee takes over at the last block of a term and nowhere   *)
(* else; no committee is skipped (FinalizeCommittee, switchNext).          *)
THEOREM ChargeMovesOnlyAtEnds == H!Spec => H!ChargeMovesAtEnds
<1> DEFINE AtEnd == charge' > charge =>
                      /\ head' = head + 1 /\ charge' = charge + 1
                      /\ \E i \in DOMAIN ends : ends[i] = head'
<1>1. H!ChargeRight /\ [H!Next]_(H!vars) => [AtEnd]_(H!vars)
  <2> SUFFICES ASSUME H!ChargeRight, H!Next, charge' > charge
               PROVE  /\ head' = head + 1 /\ charge' = charge + 1
                      /\ \E i \in DOMAIN ends : ends[i] = head'
    OBVIOUS
  <2>0. head \in Nat /\ ends \in Seq(Nat) /\ charge = H!InCharge(head + 1, ends)
    BY DEF H!ChargeRight
  <2>1. H!InCharge(head + 1, ends) \in Nat
    <3>1. head + 1 \in Nat
      BY <2>0
    <3> QED
      BY <2>0, <3>1, EndedFinite
  <2>2. CASE H!Announce
    <3>1. charge' = charge
      BY <2>2 DEF H!Announce
    <3> QED
      BY <2>0, <2>1, <3>1
  <2>3. CASE H!RollBack
    <3> DEFINE S == {i \in DOMAIN ends : ends[i] < head + 1}
               T == {i \in DOMAIN ends : ends[i] < head' + 1}
    <3>1. head' \in 0 .. head /\ charge' = Cardinality(T) /\ charge = Cardinality(S)
      BY <2>0, <2>3, InChargeCounts DEF H!RollBack
    <3>2. T \subseteq S
      BY <2>0, <3>1
    <3>3. IsFiniteSet(S) /\ Cardinality(S) \in Nat
      BY <2>0, EndedFinite, FS_CardinalityType
    <3> HIDE DEF S, T
    <3>4. Cardinality(T) <= Cardinality(S) /\ Cardinality(T) \in Nat
      BY <3>2, <3>3, FS_Subset, FS_CardinalityType
    <3> QED
      BY <3>1, <3>3, <3>4
  <2>4. CASE H!Decide
    <3> DEFINE S == {i \in DOMAIN ends : ends[i] < head + 1}
               T == {i \in DOMAIN ends : ends[i] < head + 2}
    <3>1. head' = head + 1 /\ charge' = Cardinality(T) /\ charge = Cardinality(S)
      BY <2>0, <2>4, InChargeCounts DEF H!Decide
    <3>2. IsFiniteSet(S) /\ Cardinality(S) \in Nat
      BY <2>0, EndedFinite, FS_CardinalityType
    <3>3. S # T
      <4> HIDE DEF S, T
      <4> SUFFICES ASSUME S = T PROVE FALSE
        OBVIOUS
      <4>1. charge' = charge /\ charge \in Nat
        BY <3>1, <3>2
      <4> QED
        BY <4>1
    <3>4. PICK i \in DOMAIN ends : ends[i] = head + 1
      BY <2>0, <3>3
    <3>5. T = S \cup {i} /\ i \notin S
      <4>1. \A j \in DOMAIN ends : ends[j] = head + 1 => j = i
        BY <2>0, <3>4 DEF H!ChargeRight
      <4>2. \A j \in DOMAIN ends : ends[j] < head + 2 <=> ends[j] < head + 1 \/ ends[j] = head + 1
        BY <2>0
      <4> QED
        BY <2>0, <3>4, <4>1, <4>2
    <3> HIDE DEF S, T
    <3>6. Cardinality(T) = Cardinality(S) + 1
      BY <3>2, <3>5, FS_AddElement
    <3> QED
      BY <3>1, <3>4, <3>6
  <2> QED
    BY <2>2, <2>3, <2>4 DEF H!Next
<1> QED
  BY <1>1, ChargeIsRight, PTL DEF H!Spec, H!ChargeMovesAtEnds
============================================================================
