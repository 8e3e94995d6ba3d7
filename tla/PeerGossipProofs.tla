-------------------------- MODULE PeerGossipProofs --------------------------
(***************************************************************************)
(* BeliefSound for any committee, quorum, number of rounds and bounds.     *)
(* Each operation of PeerState is shown to keep a belief good on its own;  *)
(* the votes offered to the peer only grow, and the messages of the peer   *)
(* stay true, so every step of the two nodes keeps it good.                *)
(***************************************************************************)
EXTENDS PeerGossip, TLAPS

Offers == [Rounds -> SUBSET Validators]

(* A belief stays good when more votes have been offered.                  *)
LEMMA GoodGrows ==
  ASSUME NEW off \in Offers, NEW more \in Offers, \A r \in Rounds : off[r] \subseteq more[r],
         NEW b, Good(b, off)
  PROVE  Good(b, more)
<1>1. \A v, r : BitsWithin(v, r, off) => BitsWithin(v, r, more)
  BY DEF BitsWithin
<1> QED
  BY <1>1 DEF Good

(* ensureCatchupCommitRound keeps the belief good: the catch-up array      *)
(* starts empty, or is the array of the round the peer is in.              *)
LEMMA EnsureCatchupGood ==
  ASSUME NEW off \in Offers, NEW b, Good(b, off), NEW round \in Rounds
  PROVE  Good(ensureCatchupCommitRound(b, round), off)
<1> DEFINE c == ensureCatchupCommitRound(b, round)
<1>1. CASE b.height # 1 \/ b.catchupRound = round
  BY <1>1 DEF ensureCatchupCommitRound
<1>2. CASE ~(b.height # 1 \/ b.catchupRound = round) /\ round = b.round
  <2>1. c = [b EXCEPT !.catchupRound = round, !.catchup = b.precommits,
                      !.shared = b.precommits.ok]
    BY <1>2 DEF ensureCatchupCommitRound
  <2> HIDE DEF c
  <2>2. c \in PeerRoundStates
    BY <2>1, Zenon DEF Good, PeerRoundStates, BitArrays, RoundsOrNone
  <2>3. /\ c.height = b.height /\ c.round = b.round /\ c.precommits = b.precommits
        /\ c.lastRound = b.lastRound /\ c.last = b.last /\ c.catchupRound = round
        /\ c.catchup = b.precommits /\ c.shared = b.precommits.ok
    BY <2>1 DEF Good, PeerRoundStates
  <2>4. Good(c, off)
    BY <1>2, <2>2, <2>3 DEF Good, BitsWithin, newBits
  <2> QED
    BY <2>4 DEF c
<1>3. CASE ~(b.height # 1 \/ b.catchupRound = round) /\ round # b.round
  <2>1. c = [b EXCEPT !.catchupRound = round, !.catchup = newBits, !.shared = FALSE]
    BY <1>3 DEF ensureCatchupCommitRound
  <2> HIDE DEF c
  <2>2. c \in PeerRoundStates
    BY <2>1, Zenon DEF Good, PeerRoundStates, BitArrays, RoundsOrNone, newBits
  <2>3. /\ c.height = b.height /\ c.round = b.round /\ c.precommits = b.precommits
        /\ c.lastRound = b.lastRound /\ c.last = b.last /\ c.catchupRound = round
        /\ c.catchup = newBits /\ c.shared = FALSE
    BY <2>1 DEF Good, PeerRoundStates
  <2>4. Good(c, off)
    BY <1>3, <2>2, <2>3 DEF Good, BitsWithin, newBits
  <2> QED
    BY <2>4 DEF c
<1> QED
  BY <1>1, <1>2, <1>3

(* ensureVoteBitArrays replaces nil arrays by empty ones.                  *)
LEMMA EnsureVoteGood ==
  ASSUME NEW off \in Offers, NEW b, Good(b, off)
  PROVE  Good(ensureVoteBitArrays(b), off)
<1> DEFINE c == ensureVoteBitArrays(b)
<1>1. CASE b.height = 1
  <2>1. c = [b EXCEPT !.precommits = IF b.precommits.ok THEN b.precommits ELSE newBits,
                      !.catchup = IF b.catchup.ok THEN b.catchup ELSE newBits]
    BY <1>1 DEF ensureVoteBitArrays
  <2> HIDE DEF c
  <2>2. c \in PeerRoundStates
    BY <2>1, Zenon DEF Good, PeerRoundStates, BitArrays, newBits
  <2>3. /\ c.height = b.height /\ c.round = b.round /\ c.precommits = (IF b.precommits.ok THEN b.precommits ELSE newBits)
        /\ c.lastRound = b.lastRound /\ c.last = b.last /\ c.catchupRound = b.catchupRound
        /\ c.catchup = (IF b.catchup.ok THEN b.catchup ELSE newBits) /\ c.shared = b.shared
    BY <2>1 DEF Good, PeerRoundStates
  <2>4. Good(c, off)
    BY <1>1, <2>2, <2>3 DEF Good, BitsWithin, newBits
  <2> QED
    BY <2>4 DEF c
<1>2. CASE b.height = 2
  <2>1. c = [b EXCEPT !.last = IF b.last.ok THEN b.last ELSE newBits]
    BY <1>2 DEF ensureVoteBitArrays
  <2> HIDE DEF c
  <2>2. c \in PeerRoundStates
    BY <2>1, Zenon DEF Good, PeerRoundStates, BitArrays, newBits
  <2>3. /\ c.height = b.height /\ c.round = b.round /\ c.precommits = b.precommits
        /\ c.lastRound = b.lastRound /\ c.last = (IF b.last.ok THEN b.last ELSE newBits) /\ c.catchupRound = b.catchupRound
        /\ c.catchup = b.catchup /\ c.shared = b.shared
    BY <2>1 DEF Good, PeerRoundStates
  <2>4. Good(c, off)
    BY <1>2, <2>2, <2>3 DEF Good, BitsWithin, newBits
  <2> QED
    BY <2>4 DEF c
<1>3. CASE b.height # 1 /\ b.height # 2
  BY <1>3 DEF ensureVoteBitArrays
<1> QED
  BY <1>1, <1>2, <1>3

(* The array that getVoteBitArray finds for a round holds votes of it.     *)
LEMMA FoundWithin ==
  ASSUME NEW off \in Offers, NEW b, Good(b, off), NEW round \in Rounds
  PROVE  /\ getVoteBitArray(b, round) \in BitArrays
         /\ getVoteBitArray(b, round).set \subseteq off[round]
  BY DEF Good, PeerRoundStates, getVoteBitArray, whichBits, BitsWithin, Nil, BitArrays

(* Writing votes that were offered for the round keeps the belief good.    *)
LEMMA PutGood ==
  ASSUME NEW off \in Offers, NEW b, Good(b, off), NEW round \in Rounds,
         NEW v \in BitArrays, v.set \subseteq off[round],
         v.ok \/ v = getVoteBitArray(b, round)
  PROVE  Good(putBits(b, round, v), off)
<1> DEFINE c == putBits(b, round, v)
<1>1. CASE whichBits(b, round) = "precommits"
  <2>1. c = [b EXCEPT !.precommits = v, !.catchup = IF b.shared THEN v ELSE b.catchup]
    BY <1>1 DEF putBits
  <2>2. b.height = 1 /\ b.round = round /\ (v.ok \/ v = b.precommits)
    BY <1>1 DEF whichBits, getVoteBitArray
  <2> HIDE DEF c
  <2>3. c \in PeerRoundStates
    BY <2>1, Zenon DEF Good, PeerRoundStates
  <2>4. /\ c.height = b.height /\ c.round = b.round /\ c.precommits = v
        /\ c.lastRound = b.lastRound /\ c.last = b.last /\ c.catchupRound = b.catchupRound
        /\ c.catchup = (IF b.shared THEN v ELSE b.catchup) /\ c.shared = b.shared
    BY <2>1 DEF Good, PeerRoundStates
  <2>5. Good(c, off)
    BY <2>2, <2>3, <2>4 DEF Good, BitsWithin, newBits
  <2> QED
    BY <2>5 DEF c
<1>2. CASE whichBits(b, round) = "catchup"
  <2>1. c = [b EXCEPT !.catchup = v, !.precommits = IF b.shared THEN v ELSE b.precommits]
    BY <1>2 DEF putBits
  <2>2. b.height = 1 /\ b.round # round /\ b.catchupRound = round /\ ~b.shared
    BY <1>2 DEF whichBits, Good, PeerRoundStates
  <2> HIDE DEF c
  <2>3. c \in PeerRoundStates
    BY <2>1, Zenon DEF Good, PeerRoundStates
  <2>4. /\ c.height = b.height /\ c.round = b.round /\ c.precommits = (IF b.shared THEN v ELSE b.precommits)
        /\ c.lastRound = b.lastRound /\ c.last = b.last /\ c.catchupRound = b.catchupRound
        /\ c.catchup = v /\ c.shared = b.shared
    BY <2>1 DEF Good, PeerRoundStates
  <2>5. Good(c, off)
    BY <2>2, <2>3, <2>4 DEF Good, BitsWithin, newBits
  <2> QED
    BY <2>5 DEF c
<1>3. CASE whichBits(b, round) = "last"
  <2>1. c = [b EXCEPT !.last = v]
    BY <1>3 DEF putBits
  <2>2. b.height = 2 /\ b.lastRound = round
    BY <1>3 DEF whichBits
  <2> HIDE DEF c
  <2>3. c \in PeerRoundStates
    BY <2>1 DEF Good, PeerRoundStates
  <2>4. /\ c.height = b.height /\ c.round = b.round /\ c.precommits = b.precommits
        /\ c.lastRound = b.lastRound /\ c.last = v /\ c.catchupRound = b.catchupRound
        /\ c.catchup = b.catchup /\ c.shared = b.shared
    BY <2>1 DEF Good, PeerRoundStates
  <2>5. Good(c, off)
    BY <2>2, <2>3, <2>4 DEF Good, BitsWithin, newBits
  <2> QED
    BY <2>5 DEF c
<1>4. CASE whichBits(b, round) = "none"
  BY <1>4 DEF putBits
<1> QED
  BY <1>1, <1>2, <1>3, <1>4 DEF whichBits

(* setHasVote marks a vote that was offered.                               *)
LEMMA SetHasVoteGood ==
  ASSUME NEW off \in Offers, NEW b, Good(b, off), NEW round \in Rounds,
         NEW i \in Validators, i \in off[round]
  PROVE  Good(setHasVote(b, round, i), off)
<1> DEFINE a == getVoteBitArray(b, round)
           v == setIndex(a, i)
<1>1. a \in BitArrays /\ a.set \subseteq off[round]
  BY FoundWithin
<1>2. v \in BitArrays /\ v.set \subseteq off[round] /\ (v.ok \/ v = a)
  <2> HIDE DEF a
  <2> QED
    BY <1>1 DEF setIndex, BitArrays
<1> HIDE DEF v
<1>3. Good(putBits(b, round, v), off)
  BY <1>2, PutGood
<1> QED
  BY <1>3 DEF setHasVote, v

(* The peer's new height and round: arrays of another round are dropped,   *)
(* the catch-up array becomes the array of the round it was kept for.      *)
LEMMA NewRoundStepGood ==
  ASSUME NEW off \in Offers, NEW b, Good(b, off), NEW m,
         m.height \in 1 .. 2, m.round \in Rounds, m.step \in 1 .. 3, m.last \in RoundsOrNone
  PROVE  Good(ApplyNewRoundStepMessage(b, m), off)
<1> DEFINE c == ApplyNewRoundStepMessage(b, m)
           moved == b.height # m.height \/ b.round # m.round
           caught == b.height = m.height /\ b.round # m.round /\ m.round = b.catchupRound
           n(votes, same) == [b EXCEPT !.height = m.height, !.round = m.round, !.step = m.step,
                                       !.precommits = votes, !.shared = same]
           votes == IF caught THEN b.catchup ELSE IF moved THEN Nil ELSE b.precommits
           same == IF moved THEN caught /\ b.catchup.ok ELSE b.shared
<1>0. ~older(m, b) =>
        c = IF b.height = m.height THEN n(votes, same)
            ELSE [n(votes, same) EXCEPT !.lastRound = m.last, !.last = Nil,
                    !.catchupRound = NoRound, !.catchup = Nil, !.shared = FALSE]
  BY DEF ApplyNewRoundStepMessage
<1>t. /\ m.height \in 0 .. 2 /\ m.step \in 0 .. 3 /\ m.round \in RoundsOrNone
      /\ NoRound \in RoundsOrNone /\ Nil \in BitArrays
  BY DEF RoundsOrNone, Nil, BitArrays
<1>1. CASE older(m, b)
  BY <1>1 DEF ApplyNewRoundStepMessage
<1>2. CASE ~older(m, b) /\ b.height # m.height
  <2>1. c = [n(Nil, FALSE) EXCEPT !.lastRound = m.last, !.last = Nil,
               !.catchupRound = NoRound, !.catchup = Nil, !.shared = FALSE]
    <3>1. votes = Nil /\ same = FALSE
      BY <1>2
    <3> HIDE DEF c, votes, same
    <3> QED
      BY <1>0, <1>2, <3>1, Zenon
  <2> HIDE DEF c
  <2>2. c \in PeerRoundStates
    BY <1>t, <2>1, Zenon DEF Good, PeerRoundStates
  <2>3. /\ c.precommits = Nil /\ c.last = Nil /\ c.catchup = Nil /\ c.shared = FALSE
    BY <2>1 DEF Good, PeerRoundStates
  <2>4. Good(c, off)
    BY <2>2, <2>3 DEF Good, BitsWithin, Nil
  <2> QED
    BY <2>4 DEF c
<1>3. CASE ~older(m, b) /\ b.height = m.height /\ b.round = m.round
  <2>1. c = [b EXCEPT !.step = m.step]
    BY <1>3, Zenon DEF ApplyNewRoundStepMessage, Good, PeerRoundStates
  <2> HIDE DEF c
  <2>2. c \in PeerRoundStates
    BY <2>1 DEF Good, PeerRoundStates
  <2>3. /\ c.height = b.height /\ c.round = b.round /\ c.precommits = b.precommits
        /\ c.lastRound = b.lastRound /\ c.last = b.last /\ c.catchupRound = b.catchupRound
        /\ c.catchup = b.catchup /\ c.shared = b.shared
    BY <2>1 DEF Good, PeerRoundStates
  <2>4. Good(c, off)
    BY <2>2, <2>3 DEF Good
  <2> QED
    BY <2>4 DEF c
<1>4. CASE /\ ~older(m, b) /\ b.height = m.height /\ b.round # m.round
           /\ m.round = b.catchupRound
  <2>1. c = n(b.catchup, b.catchup.ok)
    <3>1. votes = b.catchup /\ same = b.catchup.ok
      BY <1>4 DEF Good, PeerRoundStates, BitArrays
    <3> HIDE DEF c, votes, same
    <3> QED
      BY <1>0, <1>4, <3>1
  <2> HIDE DEF c
  <2>2. c \in PeerRoundStates
    BY <1>t, <2>1, Zenon DEF Good, PeerRoundStates, BitArrays
  <2>3. /\ c.height = b.height /\ c.round = b.catchupRound /\ c.precommits = b.catchup
        /\ c.lastRound = b.lastRound /\ c.last = b.last /\ c.catchupRound = b.catchupRound
        /\ c.catchup = b.catchup /\ c.shared = b.catchup.ok
    BY <1>4, <2>1 DEF Good, PeerRoundStates
  <2>4. Good(c, off)
    BY <2>2, <2>3 DEF Good
  <2> QED
    BY <2>4 DEF c
<1>5. CASE /\ ~older(m, b) /\ b.height = m.height /\ b.round # m.round
           /\ m.round # b.catchupRound
  <2>1. c = n(Nil, FALSE)
    <3>1. votes = Nil /\ same = FALSE
      BY <1>5
    <3> HIDE DEF c, votes, same
    <3> QED
      BY <1>0, <1>5, <3>1, Zenon
  <2> HIDE DEF c
  <2>2. c \in PeerRoundStates
    BY <1>t, <2>1, Zenon DEF Good, PeerRoundStates
  <2>3. /\ c.height = b.height /\ c.precommits = Nil
        /\ c.lastRound = b.lastRound /\ c.last = b.last /\ c.catchupRound = b.catchupRound
        /\ c.catchup = b.catchup /\ c.shared = FALSE
    BY <1>5, <2>1 DEF Good, PeerRoundStates
  <2>4. Good(c, off)
    BY <2>2, <2>3 DEF Good, BitsWithin, Nil
  <2> QED
    BY <2>4 DEF c
<1> QED
  BY <1>1, <1>2, <1>3, <1>4, <1>5

(* The claims of the peer replace what was believed by votes it has.       *)
LEMMA VoteSetBitsGood ==
  ASSUME NEW off \in Offers, NEW b, Good(b, off), NEW round \in Rounds,
         NEW claimed \in BitArrays, claimed.set \subseteq off[round], NEW ours \in BitArrays
  PROVE  Good(ApplyVoteSetBitsMessage(b, round, claimed, ours), off)
<1> DEFINE a == getVoteBitArray(b, round)
           v == [ok |-> TRUE, set |-> (a.set \ ours.set) \cup claimed.set]
<1>1. a \in BitArrays /\ a.set \subseteq off[round]
  BY FoundWithin
<1>2. CASE ~a.ok
  BY <1>2 DEF ApplyVoteSetBitsMessage
<1>3. CASE a.ok /\ ours.ok
  <2>1. v \in BitArrays /\ v.set \subseteq off[round] /\ v.ok
    <3> HIDE DEF a
    <3> QED
      BY <1>1 DEF BitArrays
  <2> HIDE DEF v
  <2>2. Good(putBits(b, round, v), off)
    BY <2>1, PutGood
  <2> QED
    BY <1>3, <2>2 DEF ApplyVoteSetBitsMessage, v
<1>4. CASE a.ok /\ ~ours.ok /\ claimed.ok
  <2>1. Good(putBits(b, round, claimed), off)
    BY <1>4, PutGood
  <2> QED
    BY <1>4, <2>1 DEF ApplyVoteSetBitsMessage
<1>5. CASE a.ok /\ ~ours.ok /\ ~claimed.ok
  BY <1>5 DEF ApplyVoteSetBitsMessage
<1> QED
  BY <1>2, <1>3, <1>4, <1>5

-----------------------------------------------------------------------------
(* The bounds of a behaviour are rounds.                                   *)
LEMMA ScopeType ==
  ASSUME TypeOK
  PROVE  /\ MaxRound \in Nat /\ 0 \in Rounds
         /\ scope.round \in Rounds /\ scope.first \in Rounds
  BY GossipAssumption DEF TypeOK, Rounds

(* What was offered to P, in flight or lost, are votes of members.         *)
LEMMA OfferedType ==
  ASSUME TypeOK
  PROVE  OfferedVotes \in Offers
  BY DEF TypeOK, OfferedVotes, Offered, InFlight, Offers

(* Nothing is believed and nothing was said when the peer is added.        *)
LEMMA InitGood == Init => IInv
<1> SUFFICES ASSUME Init
             PROVE  IInv
  OBVIOUS
<1>1. MaxRound \in Nat /\ 0 \in Rounds /\ scope.first \in Rounds
  BY GossipAssumption DEF Init, Rounds
<1>2. s \in [height : 1 .. 3, round : Rounds, votes : [Rounds -> SUBSET Validators],
             commit : RoundsOrNone, stored : SUBSET Validators] /\ s.height = 1
  BY <1>1 DEF Init, RoundsOrNone
<1>3. p \in [height : 1 .. 2, round : Rounds, step : 1 .. 3,
             votes : [Rounds -> SUBSET Validators],
             tracked : SUBSET Rounds, catchup : SUBSET Rounds, last : RoundsOrNone]
  BY <1>1 DEF Init, RoundsOrNone, Voting
<1>4. prs \in PeerRoundStates
  BY DEF Init, PeerRoundStates, RoundsOrNone, BitArrays, Nil
<1>5. TypeOK
  BY <1>2, <1>3, <1>4 DEF Init, TypeOK
<1>6. MessagesTrue
  BY <1>3 DEF Init, MessagesTrue, stepMsg
<1>7. Good(prs, OfferedVotes)
  BY <1>4 DEF Init, Good
<1> QED
  BY <1>5, <1>6, <1>7 DEF IInv

(* The steps of S that touch neither the peer nor its messages.            *)
LEMMA SMovesStep ==
  ASSUME IInv, SMoves
  PROVE  IInv'
<1> USE DEF IInv
<1> DEFINE off == OfferedVotes
<1>1. off \in Offers
  BY OfferedType
<1>2. UNCHANGED <<p, toP, query, toS, bits, lost, fails, scope>>
  BY Zenon DEF SMoves, SGetsVote, SNextRound, SCommits, SNextHeight
<1>3. OfferedVotes' = off
  BY <1>2 DEF OfferedVotes, Offered, InFlight
<1>4. MessagesTrue'
  BY <1>2 DEF MessagesTrue
<1>5. Good(prs', off)
  <2>1. CASE prs' = prs
    BY <2>1
  <2>2. CASE \E r \in Rounds, i \in Validators : 
               i \in p.votes[r] /\ prs' = setHasVote(ensureVoteBitArrays(prs), r, i)
    <3>1. PICK r \in Rounds, i \in Validators :
               i \in p.votes[r] /\ prs' = setHasVote(ensureVoteBitArrays(prs), r, i)
      BY <2>2
    <3>2. i \in off[r]
      BY <3>1 DEF OfferedVotes, Offered
    <3> HIDE DEF off
    <3>3. Good(ensureVoteBitArrays(prs), off)
      BY <1>1, EnsureVoteGood DEF off
    <3> QED
      BY <1>1, <3>1, <3>2, <3>3, SetHasVoteGood
  <2> QED
    BY <2>1, <2>2, Zenon DEF SMoves, SGetsVote, SNextRound, SCommits, SNextHeight
<1> DEFINE S == [height : 1 .. 3, round : Rounds, votes : [Rounds -> SUBSET Validators],
                 commit : RoundsOrNone, stored : SUBSET Validators]
<1>6. s' \in S /\ (s'.height > 1 => s'.commit \in Rounds)
  <2>s. s \in S /\ (s.height > 1 => s.commit \in Rounds)
    BY DEF TypeOK
  <2>1. ASSUME NEW r \in Rounds, NEW i \in Validators, SGetsVote(r, i)
        PROVE  <1>6
    BY <2>s, <2>1 DEF SGetsVote
  <2>2. ASSUME NEW r \in Rounds, SCommits(r)
        PROVE  <1>6
    <3> DEFINE v == s.votes[r]
    <3>1. r \in RoundsOrNone /\ v \in SUBSET Validators /\ 2 \in 1 .. 3
      BY <2>s DEF RoundsOrNone
    <3>2. s' = [s EXCEPT !.height = 2, !.commit = r, !.stored = v]
      BY <2>2 DEF SCommits
    <3> HIDE DEF v
    <3>3. s' \in S
      BY <2>s, <3>1, <3>2, Zenon
    <3> QED
      BY <2>s, <3>2, <3>3
  <2>3. CASE SNextRound
    <3>1. s.round + 1 \in Rounds
      BY <2>s, <2>3, ScopeType DEF SNextRound, Rounds
    <3>2. s' = [s EXCEPT !.round = s.round + 1]
      BY <2>3 DEF SNextRound
    <3> QED
      BY <2>s, <3>1, <3>2
  <2>4. CASE SNextHeight
    <3>1. s.height = 2 /\ s' = [s EXCEPT !.height = 3]
      BY <2>4 DEF SNextHeight
    <3> QED
      BY <2>s, <3>1
  <2> QED
    BY <2>1, <2>2, <2>3, <2>4 DEF SMoves
<1>7. TypeOK'
  BY <1>2, <1>5, <1>6 DEF TypeOK, Good
<1> QED
  BY <1>3, <1>4, <1>5, <1>7

(* The votes offered, and the truth of the messages, when P alone moves.   *)
LEMMA PeerStep ==
  ASSUME IInv, UNCHANGED <<s, prs, query, bits, fails, scope>>,
         p' \in [height : 1 .. 2, round : Rounds, step : 1 .. 3,
                 votes : [Rounds -> SUBSET Validators],
                 tracked : SUBSET Rounds, catchup : SUBSET Rounds, last : RoundsOrNone],
         toP' \in Seq(Rounds \X Validators), lost' \in [Rounds -> SUBSET Validators],
         \A r \in Rounds : p.votes[r] \subseteq p'.votes[r],
         \A r \in Rounds : Offered(r) \subseteq Offered(r)',
         \A m \in toS' \ toS :
           \/ /\ m.kind = "step" /\ m.height \in 1 .. 2 /\ m.round \in Rounds
              /\ m.step \in 1 .. 3 /\ m.last \in RoundsOrNone
           \/ /\ m.kind = "hasVote" /\ m.height = 1 /\ m.round \in Rounds
              /\ m.index \in p'.votes[m.round]
  PROVE  IInv'
<1> USE DEF IInv
<1>1. TypeOK'
  BY DEF TypeOK
<1>2. MessagesTrue'
  <2>1. ASSUME NEW m \in toS'
        PROVE  \/ /\ m.kind = "step" /\ m.height \in 1 .. 2 /\ m.round \in Rounds
                  /\ m.step \in 1 .. 3 /\ m.last \in RoundsOrNone
               \/ /\ m.kind = "hasVote" /\ m.height = 1 /\ m.round \in Rounds
                  /\ m.index \in p'.votes[m.round]
    BY DEF MessagesTrue
  <2>2. ASSUME NEW k \in 1 .. Len(bits')
        PROVE  bits'[k].votes.set \subseteq p'.votes[bits'[k].round]
    <3> DEFINE B == [round : Rounds, votes : BitArrays]
    <3>0. bits \in Seq(B) /\ k \in 1 .. Len(bits)
      BY DEF TypeOK
    <3>1. bits[k] \in B
      <4> HIDE DEF B
      <4> QED
        BY <3>0
    <3> QED
      BY <3>1 DEF MessagesTrue
  <2> QED
    BY <2>1, <2>2 DEF MessagesTrue
<1>3. Good(prs', OfferedVotes')
  <2>1. OfferedVotes \in Offers /\ OfferedVotes' \in Offers
    BY <1>1, OfferedType DEF TypeOK, OfferedVotes, Offered, InFlight, Offers
  <2>2. \A r \in Rounds : OfferedVotes[r] \subseteq (OfferedVotes')[r]
    BY DEF OfferedVotes
  <2>3. Good(prs, OfferedVotes')
    BY <2>1, <2>2, GoodGrows
  <2> QED
    BY <2>3
<1> QED
  BY <1>1, <1>2, <1>3

Peers == [height : 1 .. 2, round : Rounds, step : 1 .. 3,
          votes : [Rounds -> SUBSET Validators],
          tracked : SUBSET Rounds, catchup : SUBSET Rounds, last : RoundsOrNone]

StepMsgOK(m) == /\ m.kind = "step" /\ m.height \in 1 .. 2 /\ m.round \in Rounds
                /\ m.step \in 1 .. 3 /\ m.last \in RoundsOrNone

(* P says where it is.                                                     *)
LEMMA StepMsgTrue ==
  ASSUME NEW q \in Peers
  PROVE  StepMsgOK(stepMsg(q))
  BY DEF Peers, stepMsg, StepMsgOK

(* A vote that P adds.                                                     *)
LEMMA AddedType ==
  ASSUME TypeOK, NEW r \in Rounds, NEW i \in Validators
  PROVE  /\ added(r, i) \in Peers
         /\ added(r, i).votes = [p.votes EXCEPT ![r] = @ \cup {i}]
<1>1. p \in Peers
  BY DEF TypeOK, Peers
<1> DEFINE v == [p.votes EXCEPT ![r] = @ \cup {i}]
           t == p.tracked \cup {r}
           c == IF r \in p.tracked THEN p.catchup ELSE p.catchup \cup {r}
<1>2. v \in [Rounds -> SUBSET Validators] /\ t \in SUBSET Rounds /\ c \in SUBSET Rounds
  BY <1>1 DEF Peers
<1>3. added(r, i) = [p EXCEPT !.votes = v, !.tracked = t, !.catchup = c]
  BY <1>1 DEF added, Peers
<1> HIDE DEF v, t, c
<1>4. added(r, i) \in Peers /\ added(r, i).votes = v
  BY <1>1, <1>2, <1>3, Zenon DEF Peers
<1> QED
  BY <1>4 DEF v

(* The steps of P on its own.                                              *)
LEMMA PMovesStep ==
  ASSUME IInv, PMoves \/ PFinishes
  PROVE  IInv'
<1> USE DEF IInv
<1>1. p \in Peers
  BY DEF TypeOK, Peers
<1>2. UNCHANGED <<s, prs, toP, query, bits, lost, fails, scope>>
  BY Zenon DEF PMoves, PFinishes, PGetsVote, PNextRound, PStartsHeight, PEntersCommit, PCommits
<1>3. ASSUME NEW r \in Rounds, NEW i \in Validators, PGetsVote(r, i)
      PROVE  IInv'
  <2>1. p' \in Peers /\ p'.votes = [p.votes EXCEPT ![r] = @ \cup {i}]
    BY <1>3, AddedType DEF PGetsVote
  <2>2. \A q \in Rounds : p.votes[q] \subseteq p'.votes[q]
    BY <1>1, <2>1 DEF Peers
  <2>3. \A q \in Rounds : Offered(q) \subseteq Offered(q)'
    BY <1>2, <2>2 DEF Offered, InFlight
  <2>4. hasVoteMsg(r, i).kind = "hasVote" /\ hasVoteMsg(r, i).height = 1
        /\ hasVoteMsg(r, i).round = r /\ hasVoteMsg(r, i).index = i
    BY DEF hasVoteMsg
  <2>5. toS' = toS \cup {hasVoteMsg(r, i)} /\ i \in p'.votes[r]
    BY <1>1, <1>3, <2>1 DEF PGetsVote, Broadcast, Peers
  <2> QED
    BY <1>2, <2>1, <2>2, <2>3, <2>4, <2>5, PeerStep DEF Peers, TypeOK
<1>4. ASSUME p' \in Peers, p'.votes = p.votes, toS' = toS \cup {stepMsg(p')}
      PROVE  IInv'
  <2>1. \A q \in Rounds : p.votes[q] \subseteq p'.votes[q]
    BY <1>4
  <2>2. \A q \in Rounds : Offered(q) \subseteq Offered(q)'
    BY <1>2, <1>4 DEF Offered, InFlight
  <2>3. StepMsgOK(stepMsg(p'))
    BY <1>4, StepMsgTrue
  <2> QED
    BY <1>2, <1>4, <2>1, <2>2, <2>3, PeerStep DEF Peers, TypeOK, StepMsgOK
<1>5. CASE PNextRound
  <2>1. p.round + 1 \in Rounds /\ ({p.round + 1, p.round + 2} \cap Rounds) \in SUBSET Rounds
    BY <1>1, <1>5, ScopeType DEF PNextRound, Rounds, Peers
  <2>2. p' \in Peers /\ p'.votes = p.votes
    BY <1>1, <1>5, <2>1, Zenon DEF PNextRound, Peers
  <2> QED
    BY <1>4, <1>5, <2>2 DEF PNextRound, Broadcast
<1>6. CASE PStartsHeight
  <2>2. p' \in Peers /\ p'.votes = p.votes
    BY <1>1, <1>6 DEF PStartsHeight, Peers, Voting
  <2> QED
    BY <1>4, <1>6, <2>2 DEF PStartsHeight, Broadcast
<1>7. CASE PEntersCommit
  <2>2. p' \in Peers /\ p'.votes = p.votes
    BY <1>1, <1>7 DEF PEntersCommit, Peers, Commit
  <2> QED
    BY <1>4, <1>7, <2>2 DEF PEntersCommit, Broadcast
<1>8. ASSUME NEW r \in Rounds, PCommits(r)
      PROVE  IInv'
  <2>1. 0 \in Rounds /\ r \in RoundsOrNone /\ NewHeight \in 1 .. 3 /\ 2 \in 1 .. 2
    BY ScopeType DEF RoundsOrNone, NewHeight
  <2>2. p' = [p EXCEPT !.height = 2, !.round = 0, !.step = NewHeight, !.last = r]
    BY <1>8 DEF PCommits
  <2>3. p' \in Peers /\ p'.votes = p.votes
    <3>1. p' \in Peers
      BY <1>1, <2>1, <2>2, Zenon DEF Peers
    <3> QED
      BY <1>1, <2>2, <3>1 DEF Peers
  <2> QED
    BY <1>4, <1>8, <2>3 DEF PCommits, Broadcast
<1> QED
  BY <1>3, <1>5, <1>6, <1>7, <1>8 DEF PMoves, PFinishes

(* A vote from S reaches P: it was in flight, and is now a vote of P or    *)
(* among the lost ones.                                                    *)
LEMMA PReceivesStep ==
  ASSUME IInv, PReceivesVote
  PROVE  IInv'
<1> USE DEF IInv
<1> DEFINE r == Head(toP)[1]
           i == Head(toP)[2]
           V == Rounds \X Validators
<1>1. p \in Peers /\ toP \in Seq(V) /\ toP # <<>> /\ lost \in [Rounds -> SUBSET Validators]
  BY DEF TypeOK, Peers, PReceivesVote
<1>2. Head(toP) \in V /\ toP' \in Seq(V)
  <2> HIDE DEF V
  <2> QED
    BY <1>1 DEF PReceivesVote
<1>3. r \in Rounds /\ i \in Validators /\ Head(toP) = <<r, i>>
  BY <1>2
<1>4. \A q \in Rounds, j \in Validators :
         j \in InFlight(q) => j \in InFlight(q)' \/ (q = r /\ j = i)
  <2> SUFFICES ASSUME NEW q \in Rounds, NEW j \in Validators, j \in InFlight(q),
                      ~(q = r /\ j = i)
               PROVE  j \in InFlight(q)'
    OBVIOUS
  <2>p. PICK k \in 1 .. Len(toP) : toP[k] = <<q, j>>
    BY DEF InFlight
  <2>h. k # 1
    <3> SUFFICES ASSUME k = 1
                 PROVE  FALSE
      OBVIOUS
    <3>1. Head(toP) = toP[1]
      BY <1>1
    <3> HIDE DEF r, i
    <3> QED
      BY <1>3, <2>p, <3>1
  <2>1. k - 1 \in 1 .. Len(toP') /\ toP'[k - 1] = toP[k]
    <3> HIDE DEF V
    <3> QED
      BY <1>1, <2>h DEF PReceivesVote
  <2> QED
    BY <2>p, <2>1 DEF InFlight
<1> HIDE DEF r, i
<1>5. UNCHANGED <<s, prs, query, bits, fails, scope>>
  BY DEF PReceivesVote
<1>6. CASE p' = added(r, i) /\ toS' = toS \cup {hasVoteMsg(r, i)} /\ lost' = lost
  <2>1. p' \in Peers /\ p'.votes = [p.votes EXCEPT ![r] = @ \cup {i}]
    BY <1>3, <1>6, AddedType
  <2>2. i \in p'.votes[r] /\ \A q \in Rounds : p.votes[q] \subseteq p'.votes[q]
    BY <1>1, <1>3, <2>1 DEF Peers
  <2>3. \A q \in Rounds : Offered(q) \subseteq Offered(q)'
    BY <1>4, <1>6, <2>2, Zenon DEF Offered, InFlight
  <2>4. hasVoteMsg(r, i).kind = "hasVote" /\ hasVoteMsg(r, i).height = 1
        /\ hasVoteMsg(r, i).round = r /\ hasVoteMsg(r, i).index = i
    BY DEF hasVoteMsg
  <2> QED
    BY <1>1, <1>2, <1>3, <1>5, <1>6, <2>1, <2>2, <2>3, <2>4, PeerStep DEF Peers
<1>7. CASE p' = p /\ toS' = toS /\ ((lost' = lost /\ i \in p.votes[r])
                                    \/ lost' = [lost EXCEPT ![r] = @ \cup {i}])
  <2>1. /\ lost' \in [Rounds -> SUBSET Validators]
        /\ \A q \in Rounds : lost[q] \subseteq lost'[q]
        /\ i \in p.votes[r] \/ i \in lost'[r]
    BY <1>1, <1>3, <1>7
  <2>2. \A q \in Rounds : Offered(q) \subseteq Offered(q)'
    BY <1>4, <1>7, <2>1, Zenon DEF Offered, InFlight
  <2> QED
    BY <1>1, <1>2, <1>5, <1>7, <2>1, <2>2, PeerStep DEF Peers
<1> QED
  BY <1>6, <1>7 DEF PReceivesVote, Broadcast, r, i

(* The vote that S marks is on its way, or lost, in the same step.         *)
LEMMA PickSendStep ==
  ASSUME IInv, NEW round \in Rounds, NEW votes \in SUBSET Validators, NEW isCommit \in BOOLEAN,
         PickSendVote(round, votes, isCommit), UNCHANGED <<s, p, query, toS, bits, scope>>
  PROVE  IInv'
<1> USE DEF IInv
<1> DEFINE b0 == IF isCommit THEN ensureCatchupCommitRound(prs, round) ELSE prs
           b == ensureVoteBitArrays(b0)
           has == getVoteBitArray(b, round)
           off == OfferedVotes
           V == Rounds \X Validators
<1>1. off \in Offers
  BY OfferedType
<1>2. Good(b, off)
  <2> HIDE DEF off
  <2>1. Good(prs, off)
    BY DEF off
  <2>2. Good(b0, off)
    BY <1>1, <2>1, EnsureCatchupGood
  <2> HIDE DEF b0
  <2> QED
    BY <1>1, <2>2, EnsureVoteGood
<1>m. MessagesTrue'
  BY DEF MessagesTrue
<1>t. toP \in Seq(V) /\ lost \in [Rounds -> SUBSET Validators] /\ fails \in Nat
  BY DEF TypeOK
<1>3. ASSUME Good(prs', OfferedVotes'), toP' \in Seq(V),
             lost' \in [Rounds -> SUBSET Validators], fails' \in Nat
      PROVE  IInv'
  BY <1>3, <1>m DEF TypeOK, Good
<1>4. CASE prs' = b /\ UNCHANGED <<toP, lost, fails>>
  <2>1. OfferedVotes' = off
    BY <1>4 DEF OfferedVotes, Offered, InFlight
  <2> HIDE DEF b, off
  <2> QED
    BY <1>2, <1>3, <1>4, <1>t, <2>1
<1>5. ASSUME NEW i \in Validators, prs' = setHasVote(b, round, i),
             toP' \in Seq(V), lost' \in [Rounds -> SUBSET Validators], fails' \in Nat,
             i \in Offered(round)', \A r \in Rounds : Offered(r) \subseteq Offered(r)'
      PROVE  IInv'
  <2> DEFINE more == OfferedVotes'
  <2>1. more \in Offers
    BY <1>5 DEF TypeOK, OfferedVotes, Offered, InFlight, Offers
  <2>2. i \in more[round] /\ \A r \in Rounds : off[r] \subseteq more[r]
    BY <1>5 DEF OfferedVotes
  <2> HIDE DEF b, off, more
  <2>3. Good(b, more)
    BY <1>1, <1>2, <2>1, <2>2, GoodGrows
  <2>4. Good(prs', more)
    BY <1>5, <2>1, <2>2, <2>3, SetHasVoteGood
  <2> QED
    BY <1>3, <1>5, <2>4 DEF more
<1>6. ASSUME NEW i \in Validators, prs' = setHasVote(b, round, i), toP = <<>>,
             toP' = Append(toP, <<round, i>>), UNCHANGED <<lost, fails>>
      PROVE  IInv'
  <2>1. toP' = <<<<round, i>>>>
    BY <1>6
  <2>2. toP' \in Seq(V) /\ Len(toP') = 1 /\ toP'[1] = <<round, i>>
    BY <2>1
  <2>3. i \in Offered(round)'
    BY <2>2 DEF Offered, InFlight
  <2>4. \A r \in Rounds : InFlight(r) = {}
    BY <1>6 DEF InFlight
  <2>5. \A r \in Rounds : Offered(r) \subseteq Offered(r)'
    BY <1>6, <2>4 DEF Offered
  <2> QED
    BY <1>5, <1>6, <1>t, <2>2, <2>3, <2>5
<1>7. ASSUME NEW i \in Validators, prs' = setHasVote(b, round, i), toP' = toP,
             lost' = [lost EXCEPT ![round] = @ \cup {i}], fails' = fails + 1
      PROVE  IInv'
  <2>1. /\ lost' \in [Rounds -> SUBSET Validators] /\ i \in lost'[round]
        /\ \A r \in Rounds : lost[r] \subseteq lost'[r]
    BY <1>7, <1>t
  <2>2. i \in Offered(round)' /\ \A r \in Rounds : Offered(r) \subseteq Offered(r)'
    BY <1>7, <2>1 DEF Offered, InFlight
  <2>3. fails' \in Nat
    BY <1>7, <1>t
  <2> QED
    BY <1>5, <1>7, <1>t, <2>1, <2>2, <2>3
<1>8. \/ prs' = b /\ UNCHANGED <<toP, lost, fails>>
      \/ \E i \in votes \ has.set :
             /\ prs' = setHasVote(b, round, i)
             /\ \/ /\ toP = <<>>
                   /\ toP' = Append(toP, <<round, i>>)
                   /\ UNCHANGED <<lost, fails>>
                \/ /\ fails < scope.fails
                   /\ fails' = fails + 1
                   /\ lost' = [lost EXCEPT ![round] = @ \cup {i}]
                   /\ UNCHANGED toP
  BY DEF PickSendVote
<1> HIDE DEF b, has
<1> QED
  BY <1>4, <1>6, <1>7, <1>8

(* gossipVotesRoutine offers votes of rounds that the model has.           *)
LEMMA GossipStep ==
  ASSUME IInv, GossipVotes
  PROVE  IInv'
<1>1. TypeOK /\ MaxRound \in Nat
  BY ScopeType DEF IInv
<1>2. UNCHANGED <<s, p, query, toS, bits, scope>>
  BY DEF GossipVotes
<1>3. \A r \in Rounds : Maj23(r) \in BOOLEAN
  BY DEF Maj23
<1>4. ASSUME NEW r \in 0 .. s.round, PickSendVote(r, s.votes[r], Maj23(r))
      PROVE  IInv'
  <2>1. r \in Rounds
    BY <1>1 DEF TypeOK, Rounds
  <2>2. s.votes[r] \in SUBSET Validators
    BY <1>1, <2>1 DEF TypeOK
  <2> QED
    BY <1>2, <1>3, <1>4, <2>1, <2>2, PickSendStep
<1>5. CASE s.height > 1 /\ \E votes \in {s.votes[s.commit], s.stored} :
                              PickSendVote(s.commit, votes, TRUE)
  <2>1. s.commit \in Rounds
    BY <1>1, <1>5 DEF TypeOK
  <2>2. s.votes[s.commit] \in SUBSET Validators /\ s.stored \in SUBSET Validators
    BY <1>1, <2>1 DEF TypeOK
  <2> QED
    BY <1>2, <1>5, <2>1, <2>2, PickSendStep, Zenon
<1>6. \/ \E r \in 0 .. s.round : PickSendVote(r, s.votes[r], Maj23(r))
      \/ s.height = 2 /\ PickSendVote(s.commit, s.votes[s.commit], TRUE)
      \/ s.height = 3 /\ PickSendVote(s.commit, s.stored, TRUE)
  BY Zenon DEF GossipVotes
<1>7. (s.height = 2 \/ s.height = 3) => s.height > 1
  OBVIOUS
<1> QED
  BY <1>4, <1>5, <1>6, <1>7, Zenon

(* A query and its answer, which holds the votes P has.                    *)
LEMMA QueryStep ==
  ASSUME IInv, QueryMaj23 \/ PAnswers
  PROVE  IInv'
<1> USE DEF IInv
<1>1. UNCHANGED <<s, p, prs, toP, toS, lost, scope>>
  BY DEF QueryMaj23, PAnswers
<1>2. OfferedVotes' = OfferedVotes
  BY <1>1 DEF OfferedVotes, Offered, InFlight
<1>3. Good(prs', OfferedVotes')
  BY <1>1, <1>2
<1> DEFINE B == [round : Rounds, votes : BitArrays]
<1>4. CASE QueryMaj23
  <2>1. bits' = bits
    BY <1>4 DEF QueryMaj23
  <2>2. query' \in Seq(Rounds) /\ fails' \in Nat
    BY <1>4 DEF QueryMaj23, TypeOK
  <2>3. TypeOK'
    BY <1>1, <2>1, <2>2 DEF TypeOK
  <2>4. MessagesTrue'
    BY <1>1, <2>1 DEF MessagesTrue
  <2> QED
    BY <1>3, <2>3, <2>4
<1>5. CASE PAnswers
  <2> DEFINE q == Head(query)
             a == [round |-> q,
                   votes |-> IF q \in p.tracked THEN [ok |-> TRUE, set |-> p.votes[q]] ELSE Nil]
  <2>1. q \in Rounds /\ query' \in Seq(Rounds) /\ fails' = fails
    BY <1>5 DEF PAnswers, TypeOK
  <2>2. bits \in Seq(B)
    BY DEF TypeOK
  <2>3. bits' = bits \/ bits' = Append(bits, a)
    BY <1>5 DEF PAnswers
  <2>4. a \in B /\ a.votes.set \subseteq p.votes[a.round]
    <3> HIDE DEF q
    <3> QED
      BY <2>1 DEF TypeOK, BitArrays, Nil
  <2> HIDE DEF a
  <2>5. bits' \in Seq(B)
    <3> HIDE DEF B
    <3> QED
      BY <2>2, <2>3, <2>4
  <2>6. \A k \in 1 .. Len(bits') : bits'[k] = a \/ (k \in 1 .. Len(bits) /\ bits'[k] = bits[k])
    <3> HIDE DEF B
    <3> QED
      BY <2>2, <2>3, <2>4
  <2>7. TypeOK'
    BY <1>1, <2>1, <2>5 DEF TypeOK
  <2>8. MessagesTrue'
    BY <1>1, <2>4, <2>6 DEF MessagesTrue
  <2> QED
    BY <1>3, <2>7, <2>8
<1> QED
  BY <1>4, <1>5

(* Messages of the peer are applied.                                       *)
LEMMA ReceiveStep ==
  ASSUME IInv, ReceiveState \/ ReceiveVoteSetBits
  PROVE  IInv'
<1> USE DEF IInv
<1> DEFINE off == OfferedVotes
           B == [round : Rounds, votes : BitArrays]
<1>1. off \in Offers
  BY OfferedType
<1>2. UNCHANGED <<s, p, toP, query, lost, fails, scope>>
  BY DEF ReceiveState, ReceiveVoteSetBits
<1>3. OfferedVotes' = off
  BY <1>2 DEF OfferedVotes, Offered, InFlight
<1>4. \A r \in Rounds : p.votes[r] \subseteq off[r]
  BY DEF OfferedVotes, Offered
<1>5. p.votes \in [Rounds -> SUBSET Validators] /\ s.votes \in [Rounds -> SUBSET Validators]
  BY DEF TypeOK
<1>6. CASE ReceiveState
  <2>1. PICK m \in toS :
          /\ prs' = IF m.kind = "step" THEN ApplyNewRoundStepMessage(prs, m)
                    ELSE ApplyHasVoteMessage(prs, m)
          /\ toS' = toS \ {m}
    BY <1>6 DEF ReceiveState
  <2>2. bits' = bits
    BY <1>6 DEF ReceiveState
  <2>3. MessagesTrue'
    BY <1>2, <2>1, <2>2 DEF MessagesTrue
  <2>4. Good(prs', off)
    <3> HIDE DEF off
    <3>0. Good(prs, off)
      BY DEF off
    <3>1. CASE StepMsgOK(m)
      BY <1>1, <2>1, <3>0, <3>1, NewRoundStepGood DEF StepMsgOK
    <3>2. CASE m.kind = "hasVote" /\ m.round \in Rounds /\ m.index \in p.votes[m.round]
      <4>1. m.index \in Validators /\ m.index \in off[m.round]
        BY <1>4, <1>5, <3>2
      <4>2. Good(setHasVote(prs, m.round, m.index), off)
        BY <1>1, <3>0, <3>2, <4>1, SetHasVoteGood
      <4> QED
        BY <2>1, <3>0, <3>2, <4>2 DEF ApplyHasVoteMessage
    <3> QED
      BY <3>1, <3>2 DEF MessagesTrue, StepMsgOK
  <2>5. TypeOK'
    BY <1>2, <2>2, <2>4 DEF TypeOK, Good
  <2> QED
    BY <1>3, <2>3, <2>4, <2>5
<1>7. CASE ReceiveVoteSetBits
  <2> DEFINE m == Head(bits)
             ours == IF s.height = 1 /\ s.votes[m.round] # {}
                     THEN [ok |-> TRUE, set |-> s.votes[m.round]] ELSE Nil
  <2>1. bits \in Seq(B) /\ bits # <<>> /\ bits' = Tail(bits) /\ toS' = toS
    BY <1>7 DEF TypeOK, ReceiveVoteSetBits
  <2>2. m \in B /\ m = bits[1] /\ 1 \in 1 .. Len(bits) /\ bits' \in Seq(B)
    <3> HIDE DEF B
    <3> QED
      BY <2>1
  <2>3. \A k \in 1 .. Len(bits') : k + 1 \in 1 .. Len(bits) /\ bits'[k] = bits[k + 1]
    <3> HIDE DEF B
    <3> QED
      BY <2>1
  <2>4. MessagesTrue'
    BY <1>2, <2>1, <2>3 DEF MessagesTrue
  <2>5. m.votes.set \subseteq p.votes[m.round]
    <3> HIDE DEF m
    <3> QED
      BY <2>2 DEF MessagesTrue
  <2>6. prs' = ApplyVoteSetBitsMessage(prs, m.round, m.votes, ours)
    BY <1>7 DEF ReceiveVoteSetBits
  <2> HIDE DEF m
  <2>7. m.round \in Rounds /\ m.votes \in BitArrays /\ ours \in BitArrays
    BY <1>5, <2>2 DEF BitArrays, Nil
  <2> HIDE DEF ours
  <2>8. Good(prs', off)
    <3>0. Good(prs, off) /\ m.votes.set \subseteq off[m.round]
      BY <1>4, <2>5, <2>7
    <3> HIDE DEF off
    <3> QED
      BY <1>1, <2>6, <2>7, <3>0, VoteSetBitsGood
  <2>9. TypeOK'
    BY <1>2, <2>2, <2>8 DEF TypeOK, Good
  <2> QED
    BY <1>3, <2>4, <2>8, <2>9
<1> QED
  BY <1>6, <1>7

(* What S believes P to have was offered to P, however rounds, failed      *)
(* sends, broadcasts out of order and queries interleave (PeerState in     *)
(* reactor.go).                                                            *)
THEOREM BeliefsSound == Spec => []BeliefSound
<1>1. IInv /\ [Next]_vars => IInv'
  <2> SUFFICES ASSUME IInv, [Next]_vars
               PROVE  IInv'
    OBVIOUS
  <2>1. CASE UNCHANGED vars
    BY <2>1 DEF vars, IInv, TypeOK, MessagesTrue, OfferedVotes, Offered, InFlight
  <2> QED
    BY <2>1, SMovesStep, PMovesStep, PReceivesStep, GossipStep, QueryStep, ReceiveStep
    DEF Next, VoteFlow, QueryFlow
<1>2. IInv => BeliefSound
  BY Zenon DEF IInv, Good, BeliefSound, BitsOK, BitsWithin, OfferedVotes
<1> QED
  BY InitGood, <1>1, <1>2, PTL DEF Spec
=============================================================================
