------------------------ MODULE HeightVoteSetProofs ------------------------
(***************************************************************************)
(* For every committee, set of blocks, set of peers and number of rounds,  *)
(* the majorities that HeightVoteSet reports are final and backed by their *)
(* quorum.  The lemmas are about the operators of VoteSet; the theorems    *)
(* lift them to all rounds of a height, and bound what they keep.          *)
(***************************************************************************)
EXTENDS HeightVoteSet, FiniteSetTheorems, TLAPS

\* The quorum is a natural number, more than two thirds of the committee.
LEMMA QuorumIsNat == quorum \in Nat /\ Cardinality(Validators) \in Nat
<1>1. Cardinality(Validators) \in Nat
  BY ValidatorsAssumption, FS_CardinalityType
<1> QED
  BY <1>1 DEF quorum

\* Adding one element to a set of members adds one to its size.
LEMMA OneMore ==
  ASSUME NEW S, NEW T, S \subseteq Validators, NEW i \in Validators, i \notin S, T = S \cup {i}
  PROVE  Cardinality(T) = Cardinality(S) + 1 /\ Cardinality(S) \in Nat
<1>1. IsFiniteSet(S)
  BY ValidatorsAssumption, FS_Subset
<1> QED
  BY <1>1, FS_AddElement, FS_CardinalityType, Zenon

\* A new vote set is sound.
LEMMA NewVoteSetSound == NewVoteSet \in VoteSets /\ Sound(NewVoteSet)
<1>1. NewVoteSet \in VoteSets
  BY DEF NewVoteSet, VoteSets, newBlockVotes, BlockVotes
<1>2. Voters(NewVoteSet) = {} /\ \A b \in Values : Signers(NewVoteSet, b) = {}
  BY DEF NewVoteSet, Voters, Signers, newBlockVotes, None, Agree
<1>3. NewVoteSet.sum = 0 /\ \A b \in Values : NewVoteSet.votesByBlock[b].sum = 0
  BY DEF NewVoteSet, newBlockVotes
<1>4. \A b \in Values, i \in Validators : NewVoteSet.votesByBlock[b].votes[i] = None
  BY DEF NewVoteSet, newBlockVotes
<1>5. NewVoteSet.maj23 = None /\ quorum > 0
  BY QuorumIsNat DEF NewVoteSet, quorum
<1> QED
  BY <1>1, <1>2, <1>3, <1>4, <1>5, FS_EmptySet DEF Sound

\* The vote set s that shareVote makes of vs.
Shared(vs, i, b, result, s) ==
  /\ s \in VoteSets
  /\ s.maj23 = vs.maj23 /\ s.votesByBlock = vs.votesByBlock
  /\ s.peerMaj23s = vs.peerMaj23s
  /\ s.sum = Cardinality(Voters(s))
  /\ Voters(s) = Voters(vs) \cup {i}
  /\ \A j \in Validators : j # i => s.votes[j] = vs.votes[j]
  /\ (vs.votes[i] = NoVote \/ vs.maj23 = b) => s.votes[i] = [block |-> b, result |-> result]
  /\ (vs.votes[i] # NoVote /\ vs.maj23 # b) => s.votes[i] = vs.votes[i]

\* The part of addVerifiedVote that keeps the votes to share: the member
\* becomes a voter, and counts as one more if it was none.
LEMMA Sharing ==
  ASSUME NEW vs \in VoteSets, Sound(vs), NEW i \in Validators, NEW b \in Values,
         NEW result \in Results, ~HasVote(vs, i, b)
  PROVE  Shared(vs, i, b, result, shareVote(vs, i, b, result))
<1> DEFINE v == [block |-> b, result |-> result]
           s == shareVote(vs, i, b, result)
<1>1. v \in Votes /\ v # NoVote
  BY ValuesAssumption DEF Votes, NoVote
<1>2. CASE vs.votes[i] = NoVote
  <2>1. s = [vs EXCEPT !.votes[i] = v, !.sum = @ + 1]
    BY <1>2 DEF shareVote
  <2>2. s \in VoteSets
    <3>1. vs.sum + 1 \in Nat
      BY DEF VoteSets
    <3>2. [vs.votes EXCEPT ![i] = v] \in [Validators -> Votes \cup {NoVote}]
      BY <1>1 DEF VoteSets
    <3> QED
      BY <2>1, <3>1, <3>2, Zenon DEF VoteSets
  <2>3. i \notin Voters(vs) /\ Voters(vs) \subseteq Validators
    BY <1>2 DEF Voters
  <2>4. Voters(s) = Voters(vs) \cup {i}
    BY <1>1, <2>1 DEF Voters, VoteSets
  <2>5. s.sum = Cardinality(Voters(s))
    BY <2>1, <2>3, <2>4, OneMore DEF Sound, VoteSets
  <2>6. /\ s.maj23 = vs.maj23 /\ s.votesByBlock = vs.votesByBlock
        /\ s.peerMaj23s = vs.peerMaj23s /\ s.votes = [vs.votes EXCEPT ![i] = v]
    BY <2>1 DEF VoteSets
  <2>7. s.votes[i] = v /\ \A j \in Validators : j # i => s.votes[j] = vs.votes[j]
    BY <2>6 DEF VoteSets
  <2> QED
    BY <1>2, <2>2, <2>4, <2>5, <2>6, <2>7 DEF Shared
<1>3. CASE vs.votes[i] # NoVote /\ vs.maj23 = b
  <2>1. s = [vs EXCEPT !.votes[i] = v]
    BY <1>3 DEF shareVote
  <2>2. s \in VoteSets
    BY <1>1, <2>1 DEF VoteSets
  <2>3. Voters(s) = Voters(vs) \cup {i} /\ Voters(s) = Voters(vs)
    BY <1>1, <1>3, <2>1 DEF Voters, VoteSets
  <2>4. /\ s.maj23 = vs.maj23 /\ s.votesByBlock = vs.votesByBlock /\ s.sum = vs.sum
        /\ s.peerMaj23s = vs.peerMaj23s /\ s.votes = [vs.votes EXCEPT ![i] = v]
    BY <2>1 DEF VoteSets
  <2>5. s.votes[i] = v /\ \A j \in Validators : j # i => s.votes[j] = vs.votes[j]
    BY <2>4 DEF VoteSets
  <2>6. s.sum = Cardinality(Voters(s))
    BY <2>3, <2>4, Zenon DEF Sound
  <2> QED
    BY <1>3, <2>2, <2>3, <2>4, <2>5, <2>6 DEF Shared
<1>4. CASE vs.votes[i] # NoVote /\ vs.maj23 # b
  <2>1. s = vs
    BY <1>4 DEF shareVote
  <2>2. Voters(vs) = Voters(vs) \cup {i}
    BY <1>4 DEF Voters
  <2> QED
    BY <1>4, <2>1, <2>2 DEF Sound, Shared
<1> QED
  BY <1>2, <1>3, <1>4

\* blockVotes.addVerifiedVote: the counter goes on counting the agreeing votes.
LEMMA BlockCounting ==
  ASSUME NEW bv \in BlockVotes, NEW i \in Validators, NEW result \in Results,
         bv.votes[i] = None,
         bv.sum = Cardinality({j \in Validators : bv.votes[j] = Agree})
  PROVE  LET c == addBlockVote(bv, i, result) IN
         /\ c \in BlockVotes
         /\ c.sum = Cardinality({j \in Validators : c.votes[j] = Agree})
         /\ c.votes = [bv.votes EXCEPT ![i] = result]
         /\ c.sum >= bv.sum
<1> DEFINE c == addBlockVote(bv, i, result)
           old == {j \in Validators : bv.votes[j] = Agree}
           new == {j \in Validators : c.votes[j] = Agree}
           sum == IF result = Agree THEN bv.sum + 1 ELSE bv.sum
<1>1. c = [bv EXCEPT !.tracked = TRUE, !.votes[i] = result, !.sum = sum]
  BY DEF addBlockVote
<1>2. sum \in Nat /\ sum >= bv.sum
  BY DEF BlockVotes
<1>3. [bv.votes EXCEPT ![i] = result] \in [Validators -> Results \cup {None}]
  BY DEF BlockVotes
<1>4. c \in BlockVotes /\ c.votes = [bv.votes EXCEPT ![i] = result] /\ c.sum = sum
  BY <1>1, <1>2, <1>3, Zenon DEF BlockVotes
<1>5. i \notin old
  BY DEF None, Agree
<1>6. CASE result = Agree
  <2>1. new = old \cup {i}
    BY <1>4, <1>6 DEF BlockVotes
  <2>2. Cardinality(new) = Cardinality(old) + 1
    BY <1>5, <2>1, OneMore
  <2> QED
    BY <1>2, <1>4, <1>6, <2>2
<1>7. CASE result # Agree
  <2>1. new = old
    BY <1>4, <1>5, <1>7 DEF BlockVotes
  <2> QED
    BY <1>2, <1>4, <1>7, <2>1
<1> QED
  BY <1>6, <1>7

\* addVote keeps a vote set sound, a majority and the counted votes.
LEMMA AddVoteSound ==
  ASSUME NEW vs \in VoteSets, Sound(vs), NEW i \in Validators, NEW b \in Values,
         NEW result \in Results
  PROVE  LET t == addVote(vs, i, b, result) IN
         /\ t \in VoteSets
         /\ Sound(t)
         /\ vs.maj23 # None => t.maj23 = vs.maj23
         /\ \A c \in Values, j \in Validators : vs.votesByBlock[c].votes[j] # None =>
                t.votesByBlock[c].votes[j] = vs.votesByBlock[c].votes[j]
<1> DEFINE t == addVote(vs, i, b, result)
           s == shareVote(vs, i, b, result)
           v == [block |-> b, result |-> result]
           bv == vs.votesByBlock[b]
           nbv == addBlockVote(bv, i, result)
<1>1. CASE HasVote(vs, i, b)
  BY <1>1 DEF addVote
<1>2. CASE ~HasVote(vs, i, b)
  <2>0. bv \in BlockVotes /\ bv.votes[i] = None /\ vs.votes[i].block # b
    BY <1>2 DEF HasVote, VoteSets
  <2>1. /\ s \in VoteSets
        /\ s.maj23 = vs.maj23 /\ s.votesByBlock = vs.votesByBlock
        /\ s.sum = Cardinality(Voters(s))
        /\ Voters(s) = Voters(vs) \cup {i}
        /\ \A j \in Validators : j # i => s.votes[j] = vs.votes[j]
        /\ (vs.votes[i] = NoVote \/ vs.maj23 = b) => s.votes[i] = v
        /\ (vs.votes[i] # NoVote /\ vs.maj23 # b) => s.votes[i] = vs.votes[i]
    BY <1>2, Sharing DEF Shared
  <2>2. t = addVerifiedVote(vs, i, b, result)
    BY <1>2 DEF addVote
  <2>3. \A c \in Values : Signers(s, c) = Signers(vs, c)
    BY <2>1 DEF Signers
  <2>4. CASE vs.votes[i] # NoVote /\ ~bv.peerMaj23
    <3>1. t = s
      BY <2>2, <2>4 DEF addVerifiedVote
    <3>2. ASSUME s.maj23 # None
          PROVE  Signers(s, s.maj23) \subseteq Committers(s, s.maj23)
      <4>1. Signers(vs, vs.maj23) \subseteq Committers(vs, vs.maj23) /\ vs.maj23 \in Values
        BY <2>1, <3>2 DEF Sound, VoteSets
      <4>2. ASSUME NEW j \in Signers(vs, vs.maj23)
            PROVE  s.votes[j] = vs.votes[j]
        <5>1. vs.votesByBlock[vs.maj23].votes[j] = Agree /\ j \in Validators
          BY DEF Signers
        <5>2. j = i => vs.maj23 # b
          BY <2>0, <5>1 DEF None, Agree
        <5> QED
          BY <2>1, <2>4, <5>1, <5>2
      <4> QED
        BY <2>1, <2>3, <4>1, <4>2 DEF Signers, Committers
    <3>3. Sound(s)
      BY <2>1, <2>3, <3>2 DEF Sound
    <3> QED
      BY <2>1, <3>1, <3>3
  <2>5. CASE ~(vs.votes[i] # NoVote /\ ~bv.peerMaj23)
    <3> DEFINE u == [s EXCEPT !.votesByBlock[b] = nbv]
               crossed == bv.sum < quorum /\ quorum <= nbv.sum /\ vs.maj23 = None
    <3>1. t = countVote(s, b, nbv)
      BY <2>2, <2>5 DEF addVerifiedVote
    <3>2. t = IF crossed THEN [u EXCEPT !.maj23 = b, !.votes = copyVotes(u, b)] ELSE u
      BY <2>1, <3>1 DEF countVote
    <3>3. bv.sum = Cardinality({j \in Validators : bv.votes[j] = Agree})
      BY DEF Sound, Signers
    <3>4. /\ nbv \in BlockVotes
          /\ nbv.sum = Cardinality({j \in Validators : nbv.votes[j] = Agree})
          /\ nbv.votes = [bv.votes EXCEPT ![i] = result]
          /\ nbv.sum >= bv.sum
      BY <2>0, <3>3, BlockCounting, Zenon
    <3>5. /\ u \in VoteSets
          /\ u.votes = s.votes /\ u.maj23 = vs.maj23 /\ u.sum = s.sum
          /\ u.votesByBlock[b] = nbv
          /\ \A c \in Values : c # b => u.votesByBlock[c] = vs.votesByBlock[c]
      BY <2>1, <3>4 DEF VoteSets
    <3>6. ASSUME NEW c \in Values
          PROVE  u.votesByBlock[c].sum = Cardinality(Signers(u, c))
      <4>1. CASE c = b
        <5>1. Signers(u, c) = {j \in Validators : nbv.votes[j] = Agree}
          BY <3>5, <4>1 DEF Signers
        <5> QED
          BY <3>4, <3>5, <4>1, <5>1
      <4>2. CASE c # b
        <5>1. Signers(u, c) = Signers(vs, c)
          BY <3>5, <4>2 DEF Signers
        <5> QED
          BY <3>5, <4>2, <5>1 DEF Sound
      <4> QED
        BY <4>1, <4>2
    <3>7. Voters(u) = Voters(s)
      BY <3>5 DEF Voters
    <3>8. \A c \in Values, j \in Validators :
            u.votesByBlock[c].votes[j] # None => j \in Voters(u)
      BY <2>0, <2>1, <3>4, <3>5, <3>7 DEF Sound, BlockVotes
    <3>9. \A c \in Values, j \in Validators : vs.votesByBlock[c].votes[j] # None =>
            u.votesByBlock[c].votes[j] = vs.votesByBlock[c].votes[j]
      BY <2>0, <3>4, <3>5 DEF BlockVotes
    <3>10. CASE crossed
      <4>1. /\ t = [u EXCEPT !.maj23 = b, !.votes = copyVotes(u, b)]
            /\ t.votes = copyVotes(u, b) /\ t.maj23 = b /\ t.sum = u.sum
            /\ t.votesByBlock = u.votesByBlock
        BY <3>2, <3>5, <3>10 DEF VoteSets
      <4>2. \A j \in Validators :
              t.votes[j] = IF nbv.votes[j] = None THEN u.votes[j]
                           ELSE [block |-> b, result |-> nbv.votes[j]]
        BY <3>5, <4>1 DEF copyVotes
      <4>3. \A j \in Validators : nbv.votes[j] # None =>
              [block |-> b, result |-> nbv.votes[j]] \in Votes
        BY <3>4 DEF BlockVotes, Votes
      <4>4. \A x \in Votes : x # NoVote
        BY ValuesAssumption DEF Votes, NoVote
      <4>5. t \in VoteSets
        <5>1. copyVotes(u, b) \in [Validators -> Votes \cup {NoVote}]
          BY <3>5, <4>3 DEF copyVotes, VoteSets
        <5> QED
          BY <3>5, <4>1, <5>1, Zenon DEF VoteSets
      <4>6. Voters(t) = Voters(u)
        BY <3>5, <3>8, <4>2, <4>3, <4>4, Zenon DEF Voters
      <4>7. \A c \in Values : Signers(t, c) = Signers(u, c)
        BY <4>1 DEF Signers
      <4>8. Signers(t, b) \subseteq Committers(t, b)
        BY <3>5, <4>1, <4>2 DEF Signers, Committers, Agree, None
      <4>9. t.maj23 # None /\ t.votesByBlock[b].sum >= quorum
        BY <3>4, <3>5, <3>10, <4>1, QuorumIsNat, ValuesAssumption DEF BlockVotes
      <4>10. Sound(t)
        BY <2>1, <3>5, <3>6, <3>7, <3>8, <4>1, <4>6, <4>7, <4>8, <4>9, Zenon DEF Sound
      <4> QED
        BY <3>9, <3>10, <4>1, <4>5, <4>10
    <3>11. CASE ~crossed
      <4>1. t = u
        BY <3>2, <3>11
      <4>2. ASSUME u.maj23 = None, NEW c \in Values
            PROVE  u.votesByBlock[c].sum < quorum
        <5>1. vs.votesByBlock[c].sum < quorum /\ bv.sum < quorum
          BY <3>5, <4>2 DEF Sound
        <5>2. nbv.sum < quorum
          BY <3>4, <3>5, <3>11, <4>2, <5>1, QuorumIsNat DEF BlockVotes
        <5> QED
          BY <3>5, <5>1, <5>2
      <4>3. ASSUME u.maj23 # None
            PROVE  /\ u.votesByBlock[u.maj23].sum >= quorum
                   /\ Signers(u, u.maj23) \subseteq Committers(u, u.maj23)
        <5>1. /\ vs.maj23 \in Values /\ vs.maj23 # None
              /\ vs.votesByBlock[vs.maj23].sum >= quorum
              /\ Signers(vs, vs.maj23) \subseteq Committers(vs, vs.maj23)
          BY <3>5, <4>3 DEF Sound, VoteSets
        <5>2. u.votesByBlock[u.maj23].sum >= quorum
          BY <2>0, <3>4, <3>5, <5>1, QuorumIsNat DEF BlockVotes
        <5>3. ASSUME NEW j \in Signers(u, u.maj23)
              PROVE  u.votes[j] = [block |-> u.maj23, result |-> Agree]
          <6>1. j \in Validators /\ u.votesByBlock[vs.maj23].votes[j] = Agree
            BY <3>5 DEF Signers
          <6>2. CASE j = i /\ vs.maj23 = b
            <7>1. result = Agree
              BY <2>0, <3>4, <3>5, <6>1, <6>2 DEF BlockVotes
            <7> QED
              BY <2>1, <3>5, <6>2, <7>1
          <6>3. CASE ~(j = i /\ vs.maj23 = b)
            <7>1. vs.votesByBlock[vs.maj23].votes[j] = Agree
              BY <2>0, <3>4, <3>5, <5>1, <6>1, <6>3 DEF BlockVotes
            <7>2. vs.votes[j] = [block |-> vs.maj23, result |-> Agree]
              BY <5>1, <6>1, <7>1 DEF Signers, Committers
            <7>3. vs.votes[j] # NoVote
              BY <5>1, <7>2 DEF NoVote
            <7> QED
              BY <2>1, <3>5, <6>1, <6>3, <7>2, <7>3
          <6> QED
            BY <6>2, <6>3
        <5> QED
          BY <5>2, <5>3 DEF Signers, Committers
      <4>4. Sound(u)
        BY <2>1, <3>5, <3>6, <3>7, <3>8, <4>2, <4>3, Zenon DEF Sound
      <4> QED
        BY <3>5, <3>9, <4>1, <4>4
    <3> QED
      BY <3>10, <3>11
  <2> QED
    BY <2>4, <2>5
<1> QED
  BY <1>1, <1>2

\* A peer's claim of a majority changes no vote, no counter and no majority.
LEMMA ClaimSound ==
  ASSUME NEW vs \in VoteSets, Sound(vs), NEW p \in Peers, NEW b \in Values
  PROVE  LET t == SetPeerMaj23(vs, p, b) IN
         /\ t \in VoteSets
         /\ Sound(t)
         /\ t.maj23 = vs.maj23
         /\ \A c \in Values : t.votesByBlock[c].votes = vs.votesByBlock[c].votes
<1> DEFINE t == SetPeerMaj23(vs, p, b)
           bv == [vs.votesByBlock[b] EXCEPT !.tracked = TRUE, !.peerMaj23 = TRUE]
<1>1. CASE vs.peerMaj23s[p] # None
  BY <1>1 DEF SetPeerMaj23
<1>2. CASE vs.peerMaj23s[p] = None
  <2>1. t = [vs EXCEPT !.peerMaj23s[p] = b, !.votesByBlock[b] = bv]
    BY <1>2 DEF SetPeerMaj23
  <2>2. t.votesByBlock = [vs.votesByBlock EXCEPT ![b] = bv]
    BY <2>1 DEF VoteSets
  <2>3. bv \in BlockVotes /\ bv.votes = vs.votesByBlock[b].votes /\ bv.sum = vs.votesByBlock[b].sum
    BY Zenon DEF VoteSets, BlockVotes
  <2>4. t.votes = vs.votes /\ t.sum = vs.sum /\ t.maj23 = vs.maj23
        /\ t.peerMaj23s = [vs.peerMaj23s EXCEPT ![p] = b]
    BY <2>1 DEF VoteSets
  <2>5. t \in VoteSets
    <3>1. [vs.votesByBlock EXCEPT ![b] = bv] \in [Values -> BlockVotes]
      BY <2>3 DEF VoteSets
    <3>2. [vs.peerMaj23s EXCEPT ![p] = b] \in [Peers -> Values \cup {None}]
      BY DEF VoteSets
    <3>3. t = [votes |-> vs.votes, sum |-> vs.sum, maj23 |-> vs.maj23,
               votesByBlock |-> [vs.votesByBlock EXCEPT ![b] = bv],
               peerMaj23s |-> [vs.peerMaj23s EXCEPT ![p] = b]]
      BY <2>1, Zenon DEF VoteSets
    <3> QED
      BY <3>1, <3>2, <3>3 DEF VoteSets
  <2>6. \A c \in Values : /\ t.votesByBlock[c].votes = vs.votesByBlock[c].votes
                           /\ t.votesByBlock[c].sum = vs.votesByBlock[c].sum
    BY <2>2, <2>3 DEF VoteSets
  <2>7. Voters(t) = Voters(vs)
    BY <2>4 DEF Voters
  <2>8. \A c \in Values : Signers(t, c) = Signers(vs, c) /\ Committers(t, c) = Committers(vs, c)
    BY <2>4, <2>6 DEF Signers, Committers
  <2>9. t.maj23 # None => t.maj23 \in Values
    BY <2>5 DEF VoteSets
  <2>10. Sound(t)
    BY <2>4, <2>6, <2>7, <2>8, <2>9 DEF Sound
  <2> QED
    BY <2>4, <2>5, <2>6, <2>10
<1> QED
  BY <1>1, <1>2

\* The invariant holds after Reset.
LEMMA InitSound == Init => IInv
<1> SUFFICES ASSUME Init PROVE IInv
  OBVIOUS
<1>1. 0 \in Rounds /\ 0 .. round \subseteq tracked
  BY BoundsAssumption DEF Init, Rounds
<1>2. TypeOK
  BY <1>1, NewVoteSetSound DEF Init, TypeOK
<1> QED
  BY <1>1, <1>2, NewVoteSetSound DEF Init, IInv, OwnRoundsTracked

\* What a step does to each vote set.
StepKeeps(r) ==
  /\ roundVoteSets'[r] \in VoteSets
  /\ Sound(roundVoteSets'[r])
  /\ roundVoteSets[r].maj23 # None => roundVoteSets'[r].maj23 = roundVoteSets[r].maj23
  /\ \A b \in Values, i \in Validators : roundVoteSets[r].votesByBlock[b].votes[i] # None =>
        roundVoteSets'[r].votesByBlock[b].votes[i] = roundVoteSets[r].votesByBlock[b].votes[i]

\* Every step keeps the invariant, majorities and counted votes.
LEMMA StepSound ==
  ASSUME IInv, [Next]_vars
  PROVE  IInv' /\ \A r \in Rounds : StepKeeps(r)
<1> USE DEF IInv
<1>1. CASE UNCHANGED vars
  BY <1>1 DEF vars, TypeOK, OwnRoundsTracked, StepKeeps
<1>2. ASSUME NEW r \in Rounds, SetRound(r)
      PROVE  IInv' /\ \A q \in Rounds : StepKeeps(q)
  <2>1. \A q \in Rounds : StepKeeps(q)
    BY <1>2 DEF SetRound, StepKeeps, TypeOK
  <2>2. TypeOK'
    BY <1>2, BoundsAssumption DEF SetRound, TypeOK, Rounds
  <2>3. OwnRoundsTracked'
    BY <1>2 DEF SetRound, TypeOK, OwnRoundsTracked, Rounds
  <2> QED
    BY <2>1, <2>2, <2>3 DEF StepKeeps
<1>3. ASSUME NEW p \in Peers, NEW r \in Rounds, NEW i \in Validators, NEW b \in Values,
             NEW result \in Results, AddVote(p, r, i, b, result)
      PROVE  IInv' /\ \A q \in Rounds : StepKeeps(q)
  <2> DEFINE t == addVote(roundVoteSets[r], i, b, result)
  <2>1. roundVoteSets' = [roundVoteSets EXCEPT ![r] = t] /\ round' = round
    BY <1>3 DEF AddVote
  <2>2. roundVoteSets[r] \in VoteSets /\ Sound(roundVoteSets[r])
    BY DEF TypeOK
  <2>3. StepKeeps(r)
    <3>1. roundVoteSets'[r] = t
      BY <2>1 DEF TypeOK
    <3> HIDE DEF t
    <3>2. /\ t \in VoteSets
          /\ Sound(t)
          /\ roundVoteSets[r].maj23 # None => t.maj23 = roundVoteSets[r].maj23
          /\ \A c \in Values, j \in Validators : roundVoteSets[r].votesByBlock[c].votes[j] # None =>
                t.votesByBlock[c].votes[j] = roundVoteSets[r].votesByBlock[c].votes[j]
      BY <2>2, AddVoteSound DEF t
    <3> QED
      BY <3>1, <3>2 DEF StepKeeps
  <2>4. \A q \in Rounds : StepKeeps(q)
    <3> SUFFICES ASSUME NEW q \in Rounds, q # r PROVE StepKeeps(q)
      BY <2>3, Zenon
    <3>1. roundVoteSets'[q] = roundVoteSets[q] /\ roundVoteSets[q] \in VoteSets
      BY <2>1 DEF TypeOK
    <3> QED
      BY <3>1, Zenon DEF StepKeeps
  <2>5. roundVoteSets' \in [Rounds -> VoteSets]
    BY <2>1, <2>4 DEF StepKeeps, TypeOK
  <2>6. tracked \subseteq tracked' /\ tracked' \subseteq Rounds
        /\ peerCatchupRounds' \in [Peers -> SUBSET Rounds]
    BY <1>3 DEF AddVote, TypeOK
  <2> QED
    BY <2>1, <2>4, <2>5, <2>6, Zenon DEF StepKeeps, TypeOK, OwnRoundsTracked
<1>4. ASSUME NEW p \in Peers, NEW r \in Rounds, NEW b \in Values, PeerMaj23(p, r, b)
      PROVE  IInv' /\ \A q \in Rounds : StepKeeps(q)
  <2> DEFINE t == SetPeerMaj23(roundVoteSets[r], p, b)
  <2>1. roundVoteSets' = [roundVoteSets EXCEPT ![r] = t]
        /\ UNCHANGED <<round, tracked, peerCatchupRounds>>
    BY <1>4 DEF PeerMaj23
  <2>2. roundVoteSets[r] \in VoteSets /\ Sound(roundVoteSets[r])
    BY DEF TypeOK
  <2>3. StepKeeps(r)
    <3>1. roundVoteSets'[r] = t
      BY <2>1 DEF TypeOK
    <3> HIDE DEF t
    <3>2. /\ t \in VoteSets
          /\ Sound(t)
          /\ t.maj23 = roundVoteSets[r].maj23
          /\ \A c \in Values : t.votesByBlock[c].votes = roundVoteSets[r].votesByBlock[c].votes
      BY <2>2, ClaimSound DEF t
    <3> QED
      BY <3>1, <3>2 DEF StepKeeps
  <2>4. \A q \in Rounds : StepKeeps(q)
    <3> SUFFICES ASSUME NEW q \in Rounds, q # r PROVE StepKeeps(q)
      BY <2>3, Zenon
    <3>1. roundVoteSets'[q] = roundVoteSets[q] /\ roundVoteSets[q] \in VoteSets
      BY <2>1 DEF TypeOK
    <3> QED
      BY <3>1, Zenon DEF StepKeeps
  <2>5. roundVoteSets' \in [Rounds -> VoteSets]
    BY <2>1, <2>4 DEF StepKeeps, TypeOK
  <2> QED
    BY <2>1, <2>4, <2>5, Zenon DEF StepKeeps, TypeOK, OwnRoundsTracked
<1> QED
  BY <1>1, <1>2, <1>3, <1>4, Zenon DEF Next

\* The vote sets of every round stay sound (addVote, SetPeerMaj23, SetRound).
THEOREM VotesInvariant == Spec => []IInv
  BY InitSound, StepSound, PTL DEF Spec

\* The vote sets keep their type.
THEOREM VotesTypeCorrect == Spec => []TypeOK
<1>1. IInv => TypeOK
  BY DEF IInv
<1> QED
  BY <1>1, VotesInvariant, PTL

\* A majority rests on a quorum of members that agree (addVerifiedVote).
THEOREM MajoritiesBacked == Spec => []Maj23Backed
<1>1. IInv => Maj23Backed
  BY Zenon DEF IInv, TypeOK, VoteSets, Sound, Maj23Backed
<1> QED
  BY <1>1, VotesInvariant, PTL

\* The votes to share carry the quorum of the majority (MakeCommit).
THEOREM CommitsCarryQuorum == Spec => []CommitCarriesQuorum
<1> SUFFICES ASSUME IInv PROVE CommitCarriesQuorum
  BY VotesInvariant, PTL
<1> SUFFICES ASSUME NEW r \in Rounds, roundVoteSets[r].maj23 # None
             PROVE  Cardinality(Committers(roundVoteSets[r], roundVoteSets[r].maj23)) >= quorum
  BY DEF CommitCarriesQuorum
<1> DEFINE vs == roundVoteSets[r]
           S == Signers(vs, vs.maj23)
           C == Committers(vs, vs.maj23)
<1>1. vs.maj23 \in Values /\ Cardinality(S) >= quorum /\ S \subseteq C
  BY Zenon DEF IInv, TypeOK, VoteSets, Sound
<1>2. IsFiniteSet(C)
  BY ValidatorsAssumption, FS_Subset DEF Committers
<1>3. Cardinality(S) <= Cardinality(C) /\ Cardinality(S) \in Nat /\ Cardinality(C) \in Nat
  BY <1>1, <1>2, FS_Subset, FS_CardinalityType
<1> QED
  BY <1>1, <1>3, QuorumIsNat

\* Every voter counts once, and a majority implies HasTwoThirdsAny.
THEOREM VotersCount == Spec => []VotersCountedOnce
<1> SUFFICES ASSUME IInv PROVE VotersCountedOnce
  BY VotesInvariant, PTL
<1> SUFFICES ASSUME NEW r \in Rounds, roundVoteSets[r].maj23 # None
             PROVE  HasTwoThirdsAny(roundVoteSets[r])
  BY DEF VotersCountedOnce, IInv, Sound
<1> DEFINE vs == roundVoteSets[r]
           S == Signers(vs, vs.maj23)
<1>1. vs.maj23 \in Values /\ Cardinality(S) >= quorum /\ vs.sum = Cardinality(Voters(vs))
  BY DEF IInv, TypeOK, VoteSets, Sound
<1>2. S \subseteq Voters(vs)
  BY <1>1, Zenon DEF IInv, Sound, Signers, Agree, None
<1>3. IsFiniteSet(Voters(vs))
  BY ValidatorsAssumption, FS_Subset DEF Voters
<1>4. Cardinality(S) <= Cardinality(Voters(vs)) /\ Cardinality(S) \in Nat
      /\ Cardinality(Voters(vs)) \in Nat
  BY <1>2, <1>3, FS_Subset, FS_CardinalityType
<1> QED
  BY <1>1, <1>4, QuorumIsNat DEF HasTwoThirdsAny, quorum

\* Two quorums share more than a third of the committee.
LEMMA QuorumsOverlap ==
  ASSUME NEW A, NEW B, A \subseteq Validators, B \subseteq Validators,
         Cardinality(A) >= quorum, Cardinality(B) >= quorum
  PROVE  3 * Cardinality(A \cap B) > Cardinality(Validators)
<1>1. IsFiniteSet(A) /\ IsFiniteSet(B) /\ IsFiniteSet(A \cap B) /\ IsFiniteSet(A \cup B)
  BY ValidatorsAssumption, FS_Subset
<1>2. Cardinality(A \cup B) = Cardinality(A) + Cardinality(B) - Cardinality(A \cap B)
  BY <1>1, FS_Union
<1>3. Cardinality(A \cup B) <= Cardinality(Validators)
  BY ValidatorsAssumption, FS_Subset
<1>4. /\ Cardinality(A) \in Nat /\ Cardinality(B) \in Nat
      /\ Cardinality(A \cap B) \in Nat /\ Cardinality(A \cup B) \in Nat
  BY <1>1, FS_CardinalityType
<1> QED
  BY <1>2, <1>3, <1>4, QuorumIsNat DEF quorum

\* With less than a third of the members voting twice, a block that reaches
\* the quorum is the majority (addVerifiedVote).
THEOREM NoHiddenQuorum == Spec => []OneQuorum
<1> SUFFICES ASSUME IInv PROVE OneQuorum
  BY VotesInvariant, PTL
<1> SUFFICES ASSUME NEW r \in Rounds, NEW b \in Values,
                    3 * Cardinality(Conflicting(roundVoteSets[r])) < Cardinality(Validators),
                    roundVoteSets[r].votesByBlock[b].sum >= quorum
             PROVE  roundVoteSets[r].maj23 = b
  BY DEF OneQuorum
<1> DEFINE vs == roundVoteSets[r]
           c == vs.maj23
           A == Signers(vs, b)
           B == Signers(vs, c)
<1>1. vs \in VoteSets /\ Sound(vs)
  BY DEF IInv, TypeOK
<1>2. c # None
  <2>1. vs.votesByBlock[b].sum \in Nat
    BY <1>1 DEF VoteSets, BlockVotes
  <2> QED
    BY <1>1, <2>1, QuorumIsNat DEF Sound
<1>3. c \in Values /\ Cardinality(A) >= quorum /\ Cardinality(B) >= quorum
  BY <1>1, <1>2 DEF Sound, VoteSets
<1>4. ASSUME c # b PROVE FALSE
  <2>1. A \cap B \subseteq Conflicting(vs)
    BY <1>3, <1>4, Zenon DEF Signers, Conflicting, Agree, None
  <2>2. A \subseteq Validators /\ B \subseteq Validators
    BY DEF Signers
  <2>3. IsFiniteSet(Conflicting(vs))
    BY ValidatorsAssumption, FS_Subset, Zenon DEF Conflicting
  <2>4. 3 * Cardinality(A \cap B) > Cardinality(Validators)
    BY <1>3, <2>2, QuorumsOverlap
  <2>5. /\ Cardinality(A \cap B) <= Cardinality(Conflicting(vs))
        /\ Cardinality(A \cap B) \in Nat /\ Cardinality(Conflicting(vs)) \in Nat
    BY <2>1, <2>3, FS_Subset, FS_CardinalityType
  <2> QED
    BY <2>4, <2>5, QuorumIsNat
<1> QED
  BY <1>4

\* Every round up to the node's own is tracked (SetRound).
THEOREM RoundsTracked == Spec => []OwnRoundsTracked
<1>1. IInv => OwnRoundsTracked
  BY DEF IInv
<1> QED
  BY <1>1, VotesInvariant, PTL

\* A majority is final (addVerifiedVote sets maj23 once; SetRound keeps the
\* rounds that peers opened).
THEOREM MajoritiesFinal == Spec => MajorityFinal
<1>1. IInv /\ [Next]_vars =>
        [\A r \in Rounds : roundVoteSets[r].maj23 # None =>
            roundVoteSets'[r].maj23 = roundVoteSets[r].maj23]_vars
  BY StepSound DEF StepKeeps
<1> QED
  BY <1>1, VotesInvariant, PTL DEF Spec, MajorityFinal

\* A vote that was counted for a block stays counted.
THEOREM CountedVotesKept == Spec => VotesKept
<1>1. IInv /\ [Next]_vars =>
        [\A r \in Rounds, b \in Values, i \in Validators :
            roundVoteSets[r].votesByBlock[b].votes[i] # None =>
                roundVoteSets'[r].votesByBlock[b].votes[i]
                    = roundVoteSets[r].votesByBlock[b].votes[i]]_vars
  BY StepSound DEF StepKeeps
<1> QED
  BY <1>1, VotesInvariant, PTL DEF Spec, VotesKept

\* The blocks a vote set keeps an entry for, and the peers that claimed one.
Kept(vs) == {b \in Values : vs.votesByBlock[b].tracked}
Claimers(vs) == {p \in Peers : vs.peerMaj23s[p] # None}

\* Every entry is paid for by a voter or by a claim.  The last conjunct makes
\* this inductive: a conflicting vote is kept only for a block that a peer
\* claimed, whose entry is there.
SmallSet(vs) ==
  /\ IsFiniteSet(Kept(vs)) /\ IsFiniteSet(Claimers(vs))
  /\ Cardinality(Kept(vs)) <= vs.sum + Cardinality(Claimers(vs))
  /\ \A b \in Values : vs.votesByBlock[b].peerMaj23 => vs.votesByBlock[b].tracked

\* The peers that made the node track a round, and the rounds to come.
Openers == {p \in Peers : peerCatchupRounds[p] # {}}
Ahead == {r \in tracked : r > round}

\* A round to come is tracked because a peer opened it, and each peer opened
\* at most two.
FewRounds ==
  /\ IsFiniteSet(Openers)
  /\ \A r \in Ahead : \E p \in Peers : r \in peerCatchupRounds[p]
  /\ \A p \in Peers : \E a, b \in Rounds : peerCatchupRounds[p] \subseteq {a, b}

\* The inductive invariant behind KeptBounded, on top of IInv.
SizesInv == (\A r \in Rounds : SmallSet(roundVoteSets[r])) /\ FewRounds

\* A new vote set keeps nothing.
LEMMA NewSmall == SmallSet(NewVoteSet)
<1>1. Kept(NewVoteSet) = {} /\ Claimers(NewVoteSet) = {} /\ NewVoteSet.sum = 0
  BY DEF Kept, Claimers, NewVoteSet, newBlockVotes
<1>2. \A b \in Values : ~NewVoteSet.votesByBlock[b].peerMaj23
  BY DEF NewVoteSet, newBlockVotes
<1> QED
  BY <1>1, <1>2, FS_EmptySet DEF SmallSet

\* A vote makes addVerifiedVote keep a new entry only if it is the first of
\* its member.
LEMMA VoteSmall ==
  ASSUME NEW vs \in VoteSets, Sound(vs), SmallSet(vs), NEW i \in Validators, NEW b \in Values,
         NEW result \in Results
  PROVE  SmallSet(addVote(vs, i, b, result))
<1> DEFINE t == addVote(vs, i, b, result)
           s == shareVote(vs, i, b, result)
           bv == vs.votesByBlock[b]
           nbv == addBlockVote(bv, i, result)
<1>1. CASE HasVote(vs, i, b)
  BY <1>1 DEF addVote
<1>2. CASE ~HasVote(vs, i, b)
  <2>0. bv \in BlockVotes /\ bv.votes[i] = None
    BY <1>2 DEF HasVote, VoteSets
  <2>1. /\ s \in VoteSets
        /\ s.maj23 = vs.maj23 /\ s.votesByBlock = vs.votesByBlock
        /\ s.peerMaj23s = vs.peerMaj23s
        /\ s.sum = Cardinality(Voters(s))
        /\ Voters(s) = Voters(vs) \cup {i}
        /\ \A j \in Validators : j # i => s.votes[j] = vs.votes[j]
        /\ (vs.votes[i] = NoVote \/ vs.maj23 = b) => s.votes[i] = [block |-> b, result |-> result]
        /\ (vs.votes[i] # NoVote /\ vs.maj23 # b) => s.votes[i] = vs.votes[i]
    BY <1>2, Sharing DEF Shared
  <2>2. /\ vs.sum = Cardinality(Voters(vs)) /\ IsFiniteSet(Voters(vs)) /\ vs.sum \in Nat
        /\ s.sum = IF i \in Voters(vs) THEN vs.sum ELSE vs.sum + 1
    <3>1. IsFiniteSet(Voters(vs))
      BY ValidatorsAssumption, FS_Subset DEF Voters
    <3>2. vs.sum = Cardinality(Voters(vs)) /\ vs.sum \in Nat
      BY DEF Sound, VoteSets
    <3>3. Cardinality(Voters(vs) \cup {i})
            = IF i \in Voters(vs) THEN Cardinality(Voters(vs)) ELSE Cardinality(Voters(vs)) + 1
      BY <3>1, FS_AddElement, Zenon
    <3> HIDE DEF s
    <3> QED
      BY <2>1, <3>1, <3>2, <3>3, Zenon
  <2>3. i \in Voters(vs) <=> vs.votes[i] # NoVote
    BY DEF Voters
  <2>4. Kept(s) = Kept(vs) /\ Claimers(s) = Claimers(vs)
    BY <2>1 DEF Kept, Claimers
  <2>5. Cardinality(Kept(vs)) \in Nat /\ Cardinality(Claimers(vs)) \in Nat
    BY FS_CardinalityType DEF SmallSet
  <2>6. CASE vs.votes[i] # NoVote /\ ~bv.peerMaj23
    <3>1. t = s
      BY <1>2, <2>6 DEF addVote, addVerifiedVote
    <3> QED
      BY <2>1, <2>2, <2>3, <2>4, <2>6, <3>1, Zenon DEF SmallSet
  <2>7. CASE ~(vs.votes[i] # NoVote /\ ~bv.peerMaj23)
    <3> DEFINE u == [s EXCEPT !.votesByBlock[b] = nbv]
    <3>1. t = countVote(s, b, nbv)
      BY <1>2, <2>7 DEF addVote, addVerifiedVote
    <3>2. t = u \/ t = [u EXCEPT !.maj23 = b, !.votes = copyVotes(u, b)]
      BY <3>1 DEF countVote
    <3>3. nbv.tracked = TRUE /\ nbv.peerMaj23 = bv.peerMaj23
      BY <2>0 DEF addBlockVote, BlockVotes
    <3>4. u.peerMaj23s = s.peerMaj23s /\ u.sum = s.sum
          /\ u.votesByBlock = [s.votesByBlock EXCEPT ![b] = nbv]
      BY <2>1 DEF VoteSets
    <3>5. t.peerMaj23s = vs.peerMaj23s /\ t.sum = s.sum
          /\ t.votesByBlock = [vs.votesByBlock EXCEPT ![b] = nbv]
      <4>1. CASE t = u
        BY <2>1, <3>4, <4>1
      <4>2. CASE t = [u EXCEPT !.maj23 = b, !.votes = copyVotes(u, b)]
        <5>1. t.peerMaj23s = u.peerMaj23s /\ t.sum = u.sum /\ t.votesByBlock = u.votesByBlock
          BY <2>1, <4>2 DEF VoteSets
        <5> QED
          BY <2>1, <3>4, <5>1
      <4> QED
        BY <3>2, <4>1, <4>2
    <3>6. \A c \in Values : t.votesByBlock[c] = IF c = b THEN nbv ELSE vs.votesByBlock[c]
      BY <3>5 DEF VoteSets
    <3> HIDE DEF t, nbv
    <3>7. Kept(t) = Kept(vs) \cup {b}
      BY <3>3, <3>6 DEF Kept
    <3>8. Claimers(t) = Claimers(vs)
      BY <3>5 DEF Claimers
    <3>9. IsFiniteSet(Kept(t))
          /\ Cardinality(Kept(t)) = IF b \in Kept(vs) THEN Cardinality(Kept(vs))
                                    ELSE Cardinality(Kept(vs)) + 1
      BY <3>7, FS_AddElement DEF SmallSet
    <3>10. b \notin Kept(vs) => i \notin Voters(vs)
      BY <2>3, <2>7 DEF Kept, SmallSet
    <3>11. Cardinality(Kept(t)) <= t.sum + Cardinality(Claimers(t))
      BY <2>2, <2>5, <3>5, <3>8, <3>9, <3>10 DEF SmallSet
    <3>12. \A c \in Values : t.votesByBlock[c].peerMaj23 => t.votesByBlock[c].tracked
      BY <3>3, <3>6 DEF SmallSet
    <3>13. SmallSet(t)
      BY <3>8, <3>9, <3>11, <3>12 DEF SmallSet
    <3> QED
      BY <3>13 DEF t
  <2> QED
    BY <2>6, <2>7
<1> QED
  BY <1>1, <1>2

\* SetPeerMaj23 keeps one entry for one claim.
LEMMA ClaimSmall ==
  ASSUME NEW vs \in VoteSets, SmallSet(vs), NEW p \in Peers, NEW b \in Values
  PROVE  SmallSet(SetPeerMaj23(vs, p, b))
<1> DEFINE t == SetPeerMaj23(vs, p, b)
           bv == [vs.votesByBlock[b] EXCEPT !.tracked = TRUE, !.peerMaj23 = TRUE]
<1>1. CASE vs.peerMaj23s[p] # None
  BY <1>1 DEF SetPeerMaj23
<1>2. CASE vs.peerMaj23s[p] = None
  <2>1. t = [vs EXCEPT !.peerMaj23s[p] = b, !.votesByBlock[b] = bv]
    BY <1>2 DEF SetPeerMaj23
  <2>2. t.votesByBlock = [vs.votesByBlock EXCEPT ![b] = bv] /\ t.sum = vs.sum
        /\ t.peerMaj23s = [vs.peerMaj23s EXCEPT ![p] = b]
    BY <2>1 DEF VoteSets
  <2>3. bv.tracked = TRUE
    BY DEF VoteSets, BlockVotes
  <2>4. \A c \in Values : t.votesByBlock[c] = IF c = b THEN bv ELSE vs.votesByBlock[c]
    BY <2>2 DEF VoteSets
  <2>5. \A q \in Peers : t.peerMaj23s[q] = IF q = p THEN b ELSE vs.peerMaj23s[q]
    BY <2>2 DEF VoteSets
  <2> HIDE DEF t, bv
  <2>6. Kept(t) = Kept(vs) \cup {b}
    BY <2>3, <2>4 DEF Kept
  <2>7. Claimers(t) = Claimers(vs) \cup {p} /\ p \notin Claimers(vs)
    BY <1>2, <2>5, ValuesAssumption DEF Claimers
  <2>8. Cardinality(Kept(vs)) \in Nat /\ Cardinality(Claimers(vs)) \in Nat /\ vs.sum \in Nat
    BY FS_CardinalityType DEF SmallSet, VoteSets
  <2>9. IsFiniteSet(Kept(t))
        /\ Cardinality(Kept(t)) = IF b \in Kept(vs) THEN Cardinality(Kept(vs))
                                  ELSE Cardinality(Kept(vs)) + 1
    BY <2>6, FS_AddElement DEF SmallSet
  <2>10. IsFiniteSet(Claimers(t)) /\ Cardinality(Claimers(t)) = Cardinality(Claimers(vs)) + 1
    BY <2>7, FS_AddElement DEF SmallSet
  <2>11. Cardinality(Kept(t)) <= t.sum + Cardinality(Claimers(t))
    BY <2>2, <2>8, <2>9, <2>10 DEF SmallSet
  <2>12. \A c \in Values : t.votesByBlock[c].peerMaj23 => t.votesByBlock[c].tracked
    BY <2>3, <2>4 DEF SmallSet
  <2>13. SmallSet(t)
    BY <2>9, <2>10, <2>11, <2>12 DEF SmallSet
  <2> QED
    BY <2>13 DEF t
<1> QED
  BY <1>1, <1>2

\* HeightVoteSet.AddVote opens a round for a peer that opened less than two.
LEMMA CatchUp ==
  ASSUME IInv, FewRounds, NEW p \in Peers, NEW r \in Rounds, r \notin tracked, MayCatchUp(p),
         tracked' = tracked \cup {r}, round' = round,
         peerCatchupRounds' = [peerCatchupRounds EXCEPT ![p] = @ \cup {r}]
  PROVE  FewRounds'
<1> DEFINE R == peerCatchupRounds[p]
<1>1. /\ peerCatchupRounds'[p] = R \cup {r}
      /\ \A q \in Peers : q # p => peerCatchupRounds'[q] = peerCatchupRounds[q]
      /\ R \subseteq Rounds
  BY DEF IInv, TypeOK
<1>2. Openers' = Openers \cup {p}
  BY <1>1 DEF Openers
<1>3. IsFiniteSet(Openers')
  BY <1>2, FS_AddElement DEF FewRounds
<1>4. \A q \in Ahead' : \E o \in Peers : q \in peerCatchupRounds'[o]
  BY <1>1 DEF Ahead, FewRounds
<1>5. \E a \in Rounds : R \subseteq {a}
  <2>1. IsFiniteSet(R)
    <3>1. IsFiniteSet(Rounds)
      BY BoundsAssumption, FS_Interval DEF Rounds
    <3> QED
      BY <1>1, <3>1, FS_Subset
  <2>2. Cardinality(R) = 0 \/ Cardinality(R) = 1
    BY <2>1, FS_CardinalityType DEF MayCatchUp
  <2>3. R = {} \/ \E x : R = {x}
    BY <2>1, <2>2, FS_EmptySet, FS_Singleton, Zenon
  <2> QED
    BY <1>1, <2>3
<1>6. \A q \in Peers : \E a, b \in Rounds : peerCatchupRounds'[q] \subseteq {a, b}
  <2> SUFFICES ASSUME NEW q \in Peers
               PROVE  \E a, b \in Rounds : peerCatchupRounds'[q] \subseteq {a, b}
    OBVIOUS
  <2>1. CASE q = p
    <3>1. PICK a \in Rounds : R \subseteq {a}
      BY <1>5
    <3>2. peerCatchupRounds'[q] \subseteq {a, r}
      BY <1>1, <2>1, <3>1
    <3> QED
      BY <3>2
  <2>2. CASE q # p
    BY <1>1, <2>2 DEF FewRounds
  <2> QED
    BY <2>1, <2>2
<1> QED
  BY <1>3, <1>4, <1>6 DEF FewRounds

\* The invariant holds after Reset.
LEMMA InitSizes == Init => SizesInv
<1> SUFFICES ASSUME Init PROVE SizesInv
  OBVIOUS
<1>1. \A r \in Rounds : SmallSet(roundVoteSets[r])
  BY NewSmall DEF Init
<1>2. Openers = {} /\ Ahead = {} /\ 0 \in Rounds
  BY BoundsAssumption DEF Init, Openers, Ahead, Rounds
<1>3. \A p \in Peers : peerCatchupRounds[p] = {}
  BY DEF Init
<1> QED
  BY <1>1, <1>2, <1>3, FS_EmptySet DEF SizesInv, FewRounds

\* Every step keeps it; SetRound only turns rounds to come into past ones.
LEMMA StepSizes ==
  ASSUME IInv, SizesInv, [Next]_vars
  PROVE  SizesInv'
<1> USE DEF SizesInv
<1>0. roundVoteSets \in [Rounds -> VoteSets] /\ \A r \in Rounds : Sound(roundVoteSets[r])
  BY DEF IInv, TypeOK
<1>1. CASE UNCHANGED vars
  BY <1>1 DEF vars, FewRounds, Openers, Ahead
<1>2. ASSUME NEW r \in Rounds, SetRound(r)
      PROVE  SizesInv'
  <2>1. UNCHANGED <<roundVoteSets, peerCatchupRounds>>
    BY <1>2 DEF SetRound
  <2>2. Ahead' \subseteq Ahead
    <3>1. /\ r > round /\ tracked' = tracked \cup (round + 1 .. r) /\ round' = r
          /\ r \in Int /\ round \in Int /\ tracked \subseteq Int
      BY <1>2 DEF SetRound, IInv, TypeOK, Rounds
    <3>2. ASSUME NEW q \in Ahead'
          PROVE  q \in Ahead
      <4>1. q \in tracked \cup (round + 1 .. r) /\ q > r
        BY <3>1 DEF Ahead
      <4>2. q \in tracked /\ q > round
        BY <3>1, <4>1
      <4> QED
        BY <4>2 DEF Ahead
    <3> QED
      BY <3>2
  <2> QED
    BY <2>1, <2>2 DEF FewRounds, Openers
<1>3. ASSUME NEW p \in Peers, NEW r \in Rounds, NEW i \in Validators, NEW b \in Values,
             NEW result \in Results, AddVote(p, r, i, b, result)
      PROVE  SizesInv'
  <2>1. roundVoteSets' = [roundVoteSets EXCEPT ![r] = addVote(roundVoteSets[r], i, b, result)]
        /\ round' = round
    BY <1>3 DEF AddVote
  <2>2. SmallSet(addVote(roundVoteSets[r], i, b, result))
    BY <1>0, VoteSmall
  <2>3. \A q \in Rounds : SmallSet(roundVoteSets'[q])
    BY <1>0, <2>1, <2>2
  <2>4. CASE UNCHANGED <<tracked, peerCatchupRounds>>
    BY <2>1, <2>3, <2>4 DEF FewRounds, Openers, Ahead
  <2>5. CASE ~UNCHANGED <<tracked, peerCatchupRounds>>
    <3>1. /\ r \notin tracked /\ MayCatchUp(p) /\ tracked' = tracked \cup {r}
          /\ peerCatchupRounds' = [peerCatchupRounds EXCEPT ![p] = @ \cup {r}]
      BY <1>3, <2>5 DEF AddVote
    <3> QED
      BY <2>1, <2>3, <3>1, CatchUp, Zenon
  <2> QED
    BY <2>4, <2>5
<1>4. ASSUME NEW p \in Peers, NEW r \in Rounds, NEW b \in Values, PeerMaj23(p, r, b)
      PROVE  SizesInv'
  <2>1. roundVoteSets' = [roundVoteSets EXCEPT ![r] = SetPeerMaj23(roundVoteSets[r], p, b)]
        /\ UNCHANGED <<round, tracked, peerCatchupRounds>>
    BY <1>4 DEF PeerMaj23
  <2>2. SmallSet(SetPeerMaj23(roundVoteSets[r], p, b))
    BY <1>0, ClaimSmall
  <2>3. \A q \in Rounds : SmallSet(roundVoteSets'[q])
    BY <1>0, <2>1, <2>2
  <2> QED
    BY <2>1, <2>3, Zenon DEF FewRounds, Openers, Ahead
<1> QED
  BY <1>1, <1>2, <1>3, <1>4, Zenon DEF Next

\* The rounds to come are two per opener: each is named by its opener and by
\* whether it is the first of that peer.
LEMMA TwoEach ==
  ASSUME IInv, FewRounds
  PROVE  Cardinality(Ahead) <= 2 * Cardinality(Openers)
<1> DEFINE T == Openers \X {1, 2}
           opener(r) == CHOOSE p \in Peers : r \in peerCatchupRounds[p]
           first(p) == CHOOSE x \in Rounds : x \in peerCatchupRounds[p]
           g == [r \in Ahead |-> <<opener(r), IF r = first(opener(r)) THEN 1 ELSE 2>>]
<1>1. \A r \in Ahead : opener(r) \in Openers /\ r \in peerCatchupRounds[opener(r)]
  BY DEF FewRounds, Openers
<1>2. \A p \in Openers : first(p) \in peerCatchupRounds[p]
  BY DEF Openers, IInv, TypeOK
<1>3. g \in [Ahead -> T]
  BY <1>1
<1>4. ASSUME NEW q \in Ahead, NEW r \in Ahead, g[q] = g[r]
      PROVE  q = r
  <2>1. opener(q) = opener(r) /\ (q = first(opener(r)) <=> r = first(opener(r)))
    <3> HIDE DEF opener, first
    <3>1. <<opener(q), IF q = first(opener(q)) THEN 1 ELSE 2>>
            = <<opener(r), IF r = first(opener(r)) THEN 1 ELSE 2>>
      BY <1>4
    <3>2. opener(q) = opener(r)
      BY <3>1
    <3>3. (IF q = first(opener(q)) THEN 1 ELSE 2) = (IF r = first(opener(r)) THEN 1 ELSE 2)
      BY <3>1
    <3> QED
      BY <3>2, <3>3
  <2>2. PICK a \in Rounds, b \in Rounds : peerCatchupRounds[opener(r)] \subseteq {a, b}
    BY <1>1, Zenon DEF FewRounds, Openers
  <2> HIDE DEF opener, first
  <2>3. {q, r, first(opener(r))} \subseteq {a, b}
    BY <1>1, <1>2, <2>1, <2>2
  <2> QED
    BY <2>1, <2>3
<1>5. g \in Injection(Ahead, T)
  <2> HIDE DEF g, T
  <2> QED
    BY <1>3, <1>4 DEF Injection, IsInjective
<1>6. IsFiniteSet(T) /\ Cardinality(T) = Cardinality(Openers) * 2
  <2>1. IsFiniteSet({1, 2}) /\ Cardinality({1, 2}) = 2
    <3>1. Cardinality({1}) = 1 /\ IsFiniteSet({1}) /\ {1, 2} = {1} \cup {2} /\ 2 \notin {1}
      BY FS_Singleton
    <3> QED
      BY <3>1, FS_AddElement
  <2> QED
    BY <2>1, FS_Product DEF FewRounds
<1>7. Cardinality(Ahead) <= Cardinality(T)
  <2> HIDE DEF g, T
  <2> QED
    BY <1>5, <1>6, FS_Injection
<1>8. Cardinality(Openers) \in Nat
  BY FS_CardinalityType DEF FewRounds
<1> QED
  BY <1>6, <1>7, <1>8

\* What other nodes can make this one keep is bounded by the votes and claims
\* it accepted (addVerifiedVote, SetPeerMaj23) and by two rounds per peer
\* (AddVote), for any number of peers, blocks and rounds.
THEOREM KeptIsBounded == Spec => []KeptBounded
<1>1. IInv /\ SizesInv => KeptBounded
  <2> SUFFICES ASSUME IInv, SizesInv PROVE KeptBounded
    OBVIOUS
  <2>1. Cardinality({r \in tracked : r > round})
          <= 2 * Cardinality({p \in Peers : peerCatchupRounds[p] # {}})
    BY TwoEach DEF SizesInv, Ahead, Openers
  <2> QED
    BY <2>1, Zenon DEF KeptBounded, SizesInv, SmallSet, Kept, Claimers
<1> QED
  BY <1>1, VotesInvariant, InitSizes, StepSizes, PTL DEF Spec
============================================================================
