----------------------------- MODULE PeerGossip -----------------------------
(***************************************************************************)
(* consensus/tbft/reactor.go: how a node brings the precommits of a height *)
(* to a peer, going by what it believes the peer to have (PeerState).  The *)
(* belief comes from the peer's messages and from the node's own sends;    *)
(* the peer moves on meanwhile, a send may fail after the vote was marked  *)
(* as sent, every channel has its own order and broadcasts have none.      *)
(*                                                                         *)
(* The height is 1; the node, called S below, may already be at height 2   *)
(* (it then shares its LastCommit) or 3 (it shares the stored commit), the *)
(* peer P gets to height 2.  Prevotes travel like the precommits of the    *)
(* current round and are left out, and so is the proposal with its POL:    *)
(* PRS.ProposalPOLRound stays -1.  Each member has one precommit a round.  *)
(***************************************************************************)
EXTENDS Integers, Sequences, FiniteSets

CONSTANTS Validators,
          Quorum,      \* how many precommits make a commit
          MaxRound,    \* bound on rounds
          Scopes       \* bounds to explore, one of which a behaviour keeps

Rounds == 0 .. MaxRound

ASSUME GossipAssumption ==
  /\ MaxRound \in Nat /\ Quorum \in Nat \ {0} /\ IsFiniteSet(Validators)
  /\ Scopes \subseteq
       [voted : SUBSET Rounds,   \* rounds with votes
        round : Rounds,   \* the last round of P
        first : Rounds,   \* the round in which S begins
        fails : Nat,      \* failed sends
        strays : Nat,     \* precommits S gets beyond a quorum
        own : Nat,        \* precommits P gets from others than S
        waiting : Nat]    \* broadcasts on their way

(* The steps of a round that the reactor tells apart: RoundStepNewHeight,  *)
(* those up to RoundStepPrecommitWait, RoundStepCommit.                    *)
NewHeight == 1
Voting == 2
Commit == 3

VARIABLES
  s,       \* S: height, round, precommits by round, round and votes of its commit
  p,       \* P: height, round, step, precommits by round, rounds it keeps votes of
  prs,     \* what S believes of P (PeerRoundState)
  toP,     \* votes on their way to P (VoteChannel)
  query,   \* VoteSetMaj23 messages on their way to P
  toS,     \* NewRoundStep and HasVote messages being broadcast, in no order
  bits,    \* VoteSetBits messages on their way to S
  lost,    \* lost[r]: votes whose send failed, or that P had no use for
  fails,   \* failed sends so far
  scope    \* the bounds of this behaviour

vars == <<s, p, prs, toP, query, toS, bits, lost, fails, scope>>

(* A BitArray, which may be nil.                                           *)
Nil == [ok |-> FALSE, set |-> {}]
newBits == [ok |-> TRUE, set |-> {}]
setIndex(b, i) == IF b.ok THEN [b EXCEPT !.set = @ \cup {i}] ELSE b

NoRound == -1

stepMsg(q) == [kind |-> "step", height |-> q.height, round |-> q.round, step |-> q.step,
               last |-> q.last, index |-> 0]
hasVoteMsg(r, i) == [kind |-> "hasVote", height |-> 1, round |-> r, step |-> 0,
                     last |-> NoRound, index |-> i]

Init ==
  /\ scope \in Scopes
  /\ s = [height |-> 1, round |-> scope.first, votes |-> [r \in Rounds |-> {}],
          commit |-> NoRound, stored |-> {}]
  /\ p = [height |-> 1, round |-> 0, step |-> Voting, votes |-> [r \in Rounds |-> {}],
          tracked |-> {0, 1} \cap Rounds, catchup |-> {}, last |-> NoRound]
  /\ prs = [height |-> 0, round |-> NoRound, step |-> 0, precommits |-> Nil,
            lastRound |-> NoRound, last |-> Nil,
            catchupRound |-> NoRound, catchup |-> Nil, shared |-> FALSE]
  /\ toP = <<>> /\ query = <<>> /\ bits = <<>>
  /\ toS = {stepMsg(p)}     \* sendNewRoundStepMessages when the peer is added
  /\ lost = [r \in Rounds |-> {}] /\ fails = 0

-----------------------------------------------------------------------------
(* PeerState.  `shared' says that CatchupCommit and Precommits are the     *)
(* same array.                                                             *)

ensureCatchupCommitRound(b, round) ==
  IF b.height # 1 \/ b.catchupRound = round THEN b
  ELSE IF round = b.round
       THEN [b EXCEPT !.catchupRound = round, !.catchup = b.precommits,
                      !.shared = b.precommits.ok]
       ELSE [b EXCEPT !.catchupRound = round, !.catchup = newBits, !.shared = FALSE]

ensureVoteBitArrays(b) ==
  CASE b.height = 1 -> [b EXCEPT !.precommits = IF @.ok THEN @ ELSE newBits,
                                 !.catchup = IF @.ok THEN @ ELSE newBits]
    [] b.height = 2 -> [b EXCEPT !.last = IF @.ok THEN @ ELSE newBits]
    [] OTHER -> b

(* Which array holds the precommits of a round.                            *)
whichBits(b, round) ==
  CASE b.height = 1 /\ b.round = round -> "precommits"
    [] b.height = 1 /\ b.round # round /\ b.catchupRound = round -> "catchup"
    [] b.height = 2 /\ b.lastRound = round -> "last"
    [] OTHER -> "none"

getVoteBitArray(b, round) ==
  CASE whichBits(b, round) = "precommits" -> b.precommits
    [] whichBits(b, round) = "catchup" -> b.catchup
    [] whichBits(b, round) = "last" -> b.last
    [] OTHER -> Nil

(* Put a new value into that array.                                        *)
putBits(b, round, v) ==
  CASE whichBits(b, round) = "precommits" ->
         [b EXCEPT !.precommits = v, !.catchup = IF b.shared THEN v ELSE @]
    [] whichBits(b, round) = "catchup" ->
         [b EXCEPT !.catchup = v, !.precommits = IF b.shared THEN v ELSE @]
    [] whichBits(b, round) = "last" -> [b EXCEPT !.last = v]
    [] OTHER -> b

setHasVote(b, round, i) == putBits(b, round, setIndex(getVoteBitArray(b, round), i))

older(m, b) == \/ m.height < b.height
               \/ m.height = b.height /\ m.round < b.round
               \/ m.height = b.height /\ m.round = b.round /\ m.step <= b.step

(* Mutant of ApplyNewRoundStepMessage: the precommits survive a new round. *)
ApplyNewRoundStepKeeps(b, m) ==
  IF older(m, b) THEN b
  ELSE [b EXCEPT !.height = m.height, !.round = m.round, !.step = m.step]

(* The new height forgets the precommits before they are shifted to        *)
(* LastCommit, which is therefore always nil.                              *)
ApplyNewRoundStepMessage(b, m) ==
  IF older(m, b) THEN b
  ELSE LET moved  == b.height # m.height \/ b.round # m.round
           caught == b.height = m.height /\ b.round # m.round /\ m.round = b.catchupRound
           n == [b EXCEPT !.height = m.height, !.round = m.round, !.step = m.step,
                          !.precommits = IF caught THEN b.catchup
                                         ELSE IF moved THEN Nil ELSE @,
                          !.shared = IF moved THEN caught /\ b.catchup.ok ELSE @]
       IN  IF b.height = m.height THEN n
           ELSE [n EXCEPT !.lastRound = m.last, !.last = Nil,
                          !.catchupRound = NoRound, !.catchup = Nil, !.shared = FALSE]

ApplyHasVoteMessage(b, m) == IF b.height # m.height THEN b ELSE setHasVote(b, m.round, m.index)

(* Mutant of ApplyVoteSetBitsMessage: claims are only added.               *)
ApplyVoteSetBitsAdds(b, round, claimed, ours) ==
  LET votes == getVoteBitArray(b, round)
  IN  IF ~votes.ok THEN b
      ELSE putBits(b, round, [ok |-> TRUE, set |-> votes.set \cup claimed.set])

(* What P claims to have replaces what S believed, as far as S can judge.  *)
ApplyVoteSetBitsMessage(b, round, claimed, ours) ==
  LET votes == getVoteBitArray(b, round)
  IN  IF ~votes.ok THEN b
      ELSE IF ours.ok THEN putBits(b, round, [ok |-> TRUE,
                             set |-> (votes.set \ ours.set) \cup claimed.set])
      ELSE IF claimed.ok THEN putBits(b, round, claimed) ELSE b

-----------------------------------------------------------------------------
(* S gets votes, from others or from P (Receive then marks them), and      *)
(* moves on.                                                               *)

Maj23(r) == Cardinality(s.votes[r]) >= Quorum

count(votes) == Cardinality(UNION {{r} \X votes[r] : r \in Rounds})

SGetsVote(r, i) ==
  /\ s.height = 1 \/ (s.height = 2 /\ r = s.commit)
  /\ i \notin s.votes[r] /\ r \in scope.voted
  /\ count(s.votes) < scope.strays + Quorum
  /\ s' = [s EXCEPT !.votes[r] = @ \cup {i}]
  /\ \/ UNCHANGED prs
     \/ i \in p.votes[r] /\ prs' = setHasVote(ensureVoteBitArrays(prs), r, i)
  /\ UNCHANGED <<p, toP, query, toS, bits, lost, fails, scope>>

SNextRound ==
  /\ s.height = 1 /\ s.round < scope.round
  /\ s' = [s EXCEPT !.round = @ + 1]
  /\ UNCHANGED <<p, prs, toP, query, toS, bits, lost, fails, scope>>

SCommits(r) ==
  /\ s.height = 1 /\ Maj23(r)
  /\ s' = [s EXCEPT !.height = 2, !.commit = r, !.stored = s.votes[r]]
  /\ UNCHANGED <<p, prs, toP, query, toS, bits, lost, fails, scope>>

SNextHeight ==
  /\ s.height = 2
  /\ s' = [s EXCEPT !.height = 3]
  /\ UNCHANGED <<p, prs, toP, query, toS, bits, lost, fails, scope>>

-----------------------------------------------------------------------------
(* The gossip routines of S for P.                                         *)

(* PickSendVote: the vote is marked before it is sent.                     *)
PickSendVote(round, votes, isCommit) ==
  LET b == ensureVoteBitArrays(IF isCommit THEN ensureCatchupCommitRound(prs, round) ELSE prs)
      has == getVoteBitArray(b, round)
  IN  IF ~has.ok \/ votes \subseteq has.set
      THEN prs' = b /\ UNCHANGED <<toP, lost, fails>>
      ELSE \E i \in votes \ has.set :
             /\ prs' = setHasVote(b, round, i)
             /\ \/ /\ toP = <<>>
                   /\ toP' = Append(toP, <<round, i>>)
                   /\ UNCHANGED <<lost, fails>>
                \/ /\ fails < scope.fails
                   /\ fails' = fails + 1
                   /\ lost' = [lost EXCEPT ![round] = @ \cup {i}]
                   /\ UNCHANGED toP

(* gossipVotesRoutine.  P may have moved on since its round was read, so   *)
(* any round up to the own one may be offered.                             *)
GossipVotes ==
  /\ prs.height # 0
  /\ \/ /\ s.height = 1 /\ prs.height = 1 /\ prs.step <= Voting
        /\ \E r \in 0 .. s.round : r <= prs.round /\ PickSendVote(r, s.votes[r], Maj23(r))
     \/ /\ s.height = 2
        /\ prs.height = 1 \/ prs.step = NewHeight
        /\ PickSendVote(s.commit, s.votes[s.commit], TRUE)
     \/ /\ s.height = 3 /\ prs.height = 1
        /\ PickSendVote(s.commit, s.stored, TRUE)
  /\ UNCHANGED <<s, p, query, toS, bits, scope>>

(* queryMaj23Routine: ask P which precommits of a majority it has.  The    *)
(* send may fail.  As in PickSendVote, the model has one message of the    *)
(* kind on its way at a time.                                              *)
QueryMaj23 ==
  /\ \E r \in Rounds :
       /\ \/ s.height = 1 /\ prs.height = 1 /\ r = prs.round /\ Maj23(r)
          \/ s.height > 1 /\ prs.height = 1 /\ prs.catchupRound # NoRound /\ r = s.commit
       /\ \/ /\ query = <<>> /\ bits = <<>>
             /\ query' = Append(query, r)
             /\ UNCHANGED fails
          \/ fails < scope.fails /\ fails' = fails + 1 /\ UNCHANGED query
  /\ UNCHANGED <<s, p, prs, toP, toS, bits, lost, scope>>

(* Receive: the peer's round, a vote it has, the votes it claims to have.  *)
ReceiveState ==
  /\ \E m \in toS :
       /\ prs' = IF m.kind = "step" THEN ApplyNewRoundStepMessage(prs, m)
                 ELSE ApplyHasVoteMessage(prs, m)
       /\ toS' = toS \ {m}
  /\ UNCHANGED <<s, p, toP, query, bits, lost, fails, scope>>

ReceiveVoteSetBits ==
  /\ bits # <<>>
  /\ LET m == Head(bits)
         ours == IF s.height = 1 /\ s.votes[m.round] # {}
                 THEN [ok |-> TRUE, set |-> s.votes[m.round]] ELSE Nil
     IN  prs' = ApplyVoteSetBitsMessage(prs, m.round, m.votes, ours)
  /\ bits' = Tail(bits)
  /\ UNCHANGED <<s, p, toP, query, toS, lost, fails, scope>>

-----------------------------------------------------------------------------
(* P.  Switch.Broadcast sends each message from a goroutine of its own.    *)

Broadcast(m) == Cardinality(toS) < scope.waiting /\ toS' = toS \cup {m}

(* HeightVoteSet keeps votes of rounds up to the next one, and of two      *)
(* later rounds for each peer.                                             *)
accepts(r) == r \in p.tracked \/ Cardinality(p.catchup) < 2

added(r, i) == [p EXCEPT !.votes[r] = @ \cup {i},
                         !.tracked = @ \cup {r},
                         !.catchup = IF r \in p.tracked THEN @ ELSE @ \cup {r}]

(* A vote from S: new, known already, or of no use any more.               *)
PReceivesVote ==
  /\ toP # <<>>
  /\ LET r == Head(toP)[1]
         i == Head(toP)[2]
     IN  IF i \in p.votes[r] THEN UNCHANGED <<p, toS, lost>>
         ELSE IF \/ p.height = 1 /\ accepts(r)
                 \/ p.height = 2 /\ p.step = NewHeight /\ r = p.last
         THEN p' = added(r, i) /\ Broadcast(hasVoteMsg(r, i)) /\ UNCHANGED lost
         ELSE lost' = [lost EXCEPT ![r] = @ \cup {i}] /\ UNCHANGED <<p, toS>>
  /\ toP' = Tail(toP)
  /\ UNCHANGED <<s, prs, query, bits, fails, scope>>

(* A vote that P gets from another peer.                                   *)
PGetsVote(r, i) ==
  /\ p.height = 1 /\ r \in p.tracked /\ r \in scope.voted /\ i \notin p.votes[r]
  /\ count(p.votes) < scope.own
  /\ p' = added(r, i)
  /\ Broadcast(hasVoteMsg(r, i))
  /\ UNCHANGED <<s, prs, toP, query, bits, lost, fails, scope>>

PNextRound ==
  /\ p.height = 1 /\ p.step = Voting /\ p.round < scope.round
  /\ p' = [p EXCEPT !.round = @ + 1, !.tracked = @ \cup ({p.round + 1, p.round + 2} \cap Rounds)]
  /\ Broadcast(stepMsg(p'))
  /\ UNCHANGED <<s, prs, toP, query, bits, lost, fails, scope>>

(* enterCommit, while the block is still missing.                          *)
PEntersCommit ==
  /\ p.height = 1 /\ p.step = Voting
  /\ \E r \in Rounds : Cardinality(p.votes[r]) >= Quorum
  /\ p' = [p EXCEPT !.step = Commit]
  /\ Broadcast(stepMsg(p'))
  /\ UNCHANGED <<s, prs, toP, query, bits, lost, fails, scope>>

PCommits(r) ==
  /\ p.height = 1 /\ p.step = Commit /\ Cardinality(p.votes[r]) >= Quorum
  /\ p' = [p EXCEPT !.height = 2, !.round = 0, !.step = NewHeight, !.last = r]
  /\ Broadcast(stepMsg(p'))
  /\ UNCHANGED <<s, prs, toP, query, bits, lost, fails, scope>>

PStartsHeight ==
  /\ p.height = 2 /\ p.step = NewHeight
  /\ p' = [p EXCEPT !.step = Voting]
  /\ Broadcast(stepMsg(p'))
  /\ UNCHANGED <<s, prs, toP, query, bits, lost, fails, scope>>

(* The answer to a query: nil for a round P keeps no votes of.             *)
PAnswers ==
  /\ query # <<>>
  /\ bits' = IF p.height # 1 THEN bits
             ELSE Append(bits, [round |-> Head(query),
                                votes |-> IF Head(query) \in p.tracked
                                          THEN [ok |-> TRUE, set |-> p.votes[Head(query)]]
                                          ELSE Nil])
  /\ query' = Tail(query)
  /\ UNCHANGED <<s, p, prs, toP, toS, lost, fails, scope>>

-----------------------------------------------------------------------------
SMoves == \/ \E r \in Rounds, i \in Validators : SGetsVote(r, i)
          \/ \E r \in Rounds : SCommits(r)
          \/ SNextRound \/ SNextHeight

PMoves == \/ \E r \in Rounds, i \in Validators : PGetsVote(r, i)
          \/ PNextRound \/ PStartsHeight

PFinishes == PEntersCommit \/ \E r \in Rounds : PCommits(r)

VoteFlow == GossipVotes \/ PReceivesVote

QueryFlow == QueryMaj23 \/ PAnswers \/ ReceiveVoteSetBits

Next == \/ SMoves \/ PMoves \/ PFinishes
        \/ VoteFlow \/ QueryFlow \/ ReceiveState

Spec == Init /\ [][Next]_vars

(* The two gossip routines and the two ends of every channel keep going; P *)
(* gets the block it commits (its parts travel on their own).              *)
Fairness == /\ WF_vars(VoteFlow) /\ WF_vars(QueryFlow)
            /\ WF_vars(ReceiveState) /\ WF_vars(PFinishes)

FairSpec == Spec /\ Fairness

-----------------------------------------------------------------------------
InFlight(r) == {i \in Validators : \E k \in 1 .. Len(toP) : toP[k] = <<r, i>>}

(* The votes of a round that P has, or that were sent to it.               *)
Offered(r) == p.votes[r] \cup InFlight(r) \cup lost[r]

BitsOK(b, r) == b.set # {} => r \in Rounds /\ b.set \subseteq Offered(r)

(* S never believes P to have a vote that P neither has nor was sent:      *)
(* whichever way the arrays of PeerState are reset, shared, shifted and    *)
(* overwritten while the peer changes round and height, no bit moves from  *)
(* one round to another.  A vote wrongly marked would never be offered.    *)
BeliefSound == /\ prs.height = 1 => BitsOK(prs.precommits, prs.round)
               /\ prs.height = 1 => BitsOK(prs.catchup, prs.catchupRound)
               /\ prs.height = 2 => BitsOK(prs.last, prs.lastRound)

(* Once S has committed, P gets the commit, even if sends of S fail after  *)
(* their votes were marked as sent: the answers to the queries put the     *)
(* belief right.                                                           *)
CommitReaches == (s.height > 1) ~> (p.height = 2)

-----------------------------------------------------------------------------
BitArrays == [ok : BOOLEAN, set : SUBSET Validators]
RoundsOrNone == Rounds \cup {NoRound}

PeerRoundStates ==
  [height : 0 .. 2, round : RoundsOrNone, step : 0 .. 3, precommits : BitArrays,
   lastRound : RoundsOrNone, last : BitArrays,
   catchupRound : RoundsOrNone, catchup : BitArrays, shared : BOOLEAN]

TypeOK ==
  /\ s \in [height : 1 .. 3, round : Rounds, votes : [Rounds -> SUBSET Validators],
            commit : RoundsOrNone, stored : SUBSET Validators]
  /\ s.height > 1 => s.commit \in Rounds
  /\ p \in [height : 1 .. 2, round : Rounds, step : 1 .. 3, votes : [Rounds -> SUBSET Validators],
            tracked : SUBSET Rounds, catchup : SUBSET Rounds, last : RoundsOrNone]
  /\ prs \in PeerRoundStates
  /\ toP \in Seq(Rounds \X Validators) /\ query \in Seq(Rounds)
  /\ bits \in Seq([round : Rounds, votes : BitArrays])
  /\ lost \in [Rounds -> SUBSET Validators]
  /\ fails \in Nat /\ scope \in Scopes

(* What P says about its votes is true, when it is said and later.         *)
MessagesTrue ==
  /\ \A m \in toS :
       \/ /\ m.kind = "step" /\ m.height \in 1 .. 2 /\ m.round \in Rounds
          /\ m.step \in 1 .. 3 /\ m.last \in RoundsOrNone
       \/ /\ m.kind = "hasVote" /\ m.height = 1 /\ m.round \in Rounds
          /\ m.index \in p.votes[m.round]
  /\ \A k \in 1 .. Len(bits) : bits[k].votes.set \subseteq p.votes[bits[k].round]

(* A belief b is sound for the votes off that were offered; two names of   *)
(* one array stand for one round.                                          *)
BitsWithin(v, r, off) == v.set # {} => r \in Rounds /\ v.set \subseteq off[r]

Good(b, off) ==
  /\ b \in PeerRoundStates
  /\ b.shared => /\ b.catchup = b.precommits /\ b.catchup.ok
                 /\ b.catchupRound = b.round
  /\ b.height = 1 => /\ BitsWithin(b.precommits, b.round, off)
                     /\ BitsWithin(b.catchup, b.catchupRound, off)
  /\ b.height = 2 => BitsWithin(b.last, b.lastRound, off)

OfferedVotes == [r \in Rounds |-> Offered(r)]

(* The inductive invariant behind BeliefSound.                             *)
IInv == TypeOK /\ MessagesTrue /\ Good(prs, OfferedVotes)
=============================================================================
