--------------------------- MODULE ConsensusState ---------------------------
(***************************************************************************)
(* One committee member: consensus/tbft/state.go, with the signer and the  *)
(* timeout ticker it drives, against peers that may send anything.         *)
(*                                                                         *)
(* receiveRoutine handles one message or timeout at a time and is the only *)
(* writer of the round state, so every handler is one atomic step.  The    *)
(* source's functions are operators that take the member's state c to its  *)
(* new state; w holds what the rest of the node answers during the handler:*)
(*   verdict   what VerifyFastBlock says of the one block it validates     *)
(*   made      the block MakeBlock returns, or None                        *)
(*   empty     that block has no transactions                              *)
(*   commit    ConsensusCommit succeeds                                    *)
(*   switch    the committed block carries a committee switch              *)
(*                                                                         *)
(* Peers are counted, never named: no decision of state.go compares the    *)
(* senders of two vote sets.  A block has one part; a part set that does   *)
(* not decode stays an incomplete one.                                     *)
(***************************************************************************)
EXTENDS Integers, Sequences, FiniteSets, FiniteSetsExt, TLC

CONSTANTS
    Blocks,             \* the blocks that can be proposed
    Power,              \* members of the committee, this one included
    MaxRound,           \* bound: the last round of a height
    MaxHeight,          \* bound: the last height worked on
    Oracles,            \* bound: the answers w that occur
    ProposerRounds,     \* the rounds this member is the proposer of
    WaitForEmptyBlocks, \* how often round 0 waits for transactions
    SkipTimeoutCommit,  \* config.SkipTimeoutCommit
    Scopes              \* bounds on the others: name -> the votes peers send at one
                        \* height, the <<type, round, value>> these are of, whether
                        \* blocks also arrive by synchronisation (syncs), and the
                        \* committee updates and stops

VARIABLE cs

Rounds == 0..MaxRound
Rules == INSTANCE ValidatorRules

Nil == Rules!Nil        \* a vote with an empty BlockID
None == Rules!None      \* a nil pointer, or no vote
Against == "against"    \* a vote for a block whose Result is not VoteAgree
Values == Blocks \cup {Nil}

\* RoundStepType
NewHeight == 1
NewRound == 2
Propose == 3
Prevote == 4
PrevoteWait == 5
Precommit == 6
PrecommitWait == 7
Commit == 8

VoteTypes == {Prevote, Precommit}

----------------------------------------------------------------------------
(* Vote sets.  blockVotes.sum counts VoteAgree votes only, sum all votes.   *)

NewVoteSet == [peers |-> [v \in Values |-> 0], own |-> None]

PeerSum(vs) == MapThenSumSet(LAMBDA v : vs.peers[v], Values)
Sum(vs) == PeerSum(vs) + IF vs.own = None THEN 0 ELSE 1
BlockSum(vs, v) == vs.peers[v] + IF vs.own = v THEN 1 ELSE 0

HasTwoThirdsAny(vs) == Sum(vs) > (Power * 2) \div 3
HasAll(vs) == Sum(vs) = Power

\* The value with quorum votes, or None.
TwoThirdsMajority(vs) ==
    LET major == {v \in Values : BlockSum(vs, v) >= (Power * 2) \div 3 + 1}
    IN  IF major = {} THEN None ELSE CHOOSE v \in major : TRUE

HasTwoThirdsMajority(vs) == TwoThirdsMajority(vs) # None

\* HeightVoteSet.POLInfo: the last tracked round with +2/3 prevotes, or -1.
POLInfo(c) ==
    Max({-1} \cup {r \in Rounds : r <= c.votesRound /\ HasTwoThirdsMajority(c.Votes[Prevote][r])})

----------------------------------------------------------------------------
(* The ticker, the signer and the internal queue.                           *)

TimeoutInfo(h, r, s, wait) == [Height |-> h, Round |-> r, Step |-> s, Wait |-> wait]

\* Mutant: steps are compared whatever the height and round.
OutdatedByStep(new, old) == new.Wait = 1 /\ old.Step > 0 /\ new.Step <= old.Step

\* Mutant: repeated waits are not exempt.
OutdatedWaits(new, old) ==
    /\ new.Height = old.Height /\ new.Round = old.Round
    /\ old.Step > 0 /\ new.Step <= old.Step

\* timeoutRoutine on a tick: one that is not for a later height, round and
\* step than the last one is ignored, unless it is a repeated wait.
Outdated(new, old) ==
    /\ new.Wait = 1
    /\ \/ new.Height < old.Height
       \/ new.Height = old.Height /\ new.Round < old.Round
       \/ /\ new.Height = old.Height /\ new.Round = old.Round
          /\ old.Step > 0 /\ new.Step <= old.Step

ScheduleTimeout(c, ti) ==
    IF Outdated(ti, c.timer.ti) THEN c ELSE [c EXCEPT !.timer = [ti |-> ti, armed |-> TRUE]]

scheduleTimeout(c, r, s) == ScheduleTimeout(c, TimeoutInfo(c.Height, r, s, 1))

\* A panic in a handler ends receiveRoutine.
Panic(c, why) == [c EXCEPT !.panic = IF @ = None THEN why ELSE @]

Before(x, y) ==
    \/ x[1] < y[1]
    \/ x[1] = y[1] /\ x[2] < y[2]
    \/ x[1] = y[1] /\ x[2] = y[2] /\ x[3] < y[3]

\* privValidator: signs for a later height, round and step only.  Asked again
\* for the last one it panics, since the message has a new timestamp.
NewPrivValidator == <<0, 0, 0>>
SignRefused(c, s) == Before(<<c.Height, c.Round, s>>, c.priv)
SignPanics(c, s) == <<c.Height, c.Round, s>> = c.priv
Signed(c, s) == [c EXCEPT !.priv = <<c.Height, c.Round, s>>]

\* Mutant: precommits are sent to the peers only.
sendPrevotesOnly(c, m) ==
    IF m.kind = "vote" /\ m.Type = Precommit THEN c
    ELSE [c EXCEPT !.internalMsgQueue = Append(@, m)]

\* A message that does not fit in the channel waits in a goroutine; the
\* channel holds far more than a member sends in a round.
sendInternalMessage(c, m) == [c EXCEPT !.internalMsgQueue = Append(@, m)]

signAddVote(c, type, v) ==
    IF SignRefused(c, type) THEN c
    ELSE IF SignPanics(c, type) THEN Panic(c, "resign")
    ELSE sendInternalMessage(
            [Signed(c, type) EXCEPT !.signed = @ \cup {<<c.Height, type, c.Round, v>>}],
            [kind |-> "vote", Height |-> c.Height, Round |-> c.Round, Type |-> type, value |-> v])

\* StateAgentImpl: the heights the committee works on.
InRange(c) == c.BeginHeight <= c.Height /\ (c.EndHeight = 0 \/ c.Height <= c.EndHeight)

\* signAddVote for block b after validateBlock: nil when there is no
\* KeepBlockSign.  A nil sign of VerifyFastBlock is dereferenced.
voteValidated(c, type, b, w) ==
    IF ~InRange(c) THEN signAddVote(c, type, Nil)
    ELSE IF w.verdict = "nosign" THEN Panic(c, "nil sign")
    ELSE signAddVote(c, type, IF w.verdict = "agree" THEN b ELSE Against)

----------------------------------------------------------------------------
(* State functions.                                                         *)

NoProposal == [block |-> None, POLRound |-> -1]

\* A PartSet: the block its header is for, and whether the part is there.
NoParts == [block |-> None, complete |-> FALSE]
NewPartSetFromHeader(b) == [block |-> b, complete |-> FALSE]
MakePartSet(b) == [block |-> b, complete |-> TRUE]

\* The round state updateToState leaves, and what it keeps.
NewRoundState(c, height, lastCommit) ==
    [ Height |-> height, Round |-> 0, Step |-> NewHeight,
      Proposal |-> NoProposal, ProposalBlock |-> None, ProposalBlockParts |-> NoParts,
      LockedRound |-> 0, LockedBlock |-> None, LockedBlockParts |-> NoParts,
      ValidRound |-> 0, ValidBlock |-> None, ValidBlockParts |-> NoParts,
      CommitRound |-> -1, LastCommit |-> lastCommit,
      Votes |-> [t \in VoteTypes |-> [r \in Rounds |-> NewVoteSet]], votesRound |-> 0,
      signed |-> c.signed, timer |-> c.timer, tocks |-> c.tocks, priv |-> c.priv,
      internalMsgQueue |-> c.internalMsgQueue,
      chain |-> c.chain, BeginHeight |-> c.BeginHeight, EndHeight |-> c.EndHeight,
      committed |-> c.committed, panic |-> c.panic, updates |-> c.updates, scope |-> c.scope ]

\* Mutant: the next height is counted, not read from the chain.
updateToNextHeight(c) ==
    NewRoundState(c, c.Height + 1,
                  IF c.CommitRound = -1 THEN NewVoteSet ELSE c.Votes[Precommit][c.CommitRound])

updateToState(c) ==
    IF c.CommitRound = -1 THEN NewRoundState(c, c.chain + 1, NewVoteSet)
    ELSE LET precommits == c.Votes[Precommit][c.CommitRound] IN
         IF HasTwoThirdsMajority(precommits) THEN NewRoundState(c, c.chain + 1, precommits)
         ELSE Panic(c, "no commit")

isProposer(round) == round \in ProposerRounds

isProposalComplete(c) ==
    /\ c.Proposal # NoProposal /\ c.ProposalBlock # None
    /\ \/ c.Proposal.POLRound < 0
       \/ HasTwoThirdsMajority(c.Votes[Prevote][c.Proposal.POLRound])

\* The guard of the enter functions: step s of the round was not reached yet.
Reached(c, round, s) == round < c.Round \/ (round = c.Round /\ s <= c.Step)

updateRoundStep(c, round, s) == [c EXCEPT !.Round = round, !.Step = s]

\* Mutant: the lock is ignored.
prevoteProposal(c, w) ==
    IF c.ProposalBlock # None THEN voteValidated(c, Prevote, c.ProposalBlock, w)
    ELSE signAddVote(c, Prevote, Nil)

\* A locked member prevotes its lock, another one the proposal block if it
\* has it, and nil otherwise.
defaultDoPrevote(c, w) ==
    IF c.LockedBlock # None THEN voteValidated(c, Prevote, c.LockedBlock, w)
    ELSE IF c.ProposalBlock # None THEN voteValidated(c, Prevote, c.ProposalBlock, w)
    ELSE signAddVote(c, Prevote, Nil)

enterPrevote(c, round, w) ==
    IF Reached(c, round, Prevote) THEN c
    ELSE updateRoundStep(defaultDoPrevote(c, w), round, Prevote)

enterPrevoteWait(c, round) ==
    IF Reached(c, round, PrevoteWait) THEN c
    ELSE IF ~HasTwoThirdsAny(c.Votes[Prevote][round]) THEN Panic(c, "prevote wait")
    ELSE updateRoundStep(scheduleTimeout(c, round, PrevoteWait), round, PrevoteWait)

\* Mutant: "not locked" is round -1.
unlockToNoRound(c) == [c EXCEPT !.LockedRound = -1, !.LockedBlock = None]

unlock(c) == [c EXCEPT !.LockedRound = 0, !.LockedBlock = None, !.LockedBlockParts = NoParts]

\* A polka for b: relock, lock, or unlock and fetch b.
precommitBlock(c, round, b, w) ==
    IF c.LockedBlock = b THEN voteValidated([c EXCEPT !.LockedRound = round], Precommit, b, w)
    ELSE IF c.ProposalBlock = b
    THEN voteValidated(
            IF InRange(c) /\ w.verdict = "agree"
            THEN [c EXCEPT !.LockedRound = round, !.LockedBlock = b,
                           !.LockedBlockParts = c.ProposalBlockParts]
            ELSE c,
            Precommit, b, w)
    ELSE signAddVote(
            IF c.ProposalBlockParts.block = b THEN unlock(c)
            ELSE [unlock(c) EXCEPT !.ProposalBlock = None,
                                   !.ProposalBlockParts = NewPartSetFromHeader(b)],
            Precommit, Nil)

\* Mutant: the proposal is precommitted without a polka.
precommitProposal(c, round, w) ==
    IF c.ProposalBlock # None THEN voteValidated(c, Precommit, c.ProposalBlock, w)
    ELSE signAddVote(c, Precommit, Nil)

doPrecommit(c, round, w) ==
    LET polka == TwoThirdsMajority(c.Votes[Prevote][round]) IN
    IF polka = None THEN signAddVote(c, Precommit, Nil)
    ELSE IF POLInfo(c) < round THEN Panic(c, "POL round")
    ELSE IF polka = Nil THEN signAddVote(unlock(c), Precommit, Nil)
    ELSE precommitBlock(c, round, polka, w)

enterPrecommit(c, round, w) ==
    IF Reached(c, round, Precommit) THEN c
    ELSE updateRoundStep(doPrecommit(c, round, w), round, Precommit)

enterPrecommitWait(c, round) ==
    IF Reached(c, round, PrecommitWait) THEN c
    ELSE IF ~HasTwoThirdsAny(c.Votes[Precommit][round]) THEN Panic(c, "precommit wait")
    ELSE updateRoundStep(scheduleTimeout(c, round, PrecommitWait), round, PrecommitWait)

\* The proposer's block is its lock, else its valid block, else the new one.
defaultDecideProposal(c, round, w) ==
    LET parts == IF c.LockedBlock # None THEN c.LockedBlockParts
                 ELSE IF c.ValidBlock # None THEN c.ValidBlockParts ELSE MakePartSet(w.made)
        message == [kind |-> "part", Height |-> c.Height, Round |-> round, value |-> parts]
    IN  IF SignRefused(c, Propose) THEN c
        ELSE IF SignPanics(c, Propose) THEN Panic(c, "resign")
        ELSE sendInternalMessage(
                sendInternalMessage(Signed(c, Propose),
                    [kind |-> "proposal", Height |-> c.Height, Round |-> round,
                     value |-> parts.block, POLRound |-> POLInfo(c)]),
                message)

\* The end of enterPropose and of tryEnterProposal.
donePropose(c, round, w) ==
    LET d == updateRoundStep(c, round, Propose)
    IN  IF isProposalComplete(d) THEN enterPrevote(d, round, w) ELSE d

enterPropose(c, round, w) ==
    donePropose(defaultDecideProposal(scheduleTimeout(c, round, Propose), round, w), round, w)

tryEnterProposal(c, round, wait, w) ==
    IF Reached(c, round, Propose) THEN c
    ELSE IF ~(isProposer(round) /\ InRange(c) /\ w.made # None)
    THEN donePropose(scheduleTimeout(c, round, Propose), round, w)
    ELSE IF w.empty /\ round = 0 /\ wait <= WaitForEmptyBlocks
    THEN ScheduleTimeout(c, TimeoutInfo(c.Height, round, NewRound, wait + 1))
    ELSE enterPropose(c, round, w)

\* HeightVoteSet.SetRound panics unless the tracked round grows.
SetRound(c, round) ==
    IF c.votesRound # 0 /\ round < c.votesRound + 1 THEN Panic(c, "set round")
    ELSE [c EXCEPT !.votesRound = round]

enterNewRound(c, round, w) ==
    IF round < c.Round \/ (round = c.Round /\ c.Step # NewHeight) THEN c
    ELSE LET d == updateRoundStep(c, round, NewRound)
             e == IF round = 0 THEN d
                  ELSE [d EXCEPT !.Proposal = NoProposal, !.ProposalBlock = None,
                                 !.ProposalBlockParts = NoParts]
         IN  tryEnterProposal(SetRound(e, round + 1), round, 1, w)

scheduleRound0(c) == scheduleTimeout(c, 0, NewHeight)

\* Mutant: the locked block is the one that is committed.
finalizeLocked(c, w) ==
    scheduleRound0(updateToState(
        [c EXCEPT !.chain = Max({@, c.Height}), !.committed = c.LockedBlock]))

finalizeCommit(c, w) ==
    IF c.ProposalBlockParts.block # c.ProposalBlock THEN Panic(c, "commit header")
    ELSE LET d == IF w.switch THEN [c EXCEPT !.EndHeight = c.Height] ELSE c
         IN  IF ~w.commit THEN d
             ELSE scheduleRound0(updateToState(
                    [d EXCEPT !.chain = Max({@, c.Height}), !.committed = c.ProposalBlock]))

tryFinalizeCommit(c, w) ==
    LET block == TwoThirdsMajority(c.Votes[Precommit][c.CommitRound])
    IN  IF block \in Blocks /\ c.ProposalBlock = block /\ c.Step = Commit
        THEN finalizeCommit(c, w) ELSE c

\* A block that is missing altogether is not set up to be fetched.
enterCommit(c, commitRound, w) ==
    LET block == TwoThirdsMajority(c.Votes[Precommit][commitRound])
        d == IF c.LockedBlock # None /\ c.LockedBlock = block
             THEN [c EXCEPT !.ProposalBlock = block, !.ProposalBlockParts = c.LockedBlockParts]
             ELSE c
        e == IF d.ProposalBlock \notin {None, block} /\ d.ProposalBlockParts.block # block
             THEN [d EXCEPT !.ProposalBlock = None,
                            !.ProposalBlockParts = NewPartSetFromHeader(block)]
             ELSE d
    IN  IF Commit <= c.Step THEN c
        ELSE IF block = None THEN Panic(c, "no commit")
        ELSE tryFinalizeCommit([e EXCEPT !.Step = Commit, !.CommitRound = commitRound], w)

----------------------------------------------------------------------------
(* Handlers.                                                                *)

defaultSetProposal(c, block, polRound, height, round) ==
    IF \/ c.Proposal # NoProposal \/ height # c.Height \/ round # c.Round
       \/ Commit <= c.Step \/ round <= polRound
    THEN c
    ELSE [c EXCEPT !.Proposal = [block |-> block, POLRound |-> polRound],
                   !.ProposalBlockParts = NewPartSetFromHeader(block)]

\* The part of a block; it completes ProposalBlockParts if it is its part.
addProposalBlockPart(c, block, height, w) ==
    IF height # c.Height \/ c.ProposalBlockParts # NewPartSetFromHeader(block) THEN c
    ELSE LET parts == MakePartSet(block)
             d == [c EXCEPT !.ProposalBlock = block, !.ProposalBlockParts = parts]
             polka == TwoThirdsMajority(c.Votes[Prevote][c.Round])
             e == IF polka = block /\ c.ValidRound < c.Round
                  THEN [d EXCEPT !.ValidRound = c.Round, !.ValidBlock = block,
                                 !.ValidBlockParts = parts]
                  ELSE d
         IN  IF e.Step <= Propose /\ isProposalComplete(e) THEN enterPrevote(e, e.Round, w)
             ELSE IF e.Step = Commit THEN tryFinalizeCommit(e, w)
             ELSE e

\* addVote, once the vote is in the prevotes of round r.
addedPrevote(c, r, w) ==
    LET prevotes == c.Votes[Prevote][r]
        polka == TwoThirdsMajority(prevotes)
        d == IF /\ polka # None /\ c.LockedBlock \notin {None, polka}
                /\ c.LockedRound < r /\ r <= c.Round
             THEN unlock(c) ELSE c
        e == IF polka \in Blocks /\ d.ValidRound < r /\ r <= d.Round /\ d.ProposalBlock = polka
             THEN [d EXCEPT !.ValidRound = r, !.ValidBlock = polka,
                            !.ValidBlockParts = d.ProposalBlockParts]
             ELSE d
    IN  IF e.Round <= r /\ HasTwoThirdsAny(prevotes)
        THEN LET f == enterNewRound(e, r, w)
             IN  IF polka # None THEN enterPrecommit(f, r, w)
                 ELSE enterPrevoteWait(enterPrevote(f, r, w), r)
        ELSE IF e.Proposal # NoProposal /\ e.Proposal.POLRound = r /\ isProposalComplete(e)
        THEN enterPrevote(e, e.Round, w)
        ELSE e

\* addVote, once the vote is in the precommits of round r.
addedPrecommit(c, r, w) ==
    LET precommits == c.Votes[Precommit][r]
        block == TwoThirdsMajority(precommits)
        d == enterPrecommit(enterNewRound(c, r, w), r, w)
        e == enterCommit(d, r, w)
    IN  IF block = Nil THEN enterNewRound(c, r + 1, w)
        ELSE IF block # None
        THEN IF SkipTimeoutCommit /\ HasAll(precommits) THEN enterNewRound(e, 0, w) ELSE e
        ELSE IF HasAll(precommits) THEN enterNewRound(c, c.Round + 1, w)
        ELSE IF c.Round <= r /\ HasTwoThirdsAny(precommits) THEN enterPrecommitWait(d, r)
        ELSE c

addedVote(c, type, r, w) ==
    IF type = Prevote THEN addedPrevote(c, r, w) ELSE addedPrecommit(c, r, w)

\* A precommit of the previous height, while waiting for the next one.
addedToLastCommit(c, w) ==
    IF SkipTimeoutCommit /\ HasAll(c.LastCommit) THEN enterNewRound(c, 0, w) ELSE c

\* addVote for a vote of this member.
addOwnVote(c, m, w) ==
    IF /\ m.Height + 1 = c.Height /\ m.Type = Precommit /\ c.Step = NewHeight
       /\ HasTwoThirdsMajority(c.LastCommit) /\ c.LastCommit.own = None
    THEN addedToLastCommit([c EXCEPT !.LastCommit.own = m.value], w)
    ELSE IF m.Height = c.Height /\ c.Votes[m.Type][m.Round].own = None
    THEN addedVote([c EXCEPT !.Votes[m.Type][m.Round].own = m.value], m.Type, m.Round, w)
    ELSE c

\* Mutant: every timeout but the first ends the round.
endRoundOnTimeout(c, ti, w) ==
    IF ti.Height # c.Height \/ ti.Round < c.Round THEN c
    ELSE enterNewRound(c, IF ti.Step = NewHeight THEN 0 ELSE ti.Round + 1, w)

handleTimeout(c, ti, w) ==
    IF ti.Height # c.Height \/ ti.Round < c.Round \/ (ti.Round = c.Round /\ ti.Step < c.Step)
    THEN c
    ELSE CASE ti.Step = NewHeight -> enterNewRound(c, 0, w)
           [] ti.Step = NewRound -> tryEnterProposal(c, 0, ti.Wait, w)
           [] ti.Step = Propose -> enterPrevote(c, ti.Round, w)
           [] ti.Step = PrevoteWait -> enterPrecommit(c, ti.Round, w)
           [] ti.Step = PrecommitWait -> enterNewRound(c, ti.Round + 1, w)
           [] OTHER -> Panic(c, "timeout step")

\* Mutant: the height is not compared.
alwaysUpdateState(c) == scheduleRound0([updateToState(c) EXCEPT !.priv = NewPrivValidator])

updateStateForSync(c) ==
    IF c.Height = c.chain + 1 THEN c
    ELSE scheduleRound0([updateToState(c) EXCEPT !.priv = NewPrivValidator])

\* SetEndHeight and SetBeginHeight of the new committee.
setRange(c, begin, end) ==
    [c EXCEPT !.EndHeight = end, !.BeginHeight = IF end > 0 /\ begin < end THEN begin ELSE @]

validatorUpdate(c, begin, end, w) ==
    LET d == setRange([updateToState(c) EXCEPT !.priv = NewPrivValidator], begin, end)
    IN  enterNewRound(d, IF d.Height = c.Height /\ c.Round > 0 THEN c.Round + 1 ELSE 0, w)

----------------------------------------------------------------------------
(* receiveRoutine and what reaches it.                                      *)

NoTimeout == TimeoutInfo(0, 0, 0, 1)

\* NewConsensusState and OnStart, on a chain of height 0.
Init ==
    \E scope \in DOMAIN Scopes :
        cs = scheduleRound0(NewRoundState(
            [ scope |-> scope, signed |-> {}, timer |-> [ti |-> NoTimeout, armed |-> FALSE],
              tocks |-> {}, priv |-> NewPrivValidator, internalMsgQueue |-> <<>>,
              chain |-> 0, BeginHeight |-> 1, EndHeight |-> 0, committed |-> None, panic |-> None,
              updates |-> 0 ],
            1, NewVoteSet))

\* The member works, and within the bounds.
Running == cs.panic = None /\ cs.Height <= MaxHeight /\ cs.Round <= MaxRound

\* The bounds of this behaviour.
Scope == Scopes[cs.scope]

\* A handler runs to its end or, after a panic, is the last one; what it did
\* until then stays inside.
Handle(handler(_)) ==
    /\ Running
    /\ \E c \in {handler(w) : w \in Oracles} :
        /\ c # cs
        /\ cs' = IF c.panic = None THEN c ELSE Panic(cs, c.panic)

\* handleMsg for the messages of this member, in the order they were sent.
InternalMessage ==
    /\ cs.internalMsgQueue # <<>>
    /\ LET m == Head(cs.internalMsgQueue)
           c == [cs EXCEPT !.internalMsgQueue = Tail(@)]
       IN  Handle(LAMBDA w :
             CASE m.kind = "proposal" -> defaultSetProposal(c, m.value, m.POLRound, m.Height, m.Round)
               [] m.kind = "part" ->
                    IF m.value.complete THEN addProposalBlockPart(c, m.value.block, m.Height, w)
                    ELSE Panic(c, "nil part")
               [] m.kind = "vote" -> addOwnVote(c, m, w))

\* A proposal for this round, signed by its proposer.
PeerProposal ==
    /\ ~isProposer(cs.Round)
    /\ \E b \in Blocks, pol \in -1..MaxRound :
        Handle(LAMBDA w : defaultSetProposal(cs, b, pol, cs.Height, cs.Round))

PeerBlockPart ==
    \E b \in Blocks : Handle(LAMBDA w : addProposalBlockPart(cs, b, cs.Height, w))

VotesReceived(c) ==
    MapThenSumSet(LAMBDA x : PeerSum(c.Votes[x[1]][x[2]]), VoteTypes \X Rounds)

PeerVote ==
    /\ VotesReceived(cs) < Scope.votes
    /\ \E t \in VoteTypes, r \in Rounds, v \in Values :
        /\ <<t, r, v>> \in Scope.of /\ PeerSum(cs.Votes[t][r]) < Power - 1
        /\ Handle(LAMBDA w : addedVote([cs EXCEPT !.Votes[t][r].peers[v] = @ + 1], t, r, w))

\* A peer's precommit of the previous height.
PeerLastPrecommit ==
    /\ cs.Step = NewHeight
    /\ HasTwoThirdsMajority(cs.LastCommit) /\ PeerSum(cs.LastCommit) < Power - 1
    /\ \E v \in Values :
        Handle(LAMBDA w : addedToLastCommit([cs EXCEPT !.LastCommit.peers[v] = @ + 1], w))

\* The timer fires; a goroutine delivers the timeout some time later.
TimerFires ==
    /\ Running /\ cs.timer.armed
    /\ cs' = [cs EXCEPT !.timer.armed = FALSE, !.tocks = @ \cup {cs.timer.ti}]

Timeout ==
    \E ti \in cs.tocks : Handle(LAMBDA w : handleTimeout([cs EXCEPT !.tocks = @ \ {ti}], ti, w))

\* The task ticker runs all the time.
TaskTimeout == Handle(LAMBDA w : updateStateForSync(cs))

\* The block of this height reaches the fast chain by synchronisation.
ChainGrows ==
    /\ Scope.syncs /\ Running /\ cs.chain < MaxHeight /\ cs.chain < cs.Height
    /\ cs' = [cs EXCEPT !.chain = @ + 1]

\* UpdateCommittee: this member stays in the committee.
ValidatorUpdate ==
    /\ cs.updates < Scope.updates
    /\ \E begin \in 1..MaxHeight, end \in 0..MaxHeight :
        Handle(LAMBDA w : validatorUpdate([cs EXCEPT !.updates = @ + 1], begin, end, w))

\* SetCommitteeStop
CommitteeStop ==
    /\ cs.updates < Scope.updates /\ Running
    /\ \E end \in 1..MaxHeight : cs' = [cs EXCEPT !.EndHeight = end, !.updates = @ + 1]

Next ==
    \/ InternalMessage \/ PeerProposal \/ PeerBlockPart \/ PeerVote \/ PeerLastPrecommit
    \/ TimerFires \/ Timeout \/ TaskTimeout \/ ChainGrows \/ ValidatorUpdate \/ CommitteeStop

Spec == Init /\ [][Next]_cs

\* The timer fires, its goroutine delivers, and receiveRoutine serves its
\* queue of internal messages and the timeouts.
FairSpec ==
    Spec /\ WF_cs(InternalMessage) /\ WF_cs(TimerFires) /\ WF_cs(Timeout) /\ WF_cs(TaskTimeout)

----------------------------------------------------------------------------
TimeoutInfos == [Height : 0..(MaxHeight + 1), Round : 0..(MaxRound + 1), Step : 0..Commit, Wait : Nat]

PartSets == {NoParts} \cup [block : Blocks, complete : BOOLEAN]

VoteSets == [peers : [Values -> 0..(Power - 1)], own : Values \cup {None, Against}]

\* The type invariant of the member.
TypeOK ==
    /\ cs.Height \in 1..(MaxHeight + 1) /\ cs.Round \in 0..(MaxRound + 1) /\ cs.Step \in NewHeight..Commit
    /\ cs.Proposal \in {NoProposal} \cup [block : Blocks, POLRound : -1..(MaxRound - 1)]
    /\ cs.ProposalBlock \in Blocks \cup {None} /\ cs.ProposalBlockParts \in PartSets
    /\ cs.LockedRound \in Rounds /\ cs.LockedBlock \in Blocks \cup {None}
    /\ cs.ValidRound \in Rounds /\ cs.ValidBlock \in Blocks \cup {None}
    /\ cs.LockedBlockParts \in PartSets /\ cs.ValidBlockParts \in PartSets
    /\ cs.CommitRound \in {-1} \cup Rounds /\ cs.votesRound \in 0..(MaxRound + 2)
    /\ cs.LastCommit \in VoteSets /\ cs.Votes \in [VoteTypes -> [Rounds -> VoteSets]]
    /\ cs.timer.ti \in TimeoutInfos /\ cs.tocks \subseteq TimeoutInfos
    /\ cs.chain \in 0..MaxHeight /\ cs.committed \in Blocks \cup {None}

\* The member never signs two different votes of one type in one round of
\* one height (signVote, enterPrevote and enterPrecommit), as long as no
\* committee update resets its signer.
SignsOnce ==
    cs.updates = 0 =>
        \A x, y \in cs.signed : (x[1] = y[1] /\ x[2] = y[2] /\ x[3] = y[3]) => x = y

\* What ValidatorRules sees of the member.
VoteOf(c, type, r, electable) ==
    LET vs == {x[4] : x \in {y \in c.signed : y[1] = c.Height /\ y[2] = type /\ y[3] = r}}
               \cap electable
    IN  IF vs = {} THEN None ELSE CHOOSE v \in vs : TRUE

Abs(c) ==
    [ round |-> c.Round,
      step |-> IF c.Step < Prevote THEN "propose"
               ELSE IF c.Step < Precommit THEN "prevote" ELSE "precommit",
      lockedRound |-> c.LockedRound, lockedBlock |-> c.LockedBlock,
      prevote |-> [r \in Rounds |-> VoteOf(c, Prevote, r, Values)],
      precommit |-> [r \in Rounds |-> VoteOf(c, Precommit, r, Blocks)],
      decision |-> None ]

Majorities(c, type, electable) ==
    {x \in Rounds \X electable : TwoThirdsMajority(c.Votes[type][x[1]]) = x[2]}

\* t is reached from s in at most three moves, on the quorums c has seen.
AtMostThreeMoves(s, t, c) ==
    LET moves(u) == Rules!Moves(u, Majorities(c, Prevote, Values), Majorities(c, Precommit, Blocks))
    IN  \/ t = s \/ t \in moves(s)
        \/ \E u \in moves(s) : t \in moves(u)
        \/ \E u \in moves(s) : \E v \in moves(u) : t \in moves(v)

\* Every handler of state.go is made of moves of ValidatorRules, so what the
\* committee of TbftVoting guarantees holds for members that run this code, as
\* long as no committee update makes them forget the height's lock and votes.
FollowsRules ==
    [][cs'.Height = cs.Height /\ cs'.Round \in Rounds /\ cs'.updates = 0 =>
        AtMostThreeMoves(Abs(cs), Abs(cs'), cs')]_cs

\* The height is left for the block with +2/3 precommits in one round, or for
\* the one the chain already has (finalizeCommit, updateStateForSync).
HeightIsDecided ==
    [][cs'.Height # cs.Height =>
        \/ cs'.Height = cs.Height + 1 /\ cs'.committed \in Blocks
           /\ TwoThirdsMajority(cs'.LastCommit) = cs'.committed
        \/ cs.chain >= cs.Height]_cs

Pending(c, r, s) ==
    \E ti \in c.tocks \cup (IF c.timer.armed THEN {c.timer.ti} ELSE {}) :
        ti.Height = c.Height /\ ti.Round = r /\ ti.Step = s

\* No sanity check or signer conflict of state.go ends receiveRoutine, but
\* the one of finalizeCommit on the header of the parts (CommitHeaderMatches)
\* and ValidateBlock's use of a sign it did not get.  And a member in a step
\* that ends by a timeout has that timeout armed or on its way, though one
\* timer serves all steps and stale ticks are ignored (timeoutRoutine); after a
\* committee update it may not.
NeverStuck ==
    /\ cs.panic \in {None, "commit header", "nil sign"}
    /\ Running /\ cs.updates = 0
       /\ cs.Step \in {NewHeight, NewRound, Propose, PrevoteWait, PrecommitWait}
       => Pending(cs, cs.Round, cs.Step)

HRS(c) == <<c.Height, c.Round, c.Step>>

\* Height, round and step never go back (the guards of the enter functions and
\* of handleTimeout), except when a committee update starts the height again.
\* A later round r is entered on +2/3 precommits of round r - 1 or +2/3 votes
\* of round r, or when all precommits of an earlier round are in
\* (enterNewRound and its callers): timeouts alone never move the round.
RoundsInOrder ==
    [][/\ cs'.updates = cs.updates => ~Before(HRS(cs'), HRS(cs))
       /\ cs'.Height = cs.Height /\ cs'.Round \in Rounds /\ cs'.Round > cs.Round /\ cs'.updates = 0 =>
            \/ HasTwoThirdsAny(cs'.Votes[Precommit][cs'.Round - 1])
            \/ \E t \in VoteTypes : HasTwoThirdsAny(cs'.Votes[t][cs'.Round])
            \/ \E r \in Rounds : r < cs'.Round /\ HasAll(cs'.Votes[Precommit][r])]_cs

\* A step that ends by a timeout is left, whatever messages come or stay out
\* (receiveRoutine, handleTimeout).
WaitsEnd ==
    []<>(Running => cs.Step \in {Prevote, Precommit, Commit})

\* What the member signed gets counted among the votes of its round, unless
\* it leaves the height first (sendInternalMessage, handleMsg, addVote).
OwnVotesCount ==
    []<>(Running => \A x \in cs.signed :
            x[1] = cs.Height => cs.Votes[x[2]][x[3]].own = x[4])

----------------------------------------------------------------------------
(* What comments and assertions of state.go say and the code does not keep. *)

\* finalizeCommit (state.go:1289) asserts that the parts it stores are those
\* of the committed block.
CommitHeaderMatches == cs.panic # "commit header"

\* The signer "never double signs" (types/priv_validator.go:42): whatever
\* happens, no two different votes of one type in one round of one height.
NeverDoubleSigns ==
    \A x, y \in cs.signed : (x[1] = y[1] /\ x[2] = y[2] /\ x[3] = y[3]) => x = y
============================================================================
