-------------------------- MODULE MCConsensusState --------------------------
(***************************************************************************)
(* ConsensusState for a committee of four, over two rounds or two heights.*)
(***************************************************************************)
EXTENDS ConsensusState

CONSTANTS b1, b2

Answer(verdict, made, empty, commit, switch) ==
    [verdict |-> verdict, made |-> made, empty |-> empty, commit |-> commit, switch |-> switch]

\* Every block is valid, and committing works.
Agreeing == {Answer("agree", None, FALSE, TRUE, FALSE)}

\* The member makes blocks, maybe empty ones, may vote against a block or get
\* no sign at all, committing may fail and may carry a committee switch.
Anything ==
    {Answer("agree", b1, FALSE, TRUE, FALSE), Answer("agree", b1, TRUE, FALSE, FALSE),
     Answer("against", None, FALSE, TRUE, TRUE), Answer("nosign", None, FALSE, TRUE, FALSE)}

\* A lock on b1 may form in round 0 and be challenged in round 1.
LockThenSwitch ==
    {<<Prevote, 0, b1>>, <<Precommit, 0, b1>>, <<Precommit, 0, Nil>>,
     <<Prevote, 1, b1>>, <<Prevote, 1, b2>>, <<Prevote, 1, Nil>>, <<Precommit, 1, b2>>}

\* Round 0 fails or is decided for b1, and so does the next.
OneBlock == {x \in VoteTypes \X Rounds \X {b1, Nil} : x[1] = Prevote => x[3] = b1}

FirstDecided == {<<Prevote, 0, b1>>, <<Precommit, 0, b1>>}

NoRounds == {}
First == {0}

Bounds(votes, of, syncs, updates) ==
    [votes |-> votes, of |-> of, syncs |-> syncs, updates |-> updates]

\* Two rounds of voting without interruption; one round into which a committee
\* update and a synchronised block may come.
RoundsAndUpdates ==
    [rounds |-> Bounds(5, LockThenSwitch, FALSE, 0), updates |-> Bounds(3, FirstDecided, TRUE, 1)]
TwoHeights == [heights |-> Bounds(4, FirstDecided, TRUE, 0)]
Waiting == [waiting |-> Bounds(3, OneBlock, TRUE, 0)]
AllFirst == [first |-> Bounds(6, FirstDecided, FALSE, 0)]
UpdatedRounds == [updated |-> Bounds(5, LockThenSwitch, FALSE, 1)]
============================================================================
