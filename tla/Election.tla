------------------------------ MODULE Election ------------------------------
(***************************************************************************)
(* consensus/election/election.go before TIP8: which committee decides     *)
(* which fast block, while the fast chain, the snail chain, the election's *)
(* event loop and the goroutine of Start each go at their own pace.        *)
(*                                                                         *)
(* Committee c + 1 is elected by the snail blocks up to (c + 1) * Period - *)
(* Confirm.  The last fruit of that block plus Switchover is the last fast *)
(* block of committee c; it becomes known when the snail chain reaches     *)
(* block (c + 1) * Period.                                                 *)
(*                                                                         *)
(* Members are not listed: a committee is its number and the fast blocks   *)
(* that switched members (a block's kind says what it did to this node).   *)
(***************************************************************************)
EXTENDS Integers, Sequences, FiniteSets

CONSTANTS Period,       \* ElectionPeriodNumber
          Confirm,      \* SnailConfirmInterval
          Switchover,   \* ElectionSwitchoverNumber
          Space,        \* FastToFruitSpace
          MinFruits,    \* MinimumFruits of a snail block
          MaxFruits,    \* MaximumFruits of a snail block
          Roles,        \* what this node may be: functions from committee to flag
          FeedSize,     \* electionChanSize
          MaxSnail, MaxFast, MaxFaults, MaxSwitches   \* bounds

(* params/protocol_params.go has 180, 12, 9600, 1500, 60 and 600.  The two *)
(* inequalities are what the numbers were chosen for: the end of a term is *)
(* known before the fast chain can reach it, even if the snail chain forks *)
(* meanwhile, and the snail chain does not finish the next period before   *)
(* the term is over.                                                       *)
ASSUME ParamsAssumption ==
  /\ {Period, Confirm, Switchover, Space, MinFruits, MaxFruits} \subseteq Nat \ {0}
  /\ Confirm < Period /\ MinFruits <= MaxFruits
  /\ Switchover >= Confirm * MaxFruits + Space - MinFruits
  /\ (Period + Confirm - 1) * MinFruits >= Switchover

VARIABLES
  fast,        \* number of the last fast block (fastchain.CurrentHeader)
  kinds,       \* kinds[n]: the SwitchInfos of fast block n, decided once and for all
  fruits,      \* fruits[n]: number of the last fast block in snail block n
  top,         \* highest snail block there has been
  stored,      \* rawdb.ReadCommitteeStates: switch blocks by committee
  role,        \* what this node is elected for in each committee
  committee, nextCommittee, startSwitchover,   \* the fields of Election
  snailEvents, \* snailChainEventCh: numbers of the check blocks not handled yet
  loop,        \* where the goroutine of loop is
  starter,     \* where the goroutine of Start is
  inserter,    \* where insertChain is, and the event it is about to send
  feed,        \* electionFeed: events the agent has not handled yet
  faults,      \* forks and restarts so far
  overlap      \* may goroutines overlap where the code does not order them?

chain == <<fast, kinds, fruits, top, role, faults, overlap>>
terms == <<committee, nextCommittee, startSwitchover>>
vars == <<chain, terms, stored, snailEvents, loop, starter, inserter, feed>>

NoCommittee == [id |-> -1, begin |-> 0, end |-> 0, check |-> 0, switches |-> <<>>]

Snail == Len(fruits)
LastFruit(n) == IF n = 0 THEN 0 ELSE fruits[n]

-----------------------------------------------------------------------------
(* The election rules.                                                     *)

getLastNumber(endSnail) == fruits[endSnail] + Switchover

getEndFast(id) == getLastNumber((id + 1) * Period - Confirm)

(* The genesis committee begins with block 1.                              *)
beginFast(id) == IF id = 0 THEN 1 ELSE getEndFast(id - 1) + 1

newCommittee(id, end, switches) ==
  [id |-> id, begin |-> beginFast(id), end |-> end,
   check |-> (id + 1) * Period, switches |-> switches]

calcCommittee(id) == newCommittee(id, 0, <<>>)

(* The committee of a fast block, given the snail block it is a fruit of.  *)
getCommittee(fastNumber, snailNumber) ==
  LET number == snailNumber \div Period
  IN  IF number > 0 /\ getEndFast(number - 1) >= fastNumber
      THEN newCommittee(number - 1, getEndFast(number - 1), stored[number - 1])
      ELSE newCommittee(number, 0, stored[number])

(* GetFruitByFastHash, or the head when the block is no fruit yet.         *)
fruitBlock(n) ==
  IF LastFruit(Snail) < n THEN Snail
  ELSE CHOOSE s \in 1 .. Snail : fruits[s] >= n /\ LastFruit(s - 1) < n

(* Mutant: the current committee is not asked whether its term is over.    *)
electedForEver(n) == IF n >= committee.begin THEN committee
                     ELSE getCommittee(n, fruitBlock(n))

electedCommittee(n) ==
  CASE nextCommittee # NoCommittee /\ n >= nextCommittee.begin -> nextCommittee
    [] /\ ~(nextCommittee # NoCommittee /\ n >= nextCommittee.begin)
       /\ n >= committee.begin
       /\ committee.end = 0 \/ n <= committee.end -> committee
    [] OTHER -> IF n > fast THEN NoCommittee ELSE getCommittee(n, fruitBlock(n))

(* What this node is in a committee after the switches of the given blocks.*)
(* A regular member can only be dropped, a backup added and dropped.       *)
filterWithSwitchInfo(id, switches) ==
  LET own  == SelectSeq(switches, LAMBDA n : kinds[n] \in {"add", "drop"})
      last == IF own = <<>> THEN "none" ELSE kinds[own[Len(own)]]
  IN  CASE role[id] = "none" -> "none"
        [] role[id] # "none" /\ last = "drop" -> "removed"
        [] role[id] # "none" /\ last = "add" -> "used"
        [] OTHER -> role[id]

event(option, c, begin, end, flag) ==
  [option |-> option, id |-> c.id, begin |-> begin, end |-> end, flag |-> flag]

(* electionFeed.Send blocks while the agent's channel is full.             *)
Send(e) == Len(feed) < FeedSize /\ feed' = Append(feed, e)

-----------------------------------------------------------------------------
(* Start and restart.                                                      *)

(* Mutant: the record is not rewound when the chain is.                    *)
cutNothing(switches, head) == switches

cut(switches, head) == SelectSeq(switches, LAMBDA n : n <= head)

(* The switch blocks after the last one on record.                         *)
rescan(c, switches, head) ==
  LET from == IF switches = <<>> THEN c.begin + 1 ELSE switches[Len(switches)] + 1
  IN  switches \o SelectSeq([i \in 1 .. head |-> i],
                            LAMBDA n : n >= from /\ kinds[n] # "none")

initCurrent(head) ==
  LET c    == getCommittee(head, Snail)
      kept == [c EXCEPT !.switches = rescan(c, cut(c.switches, head), head)]
      over == c.end > 0 /\ c.end = head
  IN  /\ committee' = IF over THEN calcCommittee(c.id + 1) ELSE kept
      /\ stored' = [stored EXCEPT ![c.id] = kept.switches]
      /\ loop' = IF c.end > 0 /\ ~over THEN "prepare" ELSE "select"
      /\ nextCommittee' = NoCommittee
      /\ startSwitchover' = FALSE

Init ==
  /\ fast = 0 /\ kinds = <<>> /\ fruits = <<>> /\ top = 0
  /\ role \in Roles
  /\ stored = [id \in 0 .. MaxSnail |-> <<>>]
  /\ committee = [id |-> 0, begin |-> 1, end |-> 0, check |-> Period, switches |-> <<>>]
  /\ nextCommittee = NoCommittee /\ startSwitchover = FALSE
  /\ snailEvents = {} /\ loop = "select"
  /\ starter = [pc |-> "switchover", flag |-> "none"]
  /\ inserter = [pc |-> "idle", event |-> <<>>]
  /\ feed = <<>>
  /\ faults = 0
  /\ overlap \in BOOLEAN

(* The node stops anywhere and starts again, with the last fast blocks     *)
(* lost or not.  Fast blocks that are fruits already are not lost, and the *)
(* snail chain is not cut back behind a check block at that moment: the    *)
(* election reads the term from its length.                                *)
Restart(head) ==
  /\ faults < MaxFaults
  /\ Snail \div Period = top \div Period
  /\ faults' = faults + 1
  /\ fast' = head
  /\ initCurrent(head)
  /\ snailEvents' = {} /\ feed' = <<>>
  /\ starter' = [pc |-> "switchover", flag |-> "none"]
  /\ inserter' = [pc |-> "idle", event |-> <<>>]
  /\ UNCHANGED <<kinds, fruits, top, role, overlap>>

(* The goroutine of Start: who serves, and go.                             *)
StarterSwitchover ==
  /\ starter.pc = "switchover"
  /\ LET flag == filterWithSwitchInfo(committee.id, committee.switches)
     IN  /\ starter' = [pc |-> "start", flag |-> flag]
         /\ Send(event("switchover", committee, committee.begin, 0, flag))
  /\ UNCHANGED <<chain, terms, stored, snailEvents, loop, inserter>>

StarterStart ==
  /\ starter.pc = "start"
  /\ starter' = [starter EXCEPT !.pc = "done"]
  /\ Send(event("start", committee, committee.begin, 0, starter.flag))
  /\ UNCHANGED <<chain, terms, stored, snailEvents, loop, inserter>>

-----------------------------------------------------------------------------
(* The snail chain.  Only check blocks matter to the loop; their events    *)
(* come in any order and, after a fork, again.                             *)

announce(n) == snailEvents' = snailEvents \cup (IF n % Period = 0 THEN {n} ELSE {})

(* A block on top of block base.  A fork drops blocks that have fewer than *)
(* Confirm blocks on top of them; the new branch may be the shorter one.   *)
SnailBlock(base, fruit) ==
  /\ base < MaxSnail
  /\ base < Snail => faults < MaxFaults /\ base >= top - Confirm
  /\ fruit \in LastFruit(base) + MinFruits .. LastFruit(base) + MaxFruits
  /\ fruit <= fast
  /\ fruits' = Append(SubSeq(fruits, 1, base), fruit)
  /\ top' = IF base + 1 > top THEN base + 1 ELSE top
  /\ faults' = IF base < Snail THEN faults + 1 ELSE faults
  /\ announce(base + 1)
  /\ UNCHANGED <<fast, kinds, role, overlap, terms, stored, loop, starter, inserter, feed>>

-----------------------------------------------------------------------------
(* The event loop.                                                         *)

(* On start in the last part of a term: elect the next committee.          *)
LoopPrepare ==
  /\ loop = "prepare"
  /\ overlap \/ starter.pc = "done"
  /\ nextCommittee' = calcCommittee(committee.id + 1)
  /\ startSwitchover' = TRUE
  /\ Send(event("over", committee, committee.begin, committee.end, "none"))
  /\ loop' = "switchover"
  /\ UNCHANGED <<chain, committee, stored, snailEvents, starter, inserter>>

(* The Switchover event for the next committee.                            *)
LoopSwitchover ==
  /\ loop = "switchover"
  /\ Send(event("switchover", nextCommittee, nextCommittee.begin, 0,
                                role[nextCommittee.id]))
  /\ loop' = "select"
  /\ UNCHANGED <<chain, terms, stored, snailEvents, starter, inserter>>

(* A snail block; if it is the check block, the end of the term is known.  *)
LoopSnail(n) ==
  /\ loop = "select"
  /\ overlap \/ (starter.pc = "done" /\ inserter.pc = "idle")
  /\ snailEvents' = snailEvents \ {n}
  /\ IF committee.check = n
     THEN /\ committee' = [committee EXCEPT !.end = getEndFast(committee.id)]
          /\ Send(event("over", committee, committee.begin,
                                        getEndFast(committee.id), "none"))
          /\ loop' = "elect"
     ELSE UNCHANGED <<committee, feed, loop>>
  /\ UNCHANGED <<chain, nextCommittee, startSwitchover, stored, starter, inserter>>

(* Mutant: return where the loop should continue.                          *)
LoopElectReturns ==
  /\ loop = "elect"
  /\ LET next == calcCommittee(committee.id + 1)
     IN  IF nextCommittee.id = next.id
         THEN /\ loop' = "done"
              /\ UNCHANGED <<nextCommittee, startSwitchover>>
         ELSE /\ nextCommittee' = next
              /\ startSwitchover' = TRUE
              /\ loop' = "switchover"
  /\ UNCHANGED <<chain, committee, stored, snailEvents, starter, inserter, feed>>

(* The next committee, unless the check block came again after a fork.     *)
LoopElect ==
  /\ loop = "elect"
  /\ LET next == calcCommittee(committee.id + 1)
     IN  IF nextCommittee.id = next.id
         THEN /\ loop' = "select"
              /\ UNCHANGED <<nextCommittee, startSwitchover>>
         ELSE /\ nextCommittee' = next
              /\ startSwitchover' = TRUE
              /\ loop' = "switchover"
  /\ UNCHANGED <<chain, committee, stored, snailEvents, starter, inserter, feed>>

(* switchNext, an unbuffered channel: the last block of the term is in.    *)
LoopSwitchNext ==
  /\ loop = "select" /\ inserter.pc = "switch"
  /\ inserter' = [inserter EXCEPT !.pc = "idle"]
  /\ loop' = IF startSwitchover THEN "stop" ELSE "select"
  /\ UNCHANGED <<chain, terms, stored, snailEvents, starter, feed>>

LoopStop ==
  /\ loop = "stop"
  /\ Send(event("stop", committee, committee.begin, committee.end, "none"))
  /\ loop' = "swap"
  /\ UNCHANGED <<chain, terms, stored, snailEvents, starter, inserter>>

LoopSwap ==
  /\ loop = "swap"
  /\ committee' = nextCommittee
  /\ nextCommittee' = NoCommittee
  /\ startSwitchover' = FALSE
  /\ loop' = "start"
  /\ UNCHANGED <<chain, stored, snailEvents, starter, inserter, feed>>

LoopStart ==
  /\ loop = "start"
  /\ Send(event("start", committee, committee.begin, 0, role[committee.id]))
  /\ loop' = "select"
  /\ UNCHANGED <<chain, terms, stored, snailEvents, starter, inserter>>

-----------------------------------------------------------------------------
(* The fast chain: insertChain and FinalizeCommittee.                      *)

(* The committee of block n by the rules: the terms that end before it.    *)
Term(n) ==
  Cardinality({c \in 0 .. Snail : /\ (c + 1) * Period - Confirm <= Snail
                                  /\ getEndFast(c) < n})

(* The blocks before n that switched members of the committee of block n.  *)
SwitchesBefore(n) ==
  SelectSeq([i \in 1 .. n - 1 |-> i],
            LAMBDA i : i > beginFast(Term(n)) /\ kinds[i] # "none")

(* The last snail block whose event the loop has handled, if in order.     *)
Handled == CHOOSE n \in 0 .. Snail :
             /\ \A e \in snailEvents : n < e
             /\ n = Snail \/ n + 1 \in snailEvents

(* The next fast block.  It is signed by the committee in charge and       *)
(* accepted by the election; its proposer keeps it near the last fruit     *)
(* (FetchFastBlock), and this node's election is as far as its chains.     *)
(* The first block of a term carries all members; a block lost in a        *)
(* restart comes back unchanged.                                           *)
InsertBlock(kind) ==
  /\ inserter.pc = "idle"
  /\ overlap \/ (starter.pc = "done" /\ loop = "select")
  /\ fast < MaxFast
  /\ fast + 1 < LastFruit(Handled) + Space
  /\ electedCommittee(fast + 1).id = Term(fast + 1)
  /\ IF fast < Len(kinds) THEN kind = kinds[fast + 1]
     ELSE IF fast + 1 = beginFast(Term(fast + 1)) THEN kind = "begin"
     ELSE LET flag == filterWithSwitchInfo(Term(fast + 1), SwitchesBefore(fast + 1))
          IN  /\ kind # "begin"
              /\ kind = "add" => flag = "unused"
              /\ kind = "drop" => flag = "used"
              /\ kind # "none" =>
                   Cardinality({n \in 1 .. fast : kinds[n] \notin {"none", "begin"}}) < MaxSwitches
  /\ fast' = fast + 1
  /\ kinds' = IF fast < Len(kinds) THEN kinds ELSE Append(kinds, kind)
  /\ inserter' = [inserter EXCEPT !.pc = IF kind = "none" THEN "check" ELSE "finalize"]
  /\ UNCHANGED <<fruits, top, role, faults, overlap, terms, stored, snailEvents,
                 loop, starter, feed>>

(* switchMembers: record a switch block and tell the agent.                *)
SwitchMembers ==
  /\ inserter.pc = "finalize"
  /\ IF committee.begin = fast /\ committee.switches = <<>>
     THEN /\ inserter' = [inserter EXCEPT !.pc = "check"]
          /\ UNCHANGED <<committee, stored>>
     ELSE LET switches == IF committee.begin = fast THEN <<>>
                          ELSE Append(committee.switches, fast)
          IN  /\ committee' = [committee EXCEPT !.switches = switches]
              /\ stored' = [stored EXCEPT ![committee.id] = switches]
              /\ inserter' =
                   IF committee.begin = fast THEN [inserter EXCEPT !.pc = "check"]
                   ELSE [pc |-> "update",
                         event |-> event("update", committee, fast, committee.end,
                                         filterWithSwitchInfo(committee.id, switches))]
  /\ UNCHANGED <<chain, nextCommittee, startSwitchover, snailEvents, loop, starter, feed>>

SendUpdate ==
  /\ inserter.pc = "update"
  /\ Send(inserter.event)
  /\ inserter' = [pc |-> "check", event |-> <<>>]
  /\ UNCHANGED <<chain, terms, stored, snailEvents, loop, starter>>

(* FinalizeCommittee: at the last block of the term, wait for the loop.    *)
FinalizeCommittee ==
  /\ inserter.pc = "check"
  /\ inserter' = [inserter EXCEPT !.pc = IF committee.end = fast THEN "switch" ELSE "idle"]
  /\ UNCHANGED <<chain, terms, stored, snailEvents, loop, starter, feed>>

-----------------------------------------------------------------------------
Kinds == {"none", "begin", "add", "drop", "other"}

Steps ==
  \/ StarterSwitchover \/ StarterStart
  \/ LoopPrepare \/ LoopSwitchover \/ LoopElect
  \/ LoopSwitchNext \/ LoopStop \/ LoopSwap \/ LoopStart
  \/ \E n \in snailEvents : LoopSnail(n)
  \/ \E kind \in Kinds : InsertBlock(kind)
  \/ SwitchMembers \/ SendUpdate \/ FinalizeCommittee
  \/ \E base \in 0 .. Snail, fruit \in 0 .. fast : SnailBlock(base, fruit)

-----------------------------------------------------------------------------
(* The ends of the terms the snail chain has confirmed.                    *)
confirmedEnds == [i \in 1 .. top \div Period |-> getEndFast(i - 1)]

(* The committee that electedCommittee names for the next block.  Between  *)
(* the last block of a term and the loop's election after a restart it may *)
(* name none; the next block then waits.                                   *)
charge == IF electedCommittee(fast + 1) = NoCommittee THEN Term(fast + 1)
          ELSE electedCommittee(fast + 1).id

H == INSTANCE Handover WITH head <- fast, ends <- confirmedEnds

(* The election keeps the promise of Handover: whatever the goroutines,    *)
(* forks and restarts do, electedCommittee gives the next fast block to    *)
(* the committee whose term it is, and the end of a term is confirmed      *)
(* before the fast chain gets there.                                       *)
HandsOver == H!Spec

(* GetCommittee also answers for blocks of the past, which the node        *)
(* verifies after a rollback or serves to others, and tells which members  *)
(* had been switched by then.  While goroutines do not overlap it knows    *)
(* exactly the switch blocks of the term, through crashes between writing  *)
(* a block and recording it, and through rollbacks behind recorded ones.   *)
HistoryExact ==
  inserter.pc = "idle" =>
    \A n \in 1 .. fast + 1 :
      LET c == electedCommittee(n)
      IN  /\ n <= fast \/ ~overlap => c # NoCommittee
          /\ c # NoCommittee => c.id = Term(n)
          /\ ~overlap => SelectSeq(c.switches, LAMBDA i : i < n) = SwitchesBefore(n)
=============================================================================
