--------------------------- MODULE CommitteeLife ---------------------------
(***************************************************************************)
(* The election together with the two parts that act on its events: the    *)
(* event loop of etrue/pbft_agent.go and the table of services, one per    *)
(* committee, of consensus/tbft/node.go.  The agent handles one event of   *)
(* the feed at a time; Notify is evaluated before the go statement that    *)
(* names it, so each handler is one action.                                *)
(***************************************************************************)
EXTENDS Election

VARIABLES
  current, next,   \* currentCommitteeInfo, nextCommitteeInfo: number, own flag
  member,          \* isCurrentCommitteeMember
  endFastNumber,   \* last blocks by committee; 0 when unknown
  works,           \* nodeInfoWorks: what each slot announces, which is current
  services,        \* state and end height of the service of each committee
  servicePre,      \* the committee started last
  panicked         \* a nil committee number was used

agentVars == <<current, next, member, endFastNumber, works, panicked>>
nodeVars == <<services, servicePre>>
lifeVars == <<vars, agentVars, nodeVars>>

Ids == 0 .. MaxSnail
NoInfo == [id |-> -1, flag |-> "none"]
Absent == [state |-> "absent", end |-> 0]

noServices == [id \in Ids |-> Absent]
noEnds == [id \in Ids |-> 0]
noWorks == [slots |-> <<-1, -1>>, cur |-> 0]

-----------------------------------------------------------------------------
(* Node.  Each operator takes the table of services to its new value.      *)

(* A switch that was stopped does not start again.                         *)
startService(s) == IF s.state = "new" THEN [s EXCEPT !.state = "running"] ELSE s
stopService(s) == IF s.state = "running" THEN [s EXCEPT !.state = "stopped"] ELSE s

known(id) == services[id].state \notin {"absent", "orphan"}

(* delete(n.services, ...) does not stop a service that still runs.        *)
forget(s) == IF s.state = "running" THEN [s EXCEPT !.state = "orphan"] ELSE Absent

(* Notify(Start) drops the service started before this one.                *)
started(id) == [i \in Ids |-> CASE i = id -> startService(services[i])
                                [] i # id /\ i = servicePre /\ known(i) -> forget(services[i])
                                [] OTHER -> services[i]]

NotifyStart(id) ==
  IF known(id) THEN services' = started(id) /\ servicePre' = id
  ELSE UNCHANGED nodeVars

NotifyStop(id) == /\ services' = [services EXCEPT ![id] = stopService(@)]
                  /\ UNCHANGED servicePre

PutCommittee(id) ==
  /\ services' = [services EXCEPT ![id] = IF known(id) THEN @ ELSE [state |-> "new", end |-> 0]]
  /\ UNCHANGED servicePre

(* Notify(Start) and UpdateCommittee; a running service takes the new end. *)
StartAndUpdate(id, end) ==
  IF known(id)
  THEN /\ services' = [started(id) EXCEPT ![id] =
                          IF @.state = "running" THEN [@ EXCEPT !.end = end] ELSE @]
       /\ servicePre' = id
  ELSE UNCHANGED nodeVars

(* Mutant: the end does not reach the service.                             *)
SetCommitteeStopLost(id, end) == id \in Ids /\ end > 0 /\ UNCHANGED nodeVars

SetCommitteeStop(id, end) ==
  /\ services' = [services EXCEPT ![id] = IF known(id) THEN [@ EXCEPT !.end = end] ELSE @]
  /\ UNCHANGED servicePre

-----------------------------------------------------------------------------
(* Agent.                                                                  *)

startSend(id) == LET cur == IF works.cur = 1 THEN 2 ELSE 1
                 IN  [slots |-> [works.slots EXCEPT ![cur] = id], cur |-> cur]

stopSend == [works EXCEPT !.slots[IF works.cur = 1 THEN 2 ELSE 1] = -1]

(* The next event of the feed has the given option; e is that event.       *)
Receive(option) == /\ feed # <<>> /\ ~panicked
                   /\ Head(feed).option = option
                   /\ feed' = Tail(feed)
                   /\ UNCHANGED <<chain, terms, stored, snailEvents, loop, starter, inserter>>

(* Mutant: the next committee does not become the current one.             *)
CommitteeStartKeeps ==
  /\ Receive("start")
  /\ member' = (next.flag = "used")
  /\ IF next.flag = "used" THEN NotifyStart(Head(feed).id) ELSE UNCHANGED nodeVars
  /\ UNCHANGED <<current, next, endFastNumber, works, panicked>>

CommitteeStart ==
  /\ Receive("start")
  /\ current' = next
  /\ member' = (next.flag = "used")
  /\ IF next.flag = "used" THEN NotifyStart(Head(feed).id) ELSE UNCHANGED nodeVars
  /\ UNCHANGED <<next, endFastNumber, works, panicked>>

(* Mutant: the service is not told to stop.                                *)
CommitteeStopUnheard ==
  /\ Receive("stop")
  /\ works' = stopSend
  /\ UNCHANGED <<current, next, member, endFastNumber, panicked, nodeVars>>

CommitteeStop ==
  /\ Receive("stop")
  /\ IF current.flag = "used" THEN NotifyStop(Head(feed).id) ELSE UNCHANGED nodeVars
  /\ works' = stopSend
  /\ UNCHANGED <<current, next, member, endFastNumber, panicked>>

CommitteeSwitchover ==
  /\ Receive("switchover")
  /\ LET e == Head(feed)
         serves == e.flag \in {"used", "unused"}
     IN  /\ next' = [id |-> e.id, flag |-> e.flag]
         /\ works' = startSend(IF serves THEN e.id ELSE -1)
         /\ IF serves THEN PutCommittee(e.id) ELSE UNCHANGED nodeVars
  /\ UNCHANGED <<current, member, endFastNumber, panicked>>

(* updateCommittee compares with the current number, which may be nil.     *)
CommitteeUpdate ==
  /\ Receive("update")
  /\ IF current = NoInfo
     THEN /\ panicked' = TRUE
          /\ UNCHANGED <<current, member, works, nodeVars>>
     ELSE LET e == Head(feed)
          IN  /\ current' = IF e.id = current.id THEN [id |-> e.id, flag |-> e.flag] ELSE current
              /\ member' = (e.flag = "used")
              /\ works' = IF e.flag = "removed" THEN stopSend ELSE works
              /\ CASE e.flag = "removed" -> NotifyStop(e.id)
                   [] e.flag = "used" -> StartAndUpdate(e.id, e.end)
                   [] OTHER -> UNCHANGED nodeVars
              /\ UNCHANGED panicked
  /\ UNCHANGED <<next, endFastNumber>>

(* clearEndFastNumber wraps below committee 2 and so keeps committee 0.    *)
CommitteeOver ==
  /\ Receive("over")
  /\ LET e == Head(feed)
     IN  /\ endFastNumber' = [i \in Ids |-> CASE i = e.id -> e.end
                                              [] i # e.id /\ i = e.id - 2 /\ i > 0 -> 0
                                              [] OTHER -> endFastNumber[i]]
         /\ SetCommitteeStop(e.id, e.end)
  /\ UNCHANGED <<current, next, member, works, panicked>>

Agent == CommitteeStart \/ CommitteeStop \/ CommitteeSwitchover \/ CommitteeUpdate \/ CommitteeOver

LifeInit ==
  /\ Init
  /\ current = NoInfo /\ next = NoInfo /\ member = FALSE /\ panicked = FALSE
  /\ endFastNumber = noEnds /\ works = noWorks
  /\ services = noServices /\ servicePre = 0

RestartNode ==
  /\ \E head \in LastFruit(Snail) .. fast : Restart(head)
  /\ current' = NoInfo /\ next' = NoInfo /\ member' = FALSE /\ panicked' = FALSE
  /\ endFastNumber' = noEnds /\ works' = noWorks
  /\ services' = noServices /\ servicePre' = 0

(* A panic ends the process.                                               *)
LifeNext == \/ ~panicked /\ Steps /\ UNCHANGED <<agentVars, nodeVars>>
            \/ Agent
            \/ RestartNode

(* The loops of the election and the agent, and the goroutine of Start,    *)
(* are never blocked by anything but each other.                           *)
Loops ==
  \/ /\ \/ StarterSwitchover \/ StarterStart
        \/ LoopPrepare \/ LoopSwitchover \/ LoopElect
        \/ LoopSwitchNext \/ LoopStop \/ LoopSwap \/ LoopStart
     /\ ~panicked /\ UNCHANGED <<agentVars, nodeVars>>
  \/ Agent

Fairness == WF_lifeVars(Loops)

LifeSpec == LifeInit /\ [][LifeNext]_lifeVars /\ Fairness

-----------------------------------------------------------------------------
Settled == feed = <<>> /\ inserter.pc = "idle" /\ loop = "select" /\ starter.pc = "done"

ownFlag == filterWithSwitchInfo(Term(fast + 1), SwitchesBefore(fast + 1))

RunningServices == {id \in Ids : services[id].state \in {"running", "orphan"}}

(* When all events are handled and goroutines did not overlap, the node    *)
(* runs the service of the committee in charge if it is a member of it     *)
(* now, and no other; the service stops at the end of the term, if it is   *)
(* known; and the node announces itself to no committee of the past.       *)
RightServiceRuns ==
  (Settled /\ ~overlap) =>
    /\ RunningServices = IF ownFlag = "used" THEN {Term(fast + 1)} ELSE {}
    /\ \A id \in RunningServices : services[id].end = committee.end
    /\ member = (ownFlag = "used")
    /\ \A i \in 1 .. 2 : works.slots[i] \in {-1, committee.id, nextCommittee.id}

(* Two committees' services never run side by side, at any point of the    *)
(* agent's way through the events: Notify(Start) removes the service of    *)
(* the last committee from the table without stopping it.                  *)
OneServiceRuns == ~overlap => Cardinality(RunningServices) <= 1

(* insertChain, which holds the lock of the fast chain while it waits for  *)
(* the loop to take switchNext, is always released.                        *)
InsertionResumes == inserter.pc = "switch" ~> (inserter.pc # "switch" \/ panicked)

(* updateCommittee never dereferences a committee number that is not set.  *)
NoNilCommittee == ~overlap => ~panicked
=============================================================================
