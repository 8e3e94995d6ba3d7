------------------------------ MODULE SnailPool ------------------------------
(***************************************************************************)
(* core/snailchain/snail_pool.go, the pool of fruits, between the snail    *)
(* chain and miner/worker.go, which fills snail blocks from it.  A fruit   *)
(* records one fast block; a snail block holds consecutive fruits, each    *)
(* pointing to a recent snail block.  The pool's loop follows both chains  *)
(* through events, the worker reads and cleans the pool at its own pace,   *)
(* and the snail chain may drop its last block for another.                *)
(*                                                                         *)
(* Fast blocks do not fork, so a fruit's FastHash is its fast number.  The *)
(* fork a snail block belongs to stands for its hash.  Proofs of work,     *)
(* signatures and times hold; which of two fruits of a number is the more  *)
(* difficult one is left open.                                             *)
(***************************************************************************)
EXTENDS Integers, Sequences, FiniteSets

CONSTANTS Freshness,        \* params.FruitFreshness
          PointerLag,       \* pointerHashFresh
          MinFruits, MaxFruits,
          FruitCount,       \* SnailPoolConfig.FruitCount
          Targets,          \* size of the worker's list of fast blocks to mine, 10
          MaxFast, MaxSnail,
          Scopes            \* bounds to explore, one of which a behaviour keeps

ASSUME SnailAssumption == /\ Freshness \in Nat /\ PointerLag \in Nat
                          /\ MaxFruits \in Nat /\ MinFruits \in 1 .. MaxFruits
                          /\ MaxFast \in Nat
                          /\ Targets \in Nat \ {0}
                          /\ Scopes \subseteq [fast : 1 .. MaxFast, forks : Nat, remote : Nat]

Numbers == 1 .. MaxFast

VARIABLES
  fast,       \* height of the fast chain
  chain,      \* the canonical snail chain: fork and fruits of each block
  known,      \* every snail block seen: <<number, fork>>
  forks,      \* forks so far
  remote,     \* fruits of other miners so far
  all,        \* allFruits: a partial function from fast numbers to fruits
  pending,    \* fruitPending
  heads,      \* chainHeadCh: the chains that became canonical
  fasts,      \* fastchainEventCh
  fruits,     \* newFruitCh
  head,       \* the loop's head: the chain the pool was last reset to
  picked,     \* the fruit the loop read from allFruits for a new fast block
  work,       \* the worker's current work
  minedFruit, \* the worker's last fruit
  fastPool,   \* fastBlockPool: fast numbers to mine
  mixed,      \* a work was begun on one head and filled on another
  scope,      \* the bounds of this behaviour
  dropped     \* a fruit was dropped, as stale or for want of room

poolVars == <<all, pending, heads, fasts, fruits, head, picked>>
workVars == <<work, minedFruit, fastPool, mixed>>
vars == <<fast, chain, known, forks, remote, scope, poolVars, workVars, dropped>>

NoFruit == [n |-> 0, at |-> <<0, 0>>]
Idle == [pc |-> "idle", parent |-> <<>>, snap |-> <<>>, target |-> 0,
         fruits |-> <<>>, at |-> <<0, 0>>]

Last(c) == IF c = <<>> THEN 0 ELSE LET fs == c[Len(c)].fruits IN fs[Len(fs)].n

Hash(c, k) == IF k = 0 THEN <<0, 0>> ELSE <<k, c[k].fork>>

(* The pointer of what is mined on a chain.                                *)
Pointer(c) == Hash(c, IF Len(c) > PointerLag THEN Len(c) - PointerLag ELSE 0)

Without(f, S) == [n \in DOMAIN f \ S |-> f[n]]
With(f, fruit) == [n \in DOMAIN f \cup {fruit.n} |-> IF n = fruit.n THEN fruit ELSE f[n]]

(* VerifyFreshness of minerva, for a fruit of the block of this number.    *)
Fresh(fruit, number, canonical) ==
  CASE fruit.at[1] > Len(chain) -> "notYet"
    [] /\ fruit.at[1] <= Len(chain)
       /\ IF canonical THEN fruit.at # Hash(chain, fruit.at[1]) ELSE fruit.at \notin known
         -> "unknown"
    [] OTHER -> IF number - fruit.at[1] > Freshness THEN "stale" ELSE "ok"

ValidateFruit(fruit) == Fresh(fruit, Len(chain) + 1, TRUE)

Init ==
  /\ fast = 0 /\ chain = <<>> /\ known = {<<0, 0>>} /\ forks = 0 /\ remote = 0
  /\ all = <<>> /\ pending = <<>> /\ heads = <<>> /\ fasts = <<>> /\ fruits = <<>>
  /\ head = <<>> /\ picked = NoFruit
  /\ work = Idle /\ minedFruit = NoFruit /\ fastPool = {} /\ mixed = FALSE
  /\ dropped = FALSE /\ scope \in Scopes

-----------------------------------------------------------------------------
(* The chains.                                                             *)

FastGrows ==
  /\ fast < scope.fast /\ fasts = <<>>
  /\ fast' = fast + 1
  /\ fasts' = <<fast + 1>>
  /\ UNCHANGED <<chain, known, forks, remote, scope, all, pending, heads, fruits, head, picked,
                 workVars, dropped>>

NewHead(c) ==
  /\ heads = <<>>
  /\ chain' = c
  /\ known' = known \cup {Hash(c, Len(c))}
  /\ heads' = Append(heads, c)

(* A block from another miner: it continues its parent.                    *)
RemoteBlock(k, fork, count) ==
  LET parent == SubSeq(chain, 1, k)
  IN  /\ Last(parent) + count <= fast /\ count \in MinFruits .. MaxFruits
      /\ NewHead(Append(parent,
           [fork |-> fork,
            fruits |-> [i \in 1 .. count |-> [n |-> Last(parent) + i, at |-> Pointer(parent)]]]))

InsertChain ==
  /\ \E count \in MinFruits .. MaxFruits :
       \/ Len(chain) < MaxSnail /\ RemoteBlock(Len(chain), forks, count) /\ UNCHANGED forks
       \/ /\ forks < scope.forks /\ chain # <<>>      \* another last block wins
          /\ forks' = forks + 1
          /\ RemoteBlock(Len(chain) - 1, forks + 1, count)
  /\ UNCHANGED <<fast, remote, scope, all, pending, fasts, fruits, head, picked, workVars, dropped>>

-----------------------------------------------------------------------------
(* The pool.                                                               *)

(* validateFruit, then newFruitCh.                                         *)
AddRemoteFruits(fruit) ==
  fruits' = IF fruit.n > Last(chain) THEN Append(fruits, fruit) ELSE fruits

(* A fruit of another miner, whose snail chain may be one block ahead and  *)
(* whose fast chain too.                                                   *)
RemoteFruit ==
  /\ remote < scope.remote /\ fruits = <<>>
  /\ remote' = remote + 1
  /\ \E n \in 1 .. scope.fast, at \in {Pointer(chain), <<Len(chain) + 1, forks>>} :
       n <= fast + 1 /\ AddRemoteFruits([n |-> n, at |-> at])
  /\ UNCHANGED <<fast, chain, known, forks, scope, all, pending, heads, fasts, head, picked,
                 workVars, dropped>>

appendFruit(fruit, ready) ==
  IF Cardinality(DOMAIN all) >= FruitCount
  THEN dropped' = TRUE /\ UNCHANGED <<all, pending>>
  ELSE /\ all' = With(all, fruit)
       /\ pending' = IF ready THEN With(pending, fruit) ELSE pending
       /\ UNCHANGED dropped

refused == UNCHANGED <<all, pending, dropped>>

addFruit(fruit) ==
  LET valid == ValidateFruit(fruit)
  IN  IF Last(chain) >= fruit.n THEN refused
      ELSE IF fruit.n > fast THEN appendFruit(fruit, FALSE)
      ELSE IF fruit.n \in DOMAIN all
      THEN \/ valid = "ok" /\ appendFruit(fruit, TRUE)
           \/ refused       \* not valid, or less difficult
      ELSE CASE valid = "ok" -> appendFruit(fruit, TRUE)
             [] valid = "notYet" -> appendFruit(fruit, FALSE)
             [] OTHER -> refused

(* The loop's case of newFruitCh.                                          *)
LoopFruit ==
  /\ picked = NoFruit /\ fruits # <<>>
  /\ addFruit(Head(fruits))
  /\ fruits' = Tail(fruits)
  /\ UNCHANGED <<fast, chain, known, forks, remote, scope, heads, fasts, head, picked, workVars>>

(* Its case of fastchainEventCh reads allFruits without the lock, ...      *)
LoopFast ==
  /\ picked = NoFruit /\ fasts # <<>>
  /\ picked' = IF Head(fasts) \in DOMAIN all THEN all[Head(fasts)] ELSE NoFruit
  /\ fasts' = Tail(fasts)
  /\ UNCHANGED <<fast, chain, known, forks, remote, scope, all, pending, heads, fruits, head,
                 workVars, dropped>>

(* ... and then makes the fruit pending, or drops it.                      *)
updateFruit ==
  /\ picked # NoFruit
  /\ IF ValidateFruit(picked) = "ok"
     THEN pending' = With(pending, picked) /\ UNCHANGED <<all, dropped>>
     ELSE /\ all' = Without(all, {picked.n}) /\ pending' = Without(pending, {picked.n})
          /\ dropped' = TRUE
  /\ picked' = NoFruit
  /\ UNCHANGED <<fast, chain, known, forks, remote, scope, heads, fasts, fruits, head, workVars>>

(* The fruits of the blocks of c that d does not share.                    *)
fruitsOf(c, d) ==
  UNION {{c[k].fruits[i] : i \in DOMAIN c[k].fruits} :
         k \in {j \in DOMAIN c : \/ j > Len(d)
                                 \/ \E i \in 1 .. j : c[i] # d[i]}}

(* Mutant of fruitsDifference: the wrong branch's fruits are kept.         *)
fruitsDifferenceSwapped(a, b) == {f \in b : \A g \in a : g.n # f.n}

fruitsDifference(a, b) == {f \in a : \A g \in b : g.n # f.n}

(* The discarded fruits that are still valid, by number.                   *)
restFruits(old, new) ==
  {f \in fruitsDifference(fruitsOf(old, new), fruitsOf(new, old)) : ValidateFruit(f) = "ok"}

insertRestFruits(f, rest) ==
  [n \in DOMAIN f \cup {g.n : g \in rest} |->
     IF \E g \in rest : g.n = n THEN CHOOSE g \in rest : g.n = n ELSE f[n]]

(* Mutant of included: the last fruit of the head stays.                   *)
includedBelow(a, c) == {n \in DOMAIN a : n < Last(c)}

(* What removeWithLock takes out for a new head.                           *)
included(a, c) == {n \in DOMAIN a : n <= Last(c)}

(* What removeUnfreshFruit takes out.                                      *)
unfresh(a) == {n \in DOMAIN a : Fresh(a[n], Len(chain) + 1, FALSE) \in {"unknown", "stale"}}

(* The loop's case of chainHeadCh: reset.                                  *)
LoopHead ==
  /\ picked = NoFruit /\ heads # <<>>
  /\ LET new   == Head(heads)
         rest  == restFruits(head, new)
         full  == insertRestFruits(all, rest)
         left  == Without(full, included(full, new))
         gone  == included(full, new) \cup unfresh(left)
     IN  /\ all' = Without(full, gone)
         /\ pending' = Without(insertRestFruits(pending, rest), gone)
         /\ head' = new
         /\ dropped' = (dropped \/ unfresh(left) # {})
  /\ heads' = Tail(heads)
  /\ UNCHANGED <<fast, chain, known, forks, remote, scope, fasts, fruits, picked, workVars>>

-----------------------------------------------------------------------------
(* The worker.                                                             *)

(* commitNewWork: the parent, and PendingFruits with CopyPendingFruit.     *)
WorkBegin ==
  /\ \/ work.pc = "idle"
     \/ work.pc = "mining" /\ work.fruits # <<>> /\ work.parent # chain
     \/ work.pc = "mining" /\ work.fruits = <<>> /\ work.target \in DOMAIN pending
  /\ LET later == Without(pending, 1 .. Last(chain))
     IN  work' = [Idle EXCEPT !.pc = "begun", !.parent = chain,
                              !.snap = IF minedFruit.n > Last(chain)
                                          /\ minedFruit.n \notin DOMAIN pending
                                       THEN With(later, minedFruit) ELSE later]
  /\ UNCHANGED <<fast, chain, known, forks, remote, scope, poolVars, minedFruit, fastPool, mixed,
                 dropped>>

MaxOf(S) == CHOOSE n \in S : \A m \in S : m <= n

lowest(S, count) == {n \in S : Cardinality({m \in S : m < n}) < count}

(* Mutant of fastBlockPool: the newest fast block is left out.             *)
fastBlockPoolShort(snap) ==
  LET top == IF DOMAIN snap = {} THEN Last(chain) ELSE MaxOf(DOMAIN snap)
  IN  lowest(top + 1 .. fast - 1, Targets)

(* commitFastNumberRandom: the list of fast numbers to mine.  A new list   *)
(* has the gaps between the fruits and what follows them; what precedes    *)
(* them is not looked at.                                                  *)
fastBlockPool(snap) ==
  LET kept == {n \in fastPool : n \notin DOMAIN snap /\ n > Last(chain)}
      top  == IF DOMAIN snap = {} THEN Last(chain) ELSE MaxOf(DOMAIN snap)
      gaps == {n \in Numbers \ DOMAIN snap : n < top /\ \E m \in DOMAIN snap : m < n}
  IN  IF fast <= Last(chain) THEN {}
      ELSE IF kept # {} THEN kept
      ELSE lowest(gaps \cup (top + 1 .. fast), Targets)

(* Mutant of continued: fruits after a gap are taken too.                  *)
continuedAfterGap(snap, number) ==
  LET run == {n \in DOMAIN snap : n > Last(chain)}
  IN  [i \in 1 .. Cardinality(run) |-> snap[MaxOf(lowest(run, i))]]

(* CommitFruits: the fruits that continue the head, up to the first that   *)
(* is missing or not fresh.                                                *)
continued(snap, number) ==
  LET run == {n \in DOMAIN snap : /\ n > Last(chain)
                                  /\ \A m \in Last(chain) + 1 .. n :
                                       m \in DOMAIN snap /\ Fresh(snap[m], number, TRUE) = "ok"}
  IN  [i \in 1 .. Cardinality(run) |-> snap[Last(chain) + i]]

(* The rest of commitNewWork: CommitFastBlocksByWoker, CommitFruits.       *)
WorkCommit(take) ==
  /\ work.pc = "begun"
  /\ LET number == Len(work.parent) + 1
         run    == continued(work.snap, number)
         next   == Last(chain) + Len(run) + 1
         bad    == next \in DOMAIN work.snap /\ Cardinality(DOMAIN work.snap) >= MinFruits
         pool   == fastBlockPool(work.snap)
         enough == Len(run) >= MaxFruits \/ (take /\ Len(run) >= MinFruits)
         filled == IF enough
                   THEN SubSeq(run, 1, IF Len(run) > MaxFruits THEN MaxFruits ELSE Len(run))
                   ELSE <<>>
     IN  /\ take => enough
         /\ ~take => Len(run) < MaxFruits
         /\ fastPool' = IF fast <= Last(chain) THEN fastPool ELSE pool
         /\ all' = IF bad THEN Without(all, {next}) ELSE all
         /\ pending' = IF bad THEN Without(pending, {next}) ELSE pending
         /\ dropped' = (dropped \/ bad)
         /\ mixed' = (mixed \/ work.parent # chain)
         /\ \E target \in IF pool = {} THEN {0} ELSE pool :
              work' = IF target = 0 /\ filled = <<>> THEN Idle
                      ELSE [work EXCEPT !.pc = "mining", !.target = target, !.fruits = filled,
                                        !.snap = <<>>,
                                        !.at = Pointer(SubSeq(chain, 1, Len(work.parent)))]
  /\ UNCHANGED <<fast, chain, known, forks, remote, scope, heads, fasts, fruits, head, picked,
                 minedFruit>>

(* wait, for a fruit: a second one of the same number is ignored.          *)
MinedFruit ==
  /\ work.pc = "mining" /\ work.target # 0 /\ fruits = <<>>
  /\ LET fruit == [n |-> work.target, at |-> work.at]
     IN  IF minedFruit.n = work.target THEN UNCHANGED <<minedFruit, fruits>>
         ELSE minedFruit' = fruit /\ AddRemoteFruits(fruit)
  /\ work' = IF work.fruits = <<>> THEN Idle ELSE [work EXCEPT !.target = 0]
  /\ UNCHANGED <<fast, chain, known, forks, remote, scope, all, pending, heads, fasts, head, picked,
                 fastPool, mixed, dropped>>

(* wait, for a block: it is written without being validated.               *)
MinedBlock ==
  /\ work.pc = "mining" /\ work.fruits # <<>>
  /\ LET block(fork) == [fork |-> fork, fruits |-> work.fruits]
     IN  \/ /\ work.parent = chain
            /\ NewHead(Append(chain, block(forks))) /\ UNCHANGED forks
         \/ /\ work.parent # chain /\ work.parent = SubSeq(chain, 1, Len(chain) - 1)
            /\ forks < scope.forks
            /\ forks' = forks + 1
            /\ NewHead(Append(work.parent, block(forks + 1)))
         \/ /\ work.parent # chain
            /\ UNCHANGED <<chain, known, heads, forks>>
  /\ work' = Idle
  /\ UNCHANGED <<fast, remote, scope, all, pending, fasts, fruits, head, picked, minedFruit,
                 fastPool, mixed, dropped>>

-----------------------------------------------------------------------------
Loop == LoopFruit \/ LoopFast \/ updateFruit \/ LoopHead
WorkTakes == WorkCommit(TRUE)
Worker == WorkBegin \/ WorkCommit(FALSE) \/ MinedFruit

Next == FastGrows \/ InsertChain \/ RemoteFruit \/ Loop \/ Worker \/ WorkTakes \/ MinedBlock

Spec == Init /\ [][Next]_vars

Fairness == WF_vars(Loop) /\ WF_vars(Worker) /\ SF_vars(WorkTakes) /\ WF_vars(MinedBlock)

FairSpec == Spec /\ Fairness

-----------------------------------------------------------------------------
(* The pool has caught up with the snail chain.                            *)
Quiet == heads = <<>> /\ picked = NoFruit

(* Each snail block continues its parent: no fast block is left out of the *)
(* record or recorded twice, whatever the pool and the chain did while the *)
(* worker was choosing fruits.  A work begun on one head and filled on     *)
(* another is excepted.                                                    *)
ChainContinuous ==
  ~mixed => \A k \in DOMAIN chain : \A i \in DOMAIN chain[k].fruits :
              chain[k].fruits[i].n = Last(SubSeq(chain, 1, k - 1)) + i

(* Once the pool has seen the head, no fruit of a recorded fast block is   *)
(* left in allFruits, to take up room for good.                            *)
IncludedLeave == Quiet => \A n \in DOMAIN all : n > Last(chain)

(* A reorganisation gives the fruits of the abandoned blocks back to the   *)
(* worker: those that the new head does not record and that are still      *)
(* valid are pending after the reset.                                      *)
FruitsReturn ==
  [][\A f \in fruitsOf(head, head') :
       (head' # head /\ f.n > Last(head') /\ ValidateFruit(f) = "ok") => f.n \in DOMAIN pending']_vars

(* The worker lost a fruit it had, or got one out of turn: it does not go  *)
(* back to a fast number before the first pending fruit.                   *)
OutOfTurn == dropped \/ mixed \/ remote > 0

(* Every fast block is recorded in the snail chain at last by the worker   *)
(* alone, whatever other miners' blocks come in between and whichever of   *)
(* two forks wins, as long as its fruits come in turn: the record catches  *)
(* up with the fast chain when that pauses, as here it does at its bound.  *)
FastRecorded == []<>(Last(chain) = fast \/ OutOfTurn)
=============================================================================
