---------------------------- MODULE StakingProofs ----------------------------
(***************************************************************************)
(* For every set of users, length of an epoch, fee, amount and reward, the *)
(* staking contract keeps the coins it was given: what is locked is what   *)
(* the structure holds, rewards can be paid and add up, and merge never    *)
(* panics.                                                                 *)
(*                                                                         *)
(* The argument is one inductive invariant, IInv.  It says that the        *)
(* structure is sound and that locked balances are what the accounts of    *)
(* the current epoch hold.  ImpawnProofs has the steps of the structure;   *)
(* here each call of the contract and Finalize combines them.              *)
(***************************************************************************)
EXTENDS ImpawnProofs, Staking

-----------------------------------------------------------------------------
(* Steps of the contract                                                   *)

\* The locked balances, with the genesis stake.
Balanced(acc, e, lock) ==
  \A a \in Addrs : lock[a] + (IF a \in Genesis THEN ElectionMinLimit ELSE 0) = Held(acc, e, a)

\* The inductive invariant.
IInv ==
  /\ height \in Nat \ {0}
  /\ locked \in [Addrs -> Nat] /\ scope \in Scopes
  /\ SoundImpawn(impawn, height)
  /\ Balanced(Current(impawn), impawn.curEpochID, locked)

\* A call that changes what a user holds and their locked balance by the same
\* amount keeps the balance.
LEMMA MovedBalance ==
  ASSUME NEW hh \in Nat \ {0}, NEW i, SoundImpawn(i, hh), NEW j, NEW lock \in [Addrs -> Nat],
         NEW b \in Addrs, NEW v \in Int, Moved(i, j, hh, b, v),
         Balanced(Current(i), i.curEpochID, lock), lock[b] + v >= 0,
         NEW lock2, lock2 = [lock EXCEPT ![b] = lock[b] + v]
  PROVE  /\ SoundImpawn(j, hh) /\ lock2 \in [Addrs -> Nat]
         /\ Balanced(Current(j), j.curEpochID, lock2)
<1>1. SoundImpawn(j, hh) /\ j.curEpochID = i.curEpochID
  BY DEF Moved
<1>2. lock2 \in [Addrs -> Nat]
  OBVIOUS
<1>3. ASSUME NEW a \in Addrs
      PROVE  lock2[a] + (IF a \in Genesis THEN ElectionMinLimit ELSE 0) = Held(Current(j), i.curEpochID, a)
  <2> DEFINE g == IF a \in Genesis THEN ElectionMinLimit ELSE 0
             x == Held(Current(i), i.curEpochID, a)
             y == Held(Current(j), i.curEpochID, a)
  <2>1. g \in Nat
    BY EpochAssumption
  <2>2. lock[a] \in Nat /\ lock[a] + g = x
    BY DEF Balanced
  <2>3. y = x + (IF a = b THEN v ELSE 0)
    BY DEF Moved
  <2>4. lock2[a] = IF a = b THEN lock[a] + v ELSE lock[a]
    OBVIOUS
  <2> HIDE DEF g, x, y
  <2>5. lock2[a] + g = y
    BY <2>1, <2>2, <2>3, <2>4
  <2> QED BY <2>5 DEF g, y
<1> QED BY <1>1, <1>2, <1>3 DEF Balanced

\* So does a step that changes neither.
LEMMA KeptBalance ==
  ASSUME NEW i, NEW j, NEW hh, Kept(i, j, hh), NEW lock, Balanced(Current(i), i.curEpochID, lock)
  PROVE  Balanced(Current(j), j.curEpochID, lock)
BY DEF Kept, Balanced

\* Two such steps.
LEMMA KeptTwice ==
  ASSUME NEW i, NEW j, NEW k, NEW hh, Kept(i, j, hh), Kept(j, k, hh)
  PROVE  Kept(i, k, hh)
BY DEF Kept

\* A call that moves v coins to or from user b keeps the invariant.
LEMMA CallKeeps ==
  ASSUME IInv, NEW b \in Addrs, NEW v \in Int, Moved(impawn, impawn', height, b, v),
         locked[b] + v >= 0, locked' = [locked EXCEPT ![b] = locked[b] + v],
         UNCHANGED <<height, scope>>
  PROVE  IInv'
<1>1. /\ height \in Nat \ {0} /\ SoundImpawn(impawn, height) /\ locked \in [Addrs -> Nat]
      /\ Balanced(Current(impawn), impawn.curEpochID, locked) /\ scope \in Scopes
  BY DEF IInv
<1>2. /\ SoundImpawn(impawn', height) /\ locked' \in [Addrs -> Nat]
      /\ Balanced(Current(impawn'), impawn'.curEpochID, locked')
  BY <1>1, MovedBalance, Zenon
<1>3. Balanced(Current(impawn), impawn.curEpochID, locked)'
  BY <1>2 DEF Balanced, Held, Own, Parts, Current
<1> QED BY <1>1, <1>2, <1>3 DEF IInv

\* What the invariant gives about the state.
LEMMA StateFacts ==
  ASSUME IInv
  PROVE  /\ height \in Nat \ {0} /\ height \in Nat /\ SoundImpawn(impawn, height)
         /\ locked \in [Addrs -> Nat] /\ scope \in Scopes
         /\ impawn.curEpochID \in Nat /\ impawn.curEpochID = GetEpochFromHeight(height)
         /\ DOMAIN Current(impawn) \in SUBSET Addrs
         /\ \A a \in DOMAIN Current(impawn) : SoundAccount(Current(impawn)[a], impawn.curEpochID, height)
<1>1. /\ height \in Nat \ {0} /\ SoundImpawn(impawn, height) /\ locked \in [Addrs -> Nat]
      /\ scope \in Scopes
  BY DEF IInv
<1>2. /\ impawn.curEpochID \in Nat /\ impawn.curEpochID = GetEpochFromHeight(height)
      /\ SoundAccounts(Current(impawn), impawn.curEpochID, height)
  BY <1>1, SoundFacts, Zenon
<1> QED BY <1>1, <1>2 DEF SoundAccounts

\* Only users call.
LEMMA Callers ==
  ASSUME IInv PROVE scope.callers \subseteq Addrs
<1>1. scope \in [callers : SUBSET Addrs, calls : Nat]
  BY StakingAssumption DEF IInv
<1> QED BY <1>1

\* A call on the caller's own unit.
LEMMA UnitCall ==
  ASSUME IInv, NEW a \in Addrs, Has(a), NEW u, SoundUnit(u, impawn.curEpochID, height), NEW v \in Int,
         HoldsIn(u, impawn.curEpochID) = HoldsIn(Current(impawn)[a].Unit, impawn.curEpochID) + v,
         Staked(u) >= Staked(Current(impawn)[a].Unit),
         impawn' = setUnit(a, u),
         locked[a] + v >= 0, locked' = [locked EXCEPT ![a] = locked[a] + v],
         UNCHANGED <<height, scope>>
  PROVE  IInv'
<1>1. height \in Nat \ {0} /\ SoundImpawn(impawn, height) /\ a \in DOMAIN Current(impawn)
  BY StateFacts DEF Has
<1>2. impawn' = SetAcc(impawn, a, [Current(impawn)[a] EXCEPT !.Unit = u])
  BY DEF setUnit, setAccount, SetAcc
<1>3. Moved(impawn, SetAcc(impawn, a, [Current(impawn)[a] EXCEPT !.Unit = u]), height, a, v)
  BY <1>1, UnitStep
<1>4. Moved(impawn, impawn', height, a, v)
  BY <1>2, <1>3
<1> QED BY <1>4, CallKeeps, Zenon

\* A call on a delegation.
LEMMA DelegationCall ==
  ASSUME IInv, NEW a \in Addrs, NEW d \in Addrs, Has(a), NEW u,
         SoundUnit(u, impawn.curEpochID, height), NEW v \in Int,
         HoldsIn(u, impawn.curEpochID) = Part(Current(impawn)[a], impawn.curEpochID, d) + v,
         NEW f, Extended(Current(impawn)[a], d, u, f),
         impawn' = setAccount(a, [Current(impawn)[a] EXCEPT !.Delegation = f]),
         locked[d] + v >= 0, locked' = [locked EXCEPT ![d] = locked[d] + v],
         UNCHANGED <<height, scope>>
  PROVE  IInv'
<1>1. height \in Nat \ {0} /\ SoundImpawn(impawn, height) /\ a \in DOMAIN Current(impawn)
  BY StateFacts DEF Has
<1>2. impawn' = SetAcc(impawn, a, [Current(impawn)[a] EXCEPT !.Delegation = f])
  BY DEF setAccount, SetAcc
<1>3. Moved(impawn, SetAcc(impawn, a, [Current(impawn)[a] EXCEPT !.Delegation = f]), height, d, v)
  BY <1>1, DelegationStep
<1>4. Moved(impawn, impawn', height, d, v)
  BY <1>2, <1>3
<1> QED BY <1>4, CallKeeps, Zenon

\* setDelegation as such a change.
SetsDelegation(sa, d, u) ==
  \E f : Extended(sa, d, u, f) /\ [sa EXCEPT !.Delegation[d] = u] = [sa EXCEPT !.Delegation = f]

\* setDelegation replaces the delegation of a delegator the account has.
LEMMA SetDelegation ==
  ASSUME NEW sa, IsAccount(sa), NEW d \in Delegators(sa), NEW u
  PROVE  SetsDelegation(sa, d, u)
<1> DEFINE g == sa.Delegation
           f == [g EXCEPT ![d] = u]
<1>1. IsMap(g)
  BY DEF IsAccount, IsMap
<1>2. d \in DOMAIN g
  BY DEF Delegators
<1>a. [sa EXCEPT !.Delegation[d] = u] = [sa EXCEPT !.Delegation = f]
  OBVIOUS
<1>b. Delegators(sa) = DOMAIN g
  BY DEF Delegators
<1> HIDE DEF g
<1>3. f = [x \in DOMAIN g \cup {d} |-> IF x = d THEN u ELSE g[x]]
  BY <1>1, <1>2 DEF IsMap
<1>4. Extended(sa, d, u, f)
  BY <1>3, <1>b DEF Extended, g
<1> HIDE DEF f
<1> QED BY <1>4, <1>a DEF SetsDelegation

\* A call that only changes information.
LEMMA InfoCall ==
  ASSUME IInv, NEW a \in Addrs, Has(a), NEW sa, SoundAccount(sa, impawn.curEpochID, height),
         sa.Unit = Current(impawn)[a].Unit, sa.Delegation = Current(impawn)[a].Delegation,
         sa.Committee = Current(impawn)[a].Committee,
         impawn' = setAccount(a, sa), UNCHANGED <<locked, height, scope>>
  PROVE  IInv'
<1>1. /\ height \in Nat \ {0} /\ SoundImpawn(impawn, height) /\ a \in DOMAIN Current(impawn)
      /\ locked \in [Addrs -> Nat]
  BY StateFacts DEF Has
<1>2. impawn' = SetAcc(impawn, a, sa)
  BY DEF setAccount, SetAcc
<1>3. PICK z \in Int : z = 0
  OBVIOUS
<1>4. Moved(impawn, SetAcc(impawn, a, sa), height, a, z)
  BY <1>1, <1>3, InfoStep
<1>5. Moved(impawn, impawn', height, a, z)
  BY <1>2, <1>4
<1>6. locked[a] + z >= 0 /\ locked' = [locked EXCEPT ![a] = locked[a] + z]
  BY <1>1, <1>3
<1> QED BY <1>5, <1>6, CallKeeps, Zenon

\* A further stake.
LEMMA Appended ==
  ASSUME IInv, NEW a \in Addrs, Has(a), NEW v \in Nat,
         impawn' = setUnit(a, update(Current(impawn)[a].Unit, height, v)),
         locked' = [locked EXCEPT ![a] = @ + v], UNCHANGED <<height, scope>>
  PROVE  IInv'
<1> DEFINE u == Current(impawn)[a].Unit
           w == update(u, height, v)
           e == impawn.curEpochID
<1>1. /\ height \in Nat /\ locked \in [Addrs -> Nat] /\ e \in Nat
      /\ SoundAccount(Current(impawn)[a], e, height)
  BY StateFacts DEF Has
<1>2. SoundUnit(u, e, height)
  BY <1>1 DEF SoundAccount
<1> HIDE DEF u, e
<1>3. SoundUnit(w, e, height) /\ Staked(w) = Staked(u) + v /\ HoldsIn(w, e) = HoldsIn(u, e) + v
  BY <1>1, <1>2, Update, SMTT(60)
<1>4. WellFormed(u, e, height)
  BY <1>2 DEF SoundUnit
<1>5. Staked(u) \in Nat
  BY <1>1, <1>4, UnitFacts
<1>6. Staked(w) >= Staked(u) /\ v \in Int /\ locked[a] + v >= 0
  BY <1>1, <1>3, <1>5
<1>7. impawn' = setUnit(a, w) /\ locked' = [locked EXCEPT ![a] = locked[a] + v]
  BY DEF u
<1> HIDE DEF w
<1> QED BY <1>3, <1>6, <1>7, UnitCall, ZenonT(60) DEF u, e

\* Deposit keeps the invariant, for a known account and a new one.
LEMMA DepositKeeps ==
  ASSUME IInv, NEW a \in Addrs, NEW v \in Stakes, NEW pk, NEW fee \in Fees, Deposit(a, pk, v, fee)
  PROVE  IInv'
<1>1. v \in Nat /\ fee \in 0 .. Base
  BY StakingAssumption
<1>2. UNCHANGED <<height, scope>> /\ locked' = [locked EXCEPT ![a] = @ + v]
  BY DEF Deposit, Call
<1>3. CASE Has(a)
  <2>1. impawn' = setUnit(a, update(Current(impawn)[a].Unit, height, v))
    BY <1>3 DEF Deposit
  <2> QED BY <2>1, <1>1, <1>2, <1>3, Appended, ZenonT(60)
<1>4. CASE ~Has(a)
  <2>1. impawn' = setAccount(a, newAccount(height, pk, v, fee))
    BY <1>4 DEF Deposit
  <2>2. impawn' = SetAcc(impawn, a, newAccount(height, pk, v, fee))
    BY <2>1 DEF setAccount, SetAcc
  <2>3. /\ height \in Nat \ {0} /\ SoundImpawn(impawn, height) /\ a \notin DOMAIN Current(impawn)
        /\ locked \in [Addrs -> Nat]
    BY <1>4, StateFacts DEF Has
  <2>4. Moved(impawn, SetAcc(impawn, a, newAccount(height, pk, v, fee)), height, a, v)
    BY <2>3, <1>1, NewStep
  <2>5. Moved(impawn, impawn', height, a, v)
    BY <2>2, <2>4
  <2>6. v \in Int /\ locked[a] + v >= 0 /\ locked' = [locked EXCEPT ![a] = locked[a] + v]
    BY <2>3, <1>1, <1>2
  <2> QED BY <2>5, <2>6, <1>2, CallKeeps, ZenonT(60)
<1> QED BY <1>3, <1>4

\* DepositAppend keeps it.
LEMMA DepositAppendKeeps ==
  ASSUME IInv, NEW a \in Addrs, NEW v \in Stakes, DepositAppend(a, v)
  PROVE  IInv'
<1>1. v \in Nat
  BY StakingAssumption
<1>2. /\ UNCHANGED <<height, scope>> /\ locked' = [locked EXCEPT ![a] = @ + v] /\ Has(a)
      /\ impawn' = setUnit(a, update(Current(impawn)[a].Unit, height, v))
  BY DEF DepositAppend, Call
<1> QED BY <1>1, <1>2, Appended, Zenon

\* Delegate keeps it, for a known delegator and a new one.
LEMMA DelegateKeeps ==
  ASSUME IInv, NEW a \in Addrs, NEW d \in Addrs, NEW v \in Stakes, Delegate(a, d, v)
  PROVE  IInv'
<1> DEFINE sa == Current(impawn)[a]
           g == sa.Delegation
           e == impawn.curEpochID
           u == IF d \in DOMAIN g THEN update(g[d], height, v) ELSE newUnit(height, v)
           f == [x \in DOMAIN g \cup {d} |-> IF x = d THEN u ELSE g[x]]
<1>1. v \in Nat
  BY StakingAssumption
<1>2. /\ UNCHANGED <<height, scope>> /\ locked' = [locked EXCEPT ![d] = @ + v] /\ Has(a)
      /\ impawn' = setAccount(a, delegateTo(sa, d, height, v))
  BY DEF Delegate, Call
<1>3. /\ height \in Nat /\ locked \in [Addrs -> Nat] /\ e \in Nat /\ SoundAccount(sa, e, height)
  BY <1>2, StateFacts DEF Has
<1>4. delegateTo(sa, d, height, v) = [sa EXCEPT !.Delegation = f]
  <2>1. f = [x \in DOMAIN g \cup {d} |->
              IF x # d THEN g[x] ELSE IF x \in DOMAIN g THEN update(g[x], height, v)
              ELSE newUnit(height, v)]
    OBVIOUS
  <2> QED BY <2>1 DEF delegateTo
<1>5. Extended(sa, d, u, f)
  BY DEF Extended, Delegators
<1> HIDE DEF sa, e, f
<1>6. SoundUnit(u, e, height) /\ HoldsIn(u, e) = Part(sa, e, d) + v
  <2>1. CASE d \in DOMAIN g
    <3>1. SoundUnit(g[d], e, height) /\ Part(sa, e, d) = HoldsIn(g[d], e)
      BY <2>1, <1>3 DEF SoundAccount, Delegators, Part
    <3>2. u = update(g[d], height, v)
      BY <2>1
    <3> HIDE DEF g, u
    <3> QED BY <3>1, <3>2, <1>1, <1>3, Update, SMTT(60)
  <2>2. CASE d \notin DOMAIN g
    <3>1. Part(sa, e, d) = 0
      BY <2>2 DEF Part, Delegators
    <3>2. u = newUnit(height, v)
      BY <2>2
    <3> HIDE DEF g, u
    <3> QED BY <3>1, <3>2, <1>1, <1>3, NewUnit, SMTT(60)
  <2> QED BY <2>1, <2>2
<1> HIDE DEF u
<1>7. v \in Int /\ locked[d] + v >= 0 /\ locked' = [locked EXCEPT ![d] = locked[d] + v]
  BY <1>1, <1>2, <1>3
<1>8. impawn' = setAccount(a, [sa EXCEPT !.Delegation = f])
  BY <1>2, <1>4
<1> QED BY <1>2, <1>5, <1>6, <1>7, <1>8, DelegationCall, ZenonT(60) DEF sa, e

\* Cancel keeps it, and no balance changes.
LEMMA CancelKeeps ==
  ASSUME IInv, NEW a \in Addrs, NEW v \in Amounts, Cancel(a, v)
  PROVE  IInv'
<1> DEFINE u == Current(impawn)[a].Unit
           w == stopStakingInfo(u, v, height)
           e == impawn.curEpochID
<1>1. v \in Nat \ {0}
  BY StakingAssumption
<1>2. /\ UNCHANGED <<height, scope>> /\ locked' = locked /\ Has(a)
      /\ getValidStaking(u, height) >= v /\ impawn' = setUnit(a, w)
  BY DEF Cancel, Call
<1>3. /\ height \in Nat \ {0} /\ height \in Nat /\ locked \in [Addrs -> Nat]
      /\ e \in Nat /\ e = GetEpochFromHeight(height)
      /\ SoundAccount(Current(impawn)[a], e, height)
  BY <1>2, StateFacts DEF Has
<1>4. SoundUnit(u, e, height)
  BY <1>3 DEF SoundAccount
<1> HIDE DEF u, e
<1>5. SoundUnit(w, e, height) /\ HoldsIn(w, e) = HoldsIn(u, e) /\ Staked(w) = Staked(u)
  BY <1>1, <1>2, <1>3, <1>4, Stop, SMTT(60)
<1>6. WellFormed(u, e, height)
  BY <1>4 DEF SoundUnit
<1>7. Staked(u) \in Nat /\ HoldsIn(u, e) \in Nat
  BY <1>3, <1>6, UnitFacts, RedeemType, SMTT(60)
<1>8. PICK z \in Int : z = 0
  OBVIOUS
<1> HIDE DEF w
<1>9. /\ Staked(w) >= Staked(u) /\ HoldsIn(w, e) = HoldsIn(u, e) + z
      /\ locked[a] + z >= 0 /\ locked' = [locked EXCEPT ![a] = locked[a] + z]
  BY <1>2, <1>3, <1>5, <1>7, <1>8, SMTT(60)
<1> QED BY <1>2, <1>5, <1>9, UnitCall, ZenonT(60) DEF u, e

\* Withdraw keeps it: what is unlocked leaves the structure.
LEMMA WithdrawKeeps ==
  ASSUME IInv, NEW a \in Addrs, NEW v \in Amounts, Withdraw(a, v)
  PROVE  IInv'
<1> DEFINE u == Current(impawn)[a].Unit
           w == finishRedeemed(redeeming(u, height, v))
           e == impawn.curEpochID
<1>1. v \in Nat \ {0}
  BY StakingAssumption
<1>2. /\ UNCHANGED <<height, scope>> /\ locked' = [locked EXCEPT ![a] = @ - v] /\ Has(a)
      /\ locked[a] >= v /\ getValidRedeem(u, height) >= v /\ impawn' = setUnit(a, w)
  BY DEF Withdraw, Call
<1>3. /\ height \in Nat \ {0} /\ height \in Nat /\ locked \in [Addrs -> Nat]
      /\ e \in Nat /\ e = GetEpochFromHeight(height)
      /\ SoundAccount(Current(impawn)[a], e, height)
  BY <1>2, StateFacts DEF Has
<1>4. SoundUnit(u, e, height)
  BY <1>3 DEF SoundAccount
<1> HIDE DEF u, e
<1>5. SoundUnit(w, e, height) /\ HoldsIn(w, e) = HoldsIn(u, e) - v /\ Staked(w) = Staked(u)
  BY <1>1, <1>2, <1>3, <1>4, Withdrawn, SMTT(60)
<1>6. WellFormed(u, e, height)
  BY <1>4 DEF SoundUnit
<1>7. Staked(u) \in Nat /\ HoldsIn(u, e) \in Nat
  BY <1>3, <1>6, UnitFacts, RedeemType, SMTT(60)
<1>8. PICK z \in Int : z = 0 - v
  BY <1>1
<1> HIDE DEF w
<1>9. /\ Staked(w) >= Staked(u) /\ HoldsIn(w, e) = HoldsIn(u, e) + z
      /\ locked[a] + z >= 0 /\ locked' = [locked EXCEPT ![a] = locked[a] + z]
  <2>1. locked[a] \in Nat /\ locked[a] - v = locked[a] + z
    BY <1>1, <1>3, <1>8, SMTT(60)
  <2>2. locked' = [locked EXCEPT ![a] = locked[a] - v]
    BY <1>2
  <2>3. locked' = [locked EXCEPT ![a] = locked[a] + z]
    BY <2>1, <2>2, Zenon
  <2>4. locked[a] + z >= 0
    BY <2>1, <1>1, <1>2, <1>8, SMTT(60)
  <2>5. Staked(w) >= Staked(u) /\ HoldsIn(w, e) = HoldsIn(u, e) + z
    BY <1>1, <1>4, <1>5, <1>7, <1>8, SMTT(60)
  <2> QED BY <2>3, <2>4, <2>5
<1> QED BY <1>2, <1>5, <1>9, UnitCall, ZenonT(60) DEF u, e

\* Undelegate keeps it, and no balance changes.
LEMMA UndelegateKeeps ==
  ASSUME IInv, NEW a \in Addrs, NEW d \in Addrs, NEW v \in Amounts, Undelegate(a, d, v)
  PROVE  IInv'
<1> DEFINE sa == Current(impawn)[a]
           u == sa.Delegation[d]
           w == stopStakingInfo(u, v, height)
           e == impawn.curEpochID
<1>1. v \in Nat \ {0}
  BY StakingAssumption
<1>2. /\ UNCHANGED <<height, scope>> /\ locked' = locked /\ Has(a) /\ d \in Delegators(sa)
      /\ getValidStaking(u, height) >= v
      /\ impawn' = setAccount(a, [sa EXCEPT !.Delegation[d] = w])
  BY DEF Undelegate, Call, HasDelegation, setDelegation
<1>3. /\ height \in Nat \ {0} /\ height \in Nat /\ locked \in [Addrs -> Nat]
      /\ e \in Nat /\ e = GetEpochFromHeight(height) /\ SoundAccount(sa, e, height)
  BY <1>2, StateFacts DEF Has
<1>4. SoundUnit(u, e, height) /\ Part(sa, e, d) = HoldsIn(u, e) /\ IsAccount(sa)
  BY <1>2, <1>3 DEF SoundAccount, Part
<1> HIDE DEF sa, u, e
<1>5. SoundUnit(w, e, height) /\ HoldsIn(w, e) = HoldsIn(u, e)
  BY <1>1, <1>2, <1>3, <1>4, Stop, SMTT(60)
<1>6. WellFormed(u, e, height)
  BY <1>4 DEF SoundUnit
<1>7. HoldsIn(u, e) \in Nat
  BY <1>3, <1>6, RedeemType
<1>8. PICK z \in Int : z = 0
  OBVIOUS
<1> HIDE DEF w
<1>9. /\ HoldsIn(w, e) = Part(sa, e, d) + z
      /\ locked[d] + z >= 0 /\ locked' = [locked EXCEPT ![d] = locked[d] + z]
  BY <1>2, <1>3, <1>4, <1>5, <1>7, <1>8, SMTT(60)
<1>10. PICK f : Extended(sa, d, w, f) /\ [sa EXCEPT !.Delegation[d] = w] = [sa EXCEPT !.Delegation = f]
  <2>1. SetsDelegation(sa, d, w)
    BY <1>2, <1>4, SetDelegation
  <2> QED BY <2>1 DEF SetsDelegation
<1>11. impawn' = setAccount(a, [sa EXCEPT !.Delegation = f])
  BY <1>2, <1>10
<1> QED BY <1>2, <1>5, <1>9, <1>10, <1>11, DelegationCall, ZenonT(60) DEF sa, e

\* WithdrawDelegate keeps it: what is unlocked leaves the structure.
LEMMA WithdrawDelegateKeeps ==
  ASSUME IInv, NEW a \in Addrs, NEW d \in Addrs, NEW v \in Amounts, WithdrawDelegate(a, d, v)
  PROVE  IInv'
<1> DEFINE sa == Current(impawn)[a]
           u == sa.Delegation[d]
           w == finishRedeemed(redeeming(u, height, v))
           e == impawn.curEpochID
<1>1. v \in Nat \ {0}
  BY StakingAssumption
<1>2. /\ UNCHANGED <<height, scope>> /\ locked' = [locked EXCEPT ![d] = @ - v]
      /\ Has(a) /\ d \in Delegators(sa) /\ locked[d] >= v /\ getValidRedeem(u, height) >= v
      /\ impawn' = setAccount(a, [sa EXCEPT !.Delegation[d] = w])
  BY DEF WithdrawDelegate, Call, HasDelegation, setDelegation
<1>3. /\ height \in Nat \ {0} /\ height \in Nat /\ locked \in [Addrs -> Nat]
      /\ e \in Nat /\ e = GetEpochFromHeight(height) /\ SoundAccount(sa, e, height)
  BY <1>2, StateFacts DEF Has
<1>4. SoundUnit(u, e, height) /\ Part(sa, e, d) = HoldsIn(u, e) /\ IsAccount(sa)
  BY <1>2, <1>3 DEF SoundAccount, Part
<1> HIDE DEF sa, u, e
<1>5. SoundUnit(w, e, height) /\ HoldsIn(w, e) = HoldsIn(u, e) - v
  BY <1>1, <1>2, <1>3, <1>4, Withdrawn, SMTT(60)
<1>6. WellFormed(u, e, height)
  BY <1>4 DEF SoundUnit
<1>7. HoldsIn(u, e) \in Nat
  BY <1>3, <1>6, RedeemType
<1>8. PICK z \in Int : z = 0 - v
  BY <1>1
<1> HIDE DEF w
<1>9. /\ HoldsIn(w, e) = Part(sa, e, d) + z
      /\ locked[d] + z >= 0 /\ locked' = [locked EXCEPT ![d] = locked[d] + z]
  <2>1. locked[d] \in Nat /\ locked[d] - v = locked[d] + z
    BY <1>1, <1>3, <1>8
  <2>2. locked' = [locked EXCEPT ![d] = locked[d] - v]
    BY <1>2
  <2>3. locked' = [locked EXCEPT ![d] = locked[d] + z]
    BY <2>1, <2>2, Zenon
  <2>4. locked[d] + z >= 0
    BY <2>1, <1>1, <1>2, <1>8, SMTT(60)
  <2>5. HoldsIn(w, e) = Part(sa, e, d) + z
    BY <1>1, <1>4, <1>5, <1>7, <1>8, SMTT(60)
  <2> QED BY <2>3, <2>4, <2>5
<1>10. PICK f : Extended(sa, d, w, f) /\ [sa EXCEPT !.Delegation[d] = w] = [sa EXCEPT !.Delegation = f]
  <2>1. SetsDelegation(sa, d, w)
    BY <1>2, <1>4, SetDelegation
  <2> QED BY <2>1 DEF SetsDelegation
<1>11. impawn' = setAccount(a, [sa EXCEPT !.Delegation = f])
  BY <1>2, <1>10
<1> QED BY <1>2, <1>5, <1>9, <1>10, <1>11, DelegationCall, ZenonT(60) DEF sa, e

\* A pending fee or key.
LEMMA ModifyAccount ==
  ASSUME NEW e \in Nat, NEW hh \in Nat, NEW sa, SoundAccount(sa, e, hh),
         NEW fee \in 0 .. InvalidFee, NEW pk, NEW x,
         \/ x = [sa EXCEPT !.Modify.Fee = fee]
         \/ x = [sa EXCEPT !.Modify.VotePubkey = pk]
  PROVE  /\ SoundAccount(x, e, hh) /\ x.Unit = sa.Unit /\ x.Delegation = sa.Delegation
         /\ x.Committee = sa.Committee
<1>1. /\ IsAccount(sa) /\ sa.Fee \in 0 .. Base /\ sa.Modify.Fee \in 0 .. InvalidFee
      /\ sa.Committee \in BOOLEAN
  BY DEF SoundAccount
<1>2. PICK u, ok, of, c, g, mf, mk : IsMap(g) /\ sa = Account(u, ok, of, c, g, mf, mk)
  BY <1>1, AccountParts
<1>3. /\ sa.Unit = u /\ sa.Delegation = g /\ sa.Fee = of /\ sa.Modify.Fee = mf /\ sa.Committee = c
      /\ sa.Modify = [Fee |-> mf, VotePubkey |-> mk]
  BY <1>2 DEF Account
<1>4. \E nf \in 0 .. InvalidFee : \E nk : x = Account(u, ok, of, c, g, nf, nk)
  <2>1. CASE x = [sa EXCEPT !.Modify.Fee = fee]
    <3>1. x = [sa EXCEPT !.Modify = [sa.Modify EXCEPT !.Fee = fee]]
      BY <2>1
    <3>2. [sa.Modify EXCEPT !.Fee = fee] = [Fee |-> fee, VotePubkey |-> mk]
      BY <1>3
    <3>3. x = [sa EXCEPT !.Modify = [Fee |-> fee, VotePubkey |-> mk]]
      BY <3>1, <3>2
    <3>4. x = Account(u, ok, of, c, g, fee, mk)
      BY <3>3, <1>2 DEF Account
    <3> QED BY <3>4
  <2>2. CASE x = [sa EXCEPT !.Modify.VotePubkey = pk]
    <3>1. x = [sa EXCEPT !.Modify = [sa.Modify EXCEPT !.VotePubkey = pk]]
      BY <2>2
    <3>2. [sa.Modify EXCEPT !.VotePubkey = pk] = [Fee |-> mf, VotePubkey |-> pk]
      BY <1>3
    <3>3. x = [sa EXCEPT !.Modify = [Fee |-> mf, VotePubkey |-> pk]]
      BY <3>1, <3>2
    <3>4. x = Account(u, ok, of, c, g, mf, pk)
      BY <3>3, <1>2 DEF Account
    <3> QED BY <3>4, <1>1, <1>3
  <2> QED BY <2>1, <2>2
<1>5. PICK nf \in 0 .. InvalidFee : \E nk : x = Account(u, ok, of, c, g, nf, nk)
  BY <1>4
<1>6. PICK nk : x = Account(u, ok, of, c, g, nf, nk)
  BY <1>5
<1>7. IsAccount(x)
  BY <1>2, <1>6, AccountForm, ZenonT(60)
<1>8. /\ x.Unit = u /\ x.Delegation = g /\ x.Fee = of /\ x.Modify.Fee = nf /\ x.Committee = c
  BY <1>6 DEF Account
<1>9. SoundAccount(x, e, hh)
  BY <1>1, <1>3, <1>7, <1>8, PutInfo, SMTT(60)
<1> QED BY <1>3, <1>8, <1>9, SMTT(60)

\* A step that changes none of the four variables.
LEMMA Unchanged ==
  ASSUME IInv, UNCHANGED <<impawn, locked, height, scope>>
  PROVE  IInv'
BY DEF IInv, Balanced, Held, Own, Parts, Current

\* SetFee keeps the invariant.
LEMMA SetFeeKeeps ==
  ASSUME IInv, NEW a \in Addrs, NEW fee \in Fees, SetFee(a, fee)
  PROVE  IInv'
<1> DEFINE sa == Current(impawn)[a]
           x == [sa EXCEPT !.Modify.Fee = fee]
           e == impawn.curEpochID
<1>1. Base \in Nat /\ fee \in 0 .. Base
  BY StakingAssumption, EpochAssumption
<1>2. fee \in 0 .. InvalidFee
  BY <1>1 DEF InvalidFee
<1>3. UNCHANGED <<locked, height, scope>> /\ Has(a) /\ (impawn' = impawn \/ impawn' = setAccount(a, x))
  BY DEF SetFee, Call
<1>4. height \in Nat /\ e \in Nat /\ SoundAccount(sa, e, height)
  BY <1>3, StateFacts DEF Has
<1>5. /\ SoundAccount(x, e, height) /\ x.Unit = sa.Unit /\ x.Delegation = sa.Delegation
      /\ x.Committee = sa.Committee
  <2> HIDE DEF sa, e
  <2> QED BY <1>2, <1>4, ModifyAccount
<1>6. CASE impawn' = impawn
  BY <1>3, <1>6, Unchanged, SMTT(60)
<1>7. CASE impawn' = setAccount(a, x)
  <2> HIDE DEF x
  <2> QED BY <1>3, <1>5, <1>7, InfoCall, SMTT(60)
<1> QED BY <1>3, <1>6, <1>7, SMTT(60)

\* SetPubkey keeps it.
LEMMA SetPubkeyKeeps ==
  ASSUME IInv, NEW a \in Addrs, NEW pk, SetPubkey(a, pk)
  PROVE  IInv'
<1> DEFINE sa == Current(impawn)[a]
           x == [sa EXCEPT !.Modify.VotePubkey = pk]
           e == impawn.curEpochID
<1>1. Base \in Nat
  BY EpochAssumption
<1>2. 0 \in 0 .. InvalidFee
  BY <1>1 DEF InvalidFee
<1>3. UNCHANGED <<locked, height, scope>> /\ Has(a) /\ (impawn' = impawn \/ impawn' = setAccount(a, x))
  BY DEF SetPubkey, Call
<1>4. height \in Nat /\ e \in Nat /\ SoundAccount(sa, e, height)
  BY <1>3, StateFacts DEF Has
<1>5. /\ SoundAccount(x, e, height) /\ x.Unit = sa.Unit /\ x.Delegation = sa.Delegation
      /\ x.Committee = sa.Committee
  <2> HIDE DEF sa, e
  <2> QED BY <1>2, <1>4, ModifyAccount
<1>6. CASE impawn' = impawn
  BY <1>3, <1>6, Unchanged, SMTT(60)
<1>7. CASE impawn' = setAccount(a, x)
  <2> HIDE DEF x
  <2> QED BY <1>3, <1>5, <1>7, InfoCall, SMTT(60)
<1> QED BY <1>3, <1>6, <1>7, SMTT(60)

\* Nothing changes when TIP10 is not due.
LEMMA KeptSelf ==
  ASSUME NEW i, NEW hh, SoundImpawn(i, hh) PROVE Kept(i, i, hh)
BY DEF Kept

\* Finalize keeps the invariant: TIP10, a reward, an election and the next
\* epoch, in this order.
LEMMA FinalizeKeeps ==
  ASSUME IInv, NEW end, Finalize(end)
  PROVE  IInv'
<1> DEFINE i1 == MakeModifyStateByTip10(impawn)
           i2 == [i1 EXCEPT !.lastReward = end]
           e == GetEpochFromHeight(height)
<1>1. /\ height \in Nat \ {0} /\ height \in Nat /\ SoundImpawn(impawn, height)
      /\ impawn.curEpochID = e /\ e \in Nat
  BY StateFacts
<1>2. /\ height' = height + 1 /\ UNCHANGED <<locked, scope>> /\ Rewards(i1, end)
      /\ \E E \in Elections(i2, e) : impawn' = finalizeValidators(i2, e, E)
  BY DEF Finalize
<1>3. Kept(impawn, i1, height) /\ SoundImpawn(i1, height)
  <2>1. CASE height # EffectHeight
    <3>1. i1 = impawn
      BY <2>1 DEF MakeModifyStateByTip10
    <3> QED BY <3>1, <1>1, KeptSelf, SMTT(60)
  <2>2. CASE height = EffectHeight
    <3>1. i1 = Tip10(impawn)
      BY <2>2 DEF MakeModifyStateByTip10, Tip10
    <3> HIDE DEF i1
    <3>2. Kept(impawn, i1, height)
      BY <3>1, <1>1, Tip10Step, SMTT(60)
    <3> QED BY <3>2 DEF Kept
  <2> QED BY <2>1, <2>2
<1>4. PICK E \in Elections(i2, e) : impawn' = finalizeValidators(i2, e, E)
  BY <1>2
<1> HIDE DEF i1
<1>5. i1.lastReward \in Nat /\ i1.lastReward < height
  BY <1>1, <1>3, SoundFacts, ZenonT(60)
<1>6. end \in Nat /\ i1.lastReward <= end /\ end < height
  <2>1. CASE end = i1.lastReward
    BY <2>1, <1>5
  <2>2. CASE end # i1.lastReward
    <3>1. end \in i1.lastReward + MinimumFruits .. i1.lastReward + MaximumFruits /\ end < height
      BY <2>2, <1>2 DEF Rewards
    <3>2. MinimumFruits \in Nat
      BY StakingAssumption, EpochAssumption
    <3>3. MaximumFruits \in Nat
      BY StakingAssumption, EpochAssumption
    <3> QED BY <3>1, <3>2, <3>3, <1>5, SMTT(60)
  <2> QED BY <2>1, <2>2
<1>7. Kept(i1, i2, height)
  BY <1>1, <1>3, <1>6, RewardStep, SMTT(60)
<1> HIDE DEF i2
<1>8. Kept(impawn, i2, height) /\ SoundImpawn(i2, height) /\ i2.curEpochID = e
  <2>1. Kept(impawn, i2, height)
    BY <1>3, <1>7, KeptTwice, SMTT(60)
  <2> QED BY <2>1, <1>1 DEF Kept
<1> DEFINE i3 == IF E = {} THEN i2 ELSE elect(i2, e + 1, E)
<1>9. Kept(impawn, i3, height) /\ SoundImpawn(i3, height) /\ i3.curEpochID = e
  <2>1. CASE E = {}
    BY <2>1, <1>8
  <2>2. CASE E # {}
    <3>1. E \in DoElections(i2, e + 1, height)
      BY <2>2, <1>4 DEF Elections
    <3>2. PICK d : d = e + 1 /\ d - 1 = i2.curEpochID
      BY <1>1, <1>8
    <3> HIDE DEF e
    <3>3. Enough(i2, E, height)
      BY <3>1, <3>2, ElectedEnough, SMTT(60)
    <3>4. i3 = elect(i2, d, E)
      BY <2>2, <3>2
    <3> HIDE DEF i3
    <3>5. Kept(i2, i3, height)
      BY <3>2, <3>3, <3>4, <1>1, <1>8, ElectStep, ZenonT(60)
    <3>6. Kept(impawn, i3, height)
      BY <3>5, <1>8, KeptTwice, SMTT(60)
    <3> QED BY <3>6, <1>1 DEF Kept
  <2> QED BY <2>1, <2>2
<1>10. impawn' = IF height = EndHeight(e) THEN Shift(i3, e + 1) ELSE i3
  BY <1>4 DEF finalizeValidators
<1> HIDE DEF i3
<1>11. Balanced(Current(i3), e, locked)
  BY <1>9, KeptBalance DEF IInv
<1>12. SoundImpawn(impawn', height') /\ Balanced(Current(impawn'), impawn'.curEpochID, locked)
  <2>1. CASE height = EndHeight(e)
    <3>1. impawn' = Shift(i3, e + 1)
      BY <2>1, <1>10
    <3>2. ShiftedTo(i3, impawn', e, height + 1)
      BY <2>1, <3>1, <1>1, <1>9, EpochStep, SMTT(60)
    <3>3. /\ SoundImpawn(impawn', height + 1) /\ impawn'.curEpochID = e + 1
          /\ \A a \in Addrs : Held(Current(impawn'), e + 1, a) = Held(Current(i3), e, a)
      BY <3>2, <1>9 DEF ShiftedTo, Current
    <3> QED BY <3>3, <1>2, <1>11 DEF Balanced
  <2>2. CASE height # EndHeight(e)
    <3>1. impawn' = i3
      BY <2>2, <1>10
    <3>2. SoundImpawn(i3, height + 1)
      BY <2>2, <1>1, <1>9, LaterStep, SMTT(60)
    <3> QED BY <3>1, <3>2, <1>2, <1>9, <1>11, SMTT(60)
  <2> QED BY <2>1, <2>2
<1>13. Balanced(Current(impawn), impawn.curEpochID, locked)'
  BY <1>2, <1>12 DEF Balanced, Held, Own, Parts, Current
<1>14. height' \in Nat \ {0} /\ locked' \in [Addrs -> Nat] /\ scope' \in Scopes
  BY <1>1, <1>2, SMTT(60) DEF IInv
<1> QED BY <1>12, <1>13, <1>14, SMTT(60) DEF IInv

-----------------------------------------------------------------------------
(* The inductive invariant                                                 *)

\* The genesis accounts.
Members == [a \in Genesis |->
              [newAccount(0, keyOf[a], ElectionMinLimit, GenesisFee) EXCEPT !.Committee = TRUE]]

\* The members of the genesis committee have their stake.
LEMMA GenesisAccounts ==
  /\ SoundAccounts(Members, 0, 0) /\ DOMAIN Members = Genesis
  /\ \A a \in Genesis : Staked(Members[a].Unit) > 0
  /\ \A a \in Addrs : Held(Members, 0, a) = IF a \in Genesis THEN ElectionMinLimit ELSE 0
<1>1. /\ Genesis \subseteq Addrs /\ IsFiniteSet(Addrs) /\ GenesisFee \in 0 .. Base
      /\ ElectionMinLimit \in Nat \ {0}
  BY StakingAssumption, EpochAssumption, AddrsAssumption, SMTT(60)
<1>2. PICK c \in BOOLEAN : c = TRUE
  BY Zenon
<1>a. ElectionMinLimit \in Nat /\ 0 \in Nat
  BY <1>1
<1>3. \A a \in Genesis : Fresh(Members[a], 0, 0, ElectionMinLimit, c)
  <2> SUFFICES ASSUME NEW a \in Genesis PROVE Fresh(Members[a], 0, 0, ElectionMinLimit, c)
    OBVIOUS
  <2>1. Members[a] = [newAccount(0, keyOf[a], ElectionMinLimit, GenesisFee) EXCEPT !.Committee = c]
    BY <1>2 DEF Members
  <2>2. Fresh([newAccount(0, keyOf[a], ElectionMinLimit, GenesisFee) EXCEPT !.Committee = c],
              0, 0, ElectionMinLimit, c)
    BY <1>1, <1>a, NewAccount, ZenonT(60)
  <2> QED BY <2>1, <2>2
<1>4. DOMAIN Members = Genesis /\ Members = [a \in DOMAIN Members |-> Members[a]]
  BY DEF Members
<1>5. SoundAccounts(Members, 0, 0)
  BY <1>1, <1>3, <1>4, SMTT(60) DEF SoundAccounts, Fresh
<1>6. /\ Staked(newUnit(0, ElectionMinLimit)) = ElectionMinLimit
      /\ HoldsIn(newUnit(0, ElectionMinLimit), 0) = ElectionMinLimit
  BY <1>a, NewUnit
<1>7. \A a \in Genesis : /\ Members[a].Unit = newUnit(0, ElectionMinLimit)
                         /\ Delegators(Members[a]) = {}
  BY <1>3 DEF Fresh
<1>8. \A a \in Genesis : Staked(Members[a].Unit) > 0
  BY <1>1, <1>6, <1>7, SMTT(60)
<1>9. ASSUME NEW a \in Addrs
      PROVE  Held(Members, 0, a) = IF a \in Genesis THEN ElectionMinLimit ELSE 0
  <2>1. \A s \in Addrs : Parts(Members, 0, a)[s] = 0
    BY <1>4, <1>7 DEF Parts, Part
  <2>2. Sum(Parts(Members, 0, a), Addrs) = 0
    BY <2>1, <1>1, SumZero, SMTT(60)
  <2>3. Own(Members, 0, a) = IF a \in Genesis THEN ElectionMinLimit ELSE 0
    BY <1>4, <1>6, <1>7, SMTT(60) DEF Own
  <2> QED BY <2>2, <2>3, <1>1, SMTT(60) DEF Held
<1> QED BY <1>4, <1>5, <1>8, <1>9, SMTT(60)

\* The invariant holds after genesis.
LEMMA InitKeeps == Init => IInv
<1> SUFFICES ASSUME Init PROVE IInv
  OBVIOUS
<1> DEFINE accs == [e \in {0} |-> Members]
           i == Impl(accs, 0, 0)
           L == NewEpochLength
<1>1. /\ impawn = Shift(i, 0 + 1) /\ locked = [a \in Addrs |-> 0] /\ height = 1 /\ scope \in Scopes
  BY DEF Init, Members, Impl
<1>2. L \in Nat \ {0}
  BY EpochAssumption
<1>3. GetEpochFromHeight(0) = 0
  BY DEF GetEpochFromHeight, DposForkPoint, FirstNewEpochID
<1>4. GetEpochFromHeight(0 + 1) = 0 + 1
  <2>1. (1 - 1) * NewEpochLength < 1 /\ 1 <= 1 * NewEpochLength
    BY <1>2, SMTT(60)
  <2>2. GetEpochFromHeight(1) = 1
    BY <2>1, EpochUnique, SMTT(60)
  <2> QED BY <2>2
<1>5. BeginHeight(0 + 1) = 0 + 1
  BY <1>2 DEF BeginHeight, DposForkPoint, FirstNewEpochID
<1>6. DOMAIN accs = {0} /\ accs[0] = Members /\ accs = [e \in DOMAIN accs |-> accs[e]]
  OBVIOUS
<1> HIDE DEF accs
<1>7. Before(accs, 0, 0, 0)
  <2>1. \A e \in 0 .. 0 : e \in DOMAIN accs
    BY <1>6
  <2>2. DOMAIN accs \in SUBSET (0 .. 0)
    BY <1>6, SMTT(60)
  <2>3. \A e \in DOMAIN accs : SoundAccounts(accs[e], e, 0)
    BY <1>6, GenesisAccounts
  <2>4. \A e \in DOMAIN accs : e + 1 \notin DOMAIN accs
    BY <1>6
  <2>5. \A a \in Elected(accs, 0) : Staked(accs[0][a].Unit) > 0
    BY <1>6, GenesisAccounts, SMTT(60) DEF Elected
  <2> QED BY <2>1, <2>2, <2>3, <2>4, <2>5, <1>6, SMTT(60) DEF Before
<1> DEFINE j == Shift(i, 0 + 1)
<1>8. ShiftedTo(i, j, 0, 0 + 1)
  <2>1. 0 \in Nat /\ 0 \in 0 .. 0 /\ 0 \in DOMAIN accs
    BY <1>6
  <2>2. PICK z \in Nat : z = 0
    OBVIOUS
  <2>3. /\ Before(accs, z, z, z) /\ z \in 0 .. z /\ z \in DOMAIN accs
        /\ GetEpochFromHeight(z + 1) = z + 1 /\ BeginHeight(z + 1) = z + 1
        /\ GetEpochFromHeight(z) \in Nat /\ i = Impl(accs, z, z) /\ j = Shift(i, z + 1)
    BY <2>1, <2>2, <1>3, <1>4, <1>5, <1>7, SMTT(60)
  <2> HIDE DEF i, j
  <2>4. ShiftedTo(i, j, z, z + 1)
    BY <2>3, ShiftStep, SMTT(60)
  <2> QED BY <2>2, <2>4
<1>9. i.accounts[0] = Members
  BY <1>6, SMTT(60) DEF Impl
<1> HIDE DEF i, j
<1>10. /\ SoundImpawn(j, 1) /\ j.curEpochID = 1
       /\ \A a \in Addrs : Held(Current(j), 1, a) = Held(Members, 0, a)
  BY <1>8, <1>9, SMTT(60) DEF ShiftedTo
<1>11. locked \in [Addrs -> Nat]
  BY <1>1, SMTT(60)
<1>12. Balanced(Current(j), j.curEpochID, locked)
  <2> SUFFICES ASSUME NEW a \in Addrs
               PROVE  locked[a] + (IF a \in Genesis THEN ElectionMinLimit ELSE 0)
                        = Held(Current(j), 1, a)
    BY <1>10, SMTT(60) DEF Balanced
  <2>1. ElectionMinLimit \in Nat /\ locked[a] = 0
    BY <1>1, EpochAssumption, SMTT(60)
  <2> QED BY <2>1, <1>10, GenesisAccounts, SMTT(60)
<1> QED BY <1>1, <1>10, <1>11, <1>12, SMTT(60) DEF IInv, j

\* Every step keeps the invariant.
LEMMA StepKeeps == IInv /\ [Next]_vars => IInv'
<1> SUFFICES ASSUME IInv, [Next]_vars PROVE IInv'
  OBVIOUS
<1>1. scope.callers \subseteq Addrs
  BY Callers, SMTT(60)
<1>2. ASSUME NEW a \in scope.callers, NEW v \in Stakes, NEW pk \in Keys, NEW fee \in Fees,
             Deposit(a, pk, v, fee)
      PROVE  IInv'
  BY <1>1, <1>2, DepositKeeps, SMTT(60)
<1>3. ASSUME NEW a \in scope.callers, NEW v \in Stakes, DepositAppend(a, v) PROVE IInv'
  BY <1>1, <1>3, DepositAppendKeeps, SMTT(60)
<1>4. ASSUME NEW a \in scope.callers, NEW v \in Stakes, NEW sa \in Addrs, Delegate(sa, a, v) PROVE IInv'
  BY <1>1, <1>4, DelegateKeeps, SMTT(60)
<1>5. ASSUME NEW a \in scope.callers, NEW v \in Amounts, Cancel(a, v) PROVE IInv'
  BY <1>1, <1>5, CancelKeeps, SMTT(60)
<1>6. ASSUME NEW a \in scope.callers, NEW v \in Amounts, Withdraw(a, v) PROVE IInv'
  BY <1>1, <1>6, WithdrawKeeps, SMTT(60)
<1>7. ASSUME NEW a \in scope.callers, NEW v \in Amounts, NEW sa \in Addrs, Undelegate(sa, a, v)
      PROVE  IInv'
  BY <1>1, <1>7, UndelegateKeeps, SMTT(60)
<1>8. ASSUME NEW a \in scope.callers, NEW v \in Amounts, NEW sa \in Addrs, WithdrawDelegate(sa, a, v)
      PROVE  IInv'
  BY <1>1, <1>8, WithdrawDelegateKeeps, SMTT(60)
<1>9. ASSUME NEW a \in scope.callers, NEW fee \in Fees, SetFee(a, fee) PROVE IInv'
  BY <1>1, <1>9, SetFeeKeeps, SMTT(60)
<1>10. ASSUME NEW a \in scope.callers, NEW pk \in Keys, SetPubkey(a, pk) PROVE IInv'
  BY <1>1, <1>10, SetPubkeyKeeps, SMTT(60)
<1>11. ASSUME NEW end \in 0 .. MaxHeight, Finalize(end) PROVE IInv'
  BY <1>11, FinalizeKeeps
<1>12. CASE UNCHANGED vars
  BY <1>12, Unchanged, SMTT(60) DEF vars
<1> QED BY <1>2, <1>3, <1>4, <1>5, <1>6, <1>7, <1>8, <1>9, <1>10, <1>11, <1>12, Zenon DEF Next

\* The invariant holds in every reachable state, for all sets of users and
\* keys, all lengths of epochs, fees and amounts: the calls of staking.go and
\* Minerva.Finalize preserve it.
THEOREM Inductive == Spec => []IInv
<1>1. Init => IInv
  BY InitKeeps
<1>2. IInv /\ [Next]_vars => IInv'
  BY StepKeeps, SMTT(60)
<1> QED BY <1>1, <1>2, PTL DEF Spec

-----------------------------------------------------------------------------
(* What it implies                                                         *)

\* Every unit of the current epoch is sound.
LEMMA SoundUnits ==
  ASSUME IInv, NEW u \in AllUnits PROVE SoundUnit(u, impawn.curEpochID, height)
<1>1. PICK a \in DOMAIN Current(impawn) : u \in UnitsOf(Current(impawn)[a])
  BY DEF AllUnits
<1>2. SoundAccount(Current(impawn)[a], impawn.curEpochID, height)
  BY StateFacts
<1> QED BY <1>1, <1>2, SMTT(60) DEF UnitsOf, SoundAccount

\* The invariant gives the type,
LEMMA TypeHolds == IInv => TypeOK
<1> SUFFICES ASSUME IInv PROVE TypeOK
  OBVIOUS
<1>1. /\ height \in Nat /\ locked \in [Addrs -> Nat] /\ impawn.curEpochID \in Nat
      /\ impawn.curEpochID = GetEpochFromHeight(height)
  BY StateFacts, SMTT(60)
<1>2. ASSUME NEW u \in AllUnits
      PROVE  /\ \A h \in DOMAIN u.Value : h \in 0 .. height /\ u.Value[h] \in Nat
             /\ \A i \in DOMAIN u.RedeemInof : redeemAt(u, i) \in Nat
  <2>1. WellFormed(u, impawn.curEpochID, height)
    BY SoundUnits DEF SoundUnit
  <2>2. DOMAIN u.Value \subseteq 0 .. height /\ u.Value \in [DOMAIN u.Value -> Nat]
    BY <2>1, <1>1, UnitFacts, ZenonT(60)
  <2>3. \A i \in DOMAIN u.RedeemInof : redeemAt(u, i) \in Nat \ {0}
    BY <2>1, <1>1, RedeemType, ZenonT(60)
  <2> QED BY <2>2, <2>3
<1> QED BY <1>1, <1>2 DEF TypeOK

\* that merge does not panic,
LEMMA NeverPanics == IInv => MergeNeverPanics
BY SoundUnits DEF MergeNeverPanics, SoundUnit

\* and that the items are in order.
LEMMA InOrder == IInv => RedeemsInOrder
BY SoundUnits DEF RedeemsInOrder, SoundUnit, WellFormed

\* Owned, over the accounts a user delegated to, is Held, over all users.
LEMMA OwnedIsHeld ==
  ASSUME IInv, NEW a \in Addrs
  PROVE  Owned(a) = Held(Current(impawn), impawn.curEpochID, a)
<1> DEFINE acc == Current(impawn)
           e == impawn.curEpochID
           into == {s \in DOMAIN acc : HasDelegation(s, a)}
           f == [s \in into |-> Holds(acc[s].Delegation[a])]
           g == Parts(acc, e, a)
<1>1. /\ height \in Nat \ {0} /\ SoundImpawn(impawn, height) /\ DOMAIN acc \in SUBSET Addrs
      /\ IsFiniteSet(Addrs)
  BY StateFacts, AddrsAssumption, SMTT(60)
<1>2. \A u : Holds(u) = HoldsIn(u, e)
  BY SMTT(60) DEF Holds, HoldsIn
<1>3. \A s \in Addrs : g[s] \in Nat
  BY <1>1, HeldType
<1>4. into \in SUBSET Addrs
  BY <1>1, SMTT(60)
<1>5. \A s \in into : g[s] = f[s]
  BY <1>1, <1>2, SMTT(60) DEF Parts, Part, HasDelegation
<1>6. \A s \in Addrs \ into : g[s] = 0
  BY <1>1, SMTT(60) DEF Parts, Part, HasDelegation, Has
<1>7. Owned(a) = Own(acc, e, a) + Sum(f, into)
  BY <1>2 DEF Owned, Own, Has
<1> HIDE DEF into, f, g
<1>8. Sum(g, Addrs) = Sum(f, into)
  <2>1. IsFiniteSet(into) /\ IsFiniteSet(Addrs \ into)
    BY <1>1, <1>4, FinitePart
  <2>2. into \cup (Addrs \ into) = Addrs /\ into \cap (Addrs \ into) = {}
    BY <1>4
  <2> DEFINE rest == Addrs \ into
  <2> HIDE DEF rest
  <2>3. \A s \in into \cup rest : g[s] \in Int
    BY <1>3, <2>2, SMTT(60) DEF rest
  <2>4. Sum(g, into \cup rest) = Sum(g, into) + Sum(g, rest)
    BY <2>1, <2>2, <2>3, SumUnion, SMTT(60) DEF rest
  <2>5. Sum(g, rest) = 0
    BY <2>1, <1>6, SumZero, SMTT(60) DEF rest
  <2>6. Sum(g, into) = Sum(f, into)
    BY <2>1, <1>5, SumSame, SMTT(60)
  <2>7. Sum(g, into) \in Int
    BY <2>1, <2>3, SumType
  <2>8. into \cup rest = Addrs
    BY <2>2 DEF rest
  <2>9. Sum(g, into \cup rest) = Sum(f, into)
    BY <2>4, <2>5, <2>6, <2>7, SMTT(60)
  <2> QED BY <2>8, <2>9
<1> QED BY <1>7, <1>8, SMTT(60) DEF Held, g

\* The invariant gives that locked balances are held,
LEMMA LockedHeld == IInv => LockedIsHeld
<1> SUFFICES ASSUME IInv, NEW a \in Addrs
             PROVE  locked[a] + (IF a \in Genesis THEN ElectionMinLimit ELSE 0) = Owned(a)
  BY DEF LockedIsHeld
<1>1. Owned(a) = Held(Current(impawn), impawn.curEpochID, a)
  BY OwnedIsHeld
<1>2. locked[a] + (IF a \in Genesis THEN ElectionMinLimit ELSE 0) =
        Held(Current(impawn), impawn.curEpochID, a)
  BY DEF IInv, Balanced
<1> QED BY <1>1, <1>2

\* and that every epoch still to be rewarded has its accounts and members.
LEMMA Payable == IInv => RewardsPayable
<1> SUFFICES ASSUME IInv, NEW e \in Unrewarded
             PROVE  /\ {e - 1, e} \subseteq Epochs(impawn)
                    /\ getElections2(impawn, e - 1) \subseteq DOMAIN impawn.accounts[e]
  BY DEF RewardsPayable
<1> DEFINE cur == impawn.curEpochID
           last == impawn.lastReward
           accs == impawn.accounts
<1>1. /\ height \in Nat \ {0} /\ SoundImpawn(impawn, height)
  BY StateFacts
<1>2. cur \in Nat /\ last \in Nat
  BY <1>1, SoundFacts, Zenon
<1>3. e \in 1 .. cur /\ e >= GetEpochFromHeight(last + 1)
  BY DEF Unrewarded, FirstNewEpochID
<1>4. SoundEpochs(accs, cur, last, height)
  BY <1>1 DEF SoundImpawn
<1>a. Epochs(impawn) = DOMAIN accs /\ getElections2(impawn, e - 1) = Elected(accs, e - 1)
  BY DEF Epochs, getElections2, Elected
<1> HIDE DEF cur, last, accs
<1>5. /\ GetEpochFromHeight(last) \in Nat /\ GetEpochFromHeight(last + 1) \in Nat
      /\ GetEpochFromHeight(last) <= GetEpochFromHeight(last + 1)
  BY <1>2, EpochMonotone, SMTT(60)
<1>6. e \in 0 .. cur /\ e - 1 \in 0 .. cur /\ e >= GetEpochFromHeight(last) - 1
      /\ e - 1 >= GetEpochFromHeight(last) - 1
  BY <1>2, <1>3, <1>5, SMTT(60)
<1>7. e \in DOMAIN accs /\ e - 1 \in DOMAIN accs
  BY <1>4, <1>6 DEF SoundEpochs
<1>8. e - 1 + 1 = e
  BY <1>6
<1>9. Elected(accs, e - 1) \subseteq DOMAIN accs[e]
  BY <1>4, <1>7, <1>8 DEF SoundEpochs
<1> QED BY <1>7, <1>9, <1>a, SMTT(60) DEF accs

\* The accounts that are rewarded in the current epoch are sound.
LEMMA RewardedSound ==
  ASSUME IInv PROVE SoundShare(rewarded(impawn, impawn.curEpochID), height)
<1> DEFINE cur == impawn.curEpochID
           accs == impawn.accounts
           sas == rewarded(impawn, cur)
<1>1. height \in Nat \ {0} /\ SoundImpawn(impawn, height)
  BY StateFacts
<1>2. cur \in Nat \ {0} /\ cur \in DOMAIN accs /\ cur - 1 \in DOMAIN accs
  BY <1>1, SoundFacts, ZenonT(60) DEF Epochs
<1>3. SoundAccounts(accs[cur], cur, height) /\ SoundAccounts(accs[cur - 1], cur - 1, height)
  BY <1>1, <1>2 DEF SoundImpawn, SoundEpochs
<1>4. \/ /\ DOMAIN sas \subseteq DOMAIN accs[cur]
         /\ \A a \in DOMAIN sas : sas[a] = accs[cur][a]
      \/ /\ DOMAIN sas \subseteq DOMAIN accs[cur - 1]
         /\ \A a \in DOMAIN sas : sas[a] = accs[cur - 1][a]
  BY Zenon DEF rewarded, getElections2
<1>5. cur - 1 \in Nat
  BY <1>2, SMTT(60)
<1> HIDE DEF cur, accs, sas
<1>6. SoundShare(sas, height)
  BY <1>2, <1>3, <1>4, <1>5, SMTT(60) DEF SoundShare, SoundAccounts
<1> QED BY <1>6 DEF sas, cur

\* The invariant gives that rewards add up.
LEMMA AddUp == IInv => RewardsAddUp
<1> SUFFICES ASSUME IInv, NEW coin \in Coins, NEW last
             PROVE  AddsUp(calcReward(impawn, height, coin, impawn.curEpochID, last), coin, last)
  BY DEF RewardsAddUp, AddsUp
<1>1. SoundShare(rewarded(impawn, impawn.curEpochID), height) /\ height \in Nat
  BY RewardedSound, StateFacts
<1>2. coin \in Nat
  BY StakingAssumption
<1> QED BY <1>1, <1>2, Rewarding, SMTT(60)

\* The amounts of the structure stay naturals, the blocks executed are in the
\* current epoch (impawn.go).
THEOREM StakingTypes == Spec => []TypeOK
BY Inductive, TypeHolds, PTL

\* No coin is lost or made: the balance that staking.go locks for a user is at
\* any time what the structure holds for them, over any sequence of deposits,
\* delegations, cancellations, withdrawals in parts and epochs.
THEOREM CoinsAreConserved == Spec => []LockedIsHeld
BY Inductive, LockedHeld, PTL

\* The panic in merge (impawn.go:244) is out of reach.
THEOREM MergeIsSafe == Spec => []MergeNeverPanics
BY Inductive, NeverPanics, PTL

\* The redemptions of a unit stay in the order of their epochs, one for each:
\* finishRedeemed, which drops a prefix of the list, drops empty items only.
THEOREM RedeemsOrdered == Spec => []RedeemsInOrder
BY Inductive, InOrder, PTL

\* calcReward finds the accounts and the committee of every epoch that still
\* has blocks to reward, though Shift deletes old epochs and members cancel.
THEOREM RewardsArePayable == Spec => []RewardsPayable
BY Inductive, Payable, PTL

\* calcReward pays the coin and not a unit more, and nobody a negative amount,
\* for any stakes, fees and rounding of the divisions.
THEOREM RewardsAreExact == Spec => []RewardsAddUp
BY Inductive, AddUp, PTL
=============================================================================
