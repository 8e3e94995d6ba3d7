------------------------------- MODULE Staking -------------------------------
(* The staking contract over a sequence of fast blocks: the calls of         *)
(* core/vm/staking.go that transactions make, and what Minerva.Finalize does *)
(* at the end of every block (TIP10, rewards of a snail block, election,     *)
(* next epoch).  A call that fails reverts the transaction, so only calls    *)
(* that succeed are steps.  Each call loads the structure from the state,    *)
(* changes it and saves it.                                                  *)
EXTENDS Impawn

CONSTANTS
    Genesis,            \* the members of the genesis committee
    GenesisFee,         \*   and their fee
    Keys,               \* vote keys; keyOf gives each account its first one
    Stakes,             \* amounts of calls that stake,
    Amounts,            \*   and of the others
    Fees,               \* fees of calls
    Coins,              \* committee rewards of snail blocks
    Funds,              \* balance of every user; rewards are not added to it
    MinimumFruits,      \* fast blocks a snail block rewards,
    MaximumFruits,      \*   at least and at most
    MaxHeight,          \* bound on the chain
    MaxStakes,          \* bounds on the calls that stake,
    MaxStops,           \*   cancel,
    MaxWithdraws,       \*   withdraw,
    MaxChanges,         \*   and change the fee or the key
    Scopes              \* who calls, and how often in all: one scope a behaviour

VARIABLES
    impawn,             \* ImpawnImpl as saved in the state
    locked,             \* GetPOSLocked of every user
    height,             \* the fast block in execution
    calls,              \* calls made, by kind
    scope               \* the bounds of this behaviour

vars == <<impawn, locked, height, calls, scope>>

ASSUME StakingAssumption ==
    /\ Genesis \subseteq Addrs /\ Genesis # {}
    /\ Scopes \subseteq [callers : SUBSET Addrs, calls : Nat]
    /\ Cardinality(Genesis) <= CountInEpoch /\ GenesisFee \in 0 .. Base
    /\ Stakes \cup Amounts \subseteq Nat \ {0} /\ Fees \subseteq 0 .. Base
    /\ Coins \subseteq Nat
    \* 600 fruits against epochs of 25000 blocks
    /\ MaximumFruits \in 1 .. NewEpochLength /\ MinimumFruits \in 1 .. MaximumFruits
    /\ NoKey \notin Keys

keyOf == CHOOSE f \in [Addrs -> Keys] : \A a, b \in Addrs : a # b => f[a] # f[b]

\* ToFastBlock: the genesis committee stakes, is elected for epoch 1 and
\* moved there.
Init ==
    LET members == [a \in Genesis |->
                        [newAccount(0, keyOf[a], ElectionMinLimit, GenesisFee)
                           EXCEPT !.Committee = TRUE]]
    IN /\ impawn = Shift([accounts |-> [e \in {0} |-> members], curEpochID |-> 0,
                          lastReward |-> 0], 1)
       /\ locked = [a \in Addrs |-> 0]
       /\ height = 1
       /\ calls = [k \in {"stake", "stop", "withdraw", "change"} |-> 0]
       /\ scope \in Scopes

-----------------------------------------------------------------------------
(* Calls                                                                     *)

Has(sa) == sa \in DOMAIN Current(impawn)
HasDelegation(sa, da) == Has(sa) /\ da \in Delegators(Current(impawn)[sa])

Bound == [stake |-> MaxStakes, stop |-> MaxStops,
          withdraw |-> MaxWithdraws, change |-> MaxChanges]

Call(kind) ==
    /\ calls[kind] < Bound[kind]
    /\ Sum(calls, DOMAIN calls) < scope.calls
    /\ calls' = [calls EXCEPT ![kind] = @ + 1]
    /\ UNCHANGED <<height, scope>>

\* GetUnlockedBalance suffices.
Unlocked(a, v) == Funds - locked[a] >= v

setAccount(a, sa) ==
    [impawn EXCEPT !.accounts[impawn.curEpochID] =
        [x \in DOMAIN @ \cup {a} |-> IF x = a THEN sa ELSE @[x]]]

setUnit(a, u) == setAccount(a, [Current(impawn)[a] EXCEPT !.Unit = u])

setDelegation(a, d, u) == setAccount(a, [Current(impawn)[a] EXCEPT !.Delegation[d] = u])

Deposit(a, pk, v, fee) ==
    /\ Call("stake")
    /\ Unlocked(a, v)
    /\ ~repeatPK(impawn, a, pk)
    /\ impawn' = IF Has(a) THEN setUnit(a, update(Current(impawn)[a].Unit, height, v))
                 ELSE setAccount(a, newAccount(height, pk, v, fee))
    /\ locked' = [locked EXCEPT ![a] = @ + v]

DepositAppend(a, v) ==
    /\ Call("stake")
    /\ Unlocked(a, v)
    /\ Has(a)
    /\ impawn' = setUnit(a, update(Current(impawn)[a].Unit, height, v))
    /\ locked' = [locked EXCEPT ![a] = @ + v]

\* Ignored in the block of the account's last stake.
SetFee(a, fee) ==
    /\ Call("change")
    /\ Has(a)
    /\ LET sa == Current(impawn)[a]
       IN impawn' = IF height > getMaxHeight(sa)
                    THEN setAccount(a, [sa EXCEPT !.Modify.Fee = fee]) ELSE impawn
    /\ UNCHANGED locked

SetPubkey(a, pk) ==
    /\ Call("change")
    /\ height >= EffectHeight
    /\ ~repeatPK(impawn, a, pk)
    /\ Has(a)
    /\ LET sa == Current(impawn)[a]
       IN impawn' = IF height > getMaxHeight(sa)
                    THEN setAccount(a, [sa EXCEPT !.Modify.VotePubkey = pk]) ELSE impawn
    /\ UNCHANGED locked

Delegate(sa, da, v) ==
    /\ Call("stake")
    /\ Unlocked(da, v)
    /\ sa # da
    /\ Has(sa)
    /\ impawn' = setAccount(sa, delegateTo(Current(impawn)[sa], da, height, v))
    /\ locked' = [locked EXCEPT ![da] = @ + v]

\* What was cancelled before in the epoch is not subtracted.
CancelAny(a, v) ==
    /\ Call("stop")
    /\ Has(a)
    /\ getAllStaking(Current(impawn)[a].Unit, height) >= v
    /\ impawn' = setUnit(a, stopStakingInfo(Current(impawn)[a].Unit, v, height))
    /\ UNCHANGED locked

Cancel(a, v) ==
    /\ Call("stop")
    /\ Has(a)
    /\ getValidStaking(Current(impawn)[a].Unit, height) >= v
    /\ impawn' = setUnit(a, stopStakingInfo(Current(impawn)[a].Unit, v, height))
    /\ UNCHANGED locked

Undelegate(sa, da, v) ==
    /\ Call("stop")
    /\ HasDelegation(sa, da)
    /\ LET u == Current(impawn)[sa].Delegation[da]
       IN /\ getValidStaking(u, height) >= v
          /\ impawn' = setDelegation(sa, da, stopStakingInfo(u, v, height))
    /\ UNCHANGED locked

Withdraw(a, v) ==
    /\ Call("withdraw")
    /\ locked[a] >= v
    /\ Has(a)
    /\ LET u == Current(impawn)[a].Unit
       IN /\ getValidRedeem(u, height) >= v
          /\ impawn' = setUnit(a, finishRedeemed(redeeming(u, height, v)))
    /\ locked' = [locked EXCEPT ![a] = @ - v]

WithdrawDelegate(sa, da, v) ==
    /\ Call("withdraw")
    /\ locked[da] >= v
    /\ HasDelegation(sa, da)
    /\ LET u == Current(impawn)[sa].Delegation[da]
       IN /\ getValidRedeem(u, height) >= v
          /\ impawn' = setDelegation(sa, da, finishRedeemed(redeeming(u, height, v)))
    /\ locked' = [locked EXCEPT ![da] = @ - v]

-----------------------------------------------------------------------------
(* Minerva.Finalize                                                          *)

MakeModifyStateByTip10(i) ==
    IF height # EffectHeight THEN i
    ELSE [i EXCEPT !.accounts[i.curEpochID] =
            [a \in DOMAIN @ |-> makeModifyStateByTip10(@[a])]]

\* calcReward of epoch eid does not return an error.
CanReward(i, eid) ==
    /\ {eid - 1, eid} \subseteq Epochs(i)
    /\ DOMAIN rewarded(i, eid) # {}

\* The snail block the header names rewards the fast blocks after lastReward
\* up to end; end = lastReward when it names none.  The payments to the
\* balances are left out.
Rewards(i, end) ==
    \/ end = i.lastReward
    \/ /\ end \in i.lastReward + MinimumFruits .. i.lastReward + MaximumFruits
       /\ end < height
       /\ \A e \in GetEpochFromRange(i.lastReward + 1, end) : CanReward(i, e)

\* finalizeValidators: election ElectionPoint blocks before the end of the
\* epoch, next epoch after its last block.
finalizeValidators(i, eid, E) ==
    LET elected == IF E = {} THEN i ELSE elect(i, eid + 1, E)
    IN IF height = EndHeight(eid) THEN Shift(elected, eid + 1) ELSE elected

Elections(i, eid) ==
    IF height = EndHeight(eid) - ElectionPoint THEN DoElections(i, eid + 1, height) ELSE {{}}

Finalize(end) ==
    /\ height < MaxHeight
    /\ Rewards(MakeModifyStateByTip10(impawn), end)
    /\ LET i == [MakeModifyStateByTip10(impawn) EXCEPT !.lastReward = end]
           eid == GetEpochFromHeight(height)
       IN \E E \in Elections(i, eid) : impawn' = finalizeValidators(i, eid, E)
    /\ height' = height + 1
    /\ UNCHANGED <<locked, calls, scope>>

Next ==
    \/ \E a \in scope.callers, v \in Stakes :
        \/ \E pk \in Keys, fee \in Fees : Deposit(a, pk, v, fee)
        \/ DepositAppend(a, v)
        \/ \E sa \in Addrs : Delegate(sa, a, v)
    \/ \E a \in scope.callers, v \in Amounts :
        \/ Cancel(a, v)
        \/ Withdraw(a, v)
        \/ \E sa \in Addrs : Undelegate(sa, a, v) \/ WithdrawDelegate(sa, a, v)
    \/ \E a \in scope.callers : \/ \E fee \in Fees : SetFee(a, fee)
                        \/ \E pk \in Keys : SetPubkey(a, pk)
    \/ \E end \in 0 .. MaxHeight : Finalize(end)

Spec == Init /\ [][Next]_vars

-----------------------------------------------------------------------------
(* Properties                                                                *)

UnitsOf(sa) == {sa.Unit} \cup {sa.Delegation[d] : d \in Delegators(sa)}

AllUnits == UNION {UnitsOf(Current(impawn)[a]) : a \in DOMAIN Current(impawn)}

\* The structure is well formed: amounts are naturals, the blocks executed are
\* in the current epoch.
TypeOK ==
    /\ \A u \in AllUnits :
        /\ \A h \in DOMAIN u.Value : h \in 0 .. height /\ u.Value[h] \in Nat
        /\ \A i \in DOMAIN u.RedeemInof : redeemAt(u, i) \in Nat
    /\ locked \in [Addrs -> Nat]
    /\ impawn.curEpochID = GetEpochFromHeight(height)

\* What belongs to the unit's owner: the stake, and what was cancelled in
\* earlier epochs.  What was cancelled in this epoch is still in the stake.
Holds(u) ==
    LET earlier == {i \in DOMAIN u.RedeemInof : u.RedeemInof[i].EpochID # impawn.curEpochID}
    IN Staked(u) + SumRedeem(u, earlier)

Owned(a) ==
    LET own == IF Has(a) THEN Holds(Current(impawn)[a].Unit) ELSE 0
        in == {sa \in DOMAIN Current(impawn) : HasDelegation(sa, a)}
    IN own + Sum([sa \in in |-> Holds(Current(impawn)[sa].Delegation[a])], in)

\* No coin is lost or made: at any time the locked balance of a user is what
\* the structure holds for them, as staker and as delegator, over deposits,
\* cancellations, withdrawals in parts and new epochs.  The genesis stake is
\* held but was never locked.
LockedIsHeld ==
    \A a \in Addrs : locked[a] + (IF a \in Genesis THEN ElectionMinLimit ELSE 0) = Owned(a)

\* Never more is cancelled in an epoch than is staked: the panic in merge
\* (impawn.go:244) is out of reach, however stakes and cancellations alternate.
MergeNeverPanics ==
    \A u \in AllUnits : getRedeemItem(u, impawn.curEpochID) <= Staked(u)

\* finishRedeemed drops a prefix of the items: this loses nothing because the
\* items are in the order of their epochs, one for each, whatever was
\* cancelled and withdrawn before.
RedeemsInOrder ==
    \A u \in AllUnits : \A i, j \in DOMAIN u.RedeemInof :
        i < j => u.RedeemInof[i].EpochID < u.RedeemInof[j].EpochID

Unrewarded ==
    {e \in FirstNewEpochID .. impawn.curEpochID :
        e >= GetEpochFromHeight(impawn.lastReward + 1)}

\* An error in calcReward makes every block that names the snail block
\* invalid.  The epochs that still have blocks to reward have their accounts,
\* and the committee elected for them is there, though members cancelled or
\* withdrew after the election and Shift deletes old epochs.
RewardsPayable ==
    \A e \in Unrewarded :
        /\ {e - 1, e} \subseteq Epochs(impawn)
        /\ getElections2(impawn, e - 1) \subseteq DOMAIN impawn.accounts[e]

\* The division of a reward among accounts and delegators pays the coin, not a
\* unit more; it pays all of it if the smallest account has stake left.  Stated
\* for the blocks of the current epoch so far: later it no longer changes.
RewardsAddUp ==
    LET e == impawn.curEpochID
    IN \A last \in Smallest(impawn, height, e), coin \in Coins :
            LET r == calcReward(impawn, height, coin, e, last)
            IN /\ Paid(r) <= coin
               /\ last \in DOMAIN r => Paid(r) = coin
               /\ \A a \in DOMAIN r : r[a].own >= 0
=============================================================================
