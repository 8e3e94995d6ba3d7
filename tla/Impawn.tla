------------------------------- MODULE Impawn -------------------------------
(* The data structure of the staking contract, core/vm/impawn.go: stakes by  *)
(* height, redemptions by epoch, staking accounts with their delegations,    *)
(* elections and rewards.  Each operator is the function of the same name,   *)
(* from a value of the structure to the new value.                           *)
(*                                                                           *)
(* The network starts with the staking contract (TIP8.CID < 0), so           *)
(* DposForkPoint is 0 and FirstNewEpochID is 1.  Every stake is made with    *)
(* auto = true, so isElection always holds.  Lists of accounts are           *)
(* functions from addresses: their order only shows in ties between equal    *)
(* stakes.                                                                   *)
EXTENDS Integers, Sequences, FiniteSets, FiniteSetsExt

CONSTANTS
    Addrs,              \* accounts of users
    NewEpochLength,     \* blocks of an epoch
    ElectionPoint,      \* blocks before its end at which it elects
    MaxRedeemHeight,    \* blocks a cancelled stake stays locked
    CountInEpoch,       \* size of a committee
    ElectionMinLimit,   \* own stake an elected account needs
    EffectHeight,       \* TIP10.FastNumber
    EffectID,           \* TIP10.CID
    Base,               \* the fee that takes the whole reward
    NoKey               \* no pending vote key

ASSUME AddrsAssumption == IsFiniteSet(Addrs)

ASSUME EpochAssumption ==
    /\ NewEpochLength \in Nat \ {0}
    /\ ElectionPoint \in 0 .. NewEpochLength - 1
    /\ {MaxRedeemHeight, EffectHeight, EffectID} \subseteq Nat
    /\ {CountInEpoch, ElectionMinLimit, Base} \subseteq Nat \ {0}
    \* TIP10 does not start an epoch.  There a fee that was never set is nil
    \* or 0, depending on whether the structure was cached.
    /\ EffectHeight % NewEpochLength # 1 \/ EffectHeight = 1

FirstNewEpochID == 1
DposForkPoint == 0
InvalidFee == Base + 1
NilFee == 0             \* a nil *big.Int is stored, and read back, as 0

BeginHeight(eid) ==
    IF eid = FirstNewEpochID - 1 THEN 0
    ELSE DposForkPoint + (eid - FirstNewEpochID) * NewEpochLength + 1

EndHeight(eid) ==
    DposForkPoint + (eid - FirstNewEpochID + 1) * NewEpochLength

GetEpochFromHeight(hh) ==
    LET past == hh - EndHeight(FirstNewEpochID)
        whole == past \div NewEpochLength
    IN IF hh <= DposForkPoint THEN FirstNewEpochID - 1
       ELSE IF past <= 0 THEN FirstNewEpochID
       ELSE IF past % NewEpochLength = 0 THEN FirstNewEpochID + whole
       ELSE FirstNewEpochID + whole + 1

GetEpochFromRange(begin, end) ==
    GetEpochFromHeight(begin) .. GetEpochFromHeight(end)

-----------------------------------------------------------------------------
(* impawnUnit: Value is a function from heights to amounts (sorted, one      *)
(* entry per height), RedeemInof a sequence of items.                        *)

Sum(f, S) == MapThenSumSet(LAMBDA x : f[x], S)

newUnit(height, amount) ==
    [Value |-> [h \in {height} |-> amount], RedeemInof |-> << >>]

Staked(u) == Sum(u.Value, DOMAIN u.Value)

getAllStaking(u, hh) == Sum(u.Value, {h \in DOMAIN u.Value : h <= hh})

redeemAt(u, i) == u.RedeemInof[i].Amount

\* The amount of the item of the epoch, 0 when there is none.
getRedeemItem(u, eid) ==
    LET items == {i \in DOMAIN u.RedeemInof : u.RedeemInof[i].EpochID = eid}
    IN IF items = {} THEN 0 ELSE redeemAt(u, Min(items))

\* The error of a negative balance is logged and 0 returned.
getValidStaking(u, hh) ==
    Max({0, getAllStaking(u, hh) - getRedeemItem(u, GetEpochFromHeight(hh))})

isRedeem(item, hh) == hh > BeginHeight(item.EpochID + 1) + MaxRedeemHeight

Redeemable(u, hh) == {i \in DOMAIN u.RedeemInof : isRedeem(u.RedeemInof[i], hh)}

SumRedeem(u, S) == Sum([i \in DOMAIN u.RedeemInof |-> redeemAt(u, i)], S)

getValidRedeem(u, hh) == SumRedeem(u, Redeemable(u, hh))

\* A second item instead of an update of the epoch's item.
stopAppending(u, amount, hh) ==
    [u EXCEPT !.RedeemInof = Append(@, [EpochID |-> GetEpochFromHeight(hh),
                                        Amount |-> amount, Redeemed |-> FALSE])]

stopStakingInfo(u, amount, hh) ==
    LET eid == GetEpochFromHeight(hh)
        same == {i \in DOMAIN u.RedeemInof : u.RedeemInof[i].EpochID = eid}
        item == [EpochID |-> eid, Amount |-> amount, Redeemed |-> FALSE]
    IN IF same = {} THEN [u EXCEPT !.RedeemInof = Append(@, item)]
       ELSE [u EXCEPT !.RedeemInof[Min(same)].Amount = @ + amount]

\* The items are taken in order of their epochs until amount is reached; the
\* one that exceeds it keeps the rest.
redeeming(u, hh, amount) ==
    LET ready == Redeemable(u, hh)
        upTo(n) == SumRedeem(u, {k \in ready : k <= n})
        take(i) ==
            IF i \in ready /\ upTo(i - 1) < amount
            THEN [u.RedeemInof[i] EXCEPT !.Amount = Max({0, upTo(i) - amount}),
                                         !.Redeemed = TRUE]
            ELSE u.RedeemInof[i]
    IN [u EXCEPT !.RedeemInof = [i \in DOMAIN u.RedeemInof |-> take(i)]]

\* Drops the items that any withdrawal touched, with what they have left.
finishTouched(u) ==
    LET done == {i \in DOMAIN u.RedeemInof : u.RedeemInof[i].Redeemed}
        pos == Max({0} \cup done)
    IN [u EXCEPT !.RedeemInof = SubSeq(@, pos + 1, Len(@))]

\* Everything up to the last emptied item is dropped.
finishRedeemed(u) ==
    LET done == {i \in DOMAIN u.RedeemInof :
                    redeemAt(u, i) = 0 /\ u.RedeemInof[i].Redeemed}
        pos == Max({0} \cup done)
    IN [u EXCEPT !.RedeemInof = SubSeq(@, pos + 1, Len(@))]

\* The stake cancelled in epoch eid leaves the stake at height hh.  The code
\* panics when more was cancelled than staked.
merge(u, eid, hh) ==
    [u EXCEPT !.Value = [h \in {hh} |-> Staked(u) - getRedeemItem(u, eid)]]

\* More stake at a height: one entry per height.
update(u, height, amount) ==
    [u EXCEPT !.Value =
        [h \in DOMAIN @ \cup {height} |->
            (IF h \in DOMAIN @ THEN @[h] ELSE 0) + (IF h = height THEN amount ELSE 0)]]

unitIsValid(u) ==
    \/ \E h \in DOMAIN u.Value : u.Value[h] > 0
    \/ \E i \in DOMAIN u.RedeemInof : redeemAt(u, i) > 0

-----------------------------------------------------------------------------
(* StakingAccount                                                            *)

newAccount(height, pk, amount, fee) ==
    [Unit |-> newUnit(height, amount), Votepubkey |-> pk, Fee |-> fee,
     Committee |-> FALSE, Delegation |-> << >>,
     Modify |-> [Fee |-> IF height >= EffectHeight THEN InvalidFee ELSE NilFee,
                 VotePubkey |-> NoKey]]

Delegators(sa) == DOMAIN sa.Delegation

TotalStaking(sa, hh) ==
    getAllStaking(sa.Unit, hh)
        + Sum([d \in Delegators(sa) |-> getAllStaking(sa.Delegation[d], hh)], Delegators(sa))

TotalValid(sa, hh) ==
    getValidStaking(sa.Unit, hh)
        + Sum([d \in Delegators(sa) |-> getValidStaking(sa.Delegation[d], hh)], Delegators(sa))

getMaxHeight(sa) == Max(DOMAIN sa.Unit.Value)

\* A new delegator is appended, a known one gets the amount.
delegateTo(sa, da, height, amount) ==
    [sa EXCEPT !.Delegation =
        [d \in DOMAIN @ \cup {da} |->
            IF d # da THEN @[d]
            ELSE IF d \in DOMAIN @ THEN update(@[d], height, amount)
            ELSE newUnit(height, amount)]]

changeAlterableInfo(sa) ==
    LET feeSet == sa.Modify.Fee # InvalidFee /\ sa.Modify.Fee <= Base
        pkSet == sa.Modify.VotePubkey # NoKey
    IN [sa EXCEPT !.Fee = IF feeSet THEN sa.Modify.Fee ELSE @,
                  !.Votepubkey = IF pkSet THEN sa.Modify.VotePubkey ELSE @,
                  !.Modify = [Fee |-> IF feeSet THEN InvalidFee ELSE @.Fee,
                              VotePubkey |-> NoKey]]

makeModifyStateByTip10(sa) ==
    IF sa.Modify.Fee = NilFee
    THEN [sa EXCEPT !.Modify = [Fee |-> InvalidFee, VotePubkey |-> NoKey]]
    ELSE sa

\* merge, of the account and its delegations; from EffectHeight on empty
\* delegations are dropped.
mergeAccount(sa, eid, hh) ==
    LET das == [d \in Delegators(sa) |-> merge(sa.Delegation[d], eid, hh)]
        kept == IF hh >= EffectHeight THEN {d \in DOMAIN das : unitIsValid(das[d])}
                ELSE DOMAIN das
    IN [sa EXCEPT !.Unit = merge(@, eid, hh), !.Delegation = [d \in kept |-> das[d]]]

isvalid(sa) ==
    unitIsValid(sa.Unit) \/ \E d \in Delegators(sa) : unitIsValid(sa.Delegation[d])

-----------------------------------------------------------------------------
(* ImpawnImpl: accounts by epoch, the current epoch, the last rewarded block *)

Epochs(i) == DOMAIN i.accounts
Current(i) == i.accounts[i.curEpochID]

repeatPK(i, addr, pk) ==
    \E e \in Epochs(i) : \E a \in DOMAIN i.accounts[e] :
        a # addr /\ i.accounts[e][a].Votepubkey = pk

getElections2(i, eid) ==
    {a \in DOMAIN i.accounts[eid] : i.accounts[eid][a].Committee}

\* The accounts that earn the rewards of epoch eid.
rewarded(i, eid) ==
    LET elected == getElections2(i, eid - 1)
    IN IF eid >= EffectID
       THEN [a \in elected \cap DOMAIN i.accounts[eid] |-> i.accounts[eid][a]]
       ELSE [a \in elected |-> i.accounts[eid - 1][a]]

\* What the delegators and the account get of its share.
calcRewardInSa(sa, target, share) ==
    LET all == TotalStaking(sa, target)
        rest == share - (share * sa.Fee) \div Base
        part == [d \in Delegators(sa) |->
                    (rest * getAllStaking(sa.Delegation[d], target)) \div all]
    IN [own |-> share - Sum(part, DOMAIN part), delegators |-> part]

\* Nobody gets what the divisions leave.
calcRewardEven(i, target, coin, eid, last) ==
    LET sas == rewarded(i, eid)
        stake == [a \in DOMAIN sas |-> TotalStaking(sas[a], target)]
        all == Sum(stake, DOMAIN sas)
        paid == {a \in DOMAIN sas : stake[a] > 0}
    IN [a \in paid |-> calcRewardInSa(sas[a], target, (stake[a] * coin) \div all)]

\* Every account with stake gets its share, the smallest one the remainder
\* of the coin; last names it.
calcReward(i, target, coin, eid, last) ==
    LET sas == rewarded(i, eid)
        stake == [a \in DOMAIN sas |-> TotalStaking(sas[a], target)]
        all == Sum(stake, DOMAIN sas)
        paid == {a \in DOMAIN sas : stake[a] > 0}
        even == [a \in paid |-> (stake[a] * coin) \div all]
        share(a) == IF a = last THEN coin - Sum(even, paid \ {a}) ELSE even[a]
    IN [a \in paid |-> calcRewardInSa(sas[a], target, share(a))]

\* What a reward r comes to.
Paid(r) ==
    Sum([a \in DOMAIN r |-> r[a].own + Sum(r[a].delegators, DOMAIN r[a].delegators)], DOMAIN r)

Smallest(i, target, eid) ==
    LET sas == rewarded(i, eid)
    IN {a \in DOMAIN sas :
            \A b \in DOMAIN sas : TotalStaking(sas[a], target) <= TotalStaking(sas[b], target)}

\* Who the election at a height can elect: the largest accounts with enough
\* own stake.
DoElections(i, eid, height) ==
    LET sas == i.accounts[eid - 1]
        enough == {a \in DOMAIN sas : getValidStaking(sas[a].Unit, height) >= ElectionMinLimit}
        size == Min({CountInEpoch, Cardinality(enough)})
    IN {E \in SUBSET enough :
            /\ Cardinality(E) = size
            /\ \A a \in E, b \in enough \ E :
                    TotalValid(sas[a], height) >= TotalValid(sas[b], height)}

elect(i, eid, E) ==
    LET sas == i.accounts[eid - 1]
    IN [i EXCEPT !.accounts[eid - 1] =
            [a \in DOMAIN sas |-> [sas[a] EXCEPT !.Committee = @ \/ a \in E]]]

\* The accounts of epoch prev as they start epoch next.
move(i, prev, next) ==
    LET hh == BeginHeight(next)
        merged == [a \in DOMAIN i.accounts[prev] |-> mergeAccount(i.accounts[prev][a], prev, hh)]
        begin(sa) == [(IF hh >= EffectHeight THEN changeAlterableInfo(sa) ELSE sa)
                        EXCEPT !.Committee = FALSE]
    IN [a \in {x \in DOMAIN merged : isvalid(merged[x])} |-> begin(merged[a])]

\* The epoch before the last rewarded one is gone too.
keptLast(i) ==
    LET minEpoch == GetEpochFromHeight(i.lastReward)
    IN {e \in Epochs(i) : ~(minEpoch > 1 /\ e < minEpoch)}

\* The epochs before the last rewarded one are gone, but for one.
keptEpochs(i) ==
    LET minEpoch == GetEpochFromHeight(i.lastReward)
    IN {e \in Epochs(i) : ~(minEpoch > 1 /\ e < minEpoch - 1)}

Shift(i, eid) ==
    [i EXCEPT !.curEpochID = eid,
              !.accounts = [e \in keptEpochs(i) \cup {eid} |->
                                IF e = eid THEN move(i, eid - 1, eid) ELSE i.accounts[e]]]

=============================================================================
