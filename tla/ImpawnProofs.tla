---------------------------- MODULE ImpawnProofs ----------------------------
(***************************************************************************)
(* What the functions of impawn.go do to the accounts and to the whole     *)
(* structure, for every set of users: each keeps them sound (SoundAccount, *)
(* SoundEpochs, SoundImpawn) and changes what the structure holds for a    *)
(* user by the amount it was called with.                                  *)
(***************************************************************************)
EXTENDS UnitProofs

-----------------------------------------------------------------------------
(* Accounts and the structure                                              *)
(* Held is what the structure holds for a user, summed over all users as   *)
(* stakers.                                                                *)

\* The shape of an account.
IsAccount(sa) ==
  sa = [Unit |-> sa.Unit, Votepubkey |-> sa.Votepubkey, Fee |-> sa.Fee,
        Committee |-> sa.Committee,
        Delegation |-> [d \in DOMAIN sa.Delegation |-> sa.Delegation[d]],
        Modify |-> [Fee |-> sa.Modify.Fee, VotePubkey |-> sa.Modify.VotePubkey]]

\* Its units are sound and its fees in range.
SoundAccount(sa, e, hh) ==
  /\ IsAccount(sa)
  /\ SoundUnit(sa.Unit, e, hh)
  /\ Delegators(sa) \in SUBSET Addrs
  /\ \A d \in Delegators(sa) : SoundUnit(sa.Delegation[d], e, hh)
  /\ sa.Committee \in BOOLEAN /\ sa.Fee \in 0 .. Base /\ sa.Modify.Fee \in 0 .. InvalidFee

\* The accounts of an epoch.
SoundAccounts(acc, e, hh) ==
  /\ acc = [a \in DOMAIN acc |-> acc[a]] /\ DOMAIN acc \in SUBSET Addrs
  /\ \A a \in DOMAIN acc : SoundAccount(acc[a], e, hh)

\* The committee elected in an epoch.
Elected(accs, e) == {a \in DOMAIN accs[e] : accs[e][a].Committee}

\* The epochs from the one before the last rewarded block are there, and the
\* committee of each is among the accounts of the next; whoever is elected in
\* the current one has stake.
SoundEpochs(accs, cur, last, hh) ==
  /\ accs = [e \in DOMAIN accs |-> accs[e]]
  /\ cur = GetEpochFromHeight(hh)
  /\ last \in 0 .. hh - 1
  /\ DOMAIN accs \in SUBSET (0 .. cur)
  /\ \A e \in 0 .. cur : e >= GetEpochFromHeight(last) - 1 => e \in DOMAIN accs
  /\ \A e \in DOMAIN accs : SoundAccounts(accs[e], e, hh)
  /\ \A e \in DOMAIN accs : e + 1 \in DOMAIN accs => Elected(accs, e) \subseteq DOMAIN accs[e + 1]
  /\ \A a \in Elected(accs, cur) : Staked(accs[cur][a].Unit) > 0

\* ImpawnImpl.
Impl(accs, cur, last) == [accounts |-> accs, curEpochID |-> cur, lastReward |-> last]

\* The structure is sound at height hh.
SoundImpawn(i, hh) ==
  /\ i = Impl(i.accounts, i.curEpochID, i.lastReward)
  /\ SoundEpochs(i.accounts, i.curEpochID, i.lastReward, hh)

\* What a user holds as staker,
Own(acc, e, a) == IF a \in DOMAIN acc THEN HoldsIn(acc[a].Unit, e) ELSE 0

\* as delegator of one account,
Part(sa, e, a) == IF a \in Delegators(sa) THEN HoldsIn(sa.Delegation[a], e) ELSE 0

\* of every account,
Parts(acc, e, a) == [s \in Addrs |-> IF s \in DOMAIN acc THEN Part(acc[s], e, a) ELSE 0]

\* and in all.
Held(acc, e, a) == Own(acc, e, a) + Sum(Parts(acc, e, a), Addrs)

\* f is a function.
IsMap(f) == f = [d \in DOMAIN f |-> f[d]]

\* One account set.
Put(acc, b, sa) == [x \in DOMAIN acc \cup {b} |-> IF x = b THEN sa ELSE acc[x]]

\* What the accounts hold for a user is a natural.
LEMMA HeldNat ==
  ASSUME NEW e \in Nat, NEW hh \in Nat, NEW acc, SoundAccounts(acc, e, hh), NEW a \in Addrs
  PROVE  /\ Own(acc, e, a) \in Nat
         /\ \A s \in DOMAIN acc : Part(acc[s], e, a) \in Nat
         /\ \A s \in Addrs : Parts(acc, e, a)[s] \in Nat
         /\ Sum(Parts(acc, e, a), Addrs) \in Nat
         /\ IsFiniteSet(Addrs)
<1>1. ASSUME NEW u, SoundUnit(u, e, hh) PROVE HoldsIn(u, e) \in Nat
  <2>1. WellFormed(u, e, hh)
    BY <1>1 DEF SoundUnit
  <2> QED BY <2>1, RedeemType
<1>2. \A s \in DOMAIN acc : SoundAccount(acc[s], e, hh)
  BY DEF SoundAccounts
<1>3. Own(acc, e, a) \in Nat
  BY <1>1, <1>2 DEF Own, SoundAccount
<1>4. \A s \in DOMAIN acc : Part(acc[s], e, a) \in Nat
  BY <1>1, <1>2 DEF Part, SoundAccount
<1>5. \A s \in Addrs : Parts(acc, e, a)[s] \in Nat
  BY <1>4 DEF Parts
<1>6. IsFiniteSet(Addrs)
  BY AddrsAssumption
<1> QED BY <1>3, <1>4, <1>5, <1>6, SumNat

\* Sound accounts are sound one block later.
LEMMA AccountsLater ==
  ASSUME NEW e \in Nat, NEW hh \in Nat, NEW acc, SoundAccounts(acc, e, hh)
  PROVE  SoundAccounts(acc, e, hh + 1)
BY Later DEF SoundAccounts, SoundAccount

\* A sound account with another fee, key or membership.
LEMMA PutInfo ==
  ASSUME NEW e \in Nat, NEW hh \in Nat, NEW sa, SoundAccount(sa, e, hh), NEW x, IsAccount(x),
         x.Unit = sa.Unit, x.Delegation = sa.Delegation, x.Committee \in BOOLEAN,
         x.Fee \in 0 .. Base, x.Modify.Fee \in 0 .. InvalidFee
  PROVE  SoundAccount(x, e, hh)
BY DEF SoundAccount, Delegators

\* A new account.
Fresh(x, e, hh, v, c) ==
  SoundAccount(x, e, hh) /\ x.Unit = newUnit(hh, v) /\ Delegators(x) = {} /\ x.Committee = c

\* A new account is sound, in the committee or not.
LEMMA NewAccount ==
  ASSUME NEW e \in Nat, NEW hh \in Nat, NEW v \in Nat, NEW pk, NEW fee \in 0 .. Base,
         NEW c \in BOOLEAN
  PROVE  /\ Fresh(newAccount(hh, pk, v, fee), e, hh, v, FALSE)
         /\ Fresh([newAccount(hh, pk, v, fee) EXCEPT !.Committee = c], e, hh, v, c)
<1> DEFINE y == newAccount(hh, pk, v, fee)
           m == IF hh >= EffectHeight THEN InvalidFee ELSE NilFee
           x == [y EXCEPT !.Committee = c]
<1>1. Base \in Nat
  BY EpochAssumption
<1>2. m \in 0 .. InvalidFee
  BY <1>1 DEF InvalidFee, NilFee
<1> HIDE DEF m
<1>3. y = [Unit |-> newUnit(hh, v), Votepubkey |-> pk, Fee |-> fee, Committee |-> FALSE,
           Delegation |-> << >>, Modify |-> [Fee |-> m, VotePubkey |-> NoKey]]
  BY DEF newAccount, m
<1> HIDE DEF y
<1>4. x = [Unit |-> newUnit(hh, v), Votepubkey |-> pk, Fee |-> fee, Committee |-> c,
           Delegation |-> << >>, Modify |-> [Fee |-> m, VotePubkey |-> NoKey]]
  BY <1>3
<1>5. SoundUnit(newUnit(hh, v), e, hh)
  BY NewUnit
<1>6. DOMAIN << >> = {} /\ << >> = [d \in {} |-> << >>[d]]
  OBVIOUS
<1> HIDE DEF x
<1>7. ASSUME NEW z, NEW b \in BOOLEAN,
             z = [Unit |-> newUnit(hh, v), Votepubkey |-> pk, Fee |-> fee, Committee |-> b,
                  Delegation |-> << >>, Modify |-> [Fee |-> m, VotePubkey |-> NoKey]]
      PROVE  Fresh(z, e, hh, v, b)
  <2>1. /\ z.Unit = newUnit(hh, v) /\ Delegators(z) = {} /\ z.Committee = b /\ z.Fee = fee
        /\ z.Modify.Fee = m
    BY <1>6, <1>7 DEF Delegators
  <2>2. IsAccount(z)
    BY <1>6, <1>7 DEF IsAccount
  <2> QED BY <2>1, <2>2, <1>2, <1>5 DEF SoundAccount, Fresh
<1>8. Fresh(x, e, hh, v, c)
  BY <1>4, <1>7
<1>9. Fresh(y, e, hh, v, FALSE)
  BY <1>3, <1>7, Zenon
<1> QED BY <1>8, <1>9, Zenon DEF x, y

\* An account of its seven values.
Account(u, pk, fee, c, f, mf, mk) ==
  [Unit |-> u, Votepubkey |-> pk, Fee |-> fee, Committee |-> c, Delegation |-> f,
   Modify |-> [Fee |-> mf, VotePubkey |-> mk]]

\* An account is a record of its seven values,
LEMMA AccountParts ==
  ASSUME NEW sa, IsAccount(sa)
  PROVE  \E u, pk, fee, c, f, mf, mk :
            /\ IsMap(f)
            /\ sa = Account(u, pk, fee, c, f, mf, mk)
<1> DEFINE f == sa.Delegation
<1>1. IsMap(f)
  BY DEF IsAccount, IsMap
<1>2. sa = Account(sa.Unit, sa.Votepubkey, sa.Fee, sa.Committee, f, sa.Modify.Fee, sa.Modify.VotePubkey)
  BY DEF IsAccount, Account
<1> HIDE DEF f
<1> QED BY <1>1, <1>2

\* and such a record is an account.
LEMMA AccountForm ==
  ASSUME NEW x, NEW u, NEW pk, NEW fee, NEW c, NEW f, IsMap(f), NEW mf, NEW mk,
         x = Account(u, pk, fee, c, f, mf, mk)
  PROVE  /\ IsAccount(x) /\ x.Unit = u /\ x.Votepubkey = pk /\ x.Fee = fee /\ x.Committee = c
         /\ x.Delegation = f /\ x.Modify = [Fee |-> mf, VotePubkey |-> mk]
         /\ x.Modify.Fee = mf /\ x.Modify.VotePubkey = mk
<1>1. /\ x.Unit = u /\ x.Votepubkey = pk /\ x.Fee = fee /\ x.Committee = c
      /\ x.Delegation = f /\ x.Modify = [Fee |-> mf, VotePubkey |-> mk]
      /\ x.Modify.Fee = mf /\ x.Modify.VotePubkey = mk
  BY DEF Account
<1>2. IsAccount(x)
  BY <1>1 DEF IsAccount, Account, IsMap
<1> QED BY <1>1, <1>2

\* move, to the next epoch: the accounts are sound, every user holds what they
\* held, an account with stake is still there and no one is in the committee.
LEMMA Move ==
  ASSUME NEW e \in Nat, NEW hh \in Nat, NEW i, SoundAccounts(i.accounts[e], e, hh),
         BeginHeight(e + 1) = hh + 1
  PROVE  LET acc == i.accounts[e]
             bcc == move(i, e, e + 1)
         IN  /\ SoundAccounts(bcc, e + 1, hh + 1)
             /\ \A a \in Addrs : Held(bcc, e + 1, a) = Held(acc, e, a)
             /\ \A a \in DOMAIN acc : Staked(acc[a].Unit) > 0 => a \in DOMAIN bcc
             /\ \A a \in DOMAIN bcc : bcc[a].Committee = FALSE
<1> DEFINE Merged(sa, m, ee, h) ==
    /\ SoundAccount(m, ee + 1, h + 1)
    /\ m.Unit = merge(sa.Unit, ee, h + 1)
    /\ \A a : Part(m, ee + 1, a) = Part(sa, ee, a)
<1> HIDE DEF Merged
<1> DEFINE Began(sa, h) ==
    [(IF h >= EffectHeight THEN changeAlterableInfo(sa) ELSE sa) EXCEPT !.Committee = FALSE]
<1> HIDE DEF Began
<1> DEFINE Begun(sa, b, ee, h) ==
    /\ SoundAccount(b, ee, h)
    /\ b.Unit = sa.Unit /\ b.Delegation = sa.Delegation /\ b.Committee = FALSE
<1> HIDE DEF Begun
  (* A unit with stake is not dropped.                                       *)
<1>StakedStays. ASSUME NEW u, SoundUnit(u, e, hh), Staked(u) > 0
                PROVE  unitIsValid(merge(u, e, hh + 1))
  <2> USE <1>StakedStays
  <2> DEFINE w == merge(u, e, hh + 1)
  <2> SUFFICES ASSUME ~unitIsValid(w) PROVE FALSE
    OBVIOUS
  <2>1. WellFormed(u, e, hh) /\ e + 1 \in Nat /\ hh + 1 \in Nat
    BY DEF SoundUnit
  <2>2. SoundUnit(w, e + 1, hh + 1) /\ Staked(w) = Staked(u) - getRedeemItem(u, e)
    BY Merge
  <2>3. u = [Value |-> u.Value, RedeemInof |-> u.RedeemInof] /\ Staked(u) \in Nat
    BY <2>1, UnitFacts
  <2>4. w.RedeemInof = u.RedeemInof
    BY <2>3 DEF merge
  <2> HIDE DEF w
  <2>5. Staked(w) = 0
    BY <2>1, <2>2, NotValid
  <2>6. getRedeemItem(u, e) \in Nat
    BY <2>1, RedeemType, Zenon
  <2>7. getRedeemItem(u, e) # 0
    BY <2>2, <2>3, <2>5, <2>6
  <2>8. PICK k \in DOMAIN u.RedeemInof : getRedeemItem(u, e) = redeemAt(u, k)
    BY <2>1, <2>7, OneItem, Zenon
  <2>9. redeemAt(w, k) > 0
    BY <2>4, <2>6, <2>7, <2>8 DEF redeemAt
  <2> QED BY <2>4, <2>9 DEF unitIsValid
<1>Begin. ASSUME NEW d \in Nat, NEW gg \in Nat, NEW sa, SoundAccount(sa, d, gg), NEW h
          PROVE  Begun(sa, Began(sa, h), d, gg)
  <2> USE <1>Begin
  <2> DEFINE c == changeAlterableInfo(sa)
             feeSet == sa.Modify.Fee # InvalidFee /\ sa.Modify.Fee <= Base
             newFee == IF feeSet THEN sa.Modify.Fee ELSE sa.Fee
             pk == IF sa.Modify.VotePubkey # NoKey THEN sa.Modify.VotePubkey ELSE sa.Votepubkey
             mod == IF feeSet THEN InvalidFee ELSE sa.Modify.Fee
  <2>0. Base \in Nat
    BY EpochAssumption
  <2>1. IsAccount(sa) /\ sa.Fee \in 0 .. Base /\ sa.Modify.Fee \in 0 .. InvalidFee
    BY DEF SoundAccount
  <2>2. newFee \in 0 .. Base /\ mod \in 0 .. InvalidFee
    BY <2>0, <2>1 DEF InvalidFee
  <2>3. c = [sa EXCEPT !.Fee = newFee, !.Votepubkey = pk, !.Modify = [Fee |-> mod, VotePubkey |-> NoKey]]
    BY <2>1 DEF changeAlterableInfo
  <2> HIDE DEF newFee, pk, mod, c
  <2>4. /\ IsAccount(c) /\ c.Unit = sa.Unit /\ c.Delegation = sa.Delegation
        /\ c.Fee = newFee /\ c.Modify.Fee = mod
    <3>1. PICK u, ok, fee, k, g, mf, mk :
              IsMap(g) /\ sa = Account(u, ok, fee, k, g, mf, mk)
      BY <2>1, AccountParts
    <3>2. sa.Unit = u /\ sa.Delegation = g
      BY <3>1 DEF Account
    <3>3. c = Account(u, pk, newFee, k, g, mod, NoKey)
      BY <3>1, <2>3, Zenon DEF Account
    <3>4. IsAccount(c)
      BY <3>1, <3>3, AccountForm, Zenon
    <3>5. c.Unit = u /\ c.Delegation = g /\ c.Fee = newFee /\ c.Modify.Fee = mod
      BY <3>3 DEF Account
    <3> QED BY <3>2, <3>4, <3>5
  <2> DEFINE b == IF h >= EffectHeight THEN c ELSE sa
  <2>5. /\ IsAccount(b) /\ b.Unit = sa.Unit /\ b.Delegation = sa.Delegation
        /\ b.Fee \in 0 .. Base /\ b.Modify.Fee \in 0 .. InvalidFee
    BY <2>1, <2>2, <2>4
  <2>6. Began(sa, h) = [b EXCEPT !.Committee = FALSE]
    BY DEF Began, c
  <2> HIDE DEF b
  <2> DEFINE x == Began(sa, h)
  <2> HIDE DEF x
  <2>a. x = [b EXCEPT !.Committee = FALSE]
    BY <2>6 DEF x
  <2>7. /\ IsAccount(x) /\ x.Unit = sa.Unit /\ x.Delegation = sa.Delegation /\ x.Committee = FALSE
        /\ x.Fee \in 0 .. Base /\ x.Modify.Fee \in 0 .. InvalidFee
    <3>1. PICK u, ok, fee, k, g, mf, mk :
              IsMap(g) /\ b = Account(u, ok, fee, k, g, mf, mk)
      BY <2>5, AccountParts
    <3>2. b.Unit = u /\ b.Delegation = g /\ b.Fee = fee /\ b.Modify.Fee = mf
      BY <3>1 DEF Account
    <3>3. x = Account(u, ok, fee, FALSE, g, mf, mk)
      BY <3>1, <2>a, Zenon DEF Account
    <3>4. IsAccount(x)
      BY <3>1, <3>3, AccountForm, Zenon
    <3>5. /\ x.Unit = u /\ x.Delegation = g /\ x.Committee = FALSE
          /\ x.Fee = fee /\ x.Modify.Fee = mf
      BY <3>3 DEF Account
    <3> QED BY <3>2, <3>4, <3>5, <2>5
  <2>8. SoundAccount(x, d, gg)
    BY <2>7, PutInfo, Zenon
  <2> QED BY <2>7, <2>8 DEF x, Begun
<1>MergeAccount. ASSUME NEW sa, SoundAccount(sa, e, hh)
                 PROVE  Merged(sa, mergeAccount(sa, e, hh + 1), e, hh)
  <2> USE <1>MergeAccount
  <2> DEFINE m == mergeAccount(sa, e, hh + 1)
             das == [d \in Delegators(sa) |-> merge(sa.Delegation[d], e, hh + 1)]
             kept == IF hh + 1 >= EffectHeight THEN {d \in DOMAIN das : unitIsValid(das[d])}
                     ELSE DOMAIN das
             f == [d \in kept |-> das[d]]
  <2>0. e + 1 \in Nat /\ hh + 1 \in Nat
    OBVIOUS
  <2>1. IsAccount(sa)
    BY DEF SoundAccount
  <2>2. m = [sa EXCEPT !.Unit = merge(@, e, hh + 1), !.Delegation = f]
    BY DEF mergeAccount
  <2>3. \A d \in Delegators(sa) : /\ SoundUnit(das[d], e + 1, hh + 1)
                                  /\ HoldsIn(das[d], e + 1) = HoldsIn(sa.Delegation[d], e)
    BY Merge DEF SoundAccount
  <2>4. /\ SoundUnit(merge(sa.Unit, e, hh + 1), e + 1, hh + 1)
    BY Merge DEF SoundAccount
  <2>5. kept \subseteq Delegators(sa) /\ DOMAIN f = kept /\ \A d \in kept : f[d] = das[d]
    OBVIOUS
  <2>6. \A d \in Delegators(sa) \ kept : HoldsIn(sa.Delegation[d], e) = 0
    <3> SUFFICES ASSUME NEW d \in Delegators(sa) \ kept PROVE HoldsIn(sa.Delegation[d], e) = 0
      OBVIOUS
    <3>1. ~unitIsValid(das[d])
      OBVIOUS
    <3> HIDE DEF das, kept, f
    <3> QED BY <3>1, <2>0, <2>3, NotValid
  <2>7. f = [d \in kept |-> f[d]]
    BY <2>5
  <2> HIDE DEF das, kept, f, m
  <2>8. /\ IsAccount(m) /\ m.Unit = merge(sa.Unit, e, hh + 1) /\ m.Delegation = f
        /\ m.Committee = sa.Committee /\ m.Fee = sa.Fee /\ m.Modify = sa.Modify
    <3> DEFINE w == merge(sa.Unit, e, hh + 1)
    <3>1. PICK u, pk, fee, c, g, mf, mk :
              IsMap(g) /\ sa = Account(u, pk, fee, c, g, mf, mk)
      BY <2>1, AccountParts
    <3>2. sa.Fee = fee /\ sa.Committee = c /\ sa.Modify = [Fee |-> mf, VotePubkey |-> mk]
      BY <3>1, AccountForm
    <3>3. m = [sa EXCEPT !.Unit = w, !.Delegation = f]
      BY <2>2
    <3> HIDE DEF w
    <3>4. m = Account(w, pk, fee, c, f, mf, mk)
      BY <3>1, <3>3, Zenon DEF Account
    <3>5. IsMap(f)
      BY <2>5, <2>7 DEF IsMap
    <3>6. /\ IsAccount(m) /\ m.Unit = w /\ m.Delegation = f
          /\ m.Committee = c /\ m.Fee = fee /\ m.Modify = [Fee |-> mf, VotePubkey |-> mk]
      BY <3>4, <3>5, AccountForm
    <3> QED BY <3>2, <3>6 DEF w
  <2>9. SoundAccount(m, e + 1, hh + 1)
    BY <2>3, <2>4, <2>5, <2>8 DEF SoundAccount, Delegators
  <2>10. ASSUME NEW a PROVE Part(m, e + 1, a) = Part(sa, e, a)
    BY <2>3, <2>5, <2>6, <2>8 DEF Part, Delegators
  <2> QED BY <2>8, <2>9, <2>10 DEF m, Merged
<1> DEFINE acc == i.accounts[e]
           bcc == move(i, e, e + 1)
           mer == [a \in DOMAIN acc |-> mergeAccount(acc[a], e, hh + 1)]
           stay == {a \in DOMAIN mer : isvalid(mer[a])}
<1>0. e + 1 \in Nat /\ hh + 1 \in Nat
  OBVIOUS
<1>1. bcc = [a \in stay |-> Began(mer[a], hh + 1)]
  BY Zenon DEF move, Began
<1>2. DOMAIN acc \in SUBSET Addrs /\ \A a \in DOMAIN acc : SoundAccount(acc[a], e, hh)
  BY DEF SoundAccounts
<1>3. stay \subseteq DOMAIN acc /\ \A a \in DOMAIN acc : a \notin stay => ~isvalid(mer[a])
  OBVIOUS
<1>4. \A a \in DOMAIN acc : /\ SoundAccount(mer[a], e + 1, hh + 1)
                            /\ mer[a].Unit = merge(acc[a].Unit, e, hh + 1)
                            /\ \A b : Part(mer[a], e + 1, b) = Part(acc[a], e, b)
  <2> SUFFICES ASSUME NEW a \in DOMAIN acc
               PROVE  /\ SoundAccount(mer[a], e + 1, hh + 1)
                      /\ mer[a].Unit = merge(acc[a].Unit, e, hh + 1)
                      /\ \A b : Part(mer[a], e + 1, b) = Part(acc[a], e, b)
    BY Zenon
  <2>1. SoundAccount(acc[a], e, hh) /\ mer[a] = mergeAccount(acc[a], e, hh + 1)
    BY <1>2
  <2> HIDE DEF mer, acc
  <2>2. Merged(acc[a], mer[a], e, hh)
    BY <2>1, <1>MergeAccount
  <2> QED BY <2>2 DEF Merged
<1> HIDE DEF mer, acc, stay, bcc
<1>5. DOMAIN bcc = stay /\ bcc = [a \in DOMAIN bcc |-> bcc[a]]
  BY <1>1
<1>6. \A a \in stay : /\ SoundAccount(bcc[a], e + 1, hh + 1)
                      /\ bcc[a].Unit = mer[a].Unit /\ bcc[a].Delegation = mer[a].Delegation
                      /\ bcc[a].Committee = FALSE
  <2> SUFFICES ASSUME NEW a \in stay
               PROVE  /\ SoundAccount(bcc[a], e + 1, hh + 1)
                      /\ bcc[a].Unit = mer[a].Unit /\ bcc[a].Delegation = mer[a].Delegation
                      /\ bcc[a].Committee = FALSE
    BY Zenon
  <2>1. bcc[a] = Began(mer[a], hh + 1)
    BY <1>1
  <2>2. SoundAccount(mer[a], e + 1, hh + 1)
    BY <1>3, <1>4
  <2>3. Begun(mer[a], Began(mer[a], hh + 1), e + 1, hh + 1)
    BY <2>2, <1>0, <1>Begin
  <2> QED BY <2>1, <2>3 DEF Begun
<1>7. SoundAccounts(bcc, e + 1, hh + 1)
  BY <1>2, <1>3, <1>5, <1>6 DEF SoundAccounts
<1>8. \A a \in DOMAIN acc : HoldsIn(mer[a].Unit, e + 1) = HoldsIn(acc[a].Unit, e)
  <2>1. \A a \in DOMAIN acc : SoundUnit(acc[a].Unit, e, hh)
    BY <1>2 DEF SoundAccount
  <2> QED BY <2>1, <1>4, Merge
<1>9. ASSUME NEW a \in DOMAIN acc, a \notin stay
      PROVE  HoldsIn(acc[a].Unit, e) = 0 /\ \A b : Part(acc[a], e, b) = 0
  <2>1. /\ ~unitIsValid(mer[a].Unit) /\ SoundUnit(mer[a].Unit, e + 1, hh + 1)
        /\ \A b \in Delegators(mer[a]) : /\ ~unitIsValid(mer[a].Delegation[b])
                                         /\ SoundUnit(mer[a].Delegation[b], e + 1, hh + 1)
    BY <1>3, <1>4, <1>9 DEF isvalid, SoundAccount
  <2>2. HoldsIn(mer[a].Unit, e + 1) = 0
    BY <2>1, <1>0, NotValid
  <2>3. \A b \in Delegators(mer[a]) : HoldsIn(mer[a].Delegation[b], e + 1) = 0
    BY <2>1, <1>0, NotValid
  <2>4. \A b : Part(mer[a], e + 1, b) = 0
    BY <2>3 DEF Part
  <2> QED BY <2>2, <2>4, <1>4, <1>8
<1>10. ASSUME NEW a \in Addrs PROVE Held(bcc, e + 1, a) = Held(acc, e, a)
  <2>1. Own(bcc, e + 1, a) = Own(acc, e, a)
    BY <1>3, <1>5, <1>6, <1>8, <1>9 DEF Own
  <2>2. ASSUME NEW s \in Addrs PROVE Parts(bcc, e + 1, a)[s] = Parts(acc, e, a)[s]
    <3>1. CASE s \in stay
      <4>1. Part(bcc[s], e + 1, a) = Part(mer[s], e + 1, a)
        BY <3>1, <1>6 DEF Part, Delegators
      <4>2. Part(mer[s], e + 1, a) = Part(acc[s], e, a)
        BY <3>1, <1>3, <1>4
      <4> QED BY <3>1, <4>1, <4>2, <1>3, <1>5 DEF Parts
    <3>2. CASE s \notin stay
      BY <3>2, <1>5, <1>9 DEF Parts
    <3> QED BY <3>1, <3>2
  <2>3. Parts(bcc, e + 1, a) = Parts(acc, e, a)
    BY <2>2 DEF Parts
  <2> QED BY <2>1, <2>3 DEF Held
<1>11. ASSUME NEW a \in DOMAIN acc, Staked(acc[a].Unit) > 0 PROVE a \in DOMAIN bcc
  <2>1. SoundUnit(acc[a].Unit, e, hh)
    BY <1>2 DEF SoundAccount
  <2>2. unitIsValid(mer[a].Unit)
    BY <2>1, <1>4, <1>11, <1>StakedStays
  <2>3. isvalid(mer[a])
    BY <2>2 DEF isvalid
  <2> QED BY <2>3, <1>3, <1>5
<1> QED BY <1>5, <1>6, <1>7, <1>10, <1>11 DEF acc, bcc

-----------------------------------------------------------------------------
(* Steps of the structure                                                  *)

\* Later blocks are in later epochs.
LEMMA EpochMonotone ==
  ASSUME NEW g \in Nat, NEW h \in Nat, g <= h
  PROVE  /\ GetEpochFromHeight(g) \in Nat /\ GetEpochFromHeight(h) \in Nat
         /\ GetEpochFromHeight(g) <= GetEpochFromHeight(h)
<1> DEFINE d == GetEpochFromHeight(g)
           e == GetEpochFromHeight(h)
           L == NewEpochLength
<1>1. GetEpochFromHeight(0) = 0
  BY DEF GetEpochFromHeight, DposForkPoint, FirstNewEpochID
<1>2. \A x \in Nat : GetEpochFromHeight(x) \in Nat
  BY <1>1, EpochBounds
<1>3. CASE g = 0
  BY <1>1, <1>2, <1>3
<1>4. CASE g # 0
  <2>1. d \in Nat /\ (d - 1) * L < g
    BY <1>4, EpochBounds
  <2>2. e \in Nat /\ h <= e * L
    BY <1>4, EpochBounds
  <2>3. L \in Nat
    BY EpochAssumption
  <2> HIDE DEF d, e, L
  <2>4. (d - 1) * L \in Int /\ e * L \in Int
    BY <2>1, <2>2, <2>3
  <2>5. ASSUME e <= d - 1 PROVE FALSE
    <3>1. e * L <= (d - 1) * L
      BY <2>1, <2>2, <2>3, <2>5, Times
    <3> QED BY <3>1, <2>1, <2>2, <2>4
  <2>6. d <= e
    BY <2>1, <2>2, <2>5
  <2> QED BY <2>6, <1>2 DEF d, e
<1> QED BY <1>3, <1>4

\* What a sound structure gives about the current epoch.
LEMMA SoundFacts ==
  ASSUME NEW hh \in Nat \ {0}, NEW i, SoundImpawn(i, hh)
  PROVE  /\ i.curEpochID \in Nat \ {0} /\ i.curEpochID = GetEpochFromHeight(hh)
         /\ i.lastReward \in Nat /\ i.lastReward < hh /\ hh \in Nat
         /\ i.curEpochID \in Epochs(i) /\ i.curEpochID - 1 \in Epochs(i)
         /\ i.curEpochID \in DOMAIN i.accounts
         /\ SoundAccounts(Current(i), i.curEpochID, hh)
         /\ \A a \in DOMAIN Current(i) : Current(i)[a].Committee => Staked(Current(i)[a].Unit) > 0
         /\ i = Impl(i.accounts, i.curEpochID, i.lastReward)
         /\ i.accounts = [e \in DOMAIN i.accounts |-> i.accounts[e]]
<1> DEFINE cur == i.curEpochID
           last == i.lastReward
           accs == i.accounts
<1>1. SoundEpochs(accs, cur, last, hh) /\ i = Impl(accs, cur, last)
  BY DEF SoundImpawn
<1>2. cur \in Nat \ {0} /\ cur = GetEpochFromHeight(hh) /\ last \in 0 .. hh - 1
  BY <1>1, EpochBounds DEF SoundEpochs
<1>3. last \in Nat /\ last < hh /\ last <= hh
  BY <1>2
<1>4. GetEpochFromHeight(last) <= cur /\ GetEpochFromHeight(last) \in Nat
  BY <1>2, <1>3, EpochMonotone
<1>5. cur \in DOMAIN accs /\ cur - 1 \in DOMAIN accs
  BY <1>1, <1>2, <1>4 DEF SoundEpochs
<1>6. SoundAccounts(accs[cur], cur, hh) /\ \A a \in Elected(accs, cur) : Staked(accs[cur][a].Unit) > 0
  BY <1>1, <1>5 DEF SoundEpochs
<1>7. accs = [e \in DOMAIN accs |-> accs[e]]
  BY <1>1 DEF SoundEpochs
<1> HIDE DEF cur, last, accs
<1>8. /\ Current(i) = accs[cur] /\ Epochs(i) = DOMAIN accs
  BY DEF Current, Epochs, accs, cur
<1>9. \A a \in DOMAIN Current(i) : Current(i)[a].Committee => Staked(Current(i)[a].Unit) > 0
  BY <1>6, <1>8 DEF Elected
<1> QED BY <1>1, <1>2, <1>3, <1>5, <1>6, <1>7, <1>8, <1>9 DEF cur, last, accs

\* Other accounts in the current epoch.
Replaced(i, acc) == Impl([i.accounts EXCEPT ![i.curEpochID] = acc], i.curEpochID, i.lastReward)

\* The same for the structure.
LEMMA Replace ==
  ASSUME NEW hh \in Nat \ {0}, NEW i, SoundImpawn(i, hh),
         NEW acc, SoundAccounts(acc, i.curEpochID, hh), DOMAIN Current(i) \subseteq DOMAIN acc,
         \A a \in DOMAIN acc : acc[a].Committee => Staked(acc[a].Unit) > 0,
         NEW j, j = Replaced(i, acc)
  PROVE  /\ SoundImpawn(j, hh) /\ Current(j) = acc
         /\ j.curEpochID = i.curEpochID /\ j.lastReward = i.lastReward
  (* The accounts of the current epoch are replaced.                         *)
<1>SetCurrent. ASSUME NEW accs, NEW cur, NEW last, SoundEpochs(accs, cur, last, hh),
                      SoundAccounts(acc, cur, hh), DOMAIN accs[cur] \subseteq DOMAIN acc,
                      \A a \in DOMAIN acc : acc[a].Committee => Staked(acc[a].Unit) > 0
               PROVE  /\ SoundEpochs([accs EXCEPT ![cur] = acc], cur, last, hh)
                      /\ [accs EXCEPT ![cur] = acc][cur] = acc
  <2> USE <1>SetCurrent
  <2> DEFINE bccs == [accs EXCEPT ![cur] = acc]
  <2>1. /\ accs = [e \in DOMAIN accs |-> accs[e]] /\ cur \in Nat /\ cur = GetEpochFromHeight(hh)
        /\ last \in 0 .. hh - 1 /\ GetEpochFromHeight(last) <= cur /\ GetEpochFromHeight(last) \in Nat
    <3>1. /\ accs = [e \in DOMAIN accs |-> accs[e]] /\ cur = GetEpochFromHeight(hh)
          /\ last \in 0 .. hh - 1
      BY DEF SoundEpochs
    <3>2. last \in Nat /\ last <= hh
      BY <3>1
    <3> QED BY <3>1, <3>2, EpochMonotone
  <2>2. cur \in DOMAIN accs
    BY <2>1 DEF SoundEpochs
  <2>3. /\ DOMAIN bccs = DOMAIN accs /\ bccs[cur] = acc /\ \A e \in DOMAIN accs \ {cur} : bccs[e] = accs[e]
        /\ bccs = [e \in DOMAIN bccs |-> bccs[e]]
    BY <2>1, <2>2
  <2> HIDE DEF bccs
  <2>4. \A e \in DOMAIN bccs : SoundAccounts(bccs[e], e, hh)
    BY <2>3 DEF SoundEpochs
  <2>5. ASSUME NEW e \in DOMAIN bccs, e + 1 \in DOMAIN bccs
        PROVE  Elected(bccs, e) \subseteq DOMAIN bccs[e + 1]
    <3>1. e # cur
      BY <2>1, <2>3, <2>5 DEF SoundEpochs
    <3>2. Elected(bccs, e) = Elected(accs, e)
      BY <3>1, <2>3 DEF Elected
    <3>3. Elected(accs, e) \subseteq DOMAIN accs[e + 1]
      BY <2>3, <2>5 DEF SoundEpochs
    <3>4. DOMAIN accs[e + 1] \subseteq DOMAIN bccs[e + 1]
      BY <2>3, <2>5
    <3> QED BY <3>2, <3>3, <3>4
  <2>6. \A a \in Elected(bccs, cur) : Staked(bccs[cur][a].Unit) > 0
    BY <2>3 DEF Elected
  <2>7. SoundEpochs(bccs, cur, last, hh)
    BY <2>3, <2>4, <2>5, <2>6 DEF SoundEpochs
  <2> QED BY <2>3, <2>7 DEF bccs
<1> DEFINE cur == i.curEpochID
           last == i.lastReward
           accs == i.accounts
           bccs == [accs EXCEPT ![cur] = acc]
<1>1. SoundEpochs(accs, cur, last, hh) /\ DOMAIN accs[cur] \subseteq DOMAIN acc
  BY DEF SoundImpawn, Current
<1> HIDE DEF cur, last, accs
<1>2. SoundEpochs(bccs, cur, last, hh) /\ bccs[cur] = acc
  BY <1>1, <1>SetCurrent DEF cur
<1> HIDE DEF bccs
<1>3. j = Impl(bccs, cur, last)
  BY DEF Replaced, accs, cur, last, bccs
<1>4. j.accounts = bccs /\ j.curEpochID = cur /\ j.lastReward = last
  BY <1>3 DEF Impl
<1>5. SoundImpawn(j, hh)
  BY <1>2, <1>3, <1>4 DEF SoundImpawn
<1> QED BY <1>2, <1>4, <1>5 DEF Current, cur, last

\* setAccount, of any structure.
SetAcc(i, b, sa) ==
  [i EXCEPT !.accounts[i.curEpochID] = [x \in DOMAIN @ \cup {b} |-> IF x = b THEN sa ELSE @[x]]]

\* The step from i to j changes what b holds by v.
Moved(i, j, hh, b, v) ==
  /\ SoundImpawn(j, hh) /\ j.curEpochID = i.curEpochID
  /\ \A a \in Addrs : Held(Current(j), i.curEpochID, a) =
                        Held(Current(i), i.curEpochID, a) + (IF a = b THEN v ELSE 0)

\* What a gains when the account of b becomes sa.
Gain(acc, e, b, sa, a) ==
  (IF a = b THEN HoldsIn(sa.Unit, e) - Own(acc, e, b) ELSE 0) + (Part(sa, e, a) - Parts(acc, e, a)[b])

\* A call that sets one account moves v coins of c if only c gains, and v.
LEMMA CallStep ==
  ASSUME NEW hh \in Nat \ {0}, NEW i, SoundImpawn(i, hh), NEW b \in Addrs, NEW sa,
         SoundAccount(sa, i.curEpochID, hh), sa.Committee => Staked(sa.Unit) > 0, NEW c, NEW v,
         \A a \in Addrs : Gain(Current(i), i.curEpochID, b, sa, a) = IF a = c THEN v ELSE 0
  PROVE  Moved(i, SetAcc(i, b, sa), hh, c, v)
<1>SetAccIs. ASSUME SoundImpawn(i, hh)
             PROVE  SetAcc(i, b, sa) = Replaced(i, Put(Current(i), b, sa))
  <2> USE <1>SetAccIs
  <2> DEFINE cur == i.curEpochID
             last == i.lastReward
             accs == i.accounts
             new == Put(accs[cur], b, sa)
  <2>1. i = Impl(accs, cur, last) /\ cur \in DOMAIN accs /\ accs = [e \in DOMAIN accs |-> accs[e]]
    BY SoundFacts, Zenon
  <2>2. SetAcc(i, b, sa) = [i EXCEPT !.accounts = [accs EXCEPT ![cur] = new]]
    BY DEF SetAcc, Put
  <2> HIDE DEF accs, cur, last, new
  <2>3. [i EXCEPT !.accounts = [accs EXCEPT ![cur] = new]] = Impl([accs EXCEPT ![cur] = new], cur, last)
    BY <2>1 DEF Impl
  <2> QED BY <2>2, <2>3 DEF Replaced, Current, accs, cur, last, new
<1>HeldPut. ASSUME NEW e \in Nat, NEW acc, SoundAccounts(acc, e, hh), SoundAccount(sa, e, hh)
            PROVE  /\ SoundAccounts(Put(acc, b, sa), e, hh)
                   /\ \A a \in Addrs :
                        Held(Put(acc, b, sa), e, a) = Held(acc, e, a) + Gain(acc, e, b, sa, a)
  <2> USE <1>HeldPut
  <2> DEFINE bcc == Put(acc, b, sa)
  <2>1. /\ DOMAIN bcc = DOMAIN acc \cup {b} /\ bcc[b] = sa
        /\ \A s \in DOMAIN acc \ {b} : bcc[s] = acc[s]
        /\ bcc = [x \in DOMAIN bcc |-> bcc[x]]
    BY DEF Put
  <2> HIDE DEF bcc
  <2>2. SoundAccounts(bcc, e, hh)
    BY <2>1 DEF SoundAccounts
  <2>3. ASSUME NEW a \in Addrs
        PROVE  Held(bcc, e, a) = Held(acc, e, a) + Gain(acc, e, b, sa, a)
    <3> DEFINE f == Parts(acc, e, a)
               g == Parts(bcc, e, a)
               w == Part(sa, e, a) - f[b]
    <3>1. /\ Own(acc, e, a) \in Nat /\ Own(acc, e, b) \in Nat
          /\ (\A s \in Addrs : f[s] \in Nat) /\ Sum(f, Addrs) \in Nat /\ IsFiniteSet(Addrs)
      BY HeldNat
    <3>2. Own(bcc, e, a) \in Nat /\ Part(bcc[b], e, a) \in Nat
      BY <2>1, <2>2, HeldNat
    <3>3. g[b] = Part(sa, e, a) /\ Part(sa, e, a) \in Nat
      BY <2>1, <3>2 DEF Parts
    <3>4. \A s \in Addrs \ {b} : g[s] = f[s]
      BY <2>1 DEF Parts
    <3>5. Gain(acc, e, b, sa, a) = (IF a = b THEN HoldsIn(sa.Unit, e) - Own(acc, e, b) ELSE 0) + w
      BY DEF Gain
    <3> HIDE DEF f, g
    <3>6. w \in Int /\ g[b] = f[b] + w /\ \A s \in Addrs : f[s] \in Int
      BY <3>1, <3>3
    <3> HIDE DEF w
    <3>7. Sum(g, Addrs) = Sum(f, Addrs) + w
      BY <3>1, <3>4, <3>6, SumUpdate
    <3>8. Own(bcc, e, a) = IF a = b THEN HoldsIn(sa.Unit, e) ELSE Own(acc, e, a)
      BY <2>1 DEF Own
    <3>9. Held(bcc, e, a) = Own(bcc, e, a) + Sum(g, Addrs) /\ Held(acc, e, a) = Own(acc, e, a) + Sum(f, Addrs)
      BY SMTT(60) DEF Held, f, g
    <3> USE <3>1, <3>2, <3>5, <3>6, <3>7, <3>8, <3>9
    <3>10. CASE a = b
      BY <3>10
    <3>11. CASE a # b
      BY <3>11
    <3> QED BY <3>10, <3>11
  <2> QED BY <2>2, <2>3 DEF bcc
<1> DEFINE e == i.curEpochID
           acc == Current(i)
           bcc == Put(acc, b, sa)
           j == SetAcc(i, b, sa)
<1>1. /\ e \in Nat /\ hh \in Nat /\ SoundAccounts(acc, e, hh)
      /\ \A a \in DOMAIN acc : acc[a].Committee => Staked(acc[a].Unit) > 0
  BY SoundFacts, Zenon
<1> HIDE DEF e, acc
<1>2. /\ SoundAccounts(bcc, e, hh)
      /\ \A a \in Addrs : Held(bcc, e, a) = Held(acc, e, a) + Gain(acc, e, b, sa, a)
  BY <1>1, <1>HeldPut DEF e
<1>3. /\ DOMAIN acc \subseteq DOMAIN bcc
      /\ \A a \in DOMAIN bcc : bcc[a].Committee => Staked(bcc[a].Unit) > 0
  BY <1>1 DEF Put
<1>4. j = Replaced(i, bcc)
  BY <1>SetAccIs DEF acc
<1> HIDE DEF bcc, j
<1>5. SoundImpawn(j, hh) /\ Current(j) = bcc /\ j.curEpochID = e
  BY <1>2, <1>3, <1>4, Replace DEF acc, e
<1>6. \A a \in Addrs : Held(Current(j), e, a) = Held(acc, e, a) + (IF a = c THEN v ELSE 0)
  BY <1>2, <1>5 DEF e, acc
<1> QED BY <1>5, <1>6 DEF Moved, e, acc, j

\* What users hold in a sound structure is a natural.
LEMMA HeldType ==
  ASSUME NEW hh \in Nat \ {0}, NEW i, SoundImpawn(i, hh), NEW a \in Addrs
  PROVE  LET e == i.curEpochID
             acc == Current(i)
         IN  /\ Held(acc, e, a) \in Nat /\ Own(acc, e, a) \in Nat
             /\ \A s \in Addrs : Parts(acc, e, a)[s] \in Nat
<1> DEFINE e == i.curEpochID
           acc == Current(i)
<1>1. e \in Nat /\ hh \in Nat /\ SoundAccounts(acc, e, hh)
  BY SoundFacts, Zenon
<1> HIDE DEF e, acc
<1>2. /\ Own(acc, e, a) \in Nat /\ Sum(Parts(acc, e, a), Addrs) \in Nat
      /\ \A s \in Addrs : Parts(acc, e, a)[s] \in Nat
  BY <1>1, HeldNat
<1>3. Held(acc, e, a) \in Nat
  BY <1>2 DEF Held
<1> QED BY <1>2, <1>3 DEF e, acc

\* A change of the account's own unit by v changes what its owner holds by v,
\* and nobody else's.
LEMMA UnitStep ==
  ASSUME NEW hh \in Nat \ {0}, NEW i, SoundImpawn(i, hh), NEW b \in DOMAIN Current(i),
         NEW u, SoundUnit(u, i.curEpochID, hh), NEW v \in Int,
         HoldsIn(u, i.curEpochID) = HoldsIn(Current(i)[b].Unit, i.curEpochID) + v,
         Staked(u) >= Staked(Current(i)[b].Unit)
  PROVE  Moved(i, SetAcc(i, b, [Current(i)[b] EXCEPT !.Unit = u]), hh, b, v)
  (* An account with another unit, another delegation or other information.  *)
<1>PutUnit. ASSUME NEW e \in Nat, NEW sa, SoundAccount(sa, e, hh), SoundUnit(u, e, hh)
            PROVE  LET x == [sa EXCEPT !.Unit = u]
                   IN  /\ SoundAccount(x, e, hh) /\ x.Unit = u /\ x.Delegation = sa.Delegation
                       /\ x.Committee = sa.Committee
  <2> USE <1>PutUnit
  <2> DEFINE x == [sa EXCEPT !.Unit = u]
  <2>1. IsAccount(sa)
    BY DEF SoundAccount
  <2>2. /\ IsAccount(x) /\ x.Unit = u /\ x.Delegation = sa.Delegation /\ x.Committee = sa.Committee
        /\ x.Fee = sa.Fee /\ x.Modify = sa.Modify
    BY <2>1 DEF IsAccount
  <2> HIDE DEF x
  <2>3. SoundAccount(x, e, hh)
    BY <2>2 DEF SoundAccount, Delegators
  <2> QED BY <2>2, <2>3 DEF x
<1> DEFINE e == i.curEpochID
           acc == Current(i)
           sa == [acc[b] EXCEPT !.Unit = u]
<1>1. /\ e \in Nat /\ hh \in Nat /\ SoundAccounts(acc, e, hh)
      /\ \A a \in DOMAIN acc : acc[a].Committee => Staked(acc[a].Unit) > 0
  BY SoundFacts, Zenon
<1>2. SoundAccount(acc[b], e, hh) /\ b \in Addrs
  BY <1>1 DEF SoundAccounts
<1>a. /\ HoldsIn(u, e) = HoldsIn(acc[b].Unit, e) + v
      /\ Staked(u) >= Staked(acc[b].Unit) /\ SoundUnit(u, e, hh)
  OBVIOUS
<1>b. b \in DOMAIN acc
  OBVIOUS
<1> HIDE DEF e, acc
<1>3. /\ SoundAccount(sa, e, hh) /\ sa.Unit = u /\ sa.Delegation = acc[b].Delegation
      /\ sa.Committee = acc[b].Committee
  BY <1>1, <1>2, <1>a, <1>PutUnit
<1> HIDE DEF sa
<1>4. Staked(u) \in Nat /\ Staked(acc[b].Unit) \in Nat /\ HoldsIn(acc[b].Unit, e) \in Nat
  BY <1>1, <1>2, <1>a, UnitFacts, RedeemType, SMTT(60) DEF SoundUnit, SoundAccount
<1>5. sa.Committee => Staked(sa.Unit) > 0
  <2>1. sa.Committee => Staked(acc[b].Unit) > 0
    BY <1>1, <1>3, <1>b, ZenonT(60)
  <2> QED BY <2>1, <1>3, <1>4, <1>a
<1>6. ASSUME NEW a \in Addrs
      PROVE  Gain(acc, e, b, sa, a) = IF a = b THEN v ELSE 0
  <2>1. Parts(acc, e, a)[b] = Part(sa, e, a)
    BY <1>2, <1>3, <1>b DEF Parts, Part, Delegators
  <2>2. Own(acc, e, b) = HoldsIn(acc[b].Unit, e)
    BY <1>b DEF Own
  <2>3. Parts(acc, e, a)[b] \in Nat
    BY <1>2, HeldType DEF e, acc
  <2> QED BY <2>1, <2>2, <2>3, <1>3, <1>4, <1>a, SMTT(60) DEF Gain
<1> QED BY <1>2, <1>3, <1>5, <1>6, CallStep, Zenon DEF e, acc, sa

\* f is the delegations of sa with u for d.
Extended(sa, d, u, f) ==
  f = [x \in Delegators(sa) \cup {d} |-> IF x = d THEN u ELSE sa.Delegation[x]]

\* A change of one delegation by v, or a new one, changes what the delegator
\* holds by v.
LEMMA DelegationStep ==
  ASSUME NEW hh \in Nat \ {0}, NEW i, SoundImpawn(i, hh), NEW b \in DOMAIN Current(i),
         NEW d \in Addrs, NEW u, SoundUnit(u, i.curEpochID, hh), NEW v \in Int,
         HoldsIn(u, i.curEpochID) = Part(Current(i)[b], i.curEpochID, d) + v,
         NEW f, Extended(Current(i)[b], d, u, f)
  PROVE  Moved(i, SetAcc(i, b, [Current(i)[b] EXCEPT !.Delegation = f]), hh, d, v)
<1>PutDelegation. ASSUME NEW e \in Nat, NEW sa, SoundAccount(sa, e, hh),
                         IsMap(f), DOMAIN f \in SUBSET Addrs, \A s \in DOMAIN f : SoundUnit(f[s], e, hh),
                         NEW x, x = [sa EXCEPT !.Delegation = f]
                  PROVE  /\ SoundAccount(x, e, hh) /\ x.Unit = sa.Unit /\ x.Delegation = f
                         /\ x.Committee = sa.Committee
  <2> USE <1>PutDelegation
  <2>1. IsAccount(sa)
    BY DEF SoundAccount
  <2>2. /\ IsAccount(x) /\ x.Unit = sa.Unit /\ x.Delegation = f /\ x.Committee = sa.Committee
        /\ x.Fee = sa.Fee /\ x.Modify = sa.Modify
    BY <2>1 DEF IsAccount, IsMap
  <2>3. SoundAccount(x, e, hh)
    BY <2>2 DEF SoundAccount, Delegators
  <2> QED BY <2>2, <2>3
<1> DEFINE e == i.curEpochID
           acc == Current(i)
           sa == [acc[b] EXCEPT !.Delegation = f]
           D == Delegators(acc[b]) \cup {d}
<1>1. /\ e \in Nat /\ hh \in Nat /\ SoundAccounts(acc, e, hh)
      /\ \A a \in DOMAIN acc : acc[a].Committee => Staked(acc[a].Unit) > 0
  BY SoundFacts, Zenon
<1>2. SoundAccount(acc[b], e, hh) /\ b \in Addrs
  BY <1>1 DEF SoundAccounts
<1>a. /\ HoldsIn(u, e) = Part(acc[b], e, d) + v /\ SoundUnit(u, e, hh)
      /\ f = [x \in D |-> IF x = d THEN u ELSE acc[b].Delegation[x]]
  BY DEF Extended
<1>b. b \in DOMAIN acc
  OBVIOUS
<1>c. DOMAIN f = D /\ f = [x \in D |-> f[x]] /\ f[d] = u /\ \A x \in D \ {d} : f[x] = acc[b].Delegation[x]
  BY <1>a, SMTT(60)
<1>d. D \in SUBSET Addrs /\ \A x \in D : SoundUnit(f[x], e, hh)
  BY <1>2, <1>a, <1>c DEF SoundAccount
<1> HIDE DEF e, acc
<1>3. /\ SoundAccount(sa, e, hh) /\ sa.Unit = acc[b].Unit /\ sa.Delegation = f
      /\ sa.Committee = acc[b].Committee
  <2>1. IsMap(f) /\ DOMAIN f \in SUBSET Addrs /\ \A x \in DOMAIN f : SoundUnit(f[x], e, hh)
    BY <1>c, <1>d, SMTT(60) DEF IsMap
  <2>2. sa = [acc[b] EXCEPT !.Delegation = f]
    OBVIOUS
  <2> HIDE DEF D, sa
  <2> QED BY <2>1, <2>2, <1>1, <1>2, <1>PutDelegation
<1> HIDE DEF sa
<1>5. sa.Committee => Staked(sa.Unit) > 0
  BY <1>1, <1>3, <1>b, Zenon
<1>6. ASSUME NEW a \in Addrs
      PROVE  Gain(acc, e, b, sa, a) = IF a = d THEN v ELSE 0
  <2>1. Parts(acc, e, a)[b] = Part(acc[b], e, a)
    BY <1>2, <1>b, SMTT(60) DEF Parts
  <2>2. Parts(acc, e, a)[b] \in Nat /\ Own(acc, e, b) \in Nat
    BY <1>2, HeldType DEF e, acc
  <2>3. Part(sa, e, a) - Part(acc[b], e, a) = IF a = d THEN v ELSE 0
    <3>1. CASE a = d
      <4>1. Part(sa, e, a) = Part(acc[b], e, a) + v
        BY <3>1, <1>3, <1>a, <1>c, ZenonT(60) DEF Part, Delegators
      <4> QED BY <3>1, <4>1, <2>1, <2>2
    <3>2. CASE a # d
      <4>1. Part(sa, e, a) = Part(acc[b], e, a)
        BY <3>2, <1>3, <1>c, SMTT(60) DEF Part, Delegators
      <4> QED BY <3>2, <4>1, <2>1, <2>2
    <3> QED BY <3>1, <3>2
  <2>4. HoldsIn(sa.Unit, e) = Own(acc, e, b)
    BY <1>3, <1>b DEF Own
  <2> QED BY <2>1, <2>2, <2>3, <2>4 DEF Gain
<1> QED BY <1>2, <1>3, <1>5, <1>6, CallStep, Zenon DEF e, acc, sa

\* A change of fee or key changes nothing held.
LEMMA InfoStep ==
  ASSUME NEW hh \in Nat \ {0}, NEW i, SoundImpawn(i, hh), NEW b \in DOMAIN Current(i), NEW sa,
         SoundAccount(sa, i.curEpochID, hh), sa.Unit = Current(i)[b].Unit,
         sa.Delegation = Current(i)[b].Delegation, sa.Committee = Current(i)[b].Committee
  PROVE  Moved(i, SetAcc(i, b, sa), hh, b, 0)
<1> DEFINE e == i.curEpochID
           acc == Current(i)
<1>1. /\ e \in Nat /\ hh \in Nat /\ SoundAccounts(acc, e, hh)
      /\ \A a \in DOMAIN acc : acc[a].Committee => Staked(acc[a].Unit) > 0
  BY SoundFacts, Zenon
<1>2. b \in Addrs /\ b \in DOMAIN acc
  BY <1>1 DEF SoundAccounts
<1>3. sa.Committee => Staked(sa.Unit) > 0
  BY <1>1, <1>2, Zenon
<1>4. ASSUME NEW a \in Addrs
      PROVE  Gain(acc, e, b, sa, a) = IF a = b THEN 0 ELSE 0
  <2>1. Parts(acc, e, a)[b] = Part(sa, e, a)
    BY <1>2 DEF Parts, Part, Delegators
  <2>2. Own(acc, e, b) = HoldsIn(sa.Unit, e)
    BY <1>2 DEF Own
  <2>3. Parts(acc, e, a)[b] \in Nat /\ Own(acc, e, b) \in Nat
    BY <1>2, HeldType
  <2> HIDE DEF e, acc
  <2> QED BY <2>1, <2>2, <2>3 DEF Gain
<1> QED BY <1>2, <1>3, <1>4, CallStep

\* A new account adds its stake to what its owner holds.
LEMMA NewStep ==
  ASSUME NEW hh \in Nat \ {0}, NEW i, SoundImpawn(i, hh), NEW b \in Addrs, b \notin DOMAIN Current(i),
         NEW pk, NEW v \in Nat, NEW fee \in 0 .. Base
  PROVE  Moved(i, SetAcc(i, b, newAccount(hh, pk, v, fee)), hh, b, v)
<1> DEFINE e == i.curEpochID
           acc == Current(i)
           sa == newAccount(hh, pk, v, fee)
<1>1. e \in Nat /\ hh \in Nat /\ SoundAccounts(acc, e, hh)
  BY SoundFacts, Zenon
<1>2. b \in Addrs /\ b \notin DOMAIN acc
  OBVIOUS
<1> HIDE DEF e, acc
<1>3. /\ SoundAccount(sa, e, hh) /\ sa.Unit = newUnit(hh, v) /\ Delegators(sa) = {} /\ sa.Committee = FALSE
  <2>1. Fresh(sa, e, hh, v, FALSE)
    <3>1. FALSE \in BOOLEAN
      OBVIOUS
    <3> QED BY <3>1, <1>1, NewAccount, Zenon
  <2> QED BY <2>1 DEF Fresh
<1> HIDE DEF sa
<1>4. HoldsIn(sa.Unit, e) = v
  BY <1>1, <1>3, NewUnit
<1>5. sa.Committee => Staked(sa.Unit) > 0
  BY <1>3
<1>6. ASSUME NEW a \in Addrs
      PROVE  Gain(acc, e, b, sa, a) = IF a = b THEN v ELSE 0
  <2>1. Parts(acc, e, a)[b] = 0 /\ Part(sa, e, a) = 0
    BY <1>2, <1>3 DEF Parts, Part
  <2>2. Own(acc, e, b) = 0
    BY <1>2 DEF Own
  <2> QED BY <2>1, <2>2, <1>4 DEF Gain
<1> QED BY <1>3, <1>5, <1>6, CallStep DEF e, acc, sa

\* The step from i to j changes nothing held.
Kept(i, j, hh) ==
  /\ SoundImpawn(j, hh) /\ j.curEpochID = i.curEpochID
  /\ \A a \in Addrs : Held(Current(j), i.curEpochID, a) = Held(Current(i), i.curEpochID, a)

\* The accounts acc have the units and delegations of the current ones.
Remapped(i, acc, hh) ==
  /\ DOMAIN acc = DOMAIN Current(i) /\ IsMap(acc)
  /\ \A a \in DOMAIN acc : /\ SoundAccount(acc[a], i.curEpochID, hh)
                           /\ acc[a].Unit = Current(i)[a].Unit
                           /\ acc[a].Delegation = Current(i)[a].Delegation
                           /\ acc[a].Committee => Staked(acc[a].Unit) > 0

\* Changes of fees, keys or membership of all accounts keep what is held.
LEMMA MapStep ==
  ASSUME NEW hh \in Nat \ {0}, NEW i, SoundImpawn(i, hh), NEW acc, Remapped(i, acc, hh),
         NEW j, j = Replaced(i, acc)
  PROVE  Kept(i, j, hh) /\ j.lastReward = i.lastReward
<1>HeldSame. ASSUME NEW bcc, NEW e, NEW a, DOMAIN bcc = DOMAIN acc,
                    \A s \in DOMAIN acc : bcc[s].Unit = acc[s].Unit /\ bcc[s].Delegation = acc[s].Delegation
             PROVE  Held(bcc, e, a) = Held(acc, e, a)
  <2> USE <1>HeldSame
  <2>1. Own(bcc, e, a) = Own(acc, e, a)
    BY DEF Own
  <2>2. \A s \in DOMAIN acc : Part(bcc[s], e, a) = Part(acc[s], e, a)
    BY DEF Part, Delegators
  <2>3. Parts(bcc, e, a) = Parts(acc, e, a)
    BY <2>2 DEF Parts
  <2> QED BY <2>1, <2>3 DEF Held
<1>1. SoundAccounts(Current(i), i.curEpochID, hh)
  BY SoundFacts, Zenon
<1>2. SoundAccounts(acc, i.curEpochID, hh)
  BY <1>1 DEF SoundAccounts, Remapped, IsMap
<1>3. DOMAIN Current(i) \subseteq DOMAIN acc /\ \A a \in DOMAIN acc : acc[a].Committee => Staked(acc[a].Unit) > 0
  BY DEF Remapped
<1>4. SoundImpawn(j, hh) /\ Current(j) = acc /\ j.curEpochID = i.curEpochID /\ j.lastReward = i.lastReward
  BY <1>2, <1>3, Replace
<1>5. ASSUME NEW a \in Addrs PROVE Held(acc, i.curEpochID, a) = Held(Current(i), i.curEpochID, a)
  <2>1. /\ DOMAIN acc = DOMAIN Current(i)
        /\ \A s \in DOMAIN Current(i) : /\ acc[s].Unit = Current(i)[s].Unit
                                        /\ acc[s].Delegation = Current(i)[s].Delegation
    BY DEF Remapped
  <2> QED BY <2>1, <1>HeldSame
<1> QED BY <1>4, <1>5 DEF Kept

\* MakeModifyStateByTip10 at EffectHeight.
Tip10(i) ==
  [i EXCEPT !.accounts[i.curEpochID] = [a \in DOMAIN @ |-> makeModifyStateByTip10(@[a])]]

\* and of all accounts of the current epoch.
LEMMA Tip10Step ==
  ASSUME NEW hh \in Nat \ {0}, NEW i, SoundImpawn(i, hh), NEW j, j = Tip10(i)
  PROVE  Kept(i, j, hh) /\ j.lastReward = i.lastReward
  (* TIP10 resets the pending changes of the accounts.                       *)
<1>Tip10Account. ASSUME NEW e \in Nat, NEW sa, SoundAccount(sa, e, hh),
                        NEW x, x = makeModifyStateByTip10(sa)
                 PROVE  /\ SoundAccount(x, e, hh)
                        /\ x.Unit = sa.Unit /\ x.Delegation = sa.Delegation /\ x.Committee = sa.Committee
  <2> USE <1>Tip10Account
  <2>1. CASE sa.Modify.Fee = NilFee
    <3>0. Base \in Nat
      BY EpochAssumption
    <3>1. x = [sa EXCEPT !.Modify = [Fee |-> InvalidFee, VotePubkey |-> NoKey]]
      BY <2>1 DEF makeModifyStateByTip10
    <3>a. IsAccount(sa) /\ sa.Fee \in 0 .. Base /\ sa.Committee \in BOOLEAN
      BY DEF SoundAccount
    <3>2. PICK u, pk, fee, c, g, mf, mk : IsMap(g) /\ sa = Account(u, pk, fee, c, g, mf, mk)
      BY <3>a, AccountParts
    <3>3. x = Account(u, pk, fee, c, g, InvalidFee, NoKey)
      BY <3>1, <3>2 DEF Account
    <3>4. IsAccount(x)
      BY <3>2, <3>3, AccountForm, Zenon
    <3>5. /\ x.Unit = u /\ x.Delegation = g /\ x.Committee = c /\ x.Fee = fee
          /\ x.Modify.Fee = InvalidFee
      BY <3>3 DEF Account
    <3>6. sa.Unit = u /\ sa.Delegation = g /\ sa.Committee = c /\ sa.Fee = fee
      BY <3>2 DEF Account
    <3>7. x.Modify.Fee \in 0 .. InvalidFee
      BY <3>0, <3>5 DEF InvalidFee
    <3>8. x.Unit = sa.Unit /\ x.Delegation = sa.Delegation /\ x.Committee = sa.Committee /\ x.Fee = sa.Fee
      BY <3>5, <3>6
    <3>9. SoundAccount(x, e, hh)
      BY <3>a, <3>4, <3>7, <3>8, PutInfo
    <3> QED BY <3>8, <3>9
  <2>2. CASE sa.Modify.Fee # NilFee
    BY <2>2, SMTT(60) DEF makeModifyStateByTip10
  <2> QED BY <2>1, <2>2
<1> DEFINE cur == i.curEpochID
           last == i.lastReward
           accs == i.accounts
           acc == [a \in DOMAIN accs[cur] |-> makeModifyStateByTip10(accs[cur][a])]
<1>1. /\ i = Impl(accs, cur, last) /\ cur \in DOMAIN accs /\ accs = [e \in DOMAIN accs |-> accs[e]]
      /\ cur \in Nat /\ hh \in Nat /\ SoundAccounts(accs[cur], cur, hh)
      /\ \A a \in DOMAIN accs[cur] : accs[cur][a].Committee => Staked(accs[cur][a].Unit) > 0
  BY SoundFacts DEF Current
<1>2. j = [i EXCEPT !.accounts = [accs EXCEPT ![cur] = acc]]
  BY DEF Tip10
<1>a. DOMAIN acc = DOMAIN accs[cur] /\ IsMap(acc)
  BY DEF IsMap
<1>b. \A a \in DOMAIN accs[cur] : acc[a] = makeModifyStateByTip10(accs[cur][a])
  OBVIOUS
<1>c. accs[cur] = Current(i)
  BY DEF Current
<1> HIDE DEF accs, cur, last, acc
<1>3. j = Impl([accs EXCEPT ![cur] = acc], cur, last)
  BY <1>1, <1>2 DEF Impl
<1>4. j = Replaced(i, acc)
  BY <1>3 DEF Replaced, accs, cur, last
<1>5. ASSUME NEW a \in DOMAIN accs[cur]
      PROVE  /\ SoundAccount(acc[a], cur, hh) /\ acc[a].Unit = accs[cur][a].Unit
             /\ acc[a].Delegation = accs[cur][a].Delegation
             /\ acc[a].Committee = accs[cur][a].Committee
  <2>1. SoundAccount(accs[cur][a], cur, hh)
    BY <1>1 DEF SoundAccounts
  <2>2. acc[a] = makeModifyStateByTip10(accs[cur][a])
    BY <1>b
  <2> QED BY <2>1, <2>2, <1>1, <1>Tip10Account
<1>6. Remapped(i, acc, hh)
  BY <1>1, <1>a, <1>c, <1>5 DEF Remapped, cur
<1> QED BY <1>4, <1>6, MapStep

\* The members have the least own stake.
Enough(i, E, hh) ==
  \A a \in E : a \in DOMAIN Current(i) => getValidStaking(Current(i)[a].Unit, hh) >= ElectionMinLimit

\* DoElections elects accounts with enough own stake.
LEMMA ElectedEnough ==
  ASSUME NEW i, NEW d, d - 1 = i.curEpochID, NEW hh, NEW E \in DoElections(i, d, hh)
  PROVE  Enough(i, E, hh)
<1> DEFINE sas == i.accounts[d - 1]
           enough == {a \in DOMAIN sas : getValidStaking(sas[a].Unit, hh) >= ElectionMinLimit}
<1>1. E \in SUBSET enough
  BY Zenon DEF DoElections
<1>2. sas = Current(i)
  BY DEF Current
<1> HIDE DEF sas
<1> QED BY <1>1, <1>2 DEF Enough

\* The election marks only accounts with stake, so that every member survives
\* the next move.
LEMMA ElectStep ==
  ASSUME NEW hh \in Nat \ {0}, NEW i, SoundImpawn(i, hh), NEW d, d - 1 = i.curEpochID, NEW E,
         Enough(i, E, hh),
         NEW j, j = elect(i, d, E)
  PROVE  Kept(i, j, hh) /\ j.lastReward = i.lastReward
  (* The election marks accounts with stake.                                 *)
<1>ElectAccount. ASSUME NEW e \in Nat, NEW sa, SoundAccount(sa, e, hh), NEW c \in BOOLEAN,
                        NEW x, x = [sa EXCEPT !.Committee = c]
                 PROVE  /\ SoundAccount(x, e, hh)
                        /\ x.Unit = sa.Unit /\ x.Delegation = sa.Delegation /\ x.Committee = c
  <2> USE <1>ElectAccount
  <2>1. IsAccount(sa) /\ sa.Fee \in 0 .. Base /\ sa.Modify.Fee \in 0 .. InvalidFee
    BY DEF SoundAccount
  <2>2. PICK u, pk, fee, k, g, mf, mk : IsMap(g) /\ sa = Account(u, pk, fee, k, g, mf, mk)
    BY <2>1, AccountParts
  <2>3. x = Account(u, pk, fee, c, g, mf, mk)
    BY <2>2 DEF Account
  <2>4. IsAccount(x)
    BY <2>2, <2>3, AccountForm, Zenon
  <2>5. x.Unit = u /\ x.Delegation = g /\ x.Committee = c /\ x.Fee = fee /\ x.Modify.Fee = mf
    BY <2>3 DEF Account
  <2>6. sa.Unit = u /\ sa.Delegation = g /\ sa.Fee = fee /\ sa.Modify.Fee = mf
    BY <2>2 DEF Account
  <2>7. x.Unit = sa.Unit /\ x.Delegation = sa.Delegation /\ x.Fee = sa.Fee /\ x.Modify.Fee = sa.Modify.Fee
    BY <2>5, <2>6
  <2>8. SoundAccount(x, e, hh)
    BY <2>1, <2>4, <2>5, <2>7, PutInfo, ZenonT(60)
  <2> QED BY <2>5, <2>7, <2>8
<1> DEFINE cur == i.curEpochID
           last == i.lastReward
           accs == i.accounts
           acc == [a \in DOMAIN accs[cur] |->
                     [accs[cur][a] EXCEPT !.Committee = accs[cur][a].Committee \/ a \in E]]
<1>1. /\ i = Impl(accs, cur, last) /\ cur \in DOMAIN accs /\ accs = [e \in DOMAIN accs |-> accs[e]]
      /\ cur \in Nat /\ hh \in Nat /\ SoundAccounts(accs[cur], cur, hh)
      /\ cur = GetEpochFromHeight(hh)
      /\ \A a \in DOMAIN accs[cur] : accs[cur][a].Committee => Staked(accs[cur][a].Unit) > 0
  BY SoundFacts DEF Current
<1>2. j = [i EXCEPT !.accounts = [accs EXCEPT ![cur] = acc]]
  BY SMTT(60) DEF elect
<1>a. DOMAIN acc = DOMAIN accs[cur] /\ IsMap(acc)
  BY DEF IsMap
<1>b. \A a \in DOMAIN accs[cur] :
        acc[a] = [accs[cur][a] EXCEPT !.Committee = accs[cur][a].Committee \/ a \in E]
  OBVIOUS
<1>c. accs[cur] = Current(i)
  BY DEF Current
<1> HIDE DEF accs, cur, last, acc
<1>3. j = Impl([accs EXCEPT ![cur] = acc], cur, last)
  BY <1>1, <1>2 DEF Impl
<1>4. j = Replaced(i, acc)
  BY <1>3 DEF Replaced, accs, cur, last
<1>5. ASSUME NEW a \in DOMAIN accs[cur]
      PROVE  /\ SoundAccount(acc[a], cur, hh) /\ acc[a].Unit = accs[cur][a].Unit
             /\ acc[a].Delegation = accs[cur][a].Delegation
             /\ acc[a].Committee => Staked(acc[a].Unit) > 0
  <2> DEFINE c == accs[cur][a].Committee \/ a \in E
             u == accs[cur][a].Unit
  <2>1. SoundAccount(accs[cur][a], cur, hh) /\ SoundUnit(u, cur, hh)
    BY <1>1 DEF SoundAccounts, SoundAccount
  <2>2. acc[a] = [accs[cur][a] EXCEPT !.Committee = c] /\ c \in BOOLEAN
    BY <1>b
  <2>3. c => Staked(u) > 0
    <3>1. ASSUME a \in E PROVE Staked(u) > 0
      <4>1. getValidStaking(u, hh) >= ElectionMinLimit
        BY <3>1, <1>c DEF Enough
      <4>2. getValidStaking(u, hh) = Staked(u) - getRedeemItem(u, cur)
        BY <2>1, <1>1, ValidStaking
      <4>3. WellFormed(u, cur, hh)
        BY <2>1 DEF SoundUnit
      <4>4. Staked(u) \in Nat /\ getRedeemItem(u, cur) \in Nat
        BY <4>3, <1>1, UnitFacts, RedeemType, Zenon
      <4>5. ElectionMinLimit \in Nat \ {0}
        BY EpochAssumption
      <4> QED BY <4>1, <4>2, <4>4, <4>5
    <3>2. ASSUME accs[cur][a].Committee PROVE Staked(u) > 0
      BY <3>2, <1>1
    <3> QED BY <3>1, <3>2
  <2> HIDE DEF c
  <2>4. /\ SoundAccount(acc[a], cur, hh) /\ acc[a].Unit = u
        /\ acc[a].Delegation = accs[cur][a].Delegation /\ acc[a].Committee = c
    BY <2>1, <2>2, <1>1, <1>ElectAccount, SMTT(60)
  <2> QED BY <2>3, <2>4
<1>6. Remapped(i, acc, hh)
  BY <1>a, <1>c, <1>5 DEF Remapped, cur
<1>7. \A k : k = Replaced(i, acc) => Kept(i, k, hh) /\ k.lastReward = i.lastReward
  BY <1>6, MapStep, ZenonT(60)
<1> QED BY <1>4, <1>7, Zenon

\* A reward moves lastReward, up to a block before this one.
LEMMA RewardStep ==
  ASSUME NEW hh \in Nat \ {0}, NEW i, SoundImpawn(i, hh),
         NEW end \in Nat, i.lastReward <= end, end < hh,
         NEW j, j = [i EXCEPT !.lastReward = end]
  PROVE  Kept(i, j, hh)
<1> DEFINE cur == i.curEpochID
           last == i.lastReward
           accs == i.accounts
<1>1. i = Impl(accs, cur, last) /\ last \in Nat /\ cur \in Nat
  BY SoundFacts, Zenon
<1>2. SoundEpochs(accs, cur, last, hh)
  BY DEF SoundImpawn
<1>a. last <= end
  OBVIOUS
<1>b. Current(i) = accs[cur]
  BY DEF Current
<1> HIDE DEF cur, last, accs
<1>3. j = Impl(accs, cur, end)
  BY <1>1 DEF Impl
<1>4. j.accounts = accs /\ j.curEpochID = cur /\ j.lastReward = end
  BY <1>3 DEF Impl
<1>5. /\ GetEpochFromHeight(last) \in Nat /\ GetEpochFromHeight(end) \in Nat
      /\ GetEpochFromHeight(last) <= GetEpochFromHeight(end)
  BY <1>1, <1>a, EpochMonotone
<1>6. end \in 0 .. hh - 1
  OBVIOUS
<1>7. \A e \in 0 .. cur : e >= GetEpochFromHeight(end) - 1 => e \in DOMAIN accs
  BY <1>1, <1>2, <1>5 DEF SoundEpochs
<1>8. SoundEpochs(accs, cur, end, hh)
  BY <1>2, <1>6, <1>7 DEF SoundEpochs
<1>9. SoundImpawn(j, hh)
  BY <1>3, <1>4, <1>8 DEF SoundImpawn
<1> QED BY <1>4, <1>9, <1>b DEF Kept, Current, cur

\* The next block of the epoch.
LEMMA LaterStep ==
  ASSUME NEW hh \in Nat \ {0}, NEW i, SoundImpawn(i, hh), hh # EndHeight(i.curEpochID)
  PROVE  SoundImpawn(i, hh + 1)
<1> DEFINE cur == i.curEpochID
           last == i.lastReward
           accs == i.accounts
<1>1. i = Impl(accs, cur, last) /\ last \in Nat /\ last < hh /\ cur \in Nat /\ cur = GetEpochFromHeight(hh)
  BY SoundFacts, Zenon
<1>2. SoundEpochs(accs, cur, last, hh)
  BY DEF SoundImpawn
<1>3. GetEpochFromHeight(hh + 1) = cur
  BY <1>1, EpochNext
<1> HIDE DEF cur, last, accs
<1>4. last \in 0 .. (hh + 1) - 1 /\ hh \in Nat
  BY <1>1
<1>5. ASSUME NEW e \in DOMAIN accs PROVE SoundAccounts(accs[e], e, hh + 1)
  <2>1. e \in Nat /\ SoundAccounts(accs[e], e, hh)
    BY <1>1, <1>2 DEF SoundEpochs
  <2> QED BY <2>1, <1>4, AccountsLater
<1>6. SoundEpochs(accs, cur, last, hh + 1)
  BY <1>2, <1>3, <1>4, <1>5, SMTT(60) DEF SoundEpochs
<1> QED BY <1>1, <1>6 DEF SoundImpawn, cur, last, accs

\* What Shift needs of the epochs; at genesis the epoch is 0.
Before(accs, cur, last, hh) ==
  /\ accs = [e \in DOMAIN accs |-> accs[e]]
  /\ DOMAIN accs \in SUBSET (0 .. cur)
  /\ \A e \in 0 .. cur : e >= GetEpochFromHeight(last) - 1 => e \in DOMAIN accs
  /\ \A e \in DOMAIN accs : SoundAccounts(accs[e], e, hh)
  /\ \A e \in DOMAIN accs : e + 1 \in DOMAIN accs => Elected(accs, e) \subseteq DOMAIN accs[e + 1]
  /\ \A a \in Elected(accs, cur) : Staked(accs[cur][a].Unit) > 0

\* What Shift does.
ShiftedTo(i, j, cur, hh) ==
  /\ SoundImpawn(j, hh) /\ j.curEpochID = cur + 1
  /\ \A a \in Addrs : Held(Current(j), cur + 1, a) = Held(i.accounts[cur], cur, a)

\* Shift keeps the structure sound and what everybody holds: the epochs still
\* to be rewarded are kept, and the committee of the old epoch is in the new.
LEMMA ShiftStep ==
  ASSUME NEW hh \in Nat, NEW cur \in Nat, NEW last \in 0 .. hh, NEW accs, Before(accs, cur, last, hh),
         cur \in DOMAIN accs,
         GetEpochFromHeight(hh + 1) = cur + 1, BeginHeight(cur + 1) = hh + 1,
         GetEpochFromHeight(last) \in Nat,
         NEW i, i = Impl(accs, cur, last), NEW j, j = Shift(i, cur + 1)
  PROVE  ShiftedTo(i, j, cur, hh + 1)
<1> DEFINE ShiftAccounts(k, eid) ==
    [e \in keptEpochs(k) \cup {eid} |-> IF e = eid THEN move(k, eid - 1, eid) ELSE k.accounts[e]]
<1> HIDE DEF ShiftAccounts
<1>ShiftForm. ASSUME i = Impl(accs, cur, last), NEW eid
              PROVE  Shift(i, eid) = Impl(ShiftAccounts(i, eid), eid, last)
  <2> USE <1>ShiftForm
  <2> DEFINE f == ShiftAccounts(i, eid)
  <2>1. Shift(i, eid) = [i EXCEPT !.curEpochID = eid, !.accounts = f]
    BY DEF Shift, ShiftAccounts
  <2> HIDE DEF f
  <2>2. [i EXCEPT !.curEpochID = eid] = Impl(accs, eid, last)
    BY DEF Impl
  <2>3. [Impl(accs, eid, last) EXCEPT !.accounts = f] = Impl(f, eid, last)
    BY DEF Impl
  <2> QED BY <2>1, <2>2, <2>3, Zenon DEF f
<1> DEFINE AreShifted(k, f, pre, eid) ==
    /\ DOMAIN f = keptEpochs(k) \cup {eid} /\ f[eid] = move(k, pre, eid)
    /\ \A e \in keptEpochs(k) : e # eid => f[e] = k.accounts[e]
    /\ f = [e \in DOMAIN f |-> f[e]]
<1> HIDE DEF AreShifted
<1>ShiftAccountsIs. ASSUME NEW eid, NEW pre, pre = eid - 1
                    PROVE  AreShifted(i, ShiftAccounts(i, eid), pre, eid)
  <2> USE <1>ShiftAccountsIs
  <2> DEFINE f == ShiftAccounts(i, eid)
  <2>1. f = [e \in keptEpochs(i) \cup {eid} |->
               IF e = eid THEN move(i, pre, eid) ELSE i.accounts[e]]
    BY Zenon DEF ShiftAccounts
  <2> HIDE DEF f
  <2>2. DOMAIN f = keptEpochs(i) \cup {eid}
    BY <2>1, Zenon
  <2>3. f[eid] = move(i, pre, eid)
    BY <2>1, Zenon
  <2>4. \A e \in keptEpochs(i) : e # eid => f[e] = i.accounts[e]
    BY <2>1, Zenon
  <2>5. f = [e \in DOMAIN f |-> f[e]]
    BY <2>1
  <2> QED BY <2>2, <2>3, <2>4, <2>5, Zenon DEF AreShifted, f
<1> DEFINE m == GetEpochFromHeight(last)
           kept == keptEpochs(i)
           acc == accs[cur]
           bcc == move(i, cur, cur + 1)
           bccs == ShiftAccounts(i, cur + 1)
<1>1. i.accounts = accs /\ i.curEpochID = cur /\ i.lastReward = last
  BY DEF Impl
<1>2. kept = {e \in DOMAIN accs : ~(m > 1 /\ e < m - 1)}
  BY <1>1 DEF keptEpochs, Epochs
<1>3. SoundAccounts(acc, cur, hh) /\ acc = i.accounts[cur]
  BY <1>1 DEF Before
<1>4. /\ SoundAccounts(bcc, cur + 1, hh + 1)
      /\ \A a \in Addrs : Held(bcc, cur + 1, a) = Held(acc, cur, a)
      /\ \A a \in DOMAIN acc : Staked(acc[a].Unit) > 0 => a \in DOMAIN bcc
      /\ \A a \in DOMAIN bcc : bcc[a].Committee = FALSE
  <2> HIDE DEF acc
  <2>1. SoundAccounts(i.accounts[cur], cur, hh)
    BY <1>3
  <2> QED BY <2>1, <1>3, Move, ZenonT(60)
<1>6. j = Impl(bccs, cur + 1, last)
  BY <1>ShiftForm
<1>8. /\ DOMAIN accs \in SUBSET (0 .. cur) /\ kept \subseteq DOMAIN accs
      /\ \A e \in 0 .. cur : e >= m - 1 => e \in kept
  <2>1. /\ DOMAIN accs \in SUBSET (0 .. cur)
        /\ \A e \in 0 .. cur : e >= m - 1 => e \in DOMAIN accs
    BY Zenon DEF Before
  <2>2. m \in Nat
    OBVIOUS
  <2> HIDE DEF m
  <2>3. ASSUME NEW e \in 0 .. cur, e >= m - 1 PROVE e \in kept
    <3>1. e \in DOMAIN accs /\ ~(e < m - 1)
      BY <2>1, <2>2, <2>3
    <3> QED BY <3>1, <1>2, Zenon
  <2>4. kept \subseteq DOMAIN accs
    BY <1>2, Zenon
  <2> QED BY <2>1, <2>3, <2>4, Zenon
<1>7. /\ DOMAIN bccs = kept \cup {cur + 1} /\ bccs[cur + 1] = bcc
      /\ \A e \in kept : bccs[e] = accs[e]
      /\ bccs = [e \in DOMAIN bccs |-> bccs[e]]
  <2>1. cur + 1 \notin kept
    BY <1>8
  <2> HIDE DEF bccs
  <2>2. /\ DOMAIN bccs = kept \cup {cur + 1} /\ bccs[cur + 1] = bcc
        /\ \A e \in kept : e # cur + 1 => bccs[e] = i.accounts[e]
        /\ bccs = [e \in DOMAIN bccs |-> bccs[e]]
    <3>1. cur = cur + 1 - 1
      OBVIOUS
    <3>2. AreShifted(i, bccs, cur, cur + 1)
      BY <3>1, <1>ShiftAccountsIs DEF bccs
    <3> QED BY <3>2 DEF AreShifted
  <2> QED BY <1>1, <2>1, <2>2, Zenon
<1> HIDE DEF kept, acc, bcc, bccs
<1>10. j.accounts = bccs /\ j.curEpochID = cur + 1 /\ j.lastReward = last
  BY <1>6 DEF Impl
<1>11. /\ last \in 0 .. (hh + 1) - 1 /\ DOMAIN bccs \in SUBSET (0 .. cur + 1)
       /\ \A e \in 0 .. cur + 1 : e >= m - 1 => e \in DOMAIN bccs
  BY <1>7, <1>8
<1>12. ASSUME NEW e \in DOMAIN bccs PROVE SoundAccounts(bccs[e], e, hh + 1)
  <2>1. CASE e = cur + 1
    BY <2>1, <1>4, <1>7
  <2>2. CASE e # cur + 1
    <3>1. e \in kept /\ bccs[e] = accs[e] /\ e \in Nat
      BY <2>2, <1>7, <1>8
    <3>2. SoundAccounts(accs[e], e, hh)
      BY <3>1, <1>8 DEF Before
    <3> QED BY <3>1, <3>2, AccountsLater
  <2> QED BY <2>1, <2>2
<1>13. ASSUME NEW e \in DOMAIN bccs, e + 1 \in DOMAIN bccs
       PROVE  Elected(bccs, e) \subseteq DOMAIN bccs[e + 1]
  <2>1. e # cur + 1 /\ e \in kept /\ e \in 0 .. cur
    BY <1>7, <1>8, <1>11, <1>13
  <2>2. Elected(bccs, e) = Elected(accs, e)
    BY <2>1, <1>7 DEF Elected
  <2>3. CASE e = cur
    <3>1. \A a \in Elected(accs, cur) : a \in DOMAIN acc /\ Staked(acc[a].Unit) > 0
      BY DEF Before, Elected, acc
    <3> QED BY <2>2, <2>3, <3>1, <1>4, <1>7
  <2>4. CASE e # cur
    <3>1. e + 1 \in kept
      BY <2>1, <2>4, <1>7, <1>13
    <3>2. Elected(accs, e) \subseteq DOMAIN accs[e + 1]
      BY <2>1, <3>1, <1>8 DEF Before
    <3> QED BY <2>2, <3>1, <3>2, <1>7
  <2> QED BY <2>3, <2>4
<1>14. \A a \in Elected(bccs, cur + 1) : Staked(bccs[cur + 1][a].Unit) > 0
  BY <1>4, <1>7 DEF Elected
<1>15. SoundEpochs(bccs, cur + 1, last, hh + 1)
  BY <1>7, <1>11, <1>12, <1>13, <1>14, SMTT(60) DEF SoundEpochs
<1>16. SoundImpawn(j, hh + 1)
  BY <1>6, <1>10, <1>15 DEF SoundImpawn
<1>17. Current(j) = bcc
  BY <1>7, <1>10 DEF Current
<1> QED BY <1>3, <1>4, <1>10, <1>16, <1>17 DEF ShiftedTo

\* The same at the last block of an epoch.
LEMMA EpochStep ==
  ASSUME NEW hh \in Nat \ {0}, NEW i, SoundImpawn(i, hh), hh = EndHeight(i.curEpochID),
         NEW j, j = Shift(i, i.curEpochID + 1)
  PROVE  ShiftedTo(i, j, i.curEpochID, hh + 1)
<1> DEFINE cur == i.curEpochID
           last == i.lastReward
           accs == i.accounts
<1>1. /\ i = Impl(accs, cur, last) /\ last \in Nat /\ last < hh /\ cur \in Nat
      /\ cur = GetEpochFromHeight(hh) /\ cur \in DOMAIN accs
  BY SoundFacts, ZenonT(60)
<1>2. Before(accs, cur, last, hh)
  BY DEF SoundImpawn, SoundEpochs, Before
<1>3. hh = EndHeight(cur) /\ j = Shift(i, cur + 1)
  BY Zenon
<1> HIDE DEF cur, last, accs
<1>4. GetEpochFromHeight(hh + 1) = cur + 1 /\ BeginHeight(cur + 1) = hh + 1
  BY <1>1, <1>3, EpochNext
<1>5. GetEpochFromHeight(last) \in Nat
  BY <1>1, EpochMonotone
<1>6. last \in 0 .. hh
  BY <1>1
<1> QED BY <1>1, <1>2, <1>3, <1>4, <1>5, <1>6, ShiftStep DEF cur

-----------------------------------------------------------------------------
(* Rewards                                                                 *)
(* The divisions of calcReward and calcRewardInSa.                         *)

\* Adding two inequalities.
LEMMA Scale ==
  ASSUME NEW W \in Nat, NEW c \in Nat, NEW a \in Int, NEW b \in Int, NEW x \in Int, NEW y \in Int,
         W * a <= c * x, W * b <= c * y
  PROVE  W * (a + b) <= c * (x + y)
<1>1. W * (a + b) = W * a + W * b /\ c * (x + y) = c * x + c * y
  OBVIOUS
<1>2. W * a \in Int /\ W * b \in Int /\ c * x \in Int /\ c * y \in Int
  OBVIOUS
<1> QED BY <1>1, <1>2

\* Parts in proportion to weights of at most W in all are at most the whole,
\* whatever the divisions round down.
LEMMA Proportions ==
  ASSUME NEW S, IsFiniteSet(S), NEW W \in Nat \ {0}, NEW c \in Nat, NEW w, NEW q,
         \A x \in S : w[x] \in Nat /\ q[x] \in Int /\ W * q[x] <= c * w[x],
         Sum(w, S) <= W
  PROVE  Sum(q, S) <= c
<1> DEFINE Good == {s \in SUBSET S : W * Sum(q, s) <= c * Sum(w, s)}
<1>0. \A s \in SUBSET S : IsFiniteSet(s) /\ Sum(q, s) \in Int /\ Sum(w, s) \in Nat
  <2> SUFFICES ASSUME NEW s \in SUBSET S
               PROVE IsFiniteSet(s) /\ Sum(q, s) \in Int /\ Sum(w, s) \in Nat
    OBVIOUS
  <2>1. IsFiniteSet(s)
    BY FinitePart
  <2> QED BY <2>1, SumType, SumNat
<1>1. {} \in Good
  BY SumEmpty
<1>2. ASSUME NEW s \in SUBSET S, s # {}, \A x \in s : s \ {x} \in Good
      PROVE  s \in Good
  <2> DEFINE x == Some(s)
             t == s \ {x}
  <2>1. x \in s /\ t \in Good /\ t \in SUBSET S
    BY <1>2, SomeMember
  <2>2. Sum(q, s) = q[x] + Sum(q, t) /\ Sum(w, s) = w[x] + Sum(w, t)
    BY <1>0, <1>2, SumSome
  <2> HIDE DEF x, t
  <2>3. W * Sum(q, t) <= c * Sum(w, t)
    BY <2>1
  <2>4. /\ W * q[x] <= c * w[x] /\ q[x] \in Int /\ w[x] \in Int /\ Sum(q, t) \in Int /\ Sum(w, t) \in Int
        /\ W \in Nat
    BY <2>1, <1>0, <1>2
  <2>5. W * (q[x] + Sum(q, t)) <= c * (w[x] + Sum(w, t))
    BY <2>3, <2>4, Scale
  <2> QED BY <2>2, <2>5
<1> HIDE DEF Good
<1>3. S \in Good
  BY <1>1, <1>2, SetInduction, Zenon
<1>4. W * Sum(q, S) <= c * Sum(w, S)
  BY <1>3 DEF Good
<1> DEFINE Q == Sum(q, S)
           V == Sum(w, S)
<1>5. Q \in Int /\ V \in Nat /\ V <= W /\ W * Q <= c * V
  BY <1>0, <1>4
<1> HIDE DEF Q, V
<1>6. ASSUME Q > c PROVE FALSE
  <2>1. c * V <= c * W
    BY <1>5
  <2>2. (c + 1) * W <= Q * W
    BY <1>5, <1>6, Times
  <2>3. (c + 1) * W = c * W + W /\ Q * W = W * Q
    BY <1>5
  <2>4. c * V \in Int /\ c * W \in Int /\ W * Q \in Int
    BY <1>5
  <2> QED BY <2>1, <2>2, <2>3, <2>4, <1>5
<1> QED BY <1>5, <1>6 DEF Q

\* The quotient of naturals rounds down.
LEMMA Quotient ==
  ASSUME NEW p \in Nat, NEW W \in Nat \ {0}
  PROVE  /\ p \div W \in Nat /\ W * (p \div W) <= p
<1> DEFINE q == p \div W
           r == p % W
<1>1. q \in Int /\ r \in 0 .. W - 1 /\ p = W * q + r
  BY Division
<1> HIDE DEF q, r
<1>a. W * q \in Int
  BY <1>1
<1>2. W * q <= p
  BY <1>1, <1>a
<1>3. ASSUME q < 0 PROVE FALSE
  <2>1. q * W <= (0 - 1) * W
    BY <1>1, <1>3, Times
  <2>2. q * W = W * q /\ (0 - 1) * W = 0 - W
    BY <1>1
  <2> QED BY <2>1, <2>2, <1>1, <1>a, SMTT(60)
<1> QED BY <1>1, <1>2, <1>3 DEF q

\* A product of naturals is a natural.
LEMMA Product == ASSUME NEW a \in Nat, NEW b \in Nat PROVE a * b \in Nat
OBVIOUS

\* The fee is at most the share it is taken from.
LEMMA FeePart ==
  ASSUME NEW share \in Nat, NEW fee \in 0 .. Base
  PROVE  share - (share * fee) \div Base \in 0 .. share
<1>1. Base \in Nat \ {0} /\ fee \in Nat /\ fee <= Base
  BY EpochAssumption
<1> DEFINE p == share * fee
           q == p \div Base
<1>2. p \in Nat
  BY <1>1, Product
<1>3. q \in Nat /\ Base * q <= p
  BY <1>1, <1>2, Quotient
<1>4. p <= share * Base
  <2>1. fee * share <= Base * share
    BY <1>1, Times
  <2> QED BY <2>1, <1>1
<1> HIDE DEF p, q
<1>5. ASSUME q > share PROVE FALSE
  <2>1. (share + 1) * Base <= q * Base
    BY <1>1, <1>3, <1>5, Times
  <2>2. (share + 1) * Base = share * Base + Base /\ q * Base = Base * q
    BY <1>1, <1>3
  <2>3. share * Base \in Int /\ Base * q \in Int
    BY <1>1, <1>3
  <2> QED BY <2>1, <2>2, <2>3, <1>1, <1>2, <1>3, <1>4
<1>6. share - q \in 0 .. share
  BY <1>3, <1>5
<1> QED BY <1>6 DEF p, q

\* The stakes of the delegators.
weights(sa, hh) == [d \in Delegators(sa) |-> getAllStaking(sa.Delegation[d], hh)]

\* The stakes of an account's delegators are at most its total.
LEMMA Weights ==
  ASSUME NEW e \in Nat, NEW hh \in Nat, NEW sa, SoundAccount(sa, e, hh)
  PROVE  /\ IsFiniteSet(Delegators(sa)) /\ \A d \in Delegators(sa) : weights(sa, hh)[d] \in Nat
         /\ TotalStaking(sa, hh) \in Nat /\ Sum(weights(sa, hh), Delegators(sa)) \in Nat
         /\ Sum(weights(sa, hh), Delegators(sa)) <= TotalStaking(sa, hh)
<1>1. IsFiniteSet(Delegators(sa))
  <2>1. IsFiniteSet(Addrs) /\ Delegators(sa) \in SUBSET Addrs
    BY AddrsAssumption DEF SoundAccount
  <2> QED BY <2>1, FinitePart
<1>2. ASSUME NEW u, SoundUnit(u, e, hh) PROVE getAllStaking(u, hh) \in Nat
  <2>1. WellFormed(u, e, hh)
    BY <1>2 DEF SoundUnit
  <2>2. Staked(u) \in Nat
    BY <2>1, UnitFacts
  <2>3. getAllStaking(u, hh) = Staked(u)
    BY <2>1, AllStaking
  <2> QED BY <2>2, <2>3
<1>3. getAllStaking(sa.Unit, hh) \in Nat
  BY <1>2 DEF SoundAccount
<1>4. \A d \in Delegators(sa) : weights(sa, hh)[d] \in Nat
  BY <1>2 DEF SoundAccount, weights
<1>5. Sum(weights(sa, hh), Delegators(sa)) \in Nat
  BY <1>1, <1>4, SumNat, SMTT(60)
<1>6. TotalStaking(sa, hh) = getAllStaking(sa.Unit, hh) + Sum(weights(sa, hh), Delegators(sa))
  BY DEF TotalStaking, weights
<1> DEFINE own == getAllStaking(sa.Unit, hh)
           sum == Sum(weights(sa, hh), Delegators(sa))
<1>7. own \in Nat /\ sum \in Nat /\ TotalStaking(sa, hh) = own + sum
  BY <1>3, <1>5, <1>6, ZenonT(60)
<1> HIDE DEF own, sum
<1>8. TotalStaking(sa, hh) \in Nat /\ sum <= TotalStaking(sa, hh)
  BY <1>7
<1> QED BY <1>1, <1>4, <1>7, <1>8, ZenonT(60) DEF sum

\* A share divided.
Divided(r, share) ==
  /\ r.own \in Nat
  /\ r.own + Sum(r.delegators, DOMAIN r.delegators) = share

\* calcRewardInSa divides the share between the account, which gets no less
\* than 0, and its delegators.
LEMMA InAccount ==
  ASSUME NEW e \in Nat, NEW hh \in Nat, NEW sa, SoundAccount(sa, e, hh), TotalStaking(sa, hh) > 0,
         NEW share \in Nat
  PROVE  Divided(calcRewardInSa(sa, hh, share), share)
<1> DEFINE W == TotalStaking(sa, hh)
           D == Delegators(sa)
           w == weights(sa, hh)
           rest == share - (share * sa.Fee) \div Base
           part == [d \in D |-> (rest * w[d]) \div W]
           r == calcRewardInSa(sa, hh, share)
<1>1. /\ IsFiniteSet(D) /\ (\A d \in D : w[d] \in Nat) /\ W \in Nat /\ Sum(w, D) <= W
  BY Weights
<1>2. W \in Nat \ {0}
  BY <1>1
<1>3. rest \in 0 .. share
  BY FeePart, Zenon DEF SoundAccount
<1>4. r.own = share - Sum(part, DOMAIN part) /\ r.delegators = part
  BY DEF calcRewardInSa, weights
<1>5. DOMAIN part = D /\ \A d \in D : part[d] = (rest * w[d]) \div W
  OBVIOUS
<1> HIDE DEF W, D, w, rest, part, r
<1>6. rest \in Nat /\ rest <= share
  BY <1>3
<1>7. \A d \in D : part[d] \in Nat /\ W * part[d] <= rest * w[d]
  <2> SUFFICES ASSUME NEW d \in D PROVE part[d] \in Nat /\ W * part[d] <= rest * w[d]
    OBVIOUS
  <2>1. rest * w[d] \in Nat
    BY <1>1, <1>6, Product
  <2>2. part[d] = (rest * w[d]) \div W
    BY <1>5
  <2> QED BY <2>1, <2>2, <1>2, Quotient, SMTT(60)
<1>8. Sum(part, D) \in Nat
  BY <1>1, <1>7, SumNat, SMTT(60)
<1>9. Sum(part, D) <= rest
  <2>1. \A d \in D : w[d] \in Nat /\ part[d] \in Int /\ W * part[d] <= rest * w[d]
    BY <1>1, <1>7, SMTT(60)
  <2> QED BY <2>1, <1>1, <1>2, <1>6, Proportions, SMTT(60)
<1>10. r.own \in Nat /\ r.own + Sum(r.delegators, DOMAIN r.delegators) = share
  BY <1>4, <1>5, <1>6, <1>8, <1>9, SMTT(60)
<1> QED BY <1>10, SMTT(60) DEF Divided, r

\* Who is rewarded: sound accounts.
SoundShare(sas, hh) ==
  /\ DOMAIN sas \in SUBSET Addrs
  /\ \A a \in DOMAIN sas : \E e \in Nat : SoundAccount(sas[a], e, hh)

\* What RewardsAddUp states of one reward.
AddsUp(r, coin, last) ==
  /\ Paid(r) <= coin
  /\ last \in DOMAIN r => Paid(r) = coin
  /\ \A a \in DOMAIN r : r[a].own >= 0

\* calcReward pays at most the coin, and all of it if the account that gets the
\* remainder has stake.
LEMMA Rewarding ==
  ASSUME NEW hh \in Nat, NEW i, NEW eid, NEW coin \in Nat, NEW last, SoundShare(rewarded(i, eid), hh)
  PROVE  AddsUp(calcReward(i, hh, coin, eid, last), coin, last)
<1> DEFINE sas == rewarded(i, eid)
           D == DOMAIN sas
           stake == [a \in D |-> TotalStaking(sas[a], hh)]
           all == Sum(stake, D)
           paid == {a \in D : stake[a] > 0}
           even == [a \in paid |-> (stake[a] * coin) \div all]
           others == paid \ {last}
           share == [a \in paid |-> IF a = last THEN coin - Sum(even, paid \ {a}) ELSE even[a]]
           r == calcReward(i, hh, coin, eid, last)
<1>1. IsFiniteSet(D) /\ IsFiniteSet(paid) /\ IsFiniteSet(others) /\ paid \in SUBSET D
      /\ others \in SUBSET paid
  <2>1. IsFiniteSet(Addrs) /\ D \in SUBSET Addrs
    BY AddrsAssumption DEF SoundShare
  <2>2. IsFiniteSet(D)
    BY <2>1, FinitePart, SMTT(60)
  <2>3. paid \in SUBSET D /\ others \in SUBSET D
    OBVIOUS
  <2> HIDE DEF D, paid, others
  <2>4. IsFiniteSet(paid) /\ IsFiniteSet(others)
    BY <2>2, <2>3, FinitePart, SMTT(60)
  <2> QED BY <2>2, <2>3, <2>4 DEF others
<1>2. r = [a \in paid |-> calcRewardInSa(sas[a], hh, share[a])]
  BY SMTT(60) DEF calcReward
<1>3. \A a \in D : stake[a] \in Nat /\ stake[a] = TotalStaking(sas[a], hh)
  <2> SUFFICES ASSUME NEW a \in D PROVE TotalStaking(sas[a], hh) \in Nat
    OBVIOUS
  <2>1. PICK e \in Nat : SoundAccount(sas[a], e, hh)
    BY DEF SoundShare
  <2> HIDE DEF sas
  <2> QED BY <2>1, Weights, Zenon
<1>4. /\ \A a \in paid : stake[a] > 0
      /\ \A a \in D \ paid : ~(stake[a] > 0)
      /\ DOMAIN even = paid /\ \A a \in paid : even[a] = (stake[a] * coin) \div all
      /\ DOMAIN share = paid /\ \A a \in others : share[a] = even[a]
      /\ last \in paid => share[last] = coin - Sum(even, others)
      /\ last \notin paid => others = paid
      /\ last \in paid => others = paid \ {last}
      /\ \A a \in paid : a # last => a \in others
  BY Zenon
<1>5. \A a \in paid : \E e \in Nat : SoundAccount(sas[a], e, hh)
  BY SMTT(60) DEF SoundShare
<1> HIDE DEF sas, D, stake, all, paid, even, others, share, r
<1>6. all \in Nat
  BY <1>1, <1>3, SumNat DEF all
<1>7. ASSUME NEW a \in paid PROVE all > 0
  <2>1. IsFiniteSet(D \ {a}) /\ a \in D
    BY <1>1, FinitePart, SMTT(60)
  <2>2. Sum(stake, D) = stake[a] + Sum(stake, D \ {a})
    BY <2>1, <1>1, <1>3, SumRemove
  <2>3. Sum(stake, D \ {a}) \in Nat
    BY <2>1, <1>3, SumNat, SMTT(60)
  <2>4. stake[a] \in Nat /\ stake[a] > 0
    BY <2>1, <1>3, <1>4
  <2> QED BY <2>2, <2>3, <2>4 DEF all
<1>8. \A a \in paid : even[a] \in Nat /\ all * even[a] <= coin * stake[a]
  <2> SUFFICES ASSUME NEW a \in paid PROVE even[a] \in Nat /\ all * even[a] <= coin * stake[a]
    OBVIOUS
  <2>1. all \in Nat \ {0} /\ stake[a] \in Nat
    BY <1>1, <1>3, <1>6, <1>7
  <2>2. stake[a] * coin \in Nat /\ stake[a] * coin = coin * stake[a]
    BY <2>1
  <2>3. even[a] = (stake[a] * coin) \div all
    BY <1>4
  <2> QED BY <2>1, <2>2, <2>3, Quotient, SMTT(60)
<1>9. ASSUME NEW S \in SUBSET paid PROVE Sum(even, S) \in Nat /\ Sum(even, S) <= coin
  <2>1. IsFiniteSet(S) /\ S \in SUBSET D
    BY <1>1, FinitePart
  <2>2. Sum(even, S) \in Nat
    BY <2>1, <1>8, SumNat
  <2>3. CASE S = {}
    BY <2>2, <2>3, SumEmpty
  <2>4. CASE S # {}
    <3>1. all \in Nat \ {0}
      BY <2>4, <1>6, <1>7
    <3>2. Sum(stake, S) <= all
      <4> DEFINE T == D \ S
      <4>1. IsFiniteSet(T) /\ S \cup T = D /\ S \cap T = {} /\ T \in SUBSET D
        BY <1>1, <2>1, FinitePart, SMTT(60)
      <4> HIDE DEF T
      <4>2. \A a \in S \cup T : stake[a] \in Int
        BY <4>1, <1>3, SMTT(60)
      <4>3. Sum(stake, S \cup T) = Sum(stake, S) + Sum(stake, T)
        BY <2>1, <4>1, <4>2, SumUnion, SMTT(60)
      <4>4. \A a \in S : stake[a] \in Nat
        BY <2>1, <1>3, SMTT(60)
      <4>5. \A a \in T : stake[a] \in Nat
        BY <4>1, <1>3
      <4>6. Sum(stake, S) \in Nat /\ Sum(stake, T) \in Nat
        BY <2>1, <4>1, <4>4, <4>5, SumNat
      <4>7. Sum(stake, S \cup T) = all
        BY <4>1 DEF all
      <4> QED BY <4>3, <4>6, <4>7
    <3>3. \A a \in S : stake[a] \in Nat /\ even[a] \in Int /\ all * even[a] <= coin * stake[a]
      BY <2>1, <1>3, <1>8
    <3>4. Sum(even, S) <= coin
      BY <2>1, <3>1, <3>2, <3>3, Proportions, SMTT(60)
    <3> QED BY <2>2, <3>4
  <2> QED BY <2>3, <2>4
<1>10. Sum(even, others) \in Nat /\ Sum(even, others) <= coin
  BY <1>1, <1>9, SMTT(60)
<1>11. \A a \in paid : share[a] \in Nat
  BY <1>4, <1>8, <1>10, SMTT(60)
<1>12. \A a \in paid : Divided(r[a], share[a])
  <2> SUFFICES ASSUME NEW a \in paid PROVE Divided(r[a], share[a])
    OBVIOUS
  <2>1. r[a] = calcRewardInSa(sas[a], hh, share[a])
    BY <1>2
  <2>2. PICK e \in Nat : SoundAccount(sas[a], e, hh)
    BY <1>5, SMTT(60)
  <2>3. TotalStaking(sas[a], hh) > 0
    BY <1>1, <1>3, <1>4
  <2> QED BY <2>1, <2>2, <2>3, <1>11, InAccount, SMTT(60)
<1>13. DOMAIN r = paid
  BY <1>2
<1>14. Paid(r) = Sum(share, paid)
  <2> DEFINE f == [a \in paid |-> r[a].own + Sum(r[a].delegators, DOMAIN r[a].delegators)]
  <2>1. Paid(r) = Sum(f, paid)
    BY <1>13 DEF Paid
  <2>2. \A a \in paid : f[a] = share[a]
    BY <1>12, SMTT(60) DEF Divided
  <2> HIDE DEF f
  <2> QED BY <2>1, <2>2, <1>1, SumSame, SMTT(60)
<1>15. Sum(share, others) = Sum(even, others)
  BY <1>1, <1>4, SumSame
<1>16. last \in paid => Sum(share, paid) = coin
  <2> SUFFICES ASSUME last \in paid PROVE Sum(share, paid) = coin
    OBVIOUS
  <2>0. \A x \in paid : share[x] \in Int
    BY <1>11
  <2>1. Sum(share, paid) = share[last] + Sum(share, paid \ {last})
    BY <2>0, <1>1, SumRemove
  <2>2. others = paid \ {last} /\ share[last] = coin - Sum(even, others)
    BY <1>4
  <2> QED BY <2>1, <2>2, <1>10, <1>15
<1>17. last \notin paid => Sum(share, paid) <= coin
  BY <1>4, <1>10, <1>15
<1>18. \A a \in DOMAIN r : r[a].own >= 0
  BY <1>12, <1>13 DEF Divided
<1> HIDE DEF r, paid, share
<1>19. last \in DOMAIN r => Paid(r) = coin
  BY <1>13, <1>14, <1>16, Zenon
<1>20. Paid(r) <= coin
  <2>1. CASE last \in paid
    <3>1. Paid(r) = coin /\ coin \in Nat
      BY <2>1, <1>14, <1>16, Zenon
    <3> QED BY <3>1
  <2>2. CASE last \notin paid
    BY <2>2, <1>14, <1>17, Zenon
  <2> QED BY <2>1, <2>2, Zenon
<1> QED BY <1>18, <1>19, <1>20, ZenonT(60) DEF AddsUp, r
=============================================================================
