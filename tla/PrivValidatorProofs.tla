------------------------ MODULE PrivValidatorProofs ------------------------
(***************************************************************************)
(* The signer never signs two different things for one height, round and   *)
(* step, however often and in whatever order it is asked, as long as its   *)
(* process runs: the proof for every bound and every set of contents.      *)
(***************************************************************************)
EXTENDS PrivValidator, TLAPS

\* NewPrivValidator leaves a signer that has signed nothing.
LEMMA InitInvariant == Init => IInv
<1> SUFFICES ASSUME Init PROVE IInv
  OBVIOUS
<1>1. TypeOK
  <2>1. height \in Heights
    BY BoundsAssumption DEF Init, Heights
  <2> QED
    BY <2>1 DEF Init, TypeOK
<1>2. Remembered
  BY DEF Init, Remembered, NewPrivValidator
<1>3. NeverDoubleSigns
  BY DEF Init, NeverDoubleSigns
<1> QED
  BY <1>1, <1>2, <1>3 DEF IInv

\* signVote signs only beyond what the signer remembers, and remembers it.
LEMMA KeepsOnSign ==
  ASSUME IInv, NEW r \in Rounds, NEW s \in SignSteps, NEW b \in SignBytes, signVote(r, s, b)
  PROVE  IInv'
<1>1. CASE checkHRS(priv, height, r, s) # "new"
  <2>1. UNCHANGED <<priv, height, signed>> /\ halted' \in BOOLEAN
    BY <1>1 DEF signVote, vars, IInv, TypeOK
  <2> QED
    BY <2>1 DEF IInv, TypeOK, Remembered, NeverDoubleSigns
<1>2. CASE checkHRS(priv, height, r, s) = "new"
  <2> DEFINE new == saveSigned(height, r, s, b)
  <2>1. priv' = new /\ signed' = signed \cup {new} /\ UNCHANGED <<height, halted>>
    BY <1>2 DEF signVote
  <2>2. new \in Items /\ new.h = height /\ new.r = r /\ new.s = s
    BY DEF saveSigned, Items, IInv, TypeOK
  <2>3. r \in Nat /\ s \in Nat /\ height \in Nat
    BY BoundsAssumption DEF Rounds, SignSteps, stepPropose, stepPrevote, stepPrecommit, Heights,
       IInv, TypeOK
  <2>4. priv.h \in Nat /\ priv.r \in Nat /\ priv.s \in Nat
    BY BoundsAssumption DEF IInv, TypeOK, Items, NewPrivValidator, Rounds, SignSteps, stepNone,
       stepPropose, stepPrevote, stepPrecommit, Heights
  <2>5. \A x \in signed : x.h \in Nat /\ x.r \in Nat /\ x.s \in Nat
    BY BoundsAssumption DEF IInv, TypeOK, Items, Rounds, SignSteps, stepPropose, stepPrevote,
       stepPrecommit, Heights
  <2>6. priv.h = height => priv.r < r \/ (priv.r = r /\ priv.s < s)
    BY <1>2, <2>3, <2>4 DEF checkHRS
  <2>7. \A x \in signed : x.h < height \/ (x.h = height /\ (x.r < r \/ (x.r = r /\ x.s < s)))
    BY <2>3, <2>4, <2>5, <2>6 DEF IInv, Remembered
  <2>8. TypeOK'
    BY <2>1, <2>2 DEF IInv, TypeOK
  <2>9. Remembered'
    BY <2>1, <2>2, <2>3, <2>7 DEF Remembered
  <2>10. NeverDoubleSigns'
    BY <2>1, <2>2, <2>3, <2>5, <2>7 DEF IInv, NeverDoubleSigns
  <2> QED
    BY <2>8, <2>9, <2>10 DEF IInv
<1> QED
  BY <1>1, <1>2

\* A new height leaves everything that was signed behind, so the signer may
\* keep what it remembers (finalizeCommit) or forget it (PrivReset).
LEMMA KeepsOnNewHeight ==
  ASSUME IInv, height' \in Heights, height' > height, UNCHANGED <<signed, halted>>,
         priv' = priv \/ priv' = NewPrivValidator
  PROVE  IInv'
<1>1. height \in Nat /\ height' \in Nat
  BY BoundsAssumption DEF Heights, IInv, TypeOK
<1>2. priv.h \in Nat /\ \A x \in signed : x.h \in Nat
  BY BoundsAssumption DEF IInv, TypeOK, Items, NewPrivValidator, Heights
<1>3. \A x \in signed : x.h < height'
  BY <1>1, <1>2 DEF IInv, Remembered
<1>4. priv'.h <= height'
  BY <1>1, <1>2 DEF IInv, Remembered, NewPrivValidator
<1> QED
  BY <1>3, <1>4 DEF IInv, TypeOK, Remembered, NeverDoubleSigns

LEMMA NextInvariant == IInv /\ [Next]_vars => IInv'
<1> SUFFICES ASSUME IInv, [Next]_vars PROVE IInv'
  OBVIOUS
<1>1. CASE \E r \in Rounds, s \in SignSteps, b \in SignBytes : signVote(r, s, b)
  BY <1>1, KeepsOnSign
<1>2. CASE NextHeight
  <2>1. height' \in Heights /\ height' > height
    BY <1>2, BoundsAssumption DEF NextHeight, Heights, IInv, TypeOK
  <2> QED
    BY <1>2, <2>1, KeepsOnNewHeight DEF NextHeight
<1>3. CASE SyncReset
  <2>1. height' \in Heights /\ height' > height
    BY <1>3, BoundsAssumption DEF SyncReset, Heights, IInv, TypeOK
  <2> QED
    BY <1>3, <2>1, KeepsOnNewHeight DEF SyncReset
<1>4. CASE UNCHANGED vars
  BY <1>4 DEF vars, IInv, TypeOK, Remembered, NeverDoubleSigns
<1> QED
  BY <1>1, <1>2, <1>3, <1>4 DEF Next

\* The invariant holds of every behaviour of the running signer: privValidator
\* remembers enough to refuse whatever it signed before.
THEOREM SignerInvariant == Spec => []IInv
  BY InitInvariant, NextInvariant, PTL DEF Spec

\* The signer's state keeps its type (NewPrivValidator, saveSigned, Reset).
THEOREM SignerTypeCorrect == Spec => []TypeOK
<1>1. IInv => TypeOK
  BY DEF IInv
<1> QED
  BY SignerInvariant, <1>1, PTL

\* signVote and signProposal never double sign while the process runs: the
\* resets of updateStateForSync come with a new height.
THEOREM SignerNeverDoubleSigns == Spec => []NeverDoubleSigns
<1>1. IInv => NeverDoubleSigns
  BY DEF IInv
<1> QED
  BY SignerInvariant, <1>1, PTL
============================================================================
