--------------------------- MODULE PrivValidator ---------------------------
(***************************************************************************)
(* The local signer of a committee member:                                 *)
(* consensus/tbft/types/priv_validator.go, type privValidator.             *)
(*                                                                         *)
(* The signer remembers the last height/round/step (HRS) it signed and the *)
(* bytes it signed there.  The bytes are the hash of a canonical JSON      *)
(* object that holds the block voted for and a timestamp; a signed item is *)
(* therefore a content (the block) and a time.  The consensus state asks   *)
(* for signatures at its current height only, in whatever round and step   *)
(* order its own control produces; here every order is allowed.            *)
(***************************************************************************)
EXTENDS Integers

CONSTANTS
    MaxHeight,  \* bound on the heights the consensus state works on
    MaxRound,   \* bound on the rounds of a height
    Contents,   \* what a vote or proposal can say (block or nil)
    Times       \* timestamps a message can carry

ASSUME BoundsAssumption == MaxHeight \in Nat \ {0} /\ MaxRound \in Nat

VARIABLES
    priv,       \* LastHeight, LastRound, LastStep, LastSignBytes
    height,     \* cs.Height of the consensus state that asks for signatures
    signed,     \* every item a fresh signature was made for
    halted      \* a panic left the signer and ended receiveRoutine

vars == <<priv, height, signed, halted>>

stepNone == 0
stepPropose == 1
stepPrevote == 2
stepPrecommit == 3
SignSteps == {stepPropose, stepPrevote, stepPrecommit}

Heights == 1..MaxHeight
Rounds == 0..MaxRound

\* LastSignBytes == nil
NoBytes == [content |-> "none", time |-> "none"]
SignBytes == [content : Contents, time : Times]

\* The state NewPrivValidator builds and Reset restores.
NewPrivValidator == [h |-> 0, r |-> 0, s |-> stepNone, bytes |-> NoBytes]

Items == [h : Heights, r : Rounds, s : SignSteps, bytes : SignBytes]

----------------------------------------------------------------------------
\* Mutant: a step of the round may be signed again after a later one.
checkHR(p, h, r, s) ==
    IF p.h > h \/ (p.h = h /\ p.r > r) THEN "error"
    ELSE IF p.h = h /\ p.r = r /\ p.s = s THEN "same" ELSE "new"

\* checkHRS: "new" may be signed, "same" is the HRS signed last, "error" is
\* a regression or a missing LastSignBytes.
checkHRS(p, h, r, s) ==
    IF \/ p.h > h
       \/ p.h = h /\ p.r > r
       \/ p.h = h /\ p.r = r /\ p.s > s
    THEN "error"
    ELSE IF p.h = h /\ p.r = r /\ p.s = s
         THEN IF p.bytes = NoBytes THEN "error" ELSE "same"
         ELSE "new"

saveSigned(h, r, s, bytes) == [h |-> h, r |-> r, s |-> s, bytes |-> bytes]

\* signVote and signProposal, which differ only in the step they record.
\* For an unchanged HRS the last signature is reused when the bytes agree;
\* other bytes go to checkVotesOnlyDifferByTimestamp, which unmarshals what
\* is a hash and panics.
signVote(r, s, bytes) ==
    /\ ~halted
    /\ LET res == checkHRS(priv, height, r, s) IN
       \/ /\ res = "error"
          /\ UNCHANGED vars
       \/ /\ res = "same"
          /\ halted' = (bytes # priv.bytes)
          /\ UNCHANGED <<priv, height, signed>>
       \/ /\ res = "new"
          /\ priv' = saveSigned(height, r, s, bytes)
          /\ signed' = signed \cup {saveSigned(height, r, s, bytes)}
          /\ UNCHANGED <<height, halted>>

\* finalizeCommit: the consensus state moves to the next height and keeps
\* the signer.
NextHeight ==
    /\ ~halted
    /\ height < MaxHeight
    /\ height' = height + 1
    /\ UNCHANGED <<priv, signed, halted>>

\* updateStateForSync: the chain grew past this height by synchronisation;
\* the consensus state jumps to it and resets the signer.
SyncReset ==
    /\ ~halted
    /\ height < MaxHeight
    /\ \E h \in (height + 1)..MaxHeight : height' = h
    /\ priv' = NewPrivValidator
    /\ UNCHANGED <<signed, halted>>

----------------------------------------------------------------------------
Init ==
    /\ priv = NewPrivValidator
    /\ height = 1
    /\ signed = {}
    /\ halted = FALSE

Next ==
    \/ \E r \in Rounds, s \in SignSteps, b \in SignBytes : signVote(r, s, b)
    \/ NextHeight
    \/ SyncReset

Spec == Init /\ [][Next]_vars

----------------------------------------------------------------------------
\* The type invariant of the signer.
TypeOK ==
    /\ priv \in Items \cup {NewPrivValidator}
    /\ height \in Heights
    /\ signed \subseteq Items
    /\ halted \in BOOLEAN

\* Two signatures for one height, round and step are signatures of the same
\* bytes (priv_validator.go:42-43, "never double signs"), whatever order the
\* consensus state asks in and across synchronisation resets.
NeverDoubleSigns ==
    \A x, y \in signed :
        (x.h = y.h /\ x.r = y.r /\ x.s = y.s) => x.bytes = y.bytes

\* What was signed lies in the past: at an earlier height, or not after the
\* height, round and step the signer remembers, whose bytes it remembers.
Remembered ==
    /\ priv.h <= height
    /\ \A x \in signed :
        \/ x.h < height
        \/ /\ x.h = height /\ priv.h = height
           /\ \/ x.r < priv.r
              \/ x.r = priv.r /\ x.s < priv.s
              \/ x = priv

\* The inductive invariant of the signer: what it signed is what it may not
\* sign again (saveSigned, checkHRS, and PrivReset on a new height only).
IInv == TypeOK /\ Remembered /\ NeverDoubleSigns
============================================================================
