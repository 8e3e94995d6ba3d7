------------------------------ MODULE Handover ------------------------------
(***************************************************************************)
(* What the election promises to the fast chain, without snail blocks,     *)
(* events or goroutines.  Committees serve one after the other.  The last  *)
(* block of a term is announced before it is reached, the block after it   *)
(* belongs to the next committee, and nothing else moves the charge from   *)
(* one committee to another: not a snail fork, not an event that comes     *)
(* late or twice, not a restart.  A restart may roll the chain back, and   *)
(* then the charge is that of the earlier block.                           *)
(***************************************************************************)
EXTENDS Integers, Sequences, FiniteSets

VARIABLES head,    \* number of the last fast block
          ends,    \* last blocks of the terms announced so far, in order
          charge   \* the committee that decides block head + 1

vars == <<head, ends, charge>>

(* The committee of block n: as many terms as have ended before it.        *)
InCharge(n, es) == Cardinality({i \in DOMAIN es : es[i] < n})

Init == head = 0 /\ ends = <<>> /\ charge = 0

(* The end of the current term, once and before it is reached.             *)
Announce == /\ InCharge(head + 1, ends) = Len(ends)
            /\ Len(ends') = Len(ends) + 1
            /\ ends' = Append(ends, ends'[Len(ends')])
            /\ ends'[Len(ends')] \in Nat /\ ends'[Len(ends')] > head
            /\ UNCHANGED <<head, charge>>

Decide == /\ head' = head + 1
          /\ charge' = InCharge(head + 2, ends)
          /\ UNCHANGED ends

RollBack == /\ head' \in 0 .. head
            /\ charge' = InCharge(head' + 1, ends)
            /\ UNCHANGED ends

Next == Announce \/ Decide \/ RollBack

Spec == Init /\ [][Next]_vars

-----------------------------------------------------------------------------
(* The invariant: the charge is that of the next block, and the terms lie  *)
(* one after the other (electedCommittee names one committee, and the ends *)
(* getEndFast gives to successive committees grow).                        *)
ChargeRight ==
  /\ head \in Nat /\ ends \in Seq(Nat)
  /\ charge = InCharge(head + 1, ends)
  /\ \A i, j \in DOMAIN ends : i < j => ends[i] < ends[j]

(* No block up to the next one ever moves from one committee to another:   *)
(* a node that checks the signatures of a block of the past (VerifySigns)  *)
(* asks the committee that made them.                                      *)
BlocksKeepCommittee ==
  [][\A n \in 1 .. head + 1 : InCharge(n, ends') = InCharge(n, ends)]_vars

(* The charge goes to the next committee only when the last block of a     *)
(* term is decided, and by one (CommitteeStop, CommitteeStart).            *)
ChargeMovesAtEnds ==
  [][charge' > charge => /\ head' = head + 1 /\ charge' = charge + 1
                         /\ \E i \in DOMAIN ends : ends[i] = head']_vars
=============================================================================
