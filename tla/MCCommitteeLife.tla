-------------------------- MODULE MCCommitteeLife --------------------------
(* Roles of this node for TLC: a member throughout, a member of the first  *)
(* committee only, a backup that becomes a member, and a node that only    *)
(* follows the chain.  Who this node is matters where the properties speak *)
(* of its services, which is while goroutines do not overlap.              *)
EXTENDS CommitteeLife

roles(a, b) == [id \in 0 .. MaxSnail |-> IF id = 0 THEN a ELSE b]

MCRoles == {roles("used", "used"), roles("used", "none"), roles("unused", "used"),
            roles("none", "none")}

MCInit == LifeInit /\ (overlap <=> role = roles("none", "none"))

MCSpec == MCInit /\ [][LifeNext]_lifeVars /\ Fairness
=============================================================================
