----------------------------- MODULE MCStaking -----------------------------
(* The instance of Staking for TLC.                                        *)
EXTENDS Staking

CONSTANTS g, a, b

(* One user through a deposit, its cancellation and withdrawals in parts;  *)
(* two users, who may stake for themselves or with one another.            *)
MCScopes == {[callers |-> {a}, calls |-> 4], [callers |-> {a, b}, calls |-> 3]}
=============================================================================
