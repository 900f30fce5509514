----------------------------- MODULE MCRecharge -----------------------------
(***************************************************************************)
(* Instance of Recharge for TLC: two recharges of one method.              *)
(***************************************************************************)
EXTENDS Recharge

CONSTANTS r1, r2

=============================================================================
