---------------------------- MODULE MCAllocation ----------------------------
(***************************************************************************)
(* Instance of Allocation for TLC: two orders of one project and one of    *)
(* another, a private domain of the first buyer and a domain on sale.      *)
(***************************************************************************)
EXTENDS Allocation, TLC

CONSTANTS o1, o2, o3, d1, d2, u1, u2

Projects == (o1 :> "A") @@ (o2 :> "A") @@ (o3 :> "B")
Buyers == (o1 :> u1) @@ (o2 :> u1) @@ (o3 :> u2)
Policies == (o1 :> <<"owned", "public">>) @@ (o2 :> <<"owned", "public">>) @@ (o3 :> <<"public">>)
Owners == (d1 :> u1) @@ (d2 :> u2)
AtFirst == (d1 :> "not_sale") @@ (d2 :> "sale")
Limits == (d1 :> 2) @@ (d2 :> 1)

Interchangeable == Permutations(Workers) \cup Permutations({o1, o2})
=============================================================================
