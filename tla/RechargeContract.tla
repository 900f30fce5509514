-------------------------- MODULE RechargeContract --------------------------
(***************************************************************************)
(* What the billing component promises about recharges, with no word about *)
(* callbacks, queries, leases or clocks: a recharge that was opened is     *)
(* credited at most once, with its quota and by a payment no other         *)
(* recharge was credited by, and what was credited stays credited.  A      *)
(* failed recharge may still turn out to be paid.                          *)
(***************************************************************************)
EXTENDS Naturals

CONSTANTS Recharges, Payments, Quota

VARIABLES
    outcome,  \* outcome[r]: "none", "open", "failed" or "credited"
    used,     \* the payments some recharge was credited by
    wallet    \* what the user was credited in total

contractVars == <<outcome, used, wallet>>

Init ==
    /\ outcome = [r \in Recharges |-> "none"]
    /\ used = {}
    /\ wallet = 0

Open(r) ==
    /\ outcome[r] = "none"
    /\ outcome' = [outcome EXCEPT ![r] = "open"]
    /\ UNCHANGED <<used, wallet>>

\* Several recharges may fail at once, when their time is over.
Fail(R) ==
    /\ \A r \in R : outcome[r] = "open"
    /\ outcome' = [r \in Recharges |-> IF r \in R THEN "failed" ELSE outcome[r]]
    /\ UNCHANGED <<used, wallet>>

Credit(r, p) ==
    /\ outcome[r] \in {"open", "failed"}
    /\ p \notin used
    /\ outcome' = [outcome EXCEPT ![r] = "credited"]
    /\ used' = used \cup {p}
    /\ wallet' = wallet + Quota

Next ==
    \/ \E r \in Recharges : Open(r)
    \/ \E R \in SUBSET Recharges : Fail(R)
    \/ \E r \in Recharges, p \in Payments : Credit(r, p)

Spec == Init /\ [][Next]_contractVars

=============================================================================
