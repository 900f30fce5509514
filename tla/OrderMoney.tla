----------------------------- MODULE OrderMoney -----------------------------
(***************************************************************************)
(* What the trade component promises about money, order by order, with no  *)
(* word about handlers, deadlines, mailboxes or databases: a buyer is      *)
(* charged at most once and gets the charge back at most once; the         *)
(* supplier's share of the order is held before it is paid; and the step   *)
(* that returns the buyer's money takes the supplier's share back.         *)
(***************************************************************************)
CONSTANT Orders

VARIABLES
    buyer,   \* buyer[o]: "none", "charged" or "returned"
    seller   \* seller[o]: "none", "held", "paid" or "revoked"

moneyVars == <<buyer, seller>>

MoneyTypeOK ==
    /\ buyer \in [Orders -> {"none", "charged", "returned"}]
    /\ seller \in [Orders -> {"none", "held", "paid", "revoked"}]

Init ==
    /\ buyer = [o \in Orders |-> "none"]
    /\ seller = [o \in Orders |-> "none"]

Charge(o) ==
    /\ buyer[o] = "none"
    /\ seller[o] = "none"
    /\ buyer' = [buyer EXCEPT ![o] = "charged"]
    /\ UNCHANGED seller

Hold(o) ==
    /\ buyer[o] = "charged"
    /\ seller[o] = "none"
    /\ seller' = [seller EXCEPT ![o] = "held"]
    /\ UNCHANGED buyer

PaySeller(o) ==
    /\ buyer[o] = "charged"
    /\ seller[o] = "held"
    /\ seller' = [seller EXCEPT ![o] = "paid"]
    /\ UNCHANGED buyer

Return(o) ==
    /\ buyer[o] = "charged"
    /\ buyer' = [buyer EXCEPT ![o] = "returned"]
    /\ seller' = [seller EXCEPT ![o] = IF @ = "none" THEN "none" ELSE "revoked"]

Next == \E o \in Orders : Charge(o) \/ Hold(o) \/ PaySeller(o) \/ Return(o)

Spec == Init /\ [][Next]_moneyVars

=============================================================================
