---------------------------- MODULE MCTradeOrder ----------------------------
(***************************************************************************)
(* Instances of TradeOrder for TLC.                                        *)
(***************************************************************************)
EXTENDS TradeProperties, TLC

CONSTANTS o1, o2, c1, c2, w1

AllCodes == [o \in Orders |-> "code"]
AllPurchases == [o \in Orders |-> "purchase"]
CodeThenPurchase == [o \in Orders |-> IF o = o1 THEN "code" ELSE "purchase"]

\* The handlers of requests run the same code.
CallersSymmetric == Permutations(Callers)

=============================================================================
