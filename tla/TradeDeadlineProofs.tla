------------------------- MODULE TradeDeadlineProofs -------------------------
(***************************************************************************)
(* The windows of an order, the deadline of its settlement and the tickets *)
(* about it, proved for every set of orders, every window and every bound  *)
(* and for all the optional operations.  Every transaction moves an order  *)
(* in one of seven ways as far as these are concerned (Moves), and each of *)
(* them keeps what the deadlines of the order have to do with each other   *)
(* and with the clock (DeadlineInv).                                       *)
(***************************************************************************)
EXTENDS TradeOrderProofs

-----------------------------------------------------------------------------
(* The inductive invariant.                                                *)

\* The time until which a ticket about o is accepted.
Deadline(o) == IF afterSale[o] # 0 THEN afterSale[o] ELSE receiveUntil[o]

OrderDeadlines(o) ==
    \* A purchase has a warranty exactly from the mail that activates it.
    /\ Mode[o] = "purchase" => (activatedAt[o] = 0 <=> afterSale[o] = 0)
    /\ Mode[o] = "code" => afterSale[o] = receiveUntil[o]
    /\ status[o] \in Unserved => activatedAt[o] = 0
    \* The settlement does not fall due before the order.
    /\ settle[o] \in {"frozen", "credited"} => availableAt[o] >= Due(o)
    /\ settle[o] = "frozen" /\ status[o] = "active" => availableAt[o] = Due(o)
    /\ settle[o] = "credited" => availableAt[o] <= now
    /\ settle[o] = "credited" => ~(Mode[o] = "code" /\ status[o] = "active")
    /\ Mode[o] = "purchase" /\ status[o] = "completed" => Deadline(o) <= now
    \* A ticket is about an order that was served, and holds its settlement.
    /\ ticket[o] => status[o] \in Served \cup {"refunded"}
    /\ ticket[o] => settle[o] # "credited"

DeadlineInv == \A o \in Orders : OrderDeadlines(o)

LEMMA InitDeadlineInv == Init => DeadlineInv
<1> SUFFICES ASSUME Init, NEW o \in Orders
             PROVE  OrderDeadlines(o)
  BY DEF DeadlineInv
<1>1. /\ activatedAt[o] = 0 /\ afterSale[o] = 0 /\ receiveUntil[o] = 0
      /\ status[o] = "absent" /\ settle[o] = "none" /\ ticket[o] = FALSE
  BY DEF Init, BillingInit, ServiceInit
<1>2. QED
  BY <1>1 DEF OrderDeadlines

-----------------------------------------------------------------------------
(* The seven ways an order moves.                                          *)

SameWindows(o) ==
    /\ startedAt'[o] = startedAt[o] /\ receiveUntil'[o] = receiveUntil[o]
    /\ activatedAt'[o] = activatedAt[o] /\ afterSale'[o] = afterSale[o]

SameSettlement(o) == settle'[o] = settle[o] /\ availableAt'[o] = availableAt[o]

\* Nothing moves but the ticket, which may be closed.
Rests(o) ==
    /\ SameWindows(o) /\ SameSettlement(o)
    /\ status'[o] = status[o] /\ supplier'[o] = supplier[o]
    /\ ticket'[o] => ticket[o]

\* The order is placed, paid for or fails.
Advances(o) ==
    /\ SameWindows(o) /\ SameSettlement(o)
    /\ status[o] \in Unserved /\ status'[o] \in Unserved
    /\ ticket'[o] = ticket[o]

Starts(o) ==
    LET until == startedAt'[o] + (IF Mode[o] = "code" THEN CodeWindow ELSE ActivationWindow)
        after == IF Mode[o] = "code" THEN until ELSE 0
    IN  /\ status[o] = "paid" /\ status'[o] = "active"
        /\ receiveUntil'[o] = until /\ afterSale'[o] = after
        /\ activatedAt'[o] = activatedAt[o] /\ supplier'[o] = supplier[o]
        /\ ticket'[o] = ticket[o]
        /\ IF supplier[o]
           THEN settle'[o] = "frozen"
                /\ availableAt'[o] = SettlementDue(Mode[o], startedAt'[o], until, after)
           ELSE SameSettlement(o)

\* A mail completes a code, or activates a purchase.
Delivers(o) ==
    /\ delivery[o] # 0 /\ settle'[o] = settle[o]
    /\ startedAt'[o] = startedAt[o] /\ supplier'[o] = supplier[o] /\ ticket'[o] = ticket[o]
    /\ \/ /\ Mode[o] = "code" /\ status[o] = "active" /\ status'[o] = "completed"
          /\ receiveUntil'[o] = delivery[o] + ReadWindow
          /\ afterSale'[o] = receiveUntil'[o]
          /\ activatedAt'[o] = activatedAt[o]
          /\ settle[o] = "frozen" => availableAt'[o] = afterSale'[o]
       \/ /\ Mode[o] = "purchase" /\ activatedAt[o] = 0 /\ delivery[o] <= receiveUntil[o]
          /\ status[o] \in {"active", "completed"}
          /\ receiveUntil'[o] = receiveUntil[o]
          /\ activatedAt'[o] = delivery[o]
          /\ afterSale'[o] = WarrantyUntil(startedAt[o], delivery[o])
          /\ \/ /\ status[o] = "completed" /\ status'[o] = "completed"
                /\ afterSale'[o] <= now /\ availableAt'[o] = availableAt[o]
             \/ /\ status'[o] = "active"
                /\ availableAt'[o] = IF settle[o] = "frozen" THEN afterSale'[o] ELSE availableAt[o]

Refunds(o) ==
    /\ status[o] \in {"active", "completed"} /\ status'[o] = "refunded"
    /\ SameWindows(o) /\ ticket'[o] = ticket[o]

\* The service of the order ends without a refund, or its supplier is paid.
Ends(o) ==
    /\ SameWindows(o) /\ supplier'[o] = supplier[o] /\ ticket'[o] = ticket[o]
    /\ \/ status'[o] = status[o]
       \/ status[o] = "active" /\ status'[o] = "closed"
       \/ /\ status[o] = "active" /\ status'[o] = "completed"
          /\ Mode[o] = "purchase" /\ Completable(o)
    /\ \/ SameSettlement(o)
       \/ /\ settle[o] = "frozen" /\ settle'[o] = "credited"
          /\ availableAt'[o] = availableAt[o] /\ availableAt[o] <= now
          /\ ~ticket[o] /\ ~(Mode[o] = "code" /\ status'[o] = "active")

Disputes(o) ==
    /\ SameWindows(o) /\ SameSettlement(o)
    /\ status'[o] = status[o] /\ supplier'[o] = supplier[o]
    /\ status[o] \in Served /\ now < Deadline(o)

Moves(o) ==
    Rests(o) \/ Advances(o) \/ Starts(o) \/ Delivers(o) \/ Refunds(o) \/ Ends(o) \/ Disputes(o)
-----------------------------------------------------------------------------
(* Each of the seven keeps the deadlines of the order in step.             *)

\* What the types and the money of the order say here.
LEMMA OrderFacts ==
  ASSUME TypeOK, MoneyInv, NEW o \in Orders
  PROVE  /\ status[o] \in Statuses /\ settle[o] \in SettlementStatuses
         /\ Mode[o] \in {"code", "purchase"}
         /\ startedAt[o] \in Nat /\ receiveUntil[o] \in Nat /\ activatedAt[o] \in Nat
         /\ afterSale[o] \in Nat /\ availableAt[o] \in Nat /\ delivery[o] \in Nat
         /\ now \in Nat
         /\ supplier[o] \in BOOLEAN /\ ticket[o] \in BOOLEAN
         /\ status[o] \in Unserved => settle[o] = "none"
         /\ ~supplier[o] => settle[o] = "none"
         /\ status[o] \in Served /\ supplier[o] => settle[o] \in {"frozen", "credited"}
         /\ status[o] = "refunded" => settle[o] \in {"none", "cancelled"}
         /\ settle[o] \in {"frozen", "credited"} => status[o] \in Served
<1>1. OrderMoneyInv(o)
  BY DEF MoneyInv
<1>2. /\ status[o] \in Statuses /\ settle[o] \in SettlementStatuses
      /\ Mode[o] \in {"code", "purchase"}
      /\ startedAt[o] \in Nat /\ receiveUntil[o] \in Nat /\ activatedAt[o] \in Nat
      /\ afterSale[o] \in Nat /\ availableAt[o] \in Nat /\ delivery[o] \in Nat
      /\ now \in Nat
      /\ supplier[o] \in BOOLEAN /\ ticket[o] \in BOOLEAN
  BY TradeAssumption DEF TypeOK, OrderTypeOK, BillingTypeOK, ServiceTypeOK
<1>3. QED
  BY <1>1, <1>2 DEF OrderMoneyInv, Statuses, Served, Unserved

\* The end of a purchase's warranty comes after its start and its mail, and no
\* later than it was expected while no mail had come.
LEMMA WarrantyTimes ==
  ASSUME NEW start \in Nat, NEW mail \in Nat, NEW until \in Nat
  PROVE  /\ WarrantyUntil(start, mail) \in Nat
         /\ mail <= WarrantyUntil(start, mail)
         /\ mail <= until => WarrantyUntil(start, mail) <= WarrantyUntil(start, until)
  BY TradeAssumption DEF WarrantyUntil, Later

LEMMA DeadlinesKept ==
  ASSUME TypeOK, TypeOK', MoneyInv, MoneyInv', NEW o \in Orders,
         OrderDeadlines(o), Moves(o), now' >= now
  PROVE  OrderDeadlines(o)'
<1>f. /\ status[o] \in Statuses /\ settle[o] \in SettlementStatuses
      /\ Mode[o] \in {"code", "purchase"}
      /\ startedAt[o] \in Nat /\ receiveUntil[o] \in Nat /\ activatedAt[o] \in Nat
      /\ afterSale[o] \in Nat /\ availableAt[o] \in Nat /\ delivery[o] \in Nat
      /\ now \in Nat
      /\ supplier[o] \in BOOLEAN /\ ticket[o] \in BOOLEAN
      /\ status[o] \in Unserved => settle[o] = "none"
      /\ ~supplier[o] => settle[o] = "none"
      /\ status[o] \in Served /\ supplier[o] => settle[o] \in {"frozen", "credited"}
      /\ settle[o] \in {"frozen", "credited"} => status[o] \in Served
  BY OrderFacts
<1>g. /\ settle'[o] \in SettlementStatuses /\ availableAt'[o] \in Nat /\ now' \in Nat
      /\ startedAt'[o] \in Nat /\ receiveUntil'[o] \in Nat /\ afterSale'[o] \in Nat
      /\ status'[o] \in Unserved => settle'[o] = "none"
      /\ status'[o] = "refunded" => settle'[o] \in {"none", "cancelled"}
      /\ settle'[o] \in {"frozen", "credited"} => status'[o] \in Served
  <2>1. /\ status'[o] \in Statuses /\ settle'[o] \in SettlementStatuses
        /\ availableAt'[o] \in Nat /\ now' \in Nat /\ supplier'[o] \in BOOLEAN
        /\ startedAt'[o] \in Nat /\ receiveUntil'[o] \in Nat /\ afterSale'[o] \in Nat
    BY DEF TypeOK, OrderTypeOK, BillingTypeOK
  <2>2. OrderMoneyInv(o)'
    BY DEF MoneyInv
  <2>3. QED
    BY <2>1, <2>2 DEF OrderMoneyInv, Statuses, Served, Unserved
<1> USE DEF OrderDeadlines, Due, SettlementDue, Deadline, SameWindows, SameSettlement,
            Served, Unserved
<1>1. CASE Rests(o)
  BY <1>1, <1>f, <1>g DEF Rests
<1>2. CASE Advances(o)
  BY <1>2, <1>f, <1>g DEF Advances
<1>3. CASE Starts(o)
  BY <1>3, <1>f, <1>g, TradeAssumption DEF Starts
<1>4. CASE Delivers(o)
  <2>1. CASE Mode[o] = "code"
    BY <1>4, <2>1, <1>f, <1>g DEF Delivers
  <2>2. CASE Mode[o] = "purchase"
    <3>1. /\ WarrantyUntil(startedAt[o], delivery[o]) \in Nat
          /\ delivery[o] <= WarrantyUntil(startedAt[o], delivery[o])
          /\ delivery[o] <= receiveUntil[o] =>
                 WarrantyUntil(startedAt[o], delivery[o]) <= WarrantyUntil(startedAt[o], receiveUntil[o])
      BY <1>f, WarrantyTimes
    <3> DEFINE until == WarrantyUntil(startedAt[o], delivery[o])
    <3>2. /\ delivery[o] # 0 /\ settle'[o] = settle[o] /\ startedAt'[o] = startedAt[o]
          /\ activatedAt[o] = 0 /\ delivery[o] <= receiveUntil[o]
          /\ receiveUntil'[o] = receiveUntil[o] /\ activatedAt'[o] = delivery[o]
          /\ afterSale'[o] = until /\ until # 0 /\ ticket'[o] = ticket[o]
          /\ status[o] \in {"active", "completed"} /\ status'[o] \in {"active", "completed"}
      BY <1>4, <2>2, <3>1, <1>f DEF Delivers
    <3>3. settle[o] \in {"frozen", "credited"} => availableAt[o] >= until
      <4> DEFINE latest == WarrantyUntil(startedAt[o], receiveUntil[o])
      <4>1. Due(o) = latest
        BY <2>2, <3>2, <1>f
      <4>2. settle[o] \in {"frozen", "credited"} => availableAt[o] >= latest
        BY <4>1
      <4>3. latest \in Nat /\ until <= latest
        BY <3>1, <3>2, <1>f, WarrantyTimes
      <4> HIDE DEF latest, until
      <4>4. until \in Nat
        BY <3>1 DEF until
      <4>5. QED
        BY <4>2, <4>3, <4>4, <1>f
    <3>4. \/ /\ status[o] = "completed" /\ status'[o] = "completed"
             /\ until <= now /\ availableAt'[o] = availableAt[o]
          \/ /\ status'[o] = "active"
             /\ availableAt'[o] = IF settle[o] = "frozen" THEN until ELSE availableAt[o]
      BY <1>4, <2>2, <3>2 DEF Delivers
    <3> HIDE DEF until
    <3>5. Due(o)' = until /\ Deadline(o)' = until
      BY <2>2, <3>2
    <3>6. QED
      BY <2>2, <3>2, <3>3, <3>4, <3>5, <1>f, <1>g
  <2>3. QED
    BY <1>f, <2>1, <2>2
<1>5. CASE Refunds(o)
  BY <1>5, <1>f, <1>g DEF Refunds
<1>6. CASE Ends(o)
  BY <1>6, <1>f, <1>g DEF Ends, Completable
<1>7. CASE Disputes(o)
  <2>1. receiveUntil[o] <= WarrantyUntil(startedAt[o], receiveUntil[o])
        /\ WarrantyUntil(startedAt[o], receiveUntil[o]) \in Nat
    BY <1>f, WarrantyTimes
  <2>2. settle[o] # "credited"
    BY <1>7, <1>f, <2>1 DEF Disputes
  <2>3. QED
    BY <1>7, <1>f, <1>g, <2>2 DEF Disputes
<1>8. QED
  BY <1>1, <1>2, <1>3, <1>4, <1>5, <1>6, <1>7 DEF Moves
-----------------------------------------------------------------------------
(* Every transaction moves every order in one of the seven ways.           *)

deadlineVars == <<status, supplier, startedAt, receiveUntil, activatedAt, afterSale,
                  settle, availableAt, ticket>>

DeadlineTypeOK ==
    /\ status \in [Orders -> Statuses] /\ supplier \in [Orders -> BOOLEAN]
    /\ startedAt \in [Orders -> Nat] /\ receiveUntil \in [Orders -> Nat]
    /\ activatedAt \in [Orders -> Nat] /\ afterSale \in [Orders -> Nat]
    /\ settle \in [Orders -> SettlementStatuses] /\ availableAt \in [Orders -> Nat]
    /\ ticket \in [Orders -> BOOLEAN]

LEMMA DeadlineTypes ==
  ASSUME TypeOK
  PROVE  DeadlineTypeOK
  BY DEF TypeOK, OrderTypeOK, BillingTypeOK, ServiceTypeOK, DeadlineTypeOK

LEMMA UnmovedRests ==
  ASSUME UNCHANGED deadlineVars
  PROVE  \A q \in Orders : Moves(q)
  BY DEF deadlineVars, Moves, Rests, SameWindows, SameSettlement

LEMMA MatchedDelivers ==
  ASSUME TypeOK, MoneyInv, NEW o \in Orders, NEW seen \in Int, seen <= now, Matched(o, seen)
  PROVE  \A q \in Orders : Moves(q)
<1>t. DeadlineTypeOK
  BY DeadlineTypes
<1>f. /\ Mode[o] \in {"code", "purchase"} /\ now \in Nat
      /\ ~supplier[o] => settle[o] = "none"
      /\ startedAt[o] \in Nat /\ delivery[o] \in Nat /\ receiveUntil[o] \in Nat
  BY OrderFacts
<1>1. /\ UNCHANGED <<startedAt, supplier, ticket, settle>>
  BY DEF Matched, CodeMatched, PurchaseMatched, RescheduleSettlement, supplierVars
<1>2. Delivers(o)
  <2>1. CASE CodeMatched(o)
    <3>1. Mode[o] = "code" /\ delivery[o] # 0 /\ status[o] = "active"
      BY <2>1 DEF Matched, Undelivered, CodeMatched
    <3>2. settle[o] = "frozen" => availableAt'[o] = afterSale'[o]
      BY <2>1, <1>t, <1>f DEF CodeMatched, RescheduleSettlement, DeadlineTypeOK
    <3>3. QED
      BY <2>1, <1>t, <1>1, <3>1, <3>2 DEF CodeMatched, Delivers, DeadlineTypeOK
  <2>2. CASE PurchaseMatched(o, seen)
    <3> DEFINE until == WarrantyUntil(startedAt[o], delivery[o])
               over == status[o] = "completed" /\ until <= seen
    <3>1. /\ Mode[o] = "purchase" /\ delivery[o] # 0 /\ activatedAt[o] = 0
          /\ delivery[o] <= receiveUntil[o] /\ status[o] \in {"active", "completed"}
      BY <2>2 DEF Matched, Undelivered, PurchaseMatched
    <3>2. until \in Nat
      BY <1>f, WarrantyTimes
    <3>3. /\ receiveUntil'[o] = receiveUntil[o] /\ activatedAt'[o] = delivery[o]
          /\ afterSale'[o] = until
          /\ status'[o] = IF over THEN "completed" ELSE "active"
      BY <2>2, <1>t DEF PurchaseMatched, DeadlineTypeOK
    <3>4. CASE over
      <4>1. availableAt'[o] = availableAt[o]
        BY <2>2, <3>4 DEF PurchaseMatched, supplierVars
      <4>2. until <= now
        BY <3>2, <3>4, <1>f
      <4> HIDE DEF until
      <4>3. QED
        BY <1>1, <3>1, <3>3, <3>4, <4>1, <4>2 DEF Delivers, until
    <3>5. CASE ~over
      <4>1. supplier[o] => RescheduleSettlement(o, until)
        BY <2>2, <3>5 DEF PurchaseMatched
      <4>2. ~supplier[o] => UNCHANGED supplierVars
        BY <2>2, <3>5 DEF PurchaseMatched
      <4> HIDE DEF until, over
      <4>3. availableAt'[o] = IF settle[o] = "frozen" THEN until ELSE availableAt[o]
        BY <4>1, <4>2, <1>f, <1>t DEF RescheduleSettlement, supplierVars, DeadlineTypeOK
      <4>4. QED
        BY <1>1, <3>1, <3>3, <3>5, <4>3 DEF Delivers, until
    <3>6. QED
      BY <3>4, <3>5
  <2>3. QED
    BY <2>1, <2>2 DEF Matched
<1>3. ASSUME NEW q \in Orders, q # o
      PROVE  Rests(q)
  <2>1. status'[q] = status[q] /\ SameWindows(q)
    BY <1>3, <1>t DEF Matched, CodeMatched, PurchaseMatched, SameWindows, DeadlineTypeOK
  <2>2. availableAt'[q] = availableAt[q]
    BY <1>3, <1>t
       DEF Matched, CodeMatched, PurchaseMatched, RescheduleSettlement, supplierVars, DeadlineTypeOK
  <2>3. QED
    BY <1>1, <2>1, <2>2 DEF Rests, SameSettlement
<1>4. QED
  BY <1>2, <1>3 DEF Moves

LEMMA RefundMoves ==
  ASSUME TypeOK, NEW o \in Orders, NEW key, status[o] \in {"active", "completed"},
         RefundTransaction(o, key)
  PROVE  \A q \in Orders : Moves(q)
<1>t. DeadlineTypeOK
  BY DeadlineTypes
<1>1. UNCHANGED <<startedAt, receiveUntil, activatedAt, afterSale, supplier, ticket, availableAt>>
  BY DEF RefundTransaction, CancelSettlement, windowVars, serviceVars, supplierVars
<1>2. \A q \in Orders \ {o} : settle'[q] = settle[q] /\ status'[q] = status[q]
  BY <1>t DEF RefundTransaction, CancelSettlement, supplierVars, DeadlineTypeOK
<1>3. status'[o] = "refunded"
  BY <1>t DEF RefundTransaction, DeadlineTypeOK
<1>4. QED
  BY <1>1, <1>2, <1>3 DEF Moves, Refunds, Rests, SameWindows, SameSettlement

LEMMA AdvanceMoves ==
  ASSUME TypeOK, NEW o \in Orders, NEW s \in Unserved, status[o] \in Unserved,
         status' = [status EXCEPT ![o] = s],
         \A q \in Orders \ {o} : supplier'[q] = supplier[q],
         UNCHANGED <<windowVars, settle, availableAt, ticket>>
  PROVE  \A q \in Orders : Moves(q)
<1>t. DeadlineTypeOK
  BY DeadlineTypes
<1>1. QED
  BY <1>t DEF Moves, Advances, Rests, SameWindows, SameSettlement, windowVars, DeadlineTypeOK

LEMMA RequestMoves ==
  ASSUME TypeOK, MoneyInv, NEW p \in Callers, NEW o \in Orders, Request(p, o)
  PROVE  \A q \in Orders : Moves(q)
<1>t. DeadlineTypeOK
  BY DeadlineTypes
<1>1. CASE PlaceOrder(p, o)
  BY <1>1, AdvanceMoves DEF PlaceOrder, Unserved, billingVars, serviceVars
<1>2. CASE \/ ResumeCheckout(p, o)
           \/ (\E t \in 1..MaxTime : MatchMail(p, o, t))
           \/ AdminRetryOrderCleanup(p, o)
  BY <1>2, UnmovedRests
     DEF ResumeCheckout, MatchMail, AdminRetryOrderCleanup, orderVars, billingVars, serviceVars,
         deadlineVars
<1>3. CASE \E key \in AdminKeys : AdminRefundOrder(p, o, key)
  BY <1>3, RefundMoves DEF AdminRefundOrder
<1>4. CASE AdminTerminateOrder(p, o)
  BY <1>4, <1>t
     DEF AdminTerminateOrder, Moves, Ends, Rests, SameWindows, SameSettlement, windowVars,
         billingVars, serviceVars, DeadlineTypeOK
<1>5. QED
  BY <1>1, <1>2, <1>3, <1>4 DEF Request

LEMMA ScanMoves ==
  ASSUME TypeOK, MoneyInv, NEW o \in Orders,
         (\E p \in Workers : ScanWork(p, o)) \/ ScanStep(o)
  PROVE  \A q \in Orders : Moves(q)
<1>t. DeadlineTypeOK /\ now \in Nat
  BY DeadlineTypes DEF TypeOK
<1>1. ASSUME NEW p \in Workers, ExpireCodeOrder(p, o) \/ RefundUnavailable(p, o)
      PROVE  \A q \in Orders : Moves(q)
  BY <1>t, <1>1, RefundMoves, MatchedDelivers
     DEF ExpireCodeOrder, RefundUnavailable, SystemRefund
<1>2. ASSUME NEW p \in Workers,
             \/ RecoverPaid(p, o) \/ RecoverAllocation(p, o) \/ SweepCleanup(p, o)
             \/ SweepReadCode(p, o)
      PROVE  \A q \in Orders : Moves(q)
  BY <1>2, UnmovedRests
     DEF RecoverPaid, RecoverAllocation, SweepCleanup, SweepReadCode, orderVars, billingVars,
         serviceVars, deadlineVars
<1>3. CASE ReconcileDelivery(o)
  BY <1>t, <1>3, MatchedDelivers DEF ReconcileDelivery
<1>4. CASE CompleteExpiredOrder(o)
  <2>1. Completable(o) /\ status[o] = "active" /\ Mode[o] = "purchase"
    BY <1>4 DEF CompleteExpiredOrder, Completable
  <2>2. QED
    BY <1>4, <1>t, <2>1
       DEF CompleteExpiredOrder, Moves, Ends, Rests, SameWindows, SameSettlement, windowVars,
           billingVars, serviceVars, DeadlineTypeOK
<1>5. CASE SettleSupplierOrder(o)
  <2>1. /\ settle[o] = "frozen" /\ availableAt[o] <= now /\ ~ticket[o]
        /\ settle' = [settle EXCEPT ![o] = "credited"]
        /\ UNCHANGED <<availableAt, supplier, startedAt, receiveUntil, activatedAt, afterSale, ticket>>
    BY <1>5 DEF SettleSupplierOrder, CreditSettlement, CanCredit, windowVars, serviceVars
  <2>2. \/ UNCHANGED status /\ ~(status[o] = "active")
        \/ /\ status[o] = "active" /\ Mode[o] = "purchase" /\ Completable(o)
           /\ status' = [status EXCEPT ![o] = "completed"]
    BY <1>5 DEF SettleSupplierOrder, Completable
  <2>3. Ends(o)
    BY <2>1, <2>2, <1>t DEF Ends, SameWindows, DeadlineTypeOK
  <2>4. \A q \in Orders \ {o} : Rests(q)
    BY <2>1, <2>2, <1>t DEF Rests, SameWindows, SameSettlement, DeadlineTypeOK
  <2>5. QED
    BY <2>3, <2>4 DEF Moves
<1>6. QED
  BY <1>1, <1>2, <1>3, <1>4, <1>5 DEF ScanWork, ScanStep

LEMMA ContinueMoves ==
  ASSUME TypeOK, MoneyInv, NEW p \in Procs, NEW o \in Orders, Continue(p, o)
  PROVE  \A q \in Orders : Moves(q)
<1>t. DeadlineTypeOK /\ now \in Nat /\ proc[p].at \in Nat
  BY DeadlineTypes DEF TypeOK, ProcTypeOK, ProcStates
<1>1. CASE \/ Allocate(p, o) \/ AllocateFails(p, o) \/ PayRefused(p, o) \/ IssueToken(p, o)
           \/ ActivateConflict(p, o) \/ ReturnToken(p, o) \/ DropAllocation(p, o)
           \/ SaveDelivery(p, o) \/ CleanupRelease(p, o) \/ CleanupDisable(p, o)
           \/ MarkServiceCleanup(p, o)
  BY <1>1, UnmovedRests
     DEF Allocate, AllocateFails, PayRefused, IssueToken, ActivateConflict, ReturnToken,
         DropAllocation, SaveDelivery, CleanupRelease, CleanupDisable, MarkServiceCleanup,
         orderVars, windowVars, billingVars, serviceVars, deadlineVars
<1>2. CASE PayPending(p, o)
  BY <1>2, <1>t, AdvanceMoves
     DEF PayPending, Unserved, supplierVars, serviceVars, DeadlineTypeOK
<1>3. CASE FailPending(p, o)
  <2>1. CASE status[o] \in FailableStatuses
    BY <1>3, <2>1, AdvanceMoves DEF FailPending, FailableStatuses, Unserved, billingVars
  <2>2. CASE status[o] \notin FailableStatuses
    BY <1>3, <2>2, UnmovedRests DEF FailPending, windowVars, billingVars, deadlineVars
  <2>3. QED
    BY <2>1, <2>2
<1>4. CASE Activate(p, o)
  <2>1. /\ status[o] = "paid" /\ status' = [status EXCEPT ![o] = "active"]
        /\ UNCHANGED <<supplier, activatedAt, ticket>>
        /\ \A q \in Orders \ {o} : SameWindows(q)
    BY <1>4, <1>t DEF Activate, serviceVars, SameWindows, DeadlineTypeOK
  <2>2. settle[o] = "none"
    BY <2>1, OrderFacts DEF Unserved
  <2> DEFINE start == proc[p].at
             until == start + (IF Mode[o] = "code" THEN CodeWindow ELSE ActivationWindow)
             after == IF Mode[o] = "code" THEN until ELSE 0
             due == SettlementDue(Mode[o], start, until, after)
  <2>3. startedAt'[o] = start /\ receiveUntil'[o] = until /\ afterSale'[o] = after
    BY <1>4, <1>t DEF Activate, DeadlineTypeOK
  <2>4. IF supplier[o] THEN FreezeSettlement(o, due) ELSE UNCHANGED supplierVars
    BY <1>4 DEF Activate
  <2>5. /\ IF supplier[o] THEN settle'[o] = "frozen" /\ availableAt'[o] = due
                          ELSE SameSettlement(o)
        /\ \A q \in Orders \ {o} : SameSettlement(q)
    <3> HIDE DEF due
    <3>1. QED
      BY <2>2, <2>4, <1>t DEF FreezeSettlement, supplierVars, SameSettlement, DeadlineTypeOK
  <2>6. Starts(o)
    BY <2>1, <2>3, <2>5, <1>t DEF Starts, DeadlineTypeOK
  <2>7. \A q \in Orders \ {o} : Rests(q)
    BY <2>1, <2>5, <1>t DEF Rests, DeadlineTypeOK
  <2>8. QED
    BY <2>6, <2>7 DEF Moves
<1>5. CASE Compensate(p, o)
  <2>1. CASE status[o] = "paid"
    BY <1>5, <2>1, AdvanceMoves DEF Compensate, Unserved, supplierVars
  <2>2. CASE status[o] # "paid"
    BY <1>5, <2>2, UnmovedRests DEF Compensate, windowVars, supplierVars, deadlineVars
  <2>3. QED
    BY <2>1, <2>2
<1>6. CASE NotifyMatchedCode(p, o)
  <2>1. CASE \E seen \in proc[p].at..now : Matched(o, seen)
    BY <1>t, <2>1, MatchedDelivers
  <2>2. CASE UNCHANGED <<orderVars, billingVars, serviceVars>>
    BY <2>2, UnmovedRests DEF orderVars, billingVars, serviceVars, deadlineVars
  <2>3. QED
    BY <1>6, <2>1, <2>2 DEF NotifyMatchedCode
<1>7. QED
  BY <1>1, <1>2, <1>3, <1>4, <1>5, <1>6 DEF Continue
LEMMA NextMoves ==
  ASSUME TypeOK, MoneyInv, [Next]_vars
  PROVE  now' >= now /\ \A q \in Orders : Moves(q)
<1>t. DeadlineTypeOK /\ now \in Nat
  BY DeadlineTypes DEF TypeOK
<1>1. now' >= now
  <2>1. CASE Tick
    BY <1>t, <2>1 DEF Tick
  <2>2. CASE now' = now
    BY <1>t, <2>2
  <2>3. ASSUME NEW p \in Procs, NEW o \in Orders, Request(p, o) \/ ScanWork(p, o)
        PROVE  now' = now
    BY <2>3
       DEF Request, PlaceOrder, ResumeCheckout, MatchMail, AdminRefundOrder, AdminTerminateOrder,
           AdminRetryOrderCleanup, ScanWork, RecoverPaid, RecoverAllocation, ExpireCodeOrder,
           RefundUnavailable, SweepCleanup, SweepReadCode
  <2>4. ASSUME NEW p \in Procs, NEW o \in Orders, Continue(p, o) \/ FulfilFails(p, o)
        PROVE  now' = now
    BY <2>4
       DEF Continue, Allocate, AllocateFails, PayPending, PayRefused, FailPending, IssueToken,
           Activate, ActivateConflict, Compensate, ReturnToken, DropAllocation, SaveDelivery,
           NotifyMatchedCode, CleanupRelease, CleanupDisable, MarkServiceCleanup, FulfilFails
  <2>5. ASSUME NEW o \in Orders, ScanStep(o) \/ Surroundings(o)
        PROVE  now' = now
    BY <2>5
       DEF ScanStep, ReconcileDelivery, CompleteExpiredOrder, SettleSupplierOrder, Surroundings,
           OpenTicket, CloseTicket, Archive, Validate
  <2>6. ASSUME Withdraw \/ (\E p \in Procs : Crash(p)) \/ UNCHANGED vars
        PROVE  now' = now
    BY <2>6 DEF Withdraw, Crash, vars
  <2>7. QED
    BY <2>1, <2>2, <2>3, <2>4, <2>5, <2>6 DEF Next, Procs
<1>2. ASSUME NEW o \in Orders, OpenTicket(o) \/ CloseTicket(o)
      PROVE  \A q \in Orders : Moves(q)
  <2>1. UNCHANGED <<status, supplier, startedAt, receiveUntil, activatedAt, afterSale, settle, availableAt>>
    BY <1>2 DEF OpenTicket, CloseTicket, orderVars, billingVars
  <2>2. CASE OpenTicket(o)
    <3>1. status[o] \in Served /\ now < Deadline(o)
      BY <2>2 DEF OpenTicket, Served, Deadline
    <3>2. \A q \in Orders \ {o} : ticket'[q] = ticket[q]
      BY <2>2, <1>t DEF OpenTicket, DeadlineTypeOK
    <3>3. QED
      BY <2>1, <3>1, <3>2 DEF Moves, Disputes, Rests, SameWindows, SameSettlement
  <2>3. CASE CloseTicket(o)
    <3>1. \A q \in Orders : ticket'[q] => ticket[q]
      BY <2>3, <1>t DEF CloseTicket, DeadlineTypeOK
    <3>2. QED
      BY <2>1, <3>1 DEF Moves, Rests, SameWindows, SameSettlement
  <2>4. QED
    BY <1>2, <2>2, <2>3
<1>3. ASSUME \/ \E o \in Orders : Archive(o) \/ Validate(o)
             \/ \E p \in Procs, o \in Orders : FulfilFails(p, o)
             \/ \E p \in Procs : Crash(p)
             \/ Withdraw \/ Tick \/ UNCHANGED vars
      PROVE  \A q \in Orders : Moves(q)
  <2> USE DEF vars, orderVars, windowVars, billingVars, serviceVars, deadlineVars
  <2>1. CASE \/ \E o \in Orders : Archive(o) \/ Validate(o)
             \/ \E p \in Procs, o \in Orders : FulfilFails(p, o)
             \/ \E p \in Procs : Crash(p)
    BY <2>1, UnmovedRests DEF Archive, Validate, FulfilFails, Crash
  <2>2. CASE Withdraw
    BY <2>2, UnmovedRests DEF Withdraw, WithdrawSupplier
  <2>3. CASE Tick \/ UNCHANGED vars
    BY <2>3, UnmovedRests DEF Tick
  <2>4. QED
    BY <1>3, <2>1, <2>2, <2>3
<1>4. \A q \in Orders : Moves(q)
  BY <1>2, <1>3, RequestMoves, ScanMoves, ContinueMoves DEF Next, Surroundings
<1>5. QED
  BY <1>1, <1>4

LEMMA DeadlineInvStep ==
  ASSUME TypeOK, TypeOK', MoneyInv, MoneyInv', DeadlineInv, [Next]_vars
  PROVE  DeadlineInv'
<1>1. now' >= now /\ \A o \in Orders : Moves(o)
  BY NextMoves
<1>2. ASSUME NEW o \in Orders
      PROVE  OrderDeadlines(o)'
  <2>1. OrderDeadlines(o)
    BY DEF DeadlineInv
  <2>2. QED
    BY <1>1, <2>1, DeadlinesKept
<1>3. QED
  BY <1>2 DEF DeadlineInv

LEMMA DeadlineInvariant == Spec => [](TypeOK /\ MoneyInv /\ DeadlineInv)
<1>1. /\ TypeOK /\ MoneyInv /\ DeadlineInv /\ [Next]_vars
      /\ (TypeOK /\ MoneyInv)'
      => DeadlineInv'
  BY DeadlineInvStep
<1>2. QED
  BY <1>1, InitDeadlineInv, MoneyInvariant, PTL DEF Spec

-----------------------------------------------------------------------------
(* What follows for the settlements, the tickets and the purchases.        *)

\* A settlement never falls due before its order, and follows every change of the
\* windows of an order in service: the mail that completes or activates it, and a
\* late mail that takes a completed purchase back into service.
THEOREM SettlementInStepCorrect == Spec => []SettlementInStep
<1>1. DeadlineInv => SettlementInStep
  BY DEF DeadlineInv, OrderDeadlines, SettlementInStep
<1>2. QED
  BY <1>1, DeadlineInvariant, PTL

\* While a ticket is open the supplier's share of an order that was not refunded is
\* frozen: no ticket can be opened once the share was credited, as the deadline for
\* tickets passes no later than the settlement's, and no open one lets it be credited.
THEOREM DisputeHoldsMoneyCorrect == Spec => []DisputeHoldsMoney
<1>1. TypeOK /\ MoneyInv /\ DeadlineInv => DisputeHoldsMoney
  <2>1. ASSUME TypeOK, MoneyInv, DeadlineInv, NEW o \in Orders,
               ticket[o], supplier[o], refundTx[o] = "none"
        PROVE  settle[o] = "frozen"
    BY <2>1 DEF DeadlineInv, OrderDeadlines, MoneyInv, OrderMoneyInv, Served
  <2>2. QED
    BY <2>1 DEF DisputeHoldsMoney
<1>2. QED
  BY <1>1, DeadlineInvariant, PTL

\* A purchase is completed only when the last of its windows is over, whichever of
\* the scan, the settlement and a mail that came too late completes it.
THEOREM ServedToTheEndCorrect == Spec => []ServedToTheEnd
<1>1. TypeOK /\ DeadlineInv => ServedToTheEnd
  BY DEF DeadlineInv, OrderDeadlines, Deadline, ServedToTheEnd
<1>2. QED
  BY <1>1, DeadlineInvariant, PTL

=============================================================================
