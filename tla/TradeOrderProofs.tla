-------------------------- MODULE TradeOrderProofs --------------------------
(***************************************************************************)
(* Theorems about TradeOrder, for every set of orders, of handlers and of  *)
(* administrators' keys, every price, share and window, and every bound:   *)
(* its types, then its money.  The argument about the money has three      *)
(* parts.  Every transaction moves the money in one of five ways           *)
(* (MoneySteps).  The status of an order determines what the ledger and    *)
(* the settlement of that order hold, which is inductive (MoneyInv).  From *)
(* these two follow the properties of the ledger, the sums over all orders *)
(* and the refinement of OrderMoney.                                       *)
(***************************************************************************)
EXTENDS TradeProperties, FiniteSetTheorems, TLAPS

USE MoneyAssumption, ScopesAssumption, TradeAssumption

-----------------------------------------------------------------------------
(* Type correctness.  Each call of another component preserves the types   *)
(* of that component's tables, given the arguments the handlers pass.      *)

LEMMA InitTypeOK == Init => TypeOK
  BY DEF Init, TypeOK, OrderTypeOK, ProcTypeOK, BillingInit, BillingTypeOK, ServiceInit,
         ServiceTypeOK, SettlementStatuses, Statuses, Idle, ProcStates, Labels, Procs, RefundKeys

LEMMA LabelsType == \A s, held : NextLabel(s, held) \in Labels
  BY DEF NextLabel, Labels

LEMMA StateType ==
  ASSUME NEW r \in ProcStates
  PROVE  /\ \A l \in Labels : [r EXCEPT !.pc = l] \in ProcStates
         /\ \A l \in Labels, b \in BOOLEAN : [r EXCEPT !.pc = l, !.held = b] \in ProcStates
         /\ \A l \in Labels, b \in BOOLEAN : [r EXCEPT !.pc = l, !.bad = b] \in ProcStates
         /\ \A l \in Labels, t \in Nat : [r EXCEPT !.pc = l, !.at = t] \in ProcStates
  BY DEF ProcStates

LEMMA StartType ==
  ASSUME ProcTypeOK, NEW p \in Procs, NEW o \in Orders, NEW l \in Labels, Start(p, o, l)
  PROVE  ProcTypeOK'
  BY DEF ProcTypeOK, Start, ProcStates, Idle

LEMMA GotoType ==
  ASSUME ProcTypeOK, NEW p \in Procs, NEW l \in Labels, Goto(p, l)
  PROVE  ProcTypeOK'
<1>1. [proc[p] EXCEPT !.pc = l] \in ProcStates
  BY StateType DEF ProcTypeOK
<1>2. QED
  BY <1>1 DEF ProcTypeOK, Goto

LEMMA DoneType ==
  ASSUME ProcTypeOK, NEW p \in Procs, Done(p)
  PROVE  ProcTypeOK'
  BY DEF ProcTypeOK, Done, ProcStates, Idle, Labels

LEMMA ResumeType ==
  ASSUME ProcTypeOK, NEW p \in Procs, NEW s, NEW held \in BOOLEAN, Resume(p, s, held)
  PROVE  ProcTypeOK'
<1>1. proc[p].ord \in Orders \cup {NoOrder}
  BY DEF ProcTypeOK, ProcStates
<1>2. \A l \in Labels, c \in Orders \cup {NoOrder} :
         [Idle EXCEPT !.pc = l, !.ord = c, !.held = held] \in ProcStates
  BY DEF ProcStates, Idle
<1>3. Idle \in ProcStates
  BY DEF Idle, ProcStates, Labels
<1>4. QED
  BY <1>1, <1>2, <1>3, LabelsType DEF ProcTypeOK, Resume

(* What the calls of the other components return has the types of their    *)
(* tables.                                                                 *)

LEMMA RefundConsumerType ==
  ASSUME BillingTypeOK, NEW o \in Orders, NEW key \in RefundKeys, NEW amount \in Nat,
         RefundConsumer(o, key, amount)
  PROVE  /\ balance' \in Nat
         /\ debited' \in [Orders -> BOOLEAN]
         /\ refunds' \in [Orders -> SUBSET RefundKeys]
  BY DEF BillingTypeOK, RefundConsumer

LEMMA DebitConsumerType ==
  ASSUME BillingTypeOK, NEW o \in Orders, NEW amount \in Nat,
         CanDebit(o, amount), DebitConsumer(o, amount)
  PROVE  /\ balance' \in Nat
         /\ debited' \in [Orders -> BOOLEAN]
         /\ refunds' \in [Orders -> SUBSET RefundKeys]
  BY DEF BillingTypeOK, CanDebit, DebitConsumer

\* The types of the settlements and the supplier's wallet.
SupplierTypeOK ==
    /\ settle \in [Orders -> SettlementStatuses]
    /\ availableAt \in [Orders -> Nat]
    /\ frozen \in Int
    /\ available \in Int
    /\ withdrawn \in Nat

LEMMA SettlementType ==
  ASSUME BillingTypeOK, NEW o \in Orders, NEW due \in Nat,
         \/ FreezeSettlement(o, due)
         \/ RescheduleSettlement(o, due)
         \/ CreditSettlement(o, due)
         \/ CancelSettlement(o)
         \/ UNCHANGED supplierVars
  PROVE  SupplierTypeOK'
<1> USE DEF BillingTypeOK, SupplierTypeOK, SettlementStatuses, supplierVars
<1>1. CASE FreezeSettlement(o, due)
  BY <1>1 DEF FreezeSettlement
<1>2. CASE RescheduleSettlement(o, due)
  BY <1>2 DEF RescheduleSettlement
<1>3. CASE CreditSettlement(o, due)
  BY <1>3 DEF CreditSettlement
<1>4. CASE CancelSettlement(o)
  BY <1>4 DEF CancelSettlement
<1>5. CASE UNCHANGED supplierVars
  BY <1>5
<1>6. QED
  BY <1>1, <1>2, <1>3, <1>4, <1>5

LEMMA RefundTransactionType ==
  ASSUME TypeOK, NEW o \in Orders, NEW key \in RefundKeys, RefundTransaction(o, key)
  PROVE  OrderTypeOK' /\ BillingTypeOK' /\ ServiceTypeOK'
<1>1. SupplierTypeOK'
  BY SettlementType DEF RefundTransaction, TypeOK
<1>2. pay[o] \in Nat
  BY DEF TypeOK, OrderTypeOK
<1>3. /\ balance' \in Nat
      /\ debited' \in [Orders -> BOOLEAN]
      /\ refunds' \in [Orders -> SUBSET RefundKeys]
  BY <1>2, RefundConsumerType DEF RefundTransaction, TypeOK
<1>4. OrderTypeOK'
  BY DEF RefundTransaction, TypeOK, OrderTypeOK, Statuses, windowVars
<1>5. ServiceTypeOK'
  BY DEF RefundTransaction, TypeOK, ServiceTypeOK, serviceVars
<1>6. QED
  BY <1>1, <1>3, <1>4, <1>5 DEF SupplierTypeOK, BillingTypeOK

LEMMA MatchedType ==
  ASSUME TypeOK, NEW o \in Orders, NEW seen \in Int, Matched(o, seen)
  PROVE  OrderTypeOK' /\ BillingTypeOK' /\ ServiceTypeOK'
<1> DEFINE codeUntil == delivery[o] + ReadWindow
           purchaseUntil == WarrantyUntil(startedAt[o], delivery[o])
<1>1. codeUntil \in Nat /\ purchaseUntil \in Nat
  BY DEF TypeOK, OrderTypeOK, ServiceTypeOK, WarrantyUntil, Later
<1>2. SupplierTypeOK'
  <2>1. \/ RescheduleSettlement(o, codeUntil)
        \/ RescheduleSettlement(o, purchaseUntil)
        \/ UNCHANGED supplierVars
    BY DEF Matched, CodeMatched, PurchaseMatched
  <2> HIDE DEF codeUntil, purchaseUntil
  <2>2. QED
    BY <1>1, <2>1, SettlementType DEF TypeOK
<1>3. BillingTypeOK'
  BY <1>2 DEF Matched, TypeOK, BillingTypeOK, SupplierTypeOK, buyerVars
<1>4. OrderTypeOK' /\ ServiceTypeOK'
  <2> USE DEF Matched, TypeOK, OrderTypeOK, ServiceTypeOK, Statuses
  <2>1. CASE CodeMatched(o)
    BY <1>1, <2>1 DEF CodeMatched, ExtendOrderToken
  <2>2. CASE PurchaseMatched(o, seen)
    BY <1>1, <2>2 DEF PurchaseMatched
  <2>3. QED
    BY <2>1, <2>2
<1>5. QED
  BY <1>3, <1>4

(* Every step of every handler preserves the types.                        *)

LEMMA StepLabels ==
  /\ {"allocate", "reallocate", "sweep", "issue", "activate", "compensate", "token",
      "drop", "save", "notify", "release", "disable", "mark", "pay", "fail"} \subseteq Labels
  /\ \A key \in AdminKeys : key \in RefundKeys
  /\ "order" \in RefundKeys
  BY DEF Labels, RefundKeys

LEMMA RequestTypeOK ==
  ASSUME TypeOK, NEW p \in Callers, NEW o \in Orders, Request(p, o)
  PROVE  TypeOK'
<1> USE StepLabels DEF TypeOK
<1>p. p \in Procs
  BY DEF Procs
<1>1. CASE PlaceOrder(p, o)
  BY <1>p, <1>1, StartType
     DEF PlaceOrder, OrderTypeOK, Statuses, windowVars, BillingTypeOK, billingVars,
         ServiceTypeOK, serviceVars
<1>2. CASE ResumeCheckout(p, o)
  BY <1>p, <1>2, StartType, LabelsType
     DEF ResumeCheckout, OrderTypeOK, orderVars, windowVars, BillingTypeOK, billingVars,
         ServiceTypeOK, serviceVars
<1>3. CASE \E t \in 1..MaxTime : MatchMail(p, o, t)
  <2>1. PICK t \in 1..MaxTime : MatchMail(p, o, t)
    BY <1>3
  <2>2. [Idle EXCEPT !.pc = "save", !.ord = o, !.at = t] \in ProcStates
    <3>1. t \in Nat
      OBVIOUS
    <3>2. "save" \in Labels
      BY DEF Labels
    <3>3. QED
      BY <3>1, <3>2 DEF Idle, ProcStates
  <2>3. ProcTypeOK'
    <3> HIDE DEF TypeOK
    <3>1. ProcTypeOK
      BY DEF TypeOK
    <3>2. proc' = [proc EXCEPT ![p] = [Idle EXCEPT !.pc = "save", !.ord = o, !.at = t]]
      BY <2>1 DEF MatchMail
    <3>3. QED
      BY <1>p, <2>2, <3>1, <3>2 DEF ProcTypeOK
  <2>4. QED
    BY <2>1, <2>3 DEF MatchMail, OrderTypeOK, orderVars, windowVars, BillingTypeOK,
                      billingVars, ServiceTypeOK, serviceVars
<1>4. CASE \E key \in AdminKeys : AdminRefundOrder(p, o, key)
  BY <1>p, <1>4, StartType, RefundTransactionType DEF AdminRefundOrder
<1>5. CASE AdminTerminateOrder(p, o)
  BY <1>p, <1>5, StartType
     DEF AdminTerminateOrder, OrderTypeOK, Statuses, windowVars, BillingTypeOK, billingVars,
         ServiceTypeOK, serviceVars
<1>6. CASE AdminRetryOrderCleanup(p, o)
  BY <1>p, <1>6, StartType
     DEF AdminRetryOrderCleanup, OrderTypeOK, orderVars, windowVars, BillingTypeOK,
         billingVars, ServiceTypeOK, serviceVars
<1>7. QED
  BY <1>1, <1>2, <1>3, <1>4, <1>5, <1>6 DEF Request

LEMMA SystemRefundTypeOK ==
  ASSUME TypeOK, NEW p \in Procs, NEW o \in Orders, SystemRefund(p, o)
  PROVE  OrderTypeOK' /\ BillingTypeOK' /\ ServiceTypeOK' /\ ProcTypeOK'
<1> USE StepLabels DEF TypeOK
<1>1. CASE RefundTransaction(o, "order") /\ Start(p, o, "release")
  BY <1>1, StartType, RefundTransactionType
<1>2. CASE Matched(o, now) /\ UNCHANGED proc
  BY <1>2, MatchedType DEF ProcTypeOK
<1>3. QED
  BY <1>1, <1>2 DEF SystemRefund

LEMMA ScanWorkTypeOK ==
  ASSUME TypeOK, NEW p \in Workers, NEW o \in Orders, ScanWork(p, o)
  PROVE  TypeOK'
<1> USE StepLabels DEF TypeOK
<1>p. p \in Procs
  BY DEF Procs
<1>1. CASE ExpireCodeOrder(p, o) \/ RefundUnavailable(p, o)
  BY <1>p, <1>1, SystemRefundTypeOK DEF ExpireCodeOrder, RefundUnavailable
<1>2. CASE RecoverPaid(p, o) \/ RecoverAllocation(p, o) \/ SweepCleanup(p, o)
           \/ SweepReadCode(p, o)
  BY <1>p, <1>2, StartType
     DEF RecoverPaid, RecoverAllocation, SweepCleanup, SweepReadCode, OrderTypeOK,
         orderVars, windowVars, BillingTypeOK, billingVars, ServiceTypeOK, serviceVars
<1>3. QED
  BY <1>1, <1>2 DEF ScanWork

LEMMA ScanStepTypeOK ==
  ASSUME TypeOK, NEW o \in Orders, ScanStep(o)
  PROVE  TypeOK'
<1> USE DEF TypeOK
<1>1. CASE ReconcileDelivery(o)
  <2>1. PICK seen \in {now - 1, now} : Matched(o, seen)
    BY <1>1 DEF ReconcileDelivery
  <2>2. QED
    BY <1>1, <2>1, MatchedType DEF ReconcileDelivery, ProcTypeOK
<1>2. CASE CompleteExpiredOrder(o)
  BY <1>2 DEF CompleteExpiredOrder, OrderTypeOK, Statuses, windowVars, BillingTypeOK,
              billingVars, ServiceTypeOK, serviceVars, ProcTypeOK
<1>3. CASE SettleSupplierOrder(o)
  <2>1. SupplierTypeOK'
    BY <1>3, SettlementType DEF SettleSupplierOrder
  <2>2. QED
    BY <1>3, <2>1 DEF SettleSupplierOrder, OrderTypeOK, Statuses, windowVars,
       BillingTypeOK, SupplierTypeOK, buyerVars, ServiceTypeOK, serviceVars, ProcTypeOK
<1>4. QED
  BY <1>1, <1>2, <1>3 DEF ScanStep

LEMMA CheckoutTypeOK ==
  ASSUME TypeOK, NEW p \in Procs, NEW o \in Orders,
         \/ Allocate(p, o) \/ AllocateFails(p, o) \/ PayPending(p, o) \/ PayRefused(p, o)
         \/ FailPending(p, o) \/ DropAllocation(p, o)
  PROVE  TypeOK'
<1> USE StepLabels DEF TypeOK
<1>h. proc[p].held \in BOOLEAN
  BY DEF ProcTypeOK, ProcStates
<1>1. CASE Allocate(p, o)
  <2>1. ProcTypeOK'
    <3>1. [proc[p] EXCEPT !.pc = "pay", !.held = TRUE] \in ProcStates
      BY StateType DEF ProcTypeOK
    <3>2. CASE proc' = [proc EXCEPT ![p].pc = "pay", ![p].held = TRUE]
      BY <3>1, <3>2 DEF ProcTypeOK
    <3>3. CASE Goto(p, "issue")
      BY <3>3, GotoType
    <3>4. QED
      BY <1>1, <3>2, <3>3 DEF Allocate
  <2>2. QED
    BY <1>1, <2>1 DEF Allocate, AllocateMailbox, OrderTypeOK, orderVars, windowVars,
       BillingTypeOK, billingVars, ServiceTypeOK
<1>2. CASE AllocateFails(p, o)
  BY <1>2, GotoType DEF AllocateFails, OrderTypeOK, orderVars, windowVars, BillingTypeOK,
     billingVars, ServiceTypeOK, serviceVars
<1>3. CASE PayPending(p, o)
  <2>1. PayAmount(scope[o]) \in Nat
    BY DEF PayAmount
  <2>2. /\ balance' \in Nat
        /\ debited' \in [Orders -> BOOLEAN]
        /\ refunds' \in [Orders -> SUBSET RefundKeys]
    BY <1>3, <2>1, DebitConsumerType DEF PayPending
  <2>3. ProcTypeOK'
    BY <1>3, ResumeType DEF PayPending
  <2>4. QED
    BY <1>3, <2>1, <2>2, <2>3 DEF PayPending, OrderTypeOK, Statuses, windowVars,
       BillingTypeOK, supplierVars, ServiceTypeOK, serviceVars
<1>4. CASE PayRefused(p, o)
  BY <1>4, GotoType, ResumeType DEF PayRefused, OrderTypeOK, orderVars, windowVars,
     BillingTypeOK, billingVars, ServiceTypeOK, serviceVars
<1>5. CASE FailPending(p, o)
  <2>1. ProcTypeOK'
    BY <1>5, <1>h, DoneType, ResumeType DEF FailPending
  <2>2. QED
    BY <1>5, <2>1 DEF FailPending, ReleaseByOrder, OrderTypeOK, Statuses, windowVars,
       BillingTypeOK, billingVars, ServiceTypeOK
<1>6. CASE DropAllocation(p, o)
  BY <1>6, DoneType DEF DropAllocation, ReleaseByOrder, OrderTypeOK, orderVars, windowVars,
     BillingTypeOK, billingVars, ServiceTypeOK
<1>7. QED
  BY <1>1, <1>2, <1>3, <1>4, <1>5, <1>6

LEMMA FulfilTypeOK ==
  ASSUME TypeOK, NEW p \in Procs, NEW o \in Orders,
         \/ IssueToken(p, o) \/ Activate(p, o) \/ ActivateConflict(p, o)
         \/ Compensate(p, o) \/ ReturnToken(p, o)
  PROVE  TypeOK'
<1> USE StepLabels DEF TypeOK
<1>h. proc[p].held \in BOOLEAN /\ proc[p].at \in Nat
  BY DEF ProcTypeOK, ProcStates
<1>1. CASE IssueToken(p, o)
  <2>1. [proc[p] EXCEPT !.pc = "activate", !.at = now] \in ProcStates
    BY StateType DEF ProcTypeOK
  <2>2. ProcTypeOK'
    <3>1. proc' = [proc EXCEPT ![p].pc = "activate", ![p].at = now]
      BY <1>1 DEF IssueToken
    <3>2. QED
      BY <2>1, <3>1 DEF ProcTypeOK
  <2>3. QED
    BY <1>1, <2>2 DEF IssueToken, IssueOrderToken, OrderTypeOK, orderVars, windowVars,
       BillingTypeOK, billingVars, ServiceTypeOK
<1>2. CASE Activate(p, o)
  <2> DEFINE start == proc[p].at
             until == start + (IF Mode[o] = "code" THEN CodeWindow ELSE ActivationWindow)
             after == IF Mode[o] = "code" THEN until ELSE 0
             due == SettlementDue(Mode[o], start, until, after)
  <2>1. start \in Nat /\ until \in Nat /\ after \in Nat
    BY <1>h
  <2>2. due \in Nat
    BY <2>1 DEF SettlementDue, WarrantyUntil, Later
  <2>3. SupplierTypeOK'
    <3>1. FreezeSettlement(o, due) \/ UNCHANGED supplierVars
      BY <1>2 DEF Activate
    <3> HIDE DEF due
    <3>2. QED
      BY <2>2, <3>1, SettlementType
  <2>4. ProcTypeOK'
    BY <1>2, DoneType DEF Activate
  <2>5. OrderTypeOK'
    BY <1>2, <2>1 DEF Activate, OrderTypeOK, Statuses
  <2>6. QED
    BY <1>2, <2>3, <2>4, <2>5 DEF Activate, BillingTypeOK, SupplierTypeOK, buyerVars,
       ServiceTypeOK, serviceVars
<1>3. CASE ActivateConflict(p, o)
  BY <1>3, <1>h, ResumeType DEF ActivateConflict, OrderTypeOK, orderVars, windowVars,
     BillingTypeOK, billingVars, ServiceTypeOK, serviceVars
<1>4. CASE Compensate(p, o)
  <2>1. ProcTypeOK'
    BY <1>4, <1>h, DoneType, ResumeType DEF Compensate
  <2>2. /\ balance' \in Nat
        /\ debited' \in [Orders -> BOOLEAN]
        /\ refunds' \in [Orders -> SUBSET RefundKeys]
    <3>1. pay[o] \in Nat
      BY DEF OrderTypeOK
    <3>2. CASE RefundConsumer(o, "order", pay[o])
      BY <3>1, <3>2, RefundConsumerType
    <3>3. CASE UNCHANGED buyerVars
      BY <3>3 DEF BillingTypeOK, buyerVars
    <3>4. QED
      BY <1>4, <3>2, <3>3 DEF Compensate
  <2>3. OrderTypeOK'
    BY <1>4 DEF Compensate, OrderTypeOK, Statuses, windowVars
  <2>4. ServiceTypeOK'
    BY <1>4 DEF Compensate, ServiceTypeOK, DisableOrderToken, ReleaseByOrder
  <2>5. QED
    BY <1>4, <2>1, <2>2, <2>3, <2>4 DEF Compensate, BillingTypeOK, supplierVars
<1>5. CASE ReturnToken(p, o)
  BY <1>5, DoneType DEF ReturnToken, IssueOrderToken, OrderTypeOK, orderVars, windowVars,
     BillingTypeOK, billingVars, ServiceTypeOK
<1>6. QED
  BY <1>1, <1>2, <1>3, <1>4, <1>5

LEMMA DeliveryTypeOK ==
  ASSUME TypeOK, NEW p \in Procs, NEW o \in Orders,
         SaveDelivery(p, o) \/ NotifyMatchedCode(p, o)
  PROVE  TypeOK'
<1> USE StepLabels DEF TypeOK
<1>1. CASE SaveDelivery(p, o)
  <2>1. [proc[p] EXCEPT !.pc = "notify", !.at = now] \in ProcStates
    BY StateType DEF ProcTypeOK
  <2>2. ProcTypeOK'
    <3>1. proc' = [proc EXCEPT ![p].pc = "notify", ![p].at = now]
      BY <1>1 DEF SaveDelivery
    <3>2. QED
      BY <2>1, <3>1 DEF ProcTypeOK
  <2>3. proc[p].at \in Nat
    BY DEF ProcTypeOK, ProcStates
  <2>4. QED
    BY <1>1, <2>2, <2>3 DEF SaveDelivery, CreateOrderDelivery, OrderTypeOK, orderVars,
       windowVars, BillingTypeOK, billingVars, ServiceTypeOK
<1>2. CASE NotifyMatchedCode(p, o)
  <2>1. ProcTypeOK'
    BY <1>2, DoneType DEF NotifyMatchedCode
  <2>2. proc[p].at \in Nat
    BY DEF ProcTypeOK, ProcStates
  <2>3. OrderTypeOK' /\ BillingTypeOK' /\ ServiceTypeOK'
    <3>1. CASE \E seen \in proc[p].at..now : Matched(o, seen)
      BY <2>2, <3>1, MatchedType
    <3>2. CASE UNCHANGED <<orderVars, billingVars, serviceVars>>
      BY <3>2 DEF OrderTypeOK, orderVars, windowVars, BillingTypeOK, billingVars,
                  ServiceTypeOK, serviceVars
    <3>3. QED
      BY <1>2, <3>1, <3>2 DEF NotifyMatchedCode
  <2>4. QED
    BY <1>2, <2>1, <2>3 DEF NotifyMatchedCode
<1>3. QED
  BY <1>1, <1>2

LEMMA CleanupTypeOK ==
  ASSUME TypeOK, NEW p \in Procs, NEW o \in Orders,
         \/ CleanupRelease(p, o) \/ CleanupDisable(p, o) \/ MarkServiceCleanup(p, o)
  PROVE  TypeOK'
<1> USE StepLabels DEF TypeOK
<1>1. CASE CleanupRelease(p, o)
  <2>1. [proc[p] EXCEPT !.pc = "disable", !.bad = TRUE] \in ProcStates
    BY StateType DEF ProcTypeOK
  <2>2. ProcTypeOK'
    <3>1. CASE Goto(p, "disable")
      BY <3>1, GotoType
    <3>2. CASE proc' = [proc EXCEPT ![p].pc = "disable", ![p].bad = TRUE]
      BY <2>1, <3>2 DEF ProcTypeOK
    <3>3. QED
      BY <1>1, <3>1, <3>2 DEF CleanupRelease
  <2>3. QED
    BY <1>1, <2>2 DEF CleanupRelease, ReleaseByOrder, OrderTypeOK, orderVars, windowVars,
       BillingTypeOK, billingVars, ServiceTypeOK
<1>2. CASE CleanupDisable(p, o)
  <2>1. [proc[p] EXCEPT !.pc = "mark", !.bad = TRUE] \in ProcStates
    BY StateType DEF ProcTypeOK
  <2>2. ProcTypeOK'
    <3>1. CASE Goto(p, "mark")
      BY <3>1, GotoType
    <3>2. CASE proc' = [proc EXCEPT ![p].pc = "mark", ![p].bad = TRUE]
      BY <2>1, <3>2 DEF ProcTypeOK
    <3>3. QED
      BY <1>2, <3>1, <3>2 DEF CleanupDisable
  <2>3. QED
    BY <1>2, <2>2 DEF CleanupDisable, DisableOrderToken, OrderTypeOK, orderVars, windowVars,
       BillingTypeOK, billingVars, ServiceTypeOK
<1>3. CASE MarkServiceCleanup(p, o)
  BY <1>3, DoneType DEF MarkServiceCleanup, OrderTypeOK, windowVars, BillingTypeOK,
     billingVars, ServiceTypeOK, serviceVars
<1>4. QED
  BY <1>1, <1>2, <1>3

LEMMA SurroundingsTypeOK ==
  ASSUME TypeOK,
         \/ \E o \in Orders : Surroundings(o)
         \/ \E p \in Procs, o \in Orders : FulfilFails(p, o)
         \/ \E p \in Procs : Crash(p)
         \/ Withdraw
         \/ Tick
         \/ UNCHANGED vars
  PROVE  TypeOK'
<1> USE StepLabels DEF TypeOK
<1>1. ASSUME NEW o \in Orders, Surroundings(o)
      PROVE  TypeOK'
  <2>1. CASE OpenTicket(o) \/ CloseTicket(o)
    <3>1. ticket' \in [Orders -> BOOLEAN]
      BY <2>1 DEF OpenTicket, CloseTicket, ServiceTypeOK
    <3>2. QED
      BY <2>1, <3>1 DEF OpenTicket, CloseTicket, OrderTypeOK, orderVars, windowVars,
         BillingTypeOK, billingVars, ServiceTypeOK, ProcTypeOK
  <2>2. CASE Archive(o)
    BY <2>2 DEF Archive, OrderTypeOK, windowVars, BillingTypeOK, billingVars, ServiceTypeOK,
       serviceVars, ProcTypeOK
  <2>3. CASE Validate(o)
    <3>1. healthy' \in [Orders -> BOOLEAN]
      BY <2>3 DEF Validate, ServiceTypeOK
    <3>2. QED
      BY <2>3, <3>1 DEF Validate, OrderTypeOK, orderVars, windowVars, BillingTypeOK,
         billingVars, ServiceTypeOK, ProcTypeOK
  <2>4. QED
    BY <1>1, <2>1, <2>2, <2>3 DEF Surroundings
<1>2. ASSUME NEW p \in Procs, NEW o \in Orders, FulfilFails(p, o)
      PROVE  TypeOK'
  <2>1. [proc[p] EXCEPT !.pc = "compensate", !.at = 0] \in ProcStates
    BY StateType DEF ProcTypeOK
  <2>2. ProcTypeOK'
    <3>1. proc' = [proc EXCEPT ![p].pc = "compensate", ![p].at = 0]
      BY <1>2 DEF FulfilFails
    <3>2. QED
      BY <2>1, <3>1 DEF ProcTypeOK
  <2>3. QED
    BY <1>2, <2>2 DEF FulfilFails, OrderTypeOK, orderVars, windowVars, BillingTypeOK,
       billingVars, ServiceTypeOK, serviceVars
<1>3. CASE \E p \in Procs : Crash(p)
  BY <1>3, DoneType DEF Crash, OrderTypeOK, orderVars, windowVars, BillingTypeOK,
     billingVars, ServiceTypeOK, serviceVars
<1>4. CASE Withdraw
  <2>1. available \in Int /\ available > 0 /\ withdrawn \in Nat
    BY <1>4 DEF Withdraw, BillingTypeOK
  <2>2. available' \in Int /\ withdrawn' \in Nat
    BY <1>4, <2>1 DEF Withdraw, WithdrawSupplier
  <2>3. QED
    BY <1>4, <2>2 DEF Withdraw, WithdrawSupplier, OrderTypeOK, orderVars, windowVars, BillingTypeOK,
     buyerVars, ServiceTypeOK, serviceVars, ProcTypeOK
<1>5. CASE Tick
  BY <1>5 DEF Tick, OrderTypeOK, orderVars, windowVars, BillingTypeOK, billingVars,
     ServiceTypeOK, serviceVars, ProcTypeOK
<1>6. CASE UNCHANGED vars
  BY <1>6 DEF vars, OrderTypeOK, orderVars, windowVars, BillingTypeOK, billingVars,
     ServiceTypeOK, serviceVars, ProcTypeOK
<1>7. QED
  BY <1>1, <1>2, <1>3, <1>4, <1>5, <1>6

\* Every reachable state is of the declared types.  In particular the buyer's
\* balance never becomes negative, whatever checkouts compete for it.
THEOREM TypeCorrect == Spec => []TypeOK
<1>1. ASSUME TypeOK, [Next]_vars
      PROVE  TypeOK'
  <2>1. ASSUME NEW p \in Procs, NEW o \in Orders, Continue(p, o)
        PROVE  TypeOK'
    BY <1>1, <2>1, CheckoutTypeOK, FulfilTypeOK, DeliveryTypeOK, CleanupTypeOK DEF Continue
  <2>2. QED
    BY <1>1, <2>1, RequestTypeOK, ScanWorkTypeOK, ScanStepTypeOK, SurroundingsTypeOK DEF Next
<1>2. QED
  BY <1>1, InitTypeOK, PTL DEF Spec

-----------------------------------------------------------------------------
(* The five ways a transaction moves money.                                *)

\* Moves of an order that nobody pays for.
FreeMove(a, b) ==
    \/ a = b
    \/ a = "absent" /\ b = "pending_payment"
    \/ a = "pending_payment" /\ b = "failed"
    \/ a = "active" /\ b \in {"completed", "closed"}
    \/ a = "completed" /\ b = "active"

Quiet ==
    /\ UNCHANGED <<pay, supplier, refundTx, balance, debited, refunds, settle, frozen>>
    /\ available' + withdrawn' = available + withdrawn
    /\ \A o \in Orders : FreeMove(status[o], status'[o])

Charges(o) ==
    /\ status[o] = "pending_payment"
    /\ status' = [status EXCEPT ![o] = "paid"]
    /\ pay' = [pay EXCEPT ![o] = PayAmount(scope[o])]
    /\ supplier' = [supplier EXCEPT ![o] = (scope[o] = "supplied")]
    /\ DebitConsumer(o, PayAmount(scope[o]))
    /\ UNCHANGED <<refundTx, supplierVars>>

Holds(o) ==
    /\ status[o] = "paid"
    /\ status' = [status EXCEPT ![o] = "active"]
    /\ IF supplier[o] THEN \E due \in Nat : FreezeSettlement(o, due)
                      ELSE UNCHANGED supplierVars
    /\ UNCHANGED <<pay, supplier, refundTx, buyerVars>>

PaysSupplier(o) ==
    /\ settle[o] = "frozen"
    /\ \/ UNCHANGED status
       \/ status[o] = "active" /\ status' = [status EXCEPT ![o] = "completed"]
    /\ CreditSettlement(o, now)
    /\ UNCHANGED <<pay, supplier, refundTx, buyerVars>>

Returns(o) ==
    \E key \in RefundKeys :
        /\ RefundConsumer(o, key, pay[o])
        /\ refundTx' = [refundTx EXCEPT ![o] = key]
        /\ \/ /\ status[o] = "paid" /\ key = "order"
              /\ status' = [status EXCEPT ![o] = "failed"]
              /\ UNCHANGED supplierVars
           \/ /\ status[o] \in {"active", "completed"}
              /\ status' = [status EXCEPT ![o] = "refunded"]
              /\ IF supplier[o] THEN CancelSettlement(o) ELSE UNCHANGED supplierVars
        /\ UNCHANGED <<pay, supplier>>

MoneyStep ==
    \/ Quiet
    \/ \E o \in Orders : Charges(o) \/ Holds(o) \/ PaysSupplier(o) \/ Returns(o)

LEMMA UnmovedIsQuiet ==
  ASSUME UNCHANGED <<status, pay, supplier, refundTx, billingVars>>
  PROVE  MoneyStep
  BY DEF MoneyStep, Quiet, FreeMove, billingVars

\* A transaction that changes nothing but the status of one order.
LEMMA FreeMoveIsQuiet ==
  ASSUME NEW o \in Orders, NEW s, status \in [Orders -> Statuses],
         FreeMove(status[o], s),
         status' = [status EXCEPT ![o] = s],
         UNCHANGED <<pay, supplier, refundTx, billingVars>>
  PROVE  MoneyStep
  BY DEF MoneyStep, Quiet, FreeMove, billingVars

LEMMA RefundReturns ==
  ASSUME NEW o \in Orders, NEW key \in RefundKeys, status[o] \in {"active", "completed"},
         RefundTransaction(o, key)
  PROVE  MoneyStep
  BY DEF RefundTransaction, MoneyStep, Returns

\* A mail moves the deadline of a settlement, never its money.
LEMMA MatchIsQuiet ==
  ASSUME TypeOK, NEW o \in Orders, NEW seen \in Int, Matched(o, seen)
  PROVE  MoneyStep
<1>1. UNCHANGED <<pay, supplier, refundTx, balance, debited, refunds>>
  BY DEF Matched, buyerVars
<1>2. UNCHANGED <<settle, frozen, available, withdrawn>>
  BY DEF Matched, CodeMatched, PurchaseMatched, RescheduleSettlement, supplierVars
<1>3. \A q \in Orders : FreeMove(status[q], status'[q])
  <2>1. status \in [Orders -> Statuses]
    BY DEF TypeOK, OrderTypeOK
  <2>2. status[o] \in {"active", "completed"}
    BY DEF Matched, Undelivered
  <2>3. status' = [status EXCEPT ![o] = "completed"] \/ status' = [status EXCEPT ![o] = "active"]
    BY DEF Matched, CodeMatched, PurchaseMatched
  <2>4. QED
    BY <2>1, <2>2, <2>3 DEF FreeMove
<1>4. QED
  BY <1>1, <1>2, <1>3 DEF MoneyStep, Quiet, FreeMove

LEMMA RequestMoneySteps ==
  ASSUME TypeOK, NEW p \in Callers, NEW o \in Orders, Request(p, o)
  PROVE  MoneyStep
<1>t. status \in [Orders -> Statuses]
  BY DEF TypeOK, OrderTypeOK
<1>1. CASE PlaceOrder(p, o)
  BY <1>1, <1>t, FreeMoveIsQuiet DEF PlaceOrder, FreeMove
<1>2. CASE ResumeCheckout(p, o)
  BY <1>2, UnmovedIsQuiet DEF ResumeCheckout, orderVars
<1>3. CASE \E t \in 1..MaxTime : MatchMail(p, o, t)
  BY <1>3, UnmovedIsQuiet DEF MatchMail, orderVars
<1>4. CASE \E key \in AdminKeys : AdminRefundOrder(p, o, key)
  BY <1>4, StepLabels, RefundReturns DEF AdminRefundOrder
<1>5. CASE AdminTerminateOrder(p, o)
  BY <1>5, <1>t, FreeMoveIsQuiet DEF AdminTerminateOrder, FreeMove
<1>6. CASE AdminRetryOrderCleanup(p, o)
  BY <1>6, UnmovedIsQuiet DEF AdminRetryOrderCleanup, orderVars
<1>7. QED
  BY <1>1, <1>2, <1>3, <1>4, <1>5, <1>6 DEF Request

LEMMA ScanMoneySteps ==
  ASSUME TypeOK, NEW o \in Orders,
         (\E p \in Workers : ScanWork(p, o)) \/ ScanStep(o)
  PROVE  MoneyStep
<1>t. status \in [Orders -> Statuses] /\ now \in Nat
  BY DEF TypeOK, OrderTypeOK
<1>1. ASSUME NEW p \in Workers, ExpireCodeOrder(p, o) \/ RefundUnavailable(p, o)
      PROVE  MoneyStep
  BY <1>t, <1>1, StepLabels, RefundReturns, MatchIsQuiet
     DEF ExpireCodeOrder, RefundUnavailable, SystemRefund
<1>2. ASSUME NEW p \in Workers,
             \/ RecoverPaid(p, o) \/ RecoverAllocation(p, o) \/ SweepCleanup(p, o)
             \/ SweepReadCode(p, o)
      PROVE  MoneyStep
  BY <1>2, UnmovedIsQuiet
     DEF RecoverPaid, RecoverAllocation, SweepCleanup, SweepReadCode, orderVars
<1>3. CASE ReconcileDelivery(o)
  BY <1>t, <1>3, MatchIsQuiet DEF ReconcileDelivery
<1>4. CASE CompleteExpiredOrder(o)
  BY <1>4, <1>t, FreeMoveIsQuiet DEF CompleteExpiredOrder, Completable, FreeMove
<1>5. CASE SettleSupplierOrder(o)
  <2>1. PaysSupplier(o)
    BY <1>5 DEF SettleSupplierOrder, PaysSupplier
  <2>2. QED
    BY <2>1 DEF MoneyStep
<1>6. QED
  BY <1>1, <1>2, <1>3, <1>4, <1>5 DEF ScanWork, ScanStep

LEMMA ContinueMoneySteps ==
  ASSUME TypeOK, NEW p \in Procs, NEW o \in Orders, Continue(p, o)
  PROVE  MoneyStep
<1>t. status \in [Orders -> Statuses]
  BY DEF TypeOK, OrderTypeOK
<1>p. proc[p].at \in Nat /\ now \in Nat
  BY DEF TypeOK, ProcTypeOK, ProcStates
<1>1. CASE \/ Allocate(p, o) \/ AllocateFails(p, o) \/ PayRefused(p, o) \/ IssueToken(p, o)
           \/ ActivateConflict(p, o) \/ ReturnToken(p, o) \/ DropAllocation(p, o)
           \/ SaveDelivery(p, o) \/ CleanupRelease(p, o) \/ CleanupDisable(p, o)
           \/ MarkServiceCleanup(p, o)
  BY <1>1, UnmovedIsQuiet
     DEF Allocate, AllocateFails, PayRefused, IssueToken, ActivateConflict, ReturnToken,
         DropAllocation, SaveDelivery, CleanupRelease, CleanupDisable, MarkServiceCleanup,
         orderVars
<1>2. CASE PayPending(p, o)
  BY <1>2 DEF PayPending, MoneyStep, Charges
<1>3. CASE FailPending(p, o)
  <2>1. CASE status[o] \in FailableStatuses
    BY <1>3, <1>t, <2>1, FreeMoveIsQuiet DEF FailPending, FailableStatuses, FreeMove
  <2>2. CASE status[o] \notin FailableStatuses
    BY <1>3, <2>2, UnmovedIsQuiet DEF FailPending
  <2>3. QED
    BY <2>1, <2>2
<1>4. CASE Activate(p, o)
  <2> DEFINE start == proc[p].at
             until == start + (IF Mode[o] = "code" THEN CodeWindow ELSE ActivationWindow)
             after == IF Mode[o] = "code" THEN until ELSE 0
             due == SettlementDue(Mode[o], start, until, after)
  <2>1. due \in Nat
    <3>1. start \in Nat /\ until \in Nat /\ after \in Nat
      BY <1>p, TradeAssumption
    <3> HIDE DEF start, until, after
    <3>2. QED
      BY <3>1, TradeAssumption DEF SettlementDue, WarrantyUntil, Later
  <2>2. supplier[o] => FreezeSettlement(o, due)
    BY <1>4 DEF Activate
  <2>3. Holds(o)
    <3> HIDE DEF due
    <3>1. QED
      BY <1>4, <2>1, <2>2 DEF Activate, Holds
  <2>4. QED
    BY <2>3 DEF MoneyStep
<1>5. CASE Compensate(p, o)
  <2>1. CASE status[o] = "paid"
    <3>1. Returns(o)
      BY <1>5, <2>1, StepLabels DEF Compensate, Returns
    <3>2. QED
      BY <3>1 DEF MoneyStep
  <2>2. CASE status[o] # "paid"
    BY <1>5, <2>2, UnmovedIsQuiet DEF Compensate, billingVars, buyerVars, supplierVars
  <2>3. QED
    BY <2>1, <2>2
<1>6. CASE NotifyMatchedCode(p, o)
  BY <1>p, <1>6, MatchIsQuiet, UnmovedIsQuiet DEF NotifyMatchedCode, orderVars
<1>7. QED
  BY <1>1, <1>2, <1>3, <1>4, <1>5, <1>6 DEF Continue

LEMMA MoneySteps ==
  ASSUME TypeOK, [Next]_vars
  PROVE  MoneyStep
<1>1. CASE \/ \E o \in Orders : Surroundings(o)
           \/ \E p \in Procs, o \in Orders : FulfilFails(p, o)
           \/ \E p \in Procs : Crash(p)
           \/ Tick
           \/ UNCHANGED vars
  BY <1>1, UnmovedIsQuiet
     DEF Surroundings, OpenTicket, CloseTicket, Archive, Validate, FulfilFails, Crash, Tick,
         vars, orderVars
<1>2. CASE Withdraw
  <2>1. available \in Int /\ withdrawn \in Nat
    BY DEF TypeOK, BillingTypeOK
  <2>2. Quiet
    BY <1>2, <2>1 DEF Withdraw, WithdrawSupplier, Quiet, FreeMove, orderVars, buyerVars
  <2>3. QED
    BY <2>2 DEF MoneyStep
<1>3. QED
  BY <1>1, <1>2, RequestMoneySteps, ScanMoneySteps, ContinueMoneySteps DEF Next

-----------------------------------------------------------------------------
(* What the status of an order says about its ledger and its settlement.   *)

Served == {"active", "completed", "closed"}

Unserved == {"absent", "pending_payment", "paid", "failed"}

OrderMoneyInv(o) ==
    /\ refunds[o] = {refundTx[o]} \ {"none"}
    /\ status[o] \in {"absent", "pending_payment"} => ~debited[o] /\ refundTx[o] = "none"
    /\ status[o] \in {"paid"} \cup Served => debited[o] /\ refundTx[o] = "none"
    /\ status[o] = "refunded" => debited[o] /\ refundTx[o] # "none"
    /\ status[o] = "failed" => \/ ~debited[o] /\ refundTx[o] = "none"
                               \/ debited[o] /\ refundTx[o] = "order"
    /\ status[o] \in Unserved => settle[o] = "none"
    /\ status[o] \in Served /\ supplier[o] => settle[o] \in {"frozen", "credited"}
    /\ status[o] = "refunded" /\ supplier[o] => settle[o] = "cancelled"
    /\ ~supplier[o] => settle[o] = "none"

MoneyInv == \A o \in Orders : OrderMoneyInv(o)

LEMMA InitMoneyInv == Init => MoneyInv
  BY DEF Init, BillingInit, ServiceInit, MoneyInv, OrderMoneyInv, Served, Unserved

LEMMA MoneyInvStep ==
  ASSUME TypeOK, MoneyInv, MoneyStep
  PROVE  MoneyInv'
<1> USE DEF MoneyInv, OrderMoneyInv, Served, Unserved
<1>t. /\ status \in [Orders -> Statuses] /\ supplier \in [Orders -> BOOLEAN]
      /\ refundTx \in [Orders -> RefundKeys \cup {"none"}]
      /\ debited \in [Orders -> BOOLEAN] /\ refunds \in [Orders -> SUBSET RefundKeys]
      /\ settle \in [Orders -> SettlementStatuses]
  BY DEF TypeOK, OrderTypeOK, BillingTypeOK
<1>1. CASE Quiet
  <2> SUFFICES ASSUME NEW q \in Orders
               PROVE  OrderMoneyInv(q)'
    BY DEF MoneyInv
  <2>1. /\ refundTx'[q] = refundTx[q] /\ refunds'[q] = refunds[q] /\ debited'[q] = debited[q]
        /\ settle'[q] = settle[q] /\ supplier'[q] = supplier[q]
    BY <1>1 DEF Quiet
  <2>2. FreeMove(status[q], status'[q])
    BY <1>1 DEF Quiet
  <2>3. OrderMoneyInv(q)
    BY DEF MoneyInv
  <2>4. CASE status'[q] = status[q]
    BY <2>1, <2>3, <2>4
  <2>5. CASE status'[q] # status[q]
    BY <2>1, <2>2, <2>3, <2>5 DEF FreeMove
  <2>6. QED
    BY <2>4, <2>5
<1>2. ASSUME NEW o \in Orders, Charges(o)
      PROVE  MoneyInv'
  BY <1>t, <1>2 DEF Charges, DebitConsumer, supplierVars
<1>3. ASSUME NEW o \in Orders, Holds(o)
      PROVE  MoneyInv'
  BY <1>t, <1>3 DEF Holds, FreezeSettlement, CanFreeze, buyerVars, supplierVars
<1>4. ASSUME NEW o \in Orders, PaysSupplier(o)
      PROVE  MoneyInv'
  BY <1>t, <1>4 DEF PaysSupplier, CreditSettlement, buyerVars, Statuses
<1>5. ASSUME NEW o \in Orders, Returns(o)
      PROVE  MoneyInv'
  <2>1. PICK key \in RefundKeys :
          /\ RefundConsumer(o, key, pay[o])
          /\ refundTx' = [refundTx EXCEPT ![o] = key]
          /\ \/ /\ status[o] = "paid" /\ key = "order"
                /\ status' = [status EXCEPT ![o] = "failed"]
                /\ UNCHANGED supplierVars
             \/ /\ status[o] \in {"active", "completed"}
                /\ status' = [status EXCEPT ![o] = "refunded"]
                /\ IF supplier[o] THEN CancelSettlement(o) ELSE UNCHANGED supplierVars
          /\ UNCHANGED <<pay, supplier>>
    BY <1>5 DEF Returns
  <2>2. key # "none"
    BY TradeAssumption DEF RefundKeys
  <2>3. refunds' = [refunds EXCEPT ![o] = {key}] /\ UNCHANGED debited
    BY <1>t, <2>1 DEF RefundConsumer
  <2>4. settle' = [settle EXCEPT ![o] = IF supplier[o] /\ status[o] # "paid"
                                        THEN "cancelled" ELSE @]
    BY <1>t, <2>1 DEF CancelSettlement, supplierVars
  <2>5. QED
    BY <1>t, <2>1, <2>2, <2>3, <2>4
<1>6. QED
  BY <1>1, <1>2, <1>3, <1>4, <1>5 DEF MoneyStep

LEMMA MoneyInvariant == Spec => [](TypeOK /\ MoneyInv)
<1>1. MoneyInv /\ TypeOK /\ [Next]_vars => MoneyInv'
  BY MoneySteps, MoneyInvStep
<1>2. QED
  BY <1>1, InitMoneyInv, TypeCorrect, PTL DEF Spec

\* The order row and the ledger agree: whatever handlers race or crash, an order
\* past payment was debited, one refunded points to the only refund there is, and
\* one that failed after its debit was paid back.
THEOREM LedgerCorrect == Spec => []LedgerMatchesOrder
<1>1. TypeOK /\ MoneyInv => LedgerMatchesOrder
  BY DEF MoneyInv, OrderMoneyInv, LedgerMatchesOrder, Served, TypeOK, OrderTypeOK, BillingTypeOK
<1>2. QED
  BY <1>1, MoneyInvariant, PTL

\* Nobody is paid twice: an order paid back to its buyer leaves nothing with its
\* supplier, and an order in service or served keeps its supplier's share.
THEOREM OneRecipientCorrect == Spec => []OneRecipient
<1>1. TypeOK /\ MoneyInv => OneRecipient
  <2> SUFFICES ASSUME TypeOK, MoneyInv, NEW o \in Orders
               PROVE  /\ refunds[o] # {} => settle[o] \in {"none", "cancelled"}
                      /\ supplier[o] /\ status[o] \in {"active", "completed", "closed"} =>
                             settle[o] \in {"frozen", "credited"}
    BY DEF OneRecipient
  <2>1. status[o] \in Statuses /\ supplier[o] \in BOOLEAN
    BY DEF TypeOK, OrderTypeOK
  <2>2. QED
    BY <2>1 DEF MoneyInv, OrderMoneyInv, Statuses, Served, Unserved
<1>2. QED
  BY <1>1, MoneyInvariant, PTL

-----------------------------------------------------------------------------
(* The trade component implements OrderMoney.                              *)

LEMMA InitMaps == Init => Money!Init
  BY DEF Init, BillingInit, Money!Init, BuyerOf, SellerOf

LEMMA StepMaps ==
  ASSUME TypeOK, MoneyInv, MoneyStep
  PROVE  [Money!Next]_(Money!moneyVars)
<1>t. /\ status \in [Orders -> Statuses] /\ supplier \in [Orders -> BOOLEAN]
      /\ debited \in [Orders -> BOOLEAN] /\ refunds \in [Orders -> SUBSET RefundKeys]
      /\ settle \in [Orders -> SettlementStatuses]
  BY DEF TypeOK, OrderTypeOK, BillingTypeOK
<1>i. ASSUME NEW o \in Orders
      PROVE  OrderMoneyInv(o)
  BY DEF MoneyInv
<1>1. CASE Quiet
  BY <1>1 DEF Quiet, Money!moneyVars, BuyerOf, SellerOf
<1>2. ASSUME NEW o \in Orders, Charges(o)
      PROVE  Money!Charge(o)
  <2>1. ~debited[o] /\ refunds[o] = {} /\ settle[o] = "none"
    BY <1>2, <1>i DEF Charges, OrderMoneyInv, Unserved
  <2>2. debited' = [debited EXCEPT ![o] = TRUE] /\ UNCHANGED <<refunds, settle>>
    BY <1>2 DEF Charges, DebitConsumer, supplierVars
  <2>3. BuyerOf(o) = "none" /\ SellerOf(o) = "none" /\ BuyerOf(o)' = "charged"
    BY <1>t, <2>1, <2>2 DEF BuyerOf, SellerOf
  <2>4. \A q \in Orders : q # o => BuyerOf(q)' = BuyerOf(q)
    BY <1>t, <2>2 DEF BuyerOf
  <2>5. \A q \in Orders : SellerOf(q)' = SellerOf(q)
    BY <2>2 DEF SellerOf
  <2>6. QED
    BY <2>3, <2>4, <2>5 DEF Money!Charge
<1>3. ASSUME NEW o \in Orders, Holds(o)
      PROVE  Money!Hold(o) \/ UNCHANGED Money!moneyVars
  <2>1. debited[o] /\ refunds[o] = {} /\ settle[o] = "none"
    BY <1>3, <1>i DEF Holds, OrderMoneyInv, Unserved
  <2>2. UNCHANGED <<debited, refunds>>
    BY <1>3 DEF Holds, buyerVars
  <2>3. CASE supplier[o]
    <3>1. settle' = [settle EXCEPT ![o] = "frozen"]
      BY <1>3, <2>1, <2>3 DEF Holds, FreezeSettlement
    <3>2. BuyerOf(o) = "charged" /\ SellerOf(o) = "none" /\ SellerOf(o)' = "held"
      BY <1>t, <2>1, <3>1 DEF BuyerOf, SellerOf
    <3>3. \A q \in Orders : q # o => SellerOf(q)' = SellerOf(q)
      BY <1>t, <3>1 DEF SellerOf
    <3>4. \A q \in Orders : BuyerOf(q)' = BuyerOf(q)
      BY <2>2 DEF BuyerOf
    <3>5. QED
      BY <3>2, <3>3, <3>4 DEF Money!Hold
  <2>4. CASE ~supplier[o]
    <3>1. UNCHANGED settle
      BY <1>3, <2>4 DEF Holds, supplierVars
    <3>2. \A q \in Orders : BuyerOf(q)' = BuyerOf(q) /\ SellerOf(q)' = SellerOf(q)
      BY <2>2, <3>1 DEF BuyerOf, SellerOf
    <3>3. QED
      BY <3>2 DEF Money!moneyVars
  <2>5. QED
    BY <2>3, <2>4
<1>4. ASSUME NEW o \in Orders, PaysSupplier(o)
      PROVE  Money!PaySeller(o)
  <2>1. debited[o] /\ refunds[o] = {} /\ settle[o] = "frozen"
    BY <1>t, <1>4, <1>i DEF PaysSupplier, OrderMoneyInv, Unserved, Served, Statuses
  <2>2. settle' = [settle EXCEPT ![o] = "credited"] /\ UNCHANGED <<debited, refunds>>
    BY <1>4, <2>1 DEF PaysSupplier, CreditSettlement, buyerVars
  <2>3. BuyerOf(o) = "charged" /\ SellerOf(o) = "held" /\ SellerOf(o)' = "paid"
    BY <1>t, <2>1, <2>2 DEF BuyerOf, SellerOf
  <2>4. \A q \in Orders : q # o => SellerOf(q)' = SellerOf(q)
    BY <1>t, <2>2 DEF SellerOf
  <2>5. \A q \in Orders : BuyerOf(q)' = BuyerOf(q)
    BY <2>2 DEF BuyerOf
  <2>6. QED
    BY <2>3, <2>4, <2>5 DEF Money!PaySeller
<1>5. ASSUME NEW o \in Orders, Returns(o)
      PROVE  Money!Return(o)
  <2>1. debited[o] /\ refunds[o] = {}
    BY <1>5, <1>i DEF Returns, OrderMoneyInv, Served
  <2>2. \E key : refunds' = [refunds EXCEPT ![o] = {key}]
    <3>1. PICK key \in RefundKeys : RefundConsumer(o, key, pay[o])
      BY <1>5 DEF Returns
    <3>2. refunds[o] \cup {key} = {key}
      BY <2>1
    <3>3. QED
      BY <3>1, <3>2 DEF RefundConsumer
  <2>3. UNCHANGED debited
    BY <1>5 DEF Returns, RefundConsumer
  <2>4. settle' = [settle EXCEPT ![o] = IF @ = "none" THEN "none" ELSE "cancelled"]
    <3>1. CASE status[o] = "paid"
      BY <1>t, <1>5, <1>i, <3>1 DEF Returns, OrderMoneyInv, Unserved, supplierVars
    <3>2. CASE status[o] # "paid" /\ supplier[o]
      BY <1>t, <1>5, <1>i, <3>2 DEF Returns, OrderMoneyInv, Served, CancelSettlement
    <3>3. CASE status[o] # "paid" /\ ~supplier[o]
      BY <1>t, <1>5, <1>i, <3>3 DEF Returns, OrderMoneyInv, supplierVars
    <3>4. QED
      BY <3>1, <3>2, <3>3
  <2>5. BuyerOf(o) = "charged" /\ BuyerOf(o)' = "returned"
    BY <1>t, <2>1, <2>2, <2>3 DEF BuyerOf
  <2>6. \A q \in Orders : q # o => BuyerOf(q)' = BuyerOf(q) /\ SellerOf(q)' = SellerOf(q)
    BY <1>t, <2>2, <2>3, <2>4 DEF BuyerOf, SellerOf
  <2>7. SellerOf(o)' = IF SellerOf(o) = "none" THEN "none" ELSE "revoked"
    BY <1>t, <2>4 DEF SellerOf, SettlementStatuses
  <2>8. QED
    BY <2>5, <2>6, <2>7 DEF Money!Return
<1>6. QED
  BY <1>1, <1>2, <1>3, <1>4, <1>5 DEF MoneyStep, Money!Next

\* Every transaction of the trade component is one step of OrderMoney or none: a
\* buyer is charged and paid back at most once, a share is held before it is paid,
\* and the transaction that pays the buyer back takes the share back.
THEOREM TradeImplementsOrderMoney == Spec => ImplementsOrderMoney
<1>1. TypeOK /\ MoneyInv /\ [Next]_vars => [Money!Next]_(Money!moneyVars)
  BY MoneySteps, StepMaps
<1>2. QED
  BY <1>1, InitMaps, MoneyInvariant, PTL DEF Spec, ImplementsOrderMoney, Money!Spec

-----------------------------------------------------------------------------
(* The sums over all orders.                                               *)

LEMMA Product ==
  /\ \A a, n \in Int : a * (n + 1) = a * n + a
  /\ \A a, n \in Int : a * (n - 1) = a * n - a
  OBVIOUS

\* A selection of orders is counted, and counts one more or less with an order
\* that joins or leaves it.
LEMMA Counting ==
  ASSUME NEW S \in SUBSET Orders, NEW o \in Orders
  PROVE  /\ Cardinality(S) \in Nat
         /\ o \notin S => Cardinality(S \cup {o}) = Cardinality(S) + 1
         /\ o \in S => Cardinality(S \ {o}) = Cardinality(S) - 1
<1>1. IsFiniteSet(S)
  BY OrdersAssumption, FS_Subset
<1>2. QED
  BY <1>1, FS_CardinalityType, FS_AddElement, FS_RemoveElement

BuyerInv ==
    /\ BuyerBalanced
    /\ \A o \in Orders : pay[o] \in {0, Price}

LEMMA InitBuyerInv == Init => BuyerInv
<1> SUFFICES ASSUME Init
             PROVE  BuyerInv
  OBVIOUS
<1>1. Unreturned = {} /\ balance = InitialBalance
  BY DEF Init, BillingInit, Unreturned
<1>2. Cardinality(Unreturned) = 0
  BY <1>1, FS_EmptySet
<1>3. QED
  BY <1>1, <1>2, MoneyAssumption DEF BuyerInv, BuyerBalanced, Init

LEMMA BuyerInvStep ==
  ASSUME TypeOK, MoneyInv, BuyerInv, MoneyStep
  PROVE  BuyerInv'
<1>t. /\ pay \in [Orders -> Nat] /\ debited \in [Orders -> BOOLEAN] /\ balance \in Nat
      /\ refunds \in [Orders -> SUBSET RefundKeys]
  BY DEF TypeOK, OrderTypeOK, BillingTypeOK
<1>m. Price \in Nat \ {0} /\ InitialBalance \in Nat
  BY MoneyAssumption
<1>b. balance + Price * Cardinality(Unreturned) = InitialBalance
  BY DEF BuyerInv, BuyerBalanced
<1>n. Unreturned \in SUBSET Orders
  BY DEF Unreturned
<1>i. ASSUME NEW o \in Orders
      PROVE  OrderMoneyInv(o) /\ pay[o] \in {0, Price}
  BY DEF MoneyInv, BuyerInv
<1>1. CASE UNCHANGED <<pay, balance, debited, refunds>>
  BY <1>1 DEF BuyerInv, BuyerBalanced, Unreturned
<1>2. ASSUME NEW o \in Orders, Charges(o)
      PROVE  BuyerInv'
  <2>1. ~debited[o] /\ refunds[o] = {}
    BY <1>2, <1>i DEF Charges, OrderMoneyInv
  <2>2. PICK amount \in {0, Price} :
          /\ pay' = [pay EXCEPT ![o] = amount]
          /\ balance' = balance - amount
          /\ debited' = [debited EXCEPT ![o] = TRUE]
          /\ UNCHANGED refunds
    BY <1>2, <2>1 DEF Charges, DebitConsumer, PayAmount
  <2>3. \A q \in Orders : pay'[q] \in {0, Price}
    BY <1>t, <1>i, <2>2
  <2>4. o \notin Unreturned
    BY <2>1 DEF Unreturned
  <2>5. CASE amount = 0
    <3>1. Unreturned' = Unreturned
      BY <1>t, <2>1, <2>2, <2>5 DEF Unreturned
    <3>2. balance' = balance
      BY <1>t, <2>2, <2>5
    <3>3. QED
      BY <1>b, <2>3, <3>1, <3>2 DEF BuyerInv, BuyerBalanced
  <2>6. CASE amount = Price
    <3>1. Unreturned' = Unreturned \cup {o}
      BY <1>t, <1>m, <2>1, <2>2, <2>6 DEF Unreturned
    <3>2. /\ Cardinality(Unreturned) \in Nat
          /\ Cardinality(Unreturned') = Cardinality(Unreturned) + 1
      BY <1>n, <2>4, <3>1, Counting
    <3>3. Price * Cardinality(Unreturned)' = Price * Cardinality(Unreturned) + Price
      BY <1>m, <3>2, Product
    <3>4. Price * Cardinality(Unreturned) \in Int
      BY <1>m, <3>2
    <3>5. balance' + Price * Cardinality(Unreturned)' = InitialBalance
      BY <1>t, <1>m, <1>b, <2>2, <2>6, <3>3, <3>4
    <3>6. QED
      BY <2>3, <3>5 DEF BuyerInv, BuyerBalanced
  <2>7. QED
    BY <2>2, <2>5, <2>6
<1>3. ASSUME NEW o \in Orders, Returns(o)
      PROVE  BuyerInv'
  <2>1. debited[o] /\ refunds[o] = {}
    BY <1>3, <1>i DEF Returns, OrderMoneyInv, Served
  <2>2. PICK key \in RefundKeys :
          /\ balance' = balance + pay[o]
          /\ refunds' = [refunds EXCEPT ![o] = @ \cup {key}]
          /\ UNCHANGED <<pay, debited>>
    BY <1>3, <2>1 DEF Returns, RefundConsumer
  <2>3. \A q \in Orders : pay'[q] \in {0, Price}
    BY <1>i, <2>2
  <2>4. CASE pay[o] = 0
    <3>1. Unreturned' = Unreturned
      BY <1>t, <2>2, <2>4 DEF Unreturned
    <3>2. balance' = balance
      BY <1>t, <2>2, <2>4
    <3>3. QED
      BY <1>b, <2>3, <3>1, <3>2 DEF BuyerInv, BuyerBalanced
  <2>5. CASE pay[o] = Price
    <3>1. o \in Unreturned
      BY <1>m, <2>1, <2>5 DEF Unreturned
    <3>2. Unreturned' = Unreturned \ {o}
      BY <1>t, <2>2, <2>5 DEF Unreturned
    <3>3. /\ Cardinality(Unreturned) \in Nat
          /\ Cardinality(Unreturned') = Cardinality(Unreturned) - 1
      BY <1>n, <3>1, <3>2, Counting
    <3>4. Price * Cardinality(Unreturned)' = Price * Cardinality(Unreturned) - Price
      BY <1>m, <3>3, Product
    <3>5. Price * Cardinality(Unreturned) \in Int
      BY <1>m, <3>3
    <3>6. balance' + Price * Cardinality(Unreturned)' = InitialBalance
      BY <1>t, <1>m, <1>b, <2>2, <2>5, <3>4, <3>5
    <3>7. QED
      BY <2>3, <3>6 DEF BuyerInv, BuyerBalanced
  <2>6. QED
    BY <1>i, <2>4, <2>5
<1>4. QED
  BY <1>1, <1>2, <1>3 DEF MoneyStep, Quiet, Holds, PaysSupplier, buyerVars

\* The buyer's balance lacks exactly the prices of the orders charged and not paid
\* back, for any number of orders and of handlers.
THEOREM BuyerBalanceCorrect == Spec => []BuyerBalanced
<1>1. TypeOK /\ MoneyInv /\ BuyerInv /\ [Next]_vars => BuyerInv'
  BY MoneySteps, BuyerInvStep
<1>2. BuyerInv => BuyerBalanced
  BY DEF BuyerInv
<1>3. QED
  BY <1>1, <1>2, InitBuyerInv, MoneyInvariant, PTL DEF Spec

LEMMA InitSupplierBalanced == Init => SupplierBalanced
<1> SUFFICES ASSUME Init
             PROVE  SupplierBalanced
  OBVIOUS
<1>1. Settlements("frozen") = {} /\ Settlements("credited") = {}
  BY DEF Init, BillingInit, Settlements
<1>2. frozen = 0 /\ available = 0 /\ withdrawn = 0
  BY DEF Init, BillingInit
<1>3. QED
  BY <1>1, <1>2, FS_EmptySet, MoneyAssumption DEF SupplierBalanced

LEMMA SupplierBalancedStep ==
  ASSUME TypeOK, SupplierBalanced, MoneyStep
  PROVE  SupplierBalanced'
<1> DEFINE F == Settlements("frozen")
           C == Settlements("credited")
<1>t. /\ settle \in [Orders -> SettlementStatuses]
      /\ frozen \in Int /\ available \in Int /\ withdrawn \in Nat
  BY DEF TypeOK, BillingTypeOK
<1>m. Cut \in Nat \ {0}
  BY MoneyAssumption
<1>n. F \in SUBSET Orders /\ C \in SUBSET Orders
  BY DEF Settlements
<1>b. frozen = Cut * Cardinality(F) /\ available + withdrawn = Cut * Cardinality(C)
  BY DEF SupplierBalanced
<1>c. /\ Cardinality(F) \in Nat /\ Cardinality(C) \in Nat
      /\ \A o \in Orders \ F : Cardinality(F \cup {o}) = Cardinality(F) + 1
      /\ \A o \in Orders \ C : Cardinality(C \cup {o}) = Cardinality(C) + 1
      /\ \A o \in F : Cardinality(F \ {o}) = Cardinality(F) - 1
      /\ \A o \in C : Cardinality(C \ {o}) = Cardinality(C) - 1
  <2>1. CASE Orders = {}
    <3>1. F = {} /\ C = {}
      BY <1>n, <2>1
    <3>2. Cardinality(F) = 0 /\ Cardinality(C) = 0
      BY <3>1, FS_EmptySet
    <3>3. QED
      BY <2>1, <3>1, <3>2
  <2>2. CASE Orders # {}
    BY <1>n, <2>2, Counting
  <2>3. QED
    BY <2>1, <2>2
<1>p. /\ Cut * (Cardinality(F) + 1) = Cut * Cardinality(F) + Cut
      /\ Cut * (Cardinality(F) - 1) = Cut * Cardinality(F) - Cut
      /\ Cut * (Cardinality(C) + 1) = Cut * Cardinality(C) + Cut
      /\ Cut * (Cardinality(C) - 1) = Cut * Cardinality(C) - Cut
  BY <1>m, <1>c, Product
<1> HIDE DEF F, C
<1>1. CASE UNCHANGED <<settle, frozen>> /\ available' + withdrawn' = available + withdrawn
  BY <1>1, <1>b DEF SupplierBalanced, Settlements, F, C
<1>2. ASSUME NEW o \in Orders, settle[o] = "none", NEW due, FreezeSettlement(o, due)
      PROVE  SupplierBalanced'
  <2>1. F' = F \cup {o} /\ C' = C /\ o \in Orders \ F
    BY <1>t, <1>2 DEF FreezeSettlement, Settlements, F, C
  <2>2. frozen' = frozen + Cut /\ UNCHANGED <<available, withdrawn>>
    BY <1>2 DEF FreezeSettlement
  <2>3. frozen' = Cut * Cardinality(F')
    BY <1>b, <1>c, <1>p, <2>1, <2>2
  <2>4. available' + withdrawn' = Cut * Cardinality(C')
    BY <1>b, <2>1, <2>2
  <2>5. QED
    BY <2>3, <2>4 DEF SupplierBalanced, F, C
<1>3. ASSUME NEW o \in Orders, PaysSupplier(o)
      PROVE  SupplierBalanced'
  <2>1. settle[o] = "frozen" /\ settle' = [settle EXCEPT ![o] = "credited"]
    BY <1>3 DEF PaysSupplier, CreditSettlement
  <2>2. F' = F \ {o} /\ C' = C \cup {o} /\ o \in F /\ o \in Orders \ C
    BY <1>t, <2>1 DEF Settlements, F, C
  <2>3. frozen' = frozen - Cut /\ available' = available + Cut /\ UNCHANGED withdrawn
    BY <1>3, <2>1 DEF PaysSupplier, CreditSettlement
  <2>4. frozen' = Cut * Cardinality(F')
    BY <1>b, <1>c, <1>p, <2>2, <2>3
  <2>5. available' + withdrawn' = Cut * Cardinality(C')
    BY <1>t, <1>m, <1>b, <1>c, <1>p, <2>2, <2>3
  <2>6. QED
    BY <2>4, <2>5 DEF SupplierBalanced, F, C
<1>4. ASSUME NEW o \in Orders, CancelSettlement(o)
      PROVE  SupplierBalanced'
  <2>1. CASE settle[o] = "frozen"
    <3>1. F' = F \ {o} /\ C' = C /\ o \in F
      BY <1>t, <1>4, <2>1 DEF CancelSettlement, Settlements, F, C
    <3>2. frozen' = frozen - Cut /\ UNCHANGED <<available, withdrawn>>
      BY <1>4, <2>1 DEF CancelSettlement
    <3>3. frozen' = Cut * Cardinality(F') /\ available' + withdrawn' = Cut * Cardinality(C')
      BY <1>b, <1>c, <1>p, <3>1, <3>2
    <3>4. QED
      BY <3>3 DEF SupplierBalanced, F, C
  <2>2. CASE settle[o] = "credited"
    <3>1. F' = F /\ C' = C \ {o} /\ o \in C
      BY <1>t, <1>4, <2>2 DEF CancelSettlement, Settlements, F, C
    <3>2. available' = available - Cut /\ UNCHANGED <<frozen, withdrawn>>
      BY <1>4, <2>2 DEF CancelSettlement
    <3>3. frozen' = Cut * Cardinality(F')
      BY <1>b, <3>1, <3>2
    <3>4. available' + withdrawn' = Cut * Cardinality(C')
      BY <1>t, <1>m, <1>b, <1>c, <1>p, <3>1, <3>2
    <3>5. QED
      BY <3>3, <3>4 DEF SupplierBalanced, F, C
  <2>3. CASE settle[o] = "cancelled"
    BY <1>1, <1>t, <1>4, <2>3 DEF CancelSettlement
  <2>4. QED
    BY <1>4, <2>1, <2>2, <2>3 DEF CancelSettlement, CanCancel
<1>5. QED
  <2>1. CASE Quiet
    BY <1>1, <2>1 DEF Quiet
  <2>2. ASSUME NEW o \in Orders, Charges(o) \/ Holds(o) \/ Returns(o)
        PROVE  \/ UNCHANGED supplierVars
               \/ \E due : FreezeSettlement(o, due)
               \/ CancelSettlement(o)
    BY <2>2 DEF Charges, Holds, Returns
  <2>3. ASSUME NEW o \in Orders, NEW due, FreezeSettlement(o, due), settle[o] # "none"
        PROVE  UNCHANGED supplierVars
    BY <2>3 DEF FreezeSettlement
  <2>4. UNCHANGED supplierVars => SupplierBalanced'
    BY <1>1 DEF supplierVars
  <2>5. QED
    BY <1>2, <1>3, <1>4, <2>1, <2>2, <2>3, <2>4 DEF MoneyStep

\* The frozen bucket holds the shares of the frozen settlements, and what the
\* supplier can withdraw or has withdrawn those of the credited ones.
THEOREM SupplierBalanceCorrect == Spec => []SupplierBalanced
<1>1. TypeOK /\ SupplierBalanced /\ [Next]_vars => SupplierBalanced'
  BY MoneySteps, SupplierBalancedStep
<1>2. QED
  BY <1>1, InitSupplierBalanced, TypeCorrect, PTL DEF Spec

-----------------------------------------------------------------------------
(* Which refunds the system makes by itself.                               *)

LEMMA SystemRefundSpares ==
  ASSUME TypeOK, NEW o \in Orders, NEW p \in Procs, NEW q \in Orders, SystemRefund(p, q),
         refunds[o] = {}, Mode[o] = "code", delivery[o] # 0
  PROVE  "order" \notin refunds'[o]
<1>1. CASE RefundTransaction(q, "order") /\ (Mode[q] = "code" => delivery[q] = 0)
  <2>1. q # o
    BY <1>1
  <2>2. refunds'[o] = refunds[o]
    BY <1>1, <2>1 DEF RefundTransaction, RefundConsumer, TypeOK, BillingTypeOK
  <2>3. QED
    BY <2>2
<1>2. CASE Matched(q, now)
  BY <1>2 DEF Matched, buyerVars
<1>3. QED
  BY <1>1, <1>2 DEF SystemRefund

\* No transaction but a refund an administrator asks for pays a delivered code in
\* service back: not an expiry, not a broken mailbox, not a compensation that
\* comes late.
THEOREM DeliveredStays == Spec => DeliveredNotRefunded
<1>1. ASSUME TypeOK, MoneyInv, [Next]_vars, NEW o \in Orders,
             Mode[o] = "code", delivery[o] # 0, status[o] = "active"
      PROVE  "order" \notin refunds'[o]
  <2>r. refunds[o] = {}
    BY <1>1 DEF MoneyInv, OrderMoneyInv, Served
  <2>t. refunds \in [Orders -> SUBSET RefundKeys]
    BY <1>1 DEF TypeOK, BillingTypeOK
  <2>1. ASSUME NEW p \in Callers, NEW q \in Orders, Request(p, q)
        PROVE  "order" \notin refunds'[o]
    <3>1. CASE \E key \in AdminKeys : AdminRefundOrder(p, q, key)
      <4>1. PICK key \in AdminKeys : refunds' = [refunds EXCEPT ![q] = @ \cup {key}]
        BY <3>1 DEF AdminRefundOrder, RefundTransaction, RefundConsumer
      <4>2. key # "order"
        BY TradeAssumption
      <4>3. QED
        BY <2>r, <2>t, <4>1, <4>2
    <3>2. CASE UNCHANGED refunds
      BY <2>r, <3>2
    <3>3. QED
      BY <2>1, <3>1, <3>2
         DEF Request, PlaceOrder, ResumeCheckout, MatchMail, AdminTerminateOrder,
             AdminRetryOrderCleanup, billingVars
  <2>2. ASSUME NEW p \in Workers, NEW q \in Orders, ScanWork(p, q)
        PROVE  "order" \notin refunds'[o]
    <3>1. CASE ExpireCodeOrder(p, q) \/ RefundUnavailable(p, q)
      BY <1>1, <2>r, <3>1, SystemRefundSpares DEF ExpireCodeOrder, RefundUnavailable, Procs
    <3>2. CASE UNCHANGED refunds
      BY <2>r, <3>2
    <3>3. QED
      BY <2>2, <3>1, <3>2
         DEF ScanWork, RecoverPaid, RecoverAllocation, SweepCleanup, SweepReadCode, billingVars
  <2>3. ASSUME NEW q \in Orders, ScanStep(q)
        PROVE  UNCHANGED refunds
    BY <2>3 DEF ScanStep, ReconcileDelivery, Matched, CompleteExpiredOrder,
                SettleSupplierOrder, billingVars, buyerVars
  <2>4. ASSUME NEW p \in Procs, NEW q \in Orders, Continue(p, q)
        PROVE  "order" \notin refunds'[o]
    <3>1. CASE Compensate(p, q)
      <4>1. CASE status[q] = "paid"
        <5>1. refunds' = [refunds EXCEPT ![q] = @ \cup {"order"}] /\ q # o
          BY <1>1, <3>1, <4>1 DEF Compensate, RefundConsumer
        <5>2. QED
          BY <2>r, <2>t, <5>1
      <4>2. CASE status[q] # "paid"
        BY <2>r, <3>1, <4>2 DEF Compensate, buyerVars
      <4>3. QED
        BY <4>1, <4>2
    <3>2. CASE UNCHANGED refunds
      BY <2>r, <3>2
    <3>3. CASE PayPending(p, q) \/ Activate(p, q) \/ NotifyMatchedCode(p, q)
      BY <2>r, <3>3 DEF PayPending, DebitConsumer, Activate, NotifyMatchedCode, Matched,
                        billingVars, buyerVars
    <3>4. QED
      BY <2>4, <3>1, <3>2, <3>3
         DEF Continue, Allocate, AllocateFails, PayRefused, FailPending, IssueToken,
             ActivateConflict, ReturnToken, DropAllocation, SaveDelivery, CleanupRelease,
             CleanupDisable, MarkServiceCleanup, billingVars
  <2>5. CASE \/ \E q \in Orders : Surroundings(q)
             \/ \E p \in Procs, q \in Orders : FulfilFails(p, q)
             \/ \E p \in Procs : Crash(p)
             \/ Withdraw \/ Tick \/ UNCHANGED vars
    BY <2>r, <2>5
       DEF Surroundings, OpenTicket, CloseTicket, Archive, Validate, FulfilFails, Crash,
           Withdraw, Tick, vars, billingVars, buyerVars
  <2>6. QED
    BY <1>1, <2>r, <2>1, <2>2, <2>3, <2>4, <2>5 DEF Next
<1>2. TypeOK /\ MoneyInv /\ [Next]_vars =>
        [\A o \in Orders :
             Mode[o] = "code" /\ delivery[o] # 0 /\ status[o] = "active" =>
                 "order" \notin refunds'[o]]_vars
  BY <1>1
<1>3. QED
  BY <1>2, MoneyInvariant, PTL DEF Spec, DeliveredNotRefunded

=============================================================================
