----------------------------- MODULE TradeOrder -----------------------------
(***************************************************************************)
(* The life cycle of an order in the trade component: checkout, delivery,  *)
(* expiry, refund, supplier settlement and the clean-up of the service,    *)
(* with the rows it drives in billing, alloc, openapi, mailmatch and       *)
(* aftersale.                                                              *)
(*                                                                         *)
(* One action is one database transaction.  A handler that commits several *)
(* times is a process: proc[p].pc names the transaction it makes next, and *)
(* between two of them every other process may run, or this one may crash. *)
(* A handler that commits once is a single action.  A definition           *)
(* introduced as a faulty form is used by no action, see Billing.          *)
(***************************************************************************)
EXTENDS Billing, OrderService

CONSTANTS
    Callers,           \* handlers of requests and mail matchers in flight
    Workers,           \* handlers of the lifecycle scan in flight
    NoOrder,           \* the order of an idle handler
    Mode,              \* Mode[o]: "code" or "purchase"
    CodeWindow,        \* code_window_minutes
    ActivationWindow,  \* activation_window_minutes
    Warranty,          \* warranty_minutes
    ReadWindow,        \* the hour a matched code stays readable
    StaleAfter,        \* staleCheckoutRecoveryAfter
    MaxTime,           \* bound on the clock
    MaxFaults,         \* bound on crashes and failed calls
    Ops                \* optional operations this instance allows

ASSUME TradeAssumption ==
    /\ Mode \in [Orders -> {"code", "purchase"}]
    /\ CodeWindow \in Nat \ {0} /\ ActivationWindow \in Nat \ {0}
    /\ Warranty \in Nat /\ ReadWindow \in Nat /\ StaleAfter \in Nat
    /\ MaxTime \in Nat \ {0} /\ MaxFaults \in Nat
    /\ AdminKeys \cap {"order", "none"} = {}
    /\ NoOrder \notin Orders
    /\ Callers \cap Workers = {}

Procs == Callers \cup Workers

VARIABLES
    status,        \* orders.status, "absent" before the order is placed
    pay,           \* orders.pay_amount, the price once it is charged
    supplier,      \* orders.supplier_user_id is set
    refundTx,      \* orders.refund_tx_id: the ledger key it points to
    startedAt,     \* orders.receive_started_at
    receiveUntil,  \* orders.receive_until
    activatedAt,   \* orders.activated_at, 0 for NULL
    afterSale,     \* orders.after_sale_until, 0 for NULL
    cleanup,       \* orders.service_cleanup_status
    updatedAt,     \* orders.updated_at, followed while the order is paid
    archived,      \* orders.archived_at is set
    proc,          \* the handlers in flight
    now,           \* the clock, from 1
    faults         \* crashes and failed calls so far

orderVars == <<status, pay, supplier, refundTx, startedAt, receiveUntil,
               activatedAt, afterSale, cleanup, updatedAt, archived>>
windowVars == <<startedAt, receiveUntil, activatedAt, afterSale>>
vars == <<orderVars, billingVars, serviceVars, proc, now, faults>>

Statuses == {"absent", "pending_payment", "paid", "active", "completed",
             "refunded", "failed", "closed"}
TerminalStatuses == {"completed", "refunded", "failed", "closed"}
Labels == {"idle", "allocate", "reallocate", "pay", "fail", "sweep", "issue",
           "activate", "compensate", "token", "drop", "save", "notify",
           "release", "disable", "mark"}

\* The local state of a handler: the transaction it makes next, its order,
\* whether it holds an allocation result, whether a clean-up step failed, and
\* a time it read before.
Idle == [pc |-> "idle", ord |-> NoOrder, held |-> FALSE, bad |-> FALSE, at |-> 0]
ProcStates == [pc : Labels, ord : Orders \cup {NoOrder},
               held : BOOLEAN, bad : BOOLEAN, at : Nat]

OrderTypeOK ==
    /\ status \in [Orders -> Statuses]
    /\ pay \in [Orders -> Nat]
    /\ supplier \in [Orders -> BOOLEAN]
    /\ refundTx \in [Orders -> RefundKeys \cup {"none"}]
    /\ startedAt \in [Orders -> Nat]
    /\ receiveUntil \in [Orders -> Nat]
    /\ activatedAt \in [Orders -> Nat]
    /\ afterSale \in [Orders -> Nat]
    /\ cleanup \in [Orders -> {"none", "succeeded", "partial_failure"}]
    /\ updatedAt \in [Orders -> Nat]
    /\ archived \in [Orders -> BOOLEAN]

ProcTypeOK == proc \in [Procs -> ProcStates]

TypeOK ==
    /\ OrderTypeOK
    /\ BillingTypeOK
    /\ ServiceTypeOK
    /\ ProcTypeOK
    /\ now \in Nat
    /\ faults \in Nat

Init ==
    /\ BillingInit
    /\ ServiceInit
    /\ status = [o \in Orders |-> "absent"]
    /\ pay = [o \in Orders |-> 0]
    /\ supplier = [o \in Orders |-> FALSE]
    /\ refundTx = [o \in Orders |-> "none"]
    /\ startedAt = [o \in Orders |-> 0]
    /\ receiveUntil = [o \in Orders |-> 0]
    /\ activatedAt = [o \in Orders |-> 0]
    /\ afterSale = [o \in Orders |-> 0]
    /\ cleanup = [o \in Orders |-> "none"]
    /\ updatedAt = [o \in Orders |-> 0]
    /\ archived = [o \in Orders |-> FALSE]
    /\ proc = [p \in Procs |-> Idle]
    /\ now = 1
    /\ faults = 0

-----------------------------------------------------------------------------
(* Deadlines and conditions of the handlers.                               *)

Later(a, b) == IF a < b THEN b ELSE a

\* purchaseWarrantyUntil: the warranty runs from the start of the service but
\* never ends before the mail that activated it.
WarrantyUntil(start, matched) == Later(matched, start + Warranty)

\* Faulty form: a purchase that may still be activated is due with its window.
SettlementDueAtWindow(mode, start, until, after) ==
    IF mode = "purchase" /\ after # 0 THEN after ELSE until

\* supplierSettlementDue: an activated purchase is due at the end of its
\* warranty, another one at the latest end its warranty can still get.
SettlementDue(mode, start, until, after) ==
    IF mode = "purchase"
    THEN IF after # 0 THEN after ELSE WarrantyUntil(start, until)
    ELSE until

Due(o) == SettlementDue(Mode[o], startedAt[o], receiveUntil[o], afterSale[o])

\* The allocated mailbox of a paid purchase is broken and its refund not made.
RefundPending(o) ==
    /\ Mode[o] = "purchase"
    /\ status[o] \in {"active", "completed"}
    /\ refundTx[o] = "none"
    /\ alloc[o] = "allocated"
    /\ ~healthy[o]

\* Faulty forms: the mailbox of a closed order is kept, or that of a completed
\* purchase released.
CleanupReleasesRefunded(o) ==
    status[o] = "refunded" \/ (Mode[o] = "code" /\ status[o] = "completed")
CleanupReleasesServed(o) == status[o] \in {"refunded", "closed", "completed"}

\* cleanupRetryShouldReleaseAllocation
CleanupReleases(o) ==
    \/ status[o] \in {"refunded", "closed"}
    \/ Mode[o] = "code" /\ status[o] = "completed"

-----------------------------------------------------------------------------
(* Processes.                                                              *)

At(p, o, label) == proc[p].pc = label /\ proc[p].ord = o

Start(p, o, label) ==
    /\ proc[p].pc = "idle"
    /\ proc' = [proc EXCEPT ![p] = [Idle EXCEPT !.pc = label, !.ord = o]]

Goto(p, label) == proc' = [proc EXCEPT ![p].pc = label]

Done(p) == proc' = [proc EXCEPT ![p] = Idle]

\* The transaction resumeCheckout makes next for an order in status s.  Only an
\* allocation made while the order was pending is remembered across the loop.
NextLabel(s, held) ==
    CASE s = "pending_payment" -> "allocate"
      [] s = "paid" -> IF held THEN "issue" ELSE "reallocate"
      [] s \in {"active", "completed"} -> "token"
      [] s = "failed" -> IF held THEN "drop" ELSE "idle"
      [] OTHER -> "idle"

Resume(p, s, held) ==
    LET label == NextLabel(s, held)
    IN proc' = [proc EXCEPT ![p] =
           IF label = "idle" THEN Idle
           ELSE [Idle EXCEPT !.pc = label, !.ord = proc[p].ord, !.held = held]]

-----------------------------------------------------------------------------
(* Checkout.                                                               *)

\* A new order, or one of a batch whose inventory is known to be exhausted.
PlaceOrder(p, o) ==
    /\ status[o] = "absent"
    /\ status' = [status EXCEPT ![o] = "pending_payment"]
    /\ \E label \in {"allocate", "sweep"} : Start(p, o, label)
    /\ UNCHANGED <<pay, supplier, refundTx, windowVars, cleanup, updatedAt, archived,
                   billingVars, serviceVars, now, faults>>

\* The same idempotency key again: the stored order is taken up where it is.
ResumeCheckout(p, o) ==
    /\ status[o] # "absent"
    /\ NextLabel(status[o], FALSE) # "idle"
    /\ Start(p, o, NextLabel(status[o], FALSE))
    /\ UNCHANGED <<orderVars, billingVars, serviceVars, now, faults>>

\* The allocation commits on its own, whatever became of the order meanwhile.
Allocate(p, o) ==
    /\ \/ At(p, o, "allocate") /\ proc' = [proc EXCEPT ![p].pc = "pay", ![p].held = TRUE]
       \/ At(p, o, "reallocate") /\ Goto(p, "issue")
    /\ \E s \in Scopes : AllocateMailbox(o, s, now)
    /\ UNCHANGED <<orderVars, billingVars, healthy, token, tokenUntil, delivery,
                   ticket, now, faults>>

\* Inventory is exhausted, or the mailbox allocated before is not usable.
AllocateFails(p, o) ==
    /\ alloc[o] # "allocated" \/ ~healthy[o]
    /\ \/ At(p, o, "allocate") /\ Goto(p, "fail")
       \/ At(p, o, "reallocate") /\ Goto(p, "compensate")
    /\ UNCHANGED <<orderVars, billingVars, serviceVars, now, faults>>

\* checkoutAmounts: what the buyer pays and whether a supplier earns on it.
PayAmount(s) == IF s = "owned" THEN 0 ELSE Price

PayPending(p, o) ==
    /\ At(p, o, "pay")
    /\ status[o] = "pending_payment"
    /\ CanDebit(o, PayAmount(scope[o]))
    /\ DebitConsumer(o, PayAmount(scope[o]))
    /\ status' = [status EXCEPT ![o] = "paid"]
    /\ pay' = [pay EXCEPT ![o] = PayAmount(scope[o])]
    /\ supplier' = [supplier EXCEPT ![o] = (scope[o] = "supplied")]
    /\ updatedAt' = [updatedAt EXCEPT ![o] = now]
    /\ Resume(p, "paid", TRUE)
    /\ UNCHANGED <<refundTx, windowVars, cleanup, archived, supplierVars,
                   serviceVars, now, faults>>

\* The debit is refused, or another handler moved the order on.
PayRefused(p, o) ==
    /\ At(p, o, "pay")
    /\ IF status[o] = "pending_payment"
       THEN ~CanDebit(o, PayAmount(scope[o])) /\ Goto(p, "fail")
       ELSE Resume(p, status[o], TRUE)
    /\ UNCHANGED <<orderVars, billingVars, serviceVars, now, faults>>

\* Faulty form: a paid order can still fail without a refund.
FailableOrPaid == {"pending_payment", "failed", "paid"}

\* The orders failPendingCheckout fails, or finds failed already.
FailableStatuses == {"pending_payment", "failed"}

\* failPendingCheckout; the scan ignores its result, checkout goes on with it.
FailPending(p, o) ==
    /\ At(p, o, "fail") \/ At(p, o, "sweep")
    /\ IF status[o] \in FailableStatuses
       THEN /\ ReleaseByOrder(o)
            /\ status' = [status EXCEPT ![o] = "failed"]
            /\ Done(p)
       ELSE /\ UNCHANGED <<alloc, status>>
            /\ IF proc[p].pc = "sweep" THEN Done(p)
               ELSE Resume(p, status[o], proc[p].held)
    /\ UNCHANGED <<pay, supplier, refundTx, windowVars, cleanup, updatedAt, archived,
                   billingVars, allocAt, scope, healthy, token, tokenUntil, delivery,
                   ticket, now, faults>>

\* The windows are counted from here, before the token is issued.
IssueToken(p, o) ==
    /\ At(p, o, "issue")
    /\ IssueOrderToken(o, IF Mode[o] = "code" THEN now + CodeWindow ELSE 0)
    /\ proc' = [proc EXCEPT ![p].pc = "activate", ![p].at = now]
    /\ UNCHANGED <<orderVars, billingVars, alloc, allocAt, scope, healthy, delivery,
                   ticket, now, faults>>

\* activateAndFreezeSupplier
Activate(p, o) ==
    LET start == proc[p].at
        until == start + (IF Mode[o] = "code" THEN CodeWindow ELSE ActivationWindow)
        after == IF Mode[o] = "code" THEN until ELSE 0
    IN /\ At(p, o, "activate")
       /\ status[o] = "paid"
       /\ status' = [status EXCEPT ![o] = "active"]
       /\ startedAt' = [startedAt EXCEPT ![o] = start]
       /\ receiveUntil' = [receiveUntil EXCEPT ![o] = until]
       /\ afterSale' = [afterSale EXCEPT ![o] = after]
       /\ cleanup' = [cleanup EXCEPT ![o] = "none"]
       /\ IF supplier[o]
          THEN FreezeSettlement(o, SettlementDue(Mode[o], start, until, after))
          ELSE UNCHANGED supplierVars
       /\ Done(p)
       /\ UNCHANGED <<pay, supplier, refundTx, activatedAt, updatedAt, archived,
                      buyerVars, serviceVars, now, faults>>

\* The order left "paid" while the token was issued: reload it and go on.
ActivateConflict(p, o) ==
    /\ At(p, o, "activate")
    /\ status[o] # "paid"
    /\ Resume(p, status[o], proc[p].held)
    /\ UNCHANGED <<orderVars, billingVars, serviceVars, now, faults>>

\* Faulty form: the order another handler has activated meanwhile is included.
CompensableInService == {"paid", "failed", "active"}

\* The orders compensatePaidCheckout takes the token and the mailbox from.
CompensableStatuses == {"paid", "failed"}

\* compensatePaidCheckout
Compensate(p, o) ==
    /\ At(p, o, "compensate")
    /\ IF status[o] \in CompensableStatuses THEN DisableOrderToken(o) ELSE UNCHANGED token
    /\ IF status[o] \in CompensableStatuses \cup {"refunded"} THEN ReleaseByOrder(o)
                                                            ELSE UNCHANGED alloc
    /\ IF status[o] = "paid"
       THEN /\ RefundConsumer(o, "order", pay[o])
            /\ status' = [status EXCEPT ![o] = "failed"]
            /\ refundTx' = [refundTx EXCEPT ![o] = "order"]
       ELSE UNCHANGED <<buyerVars, status, refundTx>>
    /\ IF status[o] \in {"paid", "failed"} THEN Done(p)
                                           ELSE Resume(p, status[o], proc[p].held)
    /\ UNCHANGED <<pay, supplier, windowVars, cleanup, updatedAt, archived,
                   supplierVars, allocAt, scope, healthy, tokenUntil, delivery,
                   ticket, now, faults>>

\* An order in service: its token is looked up and issued when it has none.
ReturnToken(p, o) ==
    /\ At(p, o, "token")
    /\ IssueOrderToken(o, IF Mode[o] = "code" THEN receiveUntil[o] ELSE 0)
    /\ Done(p)
    /\ UNCHANGED <<orderVars, billingVars, alloc, allocAt, scope, healthy, delivery,
                   ticket, now, faults>>

\* An order found failed after this handler allocated for it.
DropAllocation(p, o) ==
    /\ At(p, o, "drop")
    /\ ReleaseByOrder(o)
    /\ Done(p)
    /\ UNCHANGED <<orderVars, billingVars, allocAt, scope, healthy, token, tokenUntil,
                   delivery, ticket, now, faults>>

-----------------------------------------------------------------------------
(* Delivery.                                                               *)

\* A mail received at time t matches an order that is being served.
MatchMail(p, o, t) ==
    /\ alloc[o] = "allocated"
    /\ startedAt[o] # 0 /\ startedAt[o] <= t /\ t <= now
    /\ IF Mode[o] = "code"
       THEN status[o] = "active" /\ t <= receiveUntil[o]
       ELSE status[o] \in {"active", "completed"}
    /\ proc[p].pc = "idle"
    /\ proc' = [proc EXCEPT ![p] = [Idle EXCEPT !.pc = "save", !.ord = o, !.at = t]]
    /\ UNCHANGED <<orderVars, billingVars, serviceVars, now, faults>>

SaveDelivery(p, o) ==
    /\ At(p, o, "save")
    /\ CreateOrderDelivery(o, proc[p].at)
    /\ proc' = [proc EXCEPT ![p].pc = "notify", ![p].at = now]
    /\ UNCHANGED <<orderVars, billingVars, alloc, allocAt, scope, healthy, token,
                   tokenUntil, ticket, now, faults>>

\* A delivery still changes the order: a code it completes, a purchase it activates.
Undelivered(o) ==
    /\ delivery[o] # 0
    /\ IF Mode[o] = "code"
       THEN status[o] = "active"
       ELSE /\ status[o] \in {"active", "completed"}
            /\ activatedAt[o] = 0
            /\ delivery[o] <= receiveUntil[o]

\* NotifyMatchedCode for the delivery of o, in one transaction: the order, the
\* deadline of its settlement and the expiry of its token move together or not
\* at all.  A purchase completed too early is served again while its warranty
\* lasts; one delivered after the warranty stays completed.  The clock is read
\* before the transaction: seen may be older than now.
CodeMatched(o) ==
    LET until == delivery[o] + ReadWindow
    IN /\ Mode[o] = "code"
       /\ status' = [status EXCEPT ![o] = "completed"]
       /\ receiveUntil' = [receiveUntil EXCEPT ![o] = until]
       /\ afterSale' = [afterSale EXCEPT ![o] = until]
       /\ IF supplier[o] THEN RescheduleSettlement(o, until)
                         ELSE UNCHANGED supplierVars
       /\ ExtendOrderToken(o, until)
       /\ UNCHANGED <<activatedAt, token>>

PurchaseMatched(o, seen) ==
    LET until == WarrantyUntil(startedAt[o], delivery[o])
        over == status[o] = "completed" /\ until <= seen
    IN /\ Mode[o] = "purchase"
       /\ status' = [status EXCEPT ![o] = IF over THEN "completed" ELSE "active"]
       /\ activatedAt' = [activatedAt EXCEPT ![o] = delivery[o]]
       /\ afterSale' = [afterSale EXCEPT ![o] = until]
       /\ IF supplier[o] /\ ~over THEN RescheduleSettlement(o, until)
                                  ELSE UNCHANGED supplierVars
       /\ UNCHANGED <<receiveUntil, token, tokenUntil>>

Matched(o, seen) ==
    /\ Undelivered(o)
    /\ CodeMatched(o) \/ PurchaseMatched(o, seen)
    /\ UNCHANGED <<pay, supplier, refundTx, startedAt, cleanup, updatedAt, archived,
                   buyerVars, alloc, allocAt, scope, healthy, delivery, ticket>>

\* The errors that roll that transaction back.
MatchRefused(o, seen) ==
    /\ Undelivered(o)
    /\ \/ Mode[o] = "code" /\ ~CanExtendToken(o)
       \/ /\ supplier[o]
          /\ Mode[o] = "code"
          /\ ~CanReschedule(o, delivery[o] + ReadWindow)
       \/ /\ supplier[o]
          /\ Mode[o] = "purchase"
          /\ LET until == WarrantyUntil(startedAt[o], delivery[o])
             IN ~(status[o] = "completed" /\ until <= seen) /\ ~CanReschedule(o, until)

NotifyMatchedCode(p, o) ==
    /\ At(p, o, "notify")
    /\ Done(p)
    /\ \/ \E seen \in proc[p].at..now : Matched(o, seen)
       \/ /\ ~Undelivered(o) \/ (\E seen \in proc[p].at..now : MatchRefused(o, seen))
          /\ UNCHANGED <<orderVars, billingVars, serviceVars>>
    /\ UNCHANGED <<now, faults>>

\* The scan repeats notifications that were lost.
ReconcileDelivery(o) ==
    /\ \E seen \in {now - 1, now} : Matched(o, seen)
    /\ UNCHANGED <<proc, now, faults>>

-----------------------------------------------------------------------------
(* Refunds.                                                                *)

\* Faulty form: the supplier's settlement is left as it is.
RefundKeepingShare(o, key) ==
    /\ RefundConsumer(o, key, pay[o])
    /\ status' = [status EXCEPT ![o] = "refunded"]
    /\ refundTx' = [refundTx EXCEPT ![o] = key]
    /\ UNCHANGED <<pay, supplier, windowVars, cleanup, updatedAt, archived,
                   supplierVars, serviceVars>>

\* The money part of refundOrder: the settlement is cancelled and the buyer
\* paid back in the transaction that moves the order.
RefundTransaction(o, key) ==
    /\ IF supplier[o] THEN CancelSettlement(o) ELSE UNCHANGED supplierVars
    /\ RefundConsumer(o, key, pay[o])
    /\ status' = [status EXCEPT ![o] = "refunded"]
    /\ refundTx' = [refundTx EXCEPT ![o] = key]
    /\ UNCHANGED <<pay, supplier, windowVars, cleanup, updatedAt, archived, serviceVars>>

\* An administrator refunds an order, directly or to settle a ticket.
AdminRefundOrder(p, o, key) ==
    /\ status[o] \in {"active", "completed"}
    /\ RefundTransaction(o, key)
    /\ Start(p, o, "release")
    /\ UNCHANGED <<now, faults>>

\* Faulty form: the delivery is not looked for.
SystemRefundBlind(p, o) ==
    /\ RefundTransaction(o, "order")
    /\ Start(p, o, "release")

\* A refund the system makes for an active order.  A delivery found under the
\* order's lock wins over the refund of a code.
SystemRefund(p, o) ==
    \/ /\ Mode[o] = "code" => delivery[o] = 0
       /\ RefundTransaction(o, "order")
       /\ Start(p, o, "release")
    \/ /\ Mode[o] = "code" /\ delivery[o] # 0
       /\ proc[p].pc = "idle"
       /\ Matched(o, now)
       /\ UNCHANGED proc

\* Faulty form: the order is expected to have been activated by a mail.
ExpireActivatedCode(p, o) ==
    /\ Mode[o] = "code" /\ status[o] = "active"
    /\ activatedAt[o] # 0 /\ receiveUntil[o] < now
    /\ SystemRefund(p, o)
    /\ UNCHANGED <<now, faults>>

ExpireCodeOrder(p, o) ==
    /\ Mode[o] = "code"
    /\ status[o] = "active"
    /\ receiveUntil[o] < now
    /\ SystemRefund(p, o)
    /\ UNCHANGED <<now, faults>>

\* The mailbox is proved to be broken while the order waits for it.
RefundUnavailable(p, o) ==
    /\ status[o] = "active"
    /\ alloc[o] = "allocated"
    /\ ~healthy[o]
    /\ refundTx[o] = "none"
    /\ SystemRefund(p, o)
    /\ UNCHANGED <<now, faults>>

-----------------------------------------------------------------------------
(* End of service without a refund, and the supplier's money.              *)

AdminTerminateOrder(p, o) ==
    /\ "terminate" \in Ops
    /\ status[o] = "active"
    /\ status' = [status EXCEPT ![o] = "closed"]
    /\ Start(p, o, "release")
    /\ UNCHANGED <<pay, supplier, refundTx, windowVars, cleanup, updatedAt, archived,
                   billingVars, serviceVars, now, faults>>

\* Faulty forms: the warranty of an activated purchase is not waited for, or only
\* a purchase nobody activated is completed.
CompletableAtWindow(o) ==
    /\ Mode[o] = "purchase" /\ status[o] = "active" /\ ~RefundPending(o)
    /\ receiveUntil[o] <= now
CompletableUnused(o) ==
    /\ Mode[o] = "purchase" /\ status[o] = "active" /\ ~RefundPending(o)
    /\ activatedAt[o] = 0 /\ receiveUntil[o] <= now

\* The condition Repo.CompleteExpiredOrder checks under the locks.
Completable(o) ==
    /\ Mode[o] = "purchase"
    /\ status[o] = "active"
    /\ ~RefundPending(o)
    /\ (IF activatedAt[o] # 0 THEN afterSale[o] ELSE receiveUntil[o]) <= now

\* The scan lists a purchase whose activation or warranty window has passed; a
\* mail may activate it before the order is locked.
CompleteExpiredOrder(o) ==
    /\ receiveUntil[o] < now \/ (activatedAt[o] # 0 /\ afterSale[o] < now)
    /\ Completable(o)
    /\ status' = [status EXCEPT ![o] = "completed"]
    /\ UNCHANGED <<pay, supplier, refundTx, windowVars, cleanup, updatedAt, archived,
                   billingVars, serviceVars, proc, now, faults>>

\* Faulty forms: an open ticket is ignored, or a closed order left out.
SettleDisputedOrder(o) ==
    /\ settle[o] = "frozen"
    /\ status[o] \in {"completed", "closed"}
    /\ Due(o) <= now
    /\ CreditSettlement(o, now)
    /\ UNCHANGED <<orderVars, buyerVars, serviceVars, proc, now, faults>>
SettleCompletedOrder(o) ==
    /\ settle[o] = "frozen" /\ status[o] = "completed"
    /\ Due(o) <= now /\ ~ticket[o]
    /\ CreditSettlement(o, now)
    /\ UNCHANGED <<orderVars, buyerVars, serviceVars, proc, now, faults>>

\* settleSupplierOrder: completes a due purchase and credits its supplier.
SettleSupplierOrder(o) ==
    /\ settle[o] = "frozen"
    /\ status[o] \in {"completed", "closed"} \/ (status[o] = "active" /\ Mode[o] = "purchase")
    /\ ~(status[o] = "active" /\ RefundPending(o))
    /\ Due(o) <= now
    /\ ~ticket[o]
    /\ IF status[o] = "active"
       THEN Completable(o) /\ status' = [status EXCEPT ![o] = "completed"]
       ELSE UNCHANGED status
    /\ CreditSettlement(o, now)
    /\ UNCHANGED <<pay, supplier, refundTx, windowVars, cleanup, updatedAt, archived,
                   buyerVars, serviceVars, proc, now, faults>>

-----------------------------------------------------------------------------
(* Clean-up of the service: up to three commits after the order moved.     *)

\* An administrator repeats the clean-up of any order but a completed purchase.
AdminRetryOrderCleanup(p, o) ==
    /\ "retry_cleanup" \in Ops
    /\ status[o] # "absent"
    /\ CleanupReleases(o) \/ ~(Mode[o] = "purchase" /\ status[o] = "completed")
    /\ Start(p, o, IF CleanupReleases(o) THEN "release" ELSE "disable")
    /\ UNCHANGED <<orderVars, billingVars, serviceVars, now, faults>>

\* Faulty form: only a clean-up known to have failed is repeated.
SweepPartialCleanup(p, o) ==
    /\ cleanup[o] = "partial_failure"
    /\ status[o] \in {"refunded", "closed"}
    /\ Start(p, o, "release")
    /\ UNCHANGED <<orderVars, billingVars, serviceVars, now, faults>>

\* The scan repeats a clean-up that did not succeed.
SweepCleanup(p, o) ==
    /\ cleanup[o] \in {"none", "partial_failure"}
    /\ status[o] \in {"refunded", "closed"} \/ (status[o] = "failed" /\ refundTx[o] # "none")
    /\ Start(p, o, IF CleanupReleases(o) THEN "release" ELSE "disable")
    /\ UNCHANGED <<orderVars, billingVars, serviceVars, now, faults>>

\* Faulty form: the reading hour is not waited for.
SweepCompletedCode(p, o) ==
    /\ Mode[o] = "code" /\ status[o] = "completed" /\ cleanup[o] = "none"
    /\ Start(p, o, "release")
    /\ UNCHANGED <<orderVars, billingVars, serviceVars, now, faults>>

\* The scan ends the service of a code whose reading hour is over.
SweepReadCode(p, o) ==
    /\ Mode[o] = "code"
    /\ status[o] \in {"completed", "refunded"}
    /\ cleanup[o] = "none"
    /\ afterSale[o] < now
    /\ Start(p, o, "release")
    /\ UNCHANGED <<orderVars, billingVars, serviceVars, now, faults>>

\* The two calls may fail; the clean-up goes on and remembers it.
CleanupRelease(p, o) ==
    /\ At(p, o, "release")
    /\ \/ ReleaseByOrder(o) /\ Goto(p, "disable") /\ UNCHANGED faults
       \/ /\ faults < MaxFaults
          /\ faults' = faults + 1
          /\ proc' = [proc EXCEPT ![p].pc = "disable", ![p].bad = TRUE]
          /\ UNCHANGED alloc
    /\ UNCHANGED <<orderVars, billingVars, allocAt, scope, healthy, token, tokenUntil,
                   delivery, ticket, now>>

CleanupDisable(p, o) ==
    /\ At(p, o, "disable")
    /\ \/ DisableOrderToken(o) /\ Goto(p, "mark") /\ UNCHANGED faults
       \/ /\ faults < MaxFaults
          /\ faults' = faults + 1
          /\ proc' = [proc EXCEPT ![p].pc = "mark", ![p].bad = TRUE]
          /\ UNCHANGED token
    /\ UNCHANGED <<orderVars, billingVars, alloc, allocAt, scope, healthy, tokenUntil,
                   delivery, ticket, now>>

MarkServiceCleanup(p, o) ==
    /\ At(p, o, "mark")
    /\ cleanup' = [cleanup EXCEPT ![o] =
                      IF proc[p].bad THEN "partial_failure" ELSE "succeeded"]
    /\ updatedAt' = [updatedAt EXCEPT ![o] = IF status[o] = "paid" THEN now ELSE @]
    /\ Done(p)
    /\ UNCHANGED <<status, pay, supplier, refundTx, windowVars, archived, billingVars,
                   serviceVars, now, faults>>

-----------------------------------------------------------------------------
(* Recovery of checkouts whose handler stopped.                            *)

\* Faulty forms: a paid order is treated like a pending one, or a pending order is
\* not taken up at all.
RecoverPaidAsPending(p, o) ==
    /\ alloc[o] = "allocated"
    /\ status[o] = "paid" /\ updatedAt[o] + StaleAfter < now
    /\ Start(p, o, "sweep")
    /\ UNCHANGED <<orderVars, billingVars, serviceVars, now, faults>>
RecoverFailedAllocation(p, o) ==
    /\ alloc[o] = "allocated" /\ status[o] = "failed"
    /\ Start(p, o, "sweep")
    /\ UNCHANGED <<orderVars, billingVars, serviceVars, now, faults>>

RecoverPaid(p, o) ==
    /\ alloc[o] = "allocated"
    /\ status[o] = "paid" /\ updatedAt[o] + StaleAfter < now
    /\ Start(p, o, "reallocate")
    /\ UNCHANGED <<orderVars, billingVars, serviceVars, now, faults>>

RecoverAllocation(p, o) ==
    /\ alloc[o] = "allocated"
    /\ \/ status[o] = "failed"
       \/ status[o] = "pending_payment" /\ allocAt[o] + StaleAfter < now
    /\ Start(p, o, "sweep")
    /\ UNCHANGED <<orderVars, billingVars, serviceVars, now, faults>>

-----------------------------------------------------------------------------
(* What happens around the orders.                                         *)

\* A ticket is accepted, under the order's lock, while its window is open.
OpenTicket(o) ==
    LET deadline == IF afterSale[o] # 0 THEN afterSale[o] ELSE receiveUntil[o]
    IN /\ "ticket" \in Ops
       /\ status[o] \in {"active", "completed", "closed"}
       /\ now < deadline
       /\ ticket' = [ticket EXCEPT ![o] = TRUE]
       /\ UNCHANGED <<orderVars, billingVars, alloc, allocAt, scope, healthy, token,
                      tokenUntil, delivery, proc, now, faults>>

CloseTicket(o) ==
    /\ ticket[o]
    /\ ticket' = [ticket EXCEPT ![o] = FALSE]
    /\ UNCHANGED <<orderVars, billingVars, alloc, allocAt, scope, healthy, token,
                   tokenUntil, delivery, proc, now, faults>>

\* A user archives an order that is over: its status stays what it is.
Archive(o) ==
    /\ "archive" \in Ops
    /\ status[o] \in TerminalStatuses
    /\ archived' = [archived EXCEPT ![o] = TRUE]
    /\ UNCHANGED <<status, pay, supplier, refundTx, windowVars, cleanup, updatedAt,
                   billingVars, serviceVars, proc, now, faults>>

Withdraw ==
    /\ "withdraw" \in Ops
    /\ available > 0
    /\ WithdrawSupplier(available)
    /\ UNCHANGED <<orderVars, buyerVars, serviceVars, proc, now, faults>>

\* Validation finds the mailbox broken, or usable again.
Validate(o) ==
    /\ "break" \in Ops
    /\ alloc[o] = "allocated"
    /\ healthy' = [healthy EXCEPT ![o] = ~@]
    /\ UNCHANGED <<orderVars, billingVars, alloc, allocAt, scope, token, tokenUntil,
                   delivery, ticket, proc, now, faults>>

\* A handler dies, or returns an error, between two of its transactions.
Crash(p) ==
    /\ proc[p].pc # "idle"
    /\ faults < MaxFaults
    /\ faults' = faults + 1
    /\ Done(p)
    /\ UNCHANGED <<orderVars, billingVars, serviceVars, now>>

\* The token cannot be issued, or the activation fails: the payment is undone.
FulfilFails(p, o) ==
    /\ At(p, o, "issue") \/ At(p, o, "activate")
    /\ faults < MaxFaults
    /\ faults' = faults + 1
    /\ proc' = [proc EXCEPT ![p].pc = "compensate", ![p].at = 0]
    /\ UNCHANGED <<orderVars, billingVars, serviceVars, now>>

Tick ==
    /\ now < MaxTime
    /\ now' = now + 1
    /\ UNCHANGED <<orderVars, billingVars, serviceVars, proc, faults>>

-----------------------------------------------------------------------------
\* A request reaches the service.
Request(p, o) ==
    \/ PlaceOrder(p, o)
    \/ ResumeCheckout(p, o)
    \/ \E t \in 1..MaxTime : MatchMail(p, o, t)
    \/ \E key \in AdminKeys : AdminRefundOrder(p, o, key)
    \/ AdminTerminateOrder(p, o)
    \/ AdminRetryOrderCleanup(p, o)

\* A worker of the lifecycle scan (ExpireDueOrders) takes up an order it listed.
ScanWork(p, o) ==
    \/ RecoverPaid(p, o)
    \/ RecoverAllocation(p, o)
    \/ ExpireCodeOrder(p, o)
    \/ RefundUnavailable(p, o)
    \/ SweepCleanup(p, o)
    \/ SweepReadCode(p, o)

\* The steps of the scan that commit once.
ScanStep(o) ==
    \/ ReconcileDelivery(o)
    \/ CompleteExpiredOrder(o)
    \/ SettleSupplierOrder(o)

\* A handler makes its next transaction.
Continue(p, o) ==
    \/ Allocate(p, o)
    \/ AllocateFails(p, o)
    \/ PayPending(p, o)
    \/ PayRefused(p, o)
    \/ FailPending(p, o)
    \/ IssueToken(p, o)
    \/ Activate(p, o)
    \/ ActivateConflict(p, o)
    \/ Compensate(p, o)
    \/ ReturnToken(p, o)
    \/ DropAllocation(p, o)
    \/ SaveDelivery(p, o)
    \/ NotifyMatchedCode(p, o)
    \/ CleanupRelease(p, o)
    \/ CleanupDisable(p, o)
    \/ MarkServiceCleanup(p, o)

Surroundings(o) ==
    \/ OpenTicket(o)
    \/ CloseTicket(o)
    \/ Archive(o)
    \/ Validate(o)

Next ==
    \/ \E p \in Callers, o \in Orders : Request(p, o)
    \/ \E p \in Workers, o \in Orders : ScanWork(p, o)
    \/ \E p \in Procs, o \in Orders : Continue(p, o) \/ FulfilFails(p, o)
    \/ \E p \in Procs : Crash(p)
    \/ \E o \in Orders : ScanStep(o) \/ Surroundings(o)
    \/ Withdraw
    \/ Tick

Spec == Init /\ [][Next]_vars

=============================================================================
