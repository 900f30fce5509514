--------------------------- MODULE TradeProperties ---------------------------
(***************************************************************************)
(* What is claimed of TradeOrder.  The bounds MaxTime and MaxFaults appear *)
(* in the liveness properties: an order whose deadline lies at the end of  *)
(* the clock is not expected to meet it.                                   *)
(***************************************************************************)
EXTENDS TradeOrder

-----------------------------------------------------------------------------
(* Money.                                                                  *)

\* Orders whose price the platform holds and the settlements in one status.
Unreturned == {o \in Orders : debited[o] /\ refunds[o] = {} /\ pay[o] # 0}
Settlements(s) == {o \in Orders : settle[o] = s}

\* The buyer's wallet lacks exactly the prices of the orders charged and not
\* refunded: no sequence of checkouts, compensations, expiries, and refunds by
\* administrators under keys of their own charges or pays an order back twice.
BuyerBalanced == balance + Price * Cardinality(Unreturned) = InitialBalance

\* The frozen bucket holds the shares of the frozen settlements, and what is
\* available or was withdrawn is the shares of the credited ones, however
\* freezing, crediting, withdrawing and the refund of credited orders alternate.
SupplierBalanced ==
    /\ frozen = Cut * Cardinality(Settlements("frozen"))
    /\ available + withdrawn = Cut * Cardinality(Settlements("credited"))

\* The order row and the ledger tell the same story across the transactions that
\* write them: an order past payment was debited; one refunded, or failed after
\* its debit, points to the only refund in the ledger; any other has none.  So no
\* order is ever failed, debited and without a refund.
LedgerMatchesOrder ==
    \A o \in Orders :
        /\ refunds[o] = {refundTx[o]} \ {"none"}
        /\ status[o] \in {"absent", "pending_payment"} => ~debited[o]
        /\ status[o] \in {"paid", "active", "completed", "closed"} =>
               debited[o] /\ refundTx[o] = "none"
        /\ status[o] = "refunded" => debited[o] /\ refundTx[o] # "none"
        /\ status[o] = "failed" => (debited[o] <=> refundTx[o] = "order")

\* The price of an order goes one way only: a refunded order leaves nothing with
\* its supplier, and an order in service or served keeps its supplier's share.
OneRecipient ==
    \A o \in Orders :
        /\ refunds[o] # {} => settle[o] \in {"none", "cancelled"}
        /\ supplier[o] /\ status[o] \in {"active", "completed", "closed"} =>
               settle[o] \in {"frozen", "credited"}

\* The settlement never falls due before the order does, and while the order is
\* served its deadline follows every change of the order's windows.
SettlementInStep ==
    \A o \in Orders : settle[o] = "frozen" =>
        /\ availableAt[o] >= Due(o)
        /\ status[o] = "active" => availableAt[o] = Due(o)

\* An order about which a ticket is open keeps its supplier's share frozen until
\* it is refunded: the supplier can never have withdrawn what a refund takes back.
DisputeHoldsMoney ==
    \A o \in Orders :
        ticket[o] /\ supplier[o] /\ refundTx[o] = "none" => settle[o] = "frozen"

-----------------------------------------------------------------------------
(* Service.                                                                *)

\* A paid order, one in service, a completed purchase and a code whose reading
\* hour runs have their mailbox, whatever late compensation or clean-up runs.
ServedHasMailbox ==
    \A o \in Orders :
        \/ status[o] \in {"paid", "active"}
        \/ status[o] = "completed" /\ (Mode[o] = "purchase" \/ now <= afterSale[o])
        => alloc[o] = "allocated"

\* An order in service has an enabled token.
TokenOpenInService ==
    \A o \in Orders : status[o] = "active" => token[o] = "enabled"

\* A completed code can be read through the hour that follows its mail: the token
\* is enabled and does not expire before.
ReadHourKept ==
    \A o \in Orders :
        Mode[o] = "code" /\ status[o] = "completed" /\ now <= afterSale[o] =>
            token[o] = "enabled" /\ tokenUntil[o] >= afterSale[o]

\* A clean-up recorded as succeeded left neither mailbox nor token behind, in
\* spite of the handlers that were still serving the order.
ServiceEnded ==
    \A o \in Orders :
        cleanup[o] = "succeeded" /\ status[o] \in {"refunded", "closed"} =>
            alloc[o] # "allocated" /\ token[o] # "enabled"

\* A purchase is completed only when its window is over: the warranty of an
\* activated one, the activation window of another, and a mail that arrives in
\* time after a completion takes it back into service.
ServedToTheEnd ==
    \A o \in Orders :
        Mode[o] = "purchase" /\ status[o] = "completed" =>
            (IF activatedAt[o] # 0 THEN afterSale[o] ELSE receiveUntil[o]) <= now

\* No delivery waits for a transaction that can only fail: the deadlines set when
\* the order was activated leave room for every mail received in its window.
MatchNeverRefused ==
    \A o \in Orders : \A seen \in {now - 1, now} : ~MatchRefused(o, seen)

\* Expiry and mailbox failure never refund a code that has been delivered, even if
\* its notification was lost and the order still looks undelivered.
DeliveredNotRefunded ==
    [][\A o \in Orders :
           Mode[o] = "code" /\ delivery[o] # 0 /\ status[o] = "active" =>
               "order" \notin refunds'[o]]_vars

-----------------------------------------------------------------------------
(* The abstract specification of the money.                                *)

BuyerOf(o) ==
    IF ~debited[o] THEN "none" ELSE IF refunds[o] = {} THEN "charged" ELSE "returned"

SellerOf(o) ==
    CASE settle[o] = "none" -> "none"
      [] settle[o] = "frozen" -> "held"
      [] settle[o] = "credited" -> "paid"
      [] settle[o] = "cancelled" -> "revoked"

Money == INSTANCE OrderMoney WITH
    buyer <- [o \in Orders |-> BuyerOf(o)],
    seller <- [o \in Orders |-> SellerOf(o)]

\* Every transaction of the trade component is one step of OrderMoney or none.
ImplementsOrderMoney == Money!Spec

-----------------------------------------------------------------------------
(* Liveness.  A handler that was not killed goes on.  The lifecycle scan   *)
(* runs every minute and visits every list in turn, so an order that stays *)
(* on a list is taken up: strongly fair where the scan's own work on other *)
(* lists can make the worker busy.  Nothing is assumed of requests,        *)
(* crashes, failing calls, mail, or the validation of mailboxes.           *)

Fairness ==
    /\ WF_vars(Tick)
    /\ \A p \in Procs, o \in Orders : WF_vars(Continue(p, o))
    /\ \A o \in Orders :
           /\ WF_vars(ReconcileDelivery(o))
           /\ WF_vars(CompleteExpiredOrder(o))
           /\ WF_vars(SettleSupplierOrder(o))
           /\ SF_vars(\E p \in Workers : RecoverPaid(p, o))
           /\ SF_vars(\E p \in Workers : RecoverAllocation(p, o))
           /\ SF_vars(\E p \in Workers : ExpireCodeOrder(p, o))
           /\ SF_vars(\E p \in Workers : SweepCleanup(p, o))
           /\ SF_vars(\E p \in Workers : SweepReadCode(p, o))

FairSpec == Spec /\ Fairness

\* A paid order is fulfilled or refunded though the handler that was paid died.
PaidMovesOn ==
    \A o \in Orders :
        status[o] = "paid" /\ updatedAt[o] + StaleAfter < MaxTime ~> status[o] # "paid"

\* A mailbox allocated for an order that is never paid comes back.
PendingMovesOn ==
    \A o \in Orders :
        /\ status[o] = "pending_payment"
        /\ alloc[o] = "allocated" /\ allocAt[o] + StaleAfter < MaxTime
        ~> status[o] # "pending_payment"

\* A code order ends when its window does: with the mail it was delivered, though
\* the notification was lost, or else with a refund.
CodeEnds ==
    \A o \in Orders :
        Mode[o] = "code" /\ status[o] = "active" /\ receiveUntil[o] < MaxTime
        ~> status[o] # "active"

\* The mailbox and the token of a refunded or closed order are taken back, though
\* the clean-up that follows the refund crashed or failed in part.
ServiceComesToEnd ==
    \A o \in Orders :
        status[o] \in {"refunded", "closed"}
        ~> alloc[o] # "allocated" /\ token[o] # "enabled"

\* A purchase in service is completed when its last deadline is over, activated by
\* a mail or not, unless its mailbox is broken and the order waits for the refund.
PurchaseEnds ==
    \A o \in Orders :
        Mode[o] = "purchase" /\ status[o] = "active" /\ Due(o) < MaxTime
        ~> status[o] # "active" \/ RefundPending(o)

\* The supplier of an order in service or served is paid once its deadline has
\* passed, unless the buyer gets the money back, disputes the order or waits for a
\* refund: no sequence of completion, late mail and repeated completion loses it.
SupplierSettled ==
    \A o \in Orders :
        settle[o] = "frozen" /\ Due(o) < MaxTime
        ~> settle[o] # "frozen" \/ ticket[o] \/ RefundPending(o)

-----------------------------------------------------------------------------
(* What the documents of the repository say and the code does not keep.    *)

\* docs/13-quality-matrices.md: a clean-up that failed in part is recovered by the
\* lifecycle scan without manual work.
PartialCleanupRecovered ==
    \A o \in Orders : cleanup[o] = "partial_failure" ~> cleanup[o] # "partial_failure"

\* docs/3-trade-fulfillment.md, ADR-TRADE-4: the token is disabled only when the
\* service of its order ends.
TokenDisabledOnlyAtEnd ==
    \A o \in Orders : token[o] = "disabled" => status[o] \notin {"paid", "active"}

\* docs/9-openapi-credentials.md, INV-O5: when the service ends the token must be
\* disabled: a failed order whose clean-up succeeded, and on which no handler works
\* any more, has no enabled token.
EndedTokenDisabled ==
    \A o \in Orders :
        /\ status[o] = "failed" /\ cleanup[o] = "succeeded"
        /\ \A p \in Procs : proc[p].ord # o
        => token[o] # "enabled"

\* docs/13-quality-matrices.md: a checkout that cannot mark its order failed leaves
\* no pending order behind: a pending order has a handler, or a mailbox by which
\* the recovery of checkouts finds it.
NoDirtyPending ==
    \A o \in Orders :
        status[o] = "pending_payment" /\ alloc[o] = "none" =>
            \E p \in Procs : proc[p].ord = o

=============================================================================
