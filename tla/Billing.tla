------------------------------- MODULE Billing -------------------------------
(***************************************************************************)
(* The money the order life cycle moves: the buyer's consumer balance with *)
(* its ledger, and the supplier's frozen and available buckets with the    *)
(* settlement row of every order.  One buyer and one supplier own all the  *)
(* orders of an instance, so every order competes for the same wallets.    *)
(*                                                                         *)
(* Each operator is what ONE call does to the tables of the billing        *)
(* component.  The wallet row and the settlement row are locked by every   *)
(* call and the calls run inside the caller's database transaction, so a   *)
(* transaction of the trade component is a conjunction of these operators. *)
(* An operator named Can... is the condition under which the call does not *)
(* return an error; an error rolls the caller's transaction back.          *)
(*                                                                         *)
(* A definition introduced as a faulty form is used by no action: it is    *)
(* what the next definition could have been by mistake, and shows that a   *)
(* property notices the difference.                                        *)
(***************************************************************************)
EXTENDS TradeConstants

CONSTANTS
    InitialBalance,  \* consumer balance of the buyer
    Price,           \* list price of a public order
    Cut              \* the supplier's share of a public order

ASSUME MoneyAssumption ==
    /\ InitialBalance \in Nat
    /\ Price \in Nat \ {0}
    /\ Cut \in Nat \ {0}

VARIABLES
    balance,      \* consumer_balance of the buyer's wallet
    debited,      \* debited[o]: the ledger holds "order:o:debit"
    refunds,      \* refunds[o]: keys under which the ledger holds a refund of o
    settle,       \* supplier_settlements.status, "none" when there is no row
    availableAt,  \* supplier_settlements.available_at
    frozen,       \* supplier_frozen of the supplier's wallet
    available,    \* supplier_available of the supplier's wallet
    withdrawn     \* what the supplier was paid out so far

buyerVars == <<balance, debited, refunds>>
supplierVars == <<settle, availableAt, frozen, available, withdrawn>>
billingVars == <<balance, debited, refunds,
                 settle, availableAt, frozen, available, withdrawn>>

SettlementStatuses == {"none", "frozen", "credited", "cancelled"}

BillingTypeOK ==
    /\ balance \in Nat
    /\ debited \in [Orders -> BOOLEAN]
    /\ refunds \in [Orders -> SUBSET RefundKeys]
    /\ settle \in [Orders -> SettlementStatuses]
    /\ availableAt \in [Orders -> Nat]
    /\ frozen \in Int
    /\ available \in Int
    /\ withdrawn \in Nat

BillingInit ==
    /\ balance = InitialBalance
    /\ debited = [o \in Orders |-> FALSE]
    /\ refunds = [o \in Orders |-> {}]
    /\ settle = [o \in Orders |-> "none"]
    /\ availableAt = [o \in Orders |-> 0]
    /\ frozen = 0
    /\ available = 0
    /\ withdrawn = 0

-----------------------------------------------------------------------------
(* The buyer's wallet.  A call whose idempotency key is already in the     *)
(* ledger replays the stored answer and moves nothing.                     *)

\* Faulty form: the balance is not checked.
CanDebitUnchecked(o, amount) == TRUE

CanDebit(o, amount) == debited[o] \/ amount <= balance

DebitConsumer(o, amount) ==
    /\ balance' = IF debited[o] THEN balance ELSE balance - amount
    /\ debited' = [debited EXCEPT ![o] = TRUE]
    /\ UNCHANGED refunds

\* Faulty form: the list price is paid back.
RefundListPrice(o, key, amount) ==
    /\ balance' = IF key \in refunds[o] THEN balance ELSE balance + Price
    /\ refunds' = [refunds EXCEPT ![o] = @ \cup {key}]
    /\ UNCHANGED debited

RefundConsumer(o, key, amount) ==
    /\ balance' = IF key \in refunds[o] THEN balance ELSE balance + amount
    /\ refunds' = [refunds EXCEPT ![o] = @ \cup {key}]
    /\ UNCHANGED debited

-----------------------------------------------------------------------------
(* The settlement of an order: Cut waits in the frozen bucket until        *)
(* availableAt, is moved to the available bucket once, or is cancelled.    *)

CanFreeze(o) == settle[o] # "cancelled"

FreezeSettlement(o, due) ==
    /\ CanFreeze(o)
    /\ IF settle[o] = "none"
       THEN /\ settle' = [settle EXCEPT ![o] = "frozen"]
            /\ availableAt' = [availableAt EXCEPT ![o] = due]
            /\ frozen' = frozen + Cut
            /\ UNCHANGED <<available, withdrawn>>
       ELSE UNCHANGED supplierVars

CanReschedule(o, due) ==
    settle[o] = "frozen" \/ (settle[o] = "credited" /\ due <= availableAt[o])

\* Faulty form: the deadline stays.
RescheduleNothing(o, due) == CanReschedule(o, due) /\ UNCHANGED supplierVars

RescheduleSettlement(o, due) ==
    /\ CanReschedule(o, due)
    /\ availableAt' = IF settle[o] = "frozen"
                      THEN [availableAt EXCEPT ![o] = due]
                      ELSE availableAt
    /\ UNCHANGED <<settle, frozen, available, withdrawn>>

CanCredit(o, time) ==
    settle[o] = "credited" \/ (settle[o] = "frozen" /\ availableAt[o] <= time)

CreditSettlement(o, time) ==
    /\ CanCredit(o, time)
    /\ IF settle[o] = "frozen"
       THEN /\ settle' = [settle EXCEPT ![o] = "credited"]
            /\ frozen' = frozen - Cut
            /\ available' = available + Cut
            /\ UNCHANGED <<availableAt, withdrawn>>
       ELSE UNCHANGED supplierVars

\* A credited settlement is taken back from the available bucket, which fails
\* when the supplier has already withdrawn it.
CanCancel(o) ==
    \/ settle[o] = "cancelled"
    \/ settle[o] = "frozen" /\ Cut <= frozen
    \/ settle[o] = "credited" /\ Cut <= available

\* Faulty form: a credited share is taken from the frozen bucket.
CancelAsFrozen(o) ==
    /\ CanCancel(o)
    /\ settle' = [settle EXCEPT ![o] = "cancelled"]
    /\ frozen' = IF settle[o] = "cancelled" THEN frozen ELSE frozen - Cut
    /\ UNCHANGED <<available, availableAt, withdrawn>>

CancelSettlement(o) ==
    /\ CanCancel(o)
    /\ settle' = [settle EXCEPT ![o] = "cancelled"]
    /\ frozen' = IF settle[o] = "frozen" THEN frozen - Cut ELSE frozen
    /\ available' = IF settle[o] = "credited" THEN available - Cut ELSE available
    /\ UNCHANGED <<availableAt, withdrawn>>

\* The supplier takes an amount out of the available bucket.
WithdrawSupplier(amount) ==
    /\ amount <= available
    /\ available' = available - amount
    /\ withdrawn' = withdrawn + amount
    /\ UNCHANGED <<settle, availableAt, frozen>>

=============================================================================
