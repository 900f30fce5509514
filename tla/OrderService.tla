---------------------------- MODULE OrderService ----------------------------
(***************************************************************************)
(* What an order is served with, in the tables of four other components:   *)
(* the allocation of a mailbox (alloc), the state of the mailbox it        *)
(* allocates (core), the bearer token the buyer reads mail with (openapi), *)
(* the mail matched to the order (mailmatch) and the after-sale ticket     *)
(* about it (aftersale).                                                   *)
(*                                                                         *)
(* Each operator is what ONE call does to these tables.  A call either has *)
(* its own transaction, and is then an action of the trade component, or   *)
(* is a conjunct of the transaction that makes it.  A definition           *)
(* introduced as a faulty form is used by no action, see Billing.          *)
(***************************************************************************)
EXTENDS TradeConstants

CONSTANT Scopes   \* supply scopes an allocation may come from

\* "owned": the buyer's own mailbox, free of charge.  "platform": a public
\* mailbox whose supplier gets nothing.  "supplied": one whose supplier does.
ASSUME ScopesAssumption == Scopes \subseteq {"owned", "platform", "supplied"}

VARIABLES
    alloc,       \* allocation status of the order, "none" before there is one
    allocAt,     \* created_at of the allocation
    scope,       \* supply scope of the allocation
    healthy,     \* FALSE while the allocated mailbox is "abnormal"
    token,       \* state of the order's token row
    tokenUntil,  \* expire_at of the token, 0 for none
    delivery,    \* received_at of the mail delivered to the order, 0 for none
    ticket       \* TRUE while an after-sale ticket about the order is open

serviceVars == <<alloc, allocAt, scope, healthy, token, tokenUntil, delivery, ticket>>

ServiceTypeOK ==
    /\ alloc \in [Orders -> {"none", "allocated", "released"}]
    /\ allocAt \in [Orders -> Nat]
    /\ scope \in [Orders -> Scopes \cup {"none"}]
    /\ healthy \in [Orders -> BOOLEAN]
    /\ token \in [Orders -> {"none", "enabled", "disabled"}]
    /\ tokenUntil \in [Orders -> Nat]
    /\ delivery \in [Orders -> Nat]
    /\ ticket \in [Orders -> BOOLEAN]

ServiceInit ==
    /\ alloc = [o \in Orders |-> "none"]
    /\ allocAt = [o \in Orders |-> 0]
    /\ scope = [o \in Orders |-> "none"]
    /\ healthy = [o \in Orders |-> TRUE]
    /\ token = [o \in Orders |-> "none"]
    /\ tokenUntil = [o \in Orders |-> 0]
    /\ delivery = [o \in Orders |-> 0]
    /\ ticket = [o \in Orders |-> FALSE]

-----------------------------------------------------------------------------
(* Allocation.  The guard row of an order makes its allocation unique; a   *)
(* later call finds it, released or not, as long as its mailbox is usable. *)

CanAllocate(o) == alloc[o] = "none" \/ healthy[o]

AllocateMailbox(o, s, time) ==
    /\ CanAllocate(o)
    /\ IF alloc[o] = "none"
       THEN /\ alloc' = [alloc EXCEPT ![o] = "allocated"]
            /\ allocAt' = [allocAt EXCEPT ![o] = time]
            /\ scope' = [scope EXCEPT ![o] = s]
       ELSE UNCHANGED <<alloc, allocAt, scope>>

\* Releasing what is released, or was never allocated, succeeds.
ReleaseByOrder(o) ==
    alloc' = [alloc EXCEPT ![o] = IF @ = "allocated" THEN "released" ELSE @]

-----------------------------------------------------------------------------
(* The token row: inserted once, never enabled again.                      *)

IssueOrderToken(o, until) ==
    /\ token' = [token EXCEPT ![o] = IF @ = "none" THEN "enabled" ELSE @]
    /\ tokenUntil' = [tokenUntil EXCEPT ![o] = IF token[o] = "none" THEN until ELSE @]

DisableOrderToken(o) ==
    token' = [token EXCEPT ![o] = IF @ = "enabled" THEN "disabled" ELSE @]

\* An error when no enabled row is there to extend.
CanExtendToken(o) == token[o] = "enabled"

\* Faulty form: the token keeps the expiry it was issued with.
ExtendOrderTokenNever(o, until) == CanExtendToken(o) /\ UNCHANGED tokenUntil

ExtendOrderToken(o, until) ==
    /\ CanExtendToken(o)
    /\ tokenUntil' = [tokenUntil EXCEPT ![o] = IF @ < until THEN until ELSE @]

-----------------------------------------------------------------------------
\* The first delivery of an order stays; a later one is ignored.
CreateOrderDelivery(o, received) ==
    delivery' = [delivery EXCEPT ![o] = IF @ = 0 THEN received ELSE @]

=============================================================================
