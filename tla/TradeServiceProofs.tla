-------------------------- MODULE TradeServiceProofs --------------------------
(***************************************************************************)
(* The mailbox and the token of an order, proved for every set of orders   *)
(* and handlers, every window and every bound.  An order whose service is  *)
(* over (Over) stays that way, and only such an order loses its mailbox or *)
(* its token, however late the handler that takes them runs.  What the     *)
(* handlers in flight know of their orders is part of the invariant        *)
(* (HandlerInv): it was true when they read it and cannot become false.    *)
(*                                                                         *)
(* An administrator who repeats a clean-up may take the token of any order *)
(* and the mailbox of a code in its reading hour, so the theorems about    *)
(* tokens exclude that operation and those about mailboxes allow it only   *)
(* where every order is a purchase.                                        *)
(***************************************************************************)
EXTENDS TradeDeadlineProofs

NoManualCleanup == "retry_cleanup" \notin Ops

ManualOnPurchases == "retry_cleanup" \in Ops => \A o \in Orders : Mode[o] = "purchase"

-----------------------------------------------------------------------------
(* The inductive invariant.                                                *)

\* Nothing is served for o any more, and never will be.
Over(o) ==
    \/ status[o] \in {"failed", "refunded", "closed"}
    \/ Mode[o] = "code" /\ status[o] = "completed" /\ afterSale[o] < now

InService == {"active", "completed", "refunded", "closed"}

RowInv(o) ==
    /\ alloc[o] = "released" => Over(o)
    /\ status[o] \in {"paid"} \cup InService => alloc[o] # "none"
    /\ status[o] \in InService => token[o] # "none"
    /\ Mode[o] = "code" /\ status[o] = "completed" => tokenUntil[o] >= afterSale[o]
    /\ NoManualCleanup =>
        /\ token[o] = "disabled" => Over(o)
        /\ cleanup[o] = "succeeded" /\ status[o] \in InService =>
               alloc[o] = "released" /\ token[o] = "disabled"

\* What handler p at step pc, without a failed call if ~bad, knows of its order o.
Knows(pc, bad, o) ==
    /\ pc # "idle" => status[o] # "absent"
    /\ pc = "pay" => alloc[o] # "none"
    /\ pc = "activate" => token[o] # "none"
    /\ pc \in {"drop", "release"} => Over(o)
    /\ NoManualCleanup =>
        /\ pc \in {"disable", "mark"} => Over(o)
        /\ pc \in {"disable", "mark"} /\ ~bad /\ status[o] # "failed" => alloc[o] = "released"
        /\ pc = "mark" /\ ~bad /\ status[o] # "failed" => token[o] = "disabled"

HandlerInv(p) ==
    /\ proc[p].pc # "idle" => proc[p].ord \in Orders
    /\ \A o \in Orders : proc[p].ord = o => Knows(proc[p].pc, proc[p].bad, o)

ServiceInv ==
    /\ \A o \in Orders : RowInv(o)
    /\ \A p \in Procs : HandlerInv(p)

-----------------------------------------------------------------------------
(* How a transaction moves mailboxes, tokens, clean-ups and handlers.      *)

MailboxStep ==
    \/ UNCHANGED alloc
    \/ \E o \in Orders : alloc[o] = "none" /\ alloc' = [alloc EXCEPT ![o] = "allocated"]
    \/ \E o \in Orders : ReleaseByOrder(o) /\ Over(o)'

TokenMove(o) ==
    \/ \E until \in Nat : IssueOrderToken(o, until)
    \/ \E until \in Nat : UNCHANGED token /\ ExtendOrderToken(o, until)
    \/ DisableOrderToken(o) /\ UNCHANGED tokenUntil /\ (NoManualCleanup => Over(o)')

TokenStep == UNCHANGED <<token, tokenUntil>> \/ \E o \in Orders : TokenMove(o)

\* What the order's row must find when it moves on.
RowStep(o) ==
    /\ status[o] # "paid" /\ status'[o] = "paid" => alloc[o] # "none"
    /\ status[o] \notin InService /\ status'[o] \in InService =>
           token[o] # "none" /\ cleanup'[o] = "none" /\ status[o] = "paid"
    /\ Mode[o] = "code" /\ status[o] # "completed" /\ status'[o] = "completed" =>
           tokenUntil'[o] >= afterSale'[o]
    /\ NoManualCleanup /\ cleanup[o] # "succeeded" /\ cleanup'[o] = "succeeded" =>
           status[o] = "failed" \/ (alloc[o] = "released" /\ token[o] = "disabled")

HandlerStep ==
    \/ UNCHANGED proc
    \/ \E p \in Procs : HandlerInv(p)' /\ \A r \in Procs \ {p} : proc'[r] = proc[r]

ServiceStep == MailboxStep /\ TokenStep /\ (\A o \in Orders : RowStep(o)) /\ HandlerStep
-----------------------------------------------------------------------------
(* Such a step keeps the invariant.                                        *)

LEMMA ServiceFacts ==
  ASSUME TypeOK, NEW o \in Orders
  PROVE  /\ alloc[o] \in {"none", "allocated", "released"}
         /\ token[o] \in {"none", "enabled", "disabled"}
         /\ tokenUntil[o] \in Nat /\ afterSale[o] \in Nat /\ now \in Nat
         /\ status[o] \in Statuses /\ Mode[o] \in {"code", "purchase"}
  BY TradeAssumption DEF TypeOK, OrderTypeOK, ServiceTypeOK

LEMMA InitServiceInv == Init => ServiceInv
<1> SUFFICES ASSUME Init
             PROVE  ServiceInv
  OBVIOUS
<1>1. ASSUME NEW o \in Orders
      PROVE  RowInv(o)
  BY DEF Init, ServiceInit, RowInv, InService
<1>2. ASSUME NEW p \in Procs
      PROVE  HandlerInv(p)
  BY DEF Init, Idle, HandlerInv, Knows
<1>3. QED
  BY <1>1, <1>2 DEF ServiceInv

\* What is over stays over, what failed failed, and no order disappears.
LEMMA OverStays ==
  ASSUME TypeOK, TypeOK', MoneyInv, [Next]_vars, NEW o \in Orders
  PROVE  /\ status[o] # "absent" => status'[o] # "absent"
         /\ status[o] = "failed" => status'[o] = "failed"
         /\ Over(o) => Over(o)'
<1>t. DeadlineTypeOK /\ now \in Nat /\ now' \in Nat /\ afterSale[o] \in Nat
  BY DeadlineTypes DEF TypeOK, OrderTypeOK
<1>1. /\ status[o] # "absent" => status'[o] # "absent"
      /\ \A s \in {"failed", "refunded", "closed"} : status[o] = s => status'[o] = s
  <2>1. MoneyStep
    BY MoneySteps
  <2>2. CASE Quiet
    BY <2>2 DEF Quiet, FreeMove
  <2>3. ASSUME NEW q \in Orders, Charges(q) \/ Holds(q) \/ PaysSupplier(q) \/ Returns(q)
        PROVE  <1>1!1 /\ <1>1!2
    BY <2>3, <1>t DEF Charges, Holds, PaysSupplier, Returns, DeadlineTypeOK
  <2>4. QED
    BY <2>1, <2>2, <2>3 DEF MoneyStep
<1>2. ASSUME Mode[o] = "code", status[o] = "completed", afterSale[o] < now
      PROVE  \/ status'[o] = "refunded"
             \/ status'[o] = "completed" /\ afterSale'[o] < now'
  <2>1. Moves(o) /\ now' >= now
    BY NextMoves
  <2>2. \/ status'[o] = "refunded"
        \/ status'[o] = "completed" /\ afterSale'[o] = afterSale[o]
    BY <1>2, <2>1
       DEF Moves, Rests, Advances, Starts, Delivers, Refunds, Ends, Disputes, SameWindows, Unserved
  <2>3. QED
    BY <1>2, <2>1, <2>2, <1>t
<1>3. QED
  BY <1>1, <1>2 DEF Over

\* A mailbox is never taken back, and released only when the order is over.
LEMMA MailboxKept ==
  ASSUME TypeOK, MailboxStep, NEW o \in Orders
  PROVE  /\ alloc[o] # "none" => alloc'[o] # "none"
         /\ alloc[o] = "released" => alloc'[o] = "released"
         /\ alloc'[o] = "released" => alloc[o] = "released" \/ Over(o)'
<1>t. alloc \in [Orders -> {"none", "allocated", "released"}]
  BY DEF TypeOK, ServiceTypeOK
<1>1. ASSUME NEW q \in Orders, ReleaseByOrder(q), Over(q)'
      PROVE  /\ alloc[o] # "none" => alloc'[o] # "none"
             /\ alloc[o] = "released" => alloc'[o] = "released"
             /\ alloc'[o] = "released" => alloc[o] = "released" \/ Over(o)'
  BY <1>t, <1>1 DEF ReleaseByOrder
<1>2. QED
  BY <1>t, <1>1 DEF MailboxStep

\* A token is never issued twice, and disabled only when the order is over; its
\* expiry moves forward only.
LEMMA TokenKept ==
  ASSUME TypeOK, TokenStep, NEW o \in Orders
  PROVE  /\ token[o] # "none" => token'[o] # "none" /\ tokenUntil'[o] >= tokenUntil[o]
         /\ token[o] = "disabled" => token'[o] = "disabled"
         /\ NoManualCleanup /\ token'[o] = "disabled" => token[o] = "disabled" \/ Over(o)'
<1> DEFINE Kept ==
        /\ token[o] # "none" => token'[o] # "none" /\ tokenUntil'[o] >= tokenUntil[o]
        /\ token[o] = "disabled" => token'[o] = "disabled"
        /\ NoManualCleanup /\ token'[o] = "disabled" => token[o] = "disabled" \/ Over(o)'
<1>t. /\ token \in [Orders -> {"none", "enabled", "disabled"}]
      /\ tokenUntil \in [Orders -> Nat]
  BY DEF TypeOK, ServiceTypeOK
<1>1. ASSUME NEW q \in Orders, TokenMove(q)
      PROVE  Kept
  <2>1. CASE DisableOrderToken(q) /\ UNCHANGED tokenUntil /\ (NoManualCleanup => Over(q)')
    BY <1>t, <2>1 DEF DisableOrderToken
  <2>2. CASE \E until \in Nat : IssueOrderToken(q, until)
    BY <1>t, <2>2 DEF IssueOrderToken
  <2>3. CASE \E until \in Nat : UNCHANGED token /\ ExtendOrderToken(q, until)
    BY <1>t, <2>3 DEF ExtendOrderToken
  <2>4. QED
    BY <1>1, <2>1, <2>2, <2>3 DEF TokenMove
<1>2. ASSUME UNCHANGED <<token, tokenUntil>>
      PROVE  Kept
  BY <1>t, <1>2
<1> HIDE DEF Kept
<1>3. Kept
  BY <1>1, <1>2 DEF TokenStep
<1>4. QED
  BY <1>3 DEF Kept
LEMMA RowInvStep ==
  ASSUME TypeOK, TypeOK', MoneyInv, ServiceInv, [Next]_vars, ServiceStep, NEW o \in Orders
  PROVE  RowInv(o)'
<1>f. /\ alloc[o] \in {"none", "allocated", "released"}
      /\ token[o] \in {"none", "enabled", "disabled"}
      /\ tokenUntil[o] \in Nat /\ afterSale[o] \in Nat /\ now \in Nat
      /\ status[o] \in Statuses /\ Mode[o] \in {"code", "purchase"}
  BY ServiceFacts
<1>g. /\ status'[o] \in Statuses /\ tokenUntil'[o] \in Nat /\ afterSale'[o] \in Nat
      /\ alloc'[o] \in {"none", "allocated", "released"}
      /\ token'[o] \in {"none", "enabled", "disabled"}
  BY DEF TypeOK, OrderTypeOK, ServiceTypeOK
<1>i. RowInv(o)
  BY DEF ServiceInv
<1>s. RowStep(o)
  BY DEF ServiceStep
<1>a. /\ alloc[o] # "none" => alloc'[o] # "none"
      /\ alloc[o] = "released" => alloc'[o] = "released"
      /\ alloc'[o] = "released" => alloc[o] = "released" \/ Over(o)'
  BY MailboxKept DEF ServiceStep
<1>b. /\ token[o] # "none" => token'[o] # "none" /\ tokenUntil'[o] >= tokenUntil[o]
      /\ token[o] = "disabled" => token'[o] = "disabled"
      /\ NoManualCleanup /\ token'[o] = "disabled" => token[o] = "disabled" \/ Over(o)'
  BY TokenKept DEF ServiceStep
<1>o. /\ status[o] = "failed" => status'[o] = "failed"
      /\ Over(o) => Over(o)'
  BY OverStays
<1>m. Mode[o] = "code" /\ status[o] = "completed" /\ status'[o] = "completed" =>
          afterSale'[o] = afterSale[o]
  <2>1. Moves(o)
    BY NextMoves
  <2>2. QED
    BY <2>1
       DEF Moves, Rests, Advances, Starts, Delivers, Refunds, Ends, Disputes, SameWindows, Unserved
<1>1. (alloc[o] = "released" => Over(o))'
  BY <1>i, <1>a, <1>o DEF RowInv
<1>2. status'[o] \in {"paid"} \cup InService => alloc'[o] # "none"
  BY <1>i, <1>a, <1>s, <1>m DEF RowInv, RowStep
<1>3. status'[o] \in InService => token'[o] # "none"
  BY <1>i, <1>b, <1>s DEF RowInv, RowStep
<1>4. Mode[o] = "code" /\ status'[o] = "completed" => tokenUntil'[o] >= afterSale'[o]
  BY <1>i, <1>b, <1>s, <1>m, <1>f, <1>g DEF RowInv, RowStep, InService
<1>5. (NoManualCleanup /\ token[o] = "disabled" => Over(o))'
  BY <1>i, <1>b, <1>o DEF RowInv, NoManualCleanup
<1>6. ASSUME NoManualCleanup, cleanup'[o] = "succeeded", status'[o] \in InService
      PROVE  alloc'[o] = "released" /\ token'[o] = "disabled"
  BY <1>6, <1>i, <1>a, <1>b, <1>s, <1>o DEF RowInv, RowStep, InService
<1>7. QED
  BY <1>1, <1>2, <1>3, <1>4, <1>5, <1>6 DEF RowInv, NoManualCleanup

\* What a handler knew before the transaction of another one is still true.
LEMMA KnowsStays ==
  ASSUME TypeOK, TypeOK', MoneyInv, [Next]_vars, ServiceStep, NEW o \in Orders,
         NEW pc, NEW bad, Knows(pc, bad, o)
  PROVE  Knows(pc, bad, o)'
<1>a. /\ alloc[o] # "none" => alloc'[o] # "none"
      /\ alloc[o] = "released" => alloc'[o] = "released"
  BY MailboxKept DEF ServiceStep
<1>b. /\ token[o] # "none" => token'[o] # "none"
      /\ token[o] = "disabled" => token'[o] = "disabled"
  BY TokenKept DEF ServiceStep
<1>o. /\ status[o] # "absent" => status'[o] # "absent"
      /\ status[o] = "failed" => status'[o] = "failed"
      /\ Over(o) => Over(o)'
  BY OverStays
<1>1. QED
  BY <1>a, <1>b, <1>o DEF Knows, NoManualCleanup

LEMMA ServiceInvStep ==
  ASSUME TypeOK, TypeOK', MoneyInv, ServiceInv, [Next]_vars, ServiceStep
  PROVE  ServiceInv'
<1>1. ASSUME NEW o \in Orders
      PROVE  RowInv(o)'
  BY RowInvStep
<1>2. ASSUME NEW r \in Procs, proc'[r] = proc[r]
      PROVE  HandlerInv(r)'
  <2>1. HandlerInv(r)
    BY DEF ServiceInv
  <2>2. PICK pc, bad : pc = proc[r].pc /\ bad = proc[r].bad
    OBVIOUS
  <2>3. \A o \in Orders : proc[r].ord = o => Knows(pc, bad, o)'
    BY <2>1, <2>2, KnowsStays DEF HandlerInv
  <2>4. proc'[r].pc = pc /\ proc'[r].bad = bad
    BY <1>2, <2>2
  <2>5. \A o \in Orders : Knows(pc, bad, o)' => Knows(proc[r].pc, proc[r].bad, o)'
    BY <2>4 DEF Knows, NoManualCleanup
  <2>6. QED
    BY <1>2, <2>1, <2>3, <2>5 DEF HandlerInv
<1>3. ASSUME NEW r \in Procs
      PROVE  HandlerInv(r)'
  <2>1. HandlerStep
    BY DEF ServiceStep
  <2>2. QED
    BY <1>2, <2>1 DEF HandlerStep
<1>4. QED
  BY <1>1, <1>3 DEF ServiceInv
-----------------------------------------------------------------------------
(* Every transaction is such a step.                                       *)

LEMMA ServiceUntouched ==
  ASSUME UNCHANGED <<alloc, token, tokenUntil>>
  PROVE  MailboxStep /\ TokenStep
  BY DEF MailboxStep, TokenStep

LEMMA RowsUntouched ==
  ASSUME UNCHANGED <<status, cleanup>>
  PROVE  \A o \in Orders : RowStep(o)
  BY DEF RowStep

\* The transaction of p leaves it at step pc of order o.
LEMMA HandlerMoves ==
  ASSUME NEW p \in Procs, NEW o \in Orders, NEW pc, NEW bad, Knows(pc, bad, o)',
         proc'[p].ord = o, proc'[p].pc = pc, proc'[p].bad = bad,
         \A r \in Procs \ {p} : proc'[r] = proc[r]
  PROVE  HandlerStep
<1>1. \A q \in Orders : proc'[p].ord = q => Knows(proc[p].pc, proc[p].bad, q)'
  BY DEF Knows, NoManualCleanup
<1>2. HandlerInv(p)'
  BY <1>1 DEF HandlerInv
<1>3. QED
  BY <1>2 DEF HandlerStep

LEMMA HandlerStarts ==
  ASSUME TypeOK, NEW p \in Procs, NEW o \in Orders, NEW pc, Knows(pc, FALSE, o)',
         Start(p, o, pc)
  PROVE  HandlerStep
<1>1. proc \in [Procs -> ProcStates]
  BY DEF TypeOK, ProcTypeOK
<1>2. /\ proc'[p].ord = o /\ proc'[p].pc = pc /\ proc'[p].bad = FALSE
      /\ \A r \in Procs \ {p} : proc'[r] = proc[r]
  BY <1>1 DEF Start, Idle
<1>3. QED
  BY <1>2, HandlerMoves

LEMMA HandlerStops ==
  ASSUME TypeOK, NEW p \in Procs, Done(p)
  PROVE  HandlerStep
<1>1. proc \in [Procs -> ProcStates]
  BY DEF TypeOK, ProcTypeOK
<1>2. proc'[p] = Idle /\ \A r \in Procs \ {p} : proc'[r] = proc[r]
  BY <1>1 DEF Done
<1>3. HandlerInv(p)'
  <2>1. proc'[p].pc = "idle" /\ proc'[p].ord \notin Orders
    BY <1>2, TradeAssumption DEF Idle
  <2>2. QED
    BY <2>1 DEF HandlerInv
<1>4. QED
  BY <1>2, <1>3 DEF HandlerStep

\* A checkout that takes its order up again, whose status it just read.
LEMMA HandlerResumes ==
  ASSUME TypeOK, NEW p \in Procs, NEW o \in Orders, proc[p].ord = o, status[o] # "absent",
         NEW held \in BOOLEAN, UNCHANGED status, Resume(p, status[o], held)
  PROVE  HandlerStep
<1>t. proc \in [Procs -> ProcStates]
  BY DEF TypeOK, ProcTypeOK
<1>1. PICK label : label = NextLabel(status[o], held)
  OBVIOUS
<1>2. CASE label = "idle"
  BY <1>1, <1>2, HandlerStops DEF Resume, Done
<1>3. CASE label # "idle"
  <2>1. /\ proc'[p].ord = o /\ proc'[p].pc = label /\ proc'[p].bad = FALSE
        /\ \A r \in Procs \ {p} : proc'[r] = proc[r]
    BY <1>1, <1>3, <1>t DEF Resume, Idle
  <2>2. /\ label \in {"allocate", "issue", "reallocate", "token", "drop"}
        /\ label = "drop" => status[o] = "failed"
    BY <1>1, <1>3 DEF NextLabel
  <2>3. Knows(label, FALSE, o)'
    BY <2>2 DEF Knows, Over
  <2>4. QED
    BY <2>1, <2>3, HandlerMoves
<1>4. QED
  BY <1>2, <1>3

LEMMA MatchedServes ==
  ASSUME TypeOK, NEW o \in Orders, NEW seen \in Int, Matched(o, seen)
  PROVE  MailboxStep /\ TokenStep /\ \A q \in Orders : RowStep(q)
<1>t. /\ delivery[o] \in Nat /\ status \in [Orders -> Statuses] /\ afterSale \in [Orders -> Nat]
      /\ tokenUntil \in [Orders -> Nat] /\ ReadWindow \in Nat
  BY TradeAssumption DEF TypeOK, OrderTypeOK, ServiceTypeOK
<1>1. status[o] \in {"active", "completed"} /\ UNCHANGED <<alloc, cleanup, token>>
  BY DEF Matched, Undelivered, CodeMatched, PurchaseMatched
<1>2. MailboxStep
  BY <1>1 DEF MailboxStep
<1>3. CASE CodeMatched(o)
  <2> DEFINE until == delivery[o] + ReadWindow
  <2>1. /\ until \in Nat /\ ExtendOrderToken(o, until)
        /\ status' = [status EXCEPT ![o] = "completed"]
        /\ afterSale' = [afterSale EXCEPT ![o] = until]
    BY <1>3, <1>t DEF CodeMatched
  <2> HIDE DEF until
  <2>2. tokenUntil'[o] >= afterSale'[o]
    BY <2>1, <1>t DEF ExtendOrderToken
  <2>3. \A q \in Orders : RowStep(q)
    BY <2>1, <2>2, <1>1, <1>t DEF RowStep, InService
  <2>4. TokenStep
    BY <2>1, <1>1 DEF TokenStep, TokenMove
  <2>5. QED
    BY <1>2, <2>3, <2>4
<1>4. CASE PurchaseMatched(o, seen)
  <2>1. Mode[o] = "purchase" /\ UNCHANGED <<token, tokenUntil>>
    BY <1>4 DEF PurchaseMatched
  <2>2. \E s \in {"completed", "active"} : status' = [status EXCEPT ![o] = s]
    BY <1>4 DEF PurchaseMatched
  <2>3. \A q \in Orders : RowStep(q)
    BY <2>1, <2>2, <1>1, <1>t DEF RowStep, InService
  <2>4. QED
    BY <1>2, <2>1, <2>3 DEF TokenStep
<1>5. QED
  BY <1>3, <1>4 DEF Matched

\* An order in service leaves it, and nothing else moves yet.
LEMMA LeavesService ==
  ASSUME TypeOK, NEW o \in Orders, status[o] \in {"active", "completed"},
         NEW s \in {"completed", "refunded", "closed"}, s = "completed" => Mode[o] = "purchase",
         status' = [status EXCEPT ![o] = s], UNCHANGED <<cleanup, alloc, token, tokenUntil>>
  PROVE  /\ MailboxStep /\ TokenStep /\ \A q \in Orders : RowStep(q)
         /\ s # "completed" => Over(o)'
<1>t. status \in [Orders -> Statuses]
  BY DEF TypeOK, OrderTypeOK
<1>1. \A q \in Orders : RowStep(q)
  BY <1>t DEF RowStep, InService
<1>2. QED
  BY <1>1, <1>t, ServiceUntouched DEF Over
LEMMA RequestServes ==
  ASSUME ManualOnPurchases, TypeOK, ServiceInv, NEW p \in Callers, NEW o \in Orders,
         Request(p, o)
  PROVE  ServiceStep
<1>t. status \in [Orders -> Statuses] /\ proc \in [Procs -> ProcStates] /\ p \in Procs
  BY DEF TypeOK, OrderTypeOK, ProcTypeOK, Procs
<1>1. CASE PlaceOrder(p, o)
  <2>1. status[o] = "absent" /\ status' = [status EXCEPT ![o] = "pending_payment"]
    BY <1>1 DEF PlaceOrder
  <2>2. UNCHANGED <<alloc, token, tokenUntil, cleanup>>
    BY <1>1 DEF PlaceOrder, serviceVars
  <2>3. \A q \in Orders : RowStep(q)
    BY <1>t, <2>1, <2>2 DEF RowStep, InService
  <2>4. PICK label \in {"allocate", "sweep"} : Start(p, o, label)
    BY <1>1 DEF PlaceOrder
  <2>5. Knows(label, FALSE, o)'
    BY <1>t, <2>1, <2>4 DEF Knows
  <2>6. HandlerStep
    BY <1>t, <2>4, <2>5, HandlerStarts
  <2>7. QED
    BY <2>2, <2>3, <2>6, ServiceUntouched DEF ServiceStep
<1>2. CASE ResumeCheckout(p, o)
  <2>1. UNCHANGED <<status, cleanup, alloc, token, tokenUntil>> /\ status[o] # "absent"
    BY <1>2 DEF ResumeCheckout, orderVars, serviceVars
  <2>2. PICK label : label = NextLabel(status[o], FALSE)
    OBVIOUS
  <2>3. Start(p, o, label) /\ label \in {"allocate", "reallocate", "token"}
    BY <1>2, <2>2 DEF ResumeCheckout, NextLabel
  <2>4. Knows(label, FALSE, o)'
    BY <2>1, <2>3 DEF Knows
  <2>5. HandlerStep
    BY <1>t, <2>3, <2>4, HandlerStarts
  <2>6. QED
    BY <2>1, <2>5, ServiceUntouched, RowsUntouched DEF ServiceStep
<1>3. ASSUME NEW t \in 1..MaxTime, MatchMail(p, o, t)
      PROVE  ServiceStep
  <2>1. UNCHANGED <<status, cleanup, alloc, token, tokenUntil>> /\ status[o] # "absent"
    BY <1>3, TradeAssumption DEF MatchMail, orderVars, serviceVars
  <2>2. /\ proc'[p].ord = o /\ proc'[p].pc = "save" /\ proc'[p].bad = FALSE
        /\ \A r \in Procs \ {p} : proc'[r] = proc[r]
    BY <1>t, <1>3 DEF MatchMail, Idle
  <2>3. Knows("save", FALSE, o)'
    BY <2>1 DEF Knows
  <2>4. HandlerStep
    BY <1>t, <2>2, <2>3, HandlerMoves
  <2>5. QED
    BY <2>1, <2>4, ServiceUntouched, RowsUntouched DEF ServiceStep
<1>4. ASSUME NEW key \in AdminKeys, AdminRefundOrder(p, o, key)
      PROVE  ServiceStep
  <2>1. /\ status[o] \in {"active", "completed"} /\ Start(p, o, "release")
        /\ status' = [status EXCEPT ![o] = "refunded"]
        /\ UNCHANGED <<cleanup, alloc, token, tokenUntil>>
    BY <1>4 DEF AdminRefundOrder, RefundTransaction, serviceVars
  <2>2. MailboxStep /\ TokenStep /\ (\A q \in Orders : RowStep(q)) /\ Over(o)'
    BY <2>1, LeavesService
  <2>3. Knows("release", FALSE, o)'
    BY <1>t, <2>1, <2>2 DEF Knows
  <2>4. QED
    BY <1>t, <2>1, <2>2, <2>3, HandlerStarts DEF ServiceStep
<1>5. CASE AdminTerminateOrder(p, o)
  <2>1. /\ status[o] = "active" /\ Start(p, o, "release")
        /\ status' = [status EXCEPT ![o] = "closed"]
        /\ UNCHANGED <<cleanup, alloc, token, tokenUntil>>
    BY <1>5 DEF AdminTerminateOrder, serviceVars
  <2>2. MailboxStep /\ TokenStep /\ (\A q \in Orders : RowStep(q)) /\ Over(o)'
    BY <2>1, LeavesService
  <2>3. Knows("release", FALSE, o)'
    BY <1>t, <2>1, <2>2 DEF Knows
  <2>4. QED
    BY <1>t, <2>1, <2>2, <2>3, HandlerStarts DEF ServiceStep
<1>6. CASE AdminRetryOrderCleanup(p, o)
  <2>1. UNCHANGED <<status, afterSale, now, cleanup, alloc, token, tokenUntil>>
    BY <1>6 DEF AdminRetryOrderCleanup, orderVars, serviceVars
  <2>2. ~NoManualCleanup /\ Mode[o] = "purchase" /\ status[o] # "absent"
    BY <1>6 DEF AdminRetryOrderCleanup, NoManualCleanup, ManualOnPurchases
  <2>3. \/ Start(p, o, "release") /\ status[o] \in {"refunded", "closed"}
        \/ Start(p, o, "disable")
    BY <1>6, <2>2 DEF AdminRetryOrderCleanup, CleanupReleases
  <2>4. /\ status[o] \in {"refunded", "closed"} => Knows("release", FALSE, o)'
        /\ Knows("disable", FALSE, o)'
    BY <2>1, <2>2 DEF Knows, Over, NoManualCleanup
  <2>5. HandlerStep
    BY <1>t, <2>3, <2>4, HandlerStarts
  <2>6. QED
    BY <2>1, <2>5, ServiceUntouched, RowsUntouched DEF ServiceStep
<1>7. QED
  BY <1>1, <1>2, <1>3, <1>4, <1>5, <1>6 DEF Request

LEMMA ScanServes ==
  ASSUME TypeOK, ServiceInv, NEW o \in Orders,
         (\E p \in Workers : ScanWork(p, o)) \/ ScanStep(o)
  PROVE  ServiceStep
<1>t. status \in [Orders -> Statuses] /\ proc \in [Procs -> ProcStates] /\ now \in Nat
  BY DEF TypeOK, OrderTypeOK, ProcTypeOK
<1>1. ASSUME NEW p \in Workers, ExpireCodeOrder(p, o) \/ RefundUnavailable(p, o)
      PROVE  ServiceStep
  <2>1. status[o] = "active" /\ SystemRefund(p, o) /\ p \in Procs
    BY <1>1 DEF ExpireCodeOrder, RefundUnavailable, Procs
  <2>2. CASE RefundTransaction(o, "order") /\ Start(p, o, "release")
    <3>1. /\ status' = [status EXCEPT ![o] = "refunded"]
          /\ UNCHANGED <<cleanup, alloc, token, tokenUntil>>
      BY <2>2 DEF RefundTransaction, serviceVars
    <3>2. MailboxStep /\ TokenStep /\ (\A q \in Orders : RowStep(q)) /\ Over(o)'
      BY <2>1, <3>1, LeavesService
    <3>3. Knows("release", FALSE, o)'
      BY <1>t, <3>1, <3>2 DEF Knows
    <3>4. QED
      BY <2>1, <2>2, <3>2, <3>3, HandlerStarts DEF ServiceStep
  <2>3. CASE Matched(o, now) /\ UNCHANGED proc
    BY <1>t, <2>3, MatchedServes DEF ServiceStep, HandlerStep
  <2>4. QED
    BY <2>1, <2>2, <2>3 DEF SystemRefund
<1>2. ASSUME NEW p \in Workers, NEW l \in {"reallocate", "sweep", "release", "disable"},
             Start(p, o, l), status[o] # "absent", l \in {"release", "disable"} => Over(o),
             l = "disable" => status[o] = "failed",
             UNCHANGED <<orderVars, billingVars, serviceVars, now>>
      PROVE  ServiceStep
  <2>1. UNCHANGED <<status, afterSale, now, cleanup, alloc, token, tokenUntil>>
    BY <1>2 DEF orderVars, serviceVars
  <2>2. Knows(l, FALSE, o)'
    BY <1>2, <2>1 DEF Knows, Over
  <2>3. HandlerStep
    BY <1>2, <2>2, HandlerStarts DEF Procs
  <2>4. QED
    BY <2>1, <2>3, ServiceUntouched, RowsUntouched DEF ServiceStep
<1>3. ASSUME NEW p \in Workers, RecoverPaid(p, o) \/ RecoverAllocation(p, o)
      PROVE  ServiceStep
  <2>1. /\ Start(p, o, "reallocate") \/ Start(p, o, "sweep")
        /\ status[o] # "absent" /\ UNCHANGED <<orderVars, billingVars, serviceVars, now>>
    BY <1>3 DEF RecoverPaid, RecoverAllocation
  <2>2. QED
    BY <1>2, <2>1
<1>4. ASSUME NEW p \in Workers, SweepCleanup(p, o)
      PROVE  ServiceStep
  <2>1. /\ \/ Start(p, o, "release") /\ status[o] \in {"refunded", "closed"}
           \/ Start(p, o, "disable") /\ status[o] = "failed"
        /\ UNCHANGED <<orderVars, billingVars, serviceVars, now>>
    BY <1>4 DEF SweepCleanup, CleanupReleases
  <2>2. QED
    BY <1>2, <2>1 DEF Over
<1>5. ASSUME NEW p \in Workers, SweepReadCode(p, o)
      PROVE  ServiceStep
  <2>1. Start(p, o, "release") /\ Over(o) /\ status[o] # "absent"
    BY <1>5 DEF SweepReadCode, Over
  <2>2. QED
    BY <1>2, <1>5, <2>1 DEF SweepReadCode
<1>6. CASE ReconcileDelivery(o)
  BY <1>t, <1>6, MatchedServes DEF ReconcileDelivery, ServiceStep, HandlerStep
<1>7. CASE CompleteExpiredOrder(o)
  BY <1>7, LeavesService
     DEF CompleteExpiredOrder, Completable, serviceVars, ServiceStep, HandlerStep
<1>8. CASE SettleSupplierOrder(o)
  <2>1. CASE status[o] = "active"
    BY <1>8, <2>1, LeavesService
       DEF SettleSupplierOrder, Completable, serviceVars, ServiceStep, HandlerStep
  <2>2. CASE status[o] # "active"
    BY <1>8, <2>2, ServiceUntouched, RowsUntouched
       DEF SettleSupplierOrder, serviceVars, ServiceStep, HandlerStep
  <2>3. QED
    BY <2>1, <2>2
<1>9. QED
  BY <1>1, <1>3, <1>4, <1>5, <1>6, <1>7, <1>8 DEF ScanWork, ScanStep
\* The two kinds of handler: one that serves the order and one that ends its service.
LEMMA CheckoutServes ==
  ASSUME TypeOK, ServiceInv, NEW p \in Procs, NEW o \in Orders,
         \/ Allocate(p, o) \/ AllocateFails(p, o) \/ PayPending(p, o) \/ PayRefused(p, o)
         \/ FailPending(p, o) \/ IssueToken(p, o) \/ Activate(p, o) \/ ActivateConflict(p, o)
  PROVE  ServiceStep
<1>t. /\ status \in [Orders -> Statuses] /\ proc \in [Procs -> ProcStates] /\ now \in Nat
      /\ alloc \in [Orders -> {"none", "allocated", "released"}]
      /\ token \in [Orders -> {"none", "enabled", "disabled"}]
      /\ cleanup \in [Orders -> {"none", "succeeded", "partial_failure"}]
      /\ proc[p].held \in BOOLEAN
  BY DEF TypeOK, OrderTypeOK, ServiceTypeOK, ProcTypeOK, ProcStates
<1>i. \A q \in Orders : RowInv(q)
  BY DEF ServiceInv
<1>k. proc[p].ord = o => Knows(proc[p].pc, proc[p].bad, o)
  BY DEF ServiceInv, HandlerInv
<1>1. CASE Allocate(p, o)
  <2>1. /\ proc[p].ord = o /\ status[o] # "absent"
        /\ UNCHANGED <<status, cleanup, token, tokenUntil>>
    BY <1>1, <1>k DEF Allocate, At, Knows, orderVars
  <2>2. \E s \in Scopes : AllocateMailbox(o, s, now)
    BY <1>1 DEF Allocate
  <2>3. MailboxStep /\ alloc'[o] # "none"
    BY <2>2, <1>t DEF AllocateMailbox, MailboxStep
  <2>4. PICK l \in {"pay", "issue"}, b \in BOOLEAN :
           /\ proc'[p].ord = o /\ proc'[p].pc = l /\ proc'[p].bad = b
           /\ \A r \in Procs \ {p} : proc'[r] = proc[r]
    <3>1. proc[p].bad \in BOOLEAN
      BY <1>t DEF ProcStates
    <3>2. /\ proc'[p].ord = o /\ proc'[p].pc \in {"pay", "issue"} /\ proc'[p].bad = proc[p].bad
          /\ \A r \in Procs \ {p} : proc'[r] = proc[r]
      BY <1>1, <1>t, <2>1 DEF Allocate, Goto, ProcStates
    <3>3. QED
      BY <3>1, <3>2
  <2>5. Knows(l, b, o)'
    BY <2>1, <2>3 DEF Knows
  <2>6. HandlerStep
    BY <2>4, <2>5, HandlerMoves
  <2>7. QED
    BY <2>1, <2>3, <2>6, RowsUntouched, ServiceUntouched DEF ServiceStep, TokenStep
<1>2. ASSUME NEW l \in {"fail", "compensate"}, proc[p].ord = o, proc[p].pc # "idle",
             Goto(p, l), UNCHANGED <<status, cleanup, alloc, token, tokenUntil>>
      PROVE  ServiceStep
  <2>1. status[o] # "absent"
    BY <1>2, <1>k DEF Knows
  <2>2. PICK b : b = proc[p].bad
    OBVIOUS
  <2>3. /\ proc'[p].ord = o /\ proc'[p].pc = l /\ proc'[p].bad = b
        /\ \A r \in Procs \ {p} : proc'[r] = proc[r]
    BY <1>2, <1>t, <2>2 DEF Goto, ProcStates
  <2>4. Knows(l, b, o)'
    BY <1>2, <2>1 DEF Knows
  <2>5. HandlerStep
    BY <2>3, <2>4, HandlerMoves
  <2>6. QED
    BY <1>2, <2>5, ServiceUntouched, RowsUntouched DEF ServiceStep
<1>3. CASE AllocateFails(p, o)
  BY <1>2, <1>3 DEF AllocateFails, At, orderVars, serviceVars
<1>4. ASSUME proc[p].ord = o, proc[p].pc # "idle", NEW held \in BOOLEAN,
             Resume(p, status[o], held), UNCHANGED <<status, cleanup, alloc, token, tokenUntil>>
      PROVE  ServiceStep
  <2>1. status[o] # "absent"
    BY <1>4, <1>k DEF Knows
  <2>2. HandlerStep
    BY <1>4, <2>1, HandlerResumes
  <2>3. QED
    BY <1>4, <2>2, ServiceUntouched, RowsUntouched DEF ServiceStep
<1>5. CASE PayRefused(p, o) \/ ActivateConflict(p, o)
  <2>1. /\ proc[p].ord = o /\ proc[p].pc # "idle"
        /\ UNCHANGED <<status, cleanup, alloc, token, tokenUntil>>
    BY <1>5 DEF PayRefused, ActivateConflict, At, orderVars, serviceVars
  <2>2. Goto(p, "fail") \/ (\E held \in BOOLEAN : Resume(p, status[o], held))
    BY <1>5, <1>t DEF PayRefused, ActivateConflict
  <2>3. QED
    BY <1>2, <1>4, <2>1, <2>2
<1>6. CASE PayPending(p, o)
  <2>1. /\ proc[p].ord = o /\ alloc[o] # "none" /\ status[o] = "pending_payment"
        /\ status' = [status EXCEPT ![o] = "paid"]
        /\ UNCHANGED <<cleanup, alloc, token, tokenUntil>>
    BY <1>6, <1>k DEF PayPending, At, Knows, serviceVars
  <2>2. /\ proc'[p].ord = o /\ proc'[p].pc = "issue" /\ proc'[p].bad = FALSE
        /\ \A r \in Procs \ {p} : proc'[r] = proc[r]
    BY <1>6, <1>t, <2>1 DEF PayPending, Resume, NextLabel, Idle
  <2>3. Knows("issue", FALSE, o)'
    BY <1>t, <2>1 DEF Knows
  <2>4. \A q \in Orders : RowStep(q)
    BY <1>t, <2>1 DEF RowStep, InService
  <2>5. HandlerStep
    BY <2>2, <2>3, HandlerMoves
  <2>6. QED
    BY <2>1, <2>4, <2>5, ServiceUntouched DEF ServiceStep
<1>7. CASE FailPending(p, o)
  <2>1. proc[p].ord = o /\ proc[p].pc # "idle" /\ UNCHANGED <<cleanup, token, tokenUntil>>
    BY <1>7 DEF FailPending, At
  <2>2. CASE status[o] \in FailableStatuses
    <3>1. /\ status[o] \in {"pending_payment", "failed"} /\ ReleaseByOrder(o) /\ Done(p)
          /\ status' = [status EXCEPT ![o] = "failed"]
      BY <1>7, <2>2 DEF FailPending, FailableStatuses
    <3>2. Over(o)'
      BY <1>t, <3>1 DEF Over
    <3>3. \A q \in Orders : RowStep(q)
      BY <1>t, <2>1, <3>1 DEF RowStep, InService
    <3>4. QED
      BY <2>1, <3>1, <3>2, <3>3, HandlerStops DEF ServiceStep, MailboxStep, TokenStep
  <2>3. CASE status[o] \notin FailableStatuses
    <3>1. UNCHANGED <<alloc, status>>
      BY <1>7, <2>3 DEF FailPending
    <3>2. Done(p) \/ Resume(p, status[o], proc[p].held)
      BY <1>7, <2>3 DEF FailPending
    <3>3. CASE Done(p)
      BY <2>1, <3>1, <3>3, HandlerStops, ServiceUntouched, RowsUntouched DEF ServiceStep
    <3>4. CASE \E held \in BOOLEAN : Resume(p, status[o], held)
      BY <1>4, <2>1, <3>1, <3>4
    <3>5. QED
      BY <1>t, <3>2, <3>3, <3>4
  <2>4. QED
    BY <2>2, <2>3
<1>8. CASE IssueToken(p, o)
  <2>1. /\ proc[p].ord = o /\ proc[p].pc = "issue" /\ UNCHANGED <<status, cleanup, alloc>>
        /\ \E until \in Nat : IssueOrderToken(o, until)
    BY <1>8, <1>t, TradeAssumption DEF IssueToken, At, orderVars
  <2>2. token'[o] # "none" /\ TokenStep
    BY <1>t, <2>1 DEF IssueOrderToken, TokenStep, TokenMove
  <2>3. status[o] # "absent"
    BY <1>k, <2>1 DEF Knows
  <2>4. PICK b : b = proc[p].bad
    OBVIOUS
  <2>5. /\ proc'[p].ord = o /\ proc'[p].pc = "activate" /\ proc'[p].bad = b
        /\ \A r \in Procs \ {p} : proc'[r] = proc[r]
    BY <1>8, <1>t, <2>1, <2>4 DEF IssueToken, ProcStates
  <2>6. Knows("activate", b, o)'
    BY <2>1, <2>2, <2>3 DEF Knows
  <2>7. HandlerStep
    BY <2>5, <2>6, HandlerMoves
  <2>8. QED
    BY <2>1, <2>2, <2>7, RowsUntouched DEF ServiceStep, MailboxStep
<1>9. CASE Activate(p, o)
  <2>1. /\ proc[p].ord = o /\ token[o] # "none" /\ status[o] = "paid" /\ Done(p)
        /\ status' = [status EXCEPT ![o] = "active"]
        /\ cleanup' = [cleanup EXCEPT ![o] = "none"]
        /\ UNCHANGED <<alloc, token, tokenUntil>>
    BY <1>9, <1>k DEF Activate, At, Knows, serviceVars
  <2>2. \A q \in Orders : RowStep(q)
    BY <1>t, <2>1 DEF RowStep, InService
  <2>3. QED
    BY <2>1, <2>2, HandlerStops, ServiceUntouched DEF ServiceStep
<1>10. QED
  BY <1>1, <1>3, <1>5, <1>6, <1>7, <1>8, <1>9
LEMMA DeliveryServes ==
  ASSUME TypeOK, ServiceInv, NEW p \in Procs, NEW o \in Orders,
         \/ ReturnToken(p, o) \/ DropAllocation(p, o) \/ SaveDelivery(p, o)
         \/ NotifyMatchedCode(p, o) \/ Compensate(p, o)
  PROVE  ServiceStep
<1>t. /\ status \in [Orders -> Statuses] /\ proc \in [Procs -> ProcStates] /\ now \in Nat
      /\ receiveUntil \in [Orders -> Nat] /\ proc[p].held \in BOOLEAN /\ proc[p].at \in Nat
  BY DEF TypeOK, OrderTypeOK, ProcTypeOK, ProcStates
<1>k. proc[p].ord = o => Knows(proc[p].pc, proc[p].bad, o)
  BY DEF ServiceInv, HandlerInv
<1>1. CASE ReturnToken(p, o)
  <2>1. /\ UNCHANGED <<status, cleanup, alloc>> /\ Done(p)
        /\ \E until \in Nat : IssueOrderToken(o, until)
    BY <1>1, <1>t DEF ReturnToken, orderVars
  <2>2. TokenStep
    BY <2>1 DEF TokenStep, TokenMove
  <2>3. QED
    BY <2>1, <2>2, HandlerStops, RowsUntouched DEF ServiceStep, MailboxStep
<1>2. CASE DropAllocation(p, o)
  <2>1. /\ proc[p].ord = o /\ proc[p].pc = "drop" /\ ReleaseByOrder(o) /\ Done(p)
        /\ UNCHANGED <<status, afterSale, cleanup, token, tokenUntil, now>>
    BY <1>2 DEF DropAllocation, At, orderVars
  <2>2. Over(o)'
    BY <1>k, <2>1 DEF Knows, Over
  <2>3. QED
    BY <2>1, <2>2, HandlerStops, RowsUntouched DEF ServiceStep, MailboxStep, TokenStep
<1>3. CASE SaveDelivery(p, o)
  <2>1. /\ proc[p].ord = o /\ proc[p].pc = "save"
        /\ UNCHANGED <<status, cleanup, alloc, token, tokenUntil>>
    BY <1>3 DEF SaveDelivery, At, orderVars
  <2>2. PICK b : b = proc[p].bad
    OBVIOUS
  <2>3. /\ proc'[p].ord = o /\ proc'[p].pc = "notify" /\ proc'[p].bad = b
        /\ \A r \in Procs \ {p} : proc'[r] = proc[r]
    BY <1>3, <1>t, <2>1, <2>2 DEF SaveDelivery, ProcStates
  <2>4. Knows("notify", b, o)'
    BY <1>k, <2>1 DEF Knows
  <2>5. HandlerStep
    BY <2>3, <2>4, HandlerMoves
  <2>6. QED
    BY <2>1, <2>5, ServiceUntouched, RowsUntouched DEF ServiceStep
<1>4. CASE NotifyMatchedCode(p, o)
  <2>1. HandlerStep
    BY <1>4, HandlerStops DEF NotifyMatchedCode
  <2>2. CASE \E seen \in proc[p].at..now : Matched(o, seen)
    BY <1>t, <2>1, <2>2, MatchedServes DEF ServiceStep
  <2>3. CASE UNCHANGED <<orderVars, billingVars, serviceVars>>
    BY <2>1, <2>3, ServiceUntouched, RowsUntouched DEF ServiceStep, orderVars, serviceVars
  <2>4. QED
    BY <1>4, <2>2, <2>3 DEF NotifyMatchedCode
<1>5. CASE Compensate(p, o)
  <2>1. /\ proc[p].ord = o /\ status[o] # "absent"
        /\ UNCHANGED <<cleanup, tokenUntil, afterSale, now>>
    BY <1>5, <1>k DEF Compensate, At, Knows, windowVars
  <2>2. CASE status[o] \in {"paid", "failed"}
    <3>1. /\ status'[o] = "failed" /\ DisableOrderToken(o) /\ ReleaseByOrder(o) /\ Done(p)
          /\ \A q \in Orders \ {o} : status'[q] = status[q]
      BY <1>5, <1>t, <2>2 DEF Compensate, CompensableStatuses
    <3>2. Over(o)'
      BY <3>1 DEF Over
    <3>3. \A q \in Orders : RowStep(q)
      BY <2>1, <2>2, <3>1 DEF RowStep, InService
    <3>4. TokenStep
      BY <2>1, <3>1, <3>2 DEF TokenStep, TokenMove
    <3>5. QED
      BY <3>1, <3>2, <3>3, <3>4, HandlerStops DEF ServiceStep, MailboxStep
  <2>3. CASE status[o] \notin {"paid", "failed"}
    <3>1. UNCHANGED <<status, token>> /\ Resume(p, status[o], proc[p].held)
      BY <1>5, <2>3 DEF Compensate, CompensableStatuses
    <3>2. HandlerStep
      BY <1>t, <2>1, <3>1, HandlerResumes
    <3>3. MailboxStep
      <4>1. CASE status[o] = "refunded"
        BY <1>5, <3>1, <4>1 DEF Compensate, CompensableStatuses, MailboxStep, Over
      <4>2. CASE status[o] # "refunded"
        BY <1>5, <2>3, <4>2 DEF Compensate, CompensableStatuses, MailboxStep
      <4>3. QED
        BY <4>1, <4>2
    <3>4. QED
      BY <2>1, <3>1, <3>2, <3>3, RowsUntouched DEF ServiceStep, TokenStep
  <2>4. QED
    BY <2>2, <2>3
<1>6. QED
  BY <1>1, <1>2, <1>3, <1>4, <1>5

LEMMA CleanupServes ==
  ASSUME TypeOK, ServiceInv, NEW p \in Procs, NEW o \in Orders,
         CleanupRelease(p, o) \/ CleanupDisable(p, o) \/ MarkServiceCleanup(p, o)
  PROVE  ServiceStep
<1>t. /\ status[o] \in Statuses /\ proc \in [Procs -> ProcStates]
      /\ alloc \in [Orders -> {"none", "allocated", "released"}]
      /\ token \in [Orders -> {"none", "enabled", "disabled"}]
      /\ cleanup \in [Orders -> {"none", "succeeded", "partial_failure"}]
  BY DEF TypeOK, OrderTypeOK, ServiceTypeOK, ProcTypeOK
<1>p. proc[p] \in ProcStates /\ proc[p].bad \in BOOLEAN
  BY <1>t DEF ProcStates
<1>i. RowInv(o)
  BY DEF ServiceInv
<1>k. proc[p].ord = o /\ Knows(proc[p].pc, proc[p].bad, o)
  BY DEF ServiceInv, HandlerInv, CleanupRelease, CleanupDisable, MarkServiceCleanup, At
<1>o. Over(o) /\ status[o] # "failed" => status[o] \in InService
  BY DEF Over, InService
<1>1. CASE CleanupRelease(p, o)
  <2>1. /\ proc[p].pc = "release" /\ Over(o) /\ status[o] # "absent"
        /\ UNCHANGED <<status, afterSale, cleanup, token, tokenUntil, now>>
    BY <1>1, <1>k DEF CleanupRelease, At, Knows, orderVars
  <2>2. Over(o)'
    BY <2>1 DEF Over
  <2>3. PICK b \in BOOLEAN :
           /\ proc'[p].ord = o /\ proc'[p].pc = "disable" /\ proc'[p].bad = b
           /\ b => UNCHANGED alloc \/ ReleaseByOrder(o)
           /\ ~b => ReleaseByOrder(o)
           /\ \A r \in Procs \ {p} : proc'[r] = proc[r]
    BY <1>1, <1>t, <1>p, <1>k DEF CleanupRelease, Goto, ProcStates
  <2>4. MailboxStep
    BY <2>2, <2>3 DEF MailboxStep
  <2>5. ~b /\ status[o] # "failed" => alloc'[o] = "released"
    BY <1>t, <1>i, <1>o, <2>1, <2>3 DEF RowInv, ReleaseByOrder
  <2>6. Knows("disable", b, o)'
    BY <2>1, <2>2, <2>5 DEF Knows
  <2>7. HandlerStep
    BY <2>3, <2>6, HandlerMoves
  <2>8. QED
    BY <2>1, <2>4, <2>7, RowsUntouched DEF ServiceStep, TokenStep
<1>2. CASE CleanupDisable(p, o)
  <2>1. /\ proc[p].pc = "disable" /\ status[o] # "absent"
        /\ NoManualCleanup => Over(o)
        /\ NoManualCleanup /\ ~proc[p].bad /\ status[o] # "failed" => alloc[o] = "released"
        /\ UNCHANGED <<status, afterSale, cleanup, alloc, tokenUntil, now>>
    BY <1>2, <1>k DEF CleanupDisable, At, Knows, orderVars
  <2>2. NoManualCleanup => Over(o)'
    BY <2>1 DEF Over
  <2>3. PICK b \in BOOLEAN :
           /\ proc'[p].ord = o /\ proc'[p].pc = "mark" /\ proc'[p].bad = b
           /\ b => UNCHANGED token \/ DisableOrderToken(o)
           /\ ~b => DisableOrderToken(o) /\ ~proc[p].bad
           /\ \A r \in Procs \ {p} : proc'[r] = proc[r]
    BY <1>2, <1>t, <1>p, <1>k DEF CleanupDisable, Goto, ProcStates
  <2>4. TokenStep
    BY <2>1, <2>2, <2>3 DEF TokenStep, TokenMove
  <2>5. NoManualCleanup /\ ~b /\ status[o] # "failed" =>
           alloc[o] = "released" /\ token'[o] = "disabled"
    BY <1>t, <1>i, <1>o, <2>1, <2>3 DEF RowInv, DisableOrderToken
  <2>6. Knows("mark", b, o)'
    BY <2>1, <2>2, <2>5 DEF Knows, NoManualCleanup
  <2>7. HandlerStep
    BY <2>3, <2>6, HandlerMoves
  <2>8. QED
    BY <2>1, <2>4, <2>7, RowsUntouched DEF ServiceStep, MailboxStep
<1>3. CASE MarkServiceCleanup(p, o)
  <2>1. /\ proc[p].pc = "mark" /\ Done(p) /\ UNCHANGED <<status, alloc, token, tokenUntil>>
        /\ cleanup'[o] = "succeeded" => ~proc[p].bad
        /\ \A q \in Orders \ {o} : cleanup'[q] = cleanup[q]
    BY <1>3, <1>t DEF MarkServiceCleanup, At, serviceVars
  <2>2. NoManualCleanup /\ cleanup'[o] = "succeeded" =>
            status[o] = "failed" \/ (alloc[o] = "released" /\ token[o] = "disabled")
    BY <1>k, <2>1 DEF Knows
  <2>3. \A q \in Orders : RowStep(q)
    BY <2>1, <2>2 DEF RowStep
  <2>4. QED
    BY <2>1, <2>3, HandlerStops, ServiceUntouched DEF ServiceStep
<1>4. QED
  BY <1>1, <1>2, <1>3

LEMMA NextServes ==
  ASSUME ManualOnPurchases, TypeOK, ServiceInv, [Next]_vars
  PROVE  ServiceStep
<1>1. ASSUME NEW p \in Procs, NEW o \in Orders, Continue(p, o)
      PROVE  ServiceStep
  BY <1>1, CheckoutServes, DeliveryServes, CleanupServes DEF Continue
<1>2. ASSUME NEW p \in Procs, NEW o \in Orders, FulfilFails(p, o)
      PROVE  ServiceStep
  <2>1. /\ proc[p].ord = o /\ proc[p].pc # "idle"
        /\ UNCHANGED <<status, cleanup, alloc, token, tokenUntil>>
    BY <1>2 DEF FulfilFails, At, orderVars, serviceVars
  <2>2. proc[p] \in ProcStates /\ proc \in [Procs -> ProcStates]
    BY DEF TypeOK, ProcTypeOK
  <2>3. PICK b : b = proc[p].bad
    OBVIOUS
  <2>4. /\ proc'[p].ord = o /\ proc'[p].pc = "compensate" /\ proc'[p].bad = b
        /\ \A r \in Procs \ {p} : proc'[r] = proc[r]
    BY <1>2, <2>1, <2>2, <2>3 DEF FulfilFails, ProcStates
  <2>5. Knows("compensate", b, o)'
    BY <2>1 DEF ServiceInv, HandlerInv, Knows
  <2>6. HandlerStep
    BY <2>4, <2>5, HandlerMoves
  <2>7. QED
    BY <2>1, <2>6, ServiceUntouched, RowsUntouched DEF ServiceStep
<1>3. ASSUME NEW p \in Procs, Crash(p)
      PROVE  ServiceStep
  BY <1>3, HandlerStops, ServiceUntouched, RowsUntouched
     DEF Crash, orderVars, serviceVars, ServiceStep
<1>4. ASSUME Withdraw \/ Tick \/ UNCHANGED vars \/ \E o \in Orders : Surroundings(o)
      PROVE  ServiceStep
  <2>1. UNCHANGED <<status, cleanup, alloc, token, tokenUntil, proc>>
    BY <1>4
       DEF Withdraw, Tick, vars, Surroundings, OpenTicket, CloseTicket, Archive, Validate,
           orderVars, serviceVars
  <2>2. QED
    BY <2>1, ServiceUntouched, RowsUntouched DEF ServiceStep, HandlerStep
<1>5. QED
  BY <1>1, <1>2, <1>3, <1>4, RequestServes, ScanServes DEF Next
LEMMA ServiceInvariant ==
  ASSUME ManualOnPurchases
  PROVE  Spec => [](TypeOK /\ MoneyInv /\ DeadlineInv /\ ServiceInv)
<1>1. TypeOK /\ TypeOK' /\ MoneyInv /\ ServiceInv /\ [Next]_vars => ServiceInv'
  BY NextServes, ServiceInvStep
<1>2. QED
  BY <1>1, InitServiceInv, DeadlineInvariant, PTL DEF Spec

-----------------------------------------------------------------------------
(* What follows for the buyer.                                             *)

\* No late compensation, failed checkout or clean-up, in any order with the others,
\* takes the mailbox of an order that is paid for, in service, a completed purchase
\* or a code in its reading hour.
THEOREM ServedHasMailboxCorrect ==
  ASSUME ManualOnPurchases
  PROVE  Spec => []ServedHasMailbox
<1>1. TypeOK /\ ServiceInv => ServedHasMailbox
  <2>1. ASSUME TypeOK, ServiceInv, NEW o \in Orders,
               \/ status[o] \in {"paid", "active"}
               \/ status[o] = "completed" /\ (Mode[o] = "purchase" \/ now <= afterSale[o])
        PROVE  alloc[o] = "allocated"
    <3>1. RowInv(o)
      BY <2>1 DEF ServiceInv
    <3>2. ~Over(o)
      BY <2>1, ServiceFacts DEF Over
    <3>3. QED
      BY <2>1, <3>1, <3>2, ServiceFacts DEF RowInv, InService
  <2>2. QED
    BY <2>1 DEF ServedHasMailbox
<1>2. QED
  BY <1>1, ServiceInvariant, PTL

\* An order in service has an enabled token, unless an administrator repeated its
\* clean-up: no handler that lost its order to another one takes the token.
THEOREM TokenOpenInServiceCorrect ==
  ASSUME NoManualCleanup
  PROVE  Spec => []TokenOpenInService
<1>1. TypeOK /\ ServiceInv => TokenOpenInService
  <2>1. ASSUME TypeOK, ServiceInv, NEW o \in Orders, status[o] = "active"
        PROVE  token[o] = "enabled"
    <3>1. RowInv(o) /\ ~Over(o)
      BY <2>1 DEF ServiceInv, Over
    <3>2. QED
      BY <2>1, <3>1, ServiceFacts DEF RowInv, InService, NoManualCleanup
  <2>2. QED
    BY <2>1 DEF TokenOpenInService
<1>2. ManualOnPurchases
  BY DEF NoManualCleanup, ManualOnPurchases
<1>3. QED
  BY <1>1, <1>2, ServiceInvariant, PTL

\* The token of a completed code stays enabled, and does not expire, through the
\* hour in which the code is read.
THEOREM ReadHourKeptCorrect ==
  ASSUME NoManualCleanup
  PROVE  Spec => []ReadHourKept
<1>1. TypeOK /\ ServiceInv => ReadHourKept
  <2>1. ASSUME TypeOK, ServiceInv, NEW o \in Orders,
               Mode[o] = "code", status[o] = "completed", now <= afterSale[o]
        PROVE  token[o] = "enabled" /\ tokenUntil[o] >= afterSale[o]
    <3>1. RowInv(o)
      BY <2>1 DEF ServiceInv
    <3>2. ~Over(o)
      BY <2>1, ServiceFacts DEF Over
    <3>3. QED
      BY <2>1, <3>1, <3>2, ServiceFacts DEF RowInv, InService, NoManualCleanup
  <2>2. QED
    BY <2>1 DEF ReadHourKept
<1>2. ManualOnPurchases
  BY DEF NoManualCleanup, ManualOnPurchases
<1>3. QED
  BY <1>1, <1>2, ServiceInvariant, PTL

\* A clean-up recorded as succeeded has taken both the mailbox and the token, and no
\* handler still serving the order gives either back.
THEOREM ServiceEndedCorrect ==
  ASSUME NoManualCleanup
  PROVE  Spec => []ServiceEnded
<1>1. ServiceInv => ServiceEnded
  BY DEF ServiceInv, RowInv, InService, NoManualCleanup, ServiceEnded
<1>2. ManualOnPurchases
  BY DEF NoManualCleanup, ManualOnPurchases
<1>3. QED
  BY <1>1, <1>2, ServiceInvariant, PTL

\* No mail that reached the platform in time meets a transaction that can only fail:
\* a code in service has a token to extend and a settlement to move, and a settlement
\* already credited fell due no earlier than the mail's own deadline.
THEOREM MatchNeverRefusedCorrect ==
  ASSUME ManualOnPurchases
  PROVE  Spec => []MatchNeverRefused
<1>1. TypeOK /\ MoneyInv /\ DeadlineInv /\ ServiceInv => MatchNeverRefused
  <2>1. ASSUME TypeOK, MoneyInv, DeadlineInv, ServiceInv, NEW o \in Orders, NEW seen,
               MatchRefused(o, seen)
        PROVE  FALSE
    <3>f. /\ Mode[o] \in {"code", "purchase"}
          /\ startedAt[o] \in Nat /\ receiveUntil[o] \in Nat /\ availableAt[o] \in Nat
          /\ delivery[o] \in Nat /\ activatedAt[o] \in Nat /\ afterSale[o] \in Nat
          /\ status[o] \in Served /\ supplier[o] => settle[o] \in {"frozen", "credited"}
      BY <2>1, OrderFacts
    <3>i. OrderDeadlines(o) /\ RowInv(o)
      BY <2>1 DEF DeadlineInv, ServiceInv
    <3>1. CASE Mode[o] = "code"
      <4>1. status[o] = "active" /\ ~Over(o)
        BY <2>1, <3>1 DEF MatchRefused, Undelivered, Over
      <4>2. token[o] = "enabled"
        BY <2>1, <3>1, <3>i, <4>1, ServiceFacts
           DEF RowInv, InService, NoManualCleanup, ManualOnPurchases
      <4>3. supplier[o] => settle[o] = "frozen"
        BY <3>1, <3>f, <3>i, <4>1 DEF OrderDeadlines, Served
      <4>4. QED
        BY <2>1, <3>1, <4>2, <4>3 DEF MatchRefused, CanExtendToken, CanReschedule
    <3>2. CASE Mode[o] = "purchase"
      <4> DEFINE until == WarrantyUntil(startedAt[o], delivery[o])
                 latest == WarrantyUntil(startedAt[o], receiveUntil[o])
      <4>1. /\ supplier[o] /\ ~CanReschedule(o, until)
            /\ status[o] \in Served /\ activatedAt[o] = 0 /\ delivery[o] <= receiveUntil[o]
        BY <2>1, <3>2 DEF MatchRefused, Undelivered, Served
      <4>2. until \in Nat /\ latest \in Nat /\ until <= latest
        BY <3>f, <4>1, WarrantyTimes
      <4>3. settle[o] \in {"frozen", "credited"}
        BY <3>f, <4>1
      <4>4. Due(o) = latest /\ availableAt[o] >= Due(o)
        BY <3>2, <3>f, <3>i, <4>1, <4>3 DEF OrderDeadlines, Due, SettlementDue
      <4> HIDE DEF until, latest
      <4>5. QED
        BY <3>f, <4>1, <4>2, <4>3, <4>4 DEF CanReschedule
    <3>3. QED
      BY <3>f, <3>1, <3>2
  <2>2. QED
    BY <2>1 DEF MatchNeverRefused
<1>2. QED
  BY <1>1, ServiceInvariant, PTL

=============================================================================
