------------------------------ MODULE Recharge ------------------------------
(***************************************************************************)
(* Recharges of one user's wallet.  The user pays at an outside gateway;   *)
(* the gateway's callback is only a hint.  A recharge is credited when a   *)
(* worker has claimed a query of it under a lease, asked the gateway, and  *)
(* the answer was read inside the recharge's window.  The dispatcher       *)
(* expires the recharges whose window is over and enqueues those that are  *)
(* due for a query.                                                        *)
(*                                                                         *)
(* Every database statement or transaction is one action.  Workers keep    *)
(* what they hold between two of them, may stop there, and may be          *)
(* overtaken: the queue delivers a task again when its worker is believed  *)
(* lost.  A clock reading handed to a transaction may be ClockLag old when *)
(* the transaction takes effect.                                           *)
(*                                                                         *)
(* A definition introduced as a faulty form is used by no action: it is    *)
(* what the next definition could have been by mistake, and shows that a   *)
(* property notices the difference.                                        *)
(***************************************************************************)
EXTENDS Integers, FiniteSets

CONSTANTS
    Recharges,      \* recharges of the user, in any order of creation
    Epusdt,         \* those paid by EPUSDT, the others by EPay
    Workers,        \* workers of the payment queue
    Trades,         \* trade numbers of the gateways
    NoRecharge,     \* what an idle worker works on
    Quota,          \* points a recharge is worth
    Window,         \* time in which a recharge can be paid
    Lease,          \* time a claimed query is left alone
    CallbackDelay,  \* age at which an EPay recharge is queried without callback
    EpusdtDelay,    \* age at which an EPUSDT recharge is queried
    FastInterval,   \* pause between two queries ...
    SlowInterval,   \* ... and after the first FastLimit of them
    FastLimit,
    MaxPending,     \* pending recharges a user may have
    ClockLag,       \* bound on the age of a clock reading
    MaxTime,        \* bound on the clock
    MaxCrashes      \* bound on the workers that stop at work

ASSUME RechargeAssumption ==
    /\ Epusdt \subseteq Recharges
    /\ NoRecharge \notin Recharges
    /\ {Quota, Window, Lease, CallbackDelay, EpusdtDelay, FastInterval,
        SlowInterval, FastLimit, MaxPending, ClockLag, MaxTime, MaxCrashes}
          \subseteq Nat

VARIABLES
    status,      \* recharges.status, "none" before the recharge exists
    createdAt,   \* recharges.created_at
    generation,  \* recharges.query_generation
    leaseUntil,  \* recharges.query_lease_until, -1 for NULL
    attempts,    \* recharges.query_attempts, counted up to FastLimit
    lastQueried, \* recharges.last_queried_at, -1 for NULL
    tradeNo,     \* recharges.gateway_trade_no, {} for NULL
    ledger,      \* recharges whose key "recharge:<no>" is in the ledger
    wallet,      \* consumer_balance of the user
    tasks,       \* recharges with a task in the payment queue
    gateway,     \* what the gateway knows of a recharge
    worker,      \* what every worker is at
    time,
    crashes

rowVars == <<status, createdAt, generation, leaseUntil, attempts, lastQueried,
             tradeNo>>
moneyVars == <<ledger, wallet>>
vars == <<rowVars, moneyVars, tasks, gateway, worker, time, crashes>>

Pending == {"paying", "callback"}
Answers == {"paid", "unpaid", "closed", "mismatch", "error"}

Idle == [at |-> "idle", recharge |-> NoRecharge, generation |-> 0,
         answer |-> "none", trade |-> {}, queriedAt |-> 0]

TypeOK ==
    /\ status \in [Recharges -> Pending \cup {"none", "credited", "failed"}]
    /\ createdAt \in [Recharges -> 0..MaxTime]
    /\ generation \in [Recharges -> Nat]
    /\ leaseUntil \in [Recharges -> Int]
    /\ attempts \in [Recharges -> 0..FastLimit]
    /\ lastQueried \in [Recharges -> -1..MaxTime]
    /\ tradeNo \in [Recharges -> SUBSET Trades]
    /\ ledger \subseteq Recharges
    /\ wallet \in Nat
    /\ tasks \subseteq Recharges
    /\ gateway \in [Recharges ->
          [state : {"unpaid", "paid", "closed", "mismatch"}, trade : SUBSET Trades]]
    /\ worker \in [Workers ->
          [at : {"idle", "asking", "answered"},
           recharge : Recharges \cup {NoRecharge}, generation : Nat,
           answer : Answers \cup {"none"}, trade : SUBSET Trades,
           queriedAt : 0..MaxTime]]
    /\ time \in 0..MaxTime
    /\ crashes \in 0..MaxCrashes

Init ==
    /\ status = [r \in Recharges |-> "none"]
    /\ createdAt = [r \in Recharges |-> 0]
    /\ generation = [r \in Recharges |-> 0]
    /\ leaseUntil = [r \in Recharges |-> -1]
    /\ attempts = [r \in Recharges |-> 0]
    /\ lastQueried = [r \in Recharges |-> -1]
    /\ tradeNo = [r \in Recharges |-> {}]
    /\ ledger = {}
    /\ wallet = 0
    /\ tasks = {}
    /\ gateway = [r \in Recharges |-> [state |-> "unpaid", trade |-> {}]]
    /\ worker = [w \in Workers |-> Idle]
    /\ time = 0
    /\ crashes = 0

-----------------------------------------------------------------------------
(* The row of a recharge.                                                  *)

ClockReadings == {t \in 0..MaxTime : time - ClockLag <= t /\ t <= time}

Deadline(r) == createdAt[r] + Window

Rested(r, now) ==
    \/ lastQueried[r] = -1
    \/ attempts[r] < FastLimit /\ lastQueried[r] + FastInterval <= now
    \/ attempts[r] >= FastLimit /\ lastQueried[r] + SlowInterval <= now

FallbackDelay(r) == IF r \in Epusdt THEN EpusdtDelay ELSE CallbackDelay

\* The condition both of the dispatcher's list and of the claim.
Due(r, now) ==
    /\ now < Deadline(r)
    /\ \/ status[r] = "callback"
       \/ status[r] = "paying" /\ createdAt[r] + FallbackDelay(r) <= now
    /\ leaseUntil[r] <= now
    /\ Rested(r, now)

Counted(n) == IF n < FastLimit THEN n + 1 ELSE n

\* Faulty form: an answer writes whatever has been claimed since.
AnswerAccepted(r, gen) == status[r] \in Pending

\* An answer is written only while its claim is the latest one.
Current(r, gen) == generation[r] = gen /\ status[r] \in Pending

RecordRechargeQuery(r, gen, at) ==
    /\ IF Current(r, gen)
       THEN /\ attempts' = [attempts EXCEPT ![r] = Counted(@)]
            /\ lastQueried' = [lastQueried EXCEPT ![r] = at]
            /\ leaseUntil' = [leaseUntil EXCEPT ![r] = -1]
       ELSE UNCHANGED <<attempts, lastQueried, leaseUntil>>
    /\ UNCHANGED <<status, createdAt, generation, tradeNo, moneyVars>>

FailRecharge(r, gen, at) ==
    /\ IF Current(r, gen)
       THEN /\ status' = [status EXCEPT ![r] = "failed"]
            /\ attempts' = [attempts EXCEPT ![r] = Counted(@)]
            /\ lastQueried' = [lastQueried EXCEPT ![r] = at]
            /\ leaseUntil' = [leaseUntil EXCEPT ![r] = -1]
       ELSE UNCHANGED <<status, attempts, lastQueried, leaseUntil>>
    /\ UNCHANGED <<createdAt, generation, tradeNo, moneyVars>>

Method(r) == IF r \in Epusdt THEN "epusdt" ELSE "epay"

\* Faulty form: trade numbers are not unique.
TradeFreeAlways(r, trade) == TRUE

TradeFree(r, trade) ==
    \A q \in Recharges \ {r} : Method(q) = Method(r) => tradeNo[q] # trade

\* Faulty form: a failed recharge stays failed.
CreditableUnfailed(r, at) == at < Deadline(r) /\ status[r] \in Pending

\* A payment verified in time is credited although the recharge was failed
\* before the answer was written.
Creditable(r, at) == at < Deadline(r) /\ status[r] \in Pending \cup {"failed"}

CreditRecharge(r, trade, at) ==
    /\ status' = [status EXCEPT ![r] = "credited"]
    /\ tradeNo' = [tradeNo EXCEPT ![r] = trade]
    /\ attempts' = [attempts EXCEPT ![r] = Counted(@)]
    /\ lastQueried' = [lastQueried EXCEPT ![r] = at]
    /\ leaseUntil' = [leaseUntil EXCEPT ![r] = -1]
    /\ ledger' = ledger \cup {r}
    /\ wallet' = wallet + Quota
    /\ UNCHANGED <<createdAt, generation>>

-----------------------------------------------------------------------------
(* Requests and the gateway.                                               *)

\* Faulty form: a recharge whose callback came no longer counts.
OpenUncalled(now) ==
    {r \in Recharges : status[r] = "paying" /\ now < Deadline(r)}

Open(now) == {r \in Recharges : status[r] \in Pending /\ now < Deadline(r)}

\* The user's wallet row is locked while the pending recharges are counted.
CreateRecharge(r, now) ==
    /\ status[r] = "none"
    /\ time + Window < MaxTime
    /\ Cardinality(Open(now)) < MaxPending
    /\ status' = [status EXCEPT ![r] = "paying"]
    /\ createdAt' = [createdAt EXCEPT ![r] = now]
    /\ UNCHANGED <<generation, leaseUntil, attempts, lastQueried, tradeNo,
                   moneyVars, tasks, gateway, worker, time, crashes>>

\* What the user does at the gateway, in time or not: pays, pays a wrong
\* amount, or lets the gateway close the trade.
GatewayMoves(r) ==
    /\ status[r] # "none"
    /\ gateway[r].state = "unpaid"
    /\ \/ \E t \in Trades :
             gateway' = [gateway EXCEPT ![r] = [state |-> "paid", trade |-> {t}]]
       \/ gateway' = [gateway EXCEPT ![r].state = "mismatch"]
       \/ gateway' = [gateway EXCEPT ![r].state = "closed"]
    /\ UNCHANGED <<rowVars, moneyVars, tasks, worker, time, crashes>>

\* The gateway calls back, at any time and any number of times.  The wake-up
\* clears the pause between queries and keeps the lease; the task may fail to
\* be enqueued.
NotifyCallback(r, now) ==
    /\ status[r] = "paying"
    /\ now < Deadline(r)
    /\ status' = [status EXCEPT ![r] = "callback"]
    /\ lastQueried' = [lastQueried EXCEPT ![r] = -1]
    /\ tasks' \in {tasks, tasks \cup {r}}
    /\ UNCHANGED <<createdAt, generation, leaseUntil, attempts, tradeNo,
                   moneyVars, gateway, worker, time, crashes>>

-----------------------------------------------------------------------------
(* The dispatcher.                                                         *)

\* Faulty form: a recharge whose callback came does not expire.
ExpiredUncalled(now) ==
    {r \in Recharges : status[r] = "paying" /\ Deadline(r) <= now}

Expired(now) == {r \in Recharges : status[r] \in Pending /\ Deadline(r) <= now}

ExpirePendingRecharges(now) ==
    /\ Expired(now) # {}
    /\ status' = [r \in Recharges |-> IF r \in Expired(now) THEN "failed" ELSE status[r]]
    /\ leaseUntil' = [r \in Recharges |->
                        IF r \in Expired(now) THEN -1 ELSE leaseUntil[r]]
    /\ UNCHANGED <<createdAt, generation, attempts, lastQueried, tradeNo,
                   moneyVars, tasks, gateway, worker, time, crashes>>

\* Enqueues what is due; a loop that fails stops at any recharge.
EnqueueDue(now) ==
    /\ \E R \in SUBSET {r \in Recharges : status[r] # "none" /\ Due(r, now)} :
          tasks' = tasks \cup R
    /\ tasks' # tasks
    /\ UNCHANGED <<rowVars, moneyVars, gateway, worker, time, crashes>>

-----------------------------------------------------------------------------
(* A worker: claims a query, asks the gateway, writes what it learned.     *)

\* The task stays in the queue until its worker has finished.
ClaimRechargeQuery(w, r, now) ==
    /\ worker[w].at = "idle"
    /\ r \in tasks
    /\ Due(r, now)
    /\ generation' = [generation EXCEPT ![r] = @ + 1]
    /\ leaseUntil' = [leaseUntil EXCEPT ![r] = now + Lease]
    /\ worker' = [worker EXCEPT ![w] =
          [Idle EXCEPT !.at = "asking", !.recharge = r,
                       !.generation = generation[r] + 1]]
    /\ UNCHANGED <<status, createdAt, attempts, lastQueried, tradeNo,
                   moneyVars, tasks, gateway, time, crashes>>

\* The task is done when there is nothing to claim.
ClaimNothing(w, r, now) ==
    /\ worker[w].at = "idle"
    /\ r \in tasks
    /\ ~Due(r, now)
    /\ tasks' = tasks \ {r}
    /\ UNCHANGED <<rowVars, moneyVars, gateway, worker, time, crashes>>

\* The gateway answers, or the query fails or is not sent at all; the worker
\* reads the clock.
Ask(w) ==
    /\ worker[w].at = "asking"
    /\ LET r == worker[w].recharge IN
       \E a \in {gateway[r].state, "error"} :
          worker' = [worker EXCEPT ![w] =
             [@ EXCEPT !.at = "answered", !.answer = a, !.queriedAt = time,
                       !.trade = IF a = "paid" THEN gateway[r].trade ELSE {}]]
    /\ UNCHANGED <<rowVars, moneyVars, tasks, gateway, time, crashes>>

\* Faulty form: a query that failed ends the recharge.
NegativeOnError(answer, late) == answer # "unpaid" \/ late

\* The answers that end a recharge without a credit.
Negative(answer, late) == answer \in {"mismatch", "closed"} \/ late

Reconcile(w) ==
    LET r == worker[w].recharge
        gen == worker[w].generation
        at == worker[w].queriedAt
        trade == worker[w].trade
    IN
    /\ worker[w].at = "answered"
    /\ IF Negative(worker[w].answer, Deadline(r) <= at)
       THEN FailRecharge(r, gen, at)
       ELSE
       \/ /\ worker[w].answer \in {"unpaid", "error"}
          /\ RecordRechargeQuery(r, gen, at)
       \/ /\ worker[w].answer = "paid"
          \* a credited recharge is left alone, as is one past its window
          /\ IF ~Creditable(r, at)
             THEN UNCHANGED <<rowVars, moneyVars>>
             ELSE IF TradeFree(r, trade)
             THEN CreditRecharge(r, trade, at)
             ELSE FailRecharge(r, gen, at)
    /\ worker' = [worker EXCEPT ![w] = Idle]
    /\ tasks' = tasks \ {r}
    /\ UNCHANGED <<gateway, time, crashes>>

\* A worker that stops leaves its task in the queue.
Crash(w) ==
    /\ worker[w].at # "idle"
    /\ crashes < MaxCrashes
    /\ crashes' = crashes + 1
    /\ worker' = [worker EXCEPT ![w] = Idle]
    /\ UNCHANGED <<rowVars, moneyVars, tasks, gateway, time>>

Tick ==
    /\ time < MaxTime
    /\ time' = time + 1
    /\ UNCHANGED <<rowVars, moneyVars, tasks, gateway, worker, crashes>>

Next ==
    \/ \E r \in Recharges : GatewayMoves(r)
    \/ \E r \in Recharges, now \in ClockReadings :
          \/ CreateRecharge(r, now)
          \/ NotifyCallback(r, now)
    \/ \E now \in ClockReadings : ExpirePendingRecharges(now) \/ EnqueueDue(now)
    \/ \E w \in Workers, r \in Recharges, now \in ClockReadings :
          \/ ClaimRechargeQuery(w, r, now)
          \/ ClaimNothing(w, r, now)
    \/ \E w \in Workers : Ask(w) \/ Reconcile(w) \/ Crash(w)
    \/ Tick

\* The dispatcher runs every second and the clock goes on; workers, users and
\* the gateway promise nothing.
Fairness ==
    /\ WF_vars(Tick)
    /\ WF_vars(ExpirePendingRecharges(time))

Spec == Init /\ [][Next]_vars

FairSpec == Spec /\ Fairness

-----------------------------------------------------------------------------
(* Properties.                                                             *)

\* As long as the worker that claimed the latest query of a pending recharge
\* is at it, the row holds its lease: neither a callback nor the late answer
\* of an earlier worker frees the recharge for another query.
LeaseKept ==
    \A w \in Workers :
        LET r == worker[w].recharge IN
        worker[w].at # "idle" /\ Current(r, worker[w].generation)
            => leaseUntil[r] # -1

\* A recharge fails only because the gateway closed it or reported a payment
\* that does not fit, because another recharge was credited by the same trade,
\* or because its window is over; it is credited only by its own payment.
\* Failed queries, lost workers and late answers end no recharge.
EndedForCause ==
    \A r \in Recharges :
        /\ status[r] = "failed" =>
              \/ gateway[r].state \in {"closed", "mismatch"}
              \/ Deadline(r) <= time
              \/ gateway[r].state = "paid" /\ ~TradeFree(r, gateway[r].trade)
        /\ status[r] = "credited" =>
              gateway[r].state = "paid" /\ tradeNo[r] = gateway[r].trade

\* No user has more pending recharges in their window than allowed, although
\* the count is made by a clock read before the wallet was locked.
PendingBounded ==
    Cardinality({r \in Recharges : status[r] \in Pending /\ time < Deadline(r)})
        <= MaxPending

\* A worker that read the gateway's word of a payment inside the window and
\* lives to write it leaves the recharge credited, whatever the dispatcher and
\* the other workers did since; the one exception is a trade another recharge
\* was credited by.
AnswerCounts ==
    [][\A w \in Workers :
          LET r == worker[w].recharge IN
          /\ worker[w].answer = "paid"
          /\ worker[w].queriedAt < Deadline(r)
          /\ worker'[w].at = "idle"
          /\ crashes' = crashes
          => \/ status'[r] = "credited" /\ r \in ledger'
             \/ ~TradeFree(r, worker[w].trade)]_vars

\* Whatever users, gateway and workers do, the dispatcher alone brings every
\* recharge to its end.
RechargeEnds ==
    \A r \in Recharges :
        status[r] \in Pending ~> status[r] \in {"credited", "failed"}

\* The recharges implement RechargeContract: a payment is the method and the
\* trade number of a credited recharge.
Contract == INSTANCE RechargeContract WITH
    Payments <- {"epay", "epusdt"} \X SUBSET Trades,
    outcome <- [r \in Recharges |-> IF status[r] \in Pending THEN "open" ELSE status[r]],
    used <- {<<Method(r), tradeNo[r]>> : r \in ledger}

ImplementsContract == Contract!Spec

=============================================================================
