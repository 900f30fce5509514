--------------------------- MODULE RechargeProofs ---------------------------
(***************************************************************************)
(* Theorems about Recharge, for every set of recharges, workers and trade  *)
(* numbers, every window, lease, pause and bound, also infinite sets: what *)
(* is counted is finite because recharges are created one at a time.       *)
(***************************************************************************)
EXTENDS Recharge, FiniteSetTheorems, TLAPS

USE RechargeAssumption

Ends == {"credited", "failed"}
Statuses == Pending \cup {"none"} \cup Ends

\* A worker at work has a recharge, its claim is not newer than the row, and
\* what it heard of the gateway is what the gateway still says.
WorkerInv(w) ==
    LET k == worker[w]
        r == k.recharge
    IN
    /\ k.at # "idle" =>
          /\ r \in Recharges
          /\ status[r] # "none"
          /\ k.generation <= generation[r]
    /\ k.at # "answered" => k.answer = "none"
    /\ k.at = "answered" =>
          /\ k.answer \in Answers
          /\ k.queriedAt <= time
          /\ k.answer \in {"paid", "closed", "mismatch"} => gateway[r].state = k.answer
          /\ k.answer = "paid" => k.trade = gateway[r].trade

\* Two workers never hold the same claim.
ClaimsDiffer ==
    \A v, w \in Workers :
        /\ worker[v].at # "idle" /\ worker[w].at # "idle"
        /\ worker[v].recharge = worker[w].recharge
        /\ worker[v].generation = worker[w].generation
        => v = w

\* Row, ledger and gateway of a recharge agree.
RowInv(r) ==
    /\ status[r] # "none" => createdAt[r] <= time
    /\ status[r] = "credited" <=> r \in ledger
    /\ status[r] # "credited" => tradeNo[r] = {}
    /\ gateway[r].state = "paid" => gateway[r].trade # {}

\* What was created is finite, so that the user's open recharges can be counted.
CreatedFinite == IsFiniteSet({r \in Recharges : status[r] # "none"})

RechargeInv ==
    /\ \A w \in Workers : WorkerInv(w)
    /\ ClaimsDiffer
    /\ \A r \in Recharges : RowInv(r)
    /\ CreatedFinite
    /\ LeaseKept
    /\ EndedForCause
    /\ PendingBounded

-----------------------------------------------------------------------------
(* Type correctness.                                                       *)

WorkerStates ==
    [at : {"idle", "asking", "answered"},
     recharge : Recharges \cup {NoRecharge}, generation : Nat,
     answer : Answers \cup {"none"}, trade : SUBSET Trades,
     queriedAt : 0..MaxTime]

LEMMA InitTypeOK == Init => TypeOK
  BY DEF Init, TypeOK, Idle

LEMMA ReadingsType == TypeOK => \A now \in ClockReadings : now \in 0..MaxTime /\ now <= time
  BY DEF TypeOK, ClockReadings

\* What a worker writes of its answer: nothing, that it asked, the failure or
\* the credit.
Silent == UNCHANGED <<rowVars, moneyVars>>

Written(w) ==
    LET k == worker[w] IN
    \/ Silent
    \/ Current(k.recharge, k.generation)
          /\ RecordRechargeQuery(k.recharge, k.generation, k.queriedAt)
          /\ k.answer \in {"unpaid", "error"}
    \/ Current(k.recharge, k.generation)
          /\ FailRecharge(k.recharge, k.generation, k.queriedAt)
          /\ \/ Negative(k.answer, Deadline(k.recharge) <= k.queriedAt)
             \/ k.answer = "paid" /\ ~TradeFree(k.recharge, k.trade)
    \/ k.answer = "paid" /\ Creditable(k.recharge, k.queriedAt) /\ TradeFree(k.recharge, k.trade)
          /\ CreditRecharge(k.recharge, k.trade, k.queriedAt)

LEMMA ReconcileWrites ==
  ASSUME NEW w \in Workers, Reconcile(w)
  PROVE  Written(w)
<1> DEFINE r == worker[w].recharge
           gen == worker[w].generation
           at == worker[w].queriedAt
<1>1. CASE Negative(worker[w].answer, Deadline(r) <= at)
  BY <1>1 DEF Reconcile, Written, FailRecharge, Silent, rowVars, moneyVars
<1>2. CASE /\ ~Negative(worker[w].answer, Deadline(r) <= at)
           /\ worker[w].answer \in {"unpaid", "error"}
           /\ RecordRechargeQuery(r, gen, at)
  BY <1>2 DEF Written, RecordRechargeQuery, Silent, rowVars, moneyVars
<1>3. CASE /\ ~Negative(worker[w].answer, Deadline(r) <= at)
           /\ worker[w].answer = "paid"
  BY <1>3 DEF Reconcile, Written, FailRecharge, Silent, rowVars, moneyVars
<1>4. QED
  BY <1>1, <1>2, <1>3 DEF Reconcile

RowTypeOK ==
    /\ status \in [Recharges -> Statuses]
    /\ createdAt \in [Recharges -> 0..MaxTime]
    /\ generation \in [Recharges -> Nat]
    /\ leaseUntil \in [Recharges -> Int]
    /\ attempts \in [Recharges -> 0..FastLimit]
    /\ lastQueried \in [Recharges -> -1..MaxTime]
    /\ tradeNo \in [Recharges -> SUBSET Trades]
    /\ ledger \subseteq Recharges
    /\ wallet \in Nat

LEMMA RowTypes == TypeOK => RowTypeOK
  BY DEF TypeOK, RowTypeOK, Statuses, Ends, Pending

LEMMA CountedType == \A n \in 0..FastLimit : Counted(n) \in 0..FastLimit
  BY DEF Counted

LEMMA RecordType ==
  ASSUME RowTypeOK, NEW r \in Recharges, NEW gen, NEW at \in 0..MaxTime,
         RecordRechargeQuery(r, gen, at)
  PROVE  RowTypeOK'
<1>1. Counted(attempts[r]) \in 0..FastLimit /\ at \in -1..MaxTime
  BY CountedType DEF RowTypeOK
<1>2. attempts' \in [Recharges -> 0..FastLimit]
  BY <1>1 DEF RowTypeOK, RecordRechargeQuery
<1>3. lastQueried' \in [Recharges -> -1..MaxTime] /\ leaseUntil' \in [Recharges -> Int]
  BY <1>1 DEF RowTypeOK, RecordRechargeQuery
<1>4. QED
  BY <1>2, <1>3 DEF RowTypeOK, RecordRechargeQuery, moneyVars

LEMMA FailType ==
  ASSUME RowTypeOK, NEW r \in Recharges, NEW gen, NEW at \in 0..MaxTime,
         FailRecharge(r, gen, at)
  PROVE  RowTypeOK'
<1>1. Counted(attempts[r]) \in 0..FastLimit /\ at \in -1..MaxTime
  BY CountedType DEF RowTypeOK
<1>2. attempts' \in [Recharges -> 0..FastLimit]
  BY <1>1 DEF RowTypeOK, FailRecharge
<1>3. lastQueried' \in [Recharges -> -1..MaxTime] /\ leaseUntil' \in [Recharges -> Int]
  BY <1>1 DEF RowTypeOK, FailRecharge
<1>4. status' \in [Recharges -> Statuses]
  BY DEF RowTypeOK, FailRecharge, Statuses, Ends
<1>5. QED
  BY <1>2, <1>3, <1>4 DEF RowTypeOK, FailRecharge, moneyVars

LEMMA CreditType ==
  ASSUME RowTypeOK, NEW r \in Recharges, NEW trade \in SUBSET Trades,
         NEW at \in 0..MaxTime, CreditRecharge(r, trade, at)
  PROVE  RowTypeOK'
<1>1. Counted(attempts[r]) \in 0..FastLimit /\ at \in -1..MaxTime
  BY CountedType DEF RowTypeOK
<1>2. attempts' \in [Recharges -> 0..FastLimit]
  BY <1>1 DEF RowTypeOK, CreditRecharge
<1>3. lastQueried' \in [Recharges -> -1..MaxTime] /\ leaseUntil' \in [Recharges -> Int]
  BY <1>1 DEF RowTypeOK, CreditRecharge
<1>4. status' \in [Recharges -> Statuses] /\ tradeNo' \in [Recharges -> SUBSET Trades]
  BY DEF RowTypeOK, CreditRecharge, Statuses, Ends
<1>5. QED
  BY <1>2, <1>3, <1>4 DEF RowTypeOK, CreditRecharge

LEMMA WrittenType ==
  ASSUME TypeOK, NEW w \in Workers, worker[w].recharge \in Recharges, Written(w)
  PROVE  RowTypeOK'
<1>1. RowTypeOK /\ worker[w].queriedAt \in 0..MaxTime /\ worker[w].trade \in SUBSET Trades
  BY RowTypes DEF TypeOK
<1>2. CASE Silent
  BY <1>1, <1>2 DEF RowTypeOK, Silent, rowVars, moneyVars
<1>3. QED
  BY <1>1, <1>2, RecordType, FailType, CreditType DEF Written

\* A worker at work has a recharge: all the types need of RechargeInv.
Busy == \A w \in Workers : worker[w].at # "idle" => worker[w].recharge \in Recharges

LEMMA TypeStep == TypeOK /\ Busy /\ [Next]_vars => TypeOK'
<1> SUFFICES ASSUME TypeOK, Busy, [Next]_vars
             PROVE  TypeOK'
  OBVIOUS
<1>t. RowTypeOK
  BY RowTypes
<1>r. ASSUME RowTypeOK', tasks' \subseteq Recharges, worker' \in [Workers -> WorkerStates],
             UNCHANGED <<gateway, time, crashes>>
      PROVE  TypeOK'
  BY <1>r DEF TypeOK, RowTypeOK, Statuses, Ends, Pending, WorkerStates
<1>w. worker \in [Workers -> WorkerStates] /\ tasks \subseteq Recharges /\ Idle \in WorkerStates
  BY DEF TypeOK, WorkerStates, Idle
<1>1. ASSUME NEW r \in Recharges, GatewayMoves(r)
      PROVE  TypeOK'
  <2> DEFINE G == [state : {"unpaid", "paid", "closed", "mismatch"}, trade : SUBSET Trades]
  <2>1. gateway \in [Recharges -> G]
    BY DEF TypeOK
  <2>2. \E g \in G : gateway' = [gateway EXCEPT ![r] = g]
    <3>1. CASE \E t \in Trades :
                 gateway' = [gateway EXCEPT ![r] = [state |-> "paid", trade |-> {t}]]
      BY <3>1
    <3>2. ASSUME NEW a \in {"mismatch", "closed"}, gateway' = [gateway EXCEPT ![r].state = a]
          PROVE  \E g \in G : gateway' = [gateway EXCEPT ![r] = g]
      <4>1. [gateway[r] EXCEPT !.state = a] \in G
        BY <2>1
      <4>2. QED
        BY <3>2, <4>1
    <3>3. QED
      BY <1>1, <3>1, <3>2 DEF GatewayMoves
  <2>3. gateway' \in [Recharges -> G]
    BY <2>1, <2>2
  <2>4. QED
    BY <1>1, <2>3 DEF TypeOK, GatewayMoves, rowVars, moneyVars
<1>2. ASSUME NEW r \in Recharges, NEW now \in ClockReadings, CreateRecharge(r, now)
      PROVE  TypeOK'
  <2>1. now \in 0..MaxTime
    BY ReadingsType
  <2>2. RowTypeOK'
    BY <1>t, <1>2, <2>1 DEF RowTypeOK, CreateRecharge, Statuses, Pending, moneyVars
  <2>3. QED
    BY <1>2, <1>r, <1>w, <2>2 DEF CreateRecharge
<1>3. ASSUME NEW r \in Recharges, NEW now \in ClockReadings, NotifyCallback(r, now)
      PROVE  TypeOK'
  <2>1. RowTypeOK'
    BY <1>t, <1>3 DEF RowTypeOK, NotifyCallback, Statuses, Pending, moneyVars
  <2>2. QED
    BY <1>3, <1>r, <1>w, <2>1 DEF NotifyCallback
<1>4. ASSUME NEW now \in ClockReadings, ExpirePendingRecharges(now)
      PROVE  TypeOK'
  <2>1. RowTypeOK'
    BY <1>t, <1>4 DEF RowTypeOK, ExpirePendingRecharges, Statuses, Ends, moneyVars
  <2>2. QED
    BY <1>4, <1>r, <1>w, <2>1 DEF ExpirePendingRecharges
<1>5. ASSUME NEW now \in ClockReadings, EnqueueDue(now)
      PROVE  TypeOK'
  <2>1. tasks' \subseteq Recharges
    BY <1>5, <1>w DEF EnqueueDue
  <2>2. RowTypeOK'
    BY <1>t, <1>5 DEF EnqueueDue, RowTypeOK, rowVars, moneyVars
  <2>3. QED
    BY <1>5, <1>r, <1>w, <2>1, <2>2 DEF EnqueueDue
<1>6. ASSUME NEW w \in Workers, NEW r \in Recharges, NEW now \in ClockReadings,
             ClaimRechargeQuery(w, r, now)
      PROVE  TypeOK'
  <2>1. now \in 0..MaxTime
    BY ReadingsType
  <2>2. RowTypeOK'
    BY <1>t, <1>6, <2>1 DEF RowTypeOK, ClaimRechargeQuery, moneyVars
  <2>3. [Idle EXCEPT !.at = "asking", !.recharge = r, !.generation = generation[r] + 1]
           \in WorkerStates
    <3>1. generation[r] + 1 \in Nat
      BY <1>t DEF RowTypeOK
    <3>2. QED
      BY <1>w, <3>1 DEF WorkerStates
  <2>4. worker' \in [Workers -> WorkerStates]
    BY <1>6, <1>w, <2>3 DEF ClaimRechargeQuery
  <2>5. QED
    BY <1>6, <1>r, <1>w, <2>2, <2>4 DEF ClaimRechargeQuery
<1>7. ASSUME NEW w \in Workers, NEW r \in Recharges, NEW now \in ClockReadings,
             ClaimNothing(w, r, now)
      PROVE  TypeOK'
  BY <1>t, <1>7, <1>r, <1>w DEF ClaimNothing, RowTypeOK, rowVars, moneyVars
<1>8. ASSUME NEW w \in Workers, Ask(w)
      PROVE  TypeOK'
  <2>1. worker[w].recharge \in Recharges
    BY <1>8 DEF Ask, Busy
  <2> DEFINE g == gateway[worker[w].recharge]
  <2>2. g.state \in Answers /\ g.trade \in SUBSET Trades /\ time \in 0..MaxTime
    BY <2>1 DEF TypeOK, Answers
  <2>3. \A a \in {g.state, "error"} :
           [worker[w] EXCEPT !.at = "answered", !.answer = a, !.queriedAt = time,
                             !.trade = IF a = "paid" THEN g.trade ELSE {}] \in WorkerStates
    BY <1>w, <2>2 DEF WorkerStates, Answers
  <2>4. worker' \in [Workers -> WorkerStates]
    BY <1>8, <1>w, <2>3 DEF Ask
  <2>5. QED
    BY <1>t, <1>8, <1>r, <1>w, <2>4 DEF Ask, RowTypeOK, rowVars, moneyVars
<1>9. ASSUME NEW w \in Workers, Reconcile(w)
      PROVE  TypeOK'
  <2>1. worker[w].recharge \in Recharges
    BY <1>9 DEF Reconcile, Busy
  <2>2. RowTypeOK'
    BY <1>9, <2>1, ReconcileWrites, WrittenType
  <2>3. QED
    BY <1>9, <1>r, <1>w, <2>2 DEF Reconcile
<1>10. ASSUME NEW w \in Workers, Crash(w)
       PROVE  TypeOK'
  BY <1>10, <1>w DEF Crash, TypeOK, WorkerStates, rowVars, moneyVars
<1>11. CASE Tick \/ UNCHANGED vars
  BY <1>11 DEF TypeOK, Tick, vars, rowVars, moneyVars
<1>12. QED
  BY <1>1, <1>2, <1>3, <1>4, <1>5, <1>6, <1>7, <1>8, <1>9, <1>10, <1>11 DEF Next

-----------------------------------------------------------------------------
(* What no step takes back: claims, answers of the gateway, credits.       *)

Onward ==
    /\ time <= time'
    /\ \A r \in Recharges :
          /\ status[r] # "none" => status'[r] # "none" /\ createdAt'[r] = createdAt[r]
          /\ status[r] = "credited" => status'[r] = "credited"
          /\ generation[r] <= generation'[r]
          /\ gateway[r].state # "unpaid" => gateway'[r] = gateway[r]
          /\ tradeNo[r] # {} => tradeNo'[r] = tradeNo[r]

LEMMA WrittenOnward ==
  ASSUME TypeOK, RechargeInv, NEW w \in Workers, worker[w].at = "answered", Written(w),
         UNCHANGED <<gateway, time>>
  PROVE  Onward
<1> DEFINE k == worker[w]
           r == k.recharge
<1>t. RowTypeOK /\ time \in Int
  BY RowTypes DEF TypeOK
<1>r. /\ r \in Recharges
      /\ status[r] # "none"
      /\ \A q \in Recharges : tradeNo[q] # {} => status[q] = "credited"
  BY DEF RechargeInv, WorkerInv, RowInv
<1>1. CASE Silent
  BY <1>t, <1>1 DEF Silent, Onward, RowTypeOK, rowVars
<1>2. CASE RecordRechargeQuery(r, k.generation, k.queriedAt)
  BY <1>t, <1>2 DEF RecordRechargeQuery, Onward, RowTypeOK
<1>3. CASE Current(r, k.generation) /\ FailRecharge(r, k.generation, k.queriedAt)
  BY <1>t, <1>r, <1>3 DEF FailRecharge, Current, Pending, Onward, RowTypeOK
<1>4. CASE Creditable(r, k.queriedAt) /\ CreditRecharge(r, k.trade, k.queriedAt)
  <2>1. status[r] # "credited"
    BY <1>4 DEF Creditable, Pending
  <2>2. QED
    BY <1>t, <1>r, <1>4, <2>1 DEF CreditRecharge, Onward, RowTypeOK
<1>5. QED
  BY <1>1, <1>2, <1>3, <1>4 DEF Written

LEMMA StepOnward == TypeOK /\ RechargeInv /\ [Next]_vars => Onward
<1> SUFFICES ASSUME TypeOK, RechargeInv, [Next]_vars
             PROVE  Onward
  OBVIOUS
<1>t. RowTypeOK /\ time \in Int
  BY RowTypes DEF TypeOK
<1>r. RowTypeOK /\ UNCHANGED <<rowVars, gateway>> /\ time <= time' => Onward
  BY DEF Onward, RowTypeOK, rowVars
<1>1. ASSUME NEW r \in Recharges, GatewayMoves(r)
      PROVE  Onward
  <2>1. gateway[r].state = "unpaid" /\ UNCHANGED <<rowVars, time>>
    BY <1>1 DEF GatewayMoves
  <2>2. \A q \in Recharges \ {r} : gateway'[q] = gateway[q]
    BY <1>1 DEF GatewayMoves, TypeOK
  <2>3. QED
    BY <1>t, <2>1, <2>2 DEF Onward, RowTypeOK, rowVars
<1>2. ASSUME NEW r \in Recharges, NEW now \in ClockReadings,
             CreateRecharge(r, now) \/ NotifyCallback(r, now)
      PROVE  Onward
  BY <1>t, <1>2 DEF CreateRecharge, NotifyCallback, Onward, RowTypeOK
<1>3. ASSUME NEW now \in ClockReadings, ExpirePendingRecharges(now)
      PROVE  Onward
  BY <1>t, <1>3 DEF ExpirePendingRecharges, Expired, Pending, Onward, RowTypeOK
<1>4. ASSUME NEW w \in Workers, NEW r \in Recharges, NEW now \in ClockReadings,
             ClaimRechargeQuery(w, r, now)
      PROVE  Onward
  BY <1>t, <1>4 DEF ClaimRechargeQuery, Onward, RowTypeOK
<1>5. ASSUME NEW w \in Workers, Reconcile(w)
      PROVE  Onward
  BY <1>5, ReconcileWrites, WrittenOnward DEF Reconcile
<1>6. ASSUME \/ \E now \in ClockReadings : EnqueueDue(now)
             \/ \E w \in Workers, r \in Recharges, now \in ClockReadings : ClaimNothing(w, r, now)
             \/ \E w \in Workers : Ask(w) \/ Crash(w)
             \/ Tick \/ UNCHANGED vars
      PROVE  Onward
  <2>1. UNCHANGED <<rowVars, gateway>>
    BY <1>6 DEF EnqueueDue, ClaimNothing, Ask, Crash, Tick, vars
  <2>2. time' = time \/ time' = time + 1
    BY <1>6 DEF EnqueueDue, ClaimNothing, Ask, Crash, Tick, vars
  <2>3. QED
    BY <1>t, <1>r, <2>1, <2>2
<1>7. QED
  BY <1>1, <1>2, <1>3, <1>4, <1>5, <1>6 DEF Next

-----------------------------------------------------------------------------
(* The workers' claims.                                                    *)

\* A worker that did nothing, or stopped, is as right as it was.
LEMMA WorkerKept ==
  ASSUME TypeOK, TypeOK', Onward, NEW w \in Workers, WorkerInv(w),
         worker'[w] = worker[w] \/ worker'[w] = Idle
  PROVE  WorkerInv(w)'
<1>1. CASE worker'[w] = Idle
  BY <1>1 DEF WorkerInv, Idle
<1>2. CASE worker'[w] = worker[w]
  <2>1. worker[w].generation \in Int /\ worker[w].queriedAt \in Int /\ time \in Int /\ time' \in Int
    BY DEF TypeOK
  <2>2. \A r \in Recharges : generation[r] \in Int /\ generation'[r] \in Int
    BY DEF TypeOK
  <2>3. QED
    BY <1>2, <2>1, <2>2 DEF WorkerInv, Onward
<1>3. QED
  BY <1>1, <1>2

LEMMA WorkersStep ==
  ASSUME TypeOK, TypeOK', RechargeInv, Onward, [Next]_vars
  PROVE  (\A w \in Workers : WorkerInv(w))' /\ ClaimsDiffer'
<1>i. /\ \A w \in Workers : WorkerInv(w)
      /\ ClaimsDiffer
  BY DEF RechargeInv
<1>t. worker \in [Workers -> WorkerStates]
  BY DEF TypeOK, WorkerStates
\* Nobody claims, and nobody hears from the gateway.
<1>k. ASSUME \A w \in Workers : worker'[w] = worker[w] \/ worker'[w] = Idle
      PROVE  (\A w \in Workers : WorkerInv(w))' /\ ClaimsDiffer'
  <2>1. (\A w \in Workers : WorkerInv(w))'
    <3> SUFFICES ASSUME NEW w \in Workers PROVE WorkerInv(w)'
      OBVIOUS
    <3>1. QED
      BY <1>i, <1>k, WorkerKept
  <2>2. ClaimsDiffer'
    BY <1>i, <1>k DEF ClaimsDiffer, Idle
  <2>3. QED
    BY <2>1, <2>2
<1>1. ASSUME NEW w \in Workers, NEW r \in Recharges, NEW now \in ClockReadings,
             ClaimRechargeQuery(w, r, now)
      PROVE  (\A v \in Workers : WorkerInv(v))' /\ ClaimsDiffer'
  <2> DEFINE claim == [Idle EXCEPT !.at = "asking", !.recharge = r,
                                   !.generation = generation[r] + 1]
  <2>1. worker' = [worker EXCEPT ![w] = claim]
    BY <1>1 DEF ClaimRechargeQuery
  <2>2. /\ claim.at = "asking" /\ claim.recharge = r /\ claim.generation = generation[r] + 1
        /\ claim.answer = "none"
    BY DEF Idle
  <2>3. generation'[r] = generation[r] + 1 /\ generation[r] \in Int
    BY <1>1 DEF ClaimRechargeQuery, TypeOK
  <2>4. status'[r] # "none"
    BY <1>1 DEF ClaimRechargeQuery, Due
  <2> HIDE DEF claim
  <2>5. worker'[w] = claim /\ \A v \in Workers \ {w} : worker'[v] = worker[v]
    BY <1>t, <2>1
  <2>6. WorkerInv(w)'
    BY <2>2, <2>3, <2>4, <2>5 DEF WorkerInv
  <2>7. \A v \in Workers \ {w} : WorkerInv(v)'
    BY <1>i, <2>5, WorkerKept
  <2>8. \A v \in Workers \ {w} : worker[v].at # "idle" /\ worker[v].recharge = r
                                   => worker[v].generation < generation[r] + 1
    <3>1. \A v \in Workers : worker[v].generation \in Int
      BY DEF TypeOK
    <3>2. QED
      BY <1>i, <2>3, <3>1 DEF WorkerInv
  <2>9. ClaimsDiffer'
    BY <1>i, <2>2, <2>3, <2>5, <2>8 DEF ClaimsDiffer
  <2>10. QED
    BY <2>6, <2>7, <2>9
<1>2. ASSUME NEW w \in Workers, Ask(w)
      PROVE  (\A v \in Workers : WorkerInv(v))' /\ ClaimsDiffer'
  <2> DEFINE r == worker[w].recharge
  <2>1. PICK a \in {gateway[r].state, "error"} :
           worker' = [worker EXCEPT ![w] =
             [@ EXCEPT !.at = "answered", !.answer = a, !.queriedAt = time,
                       !.trade = IF a = "paid" THEN gateway[r].trade ELSE {}]]
    BY <1>2 DEF Ask
  <2>2. /\ worker'[w].at = "answered" /\ worker'[w].answer = a
        /\ worker'[w].queriedAt = time
        /\ a = "paid" => worker'[w].trade = gateway[r].trade
        /\ worker'[w].recharge = r /\ worker'[w].generation = worker[w].generation
        /\ \A v \in Workers \ {w} : worker'[v] = worker[v]
    BY <1>t, <2>1 DEF WorkerStates
  <2>3. worker[w].at = "asking" /\ UNCHANGED <<status, generation, gateway, time>>
    BY <1>2 DEF Ask, rowVars
  <2>4. /\ r \in Recharges /\ status[r] # "none"
        /\ worker[w].generation <= generation[r]
    BY <1>i, <2>3 DEF WorkerInv
  <2>5. a \in Answers /\ time \in Int
    BY <2>4 DEF TypeOK, Answers
  <2>6. WorkerInv(w)'
    BY <2>2, <2>3, <2>4, <2>5 DEF WorkerInv
  <2>7. \A v \in Workers \ {w} : WorkerInv(v)'
    BY <1>i, <2>2, WorkerKept
  <2>8. ClaimsDiffer'
    BY <1>i, <2>2, <2>3 DEF ClaimsDiffer
  <2>9. QED
    BY <2>6, <2>7, <2>8
<1>3. ASSUME NEW w \in Workers, Reconcile(w) \/ Crash(w)
      PROVE  \A v \in Workers : worker'[v] = worker[v] \/ worker'[v] = Idle
  BY <1>t, <1>3 DEF Reconcile, Crash
<1>4. QED
  BY <1>k, <1>1, <1>2, <1>3
     DEF Next, GatewayMoves, CreateRecharge, NotifyCallback, ExpirePendingRecharges,
         EnqueueDue, ClaimNothing, Tick, vars

-----------------------------------------------------------------------------
(* The rows.                                                               *)

LEMMA RowsStep ==
  ASSUME TypeOK, TypeOK', RechargeInv, Onward, [Next]_vars, NEW r \in Recharges
  PROVE  RowInv(r)'
<1>t. /\ RowTypeOK /\ RowTypeOK' /\ time \in Int /\ time' \in Int
      /\ time <= time' /\ createdAt[r] \in Int /\ createdAt'[r] \in Int
  <2>1. RowTypeOK'
    BY RowTypes, PTL
  <2>2. QED
    BY <2>1, RowTypes DEF TypeOK, Onward, RowTypeOK
<1>i. RowInv(r)
  BY DEF RechargeInv
\* The gateway moved, or nothing about the row did.
<1>k. ASSUME UNCHANGED <<rowVars, ledger>>,
             gateway'[r] = gateway[r] \/ gateway'[r].state # "paid" \/ gateway'[r].trade # {}
      PROVE  RowInv(r)'
  BY <1>t, <1>i, <1>k DEF RowInv, rowVars
<1>1. ASSUME NEW q \in Recharges, GatewayMoves(q)
      PROVE  RowInv(r)'
  <2>1. UNCHANGED <<rowVars, ledger>>
    BY <1>1 DEF GatewayMoves, moneyVars
  <2>2. CASE q # r
    BY <1>1, <1>k, <2>1, <2>2 DEF GatewayMoves, TypeOK
  <2>3. CASE q = r
    <3>1. CASE \E t \in Trades :
                 gateway' = [gateway EXCEPT ![q] = [state |-> "paid", trade |-> {t}]]
      BY <1>k, <2>1, <2>3, <3>1 DEF TypeOK
    <3>2. ASSUME NEW a \in {"mismatch", "closed"}, gateway' = [gateway EXCEPT ![q].state = a]
          PROVE  RowInv(r)'
      <4>1. gateway'[r].state = a
        BY <2>3, <3>2 DEF TypeOK
      <4>2. QED
        BY <1>k, <2>1, <4>1
    <3>3. QED
      BY <1>1, <3>1, <3>2 DEF GatewayMoves
  <2>4. QED
    BY <2>2, <2>3
<1>2. ASSUME NEW q \in Recharges, NEW now \in ClockReadings,
             CreateRecharge(q, now) \/ NotifyCallback(q, now)
      PROVE  RowInv(r)'
  <2>1. now <= time /\ now \in Int
    BY ReadingsType
  <2>2. QED
    BY <1>t, <1>i, <1>2, <2>1
       DEF RowInv, RowTypeOK, CreateRecharge, NotifyCallback, moneyVars
<1>3. ASSUME NEW now \in ClockReadings, ExpirePendingRecharges(now)
      PROVE  RowInv(r)'
  BY <1>t, <1>i, <1>3
     DEF RowInv, RowTypeOK, ExpirePendingRecharges, Expired, Pending, moneyVars
<1>4. ASSUME NEW w \in Workers, Reconcile(w)
      PROVE  RowInv(r)'
  <2> DEFINE k == worker[w]
  <2>1. Written(w) /\ UNCHANGED <<gateway, time>>
    BY <1>4, ReconcileWrites DEF Reconcile
  <2>2. k.recharge \in Recharges /\ status[k.recharge] # "none"
    BY <1>4 DEF Reconcile, RechargeInv, WorkerInv
  <2>3. CASE Silent \/ RecordRechargeQuery(k.recharge, k.generation, k.queriedAt)
    BY <1>t, <1>i, <2>1, <2>3
       DEF RowInv, Silent, RecordRechargeQuery, rowVars, moneyVars
  <2>4. CASE /\ Current(k.recharge, k.generation)
             /\ FailRecharge(k.recharge, k.generation, k.queriedAt)
    BY <1>t, <1>i, <2>1, <2>2, <2>4
       DEF RowInv, RowTypeOK, FailRecharge, Current, Pending, moneyVars
  <2>5. CASE CreditRecharge(k.recharge, k.trade, k.queriedAt)
    BY <1>t, <1>i, <2>1, <2>2, <2>5 DEF RowInv, RowTypeOK, CreditRecharge
  <2>6. QED
    BY <2>1, <2>3, <2>4, <2>5 DEF Written
<1>5. ASSUME \/ \E now \in ClockReadings : EnqueueDue(now)
             \/ \E w \in Workers, q \in Recharges, now \in ClockReadings :
                   ClaimNothing(w, q, now) \/ ClaimRechargeQuery(w, q, now)
             \/ \E w \in Workers : Ask(w) \/ Crash(w)
             \/ Tick \/ UNCHANGED vars
      PROVE  RowInv(r)'
  <2>1. UNCHANGED <<status, createdAt, tradeNo, ledger, gateway>>
    BY <1>5 DEF EnqueueDue, ClaimNothing, ClaimRechargeQuery, Ask, Crash, Tick, vars,
                rowVars, moneyVars
  <2>2. QED
    BY <1>t, <1>i, <2>1 DEF RowInv
<1>6. QED
  BY <1>1, <1>2, <1>3, <1>4, <1>5 DEF Next

-----------------------------------------------------------------------------
(* The count of open recharges.                                            *)

\* Only a creation adds to the recharges and to those in their window.
LEMMA OnlyCreated ==
  ASSUME TypeOK, RechargeInv, Onward, [Next]_vars,
         ~ \E q \in Recharges, now \in ClockReadings : CreateRecharge(q, now),
         NEW r \in Recharges, status'[r] # "none"
  PROVE  status[r] # "none" /\ (status'[r] \in Pending => status[r] \in Pending)
<1>t. RowTypeOK
  BY RowTypes
<1>1. CASE \E q \in Recharges, now \in ClockReadings : NotifyCallback(q, now)
  BY <1>t, <1>1 DEF NotifyCallback, RowTypeOK, Pending
<1>2. CASE \E now \in ClockReadings : ExpirePendingRecharges(now)
  BY <1>t, <1>2 DEF ExpirePendingRecharges, Expired, RowTypeOK, Pending
<1>3. ASSUME NEW w \in Workers, Reconcile(w)
      PROVE  status[r] # "none" /\ (status'[r] \in Pending => status[r] \in Pending)
  <2>1. Written(w)
    BY <1>3, ReconcileWrites
  <2>2. worker[w].recharge \in Recharges /\ status[worker[w].recharge] # "none"
    BY <1>3 DEF Reconcile, RechargeInv, WorkerInv
  <2>3. QED
    BY <1>t, <2>1, <2>2
       DEF Written, Silent, RecordRechargeQuery, FailRecharge, CreditRecharge, RowTypeOK,
           rowVars, Current, Pending
<1>4. CASE UNCHANGED status
  BY <1>4
<1>5. QED
  BY <1>1, <1>2, <1>3, <1>4
     DEF Next, GatewayMoves, EnqueueDue, ClaimRechargeQuery, ClaimNothing, Ask, Crash, Tick,
         vars, rowVars

LEMMA CountStep ==
  ASSUME TypeOK, TypeOK', RechargeInv, Onward, [Next]_vars
  PROVE  CreatedFinite' /\ PendingBounded'
<1> DEFINE Created == {r \in Recharges : status[r] # "none"}
           OpenNow == {r \in Recharges : status[r] \in Pending /\ time < Deadline(r)}
           CreatedNext == {r \in Recharges : status'[r] # "none"}
           OpenNext == {r \in Recharges : status'[r] \in Pending /\ time' < createdAt'[r] + Window}
<1>t. /\ RowTypeOK /\ time \in Int /\ time' \in Int /\ time <= time'
      /\ \A r \in Recharges : createdAt[r] \in Int /\ createdAt'[r] \in Int
  BY RowTypes DEF TypeOK, Onward
<1>i. IsFiniteSet(Created) /\ Cardinality(OpenNow) <= MaxPending
  BY DEF RechargeInv, CreatedFinite, PendingBounded
<1>1. ASSUME NEW r \in Recharges, NEW now \in ClockReadings, CreateRecharge(r, now)
      PROVE  IsFiniteSet(CreatedNext) /\ Cardinality(OpenNext) <= MaxPending
  <2>1. now <= time /\ now \in Int
    BY ReadingsType
  <2>2. /\ status' = [status EXCEPT ![r] = "paying"] /\ status[r] = "none"
        /\ createdAt' = [createdAt EXCEPT ![r] = now]
        /\ time' = time
    BY <1>1 DEF CreateRecharge
  <2>3. CreatedNext = Created \cup {r}
    BY <1>t, <2>2 DEF RowTypeOK
  <2>4. OpenNow \subseteq Open(now) /\ Open(now) \subseteq Created
    BY <1>t, <2>1 DEF Open, Deadline, Pending
  <2>5. IsFiniteSet(Open(now)) /\ IsFiniteSet(OpenNow)
    BY <1>i, <2>4, FS_Subset
  <2>6. Cardinality(OpenNow) <= Cardinality(Open(now))
    BY <2>4, <2>5, FS_Subset
  <2>7. Cardinality(Open(now)) < MaxPending
    BY <1>1 DEF CreateRecharge
  <2>8. OpenNext \subseteq OpenNow \cup {r}
    BY <1>t, <2>2 DEF RowTypeOK, Deadline
  <2>9. /\ IsFiniteSet(OpenNow \cup {r})
        /\ Cardinality(OpenNow \cup {r}) <= Cardinality(OpenNow) + 1
        /\ Cardinality(OpenNow) \in Nat /\ Cardinality(Open(now)) \in Nat
    <3> HIDE DEF OpenNow
    <3>1. /\ IsFiniteSet(OpenNow \cup {r})
          /\ Cardinality(OpenNow \cup {r}) =
                IF r \in OpenNow THEN Cardinality(OpenNow) ELSE Cardinality(OpenNow) + 1
      BY <2>5, FS_AddElement
    <3>2. Cardinality(OpenNow) \in Nat /\ Cardinality(Open(now)) \in Nat
      BY <2>5, FS_CardinalityType
    <3>3. QED
      BY <3>1, <3>2
  <2>10. Cardinality(OpenNext) <= Cardinality(OpenNow \cup {r}) /\ IsFiniteSet(OpenNext)
    BY <2>8, <2>9, FS_Subset
  <2>11. Cardinality(OpenNext) \in Nat /\ Cardinality(OpenNow \cup {r}) \in Nat
    BY <2>9, <2>10, FS_CardinalityType
  <2>12. Cardinality(OpenNext) <= MaxPending
    BY <2>6, <2>7, <2>9, <2>10, <2>11
  <2>13. QED
    BY <1>i, <2>3, <2>12, FS_AddElement
<1>2. ASSUME ~ \E q \in Recharges, now \in ClockReadings : CreateRecharge(q, now)
      PROVE  IsFiniteSet(CreatedNext) /\ Cardinality(OpenNext) <= MaxPending
  <2>1. CreatedNext \subseteq Created
    BY <1>2, OnlyCreated
  <2>2. OpenNext \subseteq OpenNow
    <3> SUFFICES ASSUME NEW r \in OpenNext PROVE r \in OpenNow
      OBVIOUS
    <3>1. status[r] # "none" /\ status[r] \in Pending
      BY <1>2, OnlyCreated DEF Pending
    <3>2. createdAt'[r] = createdAt[r]
      BY <3>1 DEF Onward
    <3>3. QED
      BY <1>t, <3>1, <3>2 DEF Deadline
  <2>3. OpenNow \subseteq Created
    BY DEF Pending
  <2>4. IsFiniteSet(CreatedNext) /\ IsFiniteSet(OpenNow)
    BY <1>i, <2>1, <2>3, FS_Subset
  <2>5. Cardinality(OpenNext) <= Cardinality(OpenNow) /\ IsFiniteSet(OpenNext)
    BY <2>2, <2>4, FS_Subset
  <2>6. Cardinality(OpenNext) \in Nat /\ Cardinality(OpenNow) \in Nat
    BY <2>4, <2>5, FS_CardinalityType
  <2>7. QED
    BY <1>i, <2>4, <2>5, <2>6
<1>3. QED
  BY <1>1, <1>2 DEF CreatedFinite, PendingBounded, Deadline

-----------------------------------------------------------------------------
(* The lease of the latest claim.                                          *)

LEMMA LeaseStep ==
  ASSUME TypeOK, TypeOK', RechargeInv, Onward, [Next]_vars
  PROVE  LeaseKept'
<1> SUFFICES ASSUME NEW w \in Workers, worker'[w].at # "idle",
                    Current(worker[w].recharge, worker[w].generation)'
             PROVE  leaseUntil'[worker'[w].recharge] # -1
  BY DEF LeaseKept
<1>t. RowTypeOK /\ worker \in [Workers -> WorkerStates]
  BY RowTypes DEF TypeOK, WorkerStates
<1>i. /\ worker[w].at # "idle" =>
            /\ worker[w].recharge \in Recharges
            /\ status[worker[w].recharge] # "none"
            /\ worker[w].generation <= generation[worker[w].recharge]
      /\ worker[w].at # "idle" /\ Current(worker[w].recharge, worker[w].generation)
            => leaseUntil[worker[w].recharge] # -1
  BY DEF RechargeInv, WorkerInv, LeaseKept
<1> DEFINE r == worker[w].recharge
           gen == worker[w].generation
\* The worker is where it was and its row has the same claim and lease.
<1>k. ASSUME worker[w].at # "idle", worker'[w].recharge = r, worker'[w].generation = gen,
             status'[r] \in Pending => status[r] \in Pending,
             generation'[r] = generation[r], leaseUntil'[r] = leaseUntil[r]
      PROVE  leaseUntil'[worker'[w].recharge] # -1
  BY <1>i, <1>k DEF Current
<1>1. ASSUME NEW v \in Workers, NEW q \in Recharges, NEW now \in ClockReadings,
             ClaimRechargeQuery(v, q, now)
      PROVE  leaseUntil'[worker'[w].recharge] # -1
  <2>1. /\ leaseUntil'[q] = now + Lease /\ generation'[q] = generation[q] + 1
        /\ \A p \in Recharges \ {q} : /\ leaseUntil'[p] = leaseUntil[p]
                                      /\ generation'[p] = generation[p]
        /\ UNCHANGED status
    BY <1>t, <1>1 DEF ClaimRechargeQuery, RowTypeOK
  <2>2. now \in Nat
    BY ReadingsType, <1>1 DEF TypeOK
  <2>3. CASE v = w
    <3>1. worker'[w].recharge = q
      BY <1>1, <1>t, <2>3 DEF ClaimRechargeQuery, Idle
    <3>2. QED
      BY <2>1, <2>2, <3>1
  <2>4. CASE v # w
    <3>1. worker'[w] = worker[w]
      BY <1>1, <1>t, <2>4 DEF ClaimRechargeQuery
    <3>2. CASE r = q
      <4>1. gen <= generation[q] /\ gen \in Int /\ generation[q] \in Int
        BY <1>i, <1>t, <3>1, <3>2 DEF WorkerStates, RowTypeOK
      <4>2. generation'[q] = gen
        BY <3>1, <3>2 DEF Current
      <4>3. QED
        BY <2>1, <4>1, <4>2
    <3>3. CASE r # q
      BY <1>i, <1>k, <2>1, <3>1, <3>3
    <3>4. QED
      BY <3>2, <3>3
  <2>5. QED
    BY <2>3, <2>4
<1>2. ASSUME NEW v \in Workers, Reconcile(v)
      PROVE  leaseUntil'[worker'[w].recharge] # -1
  <2>1. v # w
    BY <1>2, <1>t DEF Reconcile, Idle
  <2>2. worker'[w] = worker[w]
    BY <1>2, <1>t, <2>1 DEF Reconcile
  <2> DEFINE q == worker[v].recharge
             g == worker[v].generation
             at == worker[v].queriedAt
  <2>3. Written(v) /\ worker[v].at # "idle"
    BY <1>2, ReconcileWrites DEF Reconcile
  <2>4. q \in Recharges
    BY <2>3 DEF RechargeInv, WorkerInv
  <2>5. ~ (q = r /\ g = gen)
    BY <2>1, <2>2, <2>3 DEF RechargeInv, ClaimsDiffer
  <2>6. CASE Silent
    BY <1>k, <2>2, <2>6 DEF Silent, rowVars
  <2>7. CASE Current(q, g) /\ RecordRechargeQuery(q, g, at)
    <3>1. UNCHANGED <<status, generation>>
      BY <2>7 DEF RecordRechargeQuery
    <3>2. CASE q = r
      BY <2>2, <2>5, <2>7, <3>1, <3>2 DEF Current
    <3>3. CASE q # r
      BY <1>i, <1>k, <1>t, <2>2, <2>7, <3>1, <3>3 DEF RecordRechargeQuery, RowTypeOK
    <3>4. QED
      BY <3>2, <3>3
  <2>8. CASE Current(q, g) /\ FailRecharge(q, g, at)
    <3>1. CASE q = r
      BY <1>t, <2>2, <2>4, <2>8, <3>1 DEF FailRecharge, RowTypeOK, Current, Pending
    <3>2. CASE q # r
      BY <1>i, <1>k, <1>t, <2>2, <2>8, <3>2 DEF FailRecharge, RowTypeOK
    <3>3. QED
      BY <3>1, <3>2
  <2>9. CASE CreditRecharge(q, worker[v].trade, at)
    <3>1. CASE q = r
      BY <1>t, <2>2, <2>4, <2>9, <3>1 DEF CreditRecharge, RowTypeOK, Current, Pending
    <3>2. CASE q # r
      BY <1>i, <1>k, <1>t, <2>2, <2>9, <3>2 DEF CreditRecharge, RowTypeOK
    <3>3. QED
      BY <3>1, <3>2
  <2>10. QED
    BY <2>3, <2>6, <2>7, <2>8, <2>9 DEF Written
<1>3. ASSUME NEW now \in ClockReadings, ExpirePendingRecharges(now)
      PROVE  leaseUntil'[worker'[w].recharge] # -1
  <2>1. worker'[w] = worker[w] /\ r \in Recharges
    BY <1>i, <1>3 DEF ExpirePendingRecharges
  <2>2. CASE r \in Expired(now)
    BY <1>3, <2>1, <2>2 DEF ExpirePendingRecharges, Current, Pending
  <2>3. CASE r \notin Expired(now)
    BY <1>k, <1>3, <2>1, <2>3 DEF ExpirePendingRecharges
  <2>4. QED
    BY <2>2, <2>3
<1>4. ASSUME NEW q \in Recharges, NEW now \in ClockReadings,
             CreateRecharge(q, now) \/ NotifyCallback(q, now)
      PROVE  leaseUntil'[worker'[w].recharge] # -1
  <2>1. UNCHANGED <<worker, generation, leaseUntil>>
    BY <1>4 DEF CreateRecharge, NotifyCallback
  <2>2. status'[r] \in Pending => status[r] \in Pending
    BY <1>i, <1>t, <1>4, <2>1 DEF CreateRecharge, NotifyCallback, RowTypeOK, Pending
  <2>3. QED
    BY <1>k, <2>1, <2>2
<1>5. ASSUME NEW v \in Workers, Ask(v) \/ Crash(v)
      PROVE  leaseUntil'[worker'[w].recharge] # -1
  <2>1. UNCHANGED <<status, generation, leaseUntil>> /\ worker[v].at # "idle"
    BY <1>5 DEF Ask, Crash, rowVars
  <2>2. worker[w].at # "idle" /\ worker'[w].recharge = r /\ worker'[w].generation = gen
    <3>1. CASE Crash(v)
      BY <1>t, <2>1, <3>1 DEF Crash, Idle
    <3>2. CASE Ask(v)
      <4>1. PICK a \in {gateway[worker[v].recharge].state, "error"} :
               worker' = [worker EXCEPT ![v] =
                 [@ EXCEPT !.at = "answered", !.answer = a, !.queriedAt = time,
                           !.trade = IF a = "paid" THEN gateway[worker[v].recharge].trade
                                                   ELSE {}]]
        BY <3>2 DEF Ask
      <4>2. QED
        BY <1>t, <2>1, <4>1 DEF WorkerStates
    <3>3. QED
      BY <1>5, <3>1, <3>2
  <2>3. QED
    BY <1>k, <2>1, <2>2
<1>6. ASSUME UNCHANGED <<worker, status, generation, leaseUntil>>
      PROVE  leaseUntil'[worker'[w].recharge] # -1
  BY <1>k, <1>6
<1>7. QED
  BY <1>1, <1>2, <1>3, <1>4, <1>5, <1>6
     DEF Next, GatewayMoves, EnqueueDue, ClaimNothing, Tick, vars, rowVars

-----------------------------------------------------------------------------
(* The causes of an end.                                                   *)

FailedForCause(r) ==
    \/ gateway[r].state \in {"closed", "mismatch"}
    \/ Deadline(r) <= time
    \/ gateway[r].state = "paid" /\ ~TradeFree(r, gateway[r].trade)

CreditedForCause(r) == gateway[r].state = "paid" /\ tradeNo[r] = gateway[r].trade

\* A cause stays one.
LEMMA CausesStay ==
  ASSUME TypeOK, TypeOK', Onward, NEW r \in Recharges, RowInv(r), status[r] # "none"
  PROVE  /\ FailedForCause(r) => FailedForCause(r)'
         /\ CreditedForCause(r) => CreditedForCause(r)'
<1>1. /\ gateway[r].state # "unpaid" => gateway'[r] = gateway[r]
      /\ gateway[r].state = "paid" => gateway[r].trade # {}
      /\ \A q \in Recharges : tradeNo[q] # {} => tradeNo'[q] = tradeNo[q]
      /\ createdAt'[r] = createdAt[r] /\ time <= time'
  BY DEF Onward, RowInv
<1>2. ASSUME gateway[r].state = "paid", ~TradeFree(r, gateway[r].trade)
      PROVE  gateway'[r].state = "paid" /\ ~TradeFree(r, gateway[r].trade)'
  <2>1. PICK q \in Recharges \ {r} : Method(q) = Method(r) /\ tradeNo[q] = gateway[r].trade
    BY <1>2 DEF TradeFree
  <2>2. tradeNo'[q] = gateway'[r].trade /\ gateway'[r] = gateway[r]
    BY <1>1, <1>2, <2>1
  <2>3. Method(q)' = Method(r)'
    BY <2>1 DEF Method
  <2>4. QED
    BY <1>2, <2>1, <2>2, <2>3 DEF TradeFree
<1>3. Deadline(r) <= time => Deadline(r)' <= time'
  <2>1. createdAt[r] \in Int /\ time \in Int /\ time' \in Int
    BY DEF TypeOK
  <2>2. QED
    BY <1>1, <2>1 DEF Deadline
<1>4. FailedForCause(r) => FailedForCause(r)'
  BY <1>1, <1>2, <1>3 DEF FailedForCause
<1>5. CreditedForCause(r) => CreditedForCause(r)'
  BY <1>1 DEF CreditedForCause
<1>6. QED
  BY <1>4, <1>5

LEMMA EndedStep ==
  ASSUME TypeOK, TypeOK', RechargeInv, Onward, [Next]_vars
  PROVE  EndedForCause'
<1> SUFFICES ASSUME NEW r \in Recharges
             PROVE  /\ status'[r] = "failed" => FailedForCause(r)'
                    /\ status'[r] = "credited" => CreditedForCause(r)'
  BY DEF EndedForCause, FailedForCause, CreditedForCause
<1>t. RowTypeOK /\ time \in Int
  BY RowTypes DEF TypeOK
<1>i. /\ RowInv(r)
      /\ status[r] = "failed" => FailedForCause(r)
      /\ status[r] = "credited" => CreditedForCause(r)
  BY DEF RechargeInv, EndedForCause, FailedForCause, CreditedForCause
<1>c. status[r] # "none" => /\ FailedForCause(r) => FailedForCause(r)'
                            /\ CreditedForCause(r) => CreditedForCause(r)'
  BY <1>i, CausesStay
<1>k. ASSUME status'[r] \notin Ends \/ status'[r] = status[r]
      PROVE  /\ status'[r] = "failed" => FailedForCause(r)'
             /\ status'[r] = "credited" => CreditedForCause(r)'
  BY <1>i, <1>c, <1>k DEF Ends
<1>1. ASSUME NEW now \in ClockReadings, ExpirePendingRecharges(now), r \in Expired(now)
      PROVE  status'[r] = "failed" /\ FailedForCause(r)'
  <2>1. status'[r] = "failed" /\ status[r] # "none"
    BY <1>1 DEF ExpirePendingRecharges, Expired, Pending
  <2>2. Deadline(r) <= now /\ now <= time /\ now \in Int /\ Deadline(r) \in Int
    BY <1>1, <1>t, ReadingsType DEF Expired, Deadline, RowTypeOK
  <2>3. FailedForCause(r)
    BY <1>t, <2>2 DEF FailedForCause
  <2>4. QED
    BY <1>c, <2>1, <2>3
<1>2. ASSUME NEW w \in Workers, Reconcile(w)
      PROVE  /\ status'[r] = "failed" => FailedForCause(r)'
             /\ status'[r] = "credited" => CreditedForCause(r)'
  <2> DEFINE k == worker[w]
             q == k.recharge
  <2>1. Written(w) /\ UNCHANGED gateway
    BY <1>2, ReconcileWrites DEF Reconcile
  <2>2. /\ q \in Recharges /\ status[q] # "none"
        /\ k.queriedAt <= time /\ k.queriedAt \in Int
        /\ k.answer \in {"paid", "closed", "mismatch"} => gateway[q].state = k.answer
        /\ k.answer = "paid" => k.trade = gateway[q].trade
    BY <1>2 DEF Reconcile, RechargeInv, WorkerInv, TypeOK
  <2>3. CASE q # r
    <3>1. status'[r] = status[r]
      BY <1>t, <2>1, <2>3
         DEF Written, Silent, RecordRechargeQuery, FailRecharge, CreditRecharge, RowTypeOK,
             rowVars
    <3>2. QED
      BY <1>k, <3>1
  <2>4. CASE q = r /\ (Silent \/ RecordRechargeQuery(q, k.generation, k.queriedAt))
    BY <1>k, <2>4 DEF Silent, RecordRechargeQuery, rowVars
  <2>5. CASE /\ q = r
             /\ FailRecharge(q, k.generation, k.queriedAt) /\ Current(q, k.generation)
             /\ \/ Negative(k.answer, Deadline(q) <= k.queriedAt)
                \/ k.answer = "paid" /\ ~TradeFree(q, k.trade)
    <3>1. status'[r] = "failed"
      BY <1>t, <2>5 DEF FailRecharge, RowTypeOK
    <3>2. FailedForCause(r)
      <4>1. Deadline(q) <= k.queriedAt => Deadline(q) <= time
        BY <1>t, <2>2 DEF Deadline, RowTypeOK
      <4>2. QED
        BY <2>2, <2>5, <4>1 DEF FailedForCause, Negative
    <3>3. QED
      BY <1>c, <2>2, <2>5, <3>1, <3>2
  <2>6. CASE q = r /\ k.answer = "paid" /\ CreditRecharge(q, k.trade, k.queriedAt)
    <3>1. status'[r] = "credited" /\ tradeNo'[r] = k.trade
      BY <1>t, <2>2, <2>6 DEF CreditRecharge, RowTypeOK
    <3>2. QED
      BY <2>1, <2>2, <2>6, <3>1 DEF CreditedForCause
  <2>7. QED
    BY <2>1, <2>3, <2>4, <2>5, <2>6 DEF Written
<1>3. ASSUME NEW now \in ClockReadings, ExpirePendingRecharges(now), r \notin Expired(now)
      PROVE  status'[r] = status[r]
  BY <1>3 DEF ExpirePendingRecharges
<1>4. ASSUME NEW q \in Recharges, NEW now \in ClockReadings,
             CreateRecharge(q, now) \/ NotifyCallback(q, now)
      PROVE  status'[r] \notin Ends \/ status'[r] = status[r]
  BY <1>t, <1>4 DEF CreateRecharge, NotifyCallback, RowTypeOK, Ends
<1>5. QED
  BY <1>k, <1>1, <1>2, <1>3, <1>4
     DEF Next, GatewayMoves, EnqueueDue, ClaimRechargeQuery, ClaimNothing, Ask, Crash, Tick,
         vars, rowVars

-----------------------------------------------------------------------------
(* The invariant and what follows from it.                                 *)

LEMMA InitRechargeInv == Init => RechargeInv
<1> SUFFICES ASSUME Init
             PROVE  RechargeInv
  OBVIOUS
<1>1. {r \in Recharges : status[r] # "none"} = {}
      /\ {r \in Recharges : status[r] \in Pending /\ time < Deadline(r)} = {}
  BY DEF Init, Pending
<1>2. CreatedFinite /\ PendingBounded
  BY <1>1, FS_EmptySet DEF CreatedFinite, PendingBounded
<1>3. (\A w \in Workers : WorkerInv(w)) /\ ClaimsDiffer /\ LeaseKept
  BY DEF Init, WorkerInv, ClaimsDiffer, LeaseKept, Idle
<1>4. (\A r \in Recharges : RowInv(r)) /\ EndedForCause
  BY DEF Init, RowInv, EndedForCause
<1>5. QED
  BY <1>2, <1>3, <1>4 DEF RechargeInv

LEMMA RechargeInvStep == TypeOK /\ TypeOK' /\ RechargeInv /\ [Next]_vars => RechargeInv'
<1> SUFFICES ASSUME TypeOK, TypeOK', RechargeInv, [Next]_vars
             PROVE  RechargeInv'
  OBVIOUS
<1>1. Onward
  BY StepOnward
<1>2. (\A r \in Recharges : RowInv(r))'
  BY <1>1, RowsStep
<1>3. QED
  BY <1>1, <1>2, WorkersStep, CountStep, LeaseStep, EndedStep DEF RechargeInv

LEMMA RechargeInvariant == Spec => [](TypeOK /\ RechargeInv)
<1>1. RechargeInv => Busy
  BY DEF RechargeInv, WorkerInv, Busy
<1>2. QED
  BY <1>1, InitTypeOK, InitRechargeInv, TypeStep, RechargeInvStep, PTL DEF Spec

\* Every row, task and worker has its type; a worker's clock readings and
\* what it keeps between two statements included.
THEOREM RechargeTypeCorrect == Spec => []TypeOK
  BY RechargeInvariant, PTL

\* The lease of the latest claim of a pending recharge stays until its worker
\* has written its answer or is lost, for any number of workers, although
\* callbacks and answers of earlier claims are written meanwhile.
THEOREM LeaseKeptCorrect == Spec => []LeaseKept
<1>1. RechargeInv => LeaseKept
  BY DEF RechargeInv
<1>2. QED
  BY <1>1, RechargeInvariant, PTL

\* Nothing but the gateway's word, its trade being taken, or the window's end
\* fails a recharge, and nothing but its own payment credits it.
THEOREM EndedForCauseCorrect == Spec => []EndedForCause
<1>1. RechargeInv => EndedForCause
  BY DEF RechargeInv
<1>2. QED
  BY <1>1, RechargeInvariant, PTL

\* However old the clock by which pending recharges are counted, a user has
\* never more of them in their window than allowed.
THEOREM PendingBoundedCorrect == Spec => []PendingBounded
<1>1. RechargeInv => PendingBounded
  BY DEF RechargeInv
<1>2. QED
  BY <1>1, RechargeInvariant, PTL

\* What a worker heard in time and lives to write is credited, unless another
\* recharge was credited by the same trade, although the dispatcher may have
\* failed the recharge and other workers may have claimed it since.
THEOREM AnswerCountsCorrect == Spec => AnswerCounts
<1>1. ASSUME TypeOK, RechargeInv, [Next]_vars, NEW w \in Workers,
             worker[w].answer = "paid",
             worker[w].queriedAt < Deadline(worker[w].recharge),
             worker'[w].at = "idle", crashes' = crashes
      PROVE  \/ /\ status'[worker[w].recharge] = "credited"
                /\ worker[w].recharge \in ledger'
             \/ ~TradeFree(worker[w].recharge, worker[w].trade)
  <2> DEFINE r == worker[w].recharge
             at == worker[w].queriedAt
  <2>t. RowTypeOK /\ worker \in [Workers -> WorkerStates] /\ crashes \in Int
    BY <1>1, RowTypes DEF TypeOK, WorkerStates
  <2>a. worker[w].at = "answered"
    BY <1>1 DEF RechargeInv, WorkerInv
  <2>r. r \in Recharges /\ status[r] # "none" /\ (status[r] = "credited" <=> r \in ledger)
    BY <1>1, <2>a DEF RechargeInv, WorkerInv, RowInv
  <2>1. Reconcile(w)
    <3>1. worker'[w] # worker[w]
      BY <1>1, <2>a
    <3>2. ASSUME NEW v \in Workers, v # w, Reconcile(v) \/ Ask(v)
          PROVE  FALSE
      BY <2>t, <3>1, <3>2 DEF Reconcile, Ask
    <3>3. ASSUME NEW v \in Workers, NEW q \in Recharges, NEW now \in ClockReadings,
                 ClaimRechargeQuery(v, q, now)
          PROVE  FALSE
      BY <2>t, <2>a, <3>1, <3>3 DEF ClaimRechargeQuery
    <3>4. ASSUME NEW v \in Workers, Crash(v)
          PROVE  FALSE
      BY <1>1, <2>t, <3>4 DEF Crash
    <3>5. ~Ask(w)
      BY <2>a DEF Ask
    <3>6. QED
      BY <1>1, <3>1, <3>2, <3>3, <3>4, <3>5
         DEF Next, GatewayMoves, CreateRecharge, NotifyCallback, ExpirePendingRecharges,
             EnqueueDue, ClaimNothing, Tick, vars
  <2>2. ~Negative(worker[w].answer, Deadline(r) <= at)
    <3>1. at \in Int /\ Deadline(r) \in Int
      BY <2>t, <2>r DEF Deadline, RowTypeOK, WorkerStates
    <3>2. QED
      BY <1>1, <3>1 DEF Negative
  <2>3. CASE ~Creditable(r, at)
    <3>1. status[r] = "credited"
      BY <1>1, <2>t, <2>r, <2>3 DEF Creditable, RowTypeOK, Statuses, Ends
    <3>2. UNCHANGED <<rowVars, moneyVars>>
      BY <1>1, <2>1, <2>2, <2>3 DEF Reconcile
    <3>3. QED
      BY <2>r, <3>1, <3>2 DEF rowVars, moneyVars
  <2>4. CASE Creditable(r, at) /\ TradeFree(r, worker[w].trade)
    <3>1. CreditRecharge(r, worker[w].trade, at)
      BY <1>1, <2>1, <2>2, <2>4 DEF Reconcile
    <3>2. QED
      BY <2>t, <2>r, <3>1 DEF CreditRecharge, RowTypeOK
  <2>5. QED
    BY <2>3, <2>4
<1>2. TypeOK /\ RechargeInv /\ [Next]_vars =>
        [\A w \in Workers :
            LET r == worker[w].recharge IN
            /\ worker[w].answer = "paid"
            /\ worker[w].queriedAt < Deadline(r)
            /\ worker'[w].at = "idle"
            /\ crashes' = crashes
            => \/ status'[r] = "credited" /\ r \in ledger'
               \/ ~TradeFree(r, worker[w].trade)]_vars
  BY <1>1
<1>3. QED
  BY <1>2, RechargeInvariant, PTL DEF Spec, AnswerCounts

-----------------------------------------------------------------------------
(* The refinement of RechargeContract.                                     *)

Outcome == [r \in Recharges |-> IF status[r] \in Pending THEN "open" ELSE status[r]]
Used == {<<Method(r), tradeNo[r]>> : r \in ledger}

LEMMA InitContract == Init => Contract!Init
  BY DEF Init, Contract!Init, Pending

LEMMA WrittenMaps ==
  ASSUME TypeOK, RechargeInv, NEW w \in Workers, worker[w].at = "answered", Written(w)
  PROVE  [Contract!Next]_(Contract!contractVars)
<1> DEFINE k == worker[w]
           r == k.recharge
<1>t. RowTypeOK /\ k.trade \in SUBSET Trades
  BY RowTypes DEF TypeOK
<1>r. r \in Recharges /\ status[r] # "none"
  BY DEF RechargeInv, WorkerInv
<1>i. \A q \in Recharges : status[q] = "credited" <=> q \in ledger
  BY DEF RechargeInv, RowInv
<1>1. CASE Silent \/ RecordRechargeQuery(r, k.generation, k.queriedAt)
  <2>1. UNCHANGED <<status, tradeNo, ledger, wallet>>
    BY <1>1 DEF Silent, RecordRechargeQuery, rowVars, moneyVars
  <2>2. Outcome' = Outcome /\ Used' = Used
    BY <2>1 DEF Outcome, Used, Method
  <2>3. QED
    BY <2>1, <2>2 DEF Outcome, Used, Contract!contractVars
<1>2. CASE Current(r, k.generation) /\ FailRecharge(r, k.generation, k.queriedAt)
  <2>1. status' = [status EXCEPT ![r] = "failed"] /\ UNCHANGED <<tradeNo, ledger, wallet>>
    BY <1>2 DEF FailRecharge, moneyVars
  <2>2. Used' = Used
    BY <2>1 DEF Used, Method
  <2>3. Outcome[r] = "open"
    BY <1>2, <1>r DEF Outcome, Current
  <2>4. Outcome' = [q \in Recharges |-> IF q \in {r} THEN "failed" ELSE Outcome[q]]
    BY <1>t, <2>1 DEF Outcome, RowTypeOK, Pending
  <2>5. ASSUME NEW R \in SUBSET Recharges, R = {r}
        PROVE  Contract!Fail(R)
    BY <2>1, <2>2, <2>3, <2>4, <2>5 DEF Outcome, Used, Contract!Fail
  <2>6. \E R \in SUBSET Recharges : Contract!Fail(R)
    <3>1. {r} \in SUBSET Recharges
      BY <1>r
    <3>2. QED
      BY <2>5, <3>1, Zenon
  <2>7. QED
    BY <2>6 DEF Contract!Next
<1>3. CASE /\ Creditable(r, k.queriedAt) /\ TradeFree(r, k.trade)
           /\ CreditRecharge(r, k.trade, k.queriedAt)
  <2> DEFINE p == <<Method(r), k.trade>>
  <2>1. /\ status' = [status EXCEPT ![r] = "credited"]
        /\ tradeNo' = [tradeNo EXCEPT ![r] = k.trade]
        /\ ledger' = ledger \cup {r} /\ wallet' = wallet + Quota
    BY <1>3 DEF CreditRecharge
  <2>2. p \in {"epay", "epusdt"} \X SUBSET Trades
    BY <1>t DEF Method
  <2>3. r \notin ledger /\ Outcome[r] \in {"open", "failed"}
    BY <1>3, <1>r, <1>i DEF Creditable, Pending, Outcome
  <2>4. p \notin Used
    BY <1>3, <1>t, <2>3 DEF TradeFree, Used, RowTypeOK
  <2>5. Outcome' = [Outcome EXCEPT ![r] = "credited"]
    BY <1>t, <2>1 DEF Outcome, RowTypeOK, Pending
  <2>6. Used' = Used \cup {p}
    <3>1. tradeNo'[r] = k.trade /\ \A q \in ledger : tradeNo'[q] = tradeNo[q]
      BY <1>t, <1>r, <2>1, <2>3 DEF RowTypeOK
    <3>2. QED
      BY <2>1, <3>1 DEF Used, Method
  <2>7. ASSUME NEW q \in Recharges, q = r,
               NEW c \in {"epay", "epusdt"} \X SUBSET Trades, c = p
        PROVE  Contract!Credit(q, c)
    BY <2>1, <2>3, <2>4, <2>5, <2>6, <2>7 DEF Outcome, Used, Contract!Credit
  <2>8. \E q \in Recharges, c \in {"epay", "epusdt"} \X SUBSET Trades : Contract!Credit(q, c)
    BY <1>r, <2>2, <2>7, Zenon
  <2>9. QED
    BY <2>8 DEF Contract!Next
<1>4. QED
  BY <1>1, <1>2, <1>3 DEF Written

LEMMA StepMaps == TypeOK /\ RechargeInv /\ [Next]_vars => [Contract!Next]_(Contract!contractVars)
<1> SUFFICES ASSUME TypeOK, RechargeInv, [Next]_vars
             PROVE  [Contract!Next]_(Contract!contractVars)
  OBVIOUS
<1>t. RowTypeOK
  BY RowTypes
<1>k. ASSUME Outcome' = Outcome, UNCHANGED <<tradeNo, ledger, wallet>>
      PROVE  UNCHANGED Contract!contractVars
  <2>1. Used' = Used
    BY <1>k DEF Used, Method
  <2>2. QED
    BY <1>k, <2>1 DEF Outcome, Used, Contract!contractVars
<1>1. ASSUME NEW r \in Recharges, NEW now \in ClockReadings, CreateRecharge(r, now)
      PROVE  Contract!Next
  <2>1. /\ status[r] = "none" /\ status' = [status EXCEPT ![r] = "paying"]
        /\ UNCHANGED <<tradeNo, ledger, wallet>>
    BY <1>1 DEF CreateRecharge, moneyVars
  <2>2. Used' = Used
    BY <2>1 DEF Used, Method
  <2>3. Outcome[r] = "none" /\ Outcome' = [Outcome EXCEPT ![r] = "open"]
    BY <1>t, <2>1 DEF Outcome, RowTypeOK, Pending
  <2>4. QED
    BY <2>1, <2>2, <2>3 DEF Outcome, Used, Contract!Open, Contract!Next
<1>2. ASSUME NEW r \in Recharges, NEW now \in ClockReadings, NotifyCallback(r, now)
      PROVE  UNCHANGED Contract!contractVars
  <2>1. status[r] = "paying" /\ status' = [status EXCEPT ![r] = "callback"]
    BY <1>2 DEF NotifyCallback
  <2>2. Outcome' = Outcome
    BY <1>t, <2>1 DEF Outcome, RowTypeOK, Pending
  <2>3. QED
    BY <1>2, <1>k, <2>2 DEF NotifyCallback, moneyVars
<1>3. ASSUME NEW now \in ClockReadings, ExpirePendingRecharges(now)
      PROVE  Contract!Next
  <2>1. /\ status' = [r \in Recharges |-> IF r \in Expired(now) THEN "failed" ELSE status[r]]
        /\ UNCHANGED <<tradeNo, ledger, wallet>>
    BY <1>3 DEF ExpirePendingRecharges, moneyVars
  <2>2. Used' = Used
    BY <2>1 DEF Used, Method
  <2>3. \A r \in Expired(now) : Outcome[r] = "open"
    BY DEF Outcome, Expired
  <2>4. Outcome' = [r \in Recharges |-> IF r \in Expired(now) THEN "failed" ELSE Outcome[r]]
    BY <2>1 DEF Outcome, Pending
  <2>5. ASSUME NEW R \in SUBSET Recharges, R = Expired(now)
        PROVE  Contract!Fail(R)
    BY <2>1, <2>2, <2>3, <2>4, <2>5 DEF Outcome, Used, Contract!Fail
  <2>6. Expired(now) \in SUBSET Recharges
    BY DEF Expired
  <2>7. \E R \in SUBSET Recharges : Contract!Fail(R)
    BY <2>5, <2>6, Zenon
  <2>8. QED
    BY <2>7 DEF Contract!Next
<1>4. ASSUME NEW w \in Workers, Reconcile(w)
      PROVE  [Contract!Next]_(Contract!contractVars)
  BY <1>4, ReconcileWrites, WrittenMaps DEF Reconcile
<1>5. ASSUME \/ \E r \in Recharges : GatewayMoves(r)
             \/ \E now \in ClockReadings : EnqueueDue(now)
             \/ \E w \in Workers, r \in Recharges, now \in ClockReadings :
                   ClaimNothing(w, r, now) \/ ClaimRechargeQuery(w, r, now)
             \/ \E w \in Workers : Ask(w) \/ Crash(w)
             \/ Tick \/ UNCHANGED vars
      PROVE  UNCHANGED Contract!contractVars
  <2>1. UNCHANGED <<status, tradeNo, ledger, wallet>>
    BY <1>5 DEF GatewayMoves, EnqueueDue, ClaimNothing, ClaimRechargeQuery, Ask, Crash, Tick,
                vars, rowVars, moneyVars
  <2>2. Outcome' = Outcome
    BY <2>1 DEF Outcome
  <2>3. QED
    BY <1>k, <2>1, <2>2
<1>6. QED
  BY <1>1, <1>2, <1>3, <1>4, <1>5 DEF Next

\* Every statement of the code is one step of the contract or none: whatever
\* callbacks, leases and late answers do, each recharge is credited at most
\* once, and no payment credits two.
THEOREM RechargeImplementsContract == Spec => ImplementsContract
  BY InitContract, StepMaps, RechargeInvariant, PTL DEF Spec, ImplementsContract, Contract!Spec

=============================================================================
