------------------------------ MODULE Lottery ------------------------------
(***************************************************************************)
(* Lotteries: users enter, a worker claims the draw once its time has come *)
(* or enough have entered, ranks the entries by what their users won and   *)
(* paid before, splits the pool and credits the wallets.                   *)
(*                                                                         *)
(* The claim is a transaction of its own.  The draw is one transaction, in *)
(* three actions here where its locks can make it wait: the lottery's row  *)
(* and then those of the users entered, the wallets it pays, and the end   *)
(* of all of them.  Credits of paid points (a recharge, a card) take the   *)
(* same locks in the opposite order, and the database breaks the deadlock. *)
(* Workers may stop between two actions; nothing the draw has written is   *)
(* left then.                                                              *)
(***************************************************************************)
EXTENDS LotteryAllocation, SequencesExt

CONSTANTS
    Users,
    Lotteries,
    Workers,
    NoLottery,      \* what an idle worker works on
    NoUser,         \* nobody's points are being credited
    RulesOf,        \* the rule sets a lottery may be created with
    MaxEntries,     \* entries no lottery may exceed
    PaidPoints,     \* points of one recharge or card
    MaxCredits,     \* bound on the credits of paid points
    ClockLag,       \* bound on the age of a clock reading
    MaxTime,        \* bound on the clock
    MaxCrashes      \* bound on the workers that stop at work

\* drawAt -1 stands for a draw without time, target 0 for one without target,
\* increment 0 for a pool of fixed size.
Rules == [start : Nat, increment : Nat, min : Nat, max : Nat, normal : Nat,
          lucky : Nat, drawAt : Nat \cup {-1}, target : Nat]

\* The entries a lottery accepts: its target, else as many as its pool can
\* give the minimum to; a growing pool has no such bound.
MaxParticipants(r) ==
    IF r.target > 0 THEN r.target
    ELSE IF r.increment > 0 THEN MaxEntries
    ELSE Min({r.start \div r.min, MaxEntries})

validateRules(r) ==
    /\ r.start > 0 /\ r.min > 0 /\ r.min < r.max
    /\ r.normal + r.lucky <= MaxEntries
    /\ r.drawAt # -1 \/ r.target > 0
    /\ IF r.target > 0
       THEN r.target <= MaxEntries /\ FitsPool(r.target, r.start, r)
       ELSE /\ r.start >= r.min
            /\ r.increment = 0 =>
                  \E n \in Max({r.normal + r.lucky, 1})..MaxParticipants(r) :
                      FitsPool(n, r.start, r)

ASSUME LotteryAssumption ==
    /\ NoLottery \notin Lotteries
    /\ NoUser \notin Users
    /\ PaidPoints \in Nat
    /\ MaxEntries \in Nat /\ MaxCredits \in Nat /\ MaxTime \in Nat /\ MaxCrashes \in Nat
    /\ \A l \in Lotteries : \A r \in RulesOf[l] : r \in Rules /\ validateRules(r)

VARIABLES
    rules,       \* the rules of a lottery
    status,      \* lotteries.status, "none" before the lottery exists
    entrants,    \* lottery_entries
    total,       \* lotteries.total_amount
    reachedAt,   \* lotteries.target_reached_at, -1 for NULL
    trigger,     \* lotteries.triggered_by
    payouts,     \* lottery_payouts: tier and amount by user
    wallet,      \* consumer_balance
    paid,        \* points a user has paid for, part of the wallet
    crediting,   \* user whose wallet is locked for paid points
    credits,     \* how many of those there were
    tasks,       \* lotteries with a task in the queue
    worker,      \* what every worker is at
    time,
    crashes

lotteryVars == <<rules, status, entrants, total, reachedAt, trigger, payouts>>
moneyVars == <<wallet, paid, crediting, credits>>
vars == <<lotteryVars, moneyVars, tasks, worker, time, crashes>>

Idle == [at |-> "idle", lottery |-> NoLottery, ranking |-> <<>>]
Tasked(l) == [Idle EXCEPT !.at = "claimed", !.lottery = l]

TypeOK ==
    /\ \A l \in Lotteries : rules[l] \in RulesOf[l]
    /\ status \in [Lotteries ->
          {"none", "open", "settling", "completed", "cancelled"}]
    /\ entrants \in [Lotteries -> SUBSET Users]
    /\ total \in [Lotteries -> Nat]
    /\ reachedAt \in [Lotteries -> -1..MaxTime]
    /\ trigger \in [Lotteries -> {"none", "time", "participants"}]
    /\ \A l \in Lotteries : DOMAIN payouts[l] \subseteq entrants[l]
    /\ wallet \in [Users -> Nat] /\ paid \in [Users -> Nat]
    /\ crediting \in Users \cup {NoUser} /\ credits \in 0..MaxCredits
    /\ tasks \subseteq Lotteries
    /\ \A w \in Workers :
          /\ worker[w].at \in {"idle", "claimed", "ranked"}
          /\ worker[w].lottery \in Lotteries \cup {NoLottery}
    /\ time \in 0..MaxTime /\ crashes \in 0..MaxCrashes

Init ==
    /\ rules \in {f \in [Lotteries -> UNION {RulesOf[l] : l \in Lotteries}] :
                     \A l \in Lotteries : f[l] \in RulesOf[l]}
    /\ status = [l \in Lotteries |-> "none"]
    /\ entrants = [l \in Lotteries |-> {}]
    /\ total = [l \in Lotteries |-> 0]
    /\ reachedAt = [l \in Lotteries |-> -1]
    /\ trigger = [l \in Lotteries |-> "none"]
    /\ payouts = [l \in Lotteries |-> <<>>]
    /\ wallet = [u \in Users |-> 0]
    /\ paid = [u \in Users |-> 0]
    /\ crediting = NoUser
    /\ credits = 0
    /\ tasks = {}
    /\ worker = [w \in Workers |-> Idle]
    /\ time = 0
    /\ crashes = 0

-----------------------------------------------------------------------------
(* Creation and entry.                                                     *)

Reached(now, l) == rules[l].drawAt # -1 /\ rules[l].drawAt <= now

Full(l) == rules[l].target > 0 /\ Cardinality(entrants[l]) >= rules[l].target

\* The task for the time of the draw is delivered then, by DispatchDue at the
\* latest, so that the one Create enqueues is not modelled.
Create(l) ==
    /\ status[l] = "none"
    /\ ~Reached(time, l)
    /\ status' = [status EXCEPT ![l] = "open"]
    /\ total' = [total EXCEPT ![l] = rules[l].start]
    /\ UNCHANGED <<rules, entrants, reachedAt, trigger, payouts, moneyVars,
                   tasks, worker, time, crashes>>

\* Faulty form: the pool grows by the entries before this one.
PoolBehind(l, count) ==
    IF count = 1 \/ rules[l].increment = 0 THEN total[l]
    ELSE rules[l].start + rules[l].increment * (count - 1)

\* A growing pool is computed anew from the number of entries.
Pool(l, count) ==
    IF rules[l].increment = 0 THEN total[l]
    ELSE rules[l].start + rules[l].increment * count

\* The lottery's row is locked before the clock is read.  The entry that
\* fills the lottery has its draw enqueued, unless that fails.
AddEntry(l, u) ==
    LET count == Cardinality(entrants[l]) + 1
        fills == rules[l].target > 0 /\ count >= rules[l].target
    IN
    /\ status[l] = "open"
    /\ u \notin entrants[l]
    /\ ~Reached(time, l)
    /\ ~Full(l)
    /\ count <= MaxParticipants(rules[l])
    /\ entrants' = [entrants EXCEPT ![l] = @ \cup {u}]
    /\ total' = [total EXCEPT ![l] = Pool(l, count)]
    /\ reachedAt' = [reachedAt EXCEPT ![l] = IF fills /\ @ = -1 THEN time ELSE @]
    /\ tasks' \in IF fills THEN {tasks, tasks \cup {l}} ELSE {tasks}
    /\ UNCHANGED <<rules, status, trigger, payouts, moneyVars, worker, time,
                   crashes>>

-----------------------------------------------------------------------------
(* The claim.                                                              *)

Due(now, l) == Reached(now, l) \/ Full(l)

\* Faulty form: a draw claimed after its time came by its time.
TriggerByClock(now, l) ==
    IF Full(l) /\ ~Reached(now, l) THEN "participants" ELSE "time"

TriggerOf(now, l) ==
    IF /\ Full(l)
       /\ \/ ~Reached(now, l)
          \/ reachedAt[l] # -1 /\ reachedAt[l] <= rules[l].drawAt
    THEN "participants"
    ELSE "time"

\* The clock is read before the lottery's row is locked.
ClaimSettlement(w, l, now) ==
    /\ worker[w].at = "idle"
    /\ l \in tasks
    /\ status[l] = "open"
    /\ Due(now, l)
    /\ status' = [status EXCEPT ![l] = "settling"]
    /\ trigger' = [trigger EXCEPT ![l] = TriggerOf(now, l)]
    /\ worker' = [worker EXCEPT ![w] = Tasked(l)]
    /\ UNCHANGED <<rules, entrants, total, reachedAt, payouts, moneyVars, tasks,
                   time, crashes>>

\* A draw claimed before is taken up again.
Resume(w, l) ==
    /\ worker[w].at = "idle"
    /\ l \in tasks
    /\ status[l] = "settling"
    /\ worker' = [worker EXCEPT ![w] = Tasked(l)]
    /\ UNCHANGED <<lotteryVars, moneyVars, tasks, time, crashes>>

\* The task is done when the draw is not due or is over.
NothingToDraw(w, l, now) ==
    /\ worker[w].at = "idle"
    /\ l \in tasks
    /\ \/ status[l] = "open" /\ ~Due(now, l)
       \/ status[l] \in {"completed", "cancelled"}
    /\ tasks' = tasks \ {l}
    /\ UNCHANGED <<lotteryVars, moneyVars, worker, time, crashes>>

-----------------------------------------------------------------------------
(* The draw.                                                               *)

Won(u, tier) ==
    Cardinality({l \in Lotteries : /\ status[l] = "completed"
                                   /\ u \in DOMAIN payouts[l]
                                   /\ payouts[l][u].tier = tier})

\* Points paid for count for a user, points given to the user against.
Given(u) == wallet[u] - paid[u]

\* A hundred times the score, so that it is an integer.
winnerHistoryScore(u) ==
    Max({0, 100000 - 50000 * Won(u, "lucky") - 10000 * Won(u, "normal")
              + 5000 * Won(u, "consolation") + paid[u] - Given(u)})

\* Equal scores are shuffled.
Rankings(U) ==
    LET score == [u \in U |-> winnerHistoryScore(u)] IN
    {s \in SetToSeqs(U) :
        \A i, j \in DOMAIN s : i < j => score[s[i]] >= score[s[j]]}

\* Whose draw holds the row of a lottery and those of the users entered.
HoldsLottery(l) == \E w \in Workers : worker[w].at = "ranked" /\ worker[w].lottery = l

\* Faulty form: the users' rows are not locked.
UserUnlocked(u) == TRUE

UserFree(u) ==
    \A w \in Workers : worker[w].at = "ranked" => u \notin entrants[worker[w].lottery]

\* Locks the lottery's row and the users', then reads what they won before.
Rank(w) ==
    LET l == worker[w].lottery IN
    /\ worker[w].at = "claimed"
    /\ ~HoldsLottery(l)
    /\ status[l] = "settling"
    /\ entrants[l] # {}
    /\ \A u \in entrants[l] : UserFree(u)
    /\ UNCHANGED <<lotteryVars, moneyVars, tasks, time, crashes>>
    /\ \E s \in Rankings(entrants[l]) :
          worker' = [worker EXCEPT ![w] = [@ EXCEPT !.at = "ranked", !.ranking = s]]

\* What the draw can come to.  The ledger refuses awards that are negative or
\* do not sum up to the pool.
AllocationsOf(l) ==
    {a \in Allocations(Cardinality(entrants[l]), total[l], rules[l], trigger[l] = "time") :
        /\ \A i \in DOMAIN a : a[i].amount \in Nat
        /\ SumFunction([i \in DOMAIN a |-> a[i].amount]) = total[l]}

\* Payouts as saved; an even split may leave some entries with nothing.
Payouts(s, a) ==
    [u \in {s[i] : i \in {j \in DOMAIN s : a[j].amount > 0}} |->
        a[CHOOSE i \in DOMAIN s : s[i] = u]]

\* Locks the wallets and commits payouts, ledger and the end of the lottery.
Settle(w) ==
    LET l == worker[w].lottery
        s == worker[w].ranking
    IN
    /\ worker[w].at = "ranked"
    /\ worker' = [worker EXCEPT ![w] = Idle]
    /\ tasks' = tasks \ {l}
    /\ status' = [status EXCEPT ![l] = "completed"]
    /\ UNCHANGED <<rules, entrants, total, reachedAt, trigger, paid, crediting,
                   credits, time, crashes>>
    /\ \E a \in AllocationsOf(l) :
          LET p == Payouts(s, a) IN
          /\ crediting \notin DOMAIN p
          /\ payouts' = [payouts EXCEPT ![l] = p]
          /\ wallet' = [u \in Users |->
                IF u \in DOMAIN p THEN wallet[u] + p[u].amount ELSE wallet[u]]

\* Nobody entered: the pool stays with the system.
CancelEmpty(w) ==
    LET l == worker[w].lottery IN
    /\ worker[w].at = "claimed"
    /\ status[l] = "settling"
    /\ entrants[l] = {}
    /\ status' = [status EXCEPT ![l] = "cancelled"]
    /\ worker' = [worker EXCEPT ![w] = Idle]
    /\ tasks' = tasks \ {l}
    /\ UNCHANGED <<rules, entrants, total, reachedAt, trigger, payouts,
                   moneyVars, time, crashes>>

\* Another worker has drawn the lottery meanwhile.
AlreadyDrawn(w) ==
    LET l == worker[w].lottery IN
    /\ worker[w].at = "claimed"
    /\ status[l] # "settling"
    /\ worker' = [worker EXCEPT ![w] = Idle]
    /\ tasks' = tasks \ {l}
    /\ UNCHANGED <<lotteryVars, moneyVars, time, crashes>>

-----------------------------------------------------------------------------
(* Points paid for, and the database's choice between it and a draw.       *)

\* Locks the wallet, until the user's row is locked too.
BeginCredit(u) ==
    /\ crediting = NoUser
    /\ credits < MaxCredits
    /\ crediting' = u
    /\ credits' = credits + 1
    /\ UNCHANGED <<lotteryVars, wallet, paid, tasks, worker, time, crashes>>

FinishCredit ==
    /\ crediting # NoUser
    /\ UserFree(crediting)
    /\ wallet' = [wallet EXCEPT ![crediting] = @ + PaidPoints]
    /\ paid' = [paid EXCEPT ![crediting] = @ + PaidPoints]
    /\ crediting' = NoUser
    /\ UNCHANGED <<lotteryVars, credits, tasks, worker, time, crashes>>

Deadlocked(w) ==
    worker[w].at = "ranked" /\ crediting \in entrants[worker[w].lottery]

\* The draw is rolled back and its task retried, or the credit is.
BreakDeadlock(w) ==
    /\ Deadlocked(w)
    /\ \/ worker' = [worker EXCEPT ![w] = Idle] /\ UNCHANGED crediting
       \/ crediting' = NoUser /\ UNCHANGED worker
    /\ UNCHANGED <<lotteryVars, wallet, paid, credits, tasks, time, crashes>>

-----------------------------------------------------------------------------
(* The dispatcher, and what goes wrong.                                    *)

\* Faulty form: a draw that was claimed and lost is not taken up.
LostOpen(l) == status[l] = "open" /\ Due(time, l)

\* DispatchDue and ReconcileSettling; the latter waits until a healthy draw
\* must be over, which is not needed here and not modelled.
Lost(l) == (status[l] = "open" /\ Due(time, l)) \/ status[l] = "settling"

Dispatch(l) ==
    /\ Lost(l)
    /\ l \notin tasks
    /\ tasks' = tasks \cup {l}
    /\ UNCHANGED <<lotteryVars, moneyVars, worker, time, crashes>>

\* A worker stops; its task is delivered again or was at its last delivery.
Crash(w) ==
    /\ worker[w].at # "idle"
    /\ crashes < MaxCrashes
    /\ crashes' = crashes + 1
    /\ worker' = [worker EXCEPT ![w] = Idle]
    /\ tasks' \in {tasks, tasks \ {worker[w].lottery}}
    /\ UNCHANGED <<lotteryVars, moneyVars, time>>

Tick ==
    /\ time < MaxTime
    /\ time' = time + 1
    /\ UNCHANGED <<lotteryVars, moneyVars, tasks, worker, crashes>>

\* The clock stands still at its bound for long enough to be read anew.
ClockReadings ==
    IF time = MaxTime THEN {time}
    ELSE {t \in 0..MaxTime : time - ClockLag <= t /\ t <= time}

Work(w) ==
    \/ \E l \in Lotteries :
          \/ Resume(w, l)
          \/ \E now \in ClockReadings : ClaimSettlement(w, l, now) \/ NothingToDraw(w, l, now)
    \/ Rank(w) \/ CancelEmpty(w) \/ AlreadyDrawn(w)

Next ==
    \/ \E l \in Lotteries :
          Create(l) \/ Dispatch(l) \/ \E u \in Users : AddEntry(l, u)
    \/ \E w \in Workers : Work(w) \/ Settle(w) \/ BreakDeadlock(w) \/ Crash(w)
    \/ \E u \in Users : BeginCredit(u)
    \/ FinishCredit
    \/ Tick

\* The step Settle takes, without the choice of an allocation: WithinBounds
\* says that there always is one.
Commits(w) ==
    LET l == worker[w].lottery IN
    /\ worker[w].at = "ranked"
    /\ crediting \notin entrants[l]
    /\ status' = [status EXCEPT ![l] = "completed"]
    /\ worker' = [worker EXCEPT ![w] = Idle]

\* The dispatcher runs every half minute, the clock goes on, the queue gives
\* every task to a worker, and the database ends a deadlock.  It grants locks
\* in the order asked for, so that a waiting credit is not overtaken for ever
\* by draws that are rolled back and tried again.
Fairness ==
    /\ WF_vars(Tick)
    /\ SF_vars(FinishCredit)
    /\ \A l \in Lotteries : WF_vars(Dispatch(l))
    /\ \A w \in Workers : WF_vars(Work(w)) /\ WF_vars(BreakDeadlock(w))
    /\ \A w \in Workers : WF_<<status, worker>>(Commits(w))

Spec == Init /\ [][Next]_vars

FairSpec == Spec /\ Fairness

-----------------------------------------------------------------------------
(* Properties.                                                             *)

\* The wallets hold the points paid for and, to the last point, the pools of
\* the lotteries drawn: each pool is worth what its entries made it, is paid
\* once, and not by a draw that was rolled back or overtaken.
PoolPaid ==
    LET drawn == {l \in Lotteries : status[l] = "completed"}
        worth == [l \in Lotteries |->
                     rules[l].start + rules[l].increment * Cardinality(entrants[l])]
    IN  SumFunction(wallet) = SumFunction(paid) + SumFunctionOnSet(worth, drawn)

\* A draw always finds a split of its pool, and whenever the pool allows it
\* every entry gets at least the minimum and at most the maximum, with few
\* entries or many, also where the split falls back to an even one.
WithinBounds ==
    \A w \in Workers :
        worker[w].at = "ranked" =>
            LET l == worker[w].lottery
                n == Cardinality(entrants[l])
                r == rules[l]
            IN  /\ AllocationsOf(l) # {}
                /\ (n * r.min <= total[l] /\ total[l] <= n * r.max) =>
                      \A a \in AllocationsOf(l) : \A i \in 1..n :
                          a[i].amount \in r.min..r.max

\* A draw counts as one by participants exactly when enough had entered in
\* time, however late and by whatever clock it was claimed.  Only then must
\* the numbers of lucky and normal payouts stand.
TriggerTrue ==
    \A l \in Lotteries :
        status[l] \in {"settling", "completed", "cancelled"} =>
            (trigger[l] = "participants" <=> Full(l))

\* When a draw commits, no entry has a better tier than one whose user had
\* the better score by everything committed before: by the draws that
\* overlapped and by the points credited meanwhile.
TierValue(tier) == CASE tier = "lucky" -> 2 [] tier = "normal" -> 1 [] OTHER -> 0

FairDraw ==
    [][\A l \in Lotteries :
          status[l] = "settling" /\ status'[l] = "completed" =>
              \A u, v \in DOMAIN payouts'[l] :
                  winnerHistoryScore(u) > winnerHistoryScore(v) =>
                      TierValue(payouts'[l][u].tier) >= TierValue(payouts'[l][v].tier)]_vars

\* A lottery whose draw is due is drawn or cancelled, although workers stop,
\* tasks are lost and draws are rolled back.
DrawEnds ==
    \A l \in Lotteries :
        (status[l] = "open" /\ Due(time, l)) \/ status[l] = "settling"
            ~> status[l] \in {"completed", "cancelled"}

=============================================================================
