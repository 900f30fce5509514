---------------------------- MODULE LotteryProofs ----------------------------
(***************************************************************************)
(* Theorems about Lottery, for every set of users, lotteries and workers,  *)
(* also infinite ones, every rule set and every bound: what a theorem      *)
(* counts is finite because lotteries are drawn, and entered, one at a     *)
(* time.  Only the sum of all wallets asks for finitely many users.        *)
(***************************************************************************)
EXTENDS Lottery, LotteryAllocationProofs

USE LotteryAssumption

-----------------------------------------------------------------------------
(* What an allocation gives to whom: the tiers never rise with the rank.   *)

\* a gives the n entries tiers that never rise with the rank.
Tiered(a, n) ==
    /\ DOMAIN a = 1..n
    /\ \A i, j \in 1..n : i < j => TierValue(a[i].tier) >= TierValue(a[j].tier)

LEMMA TiersFall ==
  ASSUME NEW n \in Nat, NEW r, r.lucky \in Int, r.normal \in Int,
         NEW a, DOMAIN a = 1..n, \A i \in 1..n : a[i].tier = Tiers(n, r)[i]
  PROVE  Tiered(a, n)
<1> DEFINE lucky == Smaller(r.lucky, n)
           normal == Smaller(r.normal, n - lucky)
<1>1. lucky \in Int /\ normal \in Int
  BY DEF Smaller
<1>2. \A i \in 1..n : a[i].tier = IF i <= lucky THEN "lucky"
                                  ELSE IF i <= lucky + normal THEN "normal"
                                  ELSE "consolation"
  BY DEF Tiers
<1> HIDE DEF lucky, normal
<1>3. \A i \in 1..n : TierValue(a[i].tier) = IF i <= lucky THEN 2
                                             ELSE IF i <= lucky + normal THEN 1 ELSE 0
  BY <1>2 DEF TierValue
<1>4. \A i, j \in 1..n : i < j => TierValue(a[i].tier) >= TierValue(a[j].tier)
  BY <1>1, <1>3
<1>5. QED
  BY <1>4 DEF Tiered

\* A sequence of n payouts with the tiers of the rule set r.
Ranked(a, n, r) == DOMAIN a = 1..n /\ \A i \in 1..n : a[i].tier = Tiers(n, r)[i]

LEMMA ComputedRanked ==
  ASSUME NEW n \in Nat, NEW r, NEW A
  PROVE  Ranked(Computed([i \in 1..n |-> [tier |-> Tiers(n, r)[i], amount |-> A[i]]]), n, r)
<1> DEFINE f == [i \in 1..n |-> [tier |-> Tiers(n, r)[i], amount |-> A[i]]]
<1>1. f \in [1..n -> {f[i] : i \in 1..n}]
  OBVIOUS
<1>2. Computed(f) = f
  BY <1>1, ComputedSame
<1>3. QED
  BY <1>2 DEF Ranked

LEMMA FixedRanked ==
  ASSUME NEW n \in Nat, NEW pool, NEW r, NEW a \in FixedCounts(n, pool, r)
  PROVE  Ranked(a, n, r)
<1>1. PICK normals, offset : a = FixedAllocation(n, pool, r, normals, offset)
  BY DEF FixedCounts
<1>2. QED
  BY <1>1, ComputedRanked DEF FixedAllocation

LEMMA FallbackRanked ==
  ASSUME NEW n \in Nat, NEW pool, NEW r, NEW a \in Fallback(n, pool, r)
  PROVE  Ranked(a, n, r)
<1>1. PICK offset : a = Computed([i \in 1..n |->
            [tier |-> Tiers(n, r)[i], amount |-> DistributeEvenly(n, pool, offset)[i]]])
  BY DEF Fallback
<1>2. QED
  BY <1>1, ComputedRanked

LEMMA AllocationTiered ==
  ASSUME NEW n \in Nat, NEW pool, NEW r, RuleSet(r), HasFields(r), NEW early,
         NEW a \in Allocations(n, pool, r, early)
  PROVE  Tiered(a, n)
<1>1. /\ r.lucky \in Int /\ r.normal \in Int
      /\ FitEarlyDraw(n, pool, r).lucky \in Int /\ FitEarlyDraw(n, pool, r).normal \in Int
  BY EarlyRules DEF RuleSet
<1>2. PICK e : /\ e.lucky \in Int /\ e.normal \in Int
               /\ a \in FixedCounts(n, pool, e) \/ a \in Fallback(n, pool, r)
  BY <1>1 DEF Allocations
<1>3. CASE a \in FixedCounts(n, pool, e)
  BY <1>2, <1>3, FixedRanked, TiersFall DEF Ranked
<1>4. CASE a \in Fallback(n, pool, r)
  BY <1>1, <1>4, FallbackRanked, TiersFall DEF Ranked
<1>5. QED
  BY <1>2, <1>3, <1>4

LEMMA RulesRight ==
  ASSUME NEW l \in Lotteries, NEW r \in RulesOf[l]
  PROVE  RuleSet(r) /\ HasFields(r)
<1>1. r \in Rules /\ validateRules(r)
  OBVIOUS
<1>2. r.min <= r.max
  BY <1>1 DEF validateRules, Rules
<1>3. QED
  BY <1>1, <1>2 DEF RuleSet, HasFields, Rules

-----------------------------------------------------------------------------
(* The inductive invariant.                                                *)

WorkerStates == [at : {"idle", "claimed", "ranked"},
                 lottery : Lotteries \cup {NoLottery}, ranking : Seq(Users)]

Types ==
    /\ TypeOK
    /\ rules \in [Lotteries -> Rules]
    /\ worker \in [Workers -> WorkerStates]
    /\ payouts = [l \in Lotteries |-> payouts[l]]

\* Nobody enters before the lottery exists, and what is entered is finite.
Entered ==
    \A l \in Lotteries :
        /\ IsFiniteSet(entrants[l])
        /\ status[l] = "none" => entrants[l] = {}

\* The time at which the lottery filled is kept as soon as it is full, and was
\* before the time of its draw.
FilledInTime ==
    \A l \in Lotteries :
        /\ reachedAt[l] # -1 <=> Full(l)
        /\ reachedAt[l] # -1 /\ rules[l].drawAt # -1 => reachedAt[l] <= rules[l].drawAt

\* A worker is at a lottery that takes no more entries.
Claimed ==
    \A w \in Workers :
        worker[w].at # "idle" =>
            /\ worker[w].lottery \in Lotteries
            /\ status[worker[w].lottery] \in {"settling", "completed", "cancelled"}

IsRanked(w) == worker[w].at = "ranked"

\* No two draws under way have an entrant in common: their locks.
RowsApart ==
    \A v, w \in Workers :
        IsRanked(v) /\ IsRanked(w) /\ v # w =>
            entrants[worker[v].lottery] \cap entrants[worker[w].lottery] = {}

Score == [u \in Users |-> winnerHistoryScore(u)]

\* What a draw has read is still true, of all that it locked.
WellRanked(w) ==
    LET l == worker[w].lottery
        s == worker[w].ranking
    IN  /\ status[l] = "settling"
        /\ entrants[l] # {}
        /\ s \in SetToSeqs(entrants[l])
        /\ \A i, j \in DOMAIN s : i < j => Score[s[i]] >= Score[s[j]]

RankingTrue == \A w \in Workers : IsRanked(w) => WellRanked(w)

Drawn == {l \in Lotteries : status[l] = "completed"}

DrawnFinite == IsFiniteSet(Drawn)

LotteryInv ==
    /\ Types
    /\ Entered
    /\ FilledInTime
    /\ TriggerTrue
    /\ Claimed
    /\ RowsApart
    /\ RankingTrue
    /\ DrawnFinite

LEMMA InitInv == Init => LotteryInv
<1> SUFFICES ASSUME Init PROVE LotteryInv
  OBVIOUS
<1> USE DEF Init
<1>1. rules \in [Lotteries -> Rules]
  OBVIOUS
<1>2. \A l \in Lotteries : rules[l] \in RulesOf[l]
  OBVIOUS
<1>3. Idle \in WorkerStates
  BY DEF Idle, WorkerStates
<1>4. Types
  BY <1>1, <1>2, <1>3 DEF Types, TypeOK, Idle
<1>5. Entered
  BY FS_EmptySet DEF Entered
<1>6. FilledInTime
  <2>1. Cardinality({}) = 0
    BY FS_EmptySet
  <2>2. \A l \in Lotteries : ~Full(l)
    BY <1>1, <2>1 DEF Full, Rules
  <2>3. QED
    BY <2>2 DEF FilledInTime
<1>7. TriggerTrue /\ Claimed /\ RowsApart /\ RankingTrue
  BY DEF TriggerTrue, Claimed, RowsApart, RankingTrue, IsRanked, Idle
<1>8. DrawnFinite
  <2>1. Drawn = {}
    BY DEF Drawn
  <2>2. QED
    BY <2>1, FS_EmptySet DEF DrawnFinite
<1>9. QED
  BY <1>4, <1>5, <1>6, <1>7, <1>8 DEF LotteryInv

-----------------------------------------------------------------------------
(* Scores.                                                                 *)

LEMMA WonType ==
  ASSUME DrawnFinite, NEW u, NEW tier
  PROVE  Won(u, tier) \in Nat
<1> DEFINE S == {l \in Lotteries : /\ status[l] = "completed"
                                   /\ u \in DOMAIN payouts[l]
                                   /\ payouts[l][u].tier = tier}
<1>1. S \subseteq Drawn
  BY DEF Drawn
<1>2. IsFiniteSet(S)
  BY <1>1, FS_Subset DEF DrawnFinite
<1>3. QED
  BY <1>2, FS_CardinalityType DEF Won

LEMMA LargerOf ==
  ASSUME NEW a \in Int, NEW b \in Int
  PROVE  Max({a, b}) \in Int
<1>1. \E x \in {a, b} : \A y \in {a, b} : x >= y
  <2>1. CASE a >= b
    BY <2>1
  <2>2. CASE ~(a >= b)
    BY <2>2
  <2>3. QED
    BY <2>1, <2>2
<1>2. QED
  BY <1>1 DEF Max

LEMMA ScoreType ==
  ASSUME TypeOK, DrawnFinite, NEW u \in Users
  PROVE  winnerHistoryScore(u) \in Int
<1> DEFINE e == 100000 - 50000 * Won(u, "lucky") - 10000 * Won(u, "normal")
                  + 5000 * Won(u, "consolation") + paid[u] - Given(u)
<1>1. wallet[u] \in Int /\ paid[u] \in Int
  BY DEF TypeOK
<1>2. e \in Int
  BY <1>1, WonType DEF Given
<1> HIDE DEF e
<1>3. Max({0, e}) \in Int
  BY <1>2, LargerOf
<1>4. QED
  BY <1>3 DEF winnerHistoryScore, e

LEMMA ScoreKept ==
  ASSUME NEW u \in Users, wallet'[u] = wallet[u], paid'[u] = paid[u],
         \A l \in Lotteries :
             /\ status[l] = "completed" /\ u \in DOMAIN payouts[l] =>
                  /\ status'[l] = "completed"
                  /\ u \in DOMAIN payouts'[l] /\ payouts'[l][u] = payouts[l][u]
             /\ status'[l] = "completed" /\ u \in DOMAIN payouts'[l] =>
                  status[l] = "completed" /\ u \in DOMAIN payouts[l]
  PROVE  Score'[u] = Score[u]
<1>1. ASSUME NEW tier
      PROVE  {l \in Lotteries : /\ status'[l] = "completed"
                                /\ u \in DOMAIN payouts'[l]
                                /\ payouts'[l][u].tier = tier}
             = {l \in Lotteries : /\ status[l] = "completed"
                                  /\ u \in DOMAIN payouts[l]
                                  /\ payouts[l][u].tier = tier}
  OBVIOUS
<1>2. \A tier : Won(u, tier)' = Won(u, tier)
  BY <1>1 DEF Won
<1>3. Given(u)' = Given(u)
  BY DEF Given
<1>4. /\ Won(u, "lucky")' = Won(u, "lucky")
      /\ Won(u, "normal")' = Won(u, "normal")
      /\ Won(u, "consolation")' = Won(u, "consolation")
  BY <1>2
<1>5. winnerHistoryScore(u)' = winnerHistoryScore(u)
  BY <1>3, <1>4 DEF winnerHistoryScore
<1>6. QED
  BY <1>5 DEF Score

\* Draws under way that go on, with what they locked, stay right.
LEMMA DrawsKept ==
  ASSUME TypeOK, Claimed, RowsApart, RankingTrue,
         \A w \in Workers : IsRanked(w)' =>
             /\ worker'[w] = worker[w]
             /\ status'[worker[w].lottery] = status[worker[w].lottery]
             /\ entrants'[worker[w].lottery] = entrants[worker[w].lottery]
             /\ \A u \in entrants[worker[w].lottery] \cap Users : Score'[u] = Score[u]
  PROVE  RowsApart' /\ RankingTrue'
<1>1. ASSUME NEW w \in Workers, IsRanked(w)'
      PROVE  IsRanked(w) /\ worker'[w] = worker[w]
  BY <1>1 DEF IsRanked
<1>2. RowsApart'
  BY <1>1 DEF RowsApart
<1>3. ASSUME NEW w \in Workers, IsRanked(w)'
      PROVE  WellRanked(w)'
  <2> DEFINE l == worker[w].lottery
             s == worker[w].ranking
  <2>1. IsRanked(w) /\ worker'[w] = worker[w]
    BY <1>1, <1>3
  <2>2. WellRanked(w) /\ entrants[l] \subseteq Users
    BY <2>1 DEF RankingTrue, Claimed, IsRanked, TypeOK
  <2>3. \A i \in DOMAIN s : s[i] \in entrants[l]
    BY <2>2 DEF WellRanked, SetToSeqs
  <2>4. \A i \in DOMAIN s : Score'[s[i]] = Score[s[i]]
    BY <1>3, <2>2, <2>3
  <2>5. QED
    BY <1>3, <2>1, <2>2, <2>4 DEF WellRanked
<1>4. RankingTrue'
  BY <1>3 DEF RankingTrue
<1>5. QED
  BY <1>2, <1>4

-----------------------------------------------------------------------------
(* The steps that neither move a lottery nor pay.                          *)

LEMMA IdleType == Idle \in WorkerStates /\ Idle.at = "idle"
  BY DEF Idle, WorkerStates

LEMMA StateType ==
  ASSUME NEW l \in Lotteries
  PROVE  Idle \in WorkerStates /\ Tasked(l) \in WorkerStates
         /\ Tasked(l).at = "claimed" /\ Tasked(l).lottery = l
<1>1. \A r \in WorkerStates :
         LET c == [[r EXCEPT !.at = "claimed"] EXCEPT !.lottery = l]
         IN  c \in WorkerStates /\ c.at = "claimed" /\ c.lottery = l
  BY DEF WorkerStates
<1>2. Tasked(l) = [[Idle EXCEPT !.at = "claimed"] EXCEPT !.lottery = l]
  BY DEF Tasked
<1>3. QED
  BY <1>1, <1>2, IdleType

LEMMA DrawsUnmoved ==
  ASSUME LotteryInv, UNCHANGED <<status, payouts, entrants>>,
         \A w \in Workers : IsRanked(w)' =>
             /\ worker'[w] = worker[w]
             /\ \A u \in entrants[worker[w].lottery] :
                    wallet'[u] = wallet[u] /\ paid'[u] = paid[u]
  PROVE  RowsApart' /\ RankingTrue' /\ DrawnFinite'
<1>1. ASSUME NEW w \in Workers, IsRanked(w)', NEW u \in entrants[worker[w].lottery]
      PROVE  u \in Users => Score'[u] = Score[u]
  BY <1>1, ScoreKept
<1>2. RowsApart' /\ RankingTrue'
  BY <1>1, DrawsKept DEF LotteryInv, Types
<1>3. DrawnFinite'
  BY DEF LotteryInv, DrawnFinite, Drawn
<1>4. QED
  BY <1>2, <1>3

LEMMA QuietStep ==
  ASSUME LotteryInv, Types', UNCHANGED lotteryVars,
         \A w \in Workers :
             \/ worker'[w] = worker[w]
             \/ worker'[w].at = "idle"
             \/ /\ worker'[w].at = "claimed"
                /\ worker'[w].lottery \in Lotteries
                /\ status[worker'[w].lottery] \in {"settling", "completed", "cancelled"},
         \A w \in Workers : IsRanked(w)' =>
             \A u \in entrants[worker[w].lottery] :
                    wallet'[u] = wallet[u] /\ paid'[u] = paid[u]
  PROVE  LotteryInv'
<1> USE DEF lotteryVars
<1>1. Entered' /\ FilledInTime' /\ TriggerTrue'
  BY DEF LotteryInv, Entered, FilledInTime, TriggerTrue, Full
<1>2. Claimed'
  BY DEF LotteryInv, Claimed
<1>3. RowsApart' /\ RankingTrue' /\ DrawnFinite'
  BY DrawsUnmoved DEF IsRanked
<1>4. QED
  BY <1>1, <1>2, <1>3 DEF LotteryInv

LEMMA WaitingInv ==
  ASSUME LotteryInv,
         \/ \E l \in Lotteries : Dispatch(l)
         \/ \E u \in Users : BeginCredit(u)
         \/ \E t : \E l \in Lotteries, w \in Workers : NothingToDraw(w, l, t)
         \/ Tick
         \/ UNCHANGED vars
  PROVE  LotteryInv'
<1>1. /\ UNCHANGED <<lotteryVars, wallet, paid, worker>>
      /\ crediting' \in Users \cup {NoUser} /\ credits' \in 0..MaxCredits
      /\ tasks' \subseteq Lotteries
      /\ time' \in 0..MaxTime /\ crashes' \in 0..MaxCrashes
  <2> USE DEF LotteryInv, Types, TypeOK, lotteryVars, moneyVars
  <2>1. CASE \E l \in Lotteries : Dispatch(l)
    BY <2>1 DEF Dispatch
  <2>2. CASE \E u \in Users : BeginCredit(u)
    BY <2>2 DEF BeginCredit
  <2>3. CASE \E t : \E l \in Lotteries, w \in Workers : NothingToDraw(w, l, t)
    BY <2>3 DEF NothingToDraw
  <2>4. CASE Tick
    BY <2>4 DEF Tick
  <2>5. CASE UNCHANGED vars
    BY <2>5 DEF vars
  <2>6. QED
    BY <2>1, <2>2, <2>3, <2>4, <2>5
<1>2. Types'
  BY <1>1 DEF LotteryInv, Types, TypeOK, lotteryVars
<1>3. QED
  BY <1>1, <1>2, QuietStep

LEMMA WorkerInv ==
  ASSUME LotteryInv, NEW w \in Workers,
         \/ \E l \in Lotteries : Resume(w, l)
         \/ AlreadyDrawn(w)
         \/ BreakDeadlock(w)
         \/ Crash(w)
  PROVE  LotteryInv'
<1>1. /\ UNCHANGED <<lotteryVars, wallet, paid, time>>
      /\ crediting' \in Users \cup {NoUser} /\ credits' \in 0..MaxCredits
      /\ tasks' \subseteq Lotteries
      /\ crashes' \in 0..MaxCrashes
      /\ \/ worker' = worker
         \/ worker' = [worker EXCEPT ![w] = Idle]
         \/ \E l \in Lotteries : status[l] = "settling"
                                 /\ worker' = [worker EXCEPT ![w] = Tasked(l)]
  <2> USE DEF LotteryInv, Types, TypeOK, lotteryVars, moneyVars
  <2>1. CASE \E l \in Lotteries : Resume(w, l)
    BY <2>1 DEF Resume
  <2>2. CASE AlreadyDrawn(w)
    BY <2>2 DEF AlreadyDrawn
  <2>3. CASE BreakDeadlock(w)
    BY <2>3 DEF BreakDeadlock
  <2>4. CASE Crash(w)
    BY <2>4 DEF Crash
  <2>5. QED
    BY <2>1, <2>2, <2>3, <2>4
<1>2. worker \in [Workers -> WorkerStates]
  BY DEF LotteryInv, Types
<1>3. worker' \in [Workers -> WorkerStates]
  <2>1. CASE worker' = worker
    BY <1>2, <2>1
  <2>2. CASE worker' = [worker EXCEPT ![w] = Idle]
    BY <1>2, <2>2, IdleType
  <2>3. CASE \E l \in Lotteries : worker' = [worker EXCEPT ![w] = Tasked(l)]
    BY <1>2, <2>3, StateType
  <2>4. QED
    BY <1>1, <2>1, <2>2, <2>3
<1>4. \A v \in Workers :
         \/ worker'[v] = worker[v]
         \/ worker'[v].at = "idle"
         \/ /\ worker'[v].at = "claimed"
            /\ worker'[v].lottery \in Lotteries
            /\ status[worker'[v].lottery] = "settling"
  BY <1>1, <1>2, StateType DEF Idle
<1>5. Types'
  <2>1. \A v \in Workers : worker'[v].at \in {"idle", "claimed", "ranked"}
                           /\ worker'[v].lottery \in Lotteries \cup {NoLottery}
    BY <1>3 DEF WorkerStates
  <2>2. QED
    BY <1>1, <1>3, <2>1 DEF LotteryInv, Types, TypeOK, lotteryVars
<1>6. QED
  BY <1>1, <1>4, <1>5, QuietStep

LEMMA FinishCreditInv ==
  ASSUME LotteryInv, FinishCredit
  PROVE  LotteryInv'
<1>1. crediting \in Users
  BY DEF FinishCredit, LotteryInv, Types, TypeOK
<1>2. /\ UNCHANGED <<lotteryVars, worker, tasks, time, crashes, credits>>
      /\ crediting' = NoUser
      /\ wallet' \in [Users -> Nat] /\ paid' \in [Users -> Nat]
      /\ \A u : u # crediting => wallet'[u] = wallet[u] /\ paid'[u] = paid[u]
  BY <1>1 DEF FinishCredit, LotteryInv, Types, TypeOK
<1>3. Types'
  BY <1>2 DEF LotteryInv, Types, TypeOK, lotteryVars
<1>4. ASSUME NEW w \in Workers, IsRanked(w)', NEW u \in entrants[worker[w].lottery]
      PROVE  u # crediting
  BY <1>2, <1>4 DEF FinishCredit, UserFree, IsRanked
<1>5. QED
  BY <1>2, <1>3, <1>4, QuietStep

-----------------------------------------------------------------------------
(* The steps that move a lottery.                                          *)

LEMMA CreateInv ==
  ASSUME LotteryInv, NEW l \in Lotteries, Create(l)
  PROVE  LotteryInv'
<1> USE DEF Create, moneyVars
<1>1. Types'
  BY DEF LotteryInv, Types, TypeOK, Rules
<1>2. Entered' /\ FilledInTime' /\ TriggerTrue' /\ Claimed'
  BY DEF LotteryInv, Types, TypeOK, Entered, FilledInTime, TriggerTrue, Claimed, Full
<1>3. ASSUME NEW w \in Workers, IsRanked(w)'
      PROVE  /\ worker'[w] = worker[w]
             /\ status'[worker[w].lottery] = status[worker[w].lottery]
             /\ entrants'[worker[w].lottery] = entrants[worker[w].lottery]
             /\ \A u \in Users : Score'[u] = Score[u]
  <2>1. IsRanked(w) /\ status[worker[w].lottery] = "settling"
    BY <1>3 DEF IsRanked, LotteryInv, RankingTrue, WellRanked
  <2>2. \A k \in Lotteries : status'[k] = "completed" <=> status[k] = "completed"
    BY DEF LotteryInv, Types, TypeOK
  <2>3. \A u \in Users : Score'[u] = Score[u]
    BY <2>2, ScoreKept
  <2>4. QED
    BY <2>1, <2>3 DEF LotteryInv, Types, TypeOK
<1>4. RowsApart' /\ RankingTrue'
  BY <1>3, DrawsKept DEF LotteryInv, Types
<1>5. DrawnFinite'
  <2>1. Drawn' = Drawn
    BY DEF LotteryInv, Types, TypeOK, Drawn
  <2>2. QED
    BY <2>1 DEF LotteryInv, DrawnFinite
<1>6. QED
  BY <1>1, <1>2, <1>4, <1>5 DEF LotteryInv

LEMMA AddEntryInv ==
  ASSUME LotteryInv, NEW l \in Lotteries, NEW u \in Users, AddEntry(l, u)
  PROVE  LotteryInv'
<1> DEFINE count == Cardinality(entrants[l]) + 1
           fills == rules[l].target > 0 /\ count >= rules[l].target
<1>1. /\ status[l] = "open" /\ u \notin entrants[l] /\ ~Reached(time, l) /\ ~Full(l)
      /\ entrants' = [entrants EXCEPT ![l] = @ \cup {u}]
      /\ total' = [total EXCEPT ![l] = Pool(l, count)]
      /\ reachedAt' = [reachedAt EXCEPT ![l] = IF fills /\ @ = -1 THEN time ELSE @]
      /\ tasks' \in {tasks, tasks \cup {l}}
      /\ UNCHANGED <<rules, status, trigger, payouts, moneyVars, worker, time, crashes>>
  BY DEF AddEntry
<1>2. /\ IsFiniteSet(entrants'[l])
      /\ Cardinality(entrants'[l]) = count
      /\ Cardinality(entrants[l]) \in Nat /\ count \in Nat
  <2>1. entrants'[l] = entrants[l] \cup {u}
    BY <1>1 DEF LotteryInv, Types, TypeOK
  <2>2. IsFiniteSet(entrants[l])
    BY DEF LotteryInv, Entered
  <2>3. QED
    BY <1>1, <2>1, <2>2, FS_AddElement, FS_CardinalityType
<1>3. rules[l] \in Rules /\ time \in Nat
  BY DEF LotteryInv, Types, TypeOK
<1>4. Pool(l, count) \in Nat
  <2>1. /\ total[l] \in Nat /\ rules[l].start \in Nat /\ rules[l].increment \in Nat
        /\ count \in Nat
    BY <1>2, <1>3 DEF Rules, LotteryInv, Types, TypeOK
  <2> HIDE DEF count
  <2>2. rules[l].increment * count \in Nat
    BY <2>1
  <2>3. QED
    BY <2>1, <2>2 DEF Pool
<1> HIDE DEF count
<1>5. Types'
  BY <1>1, <1>4 DEF LotteryInv, Types, TypeOK, moneyVars
<1>6. Entered'
  BY <1>1, <1>2 DEF LotteryInv, Types, TypeOK, Entered
<1>7. FilledInTime' /\ TriggerTrue'
  <2>1. reachedAt[l] = -1
    BY <1>1 DEF LotteryInv, FilledInTime
  <2>2. Full(l)' <=> fills
    BY <1>1, <1>2 DEF Full
  <2>3. reachedAt'[l] = IF fills THEN time ELSE -1
    BY <1>1, <2>1 DEF LotteryInv, Types, TypeOK
  <2>4. rules[l].drawAt # -1 => time <= rules[l].drawAt
    BY <1>1, <1>3 DEF Reached, Rules
  <2>5. \A k \in Lotteries : k # l =>
            /\ Full(k)' <=> Full(k)
            /\ reachedAt'[k] = reachedAt[k]
    BY <1>1 DEF Full, LotteryInv, Types, TypeOK
  <2> HIDE DEF fills
  <2>6. FilledInTime'
    <3>1. ASSUME NEW k \in Lotteries
          PROVE  /\ reachedAt'[k] # -1 <=> Full(k)'
                 /\ reachedAt'[k] # -1 /\ rules'[k].drawAt # -1 => reachedAt'[k] <= rules'[k].drawAt
      <4>1. CASE k = l
        BY <1>1, <1>3, <2>2, <2>3, <2>4, <4>1
      <4>2. CASE k # l
        BY <1>1, <2>5, <4>2 DEF LotteryInv, FilledInTime
      <4>3. QED
        BY <4>1, <4>2
    <3>2. QED
      BY <3>1 DEF FilledInTime
  <2>7. TriggerTrue'
    BY <1>1, <2>5 DEF LotteryInv, TriggerTrue
  <2>8. QED
    BY <2>6, <2>7
<1>8. Claimed'
  BY <1>1 DEF LotteryInv, Claimed
<1>9. RowsApart' /\ RankingTrue'
  <2>1. ASSUME NEW w \in Workers, IsRanked(w)'
        PROVE  /\ worker'[w] = worker[w]
               /\ status'[worker[w].lottery] = status[worker[w].lottery]
               /\ entrants'[worker[w].lottery] = entrants[worker[w].lottery]
    BY <1>1, <2>1 DEF IsRanked, LotteryInv, RankingTrue, WellRanked, Types, TypeOK
  <2>2. \A v \in Users : Score'[v] = Score[v]
    BY <1>1, ScoreKept DEF moneyVars
  <2>3. QED
    BY <2>1, <2>2, DrawsKept DEF LotteryInv, Types
<1>10. DrawnFinite'
  BY <1>1 DEF LotteryInv, DrawnFinite, Drawn
<1>11. QED
  BY <1>5, <1>6, <1>7, <1>8, <1>9, <1>10 DEF LotteryInv

\* The claim decides by whom the draw was triggered, by whatever clock.
LEMMA ClaimInv ==
  ASSUME LotteryInv, NEW w \in Workers, NEW l \in Lotteries, NEW t \in Int,
         ClaimSettlement(w, l, t)
  PROVE  LotteryInv'
<1> USE DEF ClaimSettlement, moneyVars
<1>1. worker \in [Workers -> WorkerStates] /\ worker' \in [Workers -> WorkerStates]
  BY StateType DEF LotteryInv, Types
<1>2. TriggerOf(t, l) \in {"time", "participants"}
  BY DEF TriggerOf
<1>3. Types'
  <2>1. \A v \in Workers : worker'[v].at \in {"idle", "claimed", "ranked"}
                           /\ worker'[v].lottery \in Lotteries \cup {NoLottery}
    BY <1>1 DEF WorkerStates
  <2>2. QED
    BY <1>1, <1>2, <2>1 DEF LotteryInv, Types, TypeOK
<1>4. Entered' /\ FilledInTime'
  BY DEF LotteryInv, Types, TypeOK, Entered, FilledInTime, Full
<1>5. TriggerOf(t, l) = "participants" <=> Full(l)
  <2>1. rules[l] \in Rules /\ reachedAt[l] \in Int
    BY DEF LotteryInv, Types, TypeOK
  <2>2. Full(l) => reachedAt[l] # -1
    BY DEF LotteryInv, FilledInTime
  <2>3. Reached(t, l) => rules[l].drawAt # -1
    BY DEF Reached
  <2>4. QED
    BY <2>1, <2>2, <2>3 DEF TriggerOf, LotteryInv, FilledInTime
<1>6. TriggerTrue'
  <2>1. \A k \in Lotteries : Full(k)' <=> Full(k)
    BY DEF Full
  <2>2. QED
    BY <1>5, <2>1 DEF LotteryInv, Types, TypeOK, TriggerTrue
<1>7. Claimed'
  BY <1>1, StateType DEF LotteryInv, Types, TypeOK, Claimed
<1>8. RowsApart' /\ RankingTrue'
  <2>1. ASSUME NEW v \in Workers, IsRanked(v)'
        PROVE  /\ worker'[v] = worker[v]
               /\ status'[worker[v].lottery] = status[worker[v].lottery]
               /\ entrants'[worker[v].lottery] = entrants[worker[v].lottery]
    <3>1. v # w
      BY <1>1, <2>1, StateType DEF IsRanked
    <3>2. worker'[v] = worker[v] /\ IsRanked(v)
      BY <1>1, <2>1, <3>1 DEF IsRanked
    <3>3. status[worker[v].lottery] = "settling"
      BY <3>2 DEF LotteryInv, RankingTrue, WellRanked
    <3>4. QED
      BY <3>2, <3>3 DEF LotteryInv, Types, TypeOK
  <2>2. \A k \in Lotteries : status'[k] = "completed" <=> status[k] = "completed"
    BY DEF LotteryInv, Types, TypeOK
  <2>3. \A u \in Users : Score'[u] = Score[u]
    BY <2>2, ScoreKept
  <2>4. QED
    BY <2>1, <2>3, DrawsKept DEF LotteryInv, Types
<1>9. DrawnFinite'
  <2>1. Drawn' = Drawn
    BY DEF LotteryInv, Types, TypeOK, Drawn
  <2>2. QED
    BY <2>1 DEF LotteryInv, DrawnFinite
<1>10. QED
  BY <1>3, <1>4, <1>6, <1>7, <1>8, <1>9 DEF LotteryInv

LEMMA CancelEmptyInv ==
  ASSUME LotteryInv, NEW w \in Workers, CancelEmpty(w)
  PROVE  LotteryInv'
<1> USE DEF moneyVars
<1> DEFINE l == worker[w].lottery
<1>1. l \in Lotteries /\ status[l] = "settling" /\ worker[w].at = "claimed"
  BY DEF CancelEmpty, LotteryInv, Claimed
<1>2. /\ status' = [status EXCEPT ![l] = "cancelled"]
      /\ worker' = [worker EXCEPT ![w] = Idle]
      /\ tasks' = tasks \ {l} /\ entrants[l] = {}
      /\ UNCHANGED <<rules, entrants, total, reachedAt, trigger, payouts, moneyVars,
                     time, crashes>>
  BY DEF CancelEmpty
<1> HIDE DEF l
<1>3. worker \in [Workers -> WorkerStates] /\ worker' \in [Workers -> WorkerStates]
  BY <1>1, <1>2, StateType DEF LotteryInv, Types
<1>4. Types'
  <2>1. \A v \in Workers : worker'[v].at \in {"idle", "claimed", "ranked"}
                           /\ worker'[v].lottery \in Lotteries \cup {NoLottery}
    BY <1>3 DEF WorkerStates
  <2>2. QED
    BY <1>1, <1>2, <1>3, <2>1 DEF LotteryInv, Types, TypeOK
<1>5. Entered' /\ FilledInTime' /\ TriggerTrue'
  BY <1>1, <1>2 DEF LotteryInv, Types, TypeOK, Entered, FilledInTime, TriggerTrue, Full
<1>6. Claimed'
  BY <1>1, <1>2, <1>3 DEF LotteryInv, Types, TypeOK, Claimed, Idle
<1>7. RowsApart' /\ RankingTrue'
  <2>1. ASSUME NEW v \in Workers, IsRanked(v)'
        PROVE  /\ worker'[v] = worker[v]
               /\ status'[worker[v].lottery] = status[worker[v].lottery]
               /\ entrants'[worker[v].lottery] = entrants[worker[v].lottery]
    <3>1. v # w
      BY <1>2, <1>3, <2>1 DEF IsRanked, Idle
    <3>2. worker'[v] = worker[v] /\ IsRanked(v)
      BY <1>2, <1>3, <2>1, <3>1 DEF IsRanked
    <3>3. entrants[worker[v].lottery] # {}
      BY <3>2 DEF LotteryInv, RankingTrue, WellRanked
    <3>4. QED
      BY <1>2, <3>2, <3>3 DEF LotteryInv, Types, TypeOK
  <2>2. \A k \in Lotteries : status'[k] = "completed" <=> status[k] = "completed"
    BY <1>1, <1>2 DEF LotteryInv, Types, TypeOK
  <2>3. \A u \in Users : Score'[u] = Score[u]
    BY <1>2, <2>2, ScoreKept
  <2>4. QED
    BY <2>1, <2>3, DrawsKept DEF LotteryInv, Types
<1>8. DrawnFinite'
  <2>1. Drawn' = Drawn
    BY <1>1, <1>2 DEF LotteryInv, Types, TypeOK, Drawn
  <2>2. QED
    BY <2>1 DEF LotteryInv, DrawnFinite
<1>9. QED
  BY <1>4, <1>5, <1>6, <1>7, <1>8 DEF LotteryInv

LEMMA RankInv ==
  ASSUME LotteryInv, NEW w \in Workers, Rank(w)
  PROVE  LotteryInv'
<1> DEFINE l == worker[w].lottery
<1>1. /\ l \in Lotteries /\ worker[w].at = "claimed" /\ status[l] = "settling"
      /\ entrants[l] # {} /\ \A u \in entrants[l] : UserFree(u)
      /\ UNCHANGED <<lotteryVars, moneyVars, tasks, time, crashes>>
  BY DEF Rank, LotteryInv, Claimed
<1>2. PICK s \in Rankings(entrants[l]) :
         worker' = [worker EXCEPT ![w] = [@ EXCEPT !.at = "ranked", !.ranking = s]]
  BY DEF Rank
<1>3. /\ s \in SetToSeqs(entrants[l])
      /\ s \in [1..Cardinality(entrants[l]) -> entrants[l]]
      /\ \A i, j \in DOMAIN s : i < j => Score[s[i]] >= Score[s[j]]
  <2>1. entrants[l] \subseteq Users
    BY <1>1 DEF LotteryInv, Types, TypeOK
  <2>2. \A u \in entrants[l] : Score[u] = [v \in entrants[l] |-> winnerHistoryScore(v)][u]
    BY <2>1 DEF Score
  <2>3. s \in [1..Cardinality(entrants[l]) -> entrants[l]]
    BY DEF Rankings, SetToSeqs
  <2>4. QED
    BY <2>2, <2>3 DEF Rankings
<1>4. s \in Seq(Users)
  <2>1. Cardinality(entrants[l]) \in Nat /\ entrants[l] \subseteq Users
    BY <1>1, FS_CardinalityType DEF LotteryInv, Entered, Types, TypeOK
  <2>2. s \in [1..Cardinality(entrants[l]) -> Users]
    BY <1>3, <2>1
  <2>3. QED
    BY <2>1, <2>2, SeqDef
<1>5. worker \in [Workers -> WorkerStates]
  BY DEF LotteryInv, Types
<1>6. /\ worker'[w].at = "ranked" /\ worker'[w].lottery = l /\ worker'[w].ranking = s
      /\ worker'[w] \in WorkerStates
      /\ worker' \in [Workers -> WorkerStates]
      /\ \A v \in Workers : v # w => worker'[v] = worker[v]
  BY <1>2, <1>4, <1>5 DEF WorkerStates
<1> HIDE DEF l
<1>7. Types'
  <2>1. \A v \in Workers : worker'[v].at \in {"idle", "claimed", "ranked"}
                           /\ worker'[v].lottery \in Lotteries \cup {NoLottery}
    BY <1>6 DEF WorkerStates
  <2>2. QED
    BY <1>1, <1>6, <2>1 DEF LotteryInv, Types, TypeOK, lotteryVars, moneyVars
<1>8. Entered' /\ FilledInTime' /\ TriggerTrue' /\ DrawnFinite'
  BY <1>1 DEF LotteryInv, Entered, FilledInTime, TriggerTrue, DrawnFinite, Drawn, Full,
     lotteryVars
<1>9. Claimed'
  BY <1>1, <1>6 DEF LotteryInv, Claimed, lotteryVars
<1>10. RowsApart'
  <2>1. ASSUME NEW v \in Workers, v # w, IsRanked(v)'
        PROVE  IsRanked(v) /\ entrants[worker[v].lottery] \cap entrants[l] = {}
    <3>1. IsRanked(v) /\ worker'[v] = worker[v]
      BY <1>6, <2>1 DEF IsRanked
    <3>2. \A u \in entrants[l] : u \notin entrants[worker[v].lottery]
      BY <1>1, <3>1 DEF UserFree, IsRanked
    <3>3. QED
      BY <3>1, <3>2
  <2>2. ASSUME NEW v \in Workers, NEW x \in Workers, IsRanked(v)', IsRanked(x)', v # x
        PROVE  entrants'[worker'[v].lottery] \cap entrants'[worker'[x].lottery] = {}
    <3>1. CASE v = w
      BY <1>1, <1>6, <2>1, <2>2, <3>1 DEF lotteryVars
    <3>2. CASE x = w
      BY <1>1, <1>6, <2>1, <2>2, <3>2 DEF lotteryVars
    <3>3. CASE v # w /\ x # w
      BY <1>1, <1>6, <2>1, <2>2, <3>3 DEF lotteryVars, LotteryInv, RowsApart
    <3>4. QED
      BY <3>1, <3>2, <3>3
  <2>3. QED
    BY <2>2 DEF RowsApart
<1>11. RankingTrue'
  <2>1. Score' = Score
    <3>1. \A u \in Users : Score'[u] = Score[u]
      BY <1>1, ScoreKept DEF lotteryVars, moneyVars
    <3>2. QED
      BY <3>1 DEF Score
  <2>2. ASSUME NEW v \in Workers, IsRanked(v)'
        PROVE  WellRanked(v)'
    <3>1. CASE v = w
      BY <1>1, <1>3, <1>6, <2>1, <3>1 DEF lotteryVars, WellRanked
    <3>2. CASE v # w
      <4>1. IsRanked(v) /\ worker'[v] = worker[v]
        BY <1>6, <2>2, <3>2 DEF IsRanked
      <4>2. WellRanked(v)
        BY <4>1 DEF LotteryInv, RankingTrue
      <4>3. QED
        BY <1>1, <2>1, <4>1, <4>2 DEF lotteryVars, WellRanked
    <3>3. QED
      BY <3>1, <3>2
  <2>3. QED
    BY <2>2 DEF RankingTrue
<1>12. QED
  BY <1>7, <1>8, <1>9, <1>10, <1>11 DEF LotteryInv

\* What a draw pays: every payout is the one of its user's rank.
PaysByRank(w, a, p) ==
    LET l == worker[w].lottery
        s == worker[w].ranking
        n == Cardinality(entrants[l])
    IN  /\ Tiered(a, n)
        /\ DOMAIN p \subseteq entrants[l]
        /\ \A u \in DOMAIN p : \E i \in 1..n :
              u = s[i] /\ p[u] = a[i] /\ a[i].amount \in Nat
        /\ payouts' = [payouts EXCEPT ![l] = p]
        /\ wallet' = [u \in Users |->
              IF u \in DOMAIN p THEN wallet[u] + p[u].amount ELSE wallet[u]]

LEMMA SettleFacts ==
  ASSUME LotteryInv, NEW w \in Workers, Settle(w)
  PROVE  LET l == worker[w].lottery
             s == worker[w].ranking
             n == Cardinality(entrants[l])
         IN  /\ l \in Lotteries /\ status[l] = "settling" /\ n \in Nat
             /\ s \in [1..n -> entrants[l]]
             /\ \A i, j \in 1..n : i < j => Score[s[i]] >= Score[s[j]]
             /\ \E a, p : PaysByRank(w, a, p)
<1> DEFINE l == worker[w].lottery
           s == worker[w].ranking
           n == Cardinality(entrants[l])
<1>1. IsRanked(w)
  BY DEF Settle, IsRanked
<1>2. l \in Lotteries
  BY <1>1 DEF LotteryInv, Claimed, IsRanked
<1>3. /\ status[l] = "settling" /\ s \in SetToSeqs(entrants[l])
      /\ \A i, j \in DOMAIN s : i < j => Score[s[i]] >= Score[s[j]]
  BY <1>1 DEF LotteryInv, RankingTrue, WellRanked
<1>4. n \in Nat
  BY <1>2, FS_CardinalityType DEF LotteryInv, Entered
<1>5. s \in [1..n -> entrants[l]] /\ \A i, j \in 1..n : i # j => s[i] # s[j]
  BY <1>3 DEF SetToSeqs
<1>6. PICK a \in AllocationsOf(l) :
         /\ payouts' = [payouts EXCEPT ![l] = Payouts(s, a)]
         /\ wallet' = [u \in Users |-> IF u \in DOMAIN Payouts(s, a)
                                       THEN wallet[u] + Payouts(s, a)[u].amount
                                       ELSE wallet[u]]
  BY DEF Settle
<1>7. Tiered(a, n) /\ \A i \in DOMAIN a : a[i].amount \in Nat
  <2>1. RuleSet(rules[l]) /\ HasFields(rules[l])
    BY <1>2, RulesRight DEF LotteryInv, Types, TypeOK
  <2>2. a \in Allocations(n, total[l], rules[l], trigger[l] = "time")
    BY DEF AllocationsOf
  <2>3. Tiered(a, n)
    BY <1>4, <2>1, <2>2, AllocationTiered
  <2>4. QED
    BY <2>3 DEF AllocationsOf
<1>8. DOMAIN a = 1..n
  BY <1>7 DEF Tiered
<1> DEFINE p == Payouts(s, a)
<1> HIDE DEF l, s, n
<1>9. DOMAIN p \subseteq entrants[l]
  BY <1>5 DEF Payouts
<1>10. ASSUME NEW u \in DOMAIN p
       PROVE  \E i \in 1..n : u = s[i] /\ p[u] = a[i] /\ a[i].amount \in Nat
  <2>1. u \in {s[i] : i \in {j \in DOMAIN s : a[j].amount > 0}}
    BY DEF Payouts
  <2>2. p[u] = a[CHOOSE i \in DOMAIN s : s[i] = u]
    BY <2>1 DEF Payouts
  <2>3. \E i \in DOMAIN s : s[i] = u
    BY <2>1
  <2>4. (CHOOSE i \in DOMAIN s : s[i] = u) \in DOMAIN s
        /\ s[CHOOSE i \in DOMAIN s : s[i] = u] = u
    BY <2>3
  <2>5. QED
    BY <1>5, <1>7, <1>8, <2>2, <2>4
<1>11. /\ payouts' = [payouts EXCEPT ![l] = p]
       /\ wallet' = [u \in Users |->
             IF u \in DOMAIN p THEN wallet[u] + p[u].amount ELSE wallet[u]]
  BY <1>6
<1> HIDE DEF p
<1>12. PaysByRank(w, a, p)
  BY <1>7, <1>9, <1>10, <1>11 DEF PaysByRank, l, s, n
<1>13. QED
  BY <1>2, <1>3, <1>4, <1>5, <1>12 DEF l, s, n

LEMMA SettleInv ==
  ASSUME LotteryInv, NEW w \in Workers, Settle(w)
  PROVE  LotteryInv'
<1> DEFINE l == worker[w].lottery
           s == worker[w].ranking
           n == Cardinality(entrants[l])
<1>1. l \in Lotteries /\ status[l] = "settling"
  BY SettleFacts
<1>0. PICK a, p : PaysByRank(w, a, p)
  BY SettleFacts
<1>2. /\ DOMAIN p \subseteq entrants[l]
      /\ \A u \in DOMAIN p : \E i \in 1..n :
            u = s[i] /\ p[u] = a[i] /\ a[i].amount \in Nat
      /\ payouts' = [payouts EXCEPT ![l] = p]
      /\ wallet' = [u \in Users |->
            IF u \in DOMAIN p THEN wallet[u] + p[u].amount ELSE wallet[u]]
  BY <1>0 DEF PaysByRank
<1>3. /\ IsRanked(w)
      /\ worker' = [worker EXCEPT ![w] = Idle]
      /\ tasks' = tasks \ {l}
      /\ status' = [status EXCEPT ![l] = "completed"]
      /\ UNCHANGED <<rules, entrants, total, reachedAt, trigger, paid, crediting,
                     credits, time, crashes>>
  BY DEF Settle, IsRanked
<1>4. \A u \in DOMAIN p : p[u].amount \in Nat
  BY <1>2
<1> HIDE DEF l, s, n
<1>5. worker \in [Workers -> WorkerStates] /\ worker' \in [Workers -> WorkerStates]
  BY <1>1, <1>3, StateType DEF LotteryInv, Types
<1>6. wallet' \in [Users -> Nat]
  BY <1>2, <1>4 DEF LotteryInv, Types, TypeOK
<1>7. Types'
  <2>1. \A v \in Workers : worker'[v].at \in {"idle", "claimed", "ranked"}
                           /\ worker'[v].lottery \in Lotteries \cup {NoLottery}
    BY <1>5 DEF WorkerStates
  <2>2. \A k \in Lotteries : DOMAIN payouts'[k] \subseteq entrants'[k]
    BY <1>1, <1>2, <1>3 DEF LotteryInv, Types, TypeOK
  <2>3. payouts' = [k \in Lotteries |-> payouts'[k]]
    BY <1>2 DEF LotteryInv, Types
  <2>4. QED
    BY <1>1, <1>3, <1>5, <1>6, <2>1, <2>2, <2>3 DEF LotteryInv, Types, TypeOK
<1>8. Entered' /\ FilledInTime' /\ TriggerTrue'
  BY <1>1, <1>3 DEF LotteryInv, Types, TypeOK, Entered, FilledInTime, TriggerTrue, Full
<1>9. Claimed'
  BY <1>1, <1>3, <1>5 DEF LotteryInv, Types, TypeOK, Claimed, Idle
<1>10. RowsApart' /\ RankingTrue'
  <2>1. ASSUME NEW v \in Workers, IsRanked(v)'
        PROVE  /\ worker'[v] = worker[v]
               /\ entrants[worker[v].lottery] \cap entrants[l] = {}
               /\ status'[worker[v].lottery] = status[worker[v].lottery]
               /\ entrants[worker[v].lottery] \subseteq Users
    <3>1. v # w
      BY <1>3, <1>5, <2>1 DEF IsRanked, Idle
    <3>2. worker'[v] = worker[v] /\ IsRanked(v)
      BY <1>3, <1>5, <2>1, <3>1 DEF IsRanked
    <3>3. entrants[worker[v].lottery] \cap entrants[l] = {}
      BY <1>3, <3>1, <3>2 DEF LotteryInv, RowsApart, l
    <3>4. entrants[worker[v].lottery] # {} /\ worker[v].lottery \in Lotteries
      BY <3>2 DEF LotteryInv, RankingTrue, WellRanked, Claimed, IsRanked
    <3>5. worker[v].lottery # l
      BY <3>3, <3>4
    <3>6. QED
      BY <1>3, <3>2, <3>3, <3>4, <3>5 DEF LotteryInv, Types, TypeOK
  <2>2. ASSUME NEW u \in Users, u \notin entrants[l]
        PROVE  Score'[u] = Score[u]
    <3>1. wallet'[u] = wallet[u] /\ paid'[u] = paid[u]
      BY <1>2, <1>3, <2>2
    <3>2. u \notin DOMAIN payouts'[l] /\ u \notin DOMAIN payouts[l]
      BY <1>1, <1>2, <2>2 DEF LotteryInv, Types, TypeOK
    <3>3. \A k \in Lotteries : k # l =>
              payouts'[k] = payouts[k] /\ status'[k] = status[k]
      BY <1>2, <1>3 DEF LotteryInv, Types, TypeOK
    <3>4. QED
      BY <3>1, <3>2, <3>3, ScoreKept
  <2>3. QED
    BY <1>3, <2>1, <2>2, DrawsKept DEF LotteryInv, Types
<1>11. DrawnFinite'
  <2>1. Drawn' = Drawn \cup {l}
    BY <1>1, <1>3 DEF LotteryInv, Types, TypeOK, Drawn
  <2>2. QED
    BY <2>1, FS_AddElement DEF LotteryInv, DrawnFinite
<1>12. QED
  BY <1>7, <1>8, <1>9, <1>10, <1>11 DEF LotteryInv

-----------------------------------------------------------------------------

LEMMA NextInv == LotteryInv /\ [Next]_vars => LotteryInv'
<1> SUFFICES ASSUME LotteryInv, [Next]_vars PROVE LotteryInv'
  OBVIOUS
<1>1. CASE \E l \in Lotteries : Create(l)
  BY <1>1, CreateInv
<1>2. CASE \E l \in Lotteries, u \in Users : AddEntry(l, u)
  BY <1>2, AddEntryInv
<1>3. ASSUME NEW w \in Workers, Work(w)
      PROVE  LotteryInv'
  <2>1. CASE \E l \in Lotteries : Resume(w, l)
    BY <2>1, WorkerInv
  <2>2. CASE \E l \in Lotteries, t \in ClockReadings : ClaimSettlement(w, l, t)
    <3>1. \A t \in ClockReadings : t \in Int
      BY DEF ClockReadings, LotteryInv, Types, TypeOK
    <3>2. QED
      BY <2>2, <3>1, ClaimInv
  <2>3. CASE \E l \in Lotteries, t \in ClockReadings : NothingToDraw(w, l, t)
    BY <2>3, WaitingInv
  <2>4. CASE Rank(w)
    BY <2>4, RankInv
  <2>5. CASE CancelEmpty(w)
    BY <2>5, CancelEmptyInv
  <2>6. CASE AlreadyDrawn(w)
    BY <2>6, WorkerInv
  <2>7. QED
    BY <1>3, <2>1, <2>2, <2>3, <2>4, <2>5, <2>6 DEF Work
<1>4. CASE \E w \in Workers : Settle(w)
  BY <1>4, SettleInv
<1>5. CASE \E w \in Workers : BreakDeadlock(w) \/ Crash(w)
  BY <1>5, WorkerInv
<1>6. CASE FinishCredit
  BY <1>6, FinishCreditInv
<1>7. CASE \/ \E l \in Lotteries : Dispatch(l)
           \/ \E u \in Users : BeginCredit(u)
           \/ Tick \/ UNCHANGED vars
  BY <1>7, WaitingInv
<1>8. QED
  BY <1>1, <1>2, <1>3, <1>4, <1>5, <1>6, <1>7 DEF Next

THEOREM LotteryInvariant == Spec => []LotteryInv
<1>1. Init => LotteryInv
  BY InitInv
<1>2. LotteryInv /\ [Next]_vars => LotteryInv'
  BY NextInv
<1>3. QED
  BY <1>1, <1>2, PTL DEF Spec

\* Every table holds rows of its kind, and payouts are made to entrants only.
THEOREM LotteryTypeCorrect == Spec => []TypeOK
<1>1. LotteryInv => TypeOK
  BY DEF LotteryInv, Types
<1>2. QED
  BY <1>1, LotteryInvariant, PTL

\* A draw counts as one by participants exactly when enough entered in time,
\* however late, by whichever worker and by whatever clock it was claimed.
THEOREM TriggerTrueCorrect == Spec => []TriggerTrue
<1>1. LotteryInv => TriggerTrue
  BY DEF LotteryInv
<1>2. QED
  BY <1>1, LotteryInvariant, PTL

-----------------------------------------------------------------------------
(* Fairness of the draw.                                                   *)

LEMMA SettleFair ==
  ASSUME LotteryInv, NEW w \in Workers, Settle(w),
         NEW u \in DOMAIN payouts'[worker[w].lottery],
         NEW v \in DOMAIN payouts'[worker[w].lottery],
         winnerHistoryScore(u) > winnerHistoryScore(v)
  PROVE  LET l == worker[w].lottery
         IN  TierValue(payouts'[l][u].tier) >= TierValue(payouts'[l][v].tier)
<1> DEFINE l == worker[w].lottery
           s == worker[w].ranking
           n == Cardinality(entrants[l])
<1>1. /\ l \in Lotteries /\ n \in Nat
      /\ s \in [1..n -> entrants[l]]
      /\ \A i, j \in 1..n : i < j => Score[s[i]] >= Score[s[j]]
  BY SettleFacts
<1>0. PICK a, p : PaysByRank(w, a, p)
  BY SettleFacts
<1>2. /\ Tiered(a, n)
      /\ DOMAIN p \subseteq entrants[l]
      /\ \A x \in DOMAIN p : \E i \in 1..n : x = s[i] /\ p[x] = a[i]
      /\ payouts' = [payouts EXCEPT ![l] = p]
  BY <1>0 DEF PaysByRank
<1>3. payouts'[l] = p
  BY <1>1, <1>2 DEF LotteryInv, Types
<1>4. u \in Users /\ v \in Users
  BY <1>1, <1>2, <1>3 DEF LotteryInv, Types, TypeOK
<1>5. PICK i \in 1..n : u = s[i] /\ p[u] = a[i]
  BY <1>2, <1>3
<1>6. PICK j \in 1..n : v = s[j] /\ p[v] = a[j]
  BY <1>2, <1>3
<1>7. Score[u] \in Int /\ Score[v] \in Int /\ Score[u] > Score[v]
  BY <1>4, ScoreType DEF Score, LotteryInv, Types
<1> HIDE DEF l, s, n
<1>8. ~(j < i) /\ i # j
  BY <1>1, <1>5, <1>6, <1>7
<1>9. i < j
  BY <1>1, <1>5, <1>6, <1>8
<1>10. TierValue(a[i].tier) >= TierValue(a[j].tier)
  BY <1>2, <1>9 DEF Tiered
<1>11. QED
  BY <1>3, <1>5, <1>6, <1>10 DEF l

LEMMA OnlySettleCompletes ==
  ASSUME LotteryInv, [Next]_vars, NEW l \in Lotteries,
         status[l] # "completed", status'[l] = "completed"
  PROVE  \E w \in Workers : Settle(w) /\ worker[w].lottery = l
<1>1. status \in [Lotteries -> {"none", "open", "settling", "completed", "cancelled"}]
  BY DEF LotteryInv, Types, TypeOK
<1>2. ~ \E k \in Lotteries :
          \/ Create(k) \/ Dispatch(k) \/ \E u \in Users : AddEntry(k, u)
          \/ \E w \in Workers : Resume(w, k)
          \/ \E w \in Workers, t \in ClockReadings :
                 ClaimSettlement(w, k, t) \/ NothingToDraw(w, k, t)
  BY <1>1 DEF Create, Dispatch, AddEntry, Resume, ClaimSettlement, NothingToDraw, lotteryVars
<1>3. ~ \E w \in Workers : Rank(w) \/ AlreadyDrawn(w) \/ BreakDeadlock(w) \/ Crash(w)
  BY DEF Rank, AlreadyDrawn, BreakDeadlock, Crash, lotteryVars
<1>4. ~ \E w \in Workers : CancelEmpty(w)
  BY <1>1 DEF CancelEmpty
<1>5. ~ \E u \in Users : BeginCredit(u)
  BY DEF BeginCredit, lotteryVars
<1>6. ~FinishCredit /\ ~Tick /\ vars' # vars
  BY DEF FinishCredit, Tick, vars, lotteryVars
<1>7. PICK w \in Workers : Settle(w)
  BY <1>2, <1>3, <1>4, <1>5, <1>6 DEF Next, Work
<1>8. worker[w].lottery = l
  BY <1>1, <1>7 DEF Settle
<1>9. QED
  BY <1>7, <1>8

\* When a draw commits, no entry has a better tier than one whose user had the
\* better score by everything committed before: what the draw read under its
\* locks no other draw and no credit has changed.
THEOREM FairDrawCorrect == Spec => FairDraw
<1> DEFINE Fair == \A l \in Lotteries :
               status[l] = "settling" /\ status'[l] = "completed" =>
                   \A u, v \in DOMAIN payouts'[l] :
                       winnerHistoryScore(u) > winnerHistoryScore(v) =>
                           TierValue(payouts'[l][u].tier) >= TierValue(payouts'[l][v].tier)
<1>1. LotteryInv /\ [Next]_vars => [Fair]_vars
  BY OnlySettleCompletes, SettleFair
<1>2. QED
  BY <1>1, LotteryInvariant, PTL DEF Spec, FairDraw
-----------------------------------------------------------------------------
(* What the draws pay.                                                     *)

LEMMA PoolSplits ==
  ASSUME LotteryInv, NEW w \in Workers, IsRanked(w)
  PROVE  LET l == worker[w].lottery
         IN  /\ AllocationsOf(l) # {}
             /\ \A a \in AllocationsOf(l) :
                   Right(a, Cardinality(entrants[l]), total[l], rules[l])
<1> DEFINE l == worker[w].lottery
           n == Cardinality(entrants[l])
           A == Allocations(n, total[l], rules[l], trigger[l] = "time")
<1>1. l \in Lotteries /\ entrants[l] # {}
  BY DEF LotteryInv, Claimed, RankingTrue, WellRanked, IsRanked
<1>2. n \in Nat /\ n > 0
  <2>1. IsFiniteSet(entrants[l])
    BY <1>1 DEF LotteryInv, Entered
  <2>2. QED
    BY <1>1, <2>1, FS_CardinalityType, FS_EmptySet
<1>3. total[l] \in Nat /\ rules[l] \in RulesOf[l]
  BY <1>1 DEF LotteryInv, Types, TypeOK
<1>4. RuleSet(rules[l]) /\ HasFields(rules[l])
  BY <1>1, <1>3, RulesRight
<1> HIDE DEF n, l
<1>5. AllRight(A, n, total[l], rules[l])
  BY <1>2, <1>3, <1>4, AllocationRight
<1>6. A # {} /\ \A a \in A : Right(a, n, total[l], rules[l])
  BY <1>5 DEF AllRight
<1>7. AllocationsOf(l) = {a \in A : /\ \A i \in DOMAIN a : a[i].amount \in Nat
                                    /\ SumFunction([i \in DOMAIN a |-> a[i].amount]) = total[l]}
  BY DEF AllocationsOf, n
<1> HIDE DEF A
<1>8. AllocationsOf(l) = A
  BY <1>6, <1>7 DEF Right, Exact
<1>9. QED
  BY <1>6, <1>8 DEF n, l

\* A draw always finds a split of its pool, and whenever the pool allows it every
\* entry gets at least the minimum and at most the maximum: with whatever rules a
\* lottery can be created, with however many entries it is drawn.
THEOREM WithinBoundsCorrect == Spec => []WithinBounds
<1>1. ASSUME LotteryInv, NEW w \in Workers, worker[w].at = "ranked"
      PROVE  LET l == worker[w].lottery
                 n == Cardinality(entrants[l])
                 r == rules[l]
             IN  /\ AllocationsOf(l) # {}
                 /\ (n * r.min <= total[l] /\ total[l] <= n * r.max) =>
                       \A a \in AllocationsOf(l) : \A i \in 1..n :
                           a[i].amount \in r.min..r.max
  BY <1>1, PoolSplits DEF IsRanked, Right, Fillable, InBounds
<1>2. LotteryInv => WithinBounds
  BY <1>1 DEF WithinBounds
<1>3. QED
  BY <1>2, LotteryInvariant, PTL
-----------------------------------------------------------------------------
(* What the wallets hold.  A pool is what its entries made it as soon as   *)
(* the lottery exists, and a draw pays out just that.                      *)

Worth == [l \in Lotteries |-> rules[l].start + rules[l].increment * Cardinality(entrants[l])]

Funded == \A l \in Lotteries : status[l] # "none" => total[l] = Worth[l]

Accounted == SumFunction(wallet) = SumFunction(paid) + SumFunctionOnSet(Worth, Drawn)

LEMMA WorthType ==
  ASSUME LotteryInv, NEW l \in Lotteries
  PROVE  Worth[l] \in Int
<1>1. rules[l].start \in Nat /\ rules[l].increment \in Nat
  BY DEF LotteryInv, Types, Rules
<1>2. Cardinality(entrants[l]) \in Nat
  BY FS_CardinalityType DEF LotteryInv, Entered
<1>3. rules[l].increment * Cardinality(entrants[l]) \in Int
  BY <1>1, <1>2
<1>4. QED
  BY <1>1, <1>3 DEF Worth

LEMMA AddEntryFunded ==
  ASSUME LotteryInv, Funded, NEW l \in Lotteries, NEW u \in Users, AddEntry(l, u)
  PROVE  Funded'
<1> DEFINE count == Cardinality(entrants[l]) + 1
<1>1. /\ status[l] = "open" /\ u \notin entrants[l]
      /\ entrants' = [entrants EXCEPT ![l] = @ \cup {u}]
      /\ total' = [total EXCEPT ![l] = Pool(l, count)]
      /\ UNCHANGED <<rules, status>>
  BY DEF AddEntry
<1>2. /\ Cardinality(entrants'[l]) = count /\ count \in Nat
      /\ Cardinality(entrants[l]) \in Nat
  <2>1. entrants'[l] = entrants[l] \cup {u}
    BY <1>1 DEF LotteryInv, Types, TypeOK
  <2>2. IsFiniteSet(entrants[l])
    BY DEF LotteryInv, Entered
  <2>3. Cardinality(entrants[l]) \in Nat
    BY <2>2, FS_CardinalityType
  <2>4. Cardinality(entrants[l] \cup {u}) = Cardinality(entrants[l]) + 1
    BY <1>1, <2>2, FS_AddElement
  <2>5. QED
    BY <2>1, <2>3, <2>4
<1>3. rules[l].start \in Nat /\ rules[l].increment \in Nat
  BY DEF LotteryInv, Types, Rules
<1>4. total[l] = rules[l].start + rules[l].increment * Cardinality(entrants[l])
  BY <1>1 DEF Funded, Worth
<1> HIDE DEF count
<1>5. Pool(l, count) = rules[l].start + rules[l].increment * count
  <2>1. CASE rules[l].increment = 0
    <3>1. \A k \in Nat : rules[l].increment * k = 0
      BY <2>1
    <3>2. rules[l].increment * Cardinality(entrants[l]) = 0 /\ rules[l].increment * count = 0
      BY <1>2, <3>1
    <3>3. QED
      BY <1>3, <1>4, <2>1, <3>2 DEF Pool
  <2>2. CASE rules[l].increment # 0
    BY <2>2 DEF Pool
  <2>3. QED
    BY <2>1, <2>2
<1>6. total'[l] = Worth'[l]
  <2>1. total'[l] = Pool(l, count)
    BY <1>1 DEF LotteryInv, Types, TypeOK
  <2>2. Worth'[l] = rules[l].start + rules[l].increment * count
    BY <1>1, <1>2 DEF Worth
  <2>3. QED
    BY <1>5, <2>1, <2>2
<1>7. ASSUME NEW k \in Lotteries, k # l, status'[k] # "none"
      PROVE  total'[k] = Worth'[k]
  <2>1. total'[k] = total[k] /\ entrants'[k] = entrants[k] /\ rules'[k] = rules[k]
    BY <1>1, <1>7 DEF LotteryInv, Types, TypeOK
  <2>2. Worth'[k] = Worth[k]
    BY <2>1 DEF Worth
  <2>3. QED
    BY <1>1, <1>7, <2>1, <2>2 DEF Funded
<1>8. QED
  BY <1>6, <1>7 DEF Funded

\* The other steps that make no pool and enter nobody.
LEMMA FundedKept ==
  ASSUME Funded, UNCHANGED <<rules, entrants, total>>,
         \A l \in Lotteries : status[l] = "none" => status'[l] = "none"
  PROVE  Funded'
<1>1. Worth' = Worth
  BY DEF Worth
<1>2. QED
  BY <1>1 DEF Funded

\* Nothing is paid, and the lotteries drawn stay as they are.
LEMMA AccountKept ==
  ASSUME LotteryInv, Accounted, UNCHANGED <<rules, wallet, paid>>, Drawn' = Drawn,
         \A l \in Drawn : entrants'[l] = entrants[l]
  PROVE  Accounted'
<1>1. \A l \in Drawn : Worth[l] = Worth'[l]
  BY DEF Drawn, Worth
<1>2. IsFiniteSet(Drawn)
  BY DEF LotteryInv, DrawnFinite
<1>3. SumFunctionOnSet(Worth, Drawn) = SumFunctionOnSet(Worth', Drawn)
  BY <1>1, <1>2, SumSame
<1>4. QED
  BY <1>3 DEF Accounted

LEMMA CreditAccounted ==
  ASSUME LotteryInv, Accounted, IsFiniteSet(Users), FinishCredit
  PROVE  Accounted'
<1> DEFINE c == crediting
<1>1. c \in Users
  BY DEF FinishCredit, LotteryInv, Types, TypeOK
<1>2. /\ wallet \in [Users -> Nat] /\ paid \in [Users -> Nat]
      /\ wallet' = [wallet EXCEPT ![c] = @ + PaidPoints]
      /\ paid' = [paid EXCEPT ![c] = @ + PaidPoints]
      /\ UNCHANGED <<rules, entrants, status>>
      /\ PaidPoints \in Nat
  BY DEF FinishCredit, LotteryInv, Types, TypeOK, lotteryVars
<1>3. ASSUME NEW f \in [Users -> Nat], NEW g, g = [f EXCEPT ![c] = @ + PaidPoints]
      PROVE  SumFunction(g) = SumFunction(f) + PaidPoints /\ SumFunction(f) \in Int
  <2>1. /\ DOMAIN f = Users /\ DOMAIN g = Users
        /\ \A u \in Users : f[u] \in Int /\ g[u] \in Int
        /\ g[c] = f[c] + PaidPoints
        /\ \A u \in Users \ {c} : g[u] = f[u]
    BY <1>1, <1>2, <1>3
  <2>2. IsFiniteSet(Users \ {c})
    BY FS_RemoveElement
  <2>3. SumFunctionOnSet(g, Users \ {c}) = SumFunctionOnSet(f, Users \ {c})
    BY <2>1, <2>2, SumSame
  <2>4. \A e \in Users :
            /\ SumFunctionOnSet(f, Users) = f[e] + SumFunctionOnSet(f, Users \ {e})
            /\ SumFunctionOnSet(f, Users) \in Int /\ SumFunctionOnSet(f, Users \ {e}) \in Int
    BY <2>1, SumRemove
  <2>5. \A e \in Users : SumFunctionOnSet(g, Users) = g[e] + SumFunctionOnSet(g, Users \ {e})
    BY <2>1, SumRemove
  <2>6. /\ SumFunctionOnSet(f, Users) = f[c] + SumFunctionOnSet(f, Users \ {c})
        /\ SumFunctionOnSet(f, Users) \in Int /\ SumFunctionOnSet(f, Users \ {c}) \in Int
        /\ SumFunctionOnSet(g, Users) = g[c] + SumFunctionOnSet(g, Users \ {c})
        /\ f[c] \in Int
    BY <1>1, <2>1, <2>4, <2>5
  <2>7. SumFunctionOnSet(g, Users) = SumFunctionOnSet(f, Users) + PaidPoints
    BY <1>2, <2>1, <2>3, <2>6
  <2>8. QED
    BY <2>1, <2>6, <2>7 DEF SumFunction
<1>4. /\ SumFunction(wallet') = SumFunction(wallet) + PaidPoints
      /\ SumFunction(paid') = SumFunction(paid) + PaidPoints
      /\ SumFunction(wallet) \in Int /\ SumFunction(paid) \in Int
  BY <1>2, <1>3
<1>5. Worth' = Worth /\ Drawn' = Drawn
  BY <1>2 DEF Worth, Drawn
<1>6. SumFunctionOnSet(Worth, Drawn) \in Int
  <2>1. \A l \in Drawn : Worth[l] \in Int
    BY WorthType DEF Drawn
  <2>2. IsFiniteSet(Drawn)
    BY DEF LotteryInv, DrawnFinite
  <2>3. QED
    BY <2>1, <2>2, SumType
<1>7. QED
  BY <1>2, <1>4, <1>5, <1>6 DEF Accounted
\* The wallets grow by what the draw has allotted, entry by entry, and that is
\* the pool: a payout of nothing is not saved and pays nothing.
LEMMA SettlePays ==
  ASSUME LotteryInv, IsFiniteSet(Users), NEW w \in Workers, Settle(w)
  PROVE  SumFunction(wallet') = SumFunction(wallet) + total[worker[w].lottery]
         /\ SumFunction(wallet) \in Int
<1> DEFINE l == worker[w].lottery
           s == worker[w].ranking
           n == Cardinality(entrants[l])
           N == 1..n
<1>1. l \in Lotteries /\ n \in Nat /\ s \in [1..n -> entrants[l]]
  BY SettleFacts
<1>2. \A i, j \in N : i # j => s[i] # s[j]
  <2>1. s \in SetToSeqs(entrants[l])
    BY DEF Settle, LotteryInv, RankingTrue, WellRanked, IsRanked
  <2>2. QED
    BY <2>1 DEF SetToSeqs
<1>3. entrants[l] \subseteq Users /\ IsFiniteSet(entrants[l])
  BY <1>1 DEF LotteryInv, Types, TypeOK, Entered
<1>4. entrants[l] = {s[i] : i \in N}
  <2>1. s \in Injection(N, entrants[l])
    <3> HIDE DEF n, s, l
    <3>1. s \in [N -> entrants[l]]
      BY <1>1
    <3>2. QED
      BY <1>2, <3>1 DEF Injection, IsInjective
  <2>2. Cardinality(N) = n
    BY <1>1, FS_Interval
  <2>3. s \in Surjection(N, entrants[l])
    <3> HIDE DEF N, s
    <3>1. Cardinality(N) = Cardinality(entrants[l])
      BY <2>2
    <3>2. QED
      BY <1>3, <2>1, <3>1, FS_Injection
  <2> HIDE DEF n, s, l
  <2>4. \A u \in entrants[l] : \E i \in N : s[i] = u
    BY <2>3 DEF Surjection
  <2>5. QED
    BY <1>1, <2>4
<1>5. PICK a \in AllocationsOf(l) :
         wallet' = [u \in Users |-> IF u \in DOMAIN Payouts(s, a)
                                    THEN wallet[u] + Payouts(s, a)[u].amount
                                    ELSE wallet[u]]
  BY DEF Settle
<1>6. /\ DOMAIN a = N
      /\ \A i \in N : a[i].amount \in Nat
      /\ SumFunction([i \in DOMAIN a |-> a[i].amount]) = total[l]
  <2>1. Right(a, n, total[l], rules[l])
    BY PoolSplits DEF Settle, IsRanked
  <2>2. QED
    BY <2>1 DEF Right, Exact
<1> DEFINE p == Payouts(s, a)
           amounts == [i \in N |-> a[i].amount]
           gains == [u \in Users |-> IF u \in DOMAIN p THEN p[u].amount ELSE 0]
<1>7. SumFunctionOnSet(amounts, N) = total[l]
  BY <1>6 DEF SumFunction
<1> HIDE DEF l, s, n, N
<1>8. ASSUME NEW i \in N
      PROVE  gains[s[i]] = a[i].amount
  <2>1. s[i] \in Users /\ DOMAIN s = N
    BY <1>1, <1>3 DEF N
  <2>2. (CHOOSE j \in DOMAIN s : s[j] = s[i]) = i
    BY <1>2, <2>1
  <2>3. s[i] \in DOMAIN p <=> a[i].amount > 0
    BY <1>2, <2>1 DEF Payouts
  <2>4. s[i] \in DOMAIN p => p[s[i]] = a[i]
    BY <2>2 DEF Payouts
  <2>5. a[i].amount \in Nat
    BY <1>6
  <2> HIDE DEF p
  <2>6. QED
    BY <2>1, <2>3, <2>4, <2>5
<1>9. \A u \in Users \ entrants[l] : gains[u] = 0
  <2>1. DOMAIN p \subseteq {s[i] : i \in DOMAIN s}
    BY DEF Payouts
  <2>2. DOMAIN p \subseteq entrants[l]
    BY <1>1, <2>1
  <2> HIDE DEF p
  <2>3. QED
    BY <2>2
<1> HIDE DEF gains, amounts, p
<1>10. \A i \in N : amounts[i] = gains[s[i]] /\ amounts[i] \in Int
  BY <1>6, <1>8 DEF amounts
<1>11. \A u \in Users : gains[u] \in Int
  <2>1. \A u \in entrants[l] : gains[u] \in Int
    BY <1>4, <1>10
  <2>2. QED
    BY <1>9, <2>1
<1>12. SumFunctionOnSet(gains, entrants[l]) = total[l]
  <2>1. IsFiniteSet(N)
    BY <1>1, FS_Interval DEF N
  <2>2. SumFunctionOnSet(gains, {s[i] : i \in N}) = SumFunctionOnSet(amounts, N)
    BY <1>2, <1>10, <2>1, SumRename
  <2>3. QED
    BY <1>4, <1>7, <2>2
<1>13. SumFunctionOnSet(gains, Users) = total[l]
  <2>1. entrants[l] \in SUBSET Users
    BY <1>3
  <2>2. SumFunctionOnSet(gains, Users) = SumFunctionOnSet(gains, entrants[l])
    BY <1>9, <1>11, <2>1, SumSupport
  <2>3. QED
    BY <1>12, <2>2
<1>14. /\ DOMAIN wallet = Users /\ DOMAIN wallet' = Users
       /\ \A u \in Users : wallet[u] \in Int /\ wallet'[u] = wallet[u] + gains[u]
  BY <1>5 DEF gains, p, LotteryInv, Types, TypeOK
<1>15. SumFunctionOnSet(wallet', Users) =
          SumFunctionOnSet(wallet, Users) + SumFunctionOnSet(gains, Users)
  <2>1. \A u \in Users : wallet[u] \in Int /\ gains[u] \in Int /\ wallet'[u] = wallet[u] + gains[u]
    BY <1>11, <1>14
  <2>2. QED
    BY <2>1, SumPlus
<1>16. SumFunctionOnSet(wallet, Users) \in Int
  <2>1. \A u \in Users : wallet[u] \in Int
    BY <1>14
  <2>2. QED
    BY <2>1, SumType
<1>17. QED
  BY <1>13, <1>14, <1>15, <1>16 DEF SumFunction, l

LEMMA SettleAccounted ==
  ASSUME LotteryInv, Funded, Accounted, IsFiniteSet(Users), NEW w \in Workers, Settle(w)
  PROVE  Accounted'
<1> DEFINE l == worker[w].lottery
<1>1. l \in Lotteries /\ status[l] = "settling"
  BY SettleFacts
<1>2. SumFunction(wallet') = SumFunction(wallet) + total[l] /\ SumFunction(wallet) \in Int
  BY SettlePays
<1>3. /\ status' = [status EXCEPT ![l] = "completed"]
      /\ UNCHANGED <<rules, entrants, paid>>
  BY DEF Settle
<1> HIDE DEF l
<1>4. total[l] = Worth[l] /\ Worth[l] \in Int
  BY <1>1, WorthType DEF Funded
<1>5. Drawn' = Drawn \cup {l} /\ l \notin Drawn
  BY <1>1, <1>3 DEF LotteryInv, Types, TypeOK, Drawn
<1>6. Worth' = Worth
  BY <1>3 DEF Worth
<1>7. \A k \in Drawn \cup {l} : Worth[k] \in Int
  BY <1>1, WorthType DEF Drawn
<1>8. IsFiniteSet(Drawn)
  BY DEF LotteryInv, DrawnFinite
<1>9. SumFunctionOnSet(Worth, Drawn \cup {l}) = Worth[l] + SumFunctionOnSet(Worth, Drawn)
  BY <1>5, <1>7, <1>8, SumAdd
<1>10. SumFunctionOnSet(Worth, Drawn) \in Int
  <2>1. \A k \in Drawn : Worth[k] \in Int
    BY <1>7
  <2>2. QED
    BY <1>8, <2>1, SumType
<1>11. SumFunction(paid') = SumFunction(paid)
  BY <1>3
<1>12. SumFunctionOnSet(Worth', Drawn') = SumFunctionOnSet(Worth, Drawn) + total[l]
  BY <1>4, <1>5, <1>6, <1>9, <1>10
<1>13. SumFunction(paid) \in Int
  <2>1. DOMAIN paid = Users /\ \A u \in Users : paid[u] \in Int
    BY DEF LotteryInv, Types, TypeOK
  <2>2. SumFunctionOnSet(paid, Users) \in Int
    BY <2>1, SumType
  <2>3. QED
    BY <2>1, <2>2 DEF SumFunction
<1>14. total[l] \in Int
  BY <1>4
<1>15. QED
  BY <1>2, <1>10, <1>11, <1>12, <1>13, <1>14 DEF Accounted
PoolInv == Funded /\ Accounted

LEMMA InitPool ==
  ASSUME Init, IsFiniteSet(Users)
  PROVE  PoolInv
<1>1. Funded
  BY DEF Init, Funded
<1>2. wallet = paid /\ DOMAIN paid = Users /\ \A u \in Users : paid[u] \in Int
  BY DEF Init
<1>3. SumFunctionOnSet(paid, Users) \in Int
  BY <1>2, SumType
<1>4. Drawn = {}
  BY DEF Init, Drawn
<1>5. SumFunctionOnSet(Worth, Drawn) = 0
  BY <1>4, SumEmpty
<1>6. Accounted
  BY <1>2, <1>3, <1>5 DEF Accounted, SumFunction
<1>7. QED
  BY <1>1, <1>6 DEF PoolInv

LEMMA CreatePool ==
  ASSUME LotteryInv, PoolInv, NEW l \in Lotteries, Create(l)
  PROVE  PoolInv'
<1>1. /\ status[l] = "none"
      /\ status' = [status EXCEPT ![l] = "open"]
      /\ total' = [total EXCEPT ![l] = rules[l].start]
      /\ UNCHANGED <<rules, entrants, wallet, paid>>
  BY DEF Create, moneyVars
<1>2. Worth' = Worth
  BY <1>1 DEF Worth
<1>3. Worth[l] = rules[l].start
  <2>1. Cardinality(entrants[l]) = 0
    BY <1>1, FS_EmptySet DEF LotteryInv, Entered
  <2>2. rules[l].start \in Nat /\ rules[l].increment \in Nat
    BY DEF LotteryInv, Types, Rules
  <2>3. rules[l].increment * 0 = 0
    BY <2>2
  <2>4. QED
    BY <2>1, <2>2, <2>3 DEF Worth
<1>4. Funded'
  BY <1>1, <1>2, <1>3 DEF PoolInv, Funded, LotteryInv, Types, TypeOK
<1>5. Drawn' = Drawn
  BY <1>1 DEF LotteryInv, Types, TypeOK, Drawn
<1>6. Accounted'
  BY <1>1, <1>5, AccountKept DEF PoolInv
<1>7. QED
  BY <1>4, <1>6 DEF PoolInv

LEMMA AddEntryPool ==
  ASSUME LotteryInv, PoolInv, NEW l \in Lotteries, NEW u \in Users, AddEntry(l, u)
  PROVE  PoolInv'
<1>1. /\ status[l] = "open"
      /\ entrants' = [entrants EXCEPT ![l] = @ \cup {u}]
      /\ UNCHANGED <<rules, status, wallet, paid>>
  BY DEF AddEntry, moneyVars
<1>2. Drawn' = Drawn /\ \A k \in Drawn : entrants'[k] = entrants[k]
  BY <1>1 DEF LotteryInv, Types, TypeOK, Drawn
<1>3. Accounted'
  BY <1>1, <1>2, AccountKept DEF PoolInv
<1>4. QED
  BY <1>3, AddEntryFunded DEF PoolInv

\* Every step but those that make a pool, add to it or pay.
LEMMA UnpaidPool ==
  ASSUME LotteryInv, PoolInv, UNCHANGED <<rules, entrants, total, wallet, paid>>,
         \/ UNCHANGED status
         \/ \E l \in Lotteries :
               \/ status[l] = "open" /\ status' = [status EXCEPT ![l] = "settling"]
               \/ status[l] = "settling" /\ status' = [status EXCEPT ![l] = "cancelled"]
  PROVE  PoolInv'
<1>1. /\ \A l \in Lotteries : status[l] = "none" => status'[l] = "none"
      /\ \A l \in Lotteries : status'[l] = "completed" <=> status[l] = "completed"
  BY DEF LotteryInv, Types, TypeOK
<1>2. Drawn' = Drawn
  BY <1>1 DEF Drawn
<1>3. QED
  BY <1>1, <1>2, FundedKept, AccountKept DEF PoolInv

LEMMA WorkPool ==
  ASSUME LotteryInv, PoolInv, NEW w \in Workers, Work(w) \/ BreakDeadlock(w) \/ Crash(w)
  PROVE  PoolInv'
<1> USE DEF lotteryVars, moneyVars
<1>1. CASE \E l \in Lotteries : Resume(w, l)
  BY <1>1, UnpaidPool DEF Resume
<1>2. CASE \E l \in Lotteries, t \in ClockReadings : ClaimSettlement(w, l, t)
  BY <1>2, UnpaidPool DEF ClaimSettlement
<1>3. CASE \E l \in Lotteries, t \in ClockReadings : NothingToDraw(w, l, t)
  BY <1>3, UnpaidPool DEF NothingToDraw
<1>4. CASE Rank(w)
  BY <1>4, UnpaidPool DEF Rank
<1>5. CASE CancelEmpty(w)
  <2>1. worker[w].lottery \in Lotteries
    BY <1>5 DEF CancelEmpty, LotteryInv, Claimed
  <2>2. QED
    BY <1>5, <2>1, UnpaidPool DEF CancelEmpty
<1>6. CASE AlreadyDrawn(w)
  BY <1>6, UnpaidPool DEF AlreadyDrawn
<1>7. CASE BreakDeadlock(w)
  BY <1>7, UnpaidPool DEF BreakDeadlock
<1>8. CASE Crash(w)
  BY <1>8, UnpaidPool DEF Crash
<1>9. QED
  BY <1>1, <1>2, <1>3, <1>4, <1>5, <1>6, <1>7, <1>8 DEF Work

LEMMA NextPool ==
  ASSUME LotteryInv, PoolInv, IsFiniteSet(Users), [Next]_vars
  PROVE  PoolInv'
<1>1. CASE \E l \in Lotteries : Create(l)
  BY <1>1, CreatePool
<1>2. CASE \E l \in Lotteries, u \in Users : AddEntry(l, u)
  BY <1>2, AddEntryPool
<1>3. CASE \E w \in Workers : Work(w) \/ BreakDeadlock(w) \/ Crash(w)
  BY <1>3, WorkPool
<1>4. ASSUME NEW w \in Workers, Settle(w)
      PROVE  PoolInv'
  <2>1. worker[w].lottery \in Lotteries /\ status[worker[w].lottery] = "settling"
    BY <1>4, SettleFacts
  <2>2. /\ UNCHANGED <<rules, entrants, total>>
        /\ \A l \in Lotteries : status[l] = "none" => status'[l] = "none"
    BY <1>4, <2>1 DEF Settle, LotteryInv, Types, TypeOK
  <2>3. QED
    BY <1>4, <2>2, FundedKept, SettleAccounted DEF PoolInv
<1>5. CASE FinishCredit
  <2>1. UNCHANGED <<rules, entrants, total, status>>
    BY <1>5 DEF FinishCredit, lotteryVars
  <2>2. QED
    BY <1>5, <2>1, FundedKept, CreditAccounted DEF PoolInv
<1>6. CASE \/ \E l \in Lotteries : Dispatch(l)
           \/ \E u \in Users : BeginCredit(u)
           \/ Tick \/ UNCHANGED vars
  <2>1. UNCHANGED <<rules, entrants, total, wallet, paid, status>>
    BY <1>6 DEF Dispatch, BeginCredit, Tick, vars, lotteryVars, moneyVars
  <2>2. QED
    BY <2>1, UnpaidPool
<1>7. QED
  BY <1>1, <1>2, <1>3, <1>4, <1>5, <1>6 DEF Next

\* The wallets hold the points paid for and, to the last point, the pools of the
\* lotteries drawn: each is worth what its entries made it, is split without a
\* remainder and is paid once.  The sum is over the users, of whom there are
\* finitely many, however many.
THEOREM PoolPaidCorrect ==
  ASSUME IsFiniteSet(Users)
  PROVE  Spec => []PoolPaid
<1>1. Init => LotteryInv /\ PoolInv
  BY InitInv, InitPool
<1>2. (LotteryInv /\ PoolInv) /\ [Next]_vars => (LotteryInv /\ PoolInv)'
  BY NextInv, NextPool
<1>3. LotteryInv /\ PoolInv => PoolPaid
  BY DEF PoolInv, Accounted, PoolPaid, Drawn, Worth
<1>4. QED
  BY <1>1, <1>2, <1>3, PTL DEF Spec

=============================================================================
