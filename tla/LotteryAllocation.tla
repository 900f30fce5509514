------------------------- MODULE LotteryAllocation -------------------------
(***************************************************************************)
(* How the pool of a lottery is split among its entries in whole points.   *)
(* An allocation is a sequence of payouts in the order in which the        *)
(* entries were ranked: the first ones are the lucky ones, the next ones   *)
(* the normal ones, the rest are consoled.  What the code draws at random  *)
(* is a member of a set here, so a lottery has a set of allocations.       *)
(*                                                                         *)
(* A rule set r has a smallest and a largest payout (min, max) and the     *)
(* numbers of normal and lucky payouts (normal, lucky).                    *)
(***************************************************************************)
EXTENDS Integers, Sequences, FiniteSets, Functions

CONSTANT NormalWeights    \* random weights of normal payouts, 3..8 in the code

ASSUME WeightsAssumption == NormalWeights # {} /\ NormalWeights \subseteq Nat \ {0}

Smaller(a, b) == IF a <= b THEN a ELSE b
Larger(a, b) == IF a <= b THEN b ELSE a

\* The sequence s itself, whose elements TLC computes here and only once.
Computed(s) == SubSeq(s, 1, Len(s))

Capacity(r) == r.max - r.min

\* The lucky ones get the maximum; the rest must fit below it.
FitsPool(n, total, r) ==
    /\ r.lucky <= n - r.normal
    /\ n * r.min + r.lucky * Capacity(r) <= total
    /\ total <= n * r.max

\* A draw that comes early turns lucky payouts into normal ones as far as the
\* pool demands, and keeps the number of both together as far as it can.
FitEarlyDraw(n, total, r) ==
    LET lucky == Smaller(r.lucky, n)
        special == IF r.normal > n - lucky THEN n ELSE lucky + r.normal
        With(k) == [r EXCEPT !.lucky = k, !.normal = special - k]
    Fits(k) == k = 0 \/ FitsPool(n, total, With(k))
    IN  With(CHOOSE k \in 0..lucky :
                Fits(k) /\ \A j \in (k + 1)..lucky : ~Fits(j))

-----------------------------------------------------------------------------
(* Distributing a bonus among k payouts that can each take up to cap.      *)

Rem(r, w, sum) == (r * w) % sum

\* Faulty form: a share ignores what its payout has taken before.
ShareWhole(rest, weight, sum, room) == (rest * weight) \div sum

Share(rest, weight, sum, room) == Smaller((rest * weight) \div sum, room)

\* A round: shares by weight from one snapshot of the rest, then single points to
\* the largest remainders.
NextRound(weights, cap, round) ==
    LET given == round.given
        active == {i \in DOMAIN given : given[i] < cap}
        sum == SumFunctionOnSet(weights, active)
        shared == Computed([i \in DOMAIN given |->
                     IF i \in active
                     THEN given[i] + Share(round.rest, weights[i], sum, cap - given[i])
                     ELSE given[i]])
        left == round.rest - (SumFunction(shared) - SumFunction(given))
        open == {i \in active : shared[i] < cap}
        Over(i) == Rem(round.rest, weights[i], sum)
        Before(i) == {j \in open : Over(j) > Over(i) \/ (Over(j) = Over(i) /\ j < i)}
        topped == {i \in open : Cardinality(Before(i)) < left}
    IN  IF round.rest = 0 THEN round
        ELSE [given |-> Computed([i \in DOMAIN given |->
                            IF i \in topped THEN shared[i] + 1 ELSE shared[i]]),
              rest |-> left - Cardinality(topped)]

\* Rounds until nothing is left; each one gives a point away at least.
DistributeBonus(weights, bonus, cap) ==
    LET Rounds[n \in 0..bonus] ==
            IF n = 0
            THEN [given |-> Computed([i \in DOMAIN weights |-> 0]), rest |-> bonus]
            ELSE NextRound(weights, cap, Rounds[n - 1])
    IN  Rounds[bonus].given

\* An even split: a remainder goes to as many payouts in a row, from anywhere.
DistributeEvenly(k, bonus, offset) ==
    [i \in 1..k |-> bonus \div k +
        (IF (i - 1 - offset) % k < bonus % k THEN 1 ELSE 0)]

\* Normal payouts that came out all the same are made to differ a little.
EnsureVariation(amounts, weights, r) ==
    LET K == DOMAIN amounts
        k == Len(amounts)
        \* the first of the smallest weights and the first of the largest
        least == CHOOSE i \in K : \A j \in K :
                    weights[i] < weights[j] \/ (weights[i] = weights[j] /\ i <= j)
        most == CHOOSE i \in K : \A j \in K :
                    weights[i] > weights[j] \/ (weights[i] = weights[j] /\ i <= j)
        Moved(from, to) ==
            LET delta == Smaller(Larger((r.max - r.min) \div 10, 1),
                                 Smaller(amounts[from] - r.min, r.max - amounts[to]))
            IN  [amounts EXCEPT ![from] = @ - delta, ![to] = @ + delta]
    IN  IF \/ \E i, j \in K : amounts[i] # amounts[j]
           \/ amounts[1] \in {r.min, r.max}
        THEN {amounts}
        ELSE IF least # most THEN {Moved(least, most)}
        ELSE {Moved(from, (from % k) + 1) : from \in K}

-----------------------------------------------------------------------------
(* Allocations.                                                            *)

Tiers(n, r) ==
    LET lucky == Smaller(r.lucky, n)
        normal == Smaller(r.normal, n - lucky)
    IN  [i \in 1..n |-> IF i <= lucky THEN "lucky"
                        ELSE IF i <= lucky + normal THEN "normal"
                        ELSE "consolation"]

NormalAmounts(bonus, r) ==
    UNION {LET given == DistributeBonus(weights, bonus, Capacity(r))
               amounts == Computed([i \in 1..r.normal |-> r.min + given[i]])
           IN  IF bonus > 0 /\ r.normal > 1
               THEN EnsureVariation(amounts, weights, r)
               ELSE {amounts} : weights \in [1..r.normal -> NormalWeights]}

\* The normal payouts absorb what the lucky ones leave, the consoled ones what
\* is too much for them.
Spare(n, total, r) == total - n * r.min - r.lucky * Capacity(r)
Absorbed(n, total, r) == Smaller(Spare(n, total, r), r.normal * Capacity(r))

FixedAllocation(n, total, r, normals, offset) ==
    LET special == r.lucky + r.normal
        consoled == DistributeEvenly(n - special,
                        Spare(n, total, r) - Absorbed(n, total, r), offset)
        amount == [i \in 1..n |->
                      IF i <= r.lucky THEN r.max
                      ELSE IF i <= special THEN normals[i - r.lucky]
                      ELSE r.min + consoled[i - special]]
    IN  Computed([i \in 1..n |-> [tier |-> Tiers(n, r)[i], amount |-> amount[i]]])

FixedCounts(n, total, r) ==
    {FixedAllocation(n, total, r, normals, offset) :
        normals \in IF r.normal = 0 THEN {<<>>}
                    ELSE NormalAmounts(Absorbed(n, total, r), r),
        offset \in 0..Larger(n - r.lucky - r.normal - 1, 0)}

\* When the rules do not fit the pool is split evenly, whatever its bounds.
Fallback(n, total, r) ==
    {Computed([i \in 1..n |-> [tier |-> Tiers(n, r)[i],
                               amount |-> DistributeEvenly(n, total, offset)[i]]]) :
        offset \in 0..(n - 1)}

\* A draw that came by its time may have too few entries for its payouts.
Allocations(n, total, r, early) ==
    LET rules == IF early /\ n < r.normal + r.lucky
                 THEN FitEarlyDraw(n, total, r)
                 ELSE r
    IN  IF FitsPool(n, total, rules)
        THEN FixedCounts(n, total, rules)
        ELSE Fallback(n, total, r)

=============================================================================
