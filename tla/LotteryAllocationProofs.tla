----------------------- MODULE LotteryAllocationProofs -----------------------
(***************************************************************************)
(* What the split of a pool computes, for every number of entries, every   *)
(* pool, every rule set and every outcome of the lots: the awards sum up   *)
(* to the pool, and they are within the bounds of the rules whenever the   *)
(* pool allows it.                                                         *)
(*                                                                         *)
(* The inductions over recursive definitions are stated for sets: whoever  *)
(* wants to show something of every number, or of every finite set, shows  *)
(* that the set P of those for which it holds contains them all.           *)
(***************************************************************************)
EXTENDS LotteryAllocation, FiniteSetTheorems, SequenceTheorems,
        WellFoundedInduction, TLAPS

-----------------------------------------------------------------------------
(* Induction.  The least number principle comes from the library's theorem *)
(* about well-founded relations.                                           *)

LEMMA LeastOf ==
  ASSUME NEW T \in SUBSET Nat, T # {}
  PROVE  \E n \in T : \A m \in T : n <= m
<1> DEFINE R == {p \in Nat \X Nat : p[1] < p[2]}
<1>1. IsWellFoundedOn(R, Nat)
  BY NatLessThanWellFounded DEF OpToRel
<1> HIDE DEF R
<1>2. PICK n \in T : \A m \in T : ~(<<m, n>> \in R)
  BY <1>1, WFMin
<1>3. ASSUME NEW m \in T PROVE n <= m
  <2>1. m \in Nat /\ n \in Nat
    OBVIOUS
  <2>2. m < n => <<m, n>> \in R
    BY <2>1 DEF R
  <2>3. QED
    BY <1>2, <2>1, <2>2
<1>4. QED
  BY <1>3

LEMMA GreatestOf ==
  ASSUME NEW b \in Nat, NEW T \in SUBSET (0..b), T # {}
  PROVE  \E n \in T : \A m \in (n + 1)..b : m \notin T
<1> DEFINE U == {b - n : n \in T}
<1>1. U \in SUBSET Nat /\ U # {}
  <2>1. \A n \in T : n \in 0..b
    OBVIOUS
  <2>2. \A n \in 0..b : b - n \in Nat
    OBVIOUS
  <2>3. QED
    BY <2>1, <2>2
<1>2. PICK k \in U : \A m \in U : k <= m
  <2> HIDE DEF U
  <2> QED
    BY <1>1, LeastOf
<1>3. PICK n \in T : k = b - n
  BY <1>2
<1>4. ASSUME NEW m \in (n + 1)..b, m \in T
      PROVE  FALSE
  <2>1. b - m \in U /\ n \in 0..b
    BY <1>4
  <2>2. b - n <= b - m
    BY <1>2, <1>3, <2>1
  <2>3. QED
    BY <1>4, <2>1, <2>2
<1>5. QED
  BY <1>4

LEMMA NumberInduction ==
  ASSUME NEW P, 0 \in P, \A n \in Nat : n \in P => n + 1 \in P
  PROVE  \A n \in Nat : n \in P
<1> SUFFICES ASSUME NEW k \in Nat, k \notin P
             PROVE  FALSE
  OBVIOUS
<1> DEFINE T == {n \in Nat : n \notin P}
<1>1. PICK n \in T : \A m \in T : n <= m
  <2>1. T \in SUBSET Nat /\ T # {}
    OBVIOUS
  <2> HIDE DEF T
  <2>2. QED
    BY <2>1, LeastOf
<1>2. n # 0 /\ n - 1 \in Nat /\ n - 1 \notin T
  BY <1>1
<1>3. QED
  BY <1>1, <1>2

\* A finite set has whatever a set has when its subsets with one element less do.
LEMMA SetInduction ==
  ASSUME NEW S, IsFiniteSet(S), NEW P,
         \A T \in SUBSET S : (\A x \in T : T \ {x} \in P) => T \in P
  PROVE  S \in P
<1> SUFFICES ASSUME S \notin P
             PROVE  FALSE
  OBVIOUS
<1> DEFINE Bad == {T \in SUBSET S : T \notin P}
           Sizes == {Cardinality(T) : T \in Bad}
<1>1. \A T \in SUBSET S : IsFiniteSet(T) /\ Cardinality(T) \in Nat
  BY FS_Subset, FS_CardinalityType
<1>2. Sizes \in SUBSET Nat /\ Sizes # {}
  BY <1>1
<1>3. PICK n \in Sizes : \A m \in Sizes : n <= m
  <2> HIDE DEF Sizes
  <2> QED
    BY <1>2, LeastOf
<1>4. PICK T \in Bad : n = Cardinality(T)
  BY <1>3
<1>5. PICK x \in T : T \ {x} \notin P
  BY <1>4
<1>6. Cardinality(T \ {x}) = n - 1 /\ n \in Nat
  BY <1>1, <1>4, <1>5, FS_RemoveElement
<1>7. T \ {x} \in Bad
  BY <1>4, <1>5
<1>8. QED
  BY <1>3, <1>6, <1>7

-----------------------------------------------------------------------------
(* Sums.                                                                   *)

Pick(s) == CHOOSE x \in s : TRUE

\* The recursive function behind SumFunctionOnSet.
Iterates(f, D, iter) ==
    iter = [s \in D |-> IF s = {} THEN 0 ELSE f[Pick(s)] + iter[s \ {Pick(s)}]]

Iter(f, S) == CHOOSE iter : Iterates(f, SUBSET S, iter)

LEMMA SumIter ==
  ASSUME NEW f, NEW S
  PROVE  SumFunctionOnSet(f, S) = Iter(f, S)[S]
  BY DEF SumFunctionOnSet, FoldFunctionOnSet, MapThenFoldSet, Iter, Iterates, Pick

LEMMA PickSmaller ==
  ASSUME NEW S, IsFiniteSet(S), NEW s \in SUBSET S, s # {}
  PROVE  /\ Pick(s) \in s /\ s \ {Pick(s)} \in SUBSET S
         /\ Cardinality(s) \in Nat
         /\ Cardinality(s \ {Pick(s)}) = Cardinality(s) - 1
<1>1. Pick(s) \in s
  BY DEF Pick
<1>2. IsFiniteSet(s)
  BY FS_Subset
<1>3. QED
  BY <1>1, <1>2, FS_RemoveElement, FS_CardinalityType

\* There is such a function: it is built up by the sizes of the sets.
LEMMA IterExists ==
  ASSUME NEW f, NEW S, IsFiniteSet(S)
  PROVE  Iterates(f, SUBSET S, Iter(f, S))
<1> DEFINE D(n) == {s \in SUBSET S : Cardinality(s) <= n}
           P == {n \in Nat : \E iter : Iterates(f, D(n), iter)}
<1>0. \A s \in SUBSET S : Cardinality(s) \in Nat /\ (Cardinality(s) = 0 <=> s = {})
  BY FS_Subset, FS_CardinalityType, FS_EmptySet
<1>1. 0 \in P
  <2>1. \A s \in D(0) : s = {}
    BY <1>0
  <2>2. Iterates(f, D(0), [s \in D(0) |-> 0])
    BY <2>1 DEF Iterates
  <2>3. QED
    BY <2>2
<1>2. ASSUME NEW n \in Nat, n \in P
      PROVE  n + 1 \in P
  <2>1. PICK g : Iterates(f, D(n), g)
    BY <1>2
  <2> DEFINE h == [s \in D(n + 1) |-> IF s = {} THEN 0 ELSE f[Pick(s)] + g[s \ {Pick(s)}]]
  <2>2. ASSUME NEW s \in D(n + 1), s # {}
        PROVE  s \ {Pick(s)} \in D(n)
    BY <1>2, <2>2, PickSmaller
  <2>3. ASSUME NEW s \in D(n)
        PROVE  s \in D(n + 1) /\ h[s] = g[s]
    <3>1. s \in D(n + 1)
      BY <1>0, <1>2, <2>3
    <3>2. g[s] = IF s = {} THEN 0 ELSE f[Pick(s)] + g[s \ {Pick(s)}]
      BY <2>1, <2>3 DEF Iterates
    <3>3. QED
      BY <3>1, <3>2
  <2>4. Iterates(f, D(n + 1), h)
    <3> HIDE DEF D
    <3>1. \A s \in D(n + 1) : s # {} => h[s \ {Pick(s)}] = g[s \ {Pick(s)}]
      BY <2>2, <2>3
    <3>2. QED
      BY <3>1 DEF Iterates
  <2>5. \E iter : Iterates(f, D(n + 1), iter)
    <3> HIDE DEF h, D
    <3> QED
      BY <2>4
  <2>6. QED
    <3> HIDE DEF D
    <3> QED
      BY <2>5
<1>3. \A n \in Nat : n \in P
  <2> HIDE DEF P
  <2> QED
    BY <1>1, <1>2, NumberInduction
<1>4. D(Cardinality(S)) = SUBSET S
  BY FS_Subset
<1>5. \E iter : Iterates(f, SUBSET S, iter)
  <2>1. Cardinality(S) \in P
    BY <1>0, <1>3
  <2> HIDE DEF D
  <2>2. QED
    BY <1>4, <2>1
<1>6. QED
  BY <1>5 DEF Iter

\* What it says of a set does not depend on the set it is built for.
LEMMA IterSame ==
  ASSUME NEW f, NEW S, IsFiniteSet(S), NEW T \in SUBSET S
  PROVE  Iter(f, S)[T] = Iter(f, T)[T]
<1> DEFINE P == {s \in SUBSET T : Iter(f, S)[s] = Iter(f, T)[s]}
<1>1. IsFiniteSet(T)
  BY FS_Subset
<1>2. Iterates(f, SUBSET S, Iter(f, S)) /\ Iterates(f, SUBSET T, Iter(f, T))
  BY <1>1, IterExists
<1>3. ASSUME NEW s \in SUBSET T, \A x \in s : s \ {x} \in P
      PROVE  s \in P
  <2>1. /\ Iter(f, S)[s] = IF s = {} THEN 0 ELSE f[Pick(s)] + Iter(f, S)[s \ {Pick(s)}]
        /\ Iter(f, T)[s] = IF s = {} THEN 0 ELSE f[Pick(s)] + Iter(f, T)[s \ {Pick(s)}]
    BY <1>2 DEF Iterates
  <2>2. s # {} => Pick(s) \in s
    BY DEF Pick
  <2>3. QED
    BY <1>3, <2>1, <2>2
<1>4. T \in P
  <2> HIDE DEF P
  <2> QED
    BY <1>1, <1>3, SetInduction
<1>5. QED
  BY <1>4

LEMMA SumEmpty ==
  ASSUME NEW f
  PROVE  SumFunctionOnSet(f, {}) = 0
<1>1. Iterates(f, SUBSET {}, Iter(f, {}))
  BY IterExists, FS_EmptySet
<1>2. QED
  BY <1>1, SumIter DEF Iterates

LEMMA SumPick ==
  ASSUME NEW f, NEW S, IsFiniteSet(S), S # {}
  PROVE  SumFunctionOnSet(f, S) = f[Pick(S)] + SumFunctionOnSet(f, S \ {Pick(S)})
<1>1. Iter(f, S)[S] = f[Pick(S)] + Iter(f, S)[S \ {Pick(S)}]
  <2>1. Iterates(f, SUBSET S, Iter(f, S)) /\ S \in SUBSET S
    BY IterExists
  <2>2. QED
    BY <2>1 DEF Iterates
<1>2. Iter(f, S)[S \ {Pick(S)}] = Iter(f, S \ {Pick(S)})[S \ {Pick(S)}]
  BY IterSame
<1>3. QED
  BY <1>1, <1>2, SumIter

LEMMA SumType ==
  ASSUME NEW f, NEW S, IsFiniteSet(S), \A x \in S : f[x] \in Int
  PROVE  SumFunctionOnSet(f, S) \in Int
<1> DEFINE P == {T \in SUBSET S : SumFunctionOnSet(f, T) \in Int}
<1>1. ASSUME NEW T \in SUBSET S, \A x \in T : T \ {x} \in P
      PROVE  T \in P
  <2>1. CASE T = {}
    BY <2>1, SumEmpty
  <2>2. CASE T # {}
    <3>1. IsFiniteSet(T)
      BY FS_Subset
    <3>2. Pick(T) \in T
      BY <2>2 DEF Pick
    <3>3. SumFunctionOnSet(f, T) = f[Pick(T)] + SumFunctionOnSet(f, T \ {Pick(T)})
      BY <2>2, <3>1, SumPick
    <3>4. f[Pick(T)] \in Int /\ SumFunctionOnSet(f, T \ {Pick(T)}) \in Int
      BY <1>1, <3>2
    <3>5. QED
      BY <3>3, <3>4
  <2>3. QED
    BY <2>1, <2>2
<1>2. S \in P
  <2> HIDE DEF P
  <2> QED
    BY <1>1, SetInduction
<1>3. QED
  BY <1>2

\* Any element may be taken out first.
LEMMA SumRemove ==
  ASSUME NEW f, NEW S, IsFiniteSet(S), \A x \in S : f[x] \in Int, NEW e \in S
  PROVE  /\ SumFunctionOnSet(f, S) = f[e] + SumFunctionOnSet(f, S \ {e})
         /\ SumFunctionOnSet(f, S) \in Int /\ SumFunctionOnSet(f, S \ {e}) \in Int
<1> DEFINE Sum(T) == SumFunctionOnSet(f, T)
           P == {T \in SUBSET S : \A x \in T : Sum(T) = f[x] + Sum(T \ {x})}
<1>0. \A T \in SUBSET S : IsFiniteSet(T) /\ Sum(T) \in Int
  BY FS_Subset, SumType
<1>1. ASSUME NEW T \in SUBSET S, \A x \in T : T \ {x} \in P, NEW x \in T
      PROVE  Sum(T) = f[x] + Sum(T \ {x})
  <2> DEFINE y == Pick(T)
  <2>1. y \in T
    BY DEF Pick
  <2>2. Sum(T) = f[y] + Sum(T \ {y})
    BY <1>0, SumPick
  <2> HIDE DEF y
  <2>3. CASE x = y
    BY <2>2, <2>3
  <2>4. CASE x # y
    <3> DEFINE U == T \ {x, y}
    <3>1. U = (T \ {x}) \ {y} /\ U = (T \ {y}) \ {x} /\ U \in SUBSET S
      OBVIOUS
    <3>2. Sum(T \ {y}) = f[x] + Sum(U)
      BY <1>1, <2>1, <2>4, <3>1
    <3>3. Sum(T \ {x}) = f[y] + Sum(U)
      BY <1>1, <2>1, <2>4, <3>1
    <3>4. Sum(U) \in Int /\ f[x] \in Int /\ f[y] \in Int
      BY <1>0, <2>1, <3>1
    <3> HIDE DEF Sum, U
    <3>5. QED
      BY <2>2, <3>2, <3>3, <3>4
  <2>5. QED
    BY <2>3, <2>4
<1>2. S \in P
  <2>1. \A T \in SUBSET S : (\A x \in T : T \ {x} \in P) => T \in P
    BY <1>1
  <2> HIDE DEF P
  <2> QED
    BY <2>1, SetInduction
<1>3. S \ {e} \in SUBSET S /\ S \in SUBSET S
  OBVIOUS
<1>4. QED
  BY <1>0, <1>2, <1>3

LEMMA SumAdd ==
  ASSUME NEW f, NEW S, IsFiniteSet(S), NEW e, e \notin S, \A x \in S \cup {e} : f[x] \in Int
  PROVE  SumFunctionOnSet(f, S \cup {e}) = f[e] + SumFunctionOnSet(f, S)
<1>1. (S \cup {e}) \ {e} = S /\ IsFiniteSet(S \cup {e})
  BY FS_AddElement
<1>2. QED
  BY <1>1, SumRemove

LEMMA SumSame ==
  ASSUME NEW f, NEW g, NEW S, IsFiniteSet(S), \A x \in S : f[x] = g[x]
  PROVE  SumFunctionOnSet(f, S) = SumFunctionOnSet(g, S)
<1> DEFINE P == {T \in SUBSET S : SumFunctionOnSet(f, T) = SumFunctionOnSet(g, T)}
<1>1. ASSUME NEW T \in SUBSET S, \A x \in T : T \ {x} \in P
      PROVE  T \in P
  <2>1. CASE T = {}
    BY <2>1, SumEmpty
  <2>2. CASE T # {}
    <3>1. IsFiniteSet(T)
      BY FS_Subset
    <3>2. Pick(T) \in T
      BY <2>2 DEF Pick
    <3>3. /\ SumFunctionOnSet(f, T) = f[Pick(T)] + SumFunctionOnSet(f, T \ {Pick(T)})
          /\ SumFunctionOnSet(g, T) = g[Pick(T)] + SumFunctionOnSet(g, T \ {Pick(T)})
      BY <2>2, <3>1, SumPick
    <3>4. QED
      BY <1>1, <3>2, <3>3
  <2>3. QED
    BY <2>1, <2>2
<1>2. S \in P
  <2> HIDE DEF P
  <2> QED
    BY <1>1, SetInduction
<1>3. QED
  BY <1>2

\* A set and another that has nothing in common with it.
LEMMA SumUnion ==
  ASSUME NEW f, NEW A, IsFiniteSet(A), NEW B, IsFiniteSet(B), A \cap B = {},
         \A x \in A \cup B : f[x] \in Int
  PROVE  SumFunctionOnSet(f, A \cup B) = SumFunctionOnSet(f, A) + SumFunctionOnSet(f, B)
<1> DEFINE Sum(T) == SumFunctionOnSet(f, T)
           P == {T \in SUBSET B : Sum(A \cup T) = Sum(A) + Sum(T)}
<1>0. Sum(A) \in Int
  BY SumType
<1>1. ASSUME NEW T \in SUBSET B, \A x \in T : T \ {x} \in P
      PROVE  T \in P
  <2>1. CASE T = {}
    <3>1. A \cup T = A /\ Sum(T) = 0
      BY <2>1, SumEmpty
    <3> HIDE DEF Sum
    <3>2. QED
      BY <1>0, <3>1
  <2>2. CASE T # {}
    <3>1. PICK x : x \in T
      BY <2>2
    <3>2. IsFiniteSet(T) /\ IsFiniteSet(A \cup T)
      BY FS_Subset, FS_Union
    <3>3. (A \cup T) \ {x} = A \cup (T \ {x})
      BY <3>1
    <3>4. Sum(A \cup T) = f[x] + Sum(A \cup (T \ {x}))
      BY <3>1, <3>2, <3>3, SumRemove
    <3>5. Sum(T) = f[x] + Sum(T \ {x}) /\ Sum(T \ {x}) \in Int /\ f[x] \in Int
      BY <3>1, <3>2, SumRemove
    <3>6. Sum(A \cup (T \ {x})) = Sum(A) + Sum(T \ {x})
      BY <1>1, <3>1
    <3> HIDE DEF Sum
    <3>7. QED
      BY <1>0, <3>4, <3>5, <3>6
  <2>3. QED
    BY <2>1, <2>2
<1>2. B \in P
  <2> HIDE DEF P
  <2> QED
    BY <1>1, SetInduction
<1>3. QED
  BY <1>2

LEMMA SumPlus ==
  ASSUME NEW f, NEW g, NEW h, NEW S, IsFiniteSet(S),
         \A x \in S : f[x] \in Int /\ g[x] \in Int /\ h[x] = f[x] + g[x]
  PROVE  SumFunctionOnSet(h, S) = SumFunctionOnSet(f, S) + SumFunctionOnSet(g, S)
<1> DEFINE Sum(k, T) == SumFunctionOnSet(k, T)
           P == {T \in SUBSET S : Sum(h, T) = Sum(f, T) + Sum(g, T)}
<1>1. ASSUME NEW T \in SUBSET S, \A x \in T : T \ {x} \in P
      PROVE  T \in P
  <2>1. CASE T = {}
    BY <2>1, SumEmpty
  <2>2. CASE T # {}
    <3>1. PICK x : x \in T
      BY <2>2
    <3>2. IsFiniteSet(T)
      BY FS_Subset
    <3>3. /\ Sum(f, T) = f[x] + Sum(f, T \ {x}) /\ Sum(f, T \ {x}) \in Int
          /\ Sum(g, T) = g[x] + Sum(g, T \ {x}) /\ Sum(g, T \ {x}) \in Int
          /\ Sum(h, T) = h[x] + Sum(h, T \ {x})
      BY <3>1, <3>2, SumRemove
    <3>4. Sum(h, T \ {x}) = Sum(f, T \ {x}) + Sum(g, T \ {x})
      BY <1>1, <3>1
    <3>5. f[x] \in Int /\ g[x] \in Int /\ h[x] = f[x] + g[x]
      BY <3>1
    <3> HIDE DEF Sum
    <3>6. QED
      BY <3>3, <3>4, <3>5
  <2>3. QED
    BY <2>1, <2>2
<1>2. S \in P
  <2> HIDE DEF P
  <2> QED
    BY <1>1, SetInduction
<1>3. QED
  BY <1>2

\* A map that takes sums to sums.
Additive(m) ==
    m[0] = 0 /\ \A a, b \in Int : m[a] \in Int /\ m[a + b] = m[a] + m[b]

LEMMA SumThrough ==
  ASSUME NEW m, Additive(m),
         NEW f, NEW h, NEW S, IsFiniteSet(S),
         \A x \in S : f[x] \in Int /\ h[x] = m[f[x]]
  PROVE  SumFunctionOnSet(h, S) = m[SumFunctionOnSet(f, S)]
<1> DEFINE Sum(k, T) == SumFunctionOnSet(k, T)
           P == {T \in SUBSET S : Sum(h, T) = m[Sum(f, T)]}
<1>1. ASSUME NEW T \in SUBSET S, \A x \in T : T \ {x} \in P
      PROVE  T \in P
  <2>1. CASE T = {}
    BY <2>1, SumEmpty DEF Additive
  <2>2. CASE T # {}
    <3>1. PICK x : x \in T
      BY <2>2
    <3>2. IsFiniteSet(T) /\ \A z \in S : h[z] \in Int
      BY FS_Subset DEF Additive
    <3>3. /\ Sum(f, T) = f[x] + Sum(f, T \ {x}) /\ Sum(f, T \ {x}) \in Int
          /\ Sum(h, T) = h[x] + Sum(h, T \ {x})
      BY <3>1, <3>2, SumRemove
    <3>4. Sum(h, T \ {x}) = m[Sum(f, T \ {x})]
      BY <1>1, <3>1
    <3>5. f[x] \in Int /\ h[x] = m[f[x]]
      BY <3>1
    <3> HIDE DEF Sum
    <3>6. Sum(h, T) = m[Sum(f, T)]
      BY <3>3, <3>4, <3>5 DEF Additive
    <3>7. QED
      BY <3>6
  <2>3. QED
    BY <2>1, <2>2
<1>2. S \in P
  <2> HIDE DEF P
  <2> QED
    BY <1>1, SetInduction
<1>3. QED
  BY <1>2

LEMMA SumAtMost ==
  ASSUME NEW f, NEW g, NEW S, IsFiniteSet(S),
         \A x \in S : f[x] \in Int /\ g[x] \in Int /\ f[x] <= g[x]
  PROVE  SumFunctionOnSet(f, S) <= SumFunctionOnSet(g, S)
<1> DEFINE Sum(k, T) == SumFunctionOnSet(k, T)
           P == {T \in SUBSET S : Sum(f, T) <= Sum(g, T)}
<1>1. ASSUME NEW T \in SUBSET S, \A x \in T : T \ {x} \in P
      PROVE  T \in P
  <2>1. CASE T = {}
    BY <2>1, SumEmpty
  <2>2. CASE T # {}
    <3>1. PICK x : x \in T
      BY <2>2
    <3>2. IsFiniteSet(T)
      BY FS_Subset
    <3>3. /\ Sum(f, T) = f[x] + Sum(f, T \ {x}) /\ Sum(f, T \ {x}) \in Int
          /\ Sum(g, T) = g[x] + Sum(g, T \ {x}) /\ Sum(g, T \ {x}) \in Int
      BY <3>1, <3>2, SumRemove
    <3>4. Sum(f, T \ {x}) <= Sum(g, T \ {x})
      BY <1>1, <3>1
    <3>5. f[x] \in Int /\ g[x] \in Int /\ f[x] <= g[x]
      BY <3>1
    <3> HIDE DEF Sum
    <3>6. QED
      BY <3>3, <3>4, <3>5
  <2>3. QED
    BY <2>1, <2>2
<1>2. S \in P
  <2> HIDE DEF P
  <2> QED
    BY <1>1, SetInduction
<1>3. QED
  BY <1>2

\* The same of every element.
LEMMA SumConstant ==
  ASSUME NEW c \in Int, NEW f, NEW S, IsFiniteSet(S), \A x \in S : f[x] = c
  PROVE  SumFunctionOnSet(f, S) = c * Cardinality(S)
<1> DEFINE Sum(T) == SumFunctionOnSet(f, T)
           P == {T \in SUBSET S : Sum(T) = c * Cardinality(T)}
<1>1. ASSUME NEW T \in SUBSET S, \A x \in T : T \ {x} \in P
      PROVE  T \in P
  <2>1. CASE T = {}
    BY <2>1, SumEmpty, FS_EmptySet
  <2>2. CASE T # {}
    <3>1. PICK x : x \in T
      BY <2>2
    <3>2. IsFiniteSet(T) /\ f[x] = c
      BY <3>1, FS_Subset
    <3>3. Sum(T) = c + Sum(T \ {x})
      BY <3>1, <3>2, SumRemove
    <3>4. Sum(T \ {x}) = c * Cardinality(T \ {x})
      BY <1>1, <3>1
    <3>5. Cardinality(T) \in Nat /\ Cardinality(T \ {x}) = Cardinality(T) - 1
      BY <3>1, <3>2, FS_RemoveElement, FS_CardinalityType
    <3>6. \A a \in Int : c * (a - 1) = c * a - c /\ c * a \in Int
      OBVIOUS
    <3> HIDE DEF Sum
    <3>7. Sum(T) = c * Cardinality(T)
      BY <3>3, <3>4, <3>5, <3>6
    <3>8. QED
      BY <3>7
  <2>3. QED
    BY <2>1, <2>2
<1>2. S \in P
  <2> HIDE DEF P
  <2> QED
    BY <1>1, SetInduction
<1>3. QED
  BY <1>2

LEMMA ImageFinite ==
  ASSUME NEW U, IsFiniteSet(U), NEW h
  PROVE  IsFiniteSet({h[x] : x \in U})
<1> DEFINE T == {h[x] : x \in U}
           r == [x \in U |-> h[x]]
<1>1. r \in Surjection(U, T)
  BY DEF Surjection
<1> HIDE DEF T, r
<1>2. IsFiniteSet(T)
  BY <1>1, FS_Surjection
<1>3. QED
  BY <1>2 DEF T

\* What is summed may go by other names.
LEMMA SumRename ==
  ASSUME NEW f, NEW g, NEW h, NEW T, IsFiniteSet(T),
         \A x, y \in T : x # y => h[x] # h[y],
         \A x \in T : g[x] = f[h[x]] /\ g[x] \in Int
  PROVE  SumFunctionOnSet(f, {h[x] : x \in T}) = SumFunctionOnSet(g, T)
<1> DEFINE Image(U) == {h[x] : x \in U}
           P == {U \in SUBSET T : SumFunctionOnSet(f, Image(U)) = SumFunctionOnSet(g, U)}
<1>1. ASSUME NEW U \in SUBSET T, \A x \in U : U \ {x} \in P
      PROVE  U \in P
  <2>1. CASE U = {}
    <3>1. Image(U) = {}
      BY <2>1
    <3>2. SumFunctionOnSet(f, {}) = 0 /\ SumFunctionOnSet(g, {}) = 0
      BY SumEmpty
    <3> HIDE DEF Image
    <3>3. QED
      BY <2>1, <3>1, <3>2
  <2>2. CASE U # {}
    <3>1. PICK x : x \in U
      BY <2>2
    <3>2. IsFiniteSet(U) /\ IsFiniteSet(Image(U))
      BY FS_Subset, ImageFinite
    <3>3. Image(U) \ {h[x]} = Image(U \ {x}) /\ h[x] \in Image(U)
      BY <3>1
    <3>4. \A z \in Image(U) : f[z] \in Int
      <4>1. \A y \in U : f[h[y]] \in Int
        OBVIOUS
      <4>2. QED
        BY <4>1
    <3> HIDE DEF Image
    <3>5. SumFunctionOnSet(f, Image(U)) = f[h[x]] + SumFunctionOnSet(f, Image(U \ {x}))
      <4>1. \A e \in Image(U) : SumFunctionOnSet(f, Image(U)) =
                               f[e] + SumFunctionOnSet(f, Image(U) \ {e})
        BY <3>2, <3>4, SumRemove
      <4>2. QED
        BY <3>3, <4>1
    <3>6. SumFunctionOnSet(g, U) = g[x] + SumFunctionOnSet(g, U \ {x})
      BY <3>1, <3>2, SumRemove
    <3>7. SumFunctionOnSet(f, Image(U \ {x})) = SumFunctionOnSet(g, U \ {x})
      BY <1>1, <3>1
    <3>8. QED
      BY <3>1, <3>5, <3>6, <3>7
  <2>3. QED
    BY <2>1, <2>2
<1>2. T \in P
  <2> HIDE DEF P
  <2> QED
    BY <1>1, SetInduction
<1>3. QED
  BY <1>2

\* Of no negative number: no summand is more than the sum.
LEMMA SumNat ==
  ASSUME NEW f, NEW S, IsFiniteSet(S), \A x \in S : f[x] \in Nat
  PROVE  /\ SumFunctionOnSet(f, S) \in Nat
         /\ \A x \in S : f[x] <= SumFunctionOnSet(f, S)
<1> DEFINE none == [x \in S |-> 0]
<1>1. ASSUME NEW T \in SUBSET S
      PROVE  SumFunctionOnSet(f, T) \in Nat
  <2>1. IsFiniteSet(T) /\ Cardinality(T) \in Nat
    BY FS_Subset, FS_CardinalityType
  <2>2. SumFunctionOnSet(none, T) = 0 * Cardinality(T)
    <3>1. \A x \in T : none[x] = 0
      OBVIOUS
    <3> HIDE DEF none
    <3>2. QED
      BY <2>1, <3>1, SumConstant
  <2>3. SumFunctionOnSet(none, T) <= SumFunctionOnSet(f, T)
    <3>1. \A x \in T : none[x] \in Int /\ f[x] \in Int /\ none[x] <= f[x]
      OBVIOUS
    <3> HIDE DEF none
    <3>2. QED
      BY <2>1, <3>1, SumAtMost
  <2>4. SumFunctionOnSet(f, T) \in Int
    BY <2>1, SumType
  <2> HIDE DEF none
  <2>5. QED
    BY <2>1, <2>2, <2>3, <2>4
<1>2. ASSUME NEW x \in S
      PROVE  f[x] <= SumFunctionOnSet(f, S)
  <2>1. SumFunctionOnSet(f, S) = f[x] + SumFunctionOnSet(f, S \ {x})
    BY SumRemove
  <2>2. SumFunctionOnSet(f, S \ {x}) \in Nat
    BY <1>1
  <2>3. QED
    BY <2>1, <2>2
<1>3. QED
  BY <1>1, <1>2

\* What is zero need not be summed.
LEMMA SumSupport ==
  ASSUME NEW f, NEW S, IsFiniteSet(S), NEW A \in SUBSET S,
         \A x \in S : f[x] \in Int, \A x \in S \ A : f[x] = 0
  PROVE  SumFunctionOnSet(f, S) = SumFunctionOnSet(f, A)
<1> DEFINE B == S \ A
<1>1. IsFiniteSet(A) /\ IsFiniteSet(B) /\ A \cap B = {} /\ A \cup B = S
  BY FS_Subset
<1>2. SumFunctionOnSet(f, A) \in Int /\ Cardinality(B) \in Nat
  BY <1>1, SumType, FS_CardinalityType
<1>3. SumFunctionOnSet(f, B) = 0 * Cardinality(B)
  BY <1>1, SumConstant
<1>4. SumFunctionOnSet(f, A \cup B) = SumFunctionOnSet(f, A) + SumFunctionOnSet(f, B)
  <2>1. \A x \in A \cup B : f[x] \in Int
    OBVIOUS
  <2> HIDE DEF B
  <2>2. QED
    BY <1>1, <2>1, SumUnion
<1> HIDE DEF B
<1>5. SumFunctionOnSet(f, S) = SumFunctionOnSet(f, A) + SumFunctionOnSet(f, B)
  BY <1>1, <1>4
<1>6. 0 * Cardinality(B) = 0
  BY <1>2
<1>7. QED
  BY <1>2, <1>3, <1>5, <1>6

LEMMA SumCount ==
  ASSUME NEW f, NEW S, IsFiniteSet(S), NEW A \in SUBSET S,
         \A x \in S : f[x] = IF x \in A THEN 1 ELSE 0
  PROVE  SumFunctionOnSet(f, S) = Cardinality(A)
<1>1. IsFiniteSet(A) /\ Cardinality(A) \in Nat
  BY FS_Subset, FS_CardinalityType
<1>2. SumFunctionOnSet(f, S) = SumFunctionOnSet(f, A)
  BY SumSupport
<1>3. SumFunctionOnSet(f, A) = 1 * Cardinality(A)
  BY <1>1, SumConstant
<1>4. QED
  BY <1>1, <1>2, <1>3

LEMMA ComputedSame ==
  ASSUME NEW n \in Nat, NEW S, NEW f \in [1..n -> S]
  PROVE  Computed(f) = f
<1>1. f \in Seq(S)
  BY SeqDef
<1>2. Len(f) = n
  BY <1>1, LenProperties
<1>3. QED
  BY <1>1, <1>2 DEF Computed

-----------------------------------------------------------------------------
(* A round of the bonus.                                                   *)

\* The lots of a round are ordered by their remainders, then by their places:
\* the first `left' of them, of all there are, get a point.
LEMMA ToppedUp ==
  ASSUME NEW open \in SUBSET Nat, IsFiniteSet(open), NEW over \in [open -> Int],
         NEW left \in Nat
  PROVE  LET Before(i) == {j \in open : over[j] > over[i] \/ (over[j] = over[i] /\ j < i)}
             topped == {i \in open : Cardinality(Before(i)) < left}
         IN  /\ IsFiniteSet(topped) /\ Cardinality(topped) \in 0..left
             /\ open # {} /\ left > 0 => Cardinality(topped) > 0
<1> DEFINE Before(i) == {j \in open : over[j] > over[i] \/ (over[j] = over[i] /\ j < i)}
           topped == {i \in open : Cardinality(Before(i)) < left}
<1>1. \A i \in open : IsFiniteSet(Before(i)) /\ Cardinality(Before(i)) \in Nat
  BY FS_Subset, FS_CardinalityType
<1>2. IsFiniteSet(topped) /\ Cardinality(topped) \in Nat /\ (Cardinality(topped) = 0 => topped = {})
  BY FS_Subset, FS_CardinalityType, FS_EmptySet
<1>3. ASSUME NEW i \in open, NEW j \in open, i # j
      PROVE  i \in Before(j) \/ j \in Before(i)
  BY <1>3
<1>4. ASSUME NEW i \in open, NEW j \in open, j \in Before(i)
      PROVE  Cardinality(Before(j)) < Cardinality(Before(i))
  <2>1. ASSUME NEW m \in Before(j)
        PROVE  m \in Before(i) \ {j}
    <3>1. /\ m \in open /\ i \in Nat /\ j \in Nat /\ m \in Nat
          /\ over[i] \in Int /\ over[j] \in Int /\ over[m] \in Int
      OBVIOUS
    <3>2. /\ over[m] > over[j] \/ (over[m] = over[j] /\ m < j)
          /\ over[j] > over[i] \/ (over[j] = over[i] /\ j < i)
      BY <1>4
    <3>3. m # j /\ (over[m] > over[i] \/ (over[m] = over[i] /\ m < i))
      BY <3>1, <3>2
    <3>4. QED
      BY <3>1, <3>3
  <2>2. /\ IsFiniteSet(Before(i) \ {j})
        /\ Cardinality(Before(i) \ {j}) = Cardinality(Before(i)) - 1
    BY <1>1, <1>4, FS_RemoveElement
  <2>3. Cardinality(Before(j)) <= Cardinality(Before(i) \ {j})
    <3> HIDE DEF Before
    <3> QED
      BY <2>1, <2>2, FS_Subset
  <2> HIDE DEF Before
  <2>4. QED
    BY <1>1, <2>2, <2>3
<1>5. Cardinality(topped) <= left
  <2>1. CASE topped = {}
    <3>1. Cardinality(topped) = 0
      BY <2>1, FS_EmptySet
    <3> HIDE DEF topped
    <3>2. QED
      BY <3>1
  <2>2. CASE topped # {}
    <3> DEFINE T == {Cardinality(Before(i)) : i \in topped}
    <3>1. T \in SUBSET (0..left) /\ T # {}
      <4>1. \A i \in topped : Cardinality(Before(i)) \in 0..left
        BY <1>1
      <4> HIDE DEF Before, topped
      <4>2. QED
        BY <2>2, <4>1
    <3>2. PICK b \in T : \A m \in (b + 1)..left : m \notin T
      <4> HIDE DEF T
      <4> QED
        BY <3>1, GreatestOf
    <3>3. PICK t \in topped : b = Cardinality(Before(t))
      BY <3>2
    <3>4. t \in open /\ b < left
      BY <3>3
    <3>5. ASSUME NEW j \in topped, j # t
          PROVE  j \in Before(t)
      <4>1. j \in open /\ Cardinality(Before(j)) \in T /\ Cardinality(Before(j)) < left
        BY <3>5
      <4>2. SUFFICES ASSUME t \in Before(j) PROVE FALSE
        <5> HIDE DEF Before
        <5> QED
          BY <1>3, <3>4, <3>5, <4>1, <4>2
      <4>3. b < Cardinality(Before(j))
        <5> HIDE DEF Before
        <5> QED
          BY <1>4, <3>3, <3>4, <4>1, <4>2
      <4>4. Cardinality(Before(j)) \in (b + 1)..left
        <5> HIDE DEF Before, T
        <5> QED
          BY <1>1, <3>3, <3>4, <4>1, <4>3
      <4> HIDE DEF T
      <4>5. QED
        BY <3>2, <4>1, <4>4
    <3>6. topped \ {t} \subseteq Before(t)
      <4> HIDE DEF Before, topped
      <4> QED
        BY <3>5
    <3> HIDE DEF Before, topped
    <3>7. Cardinality(topped \ {t}) <= b
      BY <1>1, <3>3, <3>4, <3>6, FS_Subset
    <3>8. Cardinality(topped \ {t}) = Cardinality(topped) - 1
      BY <1>2, FS_RemoveElement
    <3>9. b \in Nat
      BY <1>1, <3>3, <3>4
    <3>10. QED
      BY <1>2, <3>4, <3>7, <3>8, <3>9
  <2>3. QED
    BY <2>1, <2>2
<1>6. ASSUME open # {}, left > 0
      PROVE  Cardinality(topped) > 0
  <2> DEFINE T == {Cardinality(Before(i)) : i \in open}
  <2>1. T \in SUBSET Nat /\ T # {}
    <3> HIDE DEF Before
    <3> QED
      BY <1>1, <1>6
  <2>2. PICK b \in T : \A m \in T : b <= m
    <3> HIDE DEF T
    <3> QED
      BY <2>1, LeastOf
  <2>3. PICK t \in open : b = Cardinality(Before(t))
    BY <2>2
  <2>4. Before(t) = {}
    <3>1. SUFFICES ASSUME NEW j \in Before(t) PROVE FALSE
      OBVIOUS
    <3>2. j \in open /\ Cardinality(Before(j)) \in T
      OBVIOUS
    <3>3. Cardinality(Before(j)) < b /\ Cardinality(Before(j)) \in Nat /\ b \in Nat
      <4> HIDE DEF Before
      <4> QED
        BY <1>1, <1>4, <2>3, <3>1, <3>2
    <3> HIDE DEF T, Before
    <3>4. QED
      BY <2>2, <3>2, <3>3
  <2>5. Cardinality(Before(t)) = 0
    <3> HIDE DEF Before
    <3> QED
      BY <2>4, FS_EmptySet
  <2>6. t \in topped
    BY <1>6, <2>5
  <2> HIDE DEF topped
  <2>7. QED
    BY <1>2, <2>6
<1>7. QED
  <2> HIDE DEF topped
  <2>1. Cardinality(topped) \in 0..left
    BY <1>2, <1>5
  <2>2. QED
    BY <1>2, <1>6, <2>1 DEF topped

\* What a round leaves of the bonus for k payouts that take up to cap each.
RoundOf(round, k, bonus, cap) ==
    /\ round = [given |-> round.given, rest |-> round.rest]
    /\ round.given \in [1..k -> 0..cap]
    /\ round.rest \in Nat
    /\ SumFunction(round.given) + round.rest = bonus

\* A round gives away what it takes from the rest, within the room there is,
\* and takes a point at least.
LEMMA NextRoundRight ==
  ASSUME NEW k \in Nat, NEW weights \in [1..k -> NormalWeights], NEW cap \in Nat,
         NEW bonus \in Nat, bonus <= cap * k, NEW round, RoundOf(round, k, bonus, cap)
  PROVE  LET next == NextRound(weights, cap, round)
         IN  /\ RoundOf(next, k, bonus, cap)
             /\ IF round.rest = 0 THEN next.rest = 0 ELSE next.rest < round.rest
<1> DEFINE N == 1..k
           given == round.given
           rest == round.rest
           active == {i \in N : given[i] < cap}
           sum == SumFunctionOnSet(weights, active)
           share == [i \in N |-> IF i \in active
                                 THEN Share(rest, weights[i], sum, cap - given[i]) ELSE 0]
           shared == [i \in N |-> given[i] + share[i]]
           left == rest - SumFunctionOnSet(share, N)
           open == {i \in active : shared[i] < cap}
           over == [i \in open |-> Rem(rest, weights[i], sum)]
           Before(i) == {j \in open : over[j] > over[i] \/ (over[j] = over[i] /\ j < i)}
           topped == {i \in open : Cardinality(Before(i)) < left}
           point == [i \in N |-> IF i \in topped THEN 1 ELSE 0]
           after == [i \in N |-> shared[i] + point[i]]
<1>1. /\ given \in [N -> 0..cap] /\ rest \in Nat
      /\ SumFunctionOnSet(given, N) + rest = bonus
  BY DEF RoundOf, SumFunction
<1>2. CASE rest = 0
  BY <1>2 DEF NextRound
<1>3. CASE rest # 0
  <2>1. IsFiniteSet(N) /\ Cardinality(N) = k
    BY FS_Interval
  <2>2. active # {}
    <3>1. SUFFICES ASSUME active = {} PROVE FALSE
      OBVIOUS
    <3>2. \A i \in N : given[i] = cap
      BY <1>1, <3>1
    <3> HIDE DEF N, given, rest
    <3>3. SumFunctionOnSet(given, N) = cap * Cardinality(N)
      <4>1. cap \in Int
        OBVIOUS
      <4>2. QED
        BY <2>1, <3>2, <4>1, SumConstant
    <3>4. cap * k \in Int
      OBVIOUS
    <3>5. QED
      BY <1>1, <1>3, <2>1, <3>3, <3>4
  <2>3. IsFiniteSet(active) /\ active \in SUBSET N
    BY <2>1, FS_Subset
  <2>4. \A i \in N : weights[i] \in Nat /\ weights[i] > 0
    <3>1. \A v \in NormalWeights : v \in Nat /\ v > 0
      BY WeightsAssumption
    <3>2. QED
      BY <3>1
  <2>5. sum \in Nat /\ sum > 0
    <3>1. PICK i \in active : TRUE
      BY <2>2
    <3>2. weights[i] <= sum /\ sum \in Nat
      <4> HIDE DEF active
      <4> QED
        BY <2>3, <2>4, SumNat
    <3>3. QED
      BY <2>4, <3>1, <3>2
  <2>6. ASSUME NEW i \in N
        PROVE  /\ share[i] \in 0..(cap - given[i])
               /\ i \in active => sum * share[i] <= rest * weights[i]
    <3>1. given[i] \in 0..cap /\ weights[i] \in Nat /\ rest * weights[i] \in Nat
      BY <1>1, <2>4
    <3>2. ASSUME NEW a \in Nat, NEW b \in Nat, b > 0
          PROVE  a \div b \in Nat /\ b * (a \div b) <= a
      BY <3>2
    <3> DEFINE whole == (rest * weights[i]) \div sum
    <3>3. whole \in Nat /\ sum * whole <= rest * weights[i]
      <4> HIDE DEF sum, rest
      <4> QED
        BY <2>5, <3>1, <3>2
    <3>4. i \in active => share[i] = Smaller(whole, cap - given[i])
      BY DEF Share
    <3>5. i \notin active => share[i] = 0
      OBVIOUS
    <3> HIDE DEF sum, share, whole, given, rest, active
    <3>6. ASSUME NEW a \in Nat, NEW b \in Nat, NEW c \in Nat, a <= b
          PROVE  c * a <= c * b
      BY <3>6
    <3>7. share[i] \in 0..(cap - given[i]) /\ (i \in active => share[i] <= whole)
      BY <3>1, <3>3, <3>4, <3>5 DEF Smaller
    <3>8. i \in active => sum * share[i] <= sum * whole
      BY <2>5, <3>1, <3>3, <3>6, <3>7
    <3>9. sum * share[i] \in Int /\ sum * whole \in Int
      BY <2>5, <3>1, <3>3, <3>7
    <3>10. QED
      BY <3>1, <3>3, <3>7, <3>8, <3>9
  <2>7. SumFunctionOnSet(share, N) = SumFunctionOnSet(share, active)
        /\ SumFunctionOnSet(share, N) \in Nat
    <3>1. \A i \in N : share[i] \in Nat
      BY <1>1, <2>6
    <3>2. \A i \in N \ active : share[i] = 0
      OBVIOUS
    <3> HIDE DEF share, active, N
    <3>3. QED
      BY <2>1, <2>3, <3>1, <3>2, SumSupport, SumNat
  <2>8. left \in Nat
    <3> DEFINE s == SumFunctionOnSet(share, active)
               lhs == [i \in active |-> sum * share[i]]
               rhs == [i \in active |-> rest * weights[i]]
    <3>1. SumFunctionOnSet(lhs, active) = sum * s
      <4>1. \A i \in active : share[i] \in Int /\ lhs[i] = sum * share[i]
        BY <2>3, <2>6
      <4> HIDE DEF lhs, share, active, sum
      <4> DEFINE m == [a \in Int |-> sum * a]
      <4>2. sum \in Int
        BY <2>5
      <4>3. Additive(m)
        BY <4>2 DEF Additive
      <4>4. \A i \in active : share[i] \in Int /\ lhs[i] = m[share[i]]
        BY <4>1
      <4>5. SumFunctionOnSet(share, active) \in Int
        BY <2>3, <4>1, SumType
      <4>6. SumFunctionOnSet(lhs, active) = m[SumFunctionOnSet(share, active)]
        <5> HIDE DEF m
        <5> QED
          <6>1. IsFiniteSet(active)
            BY <2>3
          <6>2. Additive(m) => SumFunctionOnSet(lhs, active) = m[SumFunctionOnSet(share, active)]
            BY ONLY <4>4, <6>1, SumThrough
          <6>3. QED
            BY <4>3, <6>2
      <4>7. QED
        BY <4>5, <4>6
    <3>2. SumFunctionOnSet(rhs, active) = rest * sum
      <4>1. \A i \in active : weights[i] \in Int /\ rhs[i] = rest * weights[i]
        BY <2>3, <2>4
      <4> HIDE DEF rhs, active, rest
      <4> DEFINE m == [a \in Int |-> rest * a]
      <4>2. rest \in Int
        BY <1>1
      <4>3. Additive(m)
        BY <4>2 DEF Additive
      <4>4. \A i \in active : weights[i] \in Int /\ rhs[i] = m[weights[i]]
        BY <4>1
      <4>5. SumFunctionOnSet(weights, active) \in Int
        BY <2>3, <4>1, SumType
      <4>6. SumFunctionOnSet(rhs, active) = m[SumFunctionOnSet(weights, active)]
        <5> HIDE DEF m
        <5> QED
          <6>1. IsFiniteSet(active)
            BY <2>3
          <6>2. Additive(m) => SumFunctionOnSet(rhs, active) = m[SumFunctionOnSet(weights, active)]
            BY ONLY <4>4, <6>1, SumThrough
          <6>3. QED
            BY <4>3, <6>2
      <4>7. QED
        BY <4>5, <4>6
    <3>3. SumFunctionOnSet(lhs, active) <= SumFunctionOnSet(rhs, active)
      <4>1. \A i \in active : lhs[i] \in Int /\ rhs[i] \in Int /\ lhs[i] <= rhs[i]
        <5>1. ASSUME NEW i \in active
              PROVE  /\ share[i] \in Int /\ weights[i] \in Int
                     /\ sum * share[i] <= rest * weights[i]
          BY <2>3, <2>4, <2>6
        <5> HIDE DEF share, active, rest, sum
        <5>2. QED
          BY <1>1, <2>5, <5>1
      <4> HIDE DEF lhs, rhs, active
      <4>2. QED
        BY <2>3, <4>1, SumAtMost
    <3>4. s \in Nat
      BY <2>7
    <3> HIDE DEF s, lhs, rhs, sum, rest
    <3>5. sum * s <= rest * sum
      BY <3>1, <3>2, <3>3
    <3>6. \A a, b, c \in Nat : c > 0 /\ c * a <= b * c => a <= b
      OBVIOUS
    <3>7. s <= rest
      BY <1>1, <2>5, <3>4, <3>5, <3>6
    <3>8. QED
      BY <1>1, <2>7, <3>4, <3>7 DEF s
  <2>9. /\ IsFiniteSet(topped) /\ Cardinality(topped) \in 0..left
        /\ open # {} /\ left > 0 => Cardinality(topped) > 0
    <3>1. open \in SUBSET Nat /\ IsFiniteSet(open)
      <4>1. open \in SUBSET active /\ active \in SUBSET Nat
        <5> HIDE DEF shared
        <5> QED
          BY <2>3
      <4> HIDE DEF open, active
      <4>2. QED
        BY <2>3, <4>1, FS_Subset
    <3>2. over \in [open -> Int]
      <4>1. \A i \in open : Rem(rest, weights[i], sum) \in Int
        <5>1. \A i \in open : weights[i] \in Nat
          BY <2>4
        <5>2. \A a \in Nat, b \in Nat : b > 0 => a % b \in Int
          OBVIOUS
        <5> HIDE DEF open, sum, rest
        <5>3. \A i \in open : rest * weights[i] \in Nat
          BY <1>1, <5>1
        <5>4. QED
          BY <2>5, <5>2, <5>3 DEF Rem
      <4> HIDE DEF open, sum, rest
      <4>2. QED
        BY <4>1
    <3> HIDE DEF open, over, left
    <3>3. QED
      BY <2>8, <3>1, <3>2, ToppedUp
  <2>10. shared \in [N -> 0..cap] /\ after \in [N -> 0..cap]
    <3>1. \A i \in N : shared[i] \in 0..cap
      <4>1. \A i \in N : given[i] \in 0..cap /\ share[i] \in 0..(cap - given[i])
        BY <1>1, <2>6
      <4> HIDE DEF N, given, share
      <4>2. QED
        BY <4>1
    <3>2. \A i \in N : i \in topped => shared[i] < cap
      <4> HIDE DEF shared, Before, left
      <4> QED
        OBVIOUS
    <3>3. \A i \in N : point[i] \in 0..1 /\ (i \notin topped => point[i] = 0)
      <4> HIDE DEF topped
      <4> QED
        OBVIOUS
    <3> HIDE DEF N, topped, point
    <3>4. \A i \in N : after[i] \in 0..cap
      <4> HIDE DEF shared
      <4> QED
        BY <3>1, <3>2, <3>3
    <3>5. QED
      BY <3>1, <3>4
  <2>11. SumFunctionOnSet(shared, N) = SumFunctionOnSet(given, N) + SumFunctionOnSet(share, N)
    <4>1. \A i \in N : given[i] \in Int /\ share[i] \in Int /\ shared[i] = given[i] + share[i]
      BY <1>1, <2>6
    <4> HIDE DEF N, given, share, shared
    <4>2. QED
      BY <2>1, <4>1, SumPlus
  <2>12. SumFunctionOnSet(after, N) =
            SumFunctionOnSet(given, N) + SumFunctionOnSet(share, N) + Cardinality(topped)
    <3>1. SumFunctionOnSet(shared, N) = SumFunctionOnSet(given, N) + SumFunctionOnSet(share, N)
      BY <2>11
    <3>2. SumFunctionOnSet(point, N) = Cardinality(topped)
      <4>1. topped \in SUBSET N
        OBVIOUS
      <4>2. \A i \in N : point[i] = IF i \in topped THEN 1 ELSE 0
        OBVIOUS
      <4> HIDE DEF topped, N, point
      <4>3. QED
        BY <2>1, <4>1, <4>2, SumCount
    <3>3. SumFunctionOnSet(after, N) = SumFunctionOnSet(shared, N) + SumFunctionOnSet(point, N)
      <4>1. \A i \in N : /\ shared[i] \in Int /\ point[i] \in Int
                         /\ after[i] = shared[i] + point[i]
        BY <2>10
      <4> HIDE DEF N, point, after, shared
      <4>2. QED
        BY <2>1, <4>1, SumPlus
    <3> HIDE DEF N, point, after, shared, topped, share, given
    <3>4. QED
      BY <3>1, <3>2, <3>3
  <2>13. NextRound(weights, cap, round) =
           [given |-> after, rest |-> left - Cardinality(topped)]
    <3> DEFINE Left(sh) == rest - (SumFunction(sh) - SumFunction(given))
               Open(sh) == {i \in {j \in DOMAIN given : given[j] < cap} : sh[i] < cap}
               Over(i) == Rem(rest, weights[i],
                              SumFunctionOnSet(weights, {j \in DOMAIN given : given[j] < cap}))
               Ahead(sh, i) == {j \in Open(sh) : Over(j) > Over(i) \/ (Over(j) = Over(i) /\ j < i)}
               Topped(sh) == {i \in Open(sh) : Cardinality(Ahead(sh, i)) < Left(sh)}
               Result(sh) == [given |-> Computed([i \in DOMAIN given |->
                                  IF i \in Topped(sh) THEN sh[i] + 1 ELSE sh[i]]),
                              rest |-> Left(sh) - Cardinality(Topped(sh))]
               first == Computed([i \in DOMAIN given |->
                            IF i \in {j \in DOMAIN given : given[j] < cap}
                            THEN given[i] + Share(rest, weights[i],
                                    SumFunctionOnSet(weights, {j \in DOMAIN given : given[j] < cap}),
                                    cap - given[i])
                            ELSE given[i]])
    <3>1. NextRound(weights, cap, round) = Result(first)
      BY <1>3 DEF NextRound
    <3>2. DOMAIN given = N /\ DOMAIN shared = N /\ {j \in DOMAIN given : given[j] < cap} = active
      BY <1>1
    <3>3. first = shared
      <4> DEFINE raw == [i \in N |-> IF i \in active
                            THEN given[i] + Share(rest, weights[i], sum, cap - given[i])
                            ELSE given[i]]
      <4>1. raw = shared
        <5>1. \A i \in N : given[i] \in Int
          BY <1>1
        <5> HIDE DEF given, active, rest, sum
        <5>2. \A i \in N : raw[i] = shared[i]
          BY <5>1
        <5>3. QED
          BY <5>2
      <4>2. first = Computed(raw)
        <5> HIDE DEF N, given, active, rest
        <5> QED
          BY <3>2
      <4> HIDE DEF first, raw, shared
      <4>3. QED
        BY <2>10, <4>1, <4>2, ComputedSame
    <3>4. Left(shared) = left
      <4>1. SumFunctionOnSet(given, N) \in Int /\ SumFunctionOnSet(share, N) \in Int
        <5>1. \A i \in N : given[i] \in Int
          BY <1>1
        <5> HIDE DEF N, given, share
        <5>2. QED
          BY <2>1, <2>7, <5>1, SumType
      <4> HIDE DEF N, given, share, shared, rest
      <4>2. QED
        BY <1>1, <2>11, <3>2, <4>1 DEF SumFunction
    <3>5. Open(shared) = open
      <4> HIDE DEF shared, active
      <4> QED
        BY <3>2
    <3>6. \A i \in open : Over(i) = over[i]
      <4> HIDE DEF open, active, rest, given
      <4> QED
        BY <3>2
    <3>7. \A i \in open : Ahead(shared, i) = Before(i)
      <4> HIDE DEF open, Open, Over, over
      <4> QED
        BY <3>5, <3>6
    <3>8. Topped(shared) = topped
      <4> HIDE DEF open, Open, Ahead, Before, Left, left
      <4> QED
        BY <3>4, <3>5, <3>7
    <3>9. Computed([i \in DOMAIN given |->
              IF i \in Topped(shared) THEN shared[i] + 1 ELSE shared[i]]) = after
      <4> DEFINE raw == [i \in DOMAIN given |->
                           IF i \in Topped(shared) THEN shared[i] + 1 ELSE shared[i]]
      <4>1. raw = after
        <5>1. \A i \in N : shared[i] \in Int
          <6> HIDE DEF N, shared, after
          <6> QED
            BY <2>10
        <5> HIDE DEF shared, given, topped, Topped
        <5>2. \A i \in N : (IF i \in Topped(shared) THEN shared[i] + 1 ELSE shared[i]) = after[i]
          BY <3>8, <5>1
        <5>3. QED
          BY <3>2, <5>2
      <4> HIDE DEF raw, after
      <4>2. Computed(raw) = after
        BY <2>10, <4>1, ComputedSame
      <4>3. QED
        BY <4>2 DEF raw
    <3> HIDE DEF Left, Topped, shared, after, left, topped, given
    <3>10. Result(shared) = [given |-> after, rest |-> left - Cardinality(topped)]
      BY <3>4, <3>8, <3>9
    <3> HIDE DEF Result, first
    <3>11. QED
      BY <3>1, <3>3, <3>10
  <2>14. left - Cardinality(topped) < rest
    <3>1. CASE SumFunctionOnSet(share, N) = 0
      <4>1. \A i \in N : share[i] = 0
        <5>1. \A i \in N : share[i] \in Nat
          BY <1>1, <2>6
        <5> HIDE DEF share, N
        <5>2. \A i \in N : share[i] <= SumFunctionOnSet(share, N)
          BY <2>1, <5>1, SumNat
        <5>3. QED
          BY <3>1, <5>1, <5>2
      <4>2. \A i \in N : shared[i] = given[i]
        BY <1>1, <4>1
      <4>3. open = active
        <5> HIDE DEF shared
        <5> QED
          BY <4>2
      <4>4. left = rest
        BY <1>1, <3>1
      <4> HIDE DEF open, active, topped, left, rest
      <4>5. QED
        BY <1>1, <1>3, <2>2, <2>8, <2>9, <4>3, <4>4
    <3>2. CASE SumFunctionOnSet(share, N) # 0
      <4> HIDE DEF share, N, topped, rest
      <4>1. left < rest
        BY <1>1, <2>7, <3>2
      <4> HIDE DEF left
      <4>2. QED
        BY <1>1, <2>8, <2>9, <4>1
    <3>3. QED
      BY <3>1, <3>2
  <2>15. QED
    <3>1. SumFunctionOnSet(given, N) \in Int
      <4>1. \A i \in N : given[i] \in Int
        BY <1>1
      <4> HIDE DEF N, given
      <4>2. QED
        BY <2>1, <4>1, SumType
    <3>2. DOMAIN after = N
      OBVIOUS
    <3> HIDE DEF after, topped, share, N, given, rest
    <3>3. SumFunctionOnSet(after, N) + (left - Cardinality(topped)) = bonus
      BY <1>1, <2>7, <2>8, <2>9, <2>12, <3>1
    <3>4. left - Cardinality(topped) \in Nat
      BY <2>8, <2>9
    <3> HIDE DEF left
    <3>5. QED
      BY <1>3, <2>10, <2>13, <2>14, <3>2, <3>3, <3>4 DEF RoundOf, SumFunction, N, rest
<1>4. QED
  BY <1>2, <1>3

\* As many rounds as there are points to give are enough: the payouts sum up to
\* the bonus, and none takes more than its room.  distributeBonus never runs out
\* of payouts to give a point to, and never goes on for ever.
THEOREM BonusDistributed ==
  ASSUME NEW k \in Nat, NEW weights \in [1..k -> NormalWeights], NEW cap \in Nat,
         NEW bonus \in Nat, bonus <= cap * k
  PROVE  /\ DistributeBonus(weights, bonus, cap) \in [1..k -> 0..cap]
         /\ SumFunction(DistributeBonus(weights, bonus, cap)) = bonus
<1> DEFINE start == [given |-> Computed([i \in DOMAIN weights |-> 0]), rest |-> bonus]
           Rounds(R, b) == R = [n \in 0..b |-> IF n = 0 THEN start
                                               ELSE NextRound(weights, cap, R[n - 1])]
           R == CHOOSE r : Rounds(r, bonus)
           P == {b \in Nat : \E r : Rounds(r, b)}
<1>1. DistributeBonus(weights, bonus, cap) = R[bonus].given
  BY DEF DistributeBonus
<1>2. Rounds(R, bonus)
  <2> HIDE DEF start
  <2>1. 0 \in P
    <3> DEFINE r == [n \in 0..0 |-> start]
    <3>1. Rounds(r, 0)
      OBVIOUS
    <3>2. \E q : Rounds(q, 0)
      <4> HIDE DEF r, Rounds
      <4> QED
        BY <3>1
    <3>3. QED
      BY <3>2
  <2>2. ASSUME NEW b \in Nat, b \in P
        PROVE  b + 1 \in P
    <3>1. PICK r : Rounds(r, b)
      BY <2>2
    <3> DEFINE q == [n \in 0..(b + 1) |-> IF n = 0 THEN start
                                          ELSE NextRound(weights, cap, r[n - 1])]
    <3>2. \A n \in 0..b : q[n] = r[n]
      BY <3>1
    <3>3. \A n \in 0..(b + 1) : n # 0 => n - 1 \in 0..b /\ q[n - 1] = r[n - 1]
      <4>1. \A n \in 0..(b + 1) : n # 0 => n - 1 \in 0..b
        OBVIOUS
      <4> HIDE DEF q
      <4>2. QED
        BY <3>2, <4>1
    <3>4. Rounds(q, b + 1)
      <4>1. \A n \in 0..(b + 1) : q[n] = IF n = 0 THEN start
                                         ELSE NextRound(weights, cap, q[n - 1])
        BY <3>3
      <4>2. q = [n \in 0..(b + 1) |-> q[n]]
        OBVIOUS
      <4> HIDE DEF q
      <4>3. QED
        BY <4>1, <4>2
    <3>5. \E s : Rounds(s, b + 1)
      <4> HIDE DEF q, Rounds
      <4> QED
        BY <3>4
    <3> HIDE DEF Rounds
    <3>6. QED
      BY <3>5
  <2>3. bonus \in P
    <3> HIDE DEF P
    <3> QED
      BY <2>1, <2>2, NumberInduction
  <2>4. \E r : Rounds(r, bonus)
    <3> HIDE DEF Rounds
    <3> QED
      BY <2>3
  <2> HIDE DEF Rounds
  <2>5. QED
    BY <2>4 DEF R
<1>3. RoundOf(start, k, bonus, cap)
  <2> DEFINE none == [i \in 1..k |-> 0]
  <2>1. Computed([i \in DOMAIN weights |-> 0]) = none
    <3>1. none \in [1..k -> Nat] /\ [i \in DOMAIN weights |-> 0] = none
      OBVIOUS
    <3>2. Computed(none) = none
      BY <3>1, ComputedSame
    <3>3. QED
      BY <3>1, <3>2
  <2>2. SumFunctionOnSet(none, 1..k) = 0
    <3>1. IsFiniteSet(1..k) /\ Cardinality(1..k) = k
      BY FS_Interval
    <3>2. \A i \in 1..k : none[i] = 0
      OBVIOUS
    <3> HIDE DEF none
    <3>3. SumFunctionOnSet(none, 1..k) = 0 * Cardinality(1..k)
      BY <3>1, <3>2, SumConstant
    <3>4. QED
      BY <3>1, <3>3
  <2>3. DOMAIN none = 1..k /\ none \in [1..k -> 0..cap]
    OBVIOUS
  <2> HIDE DEF none
  <2>4. start = [given |-> none, rest |-> bonus]
    BY <2>1
  <2> HIDE DEF start
  <2>5. QED
    BY <2>2, <2>3, <2>4 DEF RoundOf, SumFunction
<1> DEFINE Q == {n \in Nat : n <= bonus => RoundOf(R[n], k, bonus, cap)
                                           /\ R[n].rest <= bonus - n}
<1> HIDE DEF R
<1>4. R[0] = start /\ \A n \in 1..bonus : R[n] = NextRound(weights, cap, R[n - 1])
  <2> HIDE DEF start
  <2> QED
    BY <1>2
<1>5. 0 \in Q
  <2>1. start.rest = bonus
    OBVIOUS
  <2> HIDE DEF start
  <2>2. QED
    BY <1>3, <1>4, <2>1
<1>6. ASSUME NEW n \in Nat, n \in Q
      PROVE  n + 1 \in Q
  <2>1. SUFFICES ASSUME n + 1 <= bonus
                 PROVE  RoundOf(R[n + 1], k, bonus, cap) /\ R[n + 1].rest <= bonus - (n + 1)
    OBVIOUS
  <2>2. RoundOf(R[n], k, bonus, cap) /\ R[n].rest <= bonus - n
    BY <1>6, <2>1
  <2>3. R[n + 1] = NextRound(weights, cap, R[n])
    <3>1. n + 1 \in 1..bonus /\ (n + 1) - 1 = n
      BY <2>1
    <3>2. R[n + 1] = NextRound(weights, cap, R[(n + 1) - 1])
      BY <1>4, <3>1
    <3>3. QED
      BY <3>1, <3>2
  <2>4. /\ RoundOf(R[n + 1], k, bonus, cap)
        /\ IF R[n].rest = 0 THEN R[n + 1].rest = 0 ELSE R[n + 1].rest < R[n].rest
    BY <2>2, <2>3, NextRoundRight
  <2>5. R[n].rest \in Nat /\ R[n + 1].rest \in Nat
    BY <2>2, <2>4 DEF RoundOf
  <2>6. QED
    BY <2>1, <2>2, <2>4, <2>5
<1>7. bonus \in Q
  <2> HIDE DEF Q
  <2> QED
    BY <1>5, <1>6, NumberInduction
<1>8. RoundOf(R[bonus], k, bonus, cap) /\ R[bonus].rest <= 0
  BY <1>7
<1>9. R[bonus].rest = 0
  BY <1>8 DEF RoundOf
<1>10. SumFunction(R[bonus].given) \in Int
  <2> DEFINE g == R[bonus].given
  <2>1. g \in [1..k -> 0..cap]
    BY <1>8 DEF RoundOf
  <2>2. \A i \in 1..k : g[i] \in Int
    BY <2>1
  <2>3. IsFiniteSet(1..k) /\ DOMAIN g = 1..k
    BY <2>1, FS_Interval
  <2> HIDE DEF g
  <2>4. SumFunctionOnSet(g, 1..k) \in Int
    BY <2>2, <2>3, SumType
  <2>5. QED
    BY <2>3, <2>4 DEF SumFunction, g
<1>11. QED
  BY <1>1, <1>8, <1>9, <1>10 DEF RoundOf
-----------------------------------------------------------------------------
(* The even split.                                                         *)

LEMMA DivisionSum ==
  ASSUME NEW a \in Int, NEW k \in Int, k > 0,
         NEW q \in Int, q = a \div k, NEW r \in Int, r = a % k
  PROVE  k * q + r = a
OBVIOUS

LEMMA DivisionOf ==
  ASSUME NEW a \in Int, NEW k \in Nat, k > 0
  PROVE  \E q \in Int, r \in 0..(k - 1) :
             /\ q = a \div k /\ r = a % k
             /\ a = q * k + r
             /\ a \in Nat => q \in Nat
<1>1. PICK q \in Int : q = a \div k
  OBVIOUS
<1>2. PICK r \in 0..(k - 1) : r = a % k
  OBVIOUS
<1>3. a = q * k + r
  BY <1>1, <1>2, DivisionSum
<1>4. a \in Nat => q \in Nat
  BY <1>1
<1>5. QED
  BY <1>1, <1>2, <1>3, <1>4

LEMMA TurnOf ==
  ASSUME NEW k \in Nat, k > 0, NEW a \in Int, -k <= a, a < k
  PROVE  a % k = IF a >= 0 THEN a ELSE a + k
<1>1. PICK q \in Int, r \in 0..(k - 1) : r = a % k /\ a = q * k + r
  BY DivisionOf
<1>2. (q >= 1 => q * k >= k) /\ (q <= -2 => q * k <= -2 * k)
  OBVIOUS
<1>3. PICK t \in Int : t = q * k
  OBVIOUS
<1>4. ~(q >= 1) /\ ~(q <= -2)
  <2>1. a = t + r /\ (q >= 1 => t >= k) /\ (q <= -2 => t <= -2 * k)
    BY <1>1, <1>2, <1>3
  <2>2. QED
    BY ONLY k \in Nat, a \in Int, -k <= a, a < k, r \in 0..(k - 1), t \in Int, q \in Int, <2>1
<1>5. q = 0 \/ q = -1
  BY <1>4
<1>6. (q = 0 => a = r) /\ (q = -1 => a = r - k)
  BY <1>1
<1>7. r = IF a >= 0 THEN a ELSE a + k
  BY ONLY k \in Nat, a \in Int, r \in 0..(k - 1), <1>5, <1>6
<1>8. QED
  BY <1>1, <1>7

\* However far the row of payouts is turned, as many of them are before m.
LEMMA TurnedCount ==
  ASSUME NEW k \in Nat, k > 0, NEW m \in 0..(k - 1), NEW offset \in 0..(k - 1)
  PROVE  Cardinality({i \in 1..k : (i - 1 - offset) % k < m}) = m
<1> DEFINE A == {i \in 1..k : (i - 1 - offset) % k < m}
<1>1. ASSUME NEW i \in 1..k
      PROVE  (i - 1 - offset) % k = IF i - 1 >= offset THEN i - 1 - offset
                                    ELSE i - 1 - offset + k
  <2>1. i - 1 - offset \in Int /\ -k <= i - 1 - offset /\ i - 1 - offset < k
    OBVIOUS
  <2>2. i - 1 - offset >= 0 <=> i - 1 >= offset
    OBVIOUS
  <2>3. QED
    BY <2>1, <2>2, TurnOf
<1>2. CASE offset + m <= k
  <2>1. A = (offset + 1)..(offset + m)
    BY <1>1, <1>2
  <2>2. Cardinality((offset + 1)..(offset + m)) = m
    BY FS_Interval
  <2>3. QED
    BY <2>1, <2>2
<1>3. CASE offset + m > k
  <2> DEFINE B == (offset + 1)..k
             C == 1..(offset + m - k)
  <2>1. A = B \cup C
    BY <1>1, <1>3
  <2>2. IsFiniteSet(B) /\ Cardinality(B) = k - offset
    BY FS_Interval
  <2>3. IsFiniteSet(C) /\ Cardinality(C) = offset + m - k
    BY <1>3, FS_Interval
  <2>4. B \cap C = {}
    OBVIOUS
  <2> HIDE DEF A, B, C
  <2>5. Cardinality(B \cup C) = Cardinality(B) + Cardinality(C) - Cardinality(B \cap C)
    BY <2>2, <2>3, FS_Union
  <2>6. Cardinality(B \cap C) = 0
    BY <2>4, FS_EmptySet
  <2>7. Cardinality(A) = m
    BY <2>1, <2>2, <2>3, <2>5, <2>6
  <2>8. QED
    BY <2>7 DEF A
<1>4. QED
  BY <1>2, <1>3

\* The shares of an even split sum up to the bonus, and are within any bounds that
\* the bonus allows for all of them.
LEMMA EvenlyDistributed ==
  ASSUME NEW k \in Nat, k > 0, NEW bonus \in Nat, NEW offset \in 0..(k - 1)
  PROVE  LET given == DistributeEvenly(k, bonus, offset)
         IN  /\ given \in [1..k -> Nat]
             /\ SumFunctionOnSet(given, 1..k) = bonus
             /\ \A low, high \in Nat :
                   low * k <= bonus /\ bonus <= high * k =>
                       \A i \in 1..k : given[i] \in low..high
<1> DEFINE each == bonus \div k
           m == bonus % k
           A == {i \in 1..k : (i - 1 - offset) % k < m}
           all == [i \in 1..k |-> each]
           one == [i \in 1..k |-> IF i \in A THEN 1 ELSE 0]
           given == DistributeEvenly(k, bonus, offset)
<1>1. each \in Nat /\ m \in 0..(k - 1) /\ bonus = each * k + m
  <2>1. PICK q \in Int, r \in 0..(k - 1) :
           q = each /\ r = m /\ bonus = q * k + r /\ q \in Nat
    BY DivisionOf
  <2> HIDE DEF each, m
  <2>2. QED
    BY <2>1
<1>2. given = [i \in 1..k |-> each + (IF (i - 1 - offset) % k < m THEN 1 ELSE 0)]
  BY DEF DistributeEvenly
<1>3. \A i \in 1..k : given[i] = all[i] + one[i]
  <2> HIDE DEF given, each, m
  <2> QED
    BY <1>1, <1>2
<1>4. Cardinality(A) = m
  <2> HIDE DEF m
  <2> QED
    BY <1>1, TurnedCount
<1>5. A \in SUBSET (1..k)
  OBVIOUS
<1> HIDE DEF A, each, m
<1>6. \A i \in 1..k : all[i] = each /\ one[i] = IF i \in A THEN 1 ELSE 0
  OBVIOUS
<1>7. IsFiniteSet(1..k) /\ Cardinality(1..k) = k
  BY FS_Interval
<1>8. given \in [1..k -> Nat]
  <2>1. \A i \in 1..k : each + (IF (i - 1 - offset) % k < m THEN 1 ELSE 0) \in Nat
    BY <1>1
  <2> HIDE DEF given
  <2>2. QED
    BY <1>2, <2>1
<1> HIDE DEF given, all, one
<1>9. SumFunctionOnSet(all, 1..k) = each * Cardinality(1..k)
  <2>1. each \in Int /\ \A i \in 1..k : all[i] = each
    BY <1>1, <1>6
  <2>2. QED
    BY <1>7, <2>1, SumConstant
<1>10. SumFunctionOnSet(one, 1..k) = Cardinality(A)
  <2>1. IsFiniteSet(1..k) /\ \A i \in 1..k : one[i] = IF i \in A THEN 1 ELSE 0
    BY <1>6, <1>7
  <2>2. QED
    BY <1>5, <2>1, SumCount
<1>11. SumFunctionOnSet(given, 1..k) = SumFunctionOnSet(all, 1..k) + SumFunctionOnSet(one, 1..k)
  <2>1. \A i \in 1..k : all[i] \in Int /\ one[i] \in Int /\ given[i] = all[i] + one[i]
    BY <1>1, <1>3, <1>6
  <2>2. QED
    BY <1>7, <2>1, SumPlus
<1>12. SumFunctionOnSet(given, 1..k) = bonus
  BY <1>1, <1>4, <1>7, <1>9, <1>10, <1>11
<1>13. ASSUME NEW low \in Nat, NEW high \in Nat, low * k <= bonus, bonus <= high * k,
              NEW i \in 1..k
       PROVE  given[i] \in low..high
  <2>1. given[i] \in each..(each + 1) /\ (m = 0 => given[i] = each)
    <3>1. m = 0 => A = {}
      <4>1. \A j \in 1..k : (j - 1 - offset) % k \in 0..(k - 1)
        BY DivisionOf
      <4>2. QED
        BY <4>1 DEF A
    <3>2. QED
      BY <1>1, <1>3, <1>6, <3>1
  <2>2. ASSUME NEW a \in Nat, NEW b \in Nat, NEW r \in 0..(k - 1), a * k <= b * k + r
        PROVE  a <= b
    <3>1. SUFFICES ASSUME a >= b + 1 PROVE FALSE
      OBVIOUS
    <3>2. (a - b) * k >= k /\ (a - b) * k = a * k - b * k
      BY <3>1
    <3>3. a * k \in Int /\ b * k \in Int
      OBVIOUS
    <3>4. QED
      BY <2>2, <3>2, <3>3
  <2>3. low <= each
    BY <1>1, <1>13, <2>2
  <2>4. each <= high
    BY <1>1, <1>13, <2>2
  <2>5. m # 0 => each < high
    <3>1. SUFFICES ASSUME m # 0, each = high PROVE FALSE
      BY <1>1, <2>4
    <3>2. high * k + m <= high * k /\ high * k \in Int
      BY <1>1, <1>13, <3>1
    <3>3. QED
      BY <1>1, <3>1, <3>2
  <2>6. QED
    BY <1>1, <2>1, <2>3, <2>4, <2>5
<1>14. QED
  BY <1>8, <1>12, <1>13 DEF given
-----------------------------------------------------------------------------
(* The payouts of the normal ones.                                         *)

LEMMA SumMove ==
  ASSUME NEW S, IsFiniteSet(S), NEW f, NEW g,
         NEW from \in S, NEW to \in S, from # to,
         \A x \in S : f[x] \in Int /\ g[x] \in Int,
         g[from] + g[to] = f[from] + f[to],
         \A x \in S \ {from, to} : g[x] = f[x]
  PROVE  SumFunctionOnSet(g, S) = SumFunctionOnSet(f, S)
<1> DEFINE T == S \ {from}
           U == T \ {to}
<1>1. IsFiniteSet(T)
  BY FS_Subset
<1>2. IsFiniteSet(U)
  BY <1>1, FS_Subset
<1>3. to \in T /\ \A x \in T : f[x] \in Int /\ g[x] \in Int
  OBVIOUS
<1>4. \A x \in U : g[x] = f[x]
  OBVIOUS
<1>5. /\ SumFunctionOnSet(f, S) = f[from] + SumFunctionOnSet(f, T)
      /\ SumFunctionOnSet(g, S) = g[from] + SumFunctionOnSet(g, T)
  BY SumRemove
<1> HIDE DEF T
<1>6. /\ \A x \in T : SumFunctionOnSet(f, T) = f[x] + SumFunctionOnSet(f, T \ {x})
      /\ SumFunctionOnSet(f, U) \in Int
  <2>1. \A x \in T : SumFunctionOnSet(f, T) = f[x] + SumFunctionOnSet(f, T \ {x})
    BY <1>1, <1>3, SumRemove
  <2>2. \A x \in U : f[x] \in Int
    BY <1>3
  <2> HIDE DEF U
  <2>3. SumFunctionOnSet(f, U) \in Int
    BY <1>2, <2>2, SumType
  <2>4. QED
    BY <2>1, <2>3
<1>7. \A x \in T : SumFunctionOnSet(g, T) = g[x] + SumFunctionOnSet(g, T \ {x})
  BY <1>1, <1>3, SumRemove
<1>8. SumFunctionOnSet(g, U) = SumFunctionOnSet(f, U)
  <2> HIDE DEF U
  <2> QED
    BY <1>2, <1>4, SumSame
<1>9. f[from] \in Int /\ f[to] \in Int /\ g[from] \in Int /\ g[to] \in Int
  OBVIOUS
<1>10. QED
  BY <1>3, <1>5, <1>6, <1>7, <1>8, <1>9

LEMMA FirstLeast ==
  ASSUME NEW k \in Nat, k > 0, NEW v \in [1..k -> Nat]
  PROVE  \E i \in 1..k : \A j \in 1..k : v[i] < v[j] \/ (v[i] = v[j] /\ i <= j)
<1> DEFINE V == {v[i] : i \in 1..k}
<1>1. V \in SUBSET Nat /\ V # {}
  OBVIOUS
<1>2. PICK w \in V : \A x \in V : w <= x
  <2> HIDE DEF V
  <2> QED
    BY <1>1, LeastOf
<1> DEFINE I == {i \in 1..k : v[i] = w}
<1>3. I \in SUBSET Nat /\ I # {}
  BY <1>2
<1>4. PICK i \in I : \A j \in I : i <= j
  <2> HIDE DEF I
  <2> QED
    BY <1>3, LeastOf
<1>5. ASSUME NEW j \in 1..k
      PROVE  v[i] < v[j] \/ (v[i] = v[j] /\ i <= j)
  <2>1. v[i] = w /\ w <= v[j] /\ v[i] \in Nat /\ v[j] \in Nat
    BY <1>2, <1>4
  <2>2. v[j] = w => i <= j
    BY <1>4
  <2>3. QED
    BY <2>1, <2>2
<1>6. QED
  BY <1>4, <1>5

LEMMA FirstGreatest ==
  ASSUME NEW k \in Nat, k > 0, NEW v \in [1..k -> Nat]
  PROVE  \E i \in 1..k : \A j \in 1..k : v[i] > v[j] \/ (v[i] = v[j] /\ i <= j)
<1> DEFINE b == SumFunctionOnSet(v, 1..k)
           u == [i \in 1..k |-> b - v[i]]
<1>1. b \in Nat /\ \A i \in 1..k : v[i] \in Nat /\ v[i] <= b
  <2>1. IsFiniteSet(1..k)
    BY FS_Interval
  <2>2. \A i \in 1..k : v[i] \in Nat
    OBVIOUS
  <2>3. QED
    BY <2>1, <2>2, SumNat
<1> HIDE DEF b
<1>2. u \in [1..k -> Nat]
  BY <1>1
<1>3. PICK i \in 1..k : \A j \in 1..k : u[i] < u[j] \/ (u[i] = u[j] /\ i <= j)
  <2> HIDE DEF u
  <2> QED
    BY <1>2, FirstLeast
<1>4. \A j \in 1..k : v[i] > v[j] \/ (v[i] = v[j] /\ i <= j)
  BY <1>1, <1>3
<1>5. QED
  BY <1>4

\* The k payouts are within the bounds of r and sum up to total.
Within(amounts, k, total, r) ==
    /\ amounts \in [1..k -> r.min..r.max]
    /\ SumFunctionOnSet(amounts, 1..k) = total

\* Points are moved between two payouts, never more than both have room for.
LEMMA VariationKept ==
  ASSUME NEW k \in Nat, k > 1, NEW r, r.min \in Nat, r.max \in Nat, r.min <= r.max,
         NEW total, NEW amounts, Within(amounts, k, total, r),
         NEW weights \in [1..k -> NormalWeights]
  PROVE  /\ EnsureVariation(amounts, weights, r) # {}
         /\ \A a \in EnsureVariation(amounts, weights, r) : Within(a, k, total, r)
<1> DEFINE K == DOMAIN amounts
           least == CHOOSE i \in K : \A j \in K :
                       weights[i] < weights[j] \/ (weights[i] = weights[j] /\ i <= j)
           most == CHOOSE i \in K : \A j \in K :
                       weights[i] > weights[j] \/ (weights[i] = weights[j] /\ i <= j)
           Delta(from, to) == Smaller(Larger((r.max - r.min) \div 10, 1),
                                      Smaller(amounts[from] - r.min, r.max - amounts[to]))
           Moved(from, to) == [amounts EXCEPT ![from] = @ - Delta(from, to),
                                              ![to] = @ + Delta(from, to)]
<1>1. amounts \in [1..k -> r.min..r.max] /\ K = 1..k
  BY DEF Within
<1>2. Len(amounts) = k
  <2>1. amounts \in Seq(r.min..r.max)
    BY <1>1, SeqDef
  <2>2. QED
    BY <1>1, <2>1, LenProperties
<1>3. ASSUME NEW from \in 1..k, NEW to \in 1..k, from # to
      PROVE  Within(Moved(from, to), k, total, r)
  <2> DEFINE d == Delta(from, to)
  <2>1. amounts[from] \in r.min..r.max /\ amounts[to] \in r.min..r.max
    BY <1>1
  <2>2. d \in Nat /\ amounts[from] - d >= r.min /\ amounts[to] + d <= r.max
    <3>1. PICK q \in Int : q = (r.max - r.min) \div 10
      OBVIOUS
    <3>2. PICK x \in Nat, y \in Nat : x = amounts[from] - r.min /\ y = r.max - amounts[to]
      BY <2>1
    <3>3. d = Smaller(Larger(q, 1), Smaller(x, y))
      BY <3>1, <3>2
    <3>4. d \in Nat /\ d <= x /\ d <= y
      <4> HIDE DEF d
      <4> QED
        BY <3>3 DEF Smaller, Larger
    <3> HIDE DEF d
    <3>5. QED
      BY <2>1, <3>2, <3>4
  <2> HIDE DEF d
  <2> DEFINE moved == [amounts EXCEPT ![from] = @ - d, ![to] = @ + d]
  <2>3. moved \in [1..k -> r.min..r.max]
    <3>1. DOMAIN moved = 1..k /\ moved = [i \in 1..k |-> moved[i]]
      BY <1>1
    <3>2. ASSUME NEW i \in 1..k
          PROVE  moved[i] \in r.min..r.max
      <4>1. /\ moved[i] = IF i = to THEN amounts[to] + d
                          ELSE IF i = from THEN amounts[from] - d ELSE amounts[i]
            /\ amounts[i] \in r.min..r.max
        BY <1>1, <1>3
      <4> HIDE DEF moved
      <4>2. QED
        BY <2>1, <2>2, <4>1
    <3> HIDE DEF moved
    <3>3. QED
      BY <3>1, <3>2
  <2>4. SumFunctionOnSet(moved, 1..k) = SumFunctionOnSet(amounts, 1..k)
    <3> DEFINE N == 1..k
    <3>1. IsFiniteSet(N)
      BY FS_Interval
    <3>2. \A i \in N : amounts[i] \in Int /\ moved[i] \in Int
      <4> HIDE DEF moved
      <4> QED
        BY <1>1, <2>3
    <3>3. moved[from] = amounts[from] - d /\ moved[to] = amounts[to] + d
      BY <1>1, <1>3
    <3>4. \A i \in N \ {from, to} : moved[i] = amounts[i]
      BY <1>1, <1>3
    <3>5. moved[from] + moved[to] = amounts[from] + amounts[to]
      <4> HIDE DEF moved
      <4> QED
        BY <2>1, <2>2, <3>3
    <3>6. from \in N /\ to \in N
      OBVIOUS
    <3> HIDE DEF moved, N
    <3>7. SumFunctionOnSet(moved, N) = SumFunctionOnSet(amounts, N)
      BY <1>3, <3>1, <3>2, <3>4, <3>5, <3>6, SumMove
    <3>8. QED
      BY <3>7 DEF N
  <2> HIDE DEF moved
  <2>5. Within(moved, k, total, r)
    BY <2>3, <2>4 DEF Within
  <2>6. QED
    BY <2>5 DEF moved, d
<1>4. \A i \in 1..k : weights[i] \in Nat
  BY WeightsAssumption
<1>5. least \in 1..k /\ most \in 1..k
  <2>1. weights \in [1..k -> Nat] /\ k > 0
    BY <1>4
  <2>2. \E i \in 1..k : \A j \in 1..k :
            weights[i] < weights[j] \/ (weights[i] = weights[j] /\ i <= j)
    BY <2>1, FirstLeast
  <2>3. \E i \in 1..k : \A j \in 1..k :
            weights[i] > weights[j] \/ (weights[i] = weights[j] /\ i <= j)
    BY <2>1, FirstGreatest
  <2> HIDE DEF K
  <2>4. QED
    BY <1>1, <2>2, <2>3
<1>6. ASSUME NEW from \in 1..k
      PROVE  (from % k) + 1 \in 1..k /\ (from % k) + 1 # from
  <2>1. from < k => from % k = from
    BY TurnOf
  <2>2. k % k = 0
    OBVIOUS
  <2>3. QED
    BY <2>1, <2>2
<1> DEFINE moves == {Moved(from, (from % k) + 1) : from \in K}
           variation == EnsureVariation(amounts, weights, r)
           right == variation # {} /\ \A a \in variation : Within(a, k, total, r)
<1>7. \/ variation = {amounts}
      \/ least # most /\ variation = {Moved(least, most)}
      \/ variation = moves
  BY <1>2 DEF EnsureVariation
<1>8. ASSUME variation = {amounts}
      PROVE  right
  <2> HIDE DEF variation
  <2> QED
    BY <1>8
<1>9. ASSUME least # most, variation = {Moved(least, most)}
      PROVE  right
  <2> HIDE DEF Moved, least, most, variation
  <2> QED
    BY <1>3, <1>5, <1>9
<1>10. ASSUME variation = moves
       PROVE  right
  <2>1. 1 \in K
    BY <1>1
  <2> HIDE DEF Moved, K, variation
  <2>2. \A a \in moves : Within(a, k, total, r)
    BY <1>1, <1>3, <1>6
  <2>3. Moved(1, (1 % k) + 1) \in moves
    BY <2>1
  <2> HIDE DEF moves
  <2>4. QED
    BY <1>10, <2>2, <2>3
<1>11. QED
  BY <1>7, <1>8, <1>9, <1>10

\* The numbers of a rule set.
RuleSet(r) ==
    /\ r.min \in Nat /\ r.max \in Nat /\ r.min <= r.max
    /\ r.normal \in Nat /\ r.lucky \in Nat

LEMMA CapacityType ==
  ASSUME NEW r, RuleSet(r)
  PROVE  Capacity(r) \in Nat /\ r.max = r.min + Capacity(r)
BY DEF RuleSet, Capacity

LEMMA RaisedWithin ==
  ASSUME NEW r, RuleSet(r), NEW k \in Nat, NEW bonus \in Nat,
         NEW given \in [1..k -> 0..Capacity(r)], SumFunction(given) = bonus
  PROVE  Within(Computed([i \in 1..k |-> r.min + given[i]]), k, r.min * k + bonus, r)
<1> DEFINE N == 1..k
           low == [i \in N |-> r.min]
           f == [i \in N |-> r.min + given[i]]
<1>1. IsFiniteSet(N) /\ Cardinality(N) = k
  BY FS_Interval
<1>2. r.min \in Int /\ \A i \in N : given[i] \in 0..Capacity(r)
  BY DEF RuleSet
<1>3. \A i \in N : f[i] \in r.min..r.max
  BY <1>2, CapacityType DEF RuleSet
<1>4. f \in [1..k -> r.min..r.max]
  <2>1. f = [i \in N |-> f[i]]
    OBVIOUS
  <2> HIDE DEF f
  <2>2. QED
    BY <1>3, <2>1
<1>5. Computed(f) = f
  <2> HIDE DEF f
  <2> QED
    BY <1>4, ComputedSame
<1>6. \A i \in N : low[i] = r.min /\ f[i] = low[i] + given[i]
  OBVIOUS
<1>7. SumFunctionOnSet(given, N) = bonus
  BY DEF SumFunction
<1> HIDE DEF N, low, f
<1>8. SumFunctionOnSet(low, N) = r.min * Cardinality(N)
  BY <1>1, <1>2, <1>6, SumConstant
<1>9. \A i \in N : low[i] \in Int /\ given[i] \in Int /\ f[i] = low[i] + given[i]
  BY <1>2, <1>6
<1>10. SumFunctionOnSet(f, N) = SumFunctionOnSet(low, N) + SumFunctionOnSet(given, N)
  BY <1>1, <1>9, SumPlus
<1>11. SumFunctionOnSet(f, N) = r.min * k + bonus
  BY <1>1, <1>7, <1>8, <1>10
<1>12. Within(f, k, r.min * k + bonus, r)
  BY <1>4, <1>11 DEF Within, N
<1>13. Within(Computed(f), k, r.min * k + bonus, r)
  BY <1>5, <1>12
<1>14. QED
  BY <1>13 DEF f, N

LEMMA NormalWithin ==
  ASSUME NEW r, RuleSet(r), r.normal > 0,
         NEW bonus \in Nat, bonus <= Capacity(r) * r.normal
  PROVE  /\ NormalAmounts(bonus, r) # {}
         /\ \A a \in NormalAmounts(bonus, r) :
               Within(a, r.normal, r.min * r.normal + bonus, r)
<1> DEFINE k == r.normal
           pool == r.min * k + bonus
           Amounts(w) == Computed([i \in 1..k |-> r.min + DistributeBonus(w, bonus, Capacity(r))[i]])
           Choices(w) == IF bonus > 0 /\ k > 1 THEN EnsureVariation(Amounts(w), w, r)
                         ELSE {Amounts(w)}
           W == [1..k -> NormalWeights]
<1>1. NormalAmounts(bonus, r) = UNION {Choices(w) : w \in W}
  BY DEF NormalAmounts
<1>2. ASSUME NEW w \in W
      PROVE  Choices(w) # {} /\ \A a \in Choices(w) : Within(a, k, pool, r)
  <2>1. k \in Nat /\ Capacity(r) \in Nat /\ r.min \in Nat /\ r.max \in Nat /\ r.min <= r.max
    BY CapacityType DEF RuleSet
  <2>2. /\ DistributeBonus(w, bonus, Capacity(r)) \in [1..k -> 0..Capacity(r)]
        /\ SumFunction(DistributeBonus(w, bonus, Capacity(r))) = bonus
    BY <2>1, BonusDistributed
  <2>3. Within(Amounts(w), k, pool, r)
    BY <2>1, <2>2, RaisedWithin
  <2>4. CASE bonus > 0 /\ k > 1
    <3> HIDE DEF Amounts, pool
    <3> QED
      BY <2>1, <2>3, <2>4, VariationKept
  <2>5. CASE ~(bonus > 0 /\ k > 1)
    <3> HIDE DEF Amounts
    <3> QED
      BY <2>3, <2>5
  <2>6. QED
    BY <2>4, <2>5
<1>3. PICK w \in W : TRUE
  <2>1. PICK v \in NormalWeights : TRUE
    BY WeightsAssumption
  <2>2. [i \in 1..k |-> v] \in W
    OBVIOUS
  <2>3. QED
    BY <2>2
<1> HIDE DEF W, Choices, pool
<1>4. QED
  <2>1. PICK a \in Choices(w) : TRUE
    BY <1>2
  <2>2. a \in NormalAmounts(bonus, r)
    BY <1>1, <2>1
  <2>3. \A b \in NormalAmounts(bonus, r) : \E v \in W : b \in Choices(v)
    BY <1>1
  <2>4. QED
    BY <1>2, <2>2, <2>3 DEF pool

-----------------------------------------------------------------------------
(* All payouts.                                                            *)

\* f is g after its first a arguments, up to the m-th of g.
Shifted(f, a, g, m) == \A j \in 1..m : g[j] \in Int /\ f[a + j] = g[j]

LEMMA SumShift ==
  ASSUME NEW a \in Nat, NEW m \in Nat, NEW f, NEW g, Shifted(f, a, g, m)
  PROVE  SumFunctionOnSet(f, (a + 1)..(a + m)) = SumFunctionOnSet(g, 1..m)
<1> DEFINE T == 1..m
           S == (a + 1)..(a + m)
           h == [j \in T |-> a + j]
<1>1. \A i, j \in T : i # j => h[i] # h[j]
  OBVIOUS
<1>2. {h[j] : j \in T} = S
  <2>1. \A i \in S : i - a \in T /\ h[i - a] = i
    OBVIOUS
  <2>2. \A j \in T : h[j] \in S
    OBVIOUS
  <2> HIDE DEF S, T, h
  <2>3. QED
    BY <2>1, <2>2
<1>3. \A j \in T : g[j] = f[h[j]] /\ g[j] \in Int
  BY DEF Shifted
<1>4. IsFiniteSet(T)
  BY FS_Interval
<1> HIDE DEF T, S, h
<1>5. SumFunctionOnSet(f, {h[j] : j \in T}) = SumFunctionOnSet(g, T)
  BY <1>1, <1>3, <1>4, SumRename
<1>6. QED
  BY <1>2, <1>5 DEF T, S

\* What is spared beyond the minimum and the lucky ones is absorbed by the normal
\* ones and the consoled ones.
HasRoom(L, k, c, min, cap, total) ==
    (L + k + c) * min + L * cap <= total /\ total <= (L + k + c) * (min + cap)

SpareOf(L, k, c, min, cap, total) == total - (L + k + c) * min - L * cap

TakenOf(L, k, c, min, cap, total) == Smaller(SpareOf(L, k, c, min, cap, total), k * cap)

Absorbs(absorbed, rest, L, k, c, min, cap, total) ==
    /\ absorbed \in Nat /\ absorbed <= cap * k
    /\ rest \in Nat /\ rest <= cap * c
    /\ (min + cap) * L + (min * k + absorbed) + (min * c + rest) = total

LEMMA PoolAbsorbed ==
  ASSUME NEW L \in Nat, NEW k \in Nat, NEW c \in Nat, NEW min \in Nat, NEW cap \in Nat,
         NEW total \in Nat, HasRoom(L, k, c, min, cap, total)
  PROVE  LET spare == SpareOf(L, k, c, min, cap, total)
             absorbed == TakenOf(L, k, c, min, cap, total)
         IN  spare \in Nat /\ Absorbs(absorbed, spare - absorbed, L, k, c, min, cap, total)
<1>1. PICK Lm \in Nat, Lc \in Nat, km \in Nat, kc \in Nat, cm \in Nat, cc \in Nat :
         /\ Lm = L * min /\ Lc = L * cap /\ km = k * min /\ kc = k * cap
         /\ cm = c * min /\ cc = c * cap
  OBVIOUS
<1>2. /\ (L + k + c) * min = Lm + km + cm
      /\ (L + k + c) * (min + cap) = Lm + km + cm + Lc + kc + cc
      /\ (min + cap) * L = Lm + Lc /\ min * k = km /\ min * c = cm
      /\ cap * k = kc /\ cap * c = cc
  BY <1>1
<1> DEFINE spare == SpareOf(L, k, c, min, cap, total)
           absorbed == TakenOf(L, k, c, min, cap, total)
<1>3. spare = total - (Lm + km + cm) - Lc /\ absorbed = Smaller(spare, kc)
  BY <1>1, <1>2 DEF SpareOf, TakenOf
<1>4. Lm + km + cm + Lc <= total /\ total <= Lm + km + cm + Lc + kc + cc
  BY <1>1, <1>2 DEF HasRoom
<1> HIDE DEF spare, absorbed
<1>5. /\ spare \in Nat /\ absorbed \in Nat /\ absorbed <= kc
      /\ spare - absorbed \in Nat /\ spare - absorbed <= cc
      /\ (Lm + Lc) + (km + absorbed) + (cm + (spare - absorbed)) = total
  BY ONLY total \in Nat, Lm \in Nat, Lc \in Nat, km \in Nat, kc \in Nat, cm \in Nat,
          cc \in Nat, <1>3, <1>4 DEF Smaller
<1>6. QED
  BY <1>2, <1>5 DEF Absorbs, spare, absorbed

\* The awards of the n entries sum up to the pool.
Exact(a, n, total) ==
    /\ DOMAIN a = 1..n
    /\ \A i \in 1..n : a[i].amount \in Nat
    /\ SumFunction([i \in DOMAIN a |-> a[i].amount]) = total

InBounds(a, n, r) == \A i \in 1..n : a[i].amount \in r.min..r.max

\* The amounts of the awards f are A.
Awarding(f, A, n) ==
    /\ f = [i \in 1..n |-> f[i]]
    /\ \A i \in 1..n : f[i].amount = A[i] /\ A[i] \in Nat

LEMMA AwardsOf ==
  ASSUME NEW n \in Nat, NEW f, NEW A, Awarding(f, A, n)
  PROVE  /\ Exact(Computed(f), n, SumFunctionOnSet(A, 1..n))
         /\ Awarding(Computed(f), A, n)
<1> DEFINE N == 1..n
           awards == [i \in DOMAIN f |-> f[i].amount]
<1>1. Computed(f) = f
  <2>1. f \in [1..n -> {f[i] : i \in N}]
    BY DEF Awarding
  <2>2. QED
    BY <2>1, ComputedSame
<1>2. DOMAIN f = N
  BY DEF Awarding
<1>3. DOMAIN awards = N /\ \A i \in N : awards[i] = A[i] /\ A[i] \in Int
  BY <1>2 DEF Awarding
<1>4. IsFiniteSet(N)
  BY FS_Interval
<1>5. SumFunctionOnSet(awards, N) = SumFunctionOnSet(A, N)
  <2> HIDE DEF N, awards
  <2> QED
    BY <1>3, <1>4, SumSame
<1>6. SumFunction(awards) = SumFunctionOnSet(A, N)
  BY <1>3, <1>5 DEF SumFunction
<1>7. Exact(f, n, SumFunctionOnSet(A, N))
  <2>1. \A i \in 1..n : f[i].amount \in Nat
    BY DEF Awarding
  <2>2. QED
    BY <1>2, <1>6, <2>1 DEF Exact
<1>8. QED
  BY <1>1, <1>7

\* s payouts are the lucky and the normal ones, n are all.
InARow(L, k, c, s, n) == s = L + k /\ n = s + c

Joined(A, f, g, h, L, k, c, s) ==
    Shifted(A, 0, f, L) /\ Shifted(A, L, g, k) /\ Shifted(A, s, h, c)

\* The lucky ones' payouts, the normal ones' and the consoled ones' in a row.
LEMMA ThreeSums ==
  ASSUME NEW L \in Nat, NEW k \in Nat, NEW c \in Nat, NEW s \in Nat, NEW n \in Nat,
         InARow(L, k, c, s, n), NEW A, NEW f, NEW g, NEW h, Joined(A, f, g, h, L, k, c, s)
  PROVE  SumFunctionOnSet(A, 1..n) =
            SumFunctionOnSet(f, 1..L) + SumFunctionOnSet(g, 1..k) + SumFunctionOnSet(h, 1..c)
<1> DEFINE X == 1..L
           Y == (L + 1)..(L + k)
           Z == (s + 1)..(s + c)
           All == 1..n
<1>1. SumFunctionOnSet(A, Y) = SumFunctionOnSet(g, 1..k)
  <2>1. Shifted(A, L, g, k)
    BY DEF Joined
  <2>2. QED
    BY <2>1, SumShift
<1>2. SumFunctionOnSet(A, Z) = SumFunctionOnSet(h, 1..c)
  <2>1. Shifted(A, s, h, c)
    BY DEF Joined
  <2>2. QED
    BY <2>1, SumShift
<1>3. IsFiniteSet(X) /\ IsFiniteSet(Y) /\ IsFiniteSet(Z) /\ IsFiniteSet(X \cup Y)
  <2>1. IsFiniteSet(X)
    BY FS_Interval
  <2>2. IsFiniteSet(Y)
    BY FS_Interval
  <2>3. IsFiniteSet(Z)
    BY FS_Interval
  <2> HIDE DEF X, Y, Z
  <2>4. IsFiniteSet(X \cup Y)
    BY <2>1, <2>2, FS_Union
  <2>5. QED
    BY <2>1, <2>2, <2>3, <2>4
<1>4. (X \cup Y) \cup Z = All /\ X \cap Y = {} /\ (X \cup Y) \cap Z = {}
  BY DEF InARow
<1>5. \A i \in X : A[i] = f[i] /\ A[i] \in Int
  <2>1. \A i \in X : 0 + i = i
    OBVIOUS
  <2>2. QED
    BY <2>1 DEF Joined, Shifted
<1>6. \A i \in Y : A[i] \in Int
  <2>1. \A i \in Y : i - L \in 1..k /\ i = L + (i - L)
    OBVIOUS
  <2>2. QED
    BY <2>1 DEF Joined, Shifted
<1>7. \A i \in Z : A[i] \in Int
  <2>1. \A i \in Z : i - s \in 1..c /\ i = s + (i - s)
    OBVIOUS
  <2>2. QED
    BY <2>1 DEF Joined, Shifted
<1> HIDE DEF X, Y, Z, All
<1>8. SumFunctionOnSet(A, X) = SumFunctionOnSet(f, X)
  BY <1>3, <1>5, SumSame
<1>9. SumFunctionOnSet(A, X \cup Y) = SumFunctionOnSet(A, X) + SumFunctionOnSet(A, Y)
  <2>1. \A i \in X \cup Y : A[i] \in Int
    BY <1>5, <1>6
  <2>2. QED
    BY <1>3, <1>4, <2>1, SumUnion
<1>10. SumFunctionOnSet(A, (X \cup Y) \cup Z) = SumFunctionOnSet(A, X \cup Y) + SumFunctionOnSet(A, Z)
  <2>1. \A i \in (X \cup Y) \cup Z : A[i] \in Int
    BY <1>5, <1>6, <1>7
  <2>2. QED
    BY <1>3, <1>4, <2>1, SumUnion
<1>11. SumFunctionOnSet(A, All) = SumFunctionOnSet(f, X) + SumFunctionOnSet(g, 1..k)
                                     + SumFunctionOnSet(h, 1..c)
  BY <1>1, <1>2, <1>4, <1>8, <1>9, <1>10
<1>12. QED
  BY <1>11 DEF X, All

\* The same with the amounts: L lucky ones, k normal ones and c consoled ones.
TieredAmounts(L, s, n, min, cap, normals, consoled) ==
    [i \in 1..n |-> IF i <= L THEN min + cap
                    ELSE IF i <= s THEN normals[i - L]
                    ELSE min + consoled[i - s]]

ShareIs(given, k, low, high, sum) ==
    (\A j \in 1..k : given[j] \in low..high) /\ SumFunctionOnSet(given, 1..k) = sum

LEMMA ThreeTiers ==
  ASSUME NEW L \in Nat, NEW k \in Nat, NEW c \in Nat, NEW s \in Nat, NEW n \in Nat,
         InARow(L, k, c, s, n), NEW min \in Nat, NEW cap \in Nat,
         NEW absorbed \in Nat, NEW rest \in Nat, NEW normals, NEW consoled,
         ShareIs(normals, k, min, min + cap, min * k + absorbed),
         ShareIs(consoled, c, 0, cap, rest)
  PROVE  ShareIs(TieredAmounts(L, s, n, min, cap, normals, consoled), n, min, min + cap,
                 (min + cap) * L + (min * k + absorbed) + (min * c + rest))
<1> DEFINE amount == TieredAmounts(L, s, n, min, cap, normals, consoled)
           lucky == [i \in 1..L |-> min + cap]
           consolation == [j \in 1..c |-> min + consoled[j]]
<1>1. SumFunctionOnSet(consolation, 1..c) = min * c + rest
  <2> DEFINE N == 1..c
             low == [j \in N |-> min]
  <2>1. IsFiniteSet(N) /\ Cardinality(N) = c
    BY FS_Interval
  <2>2. \A j \in N : low[j] = min
    OBVIOUS
  <2>3. \A j \in N : low[j] \in Int /\ consoled[j] \in Int /\ consolation[j] = low[j] + consoled[j]
    BY DEF ShareIs
  <2> HIDE DEF low, consolation, N
  <2>4. SumFunctionOnSet(low, N) = min * Cardinality(N)
    <3>1. min \in Int
      OBVIOUS
    <3>2. QED
      BY <2>1, <2>2, <3>1, SumConstant
  <2>5. SumFunctionOnSet(consolation, N) = SumFunctionOnSet(low, N) + SumFunctionOnSet(consoled, N)
    BY <2>1, <2>3, SumPlus
  <2>6. SumFunctionOnSet(consolation, N) = min * c + rest
    BY <2>1, <2>4, <2>5 DEF N, ShareIs
  <2>7. QED
    BY <2>6 DEF N
<1>2. SumFunctionOnSet(lucky, 1..L) = (min + cap) * L
  <2> DEFINE N == 1..L
             each == min + cap
  <2>1. IsFiniteSet(N) /\ Cardinality(N) = L
    BY FS_Interval
  <2>2. each \in Int /\ \A i \in N : lucky[i] = each
    OBVIOUS
  <2> HIDE DEF lucky, N, each
  <2>3. SumFunctionOnSet(lucky, N) = each * Cardinality(N)
    BY <2>1, <2>2, SumConstant
  <2>4. QED
    BY <2>1, <2>3 DEF N, each
<1>3. ASSUME NEW i \in 1..L
      PROVE  lucky[i] \in Int /\ amount[0 + i] = lucky[i]
  <2>1. i \in 1..n /\ 0 + i = i
    BY DEF InARow
  <2>2. QED
    BY <2>1 DEF TieredAmounts
<1>4. ASSUME NEW j \in 1..k
      PROVE  normals[j] \in Int /\ amount[L + j] = normals[j]
  <2>1. L + j \in 1..n /\ ~(L + j <= L) /\ L + j <= s /\ (L + j) - L = j
    BY DEF InARow
  <2>2. amount[L + j] = normals[j]
    BY <2>1 DEF TieredAmounts
  <2>3. QED
    BY <2>2 DEF ShareIs
<1>5. ASSUME NEW j \in 1..c
      PROVE  consolation[j] \in Int /\ amount[s + j] = consolation[j]
  <2>1. s + j \in 1..n /\ ~(s + j <= L) /\ ~(s + j <= s) /\ (s + j) - s = j
    BY DEF InARow
  <2>2. amount[s + j] = min + consoled[j]
    BY <2>1 DEF TieredAmounts
  <2>3. consoled[j] \in Int
    BY DEF ShareIs
  <2>4. QED
    BY <2>2, <2>3
<1>6. ASSUME NEW i \in 1..n
      PROVE  amount[i] \in min..(min + cap)
  <2>1. CASE i <= L
    BY <2>1 DEF TieredAmounts
  <2>2. CASE ~(i <= L) /\ i <= s
    <3>1. i - L \in 1..k
      BY <2>2 DEF InARow
    <3>2. normals[i - L] \in min..(min + cap)
      BY <3>1 DEF ShareIs
    <3>3. QED
      BY <2>2, <3>2 DEF TieredAmounts
  <2>3. CASE ~(i <= L) /\ ~(i <= s)
    <3>1. i - s \in 1..c
      BY <2>3 DEF InARow
    <3>2. consoled[i - s] \in 0..cap
      BY <3>1 DEF ShareIs
    <3>3. QED
      BY <2>3, <3>2 DEF TieredAmounts
  <2>4. QED
    BY <2>1, <2>2, <2>3
<1>7. Joined(amount, lucky, normals, consolation, L, k, c, s)
  <2> HIDE DEF amount, lucky, consolation
  <2>1. Shifted(amount, 0, lucky, L)
    BY <1>3 DEF Shifted
  <2>2. Shifted(amount, L, normals, k)
    BY <1>4 DEF Shifted
  <2>3. Shifted(amount, s, consolation, c)
    BY <1>5 DEF Shifted
  <2>4. QED
    BY <2>1, <2>2, <2>3 DEF Joined
<1> HIDE DEF amount, lucky, consolation
<1>8. SumFunctionOnSet(amount, 1..n) =
          SumFunctionOnSet(lucky, 1..L) + SumFunctionOnSet(normals, 1..k)
             + SumFunctionOnSet(consolation, 1..c)
  BY ONLY L \in Nat, k \in Nat, c \in Nat, s \in Nat, n \in Nat,
          InARow(L, k, c, s, n), <1>7, ThreeSums
<1>9. SumFunctionOnSet(normals, 1..k) = min * k + absorbed
  BY DEF ShareIs
<1>10. SumFunctionOnSet(amount, 1..n) =
          (min + cap) * L + (min * k + absorbed) + (min * c + rest)
  BY <1>1, <1>2, <1>8, <1>9
<1>11. QED
  BY <1>6, <1>10 DEF amount, ShareIs

\* The rules fit: the spare is absorbed by the normal payouts and the consoled ones.
LEMMA FitsAbsorbs ==
  ASSUME NEW n \in Nat, NEW total \in Nat, NEW r, RuleSet(r), FitsPool(n, total, r)
  PROVE  Absorbs(Absorbed(n, total, r), Spare(n, total, r) - Absorbed(n, total, r),
                 r.lucky, r.normal, n - (r.lucky + r.normal), r.min, Capacity(r), total)
<1>1. PICK L \in Nat, k \in Nat, min \in Nat, cap \in Nat :
         /\ L = r.lucky /\ k = r.normal /\ min = r.min /\ cap = Capacity(r)
         /\ r.max = min + cap
  BY CapacityType DEF RuleSet
<1>2. PICK c \in Nat : n = L + k + c /\ c = n - (L + k)
  <2>1. n - (L + k) \in Nat
    BY <1>1 DEF FitsPool
  <2>2. QED
    BY <2>1
<1>3. HasRoom(L, k, c, min, cap, total)
  BY <1>1, <1>2 DEF FitsPool, HasRoom
<1> DEFINE free == SpareOf(L, k, c, min, cap, total)
           taken == TakenOf(L, k, c, min, cap, total)
<1>4. Absorbs(taken, free - taken, L, k, c, min, cap, total)
  BY <1>3, PoolAbsorbed
<1>5. free = Spare(n, total, r)
  BY <1>1, <1>2 DEF Spare, SpareOf
<1>6. taken = Absorbed(n, total, r)
  BY <1>1, <1>5 DEF Absorbed, TakenOf
<1> HIDE DEF free, taken
<1>7. QED
  BY <1>1, <1>2, <1>4, <1>5, <1>6

LEMMA FixedAllocationExact ==
  ASSUME NEW n \in Nat, NEW total \in Nat, NEW r, RuleSet(r), FitsPool(n, total, r),
         NEW normals,
         r.normal > 0 => Within(normals, r.normal,
                                r.min * r.normal + Absorbed(n, total, r), r),
         NEW offset \in 0..Larger(n - r.lucky - r.normal - 1, 0)
  PROVE  LET a == FixedAllocation(n, total, r, normals, offset)
         IN  Exact(a, n, total) /\ InBounds(a, n, r)
<1>1. PICK L \in Nat, k \in Nat, min \in Nat, cap \in Nat :
         /\ L = r.lucky /\ k = r.normal /\ min = r.min /\ cap = Capacity(r)
         /\ r.max = min + cap
  BY CapacityType DEF RuleSet
<1>2. PICK c \in Nat, s \in Nat : n = L + k + c /\ s = L + k /\ c = n - (L + k)
                                   /\ InARow(L, k, c, s, n)
  <2>1. n - (L + k) \in Nat
    BY <1>1 DEF FitsPool
  <2>2. QED
    BY <2>1 DEF InARow
<1>3. PICK absorbed \in Nat, rest \in Nat :
         /\ absorbed = Absorbed(n, total, r)
         /\ rest = Spare(n, total, r) - Absorbed(n, total, r)
         /\ Absorbs(absorbed, rest, L, k, c, min, cap, total)
  <2>1. Absorbs(Absorbed(n, total, r), Spare(n, total, r) - Absorbed(n, total, r),
                L, k, c, min, cap, total)
    BY <1>1, <1>2, FitsAbsorbs
  <2>2. Absorbed(n, total, r) \in Nat /\ Spare(n, total, r) - Absorbed(n, total, r) \in Nat
    BY <2>1 DEF Absorbs
  <2>3. QED
    BY <2>1, <2>2
<1>4. /\ absorbed <= cap * k /\ rest <= cap * c
      /\ (min + cap) * L + (min * k + absorbed) + (min * c + rest) = total
  BY <1>3 DEF Absorbs
<1> DEFINE consoled == DistributeEvenly(c, rest, offset)
<1>5. ShareIs(consoled, c, 0, cap, rest)
  <2>1. CASE c = 0
    <3>1. rest = 0
      <4>1. cap * 0 = 0
        OBVIOUS
      <4>2. QED
        BY <1>3, <1>4, <2>1, <4>1
    <3>2. 1..c = {}
      BY <2>1
    <3> HIDE DEF consoled
    <3>3. QED
      BY <3>1, <3>2, SumEmpty DEF ShareIs
  <2>2. CASE c > 0
    <3>1. offset \in 0..(c - 1)
      BY <1>1, <1>2, <2>2 DEF Larger
    <3>2. /\ SumFunctionOnSet(consoled, 1..c) = rest
          /\ \A low, high \in Nat : low * c <= rest /\ rest <= high * c =>
                 \A j \in 1..c : consoled[j] \in low..high
      BY <2>2, <3>1, EvenlyDistributed
    <3>3. 0 * c = 0
      OBVIOUS
    <3>4. 0 * c <= rest /\ rest <= cap * c
      BY <1>3, <1>4, <3>3
    <3> HIDE DEF consoled
    <3>5. cap \in Nat /\ 0 \in Nat
      OBVIOUS
    <3>6. \A j \in 1..c : consoled[j] \in 0..cap
      BY <3>2, <3>4, <3>5
    <3>7. QED
      BY <3>2, <3>6 DEF ShareIs
  <2>3. QED
    BY <2>1, <2>2
<1>6. ShareIs(normals, k, min, min + cap, min * k + absorbed)
  <2>1. CASE k = 0
    <3>1. cap * 0 = 0 /\ min * 0 = 0
      OBVIOUS
    <3>2. absorbed = 0 /\ 1..k = {}
      BY <1>3, <1>4, <2>1, <3>1
    <3>3. QED
      BY <2>1, <3>1, <3>2, SumEmpty DEF ShareIs
  <2>2. CASE k > 0
    <3>1. Within(normals, k, min * k + absorbed, r)
      BY <1>1, <1>3, <1>4, <2>2
    <3>2. normals \in [1..k -> min..(min + cap)]
      BY <1>1, <3>1 DEF Within
    <3>3. SumFunctionOnSet(normals, 1..k) = min * k + absorbed
      BY <3>1 DEF Within
    <3>4. QED
      BY <3>2, <3>3 DEF ShareIs
  <2>3. QED
    BY <2>1, <2>2
<1> DEFINE amount == TieredAmounts(L, s, n, min, cap, normals, consoled)
           T == Tiers(n, r)
           f == [i \in 1..n |-> [tier |-> T[i], amount |-> amount[i]]]
           a == Computed(f)
<1>7. FixedAllocation(n, total, r, normals, offset) = a
  BY <1>1, <1>2, <1>3, <1>4 DEF FixedAllocation, TieredAmounts
<1> HIDE DEF consoled
<1>8. ShareIs(amount, n, min, min + cap,
              (min + cap) * L + (min * k + absorbed) + (min * c + rest))
  BY <1>2, <1>5, <1>6, ThreeTiers
<1>9. ShareIs(amount, n, min, min + cap, total)
  BY <1>3, <1>4, <1>8
<1> HIDE DEF amount, T
<1>10. \A i \in 1..n : amount[i] \in min..(min + cap) /\ amount[i] \in Nat
  BY <1>9 DEF ShareIs
<1>11. Awarding(f, amount, n)
  <2>1. f = [i \in 1..n |-> f[i]]
    OBVIOUS
  <2>2. \A i \in 1..n : f[i].amount = amount[i]
    OBVIOUS
  <2> HIDE DEF f
  <2>3. QED
    BY <1>10, <2>1, <2>2 DEF Awarding
<1> HIDE DEF f
<1>12. Exact(a, n, SumFunctionOnSet(amount, 1..n)) /\ Awarding(a, amount, n)
  BY <1>11, AwardsOf
<1>13. SumFunctionOnSet(amount, 1..n) = total
  BY <1>9 DEF ShareIs
<1> HIDE DEF a
<1>14. InBounds(a, n, r)
  BY <1>1, <1>10, <1>12 DEF InBounds, Awarding
<1>15. QED
  BY <1>7, <1>12, <1>13, <1>14

\* What is asked of an allocation: it pays out the pool, and within the bounds of
\* the rules when the pool allows that.
Fillable(n, total, r) == n * r.min <= total /\ total <= n * r.max

Right(a, n, total, r) ==
    Exact(a, n, total) /\ (Fillable(n, total, r) => InBounds(a, n, r))

AllRight(A, n, total, r) == A # {} /\ \A a \in A : Right(a, n, total, r)

LEMMA FixedRight ==
  ASSUME NEW n \in Nat, NEW total \in Nat, NEW r, RuleSet(r), FitsPool(n, total, r)
  PROVE  AllRight(FixedCounts(n, total, r), n, total, r)
<1> DEFINE absorbed == Absorbed(n, total, r)
           N == IF r.normal = 0 THEN {<<>>} ELSE NormalAmounts(absorbed, r)
           O == 0..Larger(n - r.lucky - r.normal - 1, 0)
           F(normals, offset) == FixedAllocation(n, total, r, normals, offset)
           counts == FixedCounts(n, total, r)
<1>1. counts = {F(normals, offset) : normals \in N, offset \in O}
  BY DEF FixedCounts
<1>2. absorbed \in Nat /\ absorbed <= Capacity(r) * r.normal
  BY FitsAbsorbs DEF Absorbs
<1>3. r.normal \in Nat
  BY DEF RuleSet
<1> HIDE DEF absorbed
<1>4. N # {} /\ \A normals \in N : r.normal > 0 =>
                    Within(normals, r.normal, r.min * r.normal + absorbed, r)
  <2>1. CASE r.normal = 0
    BY <2>1
  <2>2. CASE r.normal > 0
    <3>1. /\ NormalAmounts(absorbed, r) # {}
          /\ \A a \in NormalAmounts(absorbed, r) :
                Within(a, r.normal, r.min * r.normal + absorbed, r)
      BY <1>2, <2>2, NormalWithin
    <3>2. N = NormalAmounts(absorbed, r)
      BY <2>2
    <3> HIDE DEF N
    <3>3. QED
      BY <3>1, <3>2
  <2>3. QED
    BY <1>3, <2>1, <2>2
<1>5. 0 \in O
  <2>1. n - r.lucky - r.normal - 1 \in Int
    BY DEF RuleSet
  <2>2. Larger(n - r.lucky - r.normal - 1, 0) \in Nat
    BY <2>1 DEF Larger
  <2>3. QED
    BY <2>2
<1> HIDE DEF N, counts
<1>6. ASSUME NEW normals \in N, NEW offset \in O
      PROVE  Right(F(normals, offset), n, total, r)
  <2>1. r.normal > 0 => Within(normals, r.normal, r.min * r.normal + Absorbed(n, total, r), r)
    BY <1>4 DEF absorbed
  <2>2. Exact(F(normals, offset), n, total) /\ InBounds(F(normals, offset), n, r)
    BY <2>1, FixedAllocationExact
  <2>3. QED
    BY <2>2 DEF Right
<1> HIDE DEF F, O
<1>7. QED
  BY <1>1, <1>4, <1>5, <1>6 DEF AllRight, counts

LEMMA FallbackRight ==
  ASSUME NEW n \in Nat, n > 0, NEW total \in Nat, NEW r, RuleSet(r)
  PROVE  AllRight(Fallback(n, total, r), n, total, r)
<1> DEFINE T == Tiers(n, r)
           even(offset) == DistributeEvenly(n, total, offset)
           f(offset) == [i \in 1..n |-> [tier |-> T[i], amount |-> even(offset)[i]]]
           O == 0..(n - 1)
<1>1. Fallback(n, total, r) = {Computed(f(offset)) : offset \in O}
  BY DEF Fallback
<1>2. ASSUME NEW offset \in O
      PROVE  Right(Computed(f(offset)), n, total, r)
  <2> DEFINE A == even(offset)
             g == f(offset)
  <2>1. /\ SumFunctionOnSet(A, 1..n) = total
        /\ \A low, high \in Nat : low * n <= total /\ total <= high * n =>
               \A i \in 1..n : A[i] \in low..high
        /\ \A i \in 1..n : A[i] \in Nat
    <3>1. /\ A \in [1..n -> Nat]
          /\ SumFunctionOnSet(A, 1..n) = total
          /\ \A low, high \in Nat : low * n <= total /\ total <= high * n =>
                 \A i \in 1..n : A[i] \in low..high
      BY EvenlyDistributed
    <3> HIDE DEF A
    <3>2. QED
      BY <3>1
  <2>2. Awarding(g, A, n)
    <3> HIDE DEF even, T
    <3>1. g = [i \in 1..n |-> g[i]] /\ \A i \in 1..n : g[i].amount = A[i]
      OBVIOUS
    <3> HIDE DEF g, A
    <3>2. QED
      BY <2>1, <3>1 DEF Awarding
  <2> HIDE DEF g, A
  <2>3. Exact(Computed(g), n, SumFunctionOnSet(A, 1..n)) /\ Awarding(Computed(g), A, n)
    BY <2>2, AwardsOf
  <2>4. Exact(Computed(g), n, total)
    BY <2>1, <2>3
  <2>5. Fillable(n, total, r) => \A i \in 1..n : A[i] \in r.min..r.max
    <3>1. PICK low \in Nat, high \in Nat : low = r.min /\ high = r.max
      BY DEF RuleSet
    <3>2. n * low = low * n /\ n * high = high * n
      OBVIOUS
    <3>3. Fillable(n, total, r) => low * n <= total /\ total <= high * n
      BY <3>1, <3>2 DEF Fillable
    <3>4. Fillable(n, total, r) => \A i \in 1..n : A[i] \in low..high
      BY <2>1, <3>3
    <3>5. QED
      BY <3>1, <3>4
  <2>6. Right(Computed(g), n, total, r)
    BY <2>3, <2>4, <2>5 DEF Right, InBounds, Awarding
  <2>7. QED
    BY <2>6 DEF g
<1>3. 0 \in O
  OBVIOUS
<1> HIDE DEF f, O
<1>4. QED
  BY <1>1, <1>2, <1>3 DEF AllRight

HasFields(r) ==
    /\ r = [x \in DOMAIN r |-> r[x]]
    /\ {"min", "max", "normal", "lucky"} \subseteq DOMAIN r

\* The rules of an early draw are a rule set with the same bounds.
LEMMA EarlyRules ==
  ASSUME NEW n \in Nat, NEW total, NEW r, RuleSet(r), HasFields(r)
  PROVE  LET e == FitEarlyDraw(n, total, r)
         IN  RuleSet(e) /\ e.min = r.min /\ e.max = r.max
<1> DEFINE lucky == Smaller(r.lucky, n)
           special == IF r.normal > n - lucky THEN n ELSE lucky + r.normal
           With(k) == [r EXCEPT !.lucky = k, !.normal = special - k]
           Fits(k) == k = 0 \/ FitsPool(n, total, With(k))
           T == {k \in 0..lucky : Fits(k)}
           c == CHOOSE k \in 0..lucky :
                    Fits(k) /\ \A j \in (k + 1)..lucky : ~Fits(j)
<1>1. lucky \in Nat /\ special \in Nat /\ lucky <= special
  BY DEF Smaller, RuleSet
<1>2. FitEarlyDraw(n, total, r) = With(c)
  BY DEF FitEarlyDraw
<1>3. \E i \in 0..lucky : Fits(i) /\ \A j \in (i + 1)..lucky : ~Fits(j)
  <2> HIDE DEF lucky, special, Fits
  <2>1. 0 \in T
    BY <1>1 DEF Fits
  <2>2. PICK i \in T : \A m \in (i + 1)..lucky : m \notin T
    <3> HIDE DEF T
    <3>1. T \in SUBSET (0..lucky)
      BY DEF T
    <3> QED
      BY <1>1, <2>1, <3>1, GreatestOf
  <2>3. \A m \in (i + 1)..lucky : m \in 0..lucky
    BY <1>1
  <2>4. QED
    BY <2>2, <2>3
<1>4. c \in 0..lucky
  <2> HIDE DEF lucky, special, Fits
  <2> QED
    BY <1>3
<1> HIDE DEF lucky, special, c
<1>5. /\ With(c).lucky = c /\ With(c).normal = special - c
      /\ With(c).min = r.min /\ With(c).max = r.max
  BY DEF HasFields
<1> HIDE DEF With
<1>6. c \in Nat /\ special - c \in Nat
  BY <1>1, <1>4
<1>7. QED
  BY <1>2, <1>5, <1>6 DEF RuleSet

\* Every pool of an entered lottery can be split, and every split pays out the
\* pool, within the bounds of the rules when the pool allows it: with few entries
\* or many, drawn early or by its time, and also where the rules do not fit.
THEOREM AllocationRight ==
  ASSUME NEW n \in Nat, n > 0, NEW total \in Nat, NEW r, RuleSet(r), HasFields(r), NEW early
  PROVE  AllRight(Allocations(n, total, r, early), n, total, r)
<1> DEFINE e == IF early /\ n < r.normal + r.lucky THEN FitEarlyDraw(n, total, r) ELSE r
<1>1. RuleSet(e) /\ e.min = r.min /\ e.max = r.max
  BY EarlyRules
<1>2. Allocations(n, total, r, early) =
          IF FitsPool(n, total, e) THEN FixedCounts(n, total, e) ELSE Fallback(n, total, r)
  BY DEF Allocations
<1> HIDE DEF e
<1>3. CASE FitsPool(n, total, e)
  <2>1. AllRight(FixedCounts(n, total, e), n, total, e)
    BY <1>1, <1>3, FixedRight
  <2>2. AllRight(FixedCounts(n, total, e), n, total, r)
    BY <1>1, <2>1 DEF AllRight, Right, Fillable, InBounds
  <2>3. QED
    BY <1>2, <1>3, <2>2
<1>4. CASE ~FitsPool(n, total, e)
  BY <1>2, <1>4, FallbackRight
<1>5. QED
  BY <1>3, <1>4

=============================================================================
