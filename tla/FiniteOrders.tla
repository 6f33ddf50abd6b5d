---------------------------- MODULE FiniteOrders ----------------------------
(***************************************************************************)
(* Facts about finite sets that the proofs need and the library states     *)
(* only with an operator parameter, if at all: ranks in a total order,     *)
(* least and greatest elements, and what a sum over a finite set is.       *)
(* Induction is by the least counterexample.                               *)
(***************************************************************************)
EXTENDS Integers, FiniteSets, FiniteSetsExt, FiniteSetTheorems, TLAPS

StrictTotalOrder(R, S) ==
    /\ \A x \in S : <<x, x>> \notin R
    /\ \A x, y \in S : x # y => <<x, y>> \in R \/ <<y, x>> \in R
    /\ \A x, y, z \in S : <<x, y>> \in R /\ <<y, z>> \in R => <<x, z>> \in R

RankIn(R, S, x) == Cardinality({y \in S : <<y, x>> \in R})

\* In a finite set with a strict total order the elements have, each its own, the
\* ranks from 0 on.
LEMMA RanksAreTaken ==
    ASSUME NEW S, IsFiniteSet(S), NEW R, StrictTotalOrder(R, S)
    PROVE  /\ \A x, y \in S : <<x, y>> \in R => RankIn(R, S, x) < RankIn(R, S, y)
           /\ \A x \in S : RankIn(R, S, x) \in 0..(Cardinality(S) - 1)
           /\ \A k \in 0..(Cardinality(S) - 1) : \E x \in S : RankIn(R, S, x) = k
<1> DEFINE Below(x) == {y \in S : <<y, x>> \in R}
           Rank(x) == Cardinality(Below(x))
           n == Cardinality(S)
           f == [x \in S |-> Rank(x)]
<1> USE DEF StrictTotalOrder
<1>1. n \in Nat
  BY FS_CardinalityType
<1>2. \A x \in S : IsFiniteSet(Below(x)) /\ Rank(x) \in Nat
  BY FS_Subset, FS_CardinalityType
<1>3. ASSUME NEW x \in S, NEW y \in S, <<x, y>> \in R PROVE Rank(x) < Rank(y)
  <2>1. Below(x) \in SUBSET Below(y)
    BY <1>3
  <2>2. x \in Below(y) /\ x \notin Below(x)
    BY <1>3
  <2> HIDE DEF Below
  <2> QED BY <1>2, <2>1, <2>2, FS_Subset
<1>4. ASSUME NEW x \in S PROVE Rank(x) \in 0..(n - 1)
  <2>1. Below(x) \in SUBSET S /\ x \notin Below(x)
    OBVIOUS
  <2> HIDE DEF Below
  <2> QED BY <1>1, <1>2, <2>1, FS_Subset
<1> HIDE DEF Rank
<1>5. \A x, y \in S : x # y => Rank(x) # Rank(y)
  <2> SUFFICES ASSUME NEW x \in S, NEW y \in S, x # y PROVE Rank(x) # Rank(y)
    OBVIOUS
  <2>1. Rank(x) < Rank(y) \/ Rank(y) < Rank(x)
    BY <1>3
  <2> QED BY <1>4, <2>1
<1>6. f \in Injection(S, 0..(n - 1))
  BY <1>4, <1>5 DEF Injection, IsInjective
<1>7. IsFiniteSet(0..(n - 1)) /\ Cardinality(0..(n - 1)) = n
  <2> HIDE DEF n
  <2>1. n - 1 \in Int /\ 0 \in Int
    BY <1>1
  <2>2. /\ IsFiniteSet(0..(n - 1))
        /\ Cardinality(0..(n - 1)) = IF 0 > n - 1 THEN 0 ELSE (n - 1) - 0 + 1
    BY <2>1, FS_Interval
  <2> QED BY <1>1, <2>2
<1>8. f \in Surjection(S, 0..(n - 1))
  BY <1>6, <1>7, FS_Injection
<1>9. \A k \in 0..(n - 1) : \E x \in S : Rank(x) = k
  BY <1>8 DEF Surjection
<1> QED BY <1>3, <1>4, <1>9 DEF Rank, RankIn

\* A nonempty finite set has a first element.
LEMMA FirstElement ==
    ASSUME NEW S, IsFiniteSet(S), S # {}, NEW R, StrictTotalOrder(R, S)
    PROVE  \E x \in S : \A y \in S : <<y, x>> \notin R
<1>1. Cardinality(S) \in Nat \ {0}
  BY FS_CardinalityType, FS_EmptySet
<1>2. \A k \in 0..(Cardinality(S) - 1) : \E x \in S : RankIn(R, S, x) = k
  BY RanksAreTaken
<1>3. PICK x \in S : RankIn(R, S, x) = 0
  BY <1>1, <1>2
<1>4. {y \in S : <<y, x>> \in R} = {}
  <2>1. IsFiniteSet({y \in S : <<y, x>> \in R})
    BY FS_Subset
  <2> QED BY <1>3, <2>1, FS_EmptySet DEF RankIn
<1> QED BY <1>4

\* A nonempty finite set of integers has a least element, which Min returns.
LEMMA LeastElement ==
    ASSUME NEW S \in SUBSET Int, IsFiniteSet(S), S # {}
    PROVE  Min(S) \in S /\ \A y \in S : Min(S) <= y
<1> DEFINE R == {ss \in S \X S : ss[1] < ss[2]}
<1>1. \A x, y \in S : <<x, y>> \in R <=> x < y
  OBVIOUS
<1>2. StrictTotalOrder(R, S)
  <2> HIDE DEF R
  <2> QED BY <1>1 DEF StrictTotalOrder
<1>3. PICK x \in S : \A y \in S : <<y, x>> \notin R
  <2> HIDE DEF R
  <2> QED BY <1>2, FirstElement
<1>4. \A y \in S : ~(y < x)
  BY <1>1, <1>3
<1>5. \A y \in S : x <= y
  BY <1>4
<1> QED BY <1>5 DEF Min

\* What the proofs below use of it: a least counterexample.
LEMMA LeastOfInterval ==
    ASSUME NEW n \in Nat, NEW S \in SUBSET (0..n), S # {}
    PROVE  \E x \in S : \A y \in S : x <= y
<1>1. IsFiniteSet(0..n)
  BY FS_Interval
<1>2. IsFiniteSet(S)
  BY <1>1, FS_Subset
<1>3. S \in SUBSET Int
  OBVIOUS
<1> QED BY <1>2, <1>3, LeastElement

\* The same for the greatest element of a bounded set.
LEMMA GreatestElement ==
    ASSUME NEW n \in Nat, NEW S \in SUBSET (0..n), S # {}
    PROVE  Max(S) \in S /\ \A y \in S : Max(S) >= y
<1> DEFINE Mirror == {n - x : x \in S}
<1>1. Mirror \in SUBSET (0..n) /\ Mirror # {}
  <2>1. \A x \in S : x \in 0..n /\ n - x \in 0..n
    OBVIOUS
  <2> QED BY <2>1
<1>2. Min(Mirror) \in Mirror /\ \A y \in Mirror : Min(Mirror) <= y
  <2>1. IsFiniteSet(0..n)
    BY FS_Interval
  <2>2. IsFiniteSet(Mirror)
    BY <1>1, <2>1, FS_Subset
  <2>3. Mirror \in SUBSET Int
    BY <1>1
  <2> HIDE DEF Mirror
  <2> QED BY <1>1, <2>2, <2>3, LeastElement
<1>3. PICK x \in S : Min(Mirror) = n - x
  BY <1>2
<1>4. \A y \in S : n - y \in Mirror
  OBVIOUS
<1>5. \A y \in S : x >= y
  BY <1>2, <1>3, <1>4
<1> QED BY <1>5 DEF Max

-----------------------------------------------------------------------------
\* Sums.

\* The element that a sum over u takes first.
First(u) == CHOOSE x \in u : TRUE

\* g is a running sum of f over the subsets of S.
IsSum(g, f, S) ==
    g = [u \in SUBSET S |-> IF u = {} THEN 0 ELSE f[First(u)] + g[u \ {First(u)}]]

\* A finite set of integers can be summed up: the recursion has a solution.
LEMMA SumExists ==
    ASSUME NEW S, IsFiniteSet(S), NEW f \in [S -> Int]
    PROVE  \E g \in [SUBSET S -> Int] : IsSum(g, f, S)
<1> DEFINE Next(g, u) == IF u = {} THEN 0 ELSE f[First(u)] + g[u \ {First(u)}]
           Sums(g, n) == \A u \in SUBSET S : Cardinality(u) <= n => g[u] = Next(g, u)
           Fails == {n \in 0..Cardinality(S) : ~ \E g \in [SUBSET S -> Int] : Sums(g, n)}
<1>1. /\ Cardinality(S) \in Nat
      /\ \A u \in SUBSET S : /\ IsFiniteSet(u) /\ Cardinality(u) \in 0..Cardinality(S)
                             /\ Cardinality(u) = 0 => u = {}
  <2>1. Cardinality(S) \in Nat
    BY FS_CardinalityType
  <2>2. \A u \in SUBSET S : IsFiniteSet(u) /\ Cardinality(u) <= Cardinality(S)
    BY FS_Subset
  <2>3. \A u \in SUBSET S : Cardinality(u) \in Nat /\ (Cardinality(u) = 0 => u = {})
    BY <2>2, FS_CardinalityType, FS_EmptySet
  <2> QED BY <2>1, <2>2, <2>3
<1>2. \A u \in SUBSET S : u # {} =>
          /\ First(u) \in u /\ First(u) \in S /\ u \ {First(u)} \in SUBSET S
          /\ Cardinality(u \ {First(u)}) = Cardinality(u) - 1
  <2> SUFFICES ASSUME NEW u \in SUBSET S, u # {}
               PROVE  /\ First(u) \in u
                      /\ Cardinality(u \ {First(u)}) = Cardinality(u) - 1
    OBVIOUS
  <2>1. First(u) \in u
    BY DEF First
  <2> QED BY <1>1, <2>1, FS_RemoveElement
<1> HIDE DEF First
<1>3. \A g \in [SUBSET S -> Int] : \A u \in SUBSET S : Next(g, u) \in Int
  BY <1>2
<1>4. Fails = {}
  <2> SUFFICES ASSUME Fails # {} PROVE FALSE
    OBVIOUS
  <2>1. Fails \in SUBSET (0..Cardinality(S))
    OBVIOUS
  <2>2. PICK n \in Fails : \A k \in Fails : n <= k
    <3> HIDE DEF Fails
    <3> QED BY <1>1, <2>1, LeastOfInterval
  <2>3. n \in 0..Cardinality(S) /\ ~ \E g \in [SUBSET S -> Int] : Sums(g, n)
    BY <2>2
  <2>4. CASE n = 0
    <3> DEFINE g == [u \in SUBSET S |-> 0]
    <3>1. g \in [SUBSET S -> Int] /\ Sums(g, 0)
      BY <1>1
    <3> QED BY <2>3, <2>4, <3>1
  <2>5. CASE n # 0
    <3>1. n - 1 \in 0..Cardinality(S) /\ n - 1 \notin Fails
      <4> HIDE DEF Fails
      <4>1. n - 1 \in 0..Cardinality(S) /\ ~(n <= n - 1)
        BY <1>1, <2>3, <2>5
      <4> QED BY <2>2, <4>1
    <3>2. PICK h \in [SUBSET S -> Int] : Sums(h, n - 1)
      BY <3>1
    <3> DEFINE g == [u \in SUBSET S |-> Next(h, u)]
    <3>3. g \in [SUBSET S -> Int]
      BY <1>3
    <3>4. ASSUME NEW u \in SUBSET S, Cardinality(u) <= n PROVE g[u] = Next(g, u)
      <4>1. CASE u = {}
        BY <4>1
      <4>2. CASE u # {}
        <5> DEFINE v == u \ {First(u)}
        <5>1. v \in SUBSET S /\ Cardinality(v) <= n - 1
          BY <1>1, <1>2, <2>3, <3>4, <4>2
        <5>2. h[v] = g[v]
          BY <3>2, <5>1
        <5> QED BY <4>2, <5>2
      <4> QED BY <4>1, <4>2
    <3>5. Sums(g, n)
      BY <3>4
    <3> QED BY <2>3, <3>3, <3>5
  <2> QED BY <2>4, <2>5
<1>5. PICK g \in [SUBSET S -> Int] : Sums(g, Cardinality(S))
  BY <1>1, <1>4
<1>6. IsSum(g, f, S)
  <2>1. \A u \in SUBSET S : Cardinality(u) <= Cardinality(S)
    BY <1>1
  <2>2. \A u \in SUBSET S : g[u] = Next(g, u)
    <3> HIDE DEF Next
    <3> QED BY <1>5, <2>1
  <2>3. g = [u \in SUBSET S |-> Next(g, u)]
    <3> HIDE DEF Next
    <3> QED BY <2>2
  <2> QED BY <2>3 DEF IsSum
<1> QED BY <1>6

\* Two sums over one set that differ by at most c for each element differ, in
\* total, by at most c times the number of elements.
LEMMA SumsStayClose ==
    ASSUME NEW S, IsFiniteSet(S), NEW f \in [S -> Int], NEW e \in [S -> Int],
           NEW c \in Nat, NEW k \in Nat, \A x \in S : 2 * (k * f[x] - e[x]) \in (-c)..c,
           NEW F, IsSum(F, f, S), NEW E, IsSum(E, e, S)
    PROVE  2 * (k * F[S] - E[S]) \in (-(c * Cardinality(S)))..(c * Cardinality(S))
<1> DEFINE Close(u) ==
        /\ F[u] \in Int /\ E[u] \in Int
        /\ 2 * (k * F[u] - E[u]) \in (-(c * Cardinality(u)))..(c * Cardinality(u))
           Far == {n \in 0..Cardinality(S) :
                     \E u \in SUBSET S : Cardinality(u) = n /\ ~Close(u)}
<1>1. /\ Cardinality(S) \in Nat
      /\ \A u \in SUBSET S : /\ IsFiniteSet(u) /\ Cardinality(u) \in 0..Cardinality(S)
                             /\ u = {} => Cardinality(u) = 0
  <2>1. Cardinality(S) \in Nat
    BY FS_CardinalityType
  <2>2. \A u \in SUBSET S : IsFiniteSet(u) /\ Cardinality(u) <= Cardinality(S)
    BY FS_Subset
  <2>3. \A u \in SUBSET S : Cardinality(u) \in Nat /\ (u = {} => Cardinality(u) = 0)
    BY <2>2, FS_CardinalityType, FS_EmptySet
  <2> QED BY <2>1, <2>2, <2>3
<1>2. Far = {}
  <2> SUFFICES ASSUME Far # {} PROVE FALSE
    OBVIOUS
  <2>1. Far \in SUBSET (0..Cardinality(S))
    OBVIOUS
  <2>2. PICK n \in Far : \A j \in Far : n <= j
    <3> HIDE DEF Far
    <3> QED BY <1>1, <2>1, LeastOfInterval
  <2>3. PICK u \in SUBSET S : Cardinality(u) = n /\ ~Close(u)
    BY <2>2
  <2>4. CASE u = {}
    <3>1. F[u] = 0 /\ E[u] = 0 /\ Cardinality(u) = 0
      BY <1>1, <2>4 DEF IsSum
    <3> QED BY <2>3, <3>1
  <2>5. CASE u # {}
    <3> DEFINE x == First(u)
               v == u \ {x}
    <3>1. x \in u /\ x \in S /\ v \in SUBSET S
      BY <2>5 DEF First
    <3>2. F[u] = f[x] + F[v] /\ E[u] = e[x] + E[v]
      BY <2>5 DEF IsSum
    <3> HIDE DEF x
    <3>3. Cardinality(v) = n - 1
      BY <1>1, <2>3, <3>1, FS_RemoveElement
    <3> HIDE DEF v
    <3>4. n \in Nat /\ n - 1 \in 0..Cardinality(S) /\ n - 1 \notin Far
      BY <1>1, <2>2, <2>3, <3>1, <3>3
    <3>5. Close(v)
      BY <3>1, <3>3, <3>4
    <3>6. /\ 2 * (k * F[v] - E[v]) \in (-(c * (n - 1)))..(c * (n - 1))
          /\ 2 * (k * f[x] - e[x]) \in (-c)..c
          /\ f[x] \in Int /\ e[x] \in Int /\ F[v] \in Int /\ E[v] \in Int
      BY <3>1, <3>3, <3>5
    <3>7. /\ F[u] \in Int /\ E[u] \in Int
          /\ k * F[u] = k * f[x] + k * F[v] /\ c * n = c * (n - 1) + c
          /\ k * f[x] \in Int /\ k * F[v] \in Int /\ c * (n - 1) \in Int
      BY <3>2, <3>4, <3>6
    <3>8. 2 * (k * F[u] - E[u]) \in (-(c * n))..(c * n)
      BY <3>2, <3>6, <3>7
    <3> QED BY <2>3, <3>7, <3>8
  <2> QED BY <2>4, <2>5
<1>3. Close(S)
  BY <1>1, <1>2
<1> QED BY <1>3

=============================================================================
