--------------------------- MODULE BenchmarkProofs ---------------------------
(***************************************************************************)
(* FirstFit, ScoresFair and ValidatedSuiteRuns, for every suite, every set *)
(* of plans and outputs, and every number of findings.                     *)
(***************************************************************************)
EXTENDS Benchmark, FiniteSetTheorems, SequenceTheorems,
        WellFoundedInduction, TLAPS

(* Every set of natural numbers has a least element: the principle by      *)
(* which the lemmas below go through a list.                               *)
LEMMA LeastNat ==
  ASSUME NEW T, T \subseteq Nat, T # {}
  PROVE  \E m \in T : \A k \in T : m <= k
<1> DEFINE less == OpToRel(<, Nat)
<1>1. \E x \in T : \A y \in T : ~(<<y, x>> \in less)
  BY NatLessThanWellFounded, WFMin
<1>2. \A x, y \in Nat : x < y => <<x, y>> \in less
  BY DEF OpToRel
<1> HIDE DEF less
<1>3. PICK m \in T : \A y \in T : ~(<<y, m>> \in less)
  BY <1>1
<1>4. ASSUME NEW k \in T PROVE ~(k < m)
  <2>1. ~(<<k, m>> \in less)
    BY <1>3
  <2>2. k \in Nat /\ m \in Nat
    OBVIOUS
  <2> QED BY <1>2, <2>1, <2>2
<1> QED BY <1>4

(* Induction over the positions 0..n: what holds of 0 and goes from each   *)
(* position to the next holds of all.                                      *)
LEMMA Positions ==
  ASSUME NEW n \in Nat, NEW T, 0 \in T,
         \A i \in 1..n : i - 1 \in T => i \in T
  PROVE  \A i \in 0..n : i \in T
<1> SUFFICES ASSUME NEW j \in 0..n, j \notin T PROVE FALSE
  OBVIOUS
<1> DEFINE out == {i \in 0..n : i \notin T}
<1>1. PICK m \in out : \A k \in out : m <= k
  <2>1. out \subseteq Nat /\ out # {}
    OBVIOUS
  <2> HIDE DEF out
  <2> QED BY <2>1, LeastNat
<1>2. m \in 1..n /\ m - 1 \in 0..n
  BY <1>1
<1>3. m - 1 \in T
  BY <1>1, <1>2
<1> QED BY <1>1, <1>2, <1>3

(* A strict total order on a set, as a set of pairs.                       *)
StrictOrder(R, S) ==
    /\ \A x \in S : <<x, x>> \notin R
    /\ \A x, y, z \in S : <<x, y>> \in R /\ <<y, z>> \in R => <<x, z>> \in R
    /\ \A x, y \in S : x # y => <<x, y>> \in R \/ <<y, x>> \in R

(* Ranked puts every member of a finite set into its place.                *)
LEMMA RankedSorts ==
  ASSUME NEW S, IsFiniteSet(S), NEW R, StrictOrder(R, S)
  PROVE  /\ Ranked(S, R) \in Seq(S)
         /\ Len(Ranked(S, R)) = Cardinality(S)
         /\ Range(Ranked(S, R)) = S
         /\ \A i, j \in 1..Len(Ranked(S, R)) :
               i < j => <<Ranked(S, R)[i], Ranked(S, R)[j]>> \in R
<1> DEFINE n == Cardinality(S)
           Below(x) == {y \in S : <<y, x>> \in R}
           r == [x \in S |-> Cardinality(Below(x)) + 1]
           f == [i \in 1..n |->
                   CHOOSE x \in S : Cardinality(Below(x)) = i - 1]
<1>1. n \in Nat
  BY FS_CardinalityType
<1>2. ASSUME NEW x \in S
      PROVE  /\ IsFiniteSet(Below(x)) /\ Cardinality(Below(x)) \in Nat
             /\ r[x] = Cardinality(Below(x)) + 1 /\ r[x] \in 1..n
  <2>1. Below(x) \in SUBSET (S \ {x})
    BY DEF StrictOrder
  <2>2. IsFiniteSet(S \ {x}) /\ Cardinality(S \ {x}) = n - 1
    BY FS_RemoveElement
  <2> HIDE DEF Below
  <2>3. IsFiniteSet(Below(x)) /\ Cardinality(Below(x)) <= n - 1
    BY <2>1, <2>2, FS_Subset
  <2>4. Cardinality(Below(x)) \in Nat
    BY <2>3, FS_CardinalityType
  <2> HIDE DEF n
  <2> QED BY <1>1, <2>3, <2>4
<1>3. ASSUME NEW x \in S, NEW y \in S, <<x, y>> \in R
      PROVE  r[x] < r[y]
  <2>1. Below(x) \in SUBSET Below(y) /\ x \in Below(y) /\ x \notin Below(x)
    BY <1>3 DEF StrictOrder
  <2> HIDE DEF Below
  <2>2. Cardinality(Below(x)) <= Cardinality(Below(y))
        /\ Cardinality(Below(x)) # Cardinality(Below(y))
    BY <1>2, <2>1, FS_Subset
  <2> HIDE DEF r
  <2> QED BY <1>2, <2>2
<1>4. ASSUME NEW x \in S, NEW y \in S, r[x] = r[y]
      PROVE  x = y
  <2> SUFFICES ASSUME x # y PROVE FALSE
    OBVIOUS
  <2>1. <<x, y>> \in R \/ <<y, x>> \in R
    BY DEF StrictOrder
  <2> HIDE DEF r, n, Below
  <2>2. r[x] \in Nat /\ r[y] \in Nat
    BY <1>1, <1>2
  <2> QED BY <1>3, <1>4, <2>1, <2>2
<1>5. r \in Surjection(S, 1..n)
  <2>1. r \in [S -> 1..n] /\ DOMAIN r = S
    BY <1>2
  <2> HIDE DEF r
  <2>2. r \in Injection(S, 1..n)
    BY <1>4, <2>1 DEF Injection, IsInjective
  <2>3. IsFiniteSet(1..n) /\ Cardinality(1..n) = n
    BY <1>1, FS_Interval
  <2> QED BY <2>2, <2>3, FS_Injection
<1>6. ASSUME NEW i \in 1..n PROVE f[i] \in S /\ r[f[i]] = i
  <2>1. \E x \in S : r[x] = i
    <3> HIDE DEF r
    <3> QED BY <1>5 DEF Surjection
  <2>2. \E x \in S : Cardinality(Below(x)) = i - 1
    <3>1. PICK x \in S : r[x] = i
      BY <2>1
    <3> HIDE DEF r, Below
    <3> QED BY <1>1, <1>2, <3>1
  <2>3. f[i] \in S /\ Cardinality(Below(f[i])) = i - 1
    <3> HIDE DEF Below
    <3> QED BY <2>2
  <2> HIDE DEF r, f, Below
  <2> QED BY <1>1, <1>2, <2>3
<1>7. f = Ranked(S, R)
  BY DEF Ranked
<1>8. f \in [1..n -> S] /\ DOMAIN f = 1..n
  <2>1. \A i \in 1..n : (CHOOSE x \in S : Cardinality(Below(x)) = i - 1) \in S
    BY <1>6
  <2> HIDE DEF Below
  <2> QED BY <2>1
<1> HIDE DEF f, r, Below
<1>9. f \in Seq(S) /\ Len(f) = n
  <2> HIDE DEF n
  <2> QED BY <1>1, <1>8
<1>10. Range(f) = S
  <2>1. ASSUME NEW x \in S PROVE x \in Range(f)
    <3>1. f[r[x]] = x /\ r[x] \in DOMAIN f
      BY <1>2, <1>4, <1>6, <1>8
    <3> QED BY <3>1 DEF Range
  <2> QED BY <1>6, <1>8, <2>1 DEF Range
<1>11. ASSUME NEW i \in 1..n, NEW j \in 1..n, i < j
       PROVE  <<f[i], f[j]>> \in R
  <2>1. f[i] \in S /\ f[j] \in S /\ r[f[i]] = i /\ r[f[j]] = j
    BY <1>6
  <2>2. f[i] # f[j] /\ ~(r[f[j]] < r[f[i]])
    <3> HIDE DEF n
    <3> QED BY <1>1, <1>11, <2>1
  <2> QED BY <1>3, <2>1, <2>2 DEF StrictOrder
<1> QED BY <1>7, <1>9, <1>10, <1>11
-----------------------------------------------------------------------------
(* The recursion of SumFunction has a solution on a finite domain.         *)
LEMMA SumMeans ==
  ASSUME NEW f, IsFiniteSet(DOMAIN f)
  PROVE  \E g : /\ SumFunction(f) = g[DOMAIN f]
                /\ \A s \in SUBSET DOMAIN f :
                      \/ s = {} /\ g[s] = 0
                      \/ \E x \in s : g[s] = f[x] + g[s \ {x}]
<1> DEFINE D == DOMAIN f
           N == Cardinality(D)
           first(s) == CHOOSE x \in s : TRUE
           Rest(s) == s \ {first(s)}
           Step(g, s) == IF s = {} THEN 0 ELSE f[first(s)] + g[Rest(s)]
           Solves(g) == g = [s \in SUBSET D |-> Step(g, s)]
           Upto(g, n) == \A s \in SUBSET D :
                            Cardinality(s) <= n => g[s] = Step(g, s)
           T == {n \in 0..N : \E g : Upto(g, n)}
<1>1. N \in Nat
  BY FS_CardinalityType
<1>2. ASSUME NEW s \in SUBSET D
      PROVE  /\ IsFiniteSet(s) /\ Cardinality(s) \in 0..N
             /\ Cardinality(s) = 0 <=> s = {}
  <2>1. IsFiniteSet(s) /\ Cardinality(s) <= N
    BY FS_Subset
  <2> QED BY <1>1, <2>1, FS_CardinalityType, FS_EmptySet
<1>3. ASSUME NEW s \in SUBSET D, s # {}
      PROVE  /\ first(s) \in s
             /\ Rest(s) \in SUBSET D
             /\ Cardinality(Rest(s)) = Cardinality(s) - 1
  <2>1. first(s) \in s
    BY <1>3
  <2> HIDE DEF first
  <2>2. Cardinality(s \ {first(s)}) = Cardinality(s) - 1
    BY <1>2, <2>1, FS_RemoveElement
  <2> QED BY <2>1, <2>2
<1>4. 0 \in T
  <2>1. Upto([s \in SUBSET D |-> 0], 0)
    <3> SUFFICES ASSUME NEW s \in SUBSET D, Cardinality(s) <= 0
                 PROVE  s = {}
      BY DEF Step
    <3> QED BY <1>1, <1>2
  <2> HIDE DEF Upto
  <2> QED BY <1>1, <2>1
<1>5. ASSUME NEW n \in 1..N, n - 1 \in T PROVE n \in T
  <2>1. PICK g : Upto(g, n - 1)
    BY <1>5
  <2> DEFINE h == [s \in SUBSET D |-> Step(g, s)]
  <2>2. ASSUME NEW s \in SUBSET D, Cardinality(s) <= n
        PROVE  h[s] = Step(h, s)
    <3>1. CASE s = {}
      BY <3>1
    <3>2. CASE s # {}
      <4>1. /\ Rest(s) \in SUBSET D
            /\ Cardinality(Rest(s)) <= n - 1
        <5> HIDE DEF Rest
        <5> QED BY <1>1, <1>2, <1>3, <2>2, <3>2
      <4>2. g[Rest(s)] = Step(g, Rest(s))
        <5> HIDE DEF Rest, Step
        <5> QED BY <2>1, <4>1
      <4>3. h[Rest(s)] = Step(g, Rest(s))
        <5> HIDE DEF Rest, Step
        <5> QED BY <4>1
      <4>4. h[s] = f[first(s)] + g[Rest(s)]
        BY <3>2
      <4> HIDE DEF h, Rest, first
      <4> QED BY <3>2, <4>2, <4>3, <4>4
    <3> QED BY <3>1, <3>2
  <2>3. Upto(h, n)
    <3> HIDE DEF h, Step
    <3> QED BY <2>2
  <2> HIDE DEF Upto, h
  <2> QED BY <2>3
<1>6. \A n \in 0..N : n \in T
  <2> HIDE DEF T, N
  <2> QED BY <1>1, <1>4, <1>5, Positions
<1>7. PICK k : Upto(k, N)
  <2>1. N \in T
    <3> HIDE DEF T, N
    <3> QED BY <1>1, <1>6
  <2> HIDE DEF Upto
  <2> QED BY <2>1
<1>8. \A s \in SUBSET D : k[s] = Step(k, s)
  <2> HIDE DEF Step
  <2> QED BY <1>1, <1>2, <1>7
<1>9. \E g : Solves(g)
  <2> DEFINE g == [s \in SUBSET D |-> k[s]]
  <2>1. ASSUME NEW s \in SUBSET D PROVE g[s] = Step(g, s)
    <3>1. s # {} => g[Rest(s)] = k[Rest(s)]
      BY <1>3
    <3>2. g[s] = k[s] /\ k[s] = Step(k, s)
      <4> HIDE DEF Step
      <4> QED BY <1>8
    <3> HIDE DEF g, Rest, first
    <3> QED BY <3>1, <3>2
  <2>2. g = [s \in SUBSET D |-> Step(g, s)]
    <3>1. g = [s \in SUBSET D |-> g[s]]
      OBVIOUS
    <3> HIDE DEF g, Step
    <3> QED BY <2>1, <3>1
  <2> HIDE DEF g
  <2> QED BY <2>2
<1> DEFINE sum == CHOOSE g : Solves(g)
<1>10. Solves(sum)
  <2> HIDE DEF Solves
  <2> QED BY <1>9
<1>11. SumFunction(f) = sum[D]
  BY DEF SumFunction, SumFunctionOnSet, FoldFunctionOnSet, MapThenFoldSet
<1>12. ASSUME NEW s \in SUBSET D
       PROVE  \/ s = {} /\ sum[s] = 0
              \/ \E x \in s : sum[s] = f[x] + sum[s \ {x}]
  <2>1. sum[s] = Step(sum, s)
    <3> HIDE DEF sum, Step
    <3> QED BY <1>10
  <2> HIDE DEF sum
  <2>2. CASE s = {}
    BY <2>1, <2>2
  <2>3. CASE s # {}
    <3>1. first(s) \in s
      BY <2>3
    <3>2. sum[s] = f[first(s)] + sum[s \ {first(s)}]
      BY <2>1, <2>3
    <3> HIDE DEF first
    <3> QED BY <3>1, <3>2
  <2> QED BY <2>2, <2>3
<1> HIDE DEF sum
<1> QED BY <1>11, <1>12

(* The sum of integers, and its bounds when they have bounds.              *)
LEMMA SumBounds ==
  ASSUME NEW f, IsFiniteSet(DOMAIN f), \A x \in DOMAIN f : f[x] \in Int,
         NEW lo \in Int, NEW hi \in Int
  PROVE  /\ SumFunction(f) \in Int
         /\ (\A x \in DOMAIN f : lo <= f[x])
            => lo * Cardinality(DOMAIN f) <= SumFunction(f)
         /\ (\A x \in DOMAIN f : f[x] <= hi)
            => SumFunction(f) <= hi * Cardinality(DOMAIN f)
<1> DEFINE N == Cardinality(DOMAIN f)
           low  == \A x \in DOMAIN f : lo <= f[x]
           high == \A x \in DOMAIN f : f[x] <= hi
<1>1. N \in Nat
  BY FS_CardinalityType
<1>2. PICK g : /\ SumFunction(f) = g[DOMAIN f]
               /\ \A s \in SUBSET DOMAIN f :
                     \/ s = {} /\ g[s] = 0
                     \/ \E x \in s : g[s] = f[x] + g[s \ {x}]
  BY SumMeans
<1> DEFINE Between(y, n) == /\ y \in Int
                            /\ low => lo * n <= y
                            /\ high => y <= hi * n
           Bounded(n) == \A s \in SUBSET DOMAIN f :
                            Cardinality(s) = n => Between(g[s], n)
           T == {n \in 0..N : Bounded(n)}
<1>3. ASSUME NEW s \in SUBSET DOMAIN f
      PROVE  IsFiniteSet(s) /\ Cardinality(s) \in Nat
  BY FS_Subset, FS_CardinalityType
<1>4. 0 \in T
  <2> SUFFICES ASSUME NEW s \in SUBSET DOMAIN f, Cardinality(s) = 0
               PROVE  Between(g[s], 0)
    BY <1>1
  <2>1. s = {}
    BY <1>3, FS_EmptySet
  <2>2. g[s] = 0
    BY <1>2, <2>1
  <2> QED BY <2>2
<1>5. ASSUME NEW n \in 1..N, n - 1 \in T PROVE n \in T
  <2> SUFFICES ASSUME NEW s \in SUBSET DOMAIN f, Cardinality(s) = n
               PROVE  Between(g[s], n)
    OBVIOUS
  <2>1. s # {}
    BY <1>3, FS_EmptySet
  <2>2. PICK x \in s : g[s] = f[x] + g[s \ {x}]
    BY <1>2, <2>1
  <2>3. s \ {x} \in SUBSET DOMAIN f /\ Cardinality(s \ {x}) = n - 1
    BY <1>3, FS_RemoveElement
  <2>4. Bounded(n - 1)
    BY <1>5
  <2> DEFINE y == g[s \ {x}]
  <2>5. Between(y, n - 1)
    <3> HIDE DEF Between
    <3> QED BY <2>3, <2>4
  <2>6. f[x] \in Int /\ (low => lo <= f[x]) /\ (high => f[x] <= hi)
    OBVIOUS
  <2>7. lo * (n - 1) + lo = lo * n /\ hi * (n - 1) + hi = hi * n
    OBVIOUS
  <2>8. lo * n \in Int /\ hi * n \in Int
        /\ lo * (n - 1) \in Int /\ hi * (n - 1) \in Int
    OBVIOUS
  <2> HIDE DEF y, low, high
  <2> QED BY <2>2, <2>5, <2>6, <2>7, <2>8 DEF y
<1>6. N \in T
  <2> HIDE DEF T, N
  <2> QED BY <1>1, <1>4, <1>5, Positions
<1>7. Between(g[DOMAIN f], N)
  <2> HIDE DEF Between
  <2> QED BY <1>6
<1> QED BY <1>2, <1>7

(* A quotient and its bounds.                                              *)
LEMMA DivBounds ==
  ASSUME NEW a \in Int, NEW d \in Nat \ {0}, NEW lo \in Int, NEW hi \in Int
  PROVE  /\ a \div d \in Int
         /\ lo * d <= a => lo <= a \div d
         /\ a <= hi * d => a \div d <= hi
<1>1. a \div d \in Int
  OBVIOUS
<1>2. lo * d <= a => lo <= a \div d
  OBVIOUS
<1>3. a <= hi * d => a \div d <= hi
  OBVIOUS
<1> QED BY <1>1, <1>2, <1>3

(* The mean of integers, and its bounds when they have bounds.             *)
LEMMA MeanBounds ==
  ASSUME NEW f, IsFiniteSet(DOMAIN f), DOMAIN f # {},
         \A x \in DOMAIN f : f[x] \in Int,
         NEW lo \in Int, NEW hi \in Int
  PROVE  /\ Mean(f) \in Int
         /\ (\A x \in DOMAIN f : lo <= f[x]) => lo <= Mean(f)
         /\ (\A x \in DOMAIN f : f[x] <= hi) => Mean(f) <= hi
<1> DEFINE low  == \A x \in DOMAIN f : lo <= f[x]
           high == \A x \in DOMAIN f : f[x] <= hi
           d == Cardinality(DOMAIN f)
           a == SumFunction(f)
<1>1. d \in Nat \ {0}
  BY FS_CardinalityType, FS_EmptySet
<1>2. a \in Int /\ (low => lo * d <= a) /\ (high => a <= hi * d)
  BY SumBounds
<1>3. Mean(f) = a \div d
  BY DEF Mean
<1> HIDE DEF a, d, low, high
<1>4. a \div d \in Int /\ (lo * d <= a => lo <= a \div d)
      /\ (a <= hi * d => a \div d <= hi)
  BY <1>1, <1>2, DivBounds
<1>5. Mean(f) \in Int /\ (low => lo <= Mean(f)) /\ (high => Mean(f) <= hi)
  BY <1>2, <1>3, <1>4
<1> QED BY <1>5 DEF low, high
-----------------------------------------------------------------------------
(* A first fit: m matches each expectation with a candidate of C that R    *)
(* allows for it, or with 0; none twice, and none that R allows is passed  *)
(* over unless an earlier expectation has it.                              *)
FirstFitOf(m, C, R) ==
    /\ \A i, j \in DOMAIN m : m[i] = m[j] /\ m[i] # 0 => i = j
    /\ \A i \in DOMAIN m : m[i] # 0 => m[i] \in C /\ <<i, m[i]>> \in R
    /\ \A i \in DOMAIN m, c \in C :
          <<i, c>> \in R /\ (m[i] = 0 \/ c < m[i])
          => \E k \in 1..(i - 1) : m[k] = c

(* Appending the least of the free candidates keeps it a first fit, and so *)
(* does appending 0 when there is none.                                    *)
LEMMA FitAppend ==
  ASSUME NEW C, C \subseteq Nat \ {0}, NEW R, NEW m \in Seq(C \cup {0}),
         FirstFitOf(m, C, R), NEW c \in C \cup {0},
         NEW free, free = {d \in C : d \notin Range(m)
                                     /\ <<Len(m) + 1, d>> \in R},
         \/ c \in free /\ \A d \in free : c <= d
         \/ c = 0 /\ free = {}
  PROVE  Append(m, c) \in Seq(C \cup {0}) /\ FirstFitOf(Append(m, c), C, R)
<1> DEFINE n == Len(m)
           l == Append(m, c)
<1>1. n \in Nat /\ DOMAIN m = 1..n
  BY LenProperties
<1>2. l \in Seq(C \cup {0})
  OBVIOUS
<1>3. /\ Len(l) = n + 1 /\ DOMAIN l = 1..(n + 1) /\ l[n + 1] = c
      /\ \A i \in 1..n : l[i] = m[i]
  BY AppendProperties, <1>1
<1>4. \A i \in 1..n : m[i] \in Nat
  <2> SUFFICES ASSUME NEW i \in 1..n PROVE m[i] \in Nat
    OBVIOUS
  <2>1. m[i] \in C \cup {0}
    BY <1>1, ElementOfSeq
  <2>2. \A d \in C \cup {0} : d \in Nat
    OBVIOUS
  <2> QED BY <2>1, <2>2
<1> HIDE DEF l, n
<1>5. c # 0 => \A i \in 1..n : m[i] # c
  BY <1>1 DEF Range
<1>6. ASSUME NEW i \in 1..(n + 1), NEW j \in 1..(n + 1), l[i] = l[j], l[i] # 0
      PROVE  i = j
  <2>1. CASE i \in 1..n /\ j \in 1..n
    BY <1>1, <1>3, <1>6, <2>1 DEF FirstFitOf
  <2>2. CASE i = n + 1 \/ j = n + 1
    BY <1>1, <1>3, <1>5, <1>6, <2>2
  <2> QED BY <1>1, <2>1, <2>2
<1>7. ASSUME NEW i \in 1..(n + 1), l[i] # 0
      PROVE  l[i] \in C /\ <<i, l[i]>> \in R
  <2>1. CASE i \in 1..n
    BY <1>1, <1>3, <1>7, <2>1 DEF FirstFitOf
  <2>2. CASE i = n + 1
    BY <1>3, <1>7, <2>2 DEF n
  <2> QED BY <1>1, <2>1, <2>2
<1>8. ASSUME NEW i \in 1..(n + 1), NEW d \in C, <<i, d>> \in R,
             l[i] = 0 \/ d < l[i]
      PROVE  \E k \in 1..(i - 1) : l[k] = d
  <2>1. CASE i \in 1..n
    <3>1. PICK k \in 1..(i - 1) : m[k] = d
      BY <1>1, <1>3, <1>8, <2>1 DEF FirstFitOf
    <3>2. k \in 1..n
      BY <1>1, <2>1
    <3> QED BY <1>3, <3>1, <3>2
  <2>2. CASE i = n + 1
    <3>1. d \notin free
      <4>1. d \in Nat /\ c \in Nat
        OBVIOUS
      <4>2. c = 0 \/ d < c
        BY <1>3, <1>8, <2>2
      <4> QED BY <4>1, <4>2
    <3>2. d \in Range(m)
      BY <1>8, <2>2, <3>1 DEF n
    <3>3. PICK k \in 1..n : m[k] = d
      BY <1>1, <3>2 DEF Range
    <3>4. k \in 1..(i - 1) /\ l[k] = d
      BY <1>1, <1>3, <2>2, <3>3
    <3> QED BY <3>4
  <2> QED BY <1>1, <2>1, <2>2
<1>9. FirstFitOf(l, C, R)
  BY <1>3, <1>6, <1>7, <1>8 DEF FirstFitOf
<1> QED BY <1>2, <1>9 DEF l

(* Of two first fits that agree before i, neither can be later at i.       *)
LEMMA FitNoLater ==
  ASSUME NEW C, C \subseteq Nat \ {0}, NEW R, NEW n \in Nat,
         NEW m \in [1..n -> C \cup {0}], FirstFitOf(m, C, R),
         NEW l \in [1..n -> C \cup {0}], FirstFitOf(l, C, R),
         NEW i \in 1..n, \A k \in 1..(i - 1) : m[k] = l[k], l[i] # 0
  PROVE  m[i] # 0 /\ m[i] <= l[i]
<1> SUFFICES ASSUME m[i] = 0 \/ l[i] < m[i] PROVE FALSE
  <2>1. m[i] \in C \cup {0} /\ l[i] \in C \cup {0}
    OBVIOUS
  <2>2. \A d \in C \cup {0} : d \in Nat
    OBVIOUS
  <2>3. m[i] \in Nat /\ l[i] \in Nat
    BY <2>1, <2>2
  <2> QED BY <2>3
<1>1. l[i] \in C /\ <<i, l[i]>> \in R
  BY DEF FirstFitOf
<1>2. PICK k \in 1..(i - 1) : m[k] = l[i]
  BY <1>1 DEF FirstFitOf
<1>3. k \in 1..n /\ k # i /\ l[k] = l[i]
  BY <1>2
<1> QED BY <1>3 DEF FirstFitOf

(* There is one first fit.                                                 *)
LEMMA FitUnique ==
  ASSUME NEW C, C \subseteq Nat \ {0}, NEW R, NEW n \in Nat,
         NEW m \in [1..n -> C \cup {0}], FirstFitOf(m, C, R),
         NEW l \in [1..n -> C \cup {0}], FirstFitOf(l, C, R)
  PROVE  m = l
<1> DEFINE T == {i \in 0..n : \A k \in 1..i : m[k] = l[k]}
<1>1. 0 \in T
  OBVIOUS
<1>2. ASSUME NEW i \in 1..n, i - 1 \in T PROVE i \in T
  <2>1. \A k \in 1..(i - 1) : m[k] = l[k]
    BY <1>2
  <2>2. m[i] \in Nat /\ l[i] \in Nat
    <3>1. m[i] \in C \cup {0} /\ l[i] \in C \cup {0}
      OBVIOUS
    <3>2. \A d \in C \cup {0} : d \in Nat
      OBVIOUS
    <3> QED BY <3>1, <3>2
  <2>3. l[i] # 0 => m[i] # 0 /\ m[i] <= l[i]
    BY <2>1, FitNoLater
  <2>4. m[i] # 0 => l[i] # 0 /\ l[i] <= m[i]
    BY <2>1, FitNoLater
  <2>5. m[i] = l[i]
    BY <2>2, <2>3, <2>4
  <2>6. \A k \in 1..i : k \in 1..(i - 1) \/ k = i
    OBVIOUS
  <2> QED BY <2>1, <2>5, <2>6
<1>3. \A i \in 0..n : i \in T
  <2> HIDE DEF T
  <2> QED BY <1>1, <1>2, Positions
<1>4. n \in T
  BY <1>3
<1> QED BY <1>4

(* When every expectation allows the candidate in its own place, that is   *)
(* the one it gets.                                                        *)
LEMMA FitIdentity ==
  ASSUME NEW C, C \subseteq Nat \ {0}, NEW R, NEW n \in Nat,
         NEW m \in [1..n -> C \cup {0}], FirstFitOf(m, C, R),
         1..n \subseteq C, \A i \in 1..n : <<i, i>> \in R
  PROVE  \A i \in 1..n : m[i] = i
<1> DEFINE l == [i \in 1..n |-> i]
<1>1. l \in [1..n -> C \cup {0}]
  OBVIOUS
<1>2. FirstFitOf(l, C, R)
  <2>1. ASSUME NEW i \in 1..n, NEW c \in C, c < i
        PROVE  \E k \in 1..(i - 1) : l[k] = c
    <3>1. c \in 1..(i - 1) /\ c \in 1..n
      BY <2>1
    <3> QED BY <3>1
  <2> QED BY <2>1 DEF FirstFitOf
<1> HIDE DEF l
<1>3. m = l
  BY <1>1, <1>2, FitUnique
<1> QED BY <1>3 DEF l

(* A matching takes no more candidates than there are.                     *)
LEMMA FitHits ==
  ASSUME NEW C, IsFiniteSet(C), NEW R, NEW n \in Nat,
         NEW m \in [1..n -> C \cup {0}], FirstFitOf(m, C, R)
  PROVE  /\ IsFiniteSet(Hits(m)) /\ Cardinality(Hits(m)) \in Nat
         /\ Cardinality(Hits(m)) <= n
         /\ Cardinality(Hits(m)) <= Cardinality(C)
<1> DEFINE H == Hits(m)
           f == [i \in H |-> m[i]]
<1>1. H \in SUBSET (1..n) /\ \A i \in H : m[i] # 0
  BY DEF Hits
<1>2. IsFiniteSet(1..n) /\ Cardinality(1..n) = n
  BY FS_Interval
<1> HIDE DEF H
<1>3. IsFiniteSet(H) /\ Cardinality(H) <= n /\ Cardinality(H) \in Nat
  <2>1. IsFiniteSet(H) /\ Cardinality(H) <= Cardinality(1..n)
    BY <1>1, <1>2, FS_Subset
  <2>2. Cardinality(1..n) = n
    BY FS_Interval
  <2> QED BY <2>1, <2>2, FS_CardinalityType
<1>4. f \in Injection(H, C)
  BY <1>1 DEF Injection, IsInjective, FirstFitOf
<1> HIDE DEF f
<1>5. Cardinality(H) <= Cardinality(C)
  BY <1>4, FS_Injection
<1> QED BY <1>3, <1>5 DEF H

(* Any other matching is at most twice as large: what it matches and the   *)
(* first fit misses is a candidate that the first fit took earlier.        *)
LEMMA FitHalf ==
  ASSUME NEW C, C \subseteq Nat \ {0}, IsFiniteSet(C), NEW R, NEW n \in Nat,
         NEW m \in [1..n -> C \cup {0}], FirstFitOf(m, C, R),
         NEW l \in [1..n -> C \cup {0}],
         \A i, j \in 1..n : l[i] # 0 => /\ <<i, l[i]>> \in R
                                        /\ l[i] = l[j] => i = j
  PROVE  Cardinality(Hits(l)) <= 2 * Cardinality(Hits(m))
<1> DEFINE H == Hits(m)
           K == Hits(l)
           M == K \ H
           took == {m[i] : i \in H}
           f == [i \in H |-> m[i]]
           g == [i \in M |-> l[i]]
<1>1. /\ H \in SUBSET (1..n) /\ K \in SUBSET (1..n)
      /\ \A i \in 1..n : /\ i \in H <=> m[i] # 0
                         /\ i \in K <=> l[i] # 0
  BY DEF Hits
<1>2. IsFiniteSet(1..n)
  BY FS_Interval
<1> HIDE DEF H, K
<1>3. /\ IsFiniteSet(H) /\ IsFiniteSet(K) /\ IsFiniteSet(M)
      /\ Cardinality(H) \in Nat /\ Cardinality(K) \in Nat
      /\ Cardinality(M) \in Nat
  <2>1. M \in SUBSET (1..n)
    BY <1>1
  <2> QED BY <1>1, <1>2, <2>1, FS_Subset, FS_CardinalityType
<1>4. IsFiniteSet(took) /\ Cardinality(took) <= Cardinality(H)
      /\ Cardinality(took) \in Nat
  <2>1. f \in Surjection(H, took)
    BY DEF Surjection
  <2> HIDE DEF f, took
  <2> QED BY <1>3, <2>1, FS_Surjection, FS_CardinalityType
<1>5. ASSUME NEW i \in M PROVE l[i] \in took
  <2>1. i \in 1..n /\ m[i] = 0 /\ l[i] # 0
    BY <1>1
  <2>2. l[i] \in C /\ <<i, l[i]>> \in R
    BY <2>1
  <2>3. PICK k \in 1..(i - 1) : m[k] = l[i]
    BY <2>1, <2>2 DEF FirstFitOf
  <2>4. k \in H
    BY <1>1, <2>1, <2>3
  <2> QED BY <2>3, <2>4
<1>6. Cardinality(M) <= Cardinality(took)
  <2>1. g \in [M -> took]
    <3> HIDE DEF took, M
    <3> QED BY <1>5
  <2>2. \A i, j \in M : g[i] = g[j] => i = j
    BY <1>1
  <2> HIDE DEF g, M, took
  <2>3. g \in Injection(M, took)
    <3>1. DOMAIN g = M
      BY <2>1
    <3> QED BY <2>1, <2>2, <3>1 DEF Injection, IsInjective
  <2> QED BY <1>4, <2>3, FS_Injection
<1>7. Cardinality(K) <= Cardinality(H) + Cardinality(M)
  <2>1. K \in SUBSET (H \cup M)
    OBVIOUS
  <2> HIDE DEF M
  <2>2. /\ IsFiniteSet(H \cup M)
        /\ Cardinality(H \cup M)
           = Cardinality(H) + Cardinality(M) - Cardinality(H \cap M)
    BY <1>3, FS_Union
  <2>3. Cardinality(H \cap M) \in Nat
    BY <1>3, FS_Intersection, FS_CardinalityType
  <2>4. Cardinality(K) <= Cardinality(H \cup M)
    BY <2>1, <2>2, FS_Subset
  <2> QED BY <1>3, <2>2, <2>3, <2>4
<1> HIDE DEF M, took
<1>8. Cardinality(K) <= 2 * Cardinality(H)
  BY <1>3, <1>4, <1>6, <1>7
<1> QED BY <1>8 DEF H, K
-----------------------------------------------------------------------------
LEMMA RatioBounds ==
  ASSUME NEW n \in Nat, NEW d \in Nat \ {0}, n <= d
  PROVE  Ratio(n, d) \in 0..One /\ (n = d => Ratio(n, d) = One)
<1>1. One \in Nat \ {0}
  BY NamesAssumption
<1>2. 0 * d <= n * One /\ n * One <= One * d /\ n * One \in Int
  BY <1>1
<1>3. n = d => One * d <= n * One
  BY <1>1
<1>4. Ratio(n, d) = (n * One) \div d
  BY DEF Ratio
<1> DEFINE a == n * One
<1> HIDE DEF a
<1>5. a \div d \in Int /\ 0 <= a \div d /\ a \div d <= One
  BY <1>1, <1>2, DivBounds DEF a
<1>6. n = d => One <= a \div d
  BY <1>1, <1>2, <1>3, DivBounds DEF a
<1> QED BY <1>1, <1>4, <1>5, <1>6 DEF a

(* What a set of ids is normalized to is as finite as the set.             *)
LEMMA NormalizedFinite ==
  ASSUME NEW S, IsFiniteSet(S)
  PROVE  /\ IsFiniteSet(Normalized(S))
         /\ Cardinality(Normalized(S)) \in Nat
         /\ S # {} => Cardinality(Normalized(S)) # 0
<1> DEFINE f == [x \in S |-> Normal[x]]
<1>1. f \in Surjection(S, Normalized(S))
  BY DEF Surjection, Normalized
<1> HIDE DEF f
<1>2. IsFiniteSet(Normalized(S))
  BY <1>1, FS_Surjection
<1>3. S # {} => Normalized(S) # {}
  BY DEF Normalized
<1> QED BY <1>2, <1>3, FS_CardinalityType, FS_EmptySet

(* _recall and _precision are ratios, and 1 of a set with itself.          *)
LEMMA RecallBounds ==
  ASSUME NEW e, IsFiniteSet(e), NEW a, IsFiniteSet(a)
  PROVE  /\ Recall(e, a) \in 0..One /\ Precision(e, a) \in 0..One
         /\ e = a => Recall(e, a) = One /\ Precision(e, a) = One
<1> DEFINE E == Normalized(e)
           A == Normalized(a)
           n == Common(e, a)
<1>1. One \in 0..One
  BY NamesAssumption
<1>2. /\ IsFiniteSet(E) /\ Cardinality(E) \in Nat
      /\ e # {} => Cardinality(E) # 0
  BY NormalizedFinite
<1>3. /\ IsFiniteSet(A) /\ Cardinality(A) \in Nat
      /\ a # {} => Cardinality(A) # 0
  BY NormalizedFinite
<1>4. n = Cardinality(E \cap A)
  BY DEF Common
<1>5. e = a => E \cap A = E /\ E = A
  OBVIOUS
<1> HIDE DEF E, A, n
<1>6. /\ n \in Nat /\ n <= Cardinality(E) /\ n <= Cardinality(A)
      /\ e = a => n = Cardinality(E) /\ n = Cardinality(A)
  BY <1>2, <1>3, <1>4, <1>5, FS_Intersection, FS_CardinalityType
<1>7. Recall(e, a) = IF e = {} THEN One ELSE Ratio(n, Cardinality(E))
  BY DEF Recall, n, E
<1>8. Precision(e, a) = IF a = {} THEN One ELSE Ratio(n, Cardinality(A))
  BY DEF Precision, n, A
<1>9. e # {} => /\ Ratio(n, Cardinality(E)) \in 0..One
                /\ e = a => Ratio(n, Cardinality(E)) = One
  BY <1>2, <1>6, RatioBounds
<1>10. a # {} => /\ Ratio(n, Cardinality(A)) \in 0..One
                 /\ e = a => Ratio(n, Cardinality(A)) = One
  BY <1>3, <1>6, RatioBounds
<1> QED BY <1>1, <1>7, <1>8, <1>9, <1>10

(* A mean of scores is a score, and the best when all are.                 *)
LEMMA MeanScore ==
  ASSUME NEW f, IsFiniteSet(DOMAIN f), \A x \in DOMAIN f : f[x] \in 0..One
  PROVE  /\ Mean(f) \in 0..One
         /\ DOMAIN f # {} /\ (\A x \in DOMAIN f : f[x] = One)
            => Mean(f) = One
<1>1. One \in Nat
  BY NamesAssumption
<1>2. CASE DOMAIN f = {}
  BY <1>1, <1>2 DEF Mean
<1>3. CASE DOMAIN f # {}
  <2>1. \A x \in DOMAIN f : f[x] \in Int /\ 0 <= f[x] /\ f[x] <= One
    BY <1>1
  <2>2. Mean(f) \in Int /\ 0 <= Mean(f) /\ Mean(f) <= One
    BY <1>1, <1>3, <2>1, MeanBounds
  <2>3. ASSUME \A x \in DOMAIN f : f[x] = One PROVE One <= Mean(f)
    <3>1. \A x \in DOMAIN f : f[x] \in Int /\ One <= f[x] /\ f[x] <= One
      BY <1>1, <2>3
    <3> QED BY <1>1, <1>3, <3>1, MeanBounds
  <2> QED BY <1>1, <2>2, <2>3
<1> QED BY <1>2, <1>3
-----------------------------------------------------------------------------
(* The candidates and what they fit, of an answer and a ground truth.      *)
FindingFits(gt, out) ==
    {p \in Nat \X Nat : Fits(gt.findings[p[1]], out.findings[p[2]])}
StageFits(gt, out) ==
    {p \in Nat \X Nat : FitsStage(gt.stages[p[1]], out.stages[p[2]])}

(* m is one first fit of the findings of out (of its stages), all done.    *)
FindingFit(gt, out, m) ==
    /\ m \in [1..Len(gt.findings) -> DOMAIN out.findings \cup {0}]
    /\ FirstFitOf(m, DOMAIN out.findings, FindingFits(gt, out))
StageFit(gt, out, m) ==
    /\ m \in [1..Len(gt.stages) -> DOMAIN out.stages \cup {0}]
    /\ FirstFitOf(m, DOMAIN out.stages, StageFits(gt, out))

FindingKeys == {"findingTypeRecall", "entityRecall", "eventIdRecall",
                "timelineStageAccuracy", "findingTypePrecision",
                "entityPrecision", "eventIdPrecision"}
StageKeys   == {"stageRecall", "stagePrecision", "eventRecall",
                "eventPrecision"}

(* A list that is not empty, and its places.                               *)
LEMMA ListPlaces ==
  ASSUME NEW list, list \in Seq(Range(list))
  PROVE  /\ Len(list) \in Nat /\ DOMAIN list = 1..Len(list)
         /\ DOMAIN list \subseteq Nat \ {0}
         /\ IsFiniteSet(DOMAIN list) /\ Cardinality(DOMAIN list) = Len(list)
         /\ list # <<>> <=> Len(list) # 0
         /\ \A i \in DOMAIN list : list[i] \in Range(list)
<1>1. Len(list) \in Nat /\ DOMAIN list = 1..Len(list)
  BY LenProperties
<1>2. IsFiniteSet(1..Len(list)) /\ Cardinality(1..Len(list)) = Len(list)
  BY <1>1, FS_Interval
<1>3. list # <<>> <=> Len(list) # 0
  BY EmptySeq
<1>4. \A i \in DOMAIN list : list[i] \in Range(list)
  BY DEF Range
<1> QED BY <1>1, <1>2, <1>3, <1>4

LEMMA DocumentPlaces ==
  ASSUME NEW doc, Document(doc)
  PROVE  /\ doc.findings \in Seq(Range(doc.findings))
         /\ doc.stages \in Seq(Range(doc.stages))
         /\ \A i \in DOMAIN doc.findings :
               /\ IsFiniteSet(doc.findings[i].entities)
               /\ IsFiniteSet(doc.findings[i].evidence)
         /\ \A i \in DOMAIN doc.stages :
               IsFiniteSet(doc.stages[i].eventIds)
  BY DEF Document, Range

(* Every metric of findings is between 0 and 1, and all are 1 when every   *)
(* expected finding is matched with an equal one and none is extra.        *)
LEMMA FindingScores ==
  ASSUME NEW gt, Document(gt), NEW out, Document(out), NEW m,
         FindingFit(gt, out, m)
  PROVE  /\ FindingMetrics(gt, out, m) \in [FindingKeys -> 0..One]
         /\ gt.findings = out.findings
            /\ (\A i \in 1..Len(gt.findings) : m[i] = i)
            => FindingMetrics(gt, out, m) \in [FindingKeys -> {One}]
<1> DEFINE n == Len(gt.findings)
           H == Hits(m)
           k == Cardinality(H)
           S == Staged(gt)
           same == /\ gt.findings = out.findings
                   /\ \A i \in 1..n : m[i] = i
           X(i) == gt.findings[i]
           Y(i) == out.findings[m[i]]
           entR == [i \in H |-> Recall(X(i).entities, Y(i).entities)]
           evR  == [i \in H |-> Recall(X(i).evidence, Y(i).evidence)]
           entP == [i \in H |-> Precision(X(i).entities, Y(i).entities)]
           evP  == [i \in H |-> Precision(X(i).evidence, Y(i).evidence)]
<1>1. One \in Nat /\ One \in 0..One
  BY NamesAssumption
<1>2. /\ n \in Nat /\ DOMAIN gt.findings = 1..n
      /\ gt.findings # <<>> <=> n # 0
  BY DocumentPlaces, ListPlaces
<1>3. /\ Len(out.findings) \in Nat
      /\ IsFiniteSet(DOMAIN out.findings)
      /\ Cardinality(DOMAIN out.findings) = Len(out.findings)
      /\ out.findings # <<>> <=> Len(out.findings) # 0
  BY DocumentPlaces, ListPlaces
<1>4. /\ m \in [1..n -> DOMAIN out.findings \cup {0}]
      /\ FirstFitOf(m, DOMAIN out.findings, FindingFits(gt, out))
  BY DEF FindingFit
<1>5. /\ IsFiniteSet(H) /\ k \in Nat /\ k <= n /\ k <= Len(out.findings)
  <2> HIDE DEF n
  <2> QED BY <1>2, <1>3, <1>4, FitHits
<1>6. H \in SUBSET (1..n) /\ \A i \in H : m[i] \in DOMAIN out.findings
  BY <1>4 DEF Hits
<1>7. same => H = 1..n
  <2> HIDE DEF n
  <2> QED BY <1>2, <1>4 DEF Hits
<1>8. same => n = Len(out.findings) /\ k = n
  <2> SUFFICES ASSUME same PROVE k = n /\ n = Len(out.findings)
    OBVIOUS
  <2>1. Cardinality(1..n) = n
    BY <1>2, FS_Interval
  <2> QED BY <1>7, <2>1
<1>9. /\ IsFiniteSet(S) /\ S \in SUBSET (1..n) /\ Cardinality(S) \in Nat
      /\ S # {} => Cardinality(S) # 0
  <2>1. S \in SUBSET (1..n)
    BY <1>2 DEF Staged
  <2>2. IsFiniteSet(1..n)
    BY <1>2, FS_Interval
  <2> HIDE DEF S, n
  <2> QED BY <2>1, <2>2, FS_Subset, FS_CardinalityType, FS_EmptySet
<1>10. ASSUME NEW i \in H
       PROVE  /\ IsFiniteSet(X(i).entities) /\ IsFiniteSet(X(i).evidence)
              /\ IsFiniteSet(Y(i).entities) /\ IsFiniteSet(Y(i).evidence)
              /\ same => X(i) = Y(i)
  <2>1. i \in DOMAIN gt.findings /\ m[i] \in DOMAIN out.findings
    BY <1>2, <1>6
  <2>2. same => m[i] = i /\ gt.findings = out.findings
    BY <1>6
  <2> HIDE DEF same, H
  <2> QED BY <2>1, <2>2, DocumentPlaces
<1> HIDE DEF n, H, S, X, Y, same
<1>11. /\ Mean(entR) \in 0..One
       /\ same /\ H # {} => Mean(entR) = One
  <2>1. DOMAIN entR = H /\ \A i \in H : entR[i] \in 0..One
    BY <1>10, RecallBounds
  <2>2. same => \A i \in H : entR[i] = One
    BY <1>10, RecallBounds
  <2> HIDE DEF entR
  <2> QED BY <1>5, <2>1, <2>2, MeanScore
<1>12. /\ Mean(evR) \in 0..One
       /\ same /\ H # {} => Mean(evR) = One
  <2>1. DOMAIN evR = H /\ \A i \in H : evR[i] \in 0..One
    BY <1>10, RecallBounds
  <2>2. same => \A i \in H : evR[i] = One
    BY <1>10, RecallBounds
  <2> HIDE DEF evR
  <2> QED BY <1>5, <2>1, <2>2, MeanScore
<1>13. /\ Mean(entP) \in 0..One
       /\ same /\ H # {} => Mean(entP) = One
  <2>1. DOMAIN entP = H /\ \A i \in H : entP[i] \in 0..One
    BY <1>10, RecallBounds
  <2>2. same => \A i \in H : entP[i] = One
    BY <1>10, RecallBounds
  <2> HIDE DEF entP
  <2> QED BY <1>5, <2>1, <2>2, MeanScore
<1>14. /\ Mean(evP) \in 0..One
       /\ same /\ H # {} => Mean(evP) = One
  <2>1. DOMAIN evP = H /\ \A i \in H : evP[i] \in 0..One
    BY <1>10, RecallBounds
  <2>2. same => \A i \in H : evP[i] = One
    BY <1>10, RecallBounds
  <2> HIDE DEF evP
  <2> QED BY <1>5, <2>1, <2>2, MeanScore
<1> DEFINE typeR == Ratio(k, n)
           typeP == IF out.findings = <<>> THEN One
                    ELSE Ratio(k, Len(out.findings))
           stage == IF S = {} THEN One
                    ELSE Ratio(Cardinality(H \cap S), Cardinality(S))
<1>15. n # 0 => typeR \in 0..One /\ (same => typeR = One)
  BY <1>2, <1>5, <1>8, RatioBounds
<1>16. typeP \in 0..One /\ (same => typeP = One)
  BY <1>1, <1>3, <1>5, <1>8, RatioBounds
<1>17. stage \in 0..One /\ (same => stage = One)
  <2>1. /\ Cardinality(H \cap S) \in Nat
        /\ Cardinality(H \cap S) <= Cardinality(S)
    BY <1>9, FS_Intersection, FS_CardinalityType
  <2>2. same => H \cap S = S
    BY <1>7, <1>9
  <2> QED BY <1>1, <1>9, <2>1, <2>2, RatioBounds
<1>18. same /\ n # 0 => H # {}
  BY <1>2, <1>7
<1>19. FindingMetrics(gt, out, m)
       = IF gt.findings = <<>>
         THEN [findingTypeRecall |-> One, entityRecall |-> One,
               eventIdRecall |-> One, timelineStageAccuracy |-> One,
               findingTypePrecision |-> One, entityPrecision |-> One,
               eventIdPrecision |-> One]
         ELSE [findingTypeRecall |-> typeR, entityRecall |-> Mean(entR),
               eventIdRecall |-> Mean(evR), timelineStageAccuracy |-> stage,
               findingTypePrecision |-> typeP, entityPrecision |-> Mean(entP),
               eventIdPrecision |-> Mean(evP)]
  BY DEF FindingMetrics, n, H, S, X, Y
<1> HIDE DEF typeR, typeP, stage, entR, evR, entP, evP
<1>20. FindingMetrics(gt, out, m) \in [FindingKeys -> 0..One]
  BY <1>1, <1>2, <1>11, <1>12, <1>13, <1>14, <1>15, <1>16, <1>17, <1>19
  DEF FindingKeys
<1>21. same => FindingMetrics(gt, out, m) \in [FindingKeys -> {One}]
  BY <1>2, <1>11, <1>12, <1>13, <1>14, <1>15, <1>16, <1>17, <1>18, <1>19
  DEF FindingKeys
<1> QED BY <1>20, <1>21 DEF same, n
(* The same for timeline stages.                                           *)
LEMMA StageScores ==
  ASSUME NEW gt, Document(gt), NEW out, Document(out), NEW m,
         StageFit(gt, out, m)
  PROVE  /\ StageMetrics(gt, out, m) \in [StageKeys -> 0..One]
         /\ gt.stages = out.stages
            /\ (\A i \in 1..Len(gt.stages) : m[i] = i)
            => StageMetrics(gt, out, m) \in [StageKeys -> {One}]
<1> DEFINE n == Len(gt.stages)
           H == Hits(m)
           k == Cardinality(H)
           same == /\ gt.stages = out.stages
                   /\ \A i \in 1..n : m[i] = i
           X(i) == gt.stages[i]
           Y(i) == out.stages[m[i]]
           evR == [i \in H |-> Recall(X(i).eventIds, Y(i).eventIds)]
           evP == [i \in H |-> Precision(X(i).eventIds, Y(i).eventIds)]
           none == IF out.stages = <<>> THEN One ELSE 0
           stR == Ratio(k, n)
           stP == IF out.stages = <<>> THEN 0 ELSE Ratio(k, Len(out.stages))
           all == SumFunction(evR) \div n
<1>1. One \in Nat /\ One \in 0..One
  BY NamesAssumption
<1>2. /\ n \in Nat /\ DOMAIN gt.stages = 1..n
      /\ gt.stages # <<>> <=> n # 0
  BY DocumentPlaces, ListPlaces
<1>3. /\ Len(out.stages) \in Nat
      /\ IsFiniteSet(DOMAIN out.stages)
      /\ Cardinality(DOMAIN out.stages) = Len(out.stages)
      /\ out.stages # <<>> <=> Len(out.stages) # 0
  BY DocumentPlaces, ListPlaces
<1>4. /\ m \in [1..n -> DOMAIN out.stages \cup {0}]
      /\ FirstFitOf(m, DOMAIN out.stages, StageFits(gt, out))
  BY DEF StageFit
<1>5. /\ IsFiniteSet(H) /\ k \in Nat /\ k <= n /\ k <= Len(out.stages)
  <2> HIDE DEF n
  <2> QED BY <1>2, <1>3, <1>4, FitHits
<1>6. H \in SUBSET (1..n) /\ \A i \in H : m[i] \in DOMAIN out.stages
  BY <1>4 DEF Hits
<1>7. same => H = 1..n
  <2> HIDE DEF n
  <2> QED BY <1>2, <1>4 DEF Hits
<1>8. same => n = Len(out.stages) /\ k = n
  <2> SUFFICES ASSUME same PROVE k = n /\ n = Len(out.stages)
    OBVIOUS
  <2>1. Cardinality(1..n) = n
    BY <1>2, FS_Interval
  <2> QED BY <1>7, <2>1
<1>9. same /\ n # 0 => H # {}
  BY <1>2, <1>7
<1>10. ASSUME NEW i \in H
       PROVE  /\ IsFiniteSet(X(i).eventIds) /\ IsFiniteSet(Y(i).eventIds)
              /\ same => X(i) = Y(i)
  <2>1. i \in DOMAIN gt.stages /\ m[i] \in DOMAIN out.stages
    BY <1>2, <1>6
  <2>2. same => m[i] = i /\ gt.stages = out.stages
    BY <1>6
  <2> HIDE DEF same, H
  <2> QED BY <2>1, <2>2, DocumentPlaces
<1>11. same => gt.stages = out.stages
  OBVIOUS
<1> HIDE DEF n, H, X, Y, same
<1>12. /\ Mean(evP) \in 0..One
       /\ same /\ H # {} => Mean(evP) = One
  <2>1. DOMAIN evP = H /\ \A i \in H : evP[i] \in 0..One
    BY <1>10, RecallBounds
  <2>2. same => \A i \in H : evP[i] = One
    BY <1>10, RecallBounds
  <2> HIDE DEF evP
  <2> QED BY <1>5, <2>1, <2>2, MeanScore
<1>13. DOMAIN evR = H /\ \A i \in H : evR[i] \in 0..One
  BY <1>10, RecallBounds
<1>14. same => \A i \in H : evR[i] = One
  BY <1>10, RecallBounds
<1> HIDE DEF evR
<1>15. /\ SumFunction(evR) \in Int /\ 0 <= SumFunction(evR)
       /\ SumFunction(evR) <= One * k
  <2>1. \A i \in H : evR[i] \in Int /\ 0 <= evR[i] /\ evR[i] <= One
    BY <1>1, <1>13
  <2>2. 0 * k <= SumFunction(evR) /\ SumFunction(evR) \in Int
        /\ SumFunction(evR) <= One * k
    BY <1>1, <1>5, <1>13, <2>1, SumBounds
  <2> QED BY <1>5, <2>2
<1>16. same => One * k <= SumFunction(evR)
  <2> SUFFICES ASSUME same PROVE One * k <= SumFunction(evR)
    OBVIOUS
  <2>1. \A i \in H : evR[i] \in Int /\ One <= evR[i] /\ evR[i] <= One
    BY <1>1, <1>14
  <2> QED BY <1>1, <1>5, <1>13, <2>1, SumBounds
<1>17. n # 0 => all \in 0..One /\ (same => all = One)
  <2> SUFFICES ASSUME n # 0 PROVE all \in 0..One /\ (same => all = One)
    OBVIOUS
  <2> DEFINE sum == SumFunction(evR)
  <2>1. One * k <= One * n /\ One * k \in Int /\ One * n \in Int
    BY <1>1, <1>2, <1>5
  <2>2. 0 * n <= sum /\ sum <= One * n /\ sum \in Int
    BY <1>2, <1>15, <2>1
  <2>3. same => One * n <= sum
    BY <1>8, <1>16
  <2> HIDE DEF sum
  <2>4. /\ sum \div n \in Int /\ 0 <= sum \div n /\ sum \div n <= One
    BY <1>1, <1>2, <2>2, DivBounds
  <2>5. same => One <= sum \div n
    BY <1>1, <1>2, <2>2, <2>3, DivBounds
  <2> QED BY <1>1, <2>4, <2>5 DEF sum
<1>18. n # 0 => stR \in 0..One /\ (same => stR = One)
  BY <1>2, <1>5, <1>8, RatioBounds
<1>19. n # 0 => stP \in 0..One /\ (same => stP = One)
  BY <1>1, <1>3, <1>5, <1>8, RatioBounds
<1>20. none \in 0..One /\ (same /\ n = 0 => none = One)
  BY <1>1, <1>2, <1>11
<1>21. StageMetrics(gt, out, m)
       = IF gt.stages = <<>>
         THEN [stageRecall |-> none, stagePrecision |-> none,
               eventRecall |-> none, eventPrecision |-> none]
         ELSE [stageRecall |-> stR, stagePrecision |-> stP,
               eventRecall |-> all, eventPrecision |-> Mean(evP)]
  BY DEF StageMetrics, n, H, X, Y, evR
<1> HIDE DEF none, stR, stP, all, evP
<1>22. StageMetrics(gt, out, m) \in [StageKeys -> 0..One]
  BY <1>2, <1>12, <1>17, <1>18, <1>19, <1>20, <1>21 DEF StageKeys
<1>23. same => StageMetrics(gt, out, m) \in [StageKeys -> {One}]
  BY <1>2, <1>9, <1>12, <1>17, <1>18, <1>19, <1>20, <1>21 DEF StageKeys
<1> QED BY <1>22, <1>23 DEF same, n
-----------------------------------------------------------------------------
(* The report of a finished evaluation.                                    *)
ReportOf(gt, out, m, s) ==
    Updated(FindingMetrics(gt, out, m), StageMetrics(gt, out, s))

(* An answer that is the ground truth is matched in its order.             *)
LEMMA SameAnswer ==
  ASSUME NEW gt, Document(gt)
  PROVE  /\ \A m : FindingFit(gt, gt, m)
                   => \A i \in 1..Len(gt.findings) : m[i] = i
         /\ \A s : StageFit(gt, gt, s)
                   => \A i \in 1..Len(gt.stages) : s[i] = i
<1>1. /\ Len(gt.findings) \in Nat
      /\ DOMAIN gt.findings = 1..Len(gt.findings)
      /\ DOMAIN gt.findings \subseteq Nat \ {0}
  BY DocumentPlaces, ListPlaces
<1>2. /\ Len(gt.stages) \in Nat
      /\ DOMAIN gt.stages = 1..Len(gt.stages)
      /\ DOMAIN gt.stages \subseteq Nat \ {0}
  BY DocumentPlaces, ListPlaces
<1>3. \A i \in 1..Len(gt.findings) : <<i, i>> \in FindingFits(gt, gt)
  BY <1>1 DEF FindingFits, Fits
<1>4. \A i \in 1..Len(gt.stages) : <<i, i>> \in StageFits(gt, gt)
  BY <1>2 DEF StageFits, FitsStage
<1>5. ASSUME NEW m, FindingFit(gt, gt, m)
      PROVE  \A i \in 1..Len(gt.findings) : m[i] = i
  <2> DEFINE n == Len(gt.findings)
             C == DOMAIN gt.findings
             R == FindingFits(gt, gt)
  <2>1. /\ n \in Nat /\ C = 1..n /\ C \subseteq Nat \ {0}
        /\ m \in [1..n -> C \cup {0}] /\ FirstFitOf(m, C, R)
        /\ \A i \in 1..n : <<i, i>> \in R
    BY <1>1, <1>3, <1>5 DEF FindingFit
  <2> HIDE DEF n, C, R
  <2>2. \A i \in 1..n : m[i] = i
    BY <2>1, FitIdentity
  <2> QED BY <2>2 DEF n
<1>6. ASSUME NEW s, StageFit(gt, gt, s)
      PROVE  \A i \in 1..Len(gt.stages) : s[i] = i
  <2> DEFINE n == Len(gt.stages)
             C == DOMAIN gt.stages
             R == StageFits(gt, gt)
  <2>1. /\ n \in Nat /\ C = 1..n /\ C \subseteq Nat \ {0}
        /\ s \in [1..n -> C \cup {0}] /\ FirstFitOf(s, C, R)
        /\ \A i \in 1..n : <<i, i>> \in R
    BY <1>2, <1>4, <1>6 DEF StageFit
  <2> HIDE DEF n, C, R
  <2>2. \A i \in 1..n : s[i] = i
    BY <2>1, FitIdentity
  <2> QED BY <2>2 DEF n
<1> QED BY <1>5, <1>6

LEMMA ReportScores ==
  ASSUME NEW gt, Document(gt), NEW out, Document(out),
         NEW m, FindingFit(gt, out, m), NEW s, StageFit(gt, out, s)
  PROVE  LET r == ReportOf(gt, out, m, s)
         IN  /\ \A k \in DOMAIN r : r[k] \in 0..One
             /\ gt = out => \A k \in DOMAIN r : r[k] = One
             /\ Overall(r) = Overall(FindingMetrics(gt, out, m))
             /\ Overall(r) \in Int /\ Balanced(r) \in Int
<1> DEFINE r == ReportOf(gt, out, m, s)
           f == FindingMetrics(gt, out, m)
           g == StageMetrics(gt, out, s)
<1>1. f \in [FindingKeys -> 0..One] /\ g \in [StageKeys -> 0..One]
  BY FindingScores, StageScores
<1>2. gt = out => f \in [FindingKeys -> {One}] /\ g \in [StageKeys -> {One}]
  BY FindingScores, StageScores, SameAnswer
<1>3. r = Updated(f, g)
  BY DEF ReportOf
<1> HIDE DEF r, f, g
<1>4. /\ DOMAIN r = FindingKeys \cup StageKeys
      /\ \A k \in FindingKeys : r[k] = f[k]
      /\ \A k \in StageKeys : r[k] = g[k]
  BY <1>1, <1>3 DEF Updated, FindingKeys, StageKeys
<1>5. \A k \in DOMAIN r : r[k] \in 0..One
  BY <1>1, <1>4
<1>6. gt = out => \A k \in DOMAIN r : r[k] = One
  BY <1>2, <1>4
<1>7. Overall(r) = Overall(f)
  BY <1>4 DEF Overall, FindingKeys
<1>8. One \in Nat
  BY NamesAssumption
<1>9. /\ r.findingTypeRecall \in Int /\ r.entityRecall \in Int
      /\ r.eventIdRecall \in Int /\ r.timelineStageAccuracy \in Int
      /\ r.findingTypePrecision \in Int /\ r.entityPrecision \in Int
      /\ r.eventIdPrecision \in Int
  BY <1>4, <1>5, <1>8 DEF FindingKeys
<1>10. Overall(r) \in Int /\ Balanced(r) \in Int
  BY <1>9 DEF Overall, Balanced
<1> QED BY <1>5, <1>6, <1>7, <1>10 DEF r, f

(* The order in which findings are listed costs at most half of what the   *)
(* best matching would have found.                                         *)
LEMMA HalfOfBest ==
  ASSUME Document(truth), Document(answer), FindingFit(truth, answer, matched)
  PROVE  BestMatching <= 2 * Cardinality(Hits(matched))
<1> DEFINE n == Len(truth.findings)
           C == DOMAIN answer.findings
           R == FindingFits(truth, answer)
           Sub(m) == Cardinality({i \in 1..n : m[i] # 0})
           all == {m \in [1..n -> 0..Len(answer.findings)] :
                     \A i, j \in 1..n :
                        m[i] # 0 => /\ Fits(Expected(i), answer.findings[m[i]])
                                    /\ m[i] = m[j] => i = j}
           Best(k) == /\ \E m \in all : Sub(m) = k
                      /\ \A m \in all : Sub(m) <= k
<1>1. n \in Nat
  BY DocumentPlaces, ListPlaces
<1>2. /\ Len(answer.findings) \in Nat
      /\ C = 1..Len(answer.findings) /\ C \subseteq Nat \ {0}
      /\ IsFiniteSet(C)
  BY DocumentPlaces, ListPlaces
<1>3. BestMatching = CHOOSE k \in 0..n : Best(k)
  BY DEF BestMatching
<1>4. ASSUME NEW m \in all PROVE Sub(m) \in 0..n
  <2>1. {i \in 1..n : m[i] # 0} \in SUBSET (1..n)
    OBVIOUS
  <2>2. IsFiniteSet(1..n) /\ Cardinality(1..n) = n
    BY <1>1, FS_Interval
  <2> HIDE DEF n
  <2> QED BY <1>1, <2>1, <2>2, FS_Subset, FS_CardinalityType
<1>5. [i \in 1..n |-> 0] \in all
  BY <1>2
<1> HIDE DEF Sub, n
<1>6. \E k \in 0..n : Best(k)
  <2> DEFINE short == {n - Sub(m) : m \in all}
  <2>1. short \subseteq Nat
    <3> SUFFICES ASSUME NEW m \in all PROVE n - Sub(m) \in Nat
      OBVIOUS
    <3> HIDE DEF all
    <3> QED BY <1>1, <1>4
  <2>2. short # {}
    <3> HIDE DEF all
    <3> QED BY <1>5
  <2> HIDE DEF all
  <2>3. PICK d \in short : \A e \in short : d <= e
    <3> HIDE DEF short
    <3> QED BY <2>1, <2>2, LeastNat
  <2>4. PICK b \in all : d = n - Sub(b)
    BY <2>3
  <2>5. ASSUME NEW m \in all PROVE Sub(m) <= Sub(b)
    <3>1. n - Sub(b) <= n - Sub(m)
      BY <2>3, <2>4
    <3> QED BY <1>1, <1>4, <3>1
  <2> QED BY <1>4, <2>5
<1>7. BestMatching \in 0..n /\ Best(BestMatching)
  <2> HIDE DEF Best
  <2> QED BY <1>3, <1>6
<1>8. PICK b \in all : Sub(b) = BestMatching
  <2> HIDE DEF all
  <2> QED BY <1>7
<1>9. /\ matched \in [1..n -> C \cup {0}]
      /\ FirstFitOf(matched, C, R)
  BY DEF FindingFit, n
<1>10. b \in [1..n -> C \cup {0}]
  <2>1. 0..Len(answer.findings) = C \cup {0}
    BY <1>2
  <2>2. b \in [1..n -> 0..Len(answer.findings)]
    OBVIOUS
  <2> HIDE DEF all, C
  <2> QED BY <2>1, <2>2
<1>11. ASSUME NEW i \in 1..n, NEW j \in 1..n, b[i] # 0
       PROVE  <<i, b[i]>> \in R /\ (b[i] = b[j] => i = j)
  <2>1. Fits(Expected(i), answer.findings[b[i]]) /\ (b[i] = b[j] => i = j)
    BY <1>11
  <2>2. i \in Nat /\ b[i] \in Nat
    BY <1>2, <1>10, <1>11
  <2> HIDE DEF all
  <2> QED BY <2>1, <2>2 DEF FindingFits, Expected
<1>12. Sub(b) = Cardinality(Hits(b))
  <2>1. DOMAIN b = 1..n
    BY <1>10
  <2> HIDE DEF all, C, R
  <2> QED BY <2>1 DEF Sub, Hits
<1> HIDE DEF all, C, R
<1>13. Cardinality(Hits(b)) <= 2 * Cardinality(Hits(matched))
  BY <1>1, <1>2, <1>9, <1>10, <1>11, FitHalf
<1> QED BY <1>8, <1>12, <1>13
-----------------------------------------------------------------------------
(* The stages that a ground truth derives are a list, of finite sets.      *)
LEMMA StagesDerived ==
  ASSUME NEW gt, Document(gt) PROVE Document(WithStages(gt))
<1> DEFINE Of(s) == {f \in Range(gt.findings) : f.stage = s}
           stages == {f.stage : f \in Range(gt.findings)} \ {None}
           sorted == Ranked(stages, {p \in Names \X Names : p[1] < p[2]})
           Ids(s) == UNION {f.evidence : f \in Of(s)}
           list == [i \in DOMAIN sorted |->
                      [stage |-> sorted[i], eventIds |-> Ids(sorted[i])]]
           new == [gt EXCEPT !.stages = list]
<1>1. gt.stages # <<>> => WithStages(gt) = gt
  BY DEF WithStages
<1>2. gt.stages = <<>> => WithStages(gt) = new
  BY DEF WithStages
<1>3. IsFiniteSet(Range(gt.findings))
  <2>1. gt.findings \in Surjection(DOMAIN gt.findings, Range(gt.findings))
    <3> DEFINE l == gt.findings
    <3>1. l \in Seq(Range(l))
      BY DocumentPlaces
    <3> HIDE DEF l
    <3>2. l \in [DOMAIN l -> Range(l)]
      BY <3>1, LenProperties
    <3>3. \A t \in Range(l) : \E i \in DOMAIN l : l[i] = t
      BY DEF Range
    <3>4. l \in Surjection(DOMAIN l, Range(l))
      BY <3>2, <3>3 DEF Surjection
    <3> QED BY <3>4 DEF l
  <2>2. IsFiniteSet(DOMAIN gt.findings)
    BY DocumentPlaces, ListPlaces
  <2> QED BY <2>1, <2>2, FS_Surjection
<1>4. IsFiniteSet(stages) /\ Cardinality(stages) \in Nat
  <2> DEFINE F == Range(gt.findings)
             all == {f.stage : f \in F}
             g == [f \in F |-> f.stage]
  <2>1. g \in Surjection(F, all)
    BY DEF Surjection
  <2> HIDE DEF g, F
  <2>2. IsFiniteSet(all)
    <3> HIDE DEF all
    <3> QED BY <1>3, <2>1, FS_Surjection DEF F
  <2>3. stages \in SUBSET all
    BY DEF F
  <2> HIDE DEF all, stages
  <2> QED BY <2>2, <2>3, FS_Subset, FS_CardinalityType
<1>5. DOMAIN sorted = 1..Cardinality(stages)
  <2> HIDE DEF stages
  <2> QED BY DEF Ranked
<1>6. ASSUME NEW s PROVE IsFiniteSet(Ids(s))
  <2> DEFINE T == {f.evidence : f \in Of(s)}
             g == [f \in Of(s) |-> f.evidence]
  <2>1. IsFiniteSet(Of(s))
    <3>1. Of(s) \in SUBSET Range(gt.findings)
      OBVIOUS
    <3> HIDE DEF Of
    <3> QED BY <1>3, <3>1, FS_Subset
  <2>2. \A t \in T : IsFiniteSet(t)
    BY DEF Document
  <2>3. g \in Surjection(Of(s), T)
    BY DEF Surjection
  <2> HIDE DEF g, T, Of
  <2>4. IsFiniteSet(T)
    BY <2>1, <2>3, FS_Surjection
  <2>5. IsFiniteSet(UNION T)
    BY <2>2, <2>4, FS_UNION
  <2> QED BY <2>5 DEF T
<1>7. /\ list \in Seq(Range(list))
      /\ \A s \in Range(list) : IsFiniteSet(s.eventIds)
  <2>1. DOMAIN list = 1..Cardinality(stages)
    <3> HIDE DEF sorted, stages
    <3> QED BY <1>5
  <2>2. \A i \in DOMAIN list : IsFiniteSet(list[i].eventIds)
    <3> HIDE DEF Ids, sorted
    <3> QED BY <1>6
  <2>3. list = [i \in 1..Cardinality(stages) |-> list[i]]
    <3> HIDE DEF Ids, sorted, stages
    <3> QED BY <2>1
  <2> HIDE DEF list, stages
  <2>4. \A i \in 1..Cardinality(stages) : list[i] \in Range(list)
    BY <2>1 DEF Range
  <2>5. list \in Seq(Range(list))
    BY <1>4, <2>3, <2>4
  <2> QED BY <2>2, <2>5 DEF Range
<1> HIDE DEF list
<1>8. /\ DOMAIN new = DOMAIN gt
      /\ new.findings = gt.findings /\ new.stages = list
  BY DEF Document
<1>9. Document(new)
  <2> HIDE DEF new
  <2> QED BY <1>7, <1>8 DEF Document
<1> QED BY <1>1, <1>2, <1>9
-----------------------------------------------------------------------------
(* What the evaluator knows at every moment: it works on two documents,    *)
(* what it has matched so far is a first fit of findings and of stages,    *)
(* and the metrics, once there, are those of both when all was matched.    *)
Finished == /\ Len(matched) = Len(truth.findings)
            /\ Len(stageMatched) = Len(truth.stages)
EvalInv ==
    /\ Document(truth) /\ Document(answer)
    /\ matched \in Seq(DOMAIN answer.findings \cup {0})
    /\ Len(matched) <= Len(truth.findings)
    /\ FirstFitOf(matched, DOMAIN answer.findings, FindingFits(truth, answer))
    /\ stageMatched \in Seq(DOMAIN answer.stages \cup {0})
    /\ Len(stageMatched) <= Len(truth.stages)
    /\ FirstFitOf(stageMatched, DOMAIN answer.stages, StageFits(truth, answer))
    /\ metrics # None =>
          /\ Finished
          /\ metrics = ReportOf(truth, answer, matched, stageMatched)

LEMMA FinishedFits ==
  ASSUME EvalInv, Finished
  PROVE  FindingFit(truth, answer, matched)
         /\ StageFit(truth, answer, stageMatched)
<1>1. matched \in [1..Len(truth.findings) -> DOMAIN answer.findings \cup {0}]
  BY LenProperties DEF EvalInv, Finished
<1>2. stageMatched \in [1..Len(truth.stages) -> DOMAIN answer.stages \cup {0}]
  BY LenProperties DEF EvalInv, Finished
<1> QED BY <1>1, <1>2 DEF EvalInv, FindingFit, StageFit

(* A new evaluator has matched nothing.                                    *)
LEMMA EvaluatesAfresh ==
  ASSUME NEW gt, Document(gt), NEW out, Document(out),
         truth' = WithStages(gt), answer' = out,
         matched' = <<>>, stageMatched' = <<>>, metrics' = None
  PROVE  EvalInv'
<1>1. Document(truth') /\ Document(answer')
  BY StagesDerived
<1>2. Len(truth'.findings) \in Nat /\ Len(truth'.stages) \in Nat
  BY <1>1, DocumentPlaces, ListPlaces
<1>3. \A C, R : FirstFitOf(<<>>, C, R)
  BY DEF FirstFitOf
<1> QED BY <1>1, <1>2, <1>3 DEF EvalInv

LEMMA EvalUnchanged == EvalInv /\ UNCHANGED evalVars => EvalInv'
  BY DEF EvalInv, evalVars, Finished

(* One expectation: it takes the first candidate that is free, or none.    *)
LEMMA FindingStepKeeps ==
  ASSUME EvalInv, MatchFinding \/ MissFinding PROVE EvalInv'
<1> DEFINE C == DOMAIN answer.findings
           R == FindingFits(truth, answer)
<1>1. PICK c \in C \cup {0} :
         /\ matched' = Append(matched, c)
         /\ \/ c \in Open /\ \A d \in Open : c <= d
            \/ c = 0 /\ Open = {}
  BY DEF MatchFinding, MissFinding, Open
<1>2. /\ InFindings
      /\ UNCHANGED <<truth, answer, stageMatched, metrics>>
  BY DEF MatchFinding, MissFinding
<1>3. /\ matched \in Seq(C \cup {0}) /\ FirstFitOf(matched, C, R)
      /\ Len(matched) \in Nat /\ Len(truth.findings) \in Nat
      /\ C \subseteq Nat \ {0}
  BY DocumentPlaces, ListPlaces, LenProperties DEF EvalInv
<1>4. Open = {d \in C : d \notin Range(matched)
                        /\ <<Len(matched) + 1, d>> \in R}
  BY <1>3 DEF Open, FindingFits
<1> HIDE DEF C, R
<1>5. matched' \in Seq(C \cup {0}) /\ FirstFitOf(matched', C, R)
  BY <1>1, <1>3, <1>4, FitAppend
<1>6. Len(matched') <= Len(truth.findings)
  <2>1. Len(matched') = Len(matched) + 1
    BY <1>1, <1>3, AppendProperties
  <2> QED BY <1>2, <1>3, <2>1 DEF InFindings
<1>7. metrics = None /\ metrics' = None
  BY <1>2 DEF InFindings
<1> QED BY <1>2, <1>5, <1>6, <1>7 DEF EvalInv, C, R

LEMMA StageStepKeeps ==
  ASSUME EvalInv, MatchStage \/ MissStage PROVE EvalInv'
<1> DEFINE C == DOMAIN answer.stages
           R == StageFits(truth, answer)
<1>1. PICK c \in C \cup {0} :
         /\ stageMatched' = Append(stageMatched, c)
         /\ \/ c \in OpenStages /\ \A d \in OpenStages : c <= d
            \/ c = 0 /\ OpenStages = {}
  BY DEF MatchStage, MissStage, OpenStages
<1>2. /\ InStages
      /\ UNCHANGED <<truth, answer, matched, metrics>>
  BY DEF MatchStage, MissStage
<1>3. /\ stageMatched \in Seq(C \cup {0}) /\ FirstFitOf(stageMatched, C, R)
      /\ Len(stageMatched) \in Nat /\ Len(truth.stages) \in Nat
      /\ C \subseteq Nat \ {0}
  BY DocumentPlaces, ListPlaces, LenProperties DEF EvalInv
<1>4. OpenStages = {d \in C : d \notin Range(stageMatched)
                              /\ <<Len(stageMatched) + 1, d>> \in R}
  BY <1>3 DEF OpenStages, StageFits
<1> HIDE DEF C, R
<1>5. stageMatched' \in Seq(C \cup {0}) /\ FirstFitOf(stageMatched', C, R)
  BY <1>1, <1>3, <1>4, FitAppend
<1>6. Len(stageMatched') <= Len(truth.stages)
  <2>1. Len(stageMatched') = Len(stageMatched) + 1
    BY <1>1, <1>3, AppendProperties
  <2> QED BY <1>2, <1>3, <2>1 DEF InStages
<1>7. metrics = None /\ metrics' = None
  BY <1>2 DEF InStages
<1> QED BY <1>2, <1>5, <1>6, <1>7 DEF EvalInv, C, R

LEMMA EvaluateStepKeeps == EvalInv /\ EvaluateStep => EvalInv'
<1> SUFFICES ASSUME EvalInv, EvaluateStep PROVE EvalInv'
  OBVIOUS
<1>1. CASE MatchFinding \/ MissFinding
  BY <1>1, FindingStepKeeps
<1>2. CASE MatchStage \/ MissStage
  BY <1>2, StageStepKeeps
<1>3. CASE Report
  BY <1>3 DEF Report, EvalInv, Finished, ReportOf
<1> QED BY <1>1, <1>2, <1>3 DEF EvaluateStep

(* What the two properties of the evaluator follow from.                   *)
LEMMA EvalInvFirstFit == EvalInv => FirstFit
<1> SUFFICES ASSUME EvalInv PROVE FirstFit
  OBVIOUS
<1>1. /\ DOMAIN matched \subseteq Nat /\ DOMAIN answer.findings \subseteq Nat
  BY DocumentPlaces, ListPlaces, LenProperties DEF EvalInv
<1>2. TakenOnce
  BY DEF EvalInv, FirstFitOf, TakenOnce
<1>3. TakenFits
  BY DEF EvalInv, FirstFitOf, FindingFits, TakenFits, Expected, Reported
<1>4. FirstTaken
  <2> SUFFICES ASSUME NEW i \in DOMAIN matched,
                      NEW c \in DOMAIN answer.findings,
                      Fits(truth.findings[i], answer.findings[c]),
                      matched[i] = 0 \/ c < matched[i]
               PROVE  c \in Earlier(i)
    BY DEF FirstTaken, Expected
  <2>1. <<i, c>> \in FindingFits(truth, answer)
    BY <1>1 DEF FindingFits
  <2>2. \E k \in 1..(i - 1) : matched[k] = c
    BY <2>1 DEF EvalInv, FirstFitOf
  <2> QED BY <2>2 DEF Earlier
<1> QED BY <1>2, <1>3, <1>4 DEF FirstFit

LEMMA EvalInvScores == EvalInv => ScoresFair
<1> SUFFICES ASSUME EvalInv, metrics # None PROVE ScoresFair
  BY DEF ScoresFair
<1>1. /\ FindingFit(truth, answer, matched)
      /\ StageFit(truth, answer, stageMatched)
      /\ Document(truth) /\ Document(answer)
      /\ metrics = ReportOf(truth, answer, matched, stageMatched)
  BY FinishedFits DEF EvalInv
<1>2. /\ \A k \in DOMAIN metrics : metrics[k] \in 0..One
      /\ truth = answer => \A k \in DOMAIN metrics : metrics[k] = One
  BY <1>1, ReportScores
<1>3. BestMatching <= 2 * Cardinality(Hits(matched))
  BY <1>1, HalfOfBest
<1> QED BY <1>2, <1>3 DEF ScoresFair
-----------------------------------------------------------------------------
(* An entry of the suite that validate has passed: its ground truth and    *)
(* its sample output are there, and the one first fit of their findings    *)
(* scores what is required.                                                *)
GoodEntry(k) ==
    LET gt  == TruthOf(suite[k])
        out == OutputOf(Samples, gt.id)
    IN  /\ gt # None
        /\ Readable(out)
        /\ \A m : FindingFit(WithStages(gt), out, m)
                  => Overall(FindingMetrics(WithStages(gt), out, m))
                     >= files.minScore

(* What the evaluator is at work on, for outputs in dir.                   *)
Work(dir) ==
    /\ at \in DOMAIN suite
    /\ TruthOf(suite[at]) # None
    /\ truth = WithStages(TruthOf(suite[at]))
    /\ answer = OutputOf(dir, TruthOf(suite[at]).id) /\ Readable(answer)

TypesInv ==
    /\ files \in Benchmarks
    /\ at \in Nat
    /\ agent \in 1..(Len(files.agents) + 1)
    /\ results \in Seq([overall : Int, balanced : Int])
    /\ Len(results) = agent - 1
    /\ IsFiniteSet(DOMAIN reports)
    /\ \A s \in DOMAIN reports :
          Overall(reports[s]) \in Int /\ Balanced(reports[s]) \in Int

(* While it validates, every entry before at is good unless a check has    *)
(* failed; a run has not begun.                                            *)
ValidateInv ==
    phase = "validate" =>
       /\ passed = None /\ agent = 1 /\ DOMAIN reports = {} /\ ranking = None
       /\ at > 0 => Readable(suite) /\ at <= Len(suite) + 1
       /\ evaluating => at > 0 /\ Work(Samples)
       /\ failed = {} => \A k \in 1..(at - 1) : GoodEntry(k)

SuiteInv ==
    passed = TRUE => Readable(suite) /\ \A k \in DOMAIN suite : GoodEntry(k)

(* While it runs, the agent has a report as soon as it is past the first   *)
(* scenario.                                                               *)
RunInv ==
    phase = "run" =>
       /\ Readable(suite) => at \in 1..(Len(suite) + 1)
       /\ evaluating => agent <= Len(files.agents) /\ Work(AgentDir)
       /\ at > 1 => DOMAIN reports # {}

(* A run on the sample outputs of a suite that passed.                     *)
SampleInv ==
    passed = TRUE /\ files.agents = <<Samples>> =>
       /\ phase # "raised"
       /\ agent = 1 => \A s \in DOMAIN reports :
                          Overall(reports[s]) >= files.minScore
       /\ agent = 2 /\ suite # <<>> => results[1].overall >= files.minScore

RankInv ==
    ranking # None =>
       /\ agent = Len(files.agents) + 1
       /\ Len(ranking) = Len(files.agents)
       /\ \A i \in DOMAIN files.agents : i \in Range(ranking)
       /\ \A i, j \in DOMAIN ranking : i < j =>
             results[ranking[i]].balanced >= results[ranking[j]].balanced

BenchInv == /\ EvalInv /\ TypesInv /\ ValidateInv /\ SuiteInv /\ RunInv
            /\ SampleInv /\ RankInv

(* What the assumption says of the files at hand.                          *)
LEMMA FilesOK ==
  ASSUME files \in Benchmarks
  PROVE  /\ files.minScore \in Int
         /\ Samples \in DOMAIN files.outputs
         /\ files.agents \in Seq(DOMAIN files.outputs)
         /\ Len(files.agents) \in Nat
         /\ DOMAIN files.agents = 1..Len(files.agents)
         /\ \A i \in 1..Len(files.agents) :
               files.agents[i] \in DOMAIN files.outputs
         /\ Readable(suite) => /\ Len(suite) \in Nat
                               /\ DOMAIN suite = 1..Len(suite)
                               /\ suite # <<>> => Len(suite) # 0
<1>1. /\ files.minScore \in Int
      /\ Samples \in DOMAIN files.outputs
      /\ files.agents \in Seq(DOMAIN files.outputs)
      /\ Readable(suite) => suite \in Seq(Range(suite))
  BY BenchmarksAssumption DEF Readable, suite
<1>2. Readable(suite) => /\ Len(suite) \in Nat
                         /\ DOMAIN suite = 1..Len(suite)
                         /\ suite # <<>> => Len(suite) # 0
  BY <1>1, ListPlaces
<1>3. /\ Len(files.agents) \in Nat
      /\ DOMAIN files.agents = 1..Len(files.agents)
  BY <1>1, LenProperties
<1>4. \A i \in 1..Len(files.agents) : files.agents[i] \in DOMAIN files.outputs
  BY <1>1, ElementOfSeq
<1> QED BY <1>1, <1>2, <1>3, <1>4

LEMMA TruthIsDocument ==
  ASSUME files \in Benchmarks, NEW entry, TruthOf(entry) # None
  PROVE  Document(TruthOf(entry))
<1> DEFINE dir == PlanDir(entry)
<1>1. /\ dir \in DOMAIN files.plans
      /\ TruthOf(entry) = files.plans[dir].truth
      /\ files.plans[dir].truth \notin {None, Bad}
  BY DEF TruthOf
<1> HIDE DEF dir
<1> QED BY <1>1, BenchmarksAssumption

LEMMA OutputIsDocument ==
  ASSUME files \in Benchmarks, NEW dir \in DOMAIN files.outputs, NEW sid,
         Readable(OutputOf(dir, sid))
  PROVE  Document(OutputOf(dir, sid))
<1>1. CASE sid \in DOMAIN files.outputs[dir]
  <2>1. OutputOf(dir, sid) \in {files.outputs[dir][sid].plain,
                                files.outputs[dir][sid].suffixed}
    BY <1>1 DEF OutputOf
  <2> QED BY <1>1, <2>1, BenchmarksAssumption DEF Readable
<1>2. CASE sid \notin DOMAIN files.outputs[dir]
  BY <1>2 DEF OutputOf, Readable
<1> QED BY <1>1, <1>2

(* What is said of the files goes on as long as they are what they are.    *)
LEMMA FilesFrame ==
  ASSUME UNCHANGED files
  PROVE  /\ suite' = suite
         /\ \A f : Readable(f)' <=> Readable(f)
         /\ \A e : TruthOf(e)' = TruthOf(e)
         /\ \A d, s : OutputOf(d, s)' = OutputOf(d, s)
         /\ \A k : GoodEntry(k)' <=> GoodEntry(k)
<1>1. suite' = suite
  BY DEF suite
<1>2. \A f : Readable(f)' <=> Readable(f)
  BY DEF Readable
<1>3. \A e : TruthOf(e)' = TruthOf(e)
  BY DEF TruthOf, PlanDir, Readable
<1>4. \A d, s : OutputOf(d, s)' = OutputOf(d, s)
  BY DEF OutputOf
<1>5. ASSUME NEW k PROVE GoodEntry(k)' <=> GoodEntry(k)
  BY <1>1, <1>2, <1>3, <1>4 DEF GoodEntry
<1> QED BY <1>1, <1>2, <1>3, <1>4, <1>5
-----------------------------------------------------------------------------
(* The evaluation of a sample is over: the entry is good when the score is *)
(* what is required, and only then is no check failed.                     *)
LEMMA ScoredIsGood ==
  ASSUME files \in Benchmarks, EvalInv, metrics # None, Work(Samples),
         Overall(metrics) >= files.minScore
  PROVE  GoodEntry(at)
<1> DEFINE gt  == TruthOf(suite[at])
           out == OutputOf(Samples, gt.id)
<1>1. gt # None /\ truth = WithStages(gt) /\ answer = out /\ Readable(out)
  BY DEF Work
<1>2. /\ Document(truth) /\ Document(answer)
      /\ FindingFit(truth, answer, matched)
      /\ StageFit(truth, answer, stageMatched)
      /\ metrics = ReportOf(truth, answer, matched, stageMatched)
  BY FinishedFits DEF EvalInv
<1>3. Overall(metrics) = Overall(FindingMetrics(truth, answer, matched))
  BY <1>2, ReportScores
<1>4. ASSUME NEW m, FindingFit(truth, answer, m) PROVE m = matched
  <2>1. /\ DOMAIN answer.findings \subseteq Nat \ {0}
        /\ Len(truth.findings) \in Nat
    BY <1>2, DocumentPlaces, ListPlaces
  <2> QED BY <1>2, <1>4, <2>1, FitUnique DEF FindingFit
<1>5. \A m : FindingFit(truth, answer, m)
             => Overall(FindingMetrics(truth, answer, m)) >= files.minScore
  BY <1>3, <1>4
<1> QED BY <1>1, <1>5 DEF GoodEntry

(* A report of the run of a good entry has the score that is required.     *)
LEMMA GoodIsScored ==
  ASSUME files \in Benchmarks, EvalInv, metrics # None, Work(Samples),
         GoodEntry(at)
  PROVE  Overall(metrics) >= files.minScore
<1>1. /\ Document(truth) /\ Document(answer)
      /\ FindingFit(truth, answer, matched)
      /\ StageFit(truth, answer, stageMatched)
      /\ metrics = ReportOf(truth, answer, matched, stageMatched)
  BY FinishedFits DEF EvalInv
<1>2. Overall(metrics) = Overall(FindingMetrics(truth, answer, matched))
  BY <1>1, ReportScores
<1> QED BY <1>1, <1>2 DEF GoodEntry, Work

LEMMA MetricsAreInt ==
  ASSUME EvalInv, metrics # None
  PROVE  Overall(metrics) \in Int /\ Balanced(metrics) \in Int
<1>1. /\ Document(truth) /\ Document(answer)
      /\ FindingFit(truth, answer, matched)
      /\ StageFit(truth, answer, stageMatched)
      /\ metrics = ReportOf(truth, answer, matched, stageMatched)
  BY FinishedFits DEF EvalInv
<1> QED BY <1>1, ReportScores

(* What an agent is ranked by is a number, and no worse than its worst     *)
(* report.                                                                 *)
LEMMA AggregateBounds ==
  ASSUME TypesInv
  PROVE  /\ Aggregate \in [overall : Int, balanced : Int]
         /\ DOMAIN reports # {}
            /\ (\A s \in DOMAIN reports :
                   Overall(reports[s]) >= files.minScore)
            => Aggregate.overall >= files.minScore
<1> DEFINE D == DOMAIN reports
           o == [s \in D |-> Overall(reports[s])]
           b == [s \in D |-> Balanced(reports[s])]
<1>1. IsFiniteSet(D) /\ files.minScore \in Int
  BY FilesOK DEF TypesInv
<1>2. /\ DOMAIN o = D /\ \A s \in D : o[s] = Overall(reports[s])
      /\ DOMAIN b = D /\ \A s \in D : b[s] = Balanced(reports[s])
  OBVIOUS
<1>3. \A s \in D : o[s] \in Int /\ b[s] \in Int
  BY <1>2 DEF TypesInv
<1>4. Aggregate = IF D = {} THEN [overall |-> 0, balanced |-> 0]
                  ELSE [overall |-> Mean(o), balanced |-> Mean(b)]
  BY DEF Aggregate
<1> HIDE DEF o, b, D
<1>5. D # {} => Mean(o) \in Int /\ Mean(b) \in Int
  BY <1>1, <1>2, <1>3, MeanBounds
<1>6. ASSUME D # {}, \A s \in D : o[s] >= files.minScore
      PROVE  Mean(o) >= files.minScore
  BY <1>1, <1>2, <1>3, <1>6, MeanBounds
<1>7. Aggregate \in [overall : Int, balanced : Int]
  BY <1>4, <1>5
<1>8. ASSUME D # {}, \A s \in D : Overall(reports[s]) >= files.minScore
      PROVE  Aggregate.overall >= files.minScore
  <2>1. Mean(o) >= files.minScore
    BY <1>2, <1>6, <1>8
  <2> QED BY <1>4, <1>8, <2>1
<1> QED BY <1>7, <1>8 DEF D

(* The ranking names every agent once, none before a better one.           *)
LEMMA RankingSorts ==
  ASSUME results \in Seq([overall : Int, balanced : Int]),
         NEW r, r = Ranked(DOMAIN results,
                           {p \in (DOMAIN results) \X (DOMAIN results) :
                              Better(p[1], p[2])})
  PROVE  /\ Len(r) = Len(results)
         /\ Range(r) = DOMAIN results
         /\ \A i, j \in DOMAIN r : i < j =>
               results[r[i]].balanced >= results[r[j]].balanced
<1> DEFINE S == DOMAIN results
           R == {p \in S \X S : Better(p[1], p[2])}
<1>1. Len(results) \in Nat /\ S = 1..Len(results)
  BY LenProperties
<1>2. IsFiniteSet(S) /\ Cardinality(S) = Len(results) /\ S \subseteq Nat
  <2> DEFINE n == Len(results)
  <2>1. n \in Nat
    BY <1>1
  <2> HIDE DEF n
  <2>2. IsFiniteSet(1..n) /\ Cardinality(1..n) = n /\ 1..n \subseteq Nat
    BY <2>1, FS_Interval
  <2> QED BY <1>1, <2>2 DEF n
<1>3. \A i \in S : /\ results[i] \in [overall : Int, balanced : Int]
                   /\ results[i].overall \in Int
                   /\ results[i].balanced \in Int
  <2> SUFFICES ASSUME NEW i \in S
               PROVE  /\ results[i] \in [overall : Int, balanced : Int]
                      /\ results[i].overall \in Int
                      /\ results[i].balanced \in Int
    OBVIOUS
  <2>1. results[i] \in [overall : Int, balanced : Int]
    BY <1>1, ElementOfSeq
  <2> QED BY <2>1
<1>4. ASSUME NEW i \in S, NEW j \in S,
             results[i].overall = results[j].overall,
             results[i].balanced = results[j].balanced
      PROVE  results[i] = results[j]
  BY <1>3, <1>4
<1>5. \A i, j \in S : <<i, j>> \in R <=>
         \/ results[i].balanced > results[j].balanced
         \/ /\ results[i].balanced = results[j].balanced
            /\ \/ results[i].overall > results[j].overall
               \/ results[i].overall = results[j].overall /\ i < j
  <2> SUFFICES ASSUME NEW i \in S, NEW j \in S
               PROVE  Better(i, j) <=>
         \/ results[i].balanced > results[j].balanced
         \/ /\ results[i].balanced = results[j].balanced
            /\ \/ results[i].overall > results[j].overall
               \/ results[i].overall = results[j].overall /\ i < j
    OBVIOUS
  <2>1. results[i] = results[j] <=>
           /\ results[i].overall = results[j].overall
           /\ results[i].balanced = results[j].balanced
    BY <1>4
  <2> HIDE DEF S
  <2> QED BY <2>1 DEF Better
<1> HIDE DEF R, S
<1>6. StrictOrder(R, S)
  <2>1. ASSUME NEW x \in S PROVE <<x, x>> \notin R
    BY <1>2, <1>3, <1>5
  <2>2. ASSUME NEW x \in S, NEW y \in S, NEW z \in S,
               <<x, y>> \in R, <<y, z>> \in R
        PROVE  <<x, z>> \in R
    <3> DEFINE a(i) == results[i].balanced
               o(i) == results[i].overall
    <3>1. /\ a(x) \in Int /\ a(y) \in Int /\ a(z) \in Int
          /\ o(x) \in Int /\ o(y) \in Int /\ o(z) \in Int
          /\ x \in Nat /\ y \in Nat /\ z \in Nat
      BY <1>2, <1>3
    <3>2. /\ a(x) > a(y) \/ (a(x) = a(y) /\ (o(x) > o(y)
                                           \/ (o(x) = o(y) /\ x < y)))
          /\ a(y) > a(z) \/ (a(y) = a(z) /\ (o(y) > o(z)
                                           \/ (o(y) = o(z) /\ y < z)))
      BY <1>5, <2>2
    <3>3. <<x, z>> \in R <=>
             a(x) > a(z) \/ (a(x) = a(z) /\ (o(x) > o(z)
                                           \/ (o(x) = o(z) /\ x < z)))
      BY <1>5
    <3> HIDE DEF a, o
    <3> QED BY <3>1, <3>2, <3>3
  <2>3. ASSUME NEW x \in S, NEW y \in S, x # y
        PROVE  <<x, y>> \in R \/ <<y, x>> \in R
    <3> DEFINE a(i) == results[i].balanced
               o(i) == results[i].overall
    <3>1. /\ x \in Nat /\ y \in Nat
          /\ a(x) \in Int /\ a(y) \in Int /\ o(x) \in Int /\ o(y) \in Int
      BY <1>2, <1>3
    <3>2. /\ <<x, y>> \in R <=>
                a(x) > a(y) \/ (a(x) = a(y) /\ (o(x) > o(y)
                                              \/ (o(x) = o(y) /\ x < y)))
          /\ <<y, x>> \in R <=>
                a(y) > a(x) \/ (a(y) = a(x) /\ (o(y) > o(x)
                                              \/ (o(y) = o(x) /\ y < x)))
      BY <1>5
    <3> HIDE DEF a, o
    <3> QED BY <2>3, <3>1, <3>2
  <2> QED BY <2>1, <2>2, <2>3 DEF StrictOrder
<1>7. r = Ranked(S, R)
  BY DEF R, S
<1>8. /\ r \in Seq(S) /\ Len(r) = Cardinality(S) /\ Range(r) = S
      /\ \A i, j \in 1..Len(r) : i < j => <<r[i], r[j]>> \in R
  BY <1>2, <1>6, <1>7, RankedSorts
<1>9. DOMAIN r = 1..Len(r) /\ \A i \in 1..Len(r) : r[i] \in S
  BY <1>8, LenProperties, ElementOfSeq
<1>10. ASSUME NEW i \in DOMAIN r, NEW j \in DOMAIN r, i < j
       PROVE  results[r[i]].balanced >= results[r[j]].balanced
  <2>1. <<r[i], r[j]>> \in R /\ r[i] \in S /\ r[j] \in S
    BY <1>8, <1>9, <1>10
  <2>2. /\ results[r[i]].balanced \in Int /\ results[r[j]].balanced \in Int
        /\ \/ results[r[i]].balanced > results[r[j]].balanced
           \/ results[r[i]].balanced = results[r[j]].balanced
    BY <1>3, <1>5, <2>1
  <2> QED BY <2>2
<1> QED BY <1>2, <1>8, <1>10 DEF S
-----------------------------------------------------------------------------
(* What a step leaves alone, it keeps.                                     *)
LEMMA TypesKept ==
  ASSUME TypesInv, UNCHANGED <<files, agent, results, reports>>, at' \in Nat
  PROVE  TypesInv'
  BY DEF TypesInv
LEMMA SuiteKept ==
  ASSUME SuiteInv, UNCHANGED <<files, passed>>
  PROVE  SuiteInv'
  BY FilesFrame DEF SuiteInv
LEMMA SampleKept ==
  ASSUME SampleInv, UNCHANGED <<files, passed, agent, reports, results>>,
         phase' = "raised" => phase = "raised"
  PROVE  SampleInv'
  BY FilesFrame DEF SampleInv
LEMMA RankKept ==
  ASSUME RankInv, UNCHANGED <<files, agent, results, ranking>>
  PROVE  RankInv'
  BY DEF RankInv
LEMMA WorkKept ==
  ASSUME UNCHANGED <<files, at, truth, answer>>, NEW d
  PROVE  Work(d)' <=> Work(d)
  BY FilesFrame DEF Work

(* The evaluator begins with an entry whose ground truth and output can be *)
(* read.                                                                   *)
LEMMA WorkBegins ==
  ASSUME files \in Benchmarks, NEW dir \in DOMAIN files.outputs,
         at \in DOMAIN suite, TruthOf(Entry) # None,
         Readable(OutputOf(dir, TruthOf(Entry).id)),
         Evaluate(TruthOf(Entry), OutputOf(dir, TruthOf(Entry).id)),
         UNCHANGED <<files, at>>
  PROVE  EvalInv' /\ Work(dir)' /\ evaluating'
<1> DEFINE gt  == TruthOf(Entry)
           out == OutputOf(dir, gt.id)
<1>1. Document(gt) /\ Document(out)
  BY TruthIsDocument, OutputIsDocument
<1>2. /\ truth' = WithStages(gt) /\ answer' = out
      /\ matched' = <<>> /\ stageMatched' = <<>> /\ metrics' = None
      /\ evaluating' = TRUE
  BY DEF Evaluate
<1>3. Readable(out) /\ gt = TruthOf(suite[at]) /\ gt # None
  BY DEF Entry
<1> HIDE DEF gt, out
<1>4. EvalInv'
  BY <1>1, <1>2, EvaluatesAfresh
<1>5. TruthOf(suite[at])' = gt
  BY <1>3, FilesFrame
<1>6. OutputOf(dir, TruthOf(suite[at]).id)' = out
  BY <1>3, FilesFrame DEF out
<1>7. Work(dir)'
  BY <1>2, <1>3, <1>5, <1>6, FilesFrame DEF Work
<1> QED BY <1>2, <1>4, <1>7

(* An exception, unless the samples of a suite that passed are being run.  *)
LEMMA RaiseKeeps ==
  ASSUME BenchInv, Raise, ~(passed = TRUE /\ files.agents = <<Samples>>)
  PROVE  BenchInv'
<1>1. /\ phase' = "raised"
      /\ UNCHANGED <<evalVars, files, at, passed, agent, reports, results,
                     ranking>>
  BY DEF Raise
<1>2. EvalInv'
  BY <1>1, EvalUnchanged DEF BenchInv
<1>3. TypesInv' /\ SuiteInv' /\ RankInv'
  BY <1>1, TypesKept, SuiteKept, RankKept DEF BenchInv, TypesInv
<1>4. ValidateInv' /\ RunInv'
  BY <1>1 DEF ValidateInv, RunInv
<1>5. SampleInv'
  BY <1>1 DEF SampleInv
<1> QED BY <1>2, <1>3, <1>4, <1>5 DEF BenchInv
-----------------------------------------------------------------------------
(* benchmark validate.                                                     *)
LEMMA LoadSuiteKeeps ==
  ASSUME BenchInv, LoadSuite PROVE BenchInv'
<1>1. /\ UNCHANGED <<evalVars, files, evaluating, agent, reports, results,
                     ranking>>
      /\ phase = "validate" /\ at = 0 /\ ~evaluating
  BY DEF LoadSuite, Validating
<1>2. /\ passed = None /\ agent = 1 /\ DOMAIN reports = {} /\ ranking = None
      /\ None # TRUE
  BY <1>1, BenchmarksAssumption DEF BenchInv, ValidateInv
<1>3. EvalInv'
  BY <1>1, EvalUnchanged DEF BenchInv
<1>4. RankInv'
  BY <1>1, RankKept DEF BenchInv
<1>5. CASE Readable(suite)
  <2>1. at' = 1 /\ UNCHANGED <<passed, phase>>
    BY <1>5 DEF LoadSuite
  <2>2. TypesInv' /\ SuiteInv' /\ SampleInv'
    BY <1>1, <2>1, TypesKept, SuiteKept, SampleKept DEF BenchInv
  <2>3. Len(suite) \in Nat
    BY <1>5, FilesOK DEF BenchInv, TypesInv
  <2>4. ValidateInv'
    BY <1>1, <1>2, <1>5, <2>1, <2>3, FilesFrame DEF ValidateInv
  <2>5. RunInv'
    BY <1>1, <2>1 DEF RunInv
  <2> QED BY <1>3, <1>4, <2>2, <2>4, <2>5 DEF BenchInv
<1>6. CASE ~Readable(suite)
  <2>1. at' = at /\ passed' = FALSE /\ phase' = "run"
    BY <1>6 DEF LoadSuite
  <2>2. TypesInv'
    BY <1>1, <2>1, TypesKept DEF BenchInv
  <2>3. SuiteInv' /\ SampleInv' /\ ValidateInv'
    BY <2>1 DEF SuiteInv, SampleInv, ValidateInv
  <2>4. RunInv'
    BY <1>1, <1>6, <2>1, FilesFrame DEF RunInv
  <2> QED BY <1>3, <1>4, <2>2, <2>3, <2>4 DEF BenchInv
<1> QED BY <1>5, <1>6

(* A step of validate that goes on to the next entry, good or not.         *)
LEMMA NextEntryKeeps ==
  ASSUME BenchInv, phase = "validate", at > 0, at <= Len(suite),
         UNCHANGED <<evalVars, files, phase, passed, agent, reports, results,
                     ranking>>,
         at' = at + 1, ~evaluating',
         failed' = {} => failed = {} /\ GoodEntry(at)
  PROVE  BenchInv'
<1>1. EvalInv'
  BY EvalUnchanged DEF BenchInv
<1>2. at \in Nat /\ at' \in Nat
  BY DEF BenchInv, TypesInv
<1>3. TypesInv' /\ SuiteInv' /\ SampleInv' /\ RankInv'
  BY <1>2, TypesKept, SuiteKept, SampleKept, RankKept DEF BenchInv
<1>4. RunInv'
  BY DEF RunInv
<1>5. /\ passed = None /\ agent = 1 /\ DOMAIN reports = {} /\ ranking = None
      /\ Readable(suite)
      /\ failed = {} => \A k \in 1..(at - 1) : GoodEntry(k)
  BY DEF BenchInv, ValidateInv
<1>6. Len(suite) \in Nat
  BY <1>5, FilesOK DEF BenchInv, TypesInv
<1>7. failed' = {} => \A k \in 1..(at' - 1) : GoodEntry(k)'
  <2> SUFFICES ASSUME failed' = {}, NEW k \in 1..at PROVE GoodEntry(k)'
    BY <1>2
  <2>1. k = at \/ k \in 1..(at - 1)
    BY <1>2
  <2>2. GoodEntry(k)
    BY <1>5, <2>1
  <2> QED BY <2>2, FilesFrame
<1>8. ValidateInv'
  BY <1>2, <1>5, <1>6, <1>7, FilesFrame DEF ValidateInv
<1> QED BY <1>1, <1>3, <1>4, <1>8 DEF BenchInv

LEMMA MissingKeeps ==
  ASSUME BenchInv, ScenarioMissing \/ SampleMissing PROVE BenchInv'
<1>1. /\ phase = "validate" /\ at > 0 /\ at <= Len(suite) /\ ~evaluating
      /\ UNCHANGED <<evalVars, files, phase, passed, agent, reports, results,
                     ranking, evaluating>>
      /\ at' = at + 1
  BY DEF ScenarioMissing, SampleMissing, Fail, Checking, InScenario, Validating
<1>2. failed' # {}
  BY DEF ScenarioMissing, SampleMissing, Fail
<1> QED BY <1>1, <1>2, NextEntryKeeps

LEMMA SampleScoredKeeps ==
  ASSUME BenchInv, SampleScored PROVE BenchInv'
<1>1. /\ phase = "validate" /\ evaluating /\ metrics # None
      /\ UNCHANGED <<evalVars, files, phase, passed, agent, reports, results,
                     ranking>>
      /\ at' = at + 1 /\ ~evaluating'
  BY DEF SampleScored, Fail
<1>2. at > 0 /\ Work(Samples) /\ Readable(suite)
  BY <1>1 DEF BenchInv, ValidateInv
<1>3. at <= Len(suite)
  BY <1>2, FilesOK DEF BenchInv, TypesInv, Work
<1>4. failed' = {} => failed = {} /\ Overall(metrics) >= files.minScore
  BY DEF SampleScored, Fail
<1>5. failed' = {} => GoodEntry(at)
  BY <1>1, <1>2, <1>4, ScoredIsGood DEF BenchInv, TypesInv
<1> QED BY <1>1, <1>2, <1>3, <1>4, <1>5, NextEntryKeeps

LEMMA SampleFoundKeeps ==
  ASSUME BenchInv, SampleFound PROVE BenchInv'
<1>1. /\ phase = "validate" /\ at > 0 /\ at <= Len(suite)
      /\ UNCHANGED <<files, phase, passed, agent, reports, results, ranking,
                     at>>
      /\ failed \subseteq failed'
  BY DEF SampleFound, Fail, InScenario, Validating
<1>2. /\ TruthOf(Entry) # None
      /\ Readable(OutputOf(Samples, TruthOf(Entry).id))
      /\ Evaluate(TruthOf(Entry), OutputOf(Samples, TruthOf(Entry).id))
  BY DEF SampleFound
<1>3. /\ passed = None /\ agent = 1 /\ DOMAIN reports = {} /\ ranking = None
      /\ Readable(suite)
      /\ failed = {} => \A k \in 1..(at - 1) : GoodEntry(k)
  BY <1>1 DEF BenchInv, ValidateInv
<1>4. /\ files \in Benchmarks /\ at \in Nat
      /\ Len(suite) \in Nat /\ DOMAIN suite = 1..Len(suite)
      /\ Samples \in DOMAIN files.outputs
  BY <1>3, FilesOK DEF BenchInv, TypesInv
<1>5. at \in DOMAIN suite
  BY <1>1, <1>4
<1>6. EvalInv' /\ Work(Samples)' /\ evaluating'
  BY <1>1, <1>2, <1>4, <1>5, WorkBegins
<1>7. TypesInv' /\ SuiteInv' /\ SampleInv' /\ RankInv'
  BY <1>1, <1>4, TypesKept, SuiteKept, SampleKept, RankKept DEF BenchInv
<1>8. RunInv'
  BY <1>1 DEF RunInv
<1>9. failed' = {} => \A k \in 1..(at' - 1) : GoodEntry(k)'
  BY <1>1, <1>3, FilesFrame
<1>10. ValidateInv'
  BY <1>1, <1>3, <1>4, <1>6, <1>9, FilesFrame DEF ValidateInv
<1> QED BY <1>6, <1>7, <1>8, <1>10 DEF BenchInv

LEMMA ValidatedKeeps ==
  ASSUME BenchInv, Validated PROVE BenchInv'
<1>1. /\ phase = "validate" /\ ~evaluating /\ at > 0 /\ at > Len(suite)
      /\ passed' = (failed = {}) /\ phase' = "run" /\ at' = 1
      /\ UNCHANGED <<evalVars, files, evaluating, failed, agent, reports,
                     results, ranking>>
  BY DEF Validated, Validating
<1>2. /\ agent = 1 /\ DOMAIN reports = {} /\ ranking = None
      /\ Readable(suite) /\ at <= Len(suite) + 1
      /\ failed = {} => \A k \in 1..(at - 1) : GoodEntry(k)
  BY <1>1 DEF BenchInv, ValidateInv
<1>3. /\ at \in Nat /\ Len(suite) \in Nat /\ DOMAIN suite = 1..Len(suite)
  BY <1>2, FilesOK DEF BenchInv, TypesInv
<1>4. at - 1 = Len(suite)
  BY <1>1, <1>2, <1>3
<1>5. EvalInv' /\ TypesInv' /\ RankInv'
  BY <1>1, EvalUnchanged, TypesKept, RankKept DEF BenchInv
<1>6. SuiteInv'
  BY <1>1, <1>2, <1>3, <1>4, FilesFrame DEF SuiteInv
<1>7. ValidateInv' /\ SampleInv'
  BY <1>1, <1>2 DEF ValidateInv, SampleInv
<1>8. RunInv'
  BY <1>1, <1>3, FilesFrame DEF RunInv
<1> QED BY <1>5, <1>6, <1>7, <1>8 DEF BenchInv

LEMMA ValidateKeeps ==
  ASSUME BenchInv, Validate PROVE BenchInv'
<1>1. CASE ValidateRaises
  <2>1. Raise /\ phase = "validate"
    BY <1>1 DEF ValidateRaises, InScenario, Validating
  <2>2. passed # TRUE
    BY <2>1, BenchmarksAssumption DEF BenchInv, ValidateInv
  <2> QED BY <2>1, <2>2, RaiseKeeps
<1> QED BY <1>1, LoadSuiteKeeps, MissingKeeps, SampleScoredKeeps,
           SampleFoundKeeps, ValidatedKeeps DEF Validate
-----------------------------------------------------------------------------
(* benchmark run.                                                          *)
LEMMA RunScenarioKeeps ==
  ASSUME BenchInv, RunScenario PROVE BenchInv'
<1> DEFINE there == /\ TruthOf(Entry) # None
                    /\ Readable(OutputOf(AgentDir, TruthOf(Entry).id))
<1>1. /\ phase = "run" /\ ~evaluating /\ ranking = None
      /\ agent <= Len(files.agents) /\ Readable(suite) /\ at \in DOMAIN suite
  BY DEF RunScenario, Running
<1>2. /\ files \in Benchmarks /\ agent \in Nat \ {0}
      /\ AgentDir \in DOMAIN files.outputs
  <2>1. files \in Benchmarks /\ agent \in Nat \ {0} /\ agent \in Int
    BY FilesOK DEF BenchInv, TypesInv
  <2> QED BY <1>1, <2>1, FilesOK DEF AgentDir
<1>3. CASE there
  <2>1. /\ Evaluate(TruthOf(Entry), OutputOf(AgentDir, TruthOf(Entry).id))
        /\ UNCHANGED <<files, phase, at, failed, passed, agent, reports,
                       results, ranking>>
    BY <1>3 DEF RunScenario
  <2>2. PICK dir : dir = AgentDir
    OBVIOUS
  <2>3. /\ dir \in DOMAIN files.outputs /\ files \in Benchmarks
        /\ TruthOf(Entry) # None /\ at \in DOMAIN suite
        /\ Readable(OutputOf(dir, TruthOf(Entry).id))
        /\ Evaluate(TruthOf(Entry), OutputOf(dir, TruthOf(Entry).id))
        /\ UNCHANGED <<files, at>>
    BY <1>1, <1>2, <1>3, <2>1, <2>2
  <2>4. EvalInv' /\ evaluating' /\ Work(AgentDir)'
    <3>1. EvalInv' /\ evaluating' /\ Work(dir)'
      BY <2>3, WorkBegins
    <3>2. AgentDir' = dir
      BY <2>1, <2>2 DEF AgentDir
    <3>3. Work(AgentDir)'
      BY <3>1, <3>2 DEF Work
    <3> QED BY <3>1, <3>3
  <2>5. at \in Nat /\ at' \in Nat
    BY <2>1 DEF BenchInv, TypesInv
  <2>6. TypesInv' /\ SuiteInv' /\ SampleInv' /\ RankInv'
    BY <2>1, <2>5, TypesKept, SuiteKept, SampleKept, RankKept DEF BenchInv
  <2>7. ValidateInv'
    BY <1>1, <2>1 DEF ValidateInv
  <2>8. /\ at \in 1..(Len(suite) + 1)
        /\ at > 1 => DOMAIN reports # {}
    BY <1>1 DEF BenchInv, RunInv
  <2>9. RunInv'
    BY <1>1, <2>1, <2>4, <2>8, FilesFrame DEF RunInv
  <2> QED BY <2>4, <2>6, <2>7, <2>9 DEF BenchInv
<1>4. CASE ~there
  <2>1. Raise
    BY <1>4 DEF RunScenario
  <2>2. ASSUME passed = TRUE, files.agents = <<Samples>> PROVE FALSE
    <3>1. GoodEntry(at)
      BY <1>1, <2>2 DEF BenchInv, SuiteInv
    <3>2. AgentDir = Samples
      <4>1. agent = 1
        BY <1>1, <1>2, <2>2
      <4> QED BY <2>2, <4>1 DEF AgentDir
    <3> QED BY <1>4, <3>1, <3>2 DEF GoodEntry, Entry
  <2> QED BY <2>1, <2>2, RaiseKeeps
<1> QED BY <1>3, <1>4

LEMMA ScenarioRunKeeps ==
  ASSUME BenchInv, ScenarioRun PROVE BenchInv'
<1>1. /\ phase = "run" /\ evaluating /\ metrics # None
      /\ UNCHANGED <<evalVars, files, phase, failed, passed, agent, results,
                     ranking>>
      /\ reports' = With(reports, Entry.id, metrics)
      /\ at' = at + 1 /\ ~evaluating'
  BY DEF ScenarioRun
<1>2. agent <= Len(files.agents) /\ Work(AgentDir)
  BY <1>1 DEF BenchInv, RunInv
<1> DEFINE sid == Entry.id
<1>3. /\ DOMAIN reports' = DOMAIN reports \cup {sid}
      /\ \A s \in DOMAIN reports' :
            \/ reports'[s] = metrics
            \/ s \in DOMAIN reports /\ reports'[s] = reports[s]
  BY <1>1 DEF With
<1> HIDE DEF sid
<1>4. IsFiniteSet(DOMAIN reports')
  BY <1>3, FS_AddElement DEF BenchInv, TypesInv
<1>5. Overall(metrics) \in Int /\ Balanced(metrics) \in Int
  BY <1>1, MetricsAreInt DEF BenchInv
<1>6. at \in Nat /\ at \in DOMAIN suite
  BY <1>2 DEF BenchInv, TypesInv, Work
<1>7. EvalInv' /\ SuiteInv' /\ RankInv'
  BY <1>1, EvalUnchanged, SuiteKept, RankKept DEF BenchInv
<1>8. TypesInv'
  <2>1. \A s \in DOMAIN reports' : Overall(reports'[s]) \in Int
                                   /\ Balanced(reports'[s]) \in Int
    BY <1>3, <1>5 DEF BenchInv, TypesInv
  <2> QED BY <1>1, <1>4, <1>6, <2>1 DEF BenchInv, TypesInv
<1>9. ValidateInv'
  BY <1>1 DEF ValidateInv
<1>10. RunInv'
  <2>1. Readable(suite)' => at' \in 1..(Len(suite)' + 1)
    BY <1>1, <1>6, FilesFrame, FilesOK DEF BenchInv, TypesInv
  <2>2. DOMAIN reports' # {}
    BY <1>3
  <2> QED BY <1>1, <2>1, <2>2 DEF RunInv
<1>11. SampleInv'
  <2> SUFFICES ASSUME passed = TRUE, files.agents = <<Samples>>
               PROVE  /\ agent = 1 => \A s \in DOMAIN reports' :
                            Overall(reports'[s]) >= files.minScore
                      /\ agent = 2 /\ suite # <<>> =>
                            results[1].overall >= files.minScore
    BY <1>1, FilesFrame DEF SampleInv
  <2>1. agent = 1 => Work(Samples)
    BY <1>2 DEF AgentDir
  <2>2. agent = 1 => Overall(metrics) >= files.minScore
    BY <1>1, <1>6, <2>1, GoodIsScored DEF BenchInv, TypesInv, SuiteInv
  <2> QED BY <1>3, <2>2 DEF BenchInv, SampleInv
<1> QED BY <1>7, <1>8, <1>9, <1>10, <1>11 DEF BenchInv

LEMMA AgentRunKeeps ==
  ASSUME BenchInv, AgentRun PROVE BenchInv'
<1>1. /\ phase = "run" /\ ~evaluating /\ ranking = None
      /\ agent <= Len(files.agents) /\ Readable(suite) /\ at > Len(suite)
      /\ results' = Append(results, Aggregate) /\ reports' = <<>>
      /\ agent' = agent + 1 /\ at' = 1
      /\ UNCHANGED <<evalVars, files, phase, evaluating, failed, passed,
                     ranking>>
  BY DEF AgentRun, Running
<1>2. /\ files \in Benchmarks /\ Len(files.agents) \in Nat
      /\ agent \in Nat \ {0} /\ Len(suite) \in Nat
      /\ suite # <<>> => Len(suite) # 0
      /\ results \in Seq([overall : Int, balanced : Int])
      /\ Len(results) = agent - 1
  <2>1. files \in Benchmarks /\ Len(files.agents) \in Nat
    BY FilesOK DEF BenchInv, TypesInv
  <2> QED BY <1>1, <2>1, FilesOK DEF BenchInv, TypesInv
<1>3. /\ results' \in Seq([overall : Int, balanced : Int])
      /\ Len(results') = agent /\ results'[agent] = Aggregate
      /\ Aggregate \in [overall : Int, balanced : Int]
  <2>1. Aggregate \in [overall : Int, balanced : Int]
    BY AggregateBounds DEF BenchInv
  <2>2. Len(results') = Len(results) + 1
        /\ results'[Len(results) + 1] = Aggregate
        /\ results' \in Seq([overall : Int, balanced : Int])
    BY <1>1, <1>2, <2>1, AppendProperties
  <2> QED BY <1>2, <2>1, <2>2
<1>4. DOMAIN reports' = {}
  BY <1>1
<1>5. EvalInv' /\ SuiteInv'
  BY <1>1, EvalUnchanged, SuiteKept DEF BenchInv
<1>6. TypesInv'
  BY <1>1, <1>2, <1>3, <1>4, FS_EmptySet DEF TypesInv
<1>7. ValidateInv' /\ RankInv'
  BY <1>1 DEF ValidateInv, RankInv
<1>8. RunInv'
  BY <1>1, <1>2, FilesFrame DEF RunInv
<1>9. SampleInv'
  <2> SUFFICES ASSUME passed = TRUE, files.agents = <<Samples>>, agent = 1,
                      suite # <<>>
               PROVE  results'[1].overall >= files.minScore
    BY <1>1, <1>2, <1>4, FilesFrame DEF SampleInv
  <2>1. at > 1
    <3>1. at \in 1..(Len(suite) + 1)
      BY <1>1 DEF BenchInv, RunInv
    <3> QED BY <1>1, <1>2, <3>1
  <2>2. DOMAIN reports # {}
    BY <1>1, <2>1 DEF BenchInv, RunInv
  <2>3. \A s \in DOMAIN reports : Overall(reports[s]) >= files.minScore
    BY DEF BenchInv, SampleInv
  <2>4. Aggregate.overall >= files.minScore
    BY <2>2, <2>3, AggregateBounds DEF BenchInv
  <2> QED BY <1>3, <2>4
<1> QED BY <1>5, <1>6, <1>7, <1>8, <1>9 DEF BenchInv

LEMMA RankKeeps ==
  ASSUME BenchInv, Rank PROVE BenchInv'
<1>1. /\ phase = "run" /\ Readable(suite) /\ agent > Len(files.agents)
      /\ ranking' = Ranked(DOMAIN results,
                           {p \in (DOMAIN results) \X (DOMAIN results) :
                              Better(p[1], p[2])})
      /\ UNCHANGED <<evalVars, files, phase, at, evaluating, failed, passed,
                     agent, reports, results>>
  BY DEF Rank
<1>2. /\ Len(files.agents) \in Nat /\ DOMAIN files.agents = 1..Len(files.agents)
      /\ agent = Len(files.agents) + 1
      /\ results \in Seq([overall : Int, balanced : Int])
      /\ Len(results) = Len(files.agents)
      /\ at \in Nat
  BY <1>1, FilesOK DEF BenchInv, TypesInv
<1>3. DOMAIN results = 1..Len(results)
  BY <1>2, LenProperties
<1>4. /\ Len(ranking') = Len(results)
      /\ Range(ranking') = DOMAIN results
      /\ \A i, j \in DOMAIN ranking' : i < j =>
            results[ranking'[i]].balanced >= results[ranking'[j]].balanced
  BY <1>1, <1>2, RankingSorts
<1>5. RankInv'
  BY <1>1, <1>2, <1>3, <1>4 DEF RankInv, Range
<1>6. EvalInv' /\ TypesInv' /\ SuiteInv' /\ SampleInv'
  BY <1>1, <1>2, EvalUnchanged, TypesKept, SuiteKept, SampleKept DEF BenchInv
<1>7. ValidateInv'
  BY <1>1 DEF ValidateInv
<1>8. RunInv'
  <2>1. (Readable(suite)' => at' \in 1..(Len(suite)' + 1))
        /\ (at' > 1 => DOMAIN reports' # {})
    BY <1>1, FilesFrame DEF BenchInv, RunInv
  <2>2. ~evaluating'
    BY <1>1, <1>2 DEF BenchInv, RunInv
  <2> QED BY <2>1, <2>2 DEF RunInv
<1> QED BY <1>5, <1>6, <1>7, <1>8 DEF BenchInv

LEMMA RunKeeps ==
  ASSUME BenchInv, Run PROVE BenchInv'
<1>1. CASE SuiteUnreadable
  <2>1. Raise /\ ~Readable(suite)
    BY <1>1 DEF SuiteUnreadable
  <2>2. passed # TRUE
    BY <2>1 DEF BenchInv, SuiteInv
  <2> QED BY <2>1, <2>2, RaiseKeeps
<1> QED BY <1>1, RunScenarioKeeps, ScenarioRunKeeps, AgentRunKeeps, RankKeeps
    DEF Run
-----------------------------------------------------------------------------
LEMMA EvaluatingKeeps ==
  ASSUME BenchInv, UNCHANGED benchVars, UNCHANGED evalVars \/ EvaluateStep
  PROVE  BenchInv'
<1>1. UNCHANGED <<files, phase, at, evaluating, failed, passed, agent,
                  reports, results, ranking>>
  BY DEF benchVars
<1>2. UNCHANGED <<truth, answer>>
  BY DEF EvaluateStep, MatchFinding, MissFinding, MatchStage, MissStage,
         Report, evalVars
<1>3. EvalInv'
  BY EvaluateStepKeeps, EvalUnchanged DEF BenchInv
<1>4. TypesInv' /\ SuiteInv' /\ SampleInv' /\ RankInv'
  <2>1. at' \in Nat
    BY <1>1 DEF BenchInv, TypesInv
  <2> QED BY <1>1, <2>1, TypesKept, SuiteKept, SampleKept, RankKept
      DEF BenchInv
<1>5. ValidateInv'
  BY <1>1, <1>2, FilesFrame, WorkKept DEF BenchInv, ValidateInv
<1>6. RunInv'
  <2>1. evaluating /\ phase = "run" => Work(AgentDir)'
    BY <1>1, <1>2, FilesFrame DEF BenchInv, RunInv, Work, AgentDir
  <2> QED BY <1>1, <2>1, FilesFrame DEF BenchInv, RunInv
<1> QED BY <1>3, <1>4, <1>5, <1>6 DEF BenchInv

LEMMA NextBenchInv == BenchInv /\ [Next]_vars => BenchInv'
<1> SUFFICES ASSUME BenchInv, [Next]_vars PROVE BenchInv'
  OBVIOUS
<1>1. CASE Validate
  BY <1>1, ValidateKeeps
<1>2. CASE Run
  BY <1>2, RunKeeps
<1>3. CASE Evaluating
  BY <1>3, EvaluatingKeeps DEF Evaluating
<1>4. CASE UNCHANGED vars
  BY <1>4, EvaluatingKeeps DEF vars
<1> QED BY <1>1, <1>2, <1>3, <1>4 DEF Next

(* No evaluator exists at first, and nothing has been validated.           *)
LEMMA InitBenchInv == BenchInit => BenchInv
<1> SUFFICES ASSUME BenchInit PROVE BenchInv
  OBVIOUS
<1>1. /\ files \in Benchmarks /\ phase = "validate" /\ at = 0
      /\ evaluating = FALSE /\ failed = {} /\ passed = None
      /\ agent = 1 /\ reports = <<>> /\ results = <<>> /\ ranking = None
      /\ truth = WithStages(NoFindings) /\ answer = NoFindings
      /\ matched = <<>> /\ stageMatched = <<>> /\ metrics = None
  BY DEF BenchInit, Init
<1>2. Document(NoFindings)
  BY DEF Document, NoFindings, Range
<1>3. Document(truth) /\ Document(answer)
  BY <1>1, <1>2, StagesDerived
<1>4. Len(truth.findings) \in Nat /\ Len(truth.stages) \in Nat
  BY <1>3, DocumentPlaces, ListPlaces
<1>5. \A C, R : FirstFitOf(<<>>, C, R)
  BY DEF FirstFitOf
<1>6. EvalInv
  BY <1>1, <1>3, <1>4, <1>5 DEF EvalInv
<1>7. DOMAIN reports = {}
  BY <1>1
<1>8. Len(files.agents) \in Nat
  BY <1>1, FilesOK
<1>9. TypesInv
  BY <1>1, <1>7, <1>8, FS_EmptySet DEF TypesInv
<1>10. ValidateInv
  BY <1>1, <1>7 DEF ValidateInv
<1>11. passed # TRUE
  BY <1>1, BenchmarksAssumption
<1>12. SuiteInv /\ RunInv /\ SampleInv /\ RankInv
  BY <1>1, <1>11 DEF SuiteInv, RunInv, SampleInv, RankInv
<1> QED BY <1>6, <1>9, <1>10, <1>12 DEF BenchInv

(* The files stay files, every evaluator works on two documents, and the   *)
(* validator and the runner keep the invariant above.                      *)
THEOREM BenchInvariant == Spec => []BenchInv
  BY InitBenchInv, NextBenchInv, PTL DEF Spec

(* Whatever the files hold and however many findings there are, evaluate   *)
(* matches each expected finding with the first one that fits and was not  *)
(* matched before, and no finding of the agent twice (_match_finding of    *)
(* evaluator.py).                                                          *)
THEOREM MatchesFirstFit == Spec => []FirstFit
<1>1. BenchInv => FirstFit
  BY EvalInvFirstFit DEF BenchInv
<1> QED BY BenchInvariant, <1>1, PTL

(* Whatever is scored: no metric leaves 0..1, an answer that is the ground *)
(* truth has 1 in every metric, and the order in which the expectations    *)
(* are listed costs at most half of the recall of the best matching        *)
(* (evaluate and _evaluate_timeline_stages of evaluator.py).               *)
THEOREM ScoresAreFair == Spec => []ScoresFair
<1>1. BenchInv => ScoresFair
  BY EvalInvScores DEF BenchInv
<1> QED BY BenchInvariant, <1>1, PTL

(* A suite that benchmark validate passes can be run on its samples: the   *)
(* run raises nothing and reaches the score that was required; and every   *)
(* ranking lists all agents, none before one with a better balanced score  *)
(* (SuiteValidator.validate, run_benchmark and _rank_agents).              *)
THEOREM ValidatedRuns == Spec => []ValidatedSuiteRuns
<1>1. ASSUME BenchInv PROVE ValidatedSuiteRuns
  <2>1. ASSUME passed = TRUE, files.agents = <<Samples>>
        PROVE  /\ phase # "raised"
               /\ ranking # None /\ suite # <<>> =>
                     results[1].overall >= files.minScore
    <3>1. Len(files.agents) = 1
      BY <2>1
    <3> QED BY <1>1, <2>1, <3>1 DEF BenchInv, SampleInv, RankInv
  <2>2. ranking # None =>
          /\ Len(ranking) = Len(files.agents)
          /\ \A i \in DOMAIN files.agents : i \in Range(ranking)
          /\ \A i, j \in DOMAIN ranking : i < j =>
                results[ranking[i]].balanced >= results[ranking[j]].balanced
    BY <1>1 DEF BenchInv, RankInv
  <2> QED BY <2>1, <2>2 DEF ValidatedSuiteRuns
<1> QED BY BenchInvariant, <1>1, PTL
=============================================================================
