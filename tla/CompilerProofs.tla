-------------------------- MODULE CompilerProofs --------------------------
(***************************************************************************)
(* Theorems about Compiler, for every scenario and every packs directory   *)
(* that the loaders accept.                                                *)
(***************************************************************************)
EXTENDS Compiler, FiniteSetTheorems, SequenceTheorems,
        WellFoundedInduction, TLAPS

(* What a scenario is, its realism profile resolved or not.                *)
ScenarioInv ==
    /\ disk \in Disks
    /\ ScenarioOK(scenario)

(* What makes PacksClosure inductive: the packs that are loaded or waiting *)
(* are reachable, nothing is loaded twice, what a loaded pack depends on   *)
(* is loaded or waiting; and nothing is waiting once the packs are there.  *)
PackInv ==
    /\ stack \in Seq(PackIds) /\ loaded \in Seq(PackIds)
    /\ \A i, j \in 1..Len(loaded) : loaded[i] = loaded[j] => i = j
    /\ scenario.domain \in Visited \cup Range(stack)
    /\ Visited \cup Range(stack) \subseteq Reachable(scenario.domain)
    /\ \A p \in Visited :
          disk[p] # None /\ Range(disk[p].deps) \subseteq Visited \cup Range(stack)
    /\ phase \notin {"packs", "failed"} => stack = <<>>
    /\ phase = "failed" /\ stack # <<>> => PackMissing
-----------------------------------------------------------------------------
(* Every set of natural numbers has a least element: the principle by      *)
(* which the lemmas below go through a list.                               *)
LEMMA LeastNat ==
  ASSUME NEW T, T \subseteq Nat, T # {}
  PROVE  \E m \in T : \A k \in T : m <= k
<1> DEFINE less == OpToRel(<, Nat)
<1>1. \E x \in T : \A y \in T : ~(<<y, x>> \in less)
  BY NatLessThanWellFounded, WFMin
<1>2. \A x, y \in Nat : x < y => <<x, y>> \in less
  BY DEF OpToRel
<1> HIDE DEF less
<1>3. PICK m \in T : \A y \in T : ~(<<y, m>> \in less)
  BY <1>1
<1>4. ASSUME NEW k \in T PROVE ~(k < m)
  <2>1. ~(<<k, m>> \in less)
    BY <1>3
  <2>2. k \in Nat /\ m \in Nat
    OBVIOUS
  <2> QED BY <1>2, <2>1, <2>2
<1> QED BY <1>4

(* Induction over the positions 0..n: what holds of 0 and goes from each   *)
(* position to the next holds of all.                                      *)
LEMMA Positions ==
  ASSUME NEW n \in Nat, NEW T, 0 \in T,
         \A i \in 1..n : i - 1 \in T => i \in T
  PROVE  \A i \in 0..n : i \in T
<1> SUFFICES ASSUME NEW j \in 0..n, j \notin T PROVE FALSE
  OBVIOUS
<1> DEFINE out == {i \in 0..n : i \notin T}
<1>1. PICK m \in out : \A k \in out : m <= k
  <2>1. out \subseteq Nat /\ out # {}
    OBVIOUS
  <2> HIDE DEF out
  <2> QED BY <2>1, LeastNat
<1>2. m \in 1..n /\ m - 1 \in 0..n
  BY <1>1
<1>3. m - 1 \in T
  BY <1>1, <1>2
<1> QED BY <1>1, <1>2, <1>3

(* The recursion of Only has a solution.                                   *)
LEMMA OnlyMeans ==
  ASSUME NEW A, NEW list \in Seq(A), NEW S
  PROVE  \E k : /\ k[0] = <<>>
                /\ \A i \in 1..Len(list) :
                      k[i] = IF list[i] \in S THEN Append(k[i - 1], list[i])
                             ELSE k[i - 1]
                /\ Only(list, S) = k[Len(list)]
<1> DEFINE Solves(k, n) ==
             k = [i \in 0..n |->
                    IF i = 0 THEN <<>>
                    ELSE IF list[i] \in S THEN Append(k[i - 1], list[i])
                    ELSE k[i - 1]]
           solved == {n \in 0..Len(list) : \E k : Solves(k, n)}
<1>1. Len(list) \in Nat
  BY LenProperties
<1>2. 0 \in solved
  <2>1. Solves([i \in 0..0 |-> <<>>], 0)
    OBVIOUS
  <2> HIDE DEF Solves
  <2> QED BY <1>1, <2>1
<1>3. ASSUME NEW n \in 1..Len(list), n - 1 \in solved
      PROVE  n \in solved
  <2>1. PICK k : Solves(k, n - 1)
    BY <1>3
  <2> DEFINE last == IF list[n] \in S THEN Append(k[n - 1], list[n])
                     ELSE k[n - 1]
             l == [i \in 0..n |-> IF i = n THEN last ELSE k[i]]
  <2> HIDE DEF last
  <2>2. \A i \in 0..(n - 1) : l[i] = k[i]
    OBVIOUS
  <2>3. l[n] = last
    OBVIOUS
  <2>4. ASSUME NEW i \in 0..n
        PROVE  l[i] = IF i = 0 THEN <<>>
                      ELSE IF list[i] \in S THEN Append(l[i - 1], list[i])
                      ELSE l[i - 1]
    <3>1. CASE i = n
      <4>1. l[n - 1] = k[n - 1]
        BY <2>2
      <4> HIDE DEF l
      <4> QED BY <2>3, <3>1, <4>1 DEF last
    <3>2. CASE i # n /\ i # 0
      <4>1. i \in 0..(n - 1) /\ i - 1 \in 0..(n - 1)
        BY <3>2
      <4>2. l[i] = k[i] /\ l[i - 1] = k[i - 1]
        BY <2>2, <4>1
      <4>3. k[i] = IF list[i] \in S THEN Append(k[i - 1], list[i])
                   ELSE k[i - 1]
        BY <2>1, <3>2, <4>1
      <4> HIDE DEF l
      <4> QED BY <3>2, <4>2, <4>3
    <3>3. CASE i # n /\ i = 0
      <4>1. k[0] = <<>>
        BY <2>1
      <4> QED BY <3>3, <4>1
    <3> QED BY <3>1, <3>2, <3>3
  <2>5. Solves(l, n)
    <3>1. l = [i \in 0..n |-> l[i]]
      OBVIOUS
    <3> HIDE DEF l
    <3> QED BY <2>4, <3>1
  <2> HIDE DEF l, Solves
  <2> QED BY <2>5
<1>4. \E k : Solves(k, Len(list))
  <2> HIDE DEF solved
  <2>1. Len(list) \in solved
    <3>1. \A i \in 1..Len(list) : i - 1 \in solved => i \in solved
      BY <1>3
    <3>2. \A i \in 0..Len(list) : i \in solved
      BY <1>1, <1>2, <3>1, Positions
    <3> QED BY <1>1, <3>2
  <2> QED BY <2>1 DEF solved
<1> DEFINE kept == CHOOSE k : Solves(k, Len(list))
<1>5. Solves(kept, Len(list))
  <2> HIDE DEF Solves
  <2> QED BY <1>4
<1>6. Only(list, S) = kept[Len(list)]
  BY DEF Only
<1> HIDE DEF kept
<1>7. kept[0] = <<>>
  BY <1>1, <1>5
<1>8. \A i \in 1..Len(list) :
         kept[i] = IF list[i] \in S THEN Append(kept[i - 1], list[i])
                   ELSE kept[i - 1]
  <2> SUFFICES ASSUME NEW i \in 1..Len(list)
               PROVE  kept[i] = IF list[i] \in S
                                THEN Append(kept[i - 1], list[i])
                                ELSE kept[i - 1]
    OBVIOUS
  <2>1. i \in 0..Len(list) /\ i # 0
    BY <1>1
  <2> QED BY <1>5, <2>1
<1> QED BY <1>6, <1>7, <1>8

(* What is in a list, element by element.                                  *)
LEMMA AppendList ==
  ASSUME NEW A, NEW list \in Seq(A), NEW x
  PROVE  /\ Append(list, x) \in Seq(A \cup {x})
         /\ Len(Append(list, x)) = Len(list) + 1
         /\ \A i \in 1..Len(list) : Append(list, x)[i] = list[i]
         /\ Append(list, x)[Len(list) + 1] = x
         /\ Range(Append(list, x)) = Range(list) \cup {x}
<1>1. list \in Seq(A \cup {x}) /\ DOMAIN list = 1..Len(list)
      /\ Len(list) \in Nat
  BY SeqMonotonic, LenProperties
<1> DEFINE more == Append(list, x)
<1>2. /\ more \in Seq(A \cup {x}) /\ Len(more) = Len(list) + 1
      /\ \A i \in 1..Len(list) : more[i] = list[i]
      /\ more[Len(list) + 1] = x
  BY <1>1, AppendProperties
<1>3. DOMAIN more = 1..(Len(list) + 1)
  BY <1>2, LenProperties
<1> HIDE DEF more
<1>4. Range(more) = Range(list) \cup {x}
  BY <1>1, <1>2, <1>3 DEF Range
<1> QED BY <1>2, <1>4 DEF more

(* Only keeps the members of the set and nothing else.                     *)
LEMMA OnlyKeeps ==
  ASSUME NEW A, NEW list \in Seq(A), NEW S
  PROVE  /\ Only(list, S) \in Seq(A \cap S)
         /\ Range(Only(list, S)) = Range(list) \cap S
<1>1. PICK k : /\ k[0] = <<>>
               /\ \A i \in 1..Len(list) :
                     k[i] = IF list[i] \in S THEN Append(k[i - 1], list[i])
                            ELSE k[i - 1]
               /\ Only(list, S) = k[Len(list)]
  BY OnlyMeans
<1>2. Len(list) \in Nat /\ DOMAIN list = 1..Len(list)
      /\ \A i \in 1..Len(list) : list[i] \in A
  BY LenProperties, ElementOfSeq
<1> DEFINE good == {i \in 0..Len(list) :
                      /\ k[i] \in Seq(A \cap S)
                      /\ Range(k[i]) = {list[j] : j \in 1..i} \cap S}
<1>3. 0 \in good
  <2>1. Range(<<>>) = {}
    BY DEF Range
  <2>2. {list[j] : j \in 1..0} = {}
    OBVIOUS
  <2>3. k[0] \in Seq(A \cap S)
    BY <1>1
  <2>4. Range(k[0]) = {list[j] : j \in 1..0} \cap S
    BY <1>1, <2>1, <2>2
  <2>5. 0 \in 0..Len(list)
    BY <1>2
  <2> QED BY <2>3, <2>4, <2>5
<1>4. ASSUME NEW i \in 1..Len(list), i - 1 \in good
      PROVE  i \in good
  <2>1. k[i - 1] \in Seq(A \cap S)
        /\ Range(k[i - 1]) = {list[j] : j \in 1..(i - 1)} \cap S
    BY <1>4
  <2>2. {list[j] : j \in 1..i} = {list[j] : j \in 1..(i - 1)} \cup {list[i]}
    <3>1. 1..i = (1..(i - 1)) \cup {i}
      BY <1>2
    <3> QED BY <3>1
  <2>3. CASE list[i] \in S
    <3>1. k[i] = Append(k[i - 1], list[i])
      BY <1>1, <2>3
    <3>2. list[i] \in A \cap S
      BY <1>2, <2>3
    <3>3. k[i] \in Seq((A \cap S) \cup {list[i]})
          /\ Range(k[i]) = Range(k[i - 1]) \cup {list[i]}
      BY <2>1, <3>1, AppendList
    <3>4. (A \cap S) \cup {list[i]} = A \cap S
      BY <3>2
    <3> QED BY <2>1, <2>2, <2>3, <3>3, <3>4
  <2>4. CASE list[i] \notin S
    BY <1>1, <2>1, <2>2, <2>4
  <2> QED BY <2>3, <2>4
<1>5. Len(list) \in good
  <2> HIDE DEF good
  <2>1. \A i \in 1..Len(list) : i - 1 \in good => i \in good
    BY <1>4
  <2>2. \A i \in 0..Len(list) : i \in good
    BY <1>2, <1>3, <2>1, Positions
  <2> QED BY <1>2, <2>2
<1>6. Range(list) = {list[j] : j \in 1..Len(list)}
  BY <1>2 DEF Range
<1> QED BY <1>1, <1>5, <1>6

(* A list that gets longer keeps what it had, and in its place.            *)
LEMMA OnlyAppend ==
  ASSUME NEW A, NEW list \in Seq(A), NEW x, NEW S, NEW T,
         \A i \in 1..Len(list) : list[i] \in S <=> list[i] \in T
  PROVE  Only(Append(list, x), T) =
           IF x \in T THEN Append(Only(list, S), x) ELSE Only(list, S)
<1> DEFINE more == Append(list, x)
<1>1. PICK k : /\ k[0] = <<>>
               /\ \A i \in 1..Len(list) :
                     k[i] = IF list[i] \in S THEN Append(k[i - 1], list[i])
                            ELSE k[i - 1]
               /\ Only(list, S) = k[Len(list)]
  BY OnlyMeans
<1>2. /\ more \in Seq(A \cup {x}) /\ Len(more) = Len(list) + 1
      /\ \A i \in 1..Len(list) : more[i] = list[i]
      /\ more[Len(list) + 1] = x
  BY AppendList
<1>3. Len(list) \in Nat
  BY LenProperties
<1> HIDE DEF more
<1>4. PICK l : /\ l[0] = <<>>
               /\ \A i \in 1..Len(more) :
                     l[i] = IF more[i] \in T THEN Append(l[i - 1], more[i])
                            ELSE l[i - 1]
               /\ Only(more, T) = l[Len(more)]
  BY <1>2, OnlyMeans
<1> DEFINE same == {i \in 0..Len(list) : l[i] = k[i]}
<1>5. 0 \in same
  BY <1>1, <1>3, <1>4
<1>6. ASSUME NEW i \in 1..Len(list), i - 1 \in same
      PROVE  i \in same
  <2>1. l[i - 1] = k[i - 1] /\ i \in 1..Len(more) /\ more[i] = list[i]
    BY <1>2, <1>3, <1>6
  <2> QED BY <1>1, <1>4, <2>1
<1>7. l[Len(list)] = k[Len(list)]
  <2> HIDE DEF same
  <2>1. \A i \in 1..Len(list) : i - 1 \in same => i \in same
    BY <1>6
  <2>2. \A i \in 0..Len(list) : i \in same
    BY <1>3, <1>5, <2>1, Positions
  <2>3. Len(list) \in same
    BY <1>3, <2>2
  <2> QED BY <2>3 DEF same
<1>8. l[Len(more)] = IF x \in T THEN Append(l[Len(list)], x) ELSE l[Len(list)]
  <2>1. Len(more) \in 1..Len(more) /\ Len(more) - 1 = Len(list)
    BY <1>2, <1>3
  <2> QED BY <1>2, <1>4, <2>1
<1> QED BY <1>1, <1>4, <1>7, <1>8 DEF more
-----------------------------------------------------------------------------
(* A strict total order on a set, as a set of pairs.                       *)
StrictOrder(R, S) ==
    /\ \A x \in S : <<x, x>> \notin R
    /\ \A x, y, z \in S : <<x, y>> \in R /\ <<y, z>> \in R => <<x, z>> \in R
    /\ \A x, y \in S : x # y => <<x, y>> \in R \/ <<y, x>> \in R

(* Ranked puts every member of a finite set into its place.                *)
LEMMA RankedSorts ==
  ASSUME NEW S, IsFiniteSet(S), NEW R, StrictOrder(R, S)
  PROVE  /\ Ranked(S, R) \in Seq(S)
         /\ Len(Ranked(S, R)) = Cardinality(S)
         /\ Range(Ranked(S, R)) = S
         /\ \A i, j \in 1..Len(Ranked(S, R)) :
               i < j => <<Ranked(S, R)[i], Ranked(S, R)[j]>> \in R
<1> DEFINE n == Cardinality(S)
           Below(x) == {y \in S : <<y, x>> \in R}
           r == [x \in S |-> Cardinality(Below(x)) + 1]
           f == [i \in 1..n |->
                   CHOOSE x \in S : Cardinality(Below(x)) = i - 1]
<1>1. n \in Nat
  BY FS_CardinalityType
<1>2. ASSUME NEW x \in S
      PROVE  /\ IsFiniteSet(Below(x)) /\ Cardinality(Below(x)) \in Nat
             /\ r[x] = Cardinality(Below(x)) + 1 /\ r[x] \in 1..n
  <2>1. Below(x) \in SUBSET (S \ {x})
    BY DEF StrictOrder
  <2>2. IsFiniteSet(S \ {x}) /\ Cardinality(S \ {x}) = n - 1
    BY FS_RemoveElement
  <2> HIDE DEF Below
  <2>3. IsFiniteSet(Below(x)) /\ Cardinality(Below(x)) <= n - 1
    BY <2>1, <2>2, FS_Subset
  <2>4. Cardinality(Below(x)) \in Nat
    BY <2>3, FS_CardinalityType
  <2> HIDE DEF n
  <2> QED BY <1>1, <2>3, <2>4
<1>3. ASSUME NEW x \in S, NEW y \in S, <<x, y>> \in R
      PROVE  r[x] < r[y]
  <2>1. Below(x) \in SUBSET Below(y) /\ x \in Below(y) /\ x \notin Below(x)
    BY <1>3 DEF StrictOrder
  <2> HIDE DEF Below
  <2>2. Cardinality(Below(x)) <= Cardinality(Below(y))
        /\ Cardinality(Below(x)) # Cardinality(Below(y))
    BY <1>2, <2>1, FS_Subset
  <2> HIDE DEF r
  <2> QED BY <1>2, <2>2
<1>4. ASSUME NEW x \in S, NEW y \in S, r[x] = r[y]
      PROVE  x = y
  <2> SUFFICES ASSUME x # y PROVE FALSE
    OBVIOUS
  <2>1. <<x, y>> \in R \/ <<y, x>> \in R
    BY DEF StrictOrder
  <2> HIDE DEF r, n, Below
  <2>2. r[x] \in Nat /\ r[y] \in Nat
    BY <1>1, <1>2
  <2> QED BY <1>3, <1>4, <2>1, <2>2
<1>5. r \in Surjection(S, 1..n)
  <2>1. r \in [S -> 1..n] /\ DOMAIN r = S
    BY <1>2
  <2> HIDE DEF r
  <2>2. r \in Injection(S, 1..n)
    BY <1>4, <2>1 DEF Injection, IsInjective
  <2>3. IsFiniteSet(1..n) /\ Cardinality(1..n) = n
    BY <1>1, FS_Interval
  <2> QED BY <2>2, <2>3, FS_Injection
<1>6. ASSUME NEW i \in 1..n PROVE f[i] \in S /\ r[f[i]] = i
  <2>1. \E x \in S : r[x] = i
    <3> HIDE DEF r
    <3> QED BY <1>5 DEF Surjection
  <2>2. \E x \in S : Cardinality(Below(x)) = i - 1
    <3>1. PICK x \in S : r[x] = i
      BY <2>1
    <3> HIDE DEF r, Below
    <3> QED BY <1>1, <1>2, <3>1
  <2>3. f[i] \in S /\ Cardinality(Below(f[i])) = i - 1
    <3> HIDE DEF Below
    <3> QED BY <2>2
  <2> HIDE DEF r, f, Below
  <2> QED BY <1>1, <1>2, <2>3
<1>7. f = Ranked(S, R)
  BY DEF Ranked
<1>8. f \in [1..n -> S] /\ DOMAIN f = 1..n
  <2>1. \A i \in 1..n : (CHOOSE x \in S : Cardinality(Below(x)) = i - 1) \in S
    BY <1>6
  <2> HIDE DEF Below
  <2> QED BY <2>1
<1> HIDE DEF f, r, Below
<1>9. f \in Seq(S) /\ Len(f) = n
  <2> HIDE DEF n
  <2> QED BY <1>1, <1>8
<1>10. Range(f) = S
  <2>1. ASSUME NEW x \in S PROVE x \in Range(f)
    <3>1. f[r[x]] = x /\ r[x] \in DOMAIN f
      BY <1>2, <1>4, <1>6, <1>8
    <3> QED BY <3>1 DEF Range
  <2> QED BY <1>6, <1>8, <2>1 DEF Range
<1>11. ASSUME NEW i \in 1..n, NEW j \in 1..n, i < j
       PROVE  <<f[i], f[j]>> \in R
  <2>1. f[i] \in S /\ f[j] \in S /\ r[f[i]] = i /\ r[f[j]] = j
    BY <1>6
  <2>2. f[i] # f[j] /\ ~(r[f[j]] < r[f[i]])
    <3> HIDE DEF n
    <3> QED BY <1>1, <1>11, <2>1
  <2> QED BY <1>3, <2>1, <2>2 DEF StrictOrder
<1> QED BY <1>7, <1>9, <1>10, <1>11
-----------------------------------------------------------------------------
(* What is in a list without its last element.                             *)
LEMMA FrontLast ==
  ASSUME NEW A, NEW list \in Seq(A), list # <<>>
  PROVE  /\ Front(list) \in Seq(A) /\ Last(list) \in A
         /\ Range(list) = Range(Front(list)) \cup {Last(list)}
<1>1. Len(list) \in Nat \ {0} /\ DOMAIN list = 1..Len(list)
  BY LenProperties, EmptySeq
<1>2. /\ Front(list) \in Seq(A) /\ Len(Front(list)) = Len(list) - 1
      /\ \A i \in 1..(Len(list) - 1) : Front(list)[i] = list[i]
  BY <1>1 DEF Front
<1>3. DOMAIN Front(list) = 1..(Len(list) - 1)
  BY <1>2, LenProperties
<1>4. Last(list) = list[Len(list)]
  BY DEF Last
<1>5. 1..Len(list) = (1..(Len(list) - 1)) \cup {Len(list)}
  BY <1>1
<1>6. Range(list) = Range(Front(list)) \cup {list[Len(list)]}
  BY <1>1, <1>2, <1>3, <1>5 DEF Range
<1> QED BY <1>1, <1>2, <1>4, <1>6, ElementOfSeq

LEMMA RangeOfConcat ==
  ASSUME NEW A, NEW s \in Seq(A), NEW t \in Seq(A)
  PROVE  s \o t \in Seq(A) /\ Range(s \o t) = Range(s) \cup Range(t)
BY ConcatProperties, RangeConcatenation

(* What is reachable is closed, and in every closed set.                   *)
LEMMA ReachableIsLeast ==
  ASSUME NEW p \in PackIds
  PROVE  /\ p \in Reachable(p)
         /\ Reachable(p) \subseteq PackIds
         /\ \A q \in Reachable(p) :
               disk[q] # None /\ Range(disk[q].deps) \subseteq PackIds =>
                  Range(disk[q].deps) \subseteq Reachable(p)
         /\ \A S \in SUBSET PackIds :
               p \in S /\ (\A q \in S : disk[q] # None =>
                                Range(disk[q].deps) \subseteq S)
               => Reachable(p) \subseteq S
BY DEF Reachable

LEMMA InitPackInv == CompileInit => ScenarioInv /\ PackInv
<1> SUFFICES ASSUME CompileInit PROVE ScenarioInv /\ PackInv
  OBVIOUS
<1>1. scenario \in Scenarios /\ disk \in Disks /\ stack = <<scenario.domain>>
      /\ loaded = <<>> /\ phase = "packs"
  BY DEF CompileInit, Init
<1>2. ScenarioInv
  BY <1>1, InputAssumption DEF ScenarioInv
<1>3. scenario.domain \in PackIds
  BY <1>2 DEF ScenarioInv, ScenarioOK
<1>4. stack \in Seq(PackIds) /\ Range(stack) = {scenario.domain}
      /\ loaded \in Seq(PackIds) /\ Visited = {} /\ Len(loaded) = 0
  BY <1>1, <1>3 DEF Range, Visited
<1>5. PackInv
  BY <1>1, <1>3, <1>4, ReachableIsLeast DEF PackInv
<1> QED BY <1>2, <1>5
(* One turn of the loop of load_with_dependencies.                         *)
LEMMA LoadPackInv ==
  ASSUME ScenarioInv, PackInv, LoadPacks
  PROVE  PackInv'
<1> USE DEF LoadPacks, Goto, packVars, timelineVars
<1>1. /\ stack # <<>> /\ stack \in Seq(PackIds) /\ loaded \in Seq(PackIds)
      /\ disk' = disk /\ scenario' = scenario /\ phase' = "packs"
  BY DEF PackInv, SkipVisited, LoadPack
<1>2. /\ Front(stack) \in Seq(PackIds) /\ Current \in PackIds
      /\ Range(stack) = Range(Front(stack)) \cup {Current}
  BY <1>1, FrontLast DEF Current
<1>3. \A p : Reachable(p)' = Reachable(p)
  BY <1>1 DEF Reachable
<1>4. CASE SkipVisited
  <2>1. stack' = Front(stack) /\ loaded' = loaded /\ Current \in Visited
    BY <1>4 DEF SkipVisited
  <2>2. Visited' = Visited /\ Visited' \cup Range(stack')
                              = Visited \cup Range(stack)
    BY <1>2, <2>1 DEF Visited
  <2> QED BY <1>1, <1>2, <1>3, <2>1, <2>2 DEF PackInv
<1>5. CASE LoadPack
  <2> DEFINE deps == disk[Current].deps
             new  == Only(deps, PackIds \ (Visited \cup {Current}))
  <2>1. /\ Current \notin Visited /\ disk[Current] # None
        /\ loaded' = Append(loaded, Current) /\ stack' = Front(stack) \o new
    BY <1>5 DEF LoadPack
  <2>2. deps \in Seq(PackIds) /\ Range(deps) \subseteq PackIds
    <3>1. deps \in Seq(PackIds)
      BY <1>2, <2>1, InputAssumption DEF ScenarioInv, PackOK
    <3> QED BY <3>1, RangeOfSeq
  <2>3. new \in Seq(PackIds)
        /\ Range(new) = Range(deps) \ (Visited \cup {Current})
    <3>1. new \in Seq(PackIds \cap (PackIds \ (Visited \cup {Current})))
          /\ Range(new) = Range(deps) \cap (PackIds \ (Visited \cup {Current}))
      BY <2>2, OnlyKeeps
    <3>2. PackIds \cap (PackIds \ (Visited \cup {Current})) \subseteq PackIds
      OBVIOUS
    <3> HIDE DEF new, deps
    <3>3. new \in Seq(PackIds)
      BY <3>1, <3>2, SeqMonotonic
    <3> QED BY <2>2, <3>1, <3>3
  <2> HIDE DEF new
  <2>4. stack' \in Seq(PackIds)
        /\ Range(stack') = Range(Front(stack)) \cup Range(new)
    BY <1>2, <2>1, <2>3, RangeOfConcat
  <2>5. /\ loaded' \in Seq(PackIds) /\ Len(loaded') = Len(loaded) + 1
        /\ \A i \in 1..Len(loaded) : loaded'[i] = loaded[i]
        /\ loaded'[Len(loaded) + 1] = Current
        /\ Visited' = Visited \cup {Current}
    <3>1. PackIds \cup {Current} = PackIds
      BY <1>2
    <3> DEFINE more == Append(loaded, Current)
    <3>2. /\ more \in Seq(PackIds \cup {Current})
          /\ Len(more) = Len(loaded) + 1
          /\ \A i \in 1..Len(loaded) : more[i] = loaded[i]
          /\ more[Len(loaded) + 1] = Current
          /\ Range(more) = Range(loaded) \cup {Current}
      <4>1. loaded \in Seq(PackIds)
        BY <1>1
      <4>2. \A x : /\ Append(loaded, x) \in Seq(PackIds \cup {x})
                   /\ Len(Append(loaded, x)) = Len(loaded) + 1
                   /\ \A i \in 1..Len(loaded) :
                         Append(loaded, x)[i] = loaded[i]
                   /\ Append(loaded, x)[Len(loaded) + 1] = x
                   /\ Range(Append(loaded, x)) = Range(loaded) \cup {x}
        BY ONLY <4>1, AppendList
      <4> QED BY ONLY <4>2
    <3> HIDE DEF more
    <3>3. loaded' = more
      BY <2>1 DEF more
    <3> QED BY <3>1, <3>2, <3>3 DEF Visited
  <2>6. \A i, j \in 1..Len(loaded') : loaded'[i] = loaded'[j] => i = j
    <3>1. \A i \in 1..Len(loaded) : loaded[i] # Current
      BY <1>1, <2>1 DEF Visited, Range
    <3>2. Len(loaded) \in Nat
      BY <1>1, LenProperties
    <3> QED BY <2>5, <3>1, <3>2 DEF PackInv
  <2>7. Visited' \cup Range(stack')
          = Visited \cup Range(stack) \cup Range(deps)
    BY <1>2, <2>3, <2>4, <2>5
  <2>8. Current \in Reachable(scenario.domain)
    BY <1>2 DEF PackInv
  <2>9. Range(deps) \subseteq Reachable(scenario.domain)
    BY <2>1, <2>2, <2>8, ReachableIsLeast DEF ScenarioInv, ScenarioOK
  <2> HIDE DEF deps
  <2>10. Visited' \cup Range(stack') \subseteq Reachable(scenario.domain)
    BY <2>7, <2>9 DEF PackInv
  <2>11. \A p \in Visited' :
           /\ disk[p] # None
           /\ Range(disk[p].deps) \subseteq Visited' \cup Range(stack')
    BY <2>1, <2>5, <2>7 DEF PackInv, deps
  <2>12. scenario.domain \in Visited' \cup Range(stack')
    BY <2>7 DEF PackInv
  <2> QED
    BY <1>1, <1>3, <2>4, <2>5, <2>6, <2>10, <2>11, <2>12 DEF PackInv
<1> QED BY <1>4, <1>5

LEMMA KeepPackInv ==
  ASSUME PackInv, UNCHANGED packVars, scenario'.domain = scenario.domain,
         phase' \notin {"packs", "failed"} => stack = <<>>,
         phase' = "failed" /\ stack # <<>> => PackMissing
  PROVE  PackInv'
<1>1. stack' = stack /\ loaded' = loaded /\ disk' = disk
  BY DEF packVars
<1>2. Visited' = Visited /\ \A p : Reachable(p)' = Reachable(p)
  BY <1>1 DEF Visited, Reachable
<1>3. PackMissing' = PackMissing
  BY <1>1, <1>2 DEF PackMissing, Current
<1> QED BY <1>1, <1>2, <1>3 DEF PackInv

(* The effective noise and jitter are as well-formed as those that the     *)
(* scenario, its realism block and the profiles declare.                   *)
LEMMA ProfileOK ==
  ASSUME ScenarioInv, PackInv, NEW ref, ref.pack \in PackIds \cup {None},
         Profile(ref, scenario.domain) # None
  PROVE  /\ NoiseOK(Profile(ref, scenario.domain).noise)
         /\ JitterOK(Profile(ref, scenario.domain).jitter)
<1> DEFINE domain  == scenario.domain
           pack    == IF ref.pack = None THEN domain ELSE ref.pack
           Has(p)  == ref.id \in DOMAIN disk[p].profiles
           holders == Only(loaded, {p \in Visited : Has(p)})
<1>1. pack \in PackIds
  BY DEF ScenarioInv, ScenarioOK
<1>2. ASSUME NEW p \in PackIds, disk[p] # None, Has(p)
      PROVE  /\ NoiseOK(disk[p].profiles[ref.id].noise)
             /\ JitterOK(disk[p].profiles[ref.id].jitter)
  BY <1>2, InputAssumption DEF ScenarioInv, PackOK
<1>3. ASSUME holders # <<>>
      PROVE  /\ Head(holders) \in PackIds /\ disk[Head(holders)] # None
             /\ Has(Head(holders))
  <2>1. holders \in Seq(PackIds \cap {p \in Visited : Has(p)})
    BY OnlyKeeps DEF PackInv
  <2> HIDE DEF holders
  <2>2. Head(holders) \in PackIds \cap {p \in Visited : Has(p)}
    BY <1>3, <2>1, HeadTailProperties
  <2> QED BY <2>2 DEF PackInv
<1>4. Profile(ref, domain) =
        IF disk[pack] = None THEN None
        ELSE IF Has(pack) THEN disk[pack].profiles[ref.id]
        ELSE IF pack = domain /\ holders # <<>>
             THEN disk[Head(holders)].profiles[ref.id]
        ELSE None
  BY DEF Profile
<1> HIDE DEF pack, holders, Has
<1>5. CASE disk[pack] # None /\ Has(pack)
  BY <1>1, <1>2, <1>4, <1>5
<1>6. CASE disk[pack] # None /\ ~Has(pack) /\ holders # <<>>
  BY <1>2, <1>3, <1>4, <1>6
<1>7. CASE disk[pack] = None \/ (~Has(pack) /\ holders = <<>>)
  BY <1>4, <1>7
<1> QED BY <1>5, <1>6, <1>7

LEMMA ResolvePackInv ==
  ASSUME ScenarioInv, PackInv, ResolveRealism
  PROVE  ScenarioInv' /\ PackInv' /\ scenario'.timeline = scenario.timeline
<1> DEFINE r == scenario.realism
           p == Profile(r.profile, scenario.domain)
           resolved1 == [scenario EXCEPT
                           !.noise  = First(scenario.noise, r.noise, p.noise),
                           !.jitter = First(scenario.jitter, r.jitter, p.jitter)]
<1>1. /\ stack = <<>> /\ UNCHANGED packVars
      /\ phase' \in {"entities", "failed"}
      /\ \/ scenario' = scenario
         \/ r # None /\ r.profile # None /\ p # None /\ scenario' = resolved1
  BY DEF ResolveRealism, Goto, KeepPacks
<1>2. /\ ScenarioInv' /\ scenario'.domain = scenario.domain
      /\ scenario'.timeline = scenario.timeline
  <2>1. CASE scenario' = scenario
    BY <1>1, <2>1 DEF ScenarioInv, packVars
  <2>2. CASE r # None /\ r.profile # None /\ p # None /\ scenario' = resolved1
    <3>1. NoiseOK(p.noise) /\ JitterOK(p.jitter)
      BY <2>2, ProfileOK DEF ScenarioInv, ScenarioOK
    <3>2. /\ NoiseOK(scenario.noise) /\ JitterOK(scenario.jitter)
          /\ NoiseOK(r.noise) /\ JitterOK(r.jitter)
      BY <2>2 DEF ScenarioInv, ScenarioOK
    <3> DEFINE noise  == First(scenario.noise, r.noise, p.noise)
               jitter == First(scenario.jitter, r.jitter, p.jitter)
    <3>3. NoiseOK(noise) /\ JitterOK(jitter)
      BY <3>1, <3>2 DEF First
    <3>4. scenario' = [scenario EXCEPT !.noise = noise, !.jitter = jitter]
      BY <2>2
    <3>5. {"noise", "jitter"} \subseteq DOMAIN scenario
      BY DEF ScenarioInv, ScenarioOK
    <3> HIDE DEF noise, jitter, r, p
    <3>6. /\ scenario'.noise = noise /\ scenario'.jitter = jitter
          /\ DOMAIN scenario' = DOMAIN scenario
      BY ONLY <3>4, <3>5
    <3>7. /\ scenario'.domain = scenario.domain
          /\ scenario'.timeline = scenario.timeline
          /\ scenario'.entities = scenario.entities
          /\ scenario'.duration = scenario.duration
          /\ scenario'.realism = scenario.realism
      BY ONLY <3>4, <3>5
    <3>8. ScenarioOK(scenario')
      BY <3>3, <3>6, <3>7 DEF ScenarioInv, ScenarioOK
    <3> QED BY <1>1, <3>7, <3>8 DEF ScenarioInv, packVars
  <2> QED BY <1>1, <2>1, <2>2
<1>3. PackInv'
  BY <1>1, <1>2, KeepPackInv
<1> QED BY <1>2, <1>3

(* The scenario and the packs stay what they are after the packs are       *)
(* loaded.                                                                 *)
LEMMA PacksStay ==
  ASSUME [Next]_vars
  PROVE  \/ LoadPacks
         \/ ResolveRealism
         \/ /\ UNCHANGED packVars /\ scenario' = scenario
            /\ \/ phase = "packs" /\ PackMissing /\ phase' = "failed"
               \/ phase \notin {"packs", "failed"} /\ phase' # "packs"
               \/ phase' = phase
<1> USE DEF Goto, KeepPacks
<1>1. CASE LoadFails
  BY <1>1 DEF LoadFails, timelineVars
<1>2. CASE Entities
  BY <1>2 DEF Entities, GenerateEntities
<1>3. CASE Expand
  BY <1>3 DEF Expand, ExpandStep, SkipStep, BeginStep, ResolveRef, RefFlow,
     RefEntity, RefNew, RefPrevious, RefPlain, Known, Unresolved, Refer,
     EmitEvent, NextFlow
<1>4. CASE Expanded
  BY <1>4 DEF Expanded, StartNoise
<1>5. CASE Noise
  BY <1>5 DEF Noise, AddNoise
<1>6. CASE NoiseAdded
  BY <1>6 DEF NoiseAdded, StartJitter
<1>7. CASE Jitter
  BY <1>7 DEF Jitter, JitterEvent
<1>8. CASE FinalSort
  BY <1>8 DEF FinalSort, OnlyEventsChange
<1>9. CASE AttachRefs
  BY <1>9 DEF AttachRefs, OnlyEventsChange
<1>10. CASE Check
  BY <1>10 DEF Check
<1>11. CASE CheckRaises
  BY <1>11 DEF CheckRaises, timelineVars
<1>12. CASE ExpandFails
  BY <1>12 DEF ExpandFails, timelineVars
<1>13. CASE UNCHANGED vars
  BY <1>13 DEF vars, timelineVars
<1> QED
  BY <1>1, <1>2, <1>3, <1>4, <1>5, <1>6, <1>7, <1>8, <1>9, <1>10, <1>11,
     <1>12, <1>13 DEF Next, Planner, Rest

LEMMA NextPackInv ==
  ASSUME ScenarioInv, PackInv, [Next]_vars
  PROVE  ScenarioInv' /\ PackInv'
<1>1. CASE LoadPacks
  <2>1. ScenarioInv'
    BY <1>1 DEF ScenarioInv, LoadPacks, SkipVisited, LoadPack, timelineVars
  <2> QED BY <1>1, <2>1, LoadPackInv
<1>2. CASE ResolveRealism
  BY <1>2, ResolvePackInv
<1>3. CASE /\ UNCHANGED packVars /\ scenario' = scenario
           /\ \/ phase = "packs" /\ PackMissing /\ phase' = "failed"
              \/ phase \notin {"packs", "failed"} /\ phase' # "packs"
              \/ phase' = phase
  <2>1. ScenarioInv'
    BY <1>3 DEF ScenarioInv, packVars
  <2>2. /\ phase' \notin {"packs", "failed"} => stack = <<>>
        /\ phase' = "failed" /\ stack # <<>> => PackMissing
    BY <1>3 DEF PackInv
  <2>3. scenario'.domain = scenario.domain
    BY <1>3
  <2> QED BY <1>3, <2>1, <2>2, <2>3, KeepPackInv
<1> QED BY <1>1, <1>2, <1>3, PacksStay

(* The invariant of loading: what is loaded or waits to be loaded is       *)
(* exactly what has been found, and nothing is loaded twice.               *)
THEOREM PackInvariant == Spec => [](ScenarioInv /\ PackInv)
<1>1. CompileInit => ScenarioInv /\ PackInv
  BY InitPackInv
<1>2. (ScenarioInv /\ PackInv) /\ [Next]_vars => (ScenarioInv /\ PackInv)'
  BY NextPackInv
<1> QED BY <1>1, <1>2, PTL DEF Spec

(* A list that repeats nothing is as long as what it lists.                *)
LEMMA DistinctLength ==
  ASSUME NEW A, NEW list \in Seq(A),
         \A i, j \in 1..Len(list) : list[i] = list[j] => i = j
  PROVE  IsFiniteSet(Range(list)) /\ Len(list) = Cardinality(Range(list))
<1>1. Len(list) \in Nat /\ DOMAIN list = 1..Len(list)
      /\ list = [i \in 1..Len(list) |-> list[i]]
  BY LenProperties
<1>2. IsFiniteSet(1..Len(list)) /\ Cardinality(1..Len(list)) = Len(list)
  <2>1. \A n \in Nat : IsFiniteSet(1..n) /\ Cardinality(1..n) = n
    BY ONLY FS_Interval
  <2> QED BY <1>1, <2>1
<1>3. list \in [1..Len(list) -> Range(list)]
  BY <1>1 DEF Range
<1>4. list \in Bijection(1..Len(list), Range(list))
  BY <1>1, <1>3 DEF Bijection, Injection, Surjection, IsInjective, Range
<1> DEFINE n == Len(list) positions == 1..n elements == Range(list)
<1>5. ExistsBijection(positions, elements)
  BY <1>4 DEF ExistsBijection
<1>6. IsFiniteSet(positions) /\ Cardinality(positions) = n
  BY <1>2
<1> HIDE DEF n, positions, elements
<1>7. IsFiniteSet(elements) /\ n = Cardinality(elements)
  BY <1>5, <1>6, FS_Bijection
<1> QED BY <1>7 DEF n, elements

LEMMA LoadedIsReachable ==
  ASSUME ScenarioInv, PackInv
  PROVE  PacksClosure
<1>1. scenario.domain \in PackIds /\ Visited \subseteq PackIds
  BY RangeOfSeq DEF ScenarioInv, ScenarioOK, PackInv, Visited
<1>2. ASSUME phase \notin {"packs", "failed"}
      PROVE  Visited = Reachable(scenario.domain)
  <2>1. Range(stack) = {}
    BY <1>2 DEF PackInv, Range
  <2>2. Reachable(scenario.domain) \subseteq Visited
    BY <1>1, <2>1, ReachableIsLeast DEF PackInv
  <2> QED BY <2>1, <2>2 DEF PackInv
<1>3. Len(loaded) = Cardinality(Range(loaded))
  BY DistinctLength DEF PackInv
<1>4. ASSUME phase = "failed", stack # <<>>
      PROVE  Current \in Reachable(scenario.domain) /\ disk[Current] = None
  <2>1. Current \in Range(stack)
    <3>1. stack \in Seq(PackIds)
      BY DEF PackInv
    <3> QED BY ONLY ZenonT(30), <1>4, <3>1, FrontLast DEF Current
  <2>2. PackMissing
    BY <1>4 DEF PackInv
  <2> QED BY <2>1, <2>2 DEF PackInv, PackMissing
<1>5. ASSUME NEW q \in Reachable(scenario.domain), disk[q] = None
      PROVE  PackErrors(scenario.domain) # {}
  <2>1. CASE disk[scenario.domain] = None
    BY <2>1 DEF PackErrors
  <2>2. CASE disk[scenario.domain] # None
    <3>1. "dependency schemas" \in PackErrors(scenario.domain)
      BY <1>5, <2>2 DEF PackErrors
    <3> QED BY <3>1
  <2> QED BY <2>1, <2>2
<1> QED BY <1>2, <1>3, <1>4, <1>5 DEF PacksClosure, Visited

(* Whatever cycles depends_on has, load_with_dependencies loads each pack  *)
(* that the domain reaches exactly once, and fails only over a missing one *)
(* that validate_pack reports.                                             *)
THEOREM PacksClosureHolds == Spec => []PacksClosure
<1>1. ScenarioInv /\ PackInv => PacksClosure
  BY LoadedIsReachable
<1> QED BY <1>1, PackInvariant, PTL
-----------------------------------------------------------------------------
(* What an event is.                                                       *)
EventOK(e) ==
    /\ DOMAIN e = {"id", "flow", "key", "type", "time", "refs", "amount", "sem"}
    /\ e.id = <<e.id[1], e.id[2], e.id[3]>>
    /\ e.id[1] \in {0, 1} /\ e.id[2] \in Nat /\ e.id[3] \in Nat
    /\ e.time \in Int
    /\ e.amount \in Int \cup {None, Text}

(* The events are a list in which no id is used twice: while the timeline  *)
(* is expanded ids grow with flow and step, and those of the noise with    *)
(* its number.                                                             *)
EventsOK(list) ==
    /\ list \in Seq(Range(list))
    /\ \A i \in 1..Len(list) : EventOK(list[i])
    /\ \A i, j \in 1..Len(list) : list[i].id = list[j].id => i = j
EventsInv == EventsOK(events)
IdsInv ==
    /\ phase \in {"packs", "entities"} => events = <<>>
    /\ phase = "expand" =>
          \A i \in 1..Len(events) :
             /\ events[i].id[1] = 0
             /\ \/ events[i].id[2] < flow
                \/ events[i].id[2] = flow /\ events[i].id[3] < step
    /\ phase = "noise" =>
          \A i \in 1..Len(events) :
             events[i].id[1] = 1 => events[i].id[2] < NoiseNumber

(* How far the planner is, and what it works on.                           *)
ProgressInv ==
    /\ phase \in {"packs", "entities", "expand", "noise", "jitter", "attach",
                  "check", "done", "failed"}
    /\ made \in [Types -> Nat]
    /\ entities \in Seq(Range(entities))
    /\ \A x \in Range(entities) : x.type \in Types
    /\ flow \in 1..(MaxFlows + 1)
    /\ step \in 1..(Len(scenario.timeline) + 1)
    /\ now \in Int
    /\ draft # None => /\ phase = "expand" /\ Expanding
                       /\ step <= Len(scenario.timeline)
                       /\ resolved \in 0..Len(Item.refs)
    /\ noiseLeft \in Nat
    /\ noiseLeft > 0 => /\ scenario.noise # None
                        /\ \E i \in 1..Len(events) : events[i].id[1] = 0
    /\ jittered \in 0..Len(events)
    /\ phase = "jitter" /\ ~JitterOn => jittered = Len(events)

(* From the final sort on the list is in the order of the plan.            *)
InOrder(list) == \A i, j \in 1..Len(list) : i < j => Earlier(list[i], list[j])
SortedInv == Sorted => InOrder(events)

(* With --strict nothing that a rule finds is lost on the way to errors.   *)
StrictInv == Succeeds /\ options.strict => RuleWarnings(AllRules, events) = {}

PlanInv == EventsInv /\ IdsInv /\ ProgressInv /\ SortedInv /\ StrictInv
-----------------------------------------------------------------------------
LEMMA AppendOwn ==
  ASSUME NEW list, list \in Seq(Range(list)), NEW x
  PROVE  /\ Append(list, x) \in Seq(Range(list) \cup {x})
         /\ Len(Append(list, x)) = Len(list) + 1
         /\ \A i \in 1..Len(list) : Append(list, x)[i] = list[i]
         /\ Append(list, x)[Len(list) + 1] = x
         /\ Range(Append(list, x)) = Range(list) \cup {x}
<1>1. PICK A : A = Range(list)
  OBVIOUS
<1>2. list \in Seq(A)
  BY <1>1
<1>3. /\ Append(list, x) \in Seq(A \cup {x})
      /\ Len(Append(list, x)) = Len(list) + 1
      /\ \A i \in 1..Len(list) : Append(list, x)[i] = list[i]
      /\ Append(list, x)[Len(list) + 1] = x
      /\ Range(Append(list, x)) = Range(list) \cup {x}
  BY ONLY <1>2, AppendList
<1> QED BY <1>1, <1>3

LEMMA EventsAppend ==
  ASSUME events \in Seq(Range(events)), NEW e, events' = Append(events, e)
  PROVE  /\ events' \in Seq(Range(events) \cup {e})
         /\ Len(events') = Len(events) + 1
         /\ \A i \in 1..Len(events) : events'[i] = events[i]
         /\ events'[Len(events) + 1] = e
         /\ Range(events') = Range(events) \cup {e}
<1> DEFINE more == Append(events, e)
<1>1. /\ more \in Seq(Range(events) \cup {e})
      /\ Len(more) = Len(events) + 1
      /\ \A i \in 1..Len(events) : more[i] = events[i]
      /\ more[Len(events) + 1] = e
      /\ Range(more) = Range(events) \cup {e}
  BY AppendOwn
<1> HIDE DEF more
<1>2. events' = more
  BY DEF more
<1> QED BY <1>1, <1>2

(* The greatest member of a set of positions, and of two numbers.          *)
LEMMA MaxPosition ==
  ASSUME NEW n \in Nat, NEW P, P \subseteq 1..n, P # {}
  PROVE  Max(P) \in P /\ \A i \in P : i <= Max(P)
<1> DEFINE rest == {n - i : i \in P}
<1>1. rest \subseteq Nat /\ rest # {}
  <2>1. \A i \in P : i \in Nat /\ i <= n
    OBVIOUS
  <2>2. PICK p \in P : TRUE
    OBVIOUS
  <2>3. n - p \in rest
    OBVIOUS
  <2>4. \A k \in rest : k \in Nat
    BY <2>1
  <2> QED BY <2>3, <2>4
<1>2. PICK m \in rest : \A k \in rest : m <= k
  <2> HIDE DEF rest
  <2> QED BY <1>1, LeastNat
<1>3. n - m \in P /\ \A i \in P : n - m >= i
  <2>1. PICK p \in P : m = n - p
    OBVIOUS
  <2>2. ASSUME NEW i \in P PROVE p >= i
    <3>1. n - i \in rest /\ i \in Nat /\ p \in Nat
      OBVIOUS
    <3>2. m <= n - i
      BY <1>2, <3>1
    <3> QED BY <2>1, <3>1, <3>2
  <2>3. n - m = p
    BY <2>1
  <2> QED BY <2>2, <2>3
<1>4. \E x \in P : \A y \in P : x >= y
  BY <1>3
<1>5. Max(P) \in P /\ \A y \in P : Max(P) >= y
  BY ONLY <1>4 DEF Max
<1> QED BY <1>5

LEMMA MaxOfTwo ==
  ASSUME NEW a \in Int, NEW b \in Int
  PROVE  Max({a, b}) \in {a, b} /\ a <= Max({a, b}) /\ b <= Max({a, b})
<1>1. \E x \in {a, b} : \A y \in {a, b} : x >= y
  OBVIOUS
<1>2. Max({a, b}) \in {a, b} /\ \A y \in {a, b} : Max({a, b}) >= y
  BY ONLY <1>1 DEF Max
<1> QED BY <1>2

(* Among the positions of a list there is one with the least number.       *)
LEMMA LeastOfList ==
  ASSUME NEW n \in Nat, NEW S, S \subseteq 1..n, S # {},
         NEW f, \A i \in S : f[i] \in Int
  PROVE  \E m \in S : \A k \in S : f[m] <= f[k]
<1> DEFINE first(j) == {i \in S : i <= j}
           least == {j \in 0..n : first(j) # {} =>
                        \E m \in first(j) : \A k \in first(j) : f[m] <= f[k]}
<1>0. \A i \in S : i \in 1..n
  OBVIOUS
<1>1. 0 \in least
  <2>1. \A i \in S : 1 <= i /\ ~(i <= 0)
    BY <1>0
  <2>2. \A i \in S : i \notin first(0)
    BY <2>1
  <2>3. first(0) = {}
    BY <2>2
  <2> HIDE DEF first
  <2> QED BY <2>3
<1>2. ASSUME NEW j \in 1..n, j - 1 \in least
      PROVE  j \in least
  <2>1. j \in 0..n /\ first(j) = first(j - 1) \cup ({j} \cap S)
    <3>1. ASSUME NEW i \in S
          PROVE  i <= j <=> (i <= j - 1 \/ i = j)
      BY <1>0
    <3>2. j \in 0..n
      OBVIOUS
    <3>3. \A i : i \in first(j) <=> i \in first(j - 1) \/ (i \in S /\ i = j)
      BY <3>1
    <3> HIDE DEF first, least
    <3>4. first(j) = first(j - 1) \cup ({j} \cap S)
      BY ONLY <3>3
    <3> QED BY <3>2, <3>4
  <2>2. first(j - 1) # {} => \E m \in first(j - 1) :
                                \A k \in first(j - 1) : f[m] <= f[k]
    BY <1>2
  <2>3. \A i \in first(j) : f[i] \in Int
    OBVIOUS
  <2> HIDE DEF first
  <2>4. CASE j \notin S
    BY <2>1, <2>2, <2>4
  <2>5. CASE j \in S /\ first(j - 1) = {}
    BY <2>1, <2>3, <2>5
  <2>6. CASE j \in S /\ first(j - 1) # {}
    <3>1. PICK m \in first(j - 1) : \A k \in first(j - 1) : f[m] <= f[k]
      BY <2>2, <2>6
    <3>2. CASE f[m] <= f[j]
      BY <2>1, <2>3, <3>1, <3>2
    <3>3. CASE f[j] < f[m]
      BY <2>1, <2>3, <2>6, <3>1, <3>3
    <3> QED BY <2>1, <2>3, <2>6, <3>2, <3>3
  <2> QED BY <2>4, <2>5, <2>6
<1>3. n \in least
  <2> HIDE DEF least
  <2>1. \A i \in 1..n : i - 1 \in least => i \in least
    BY <1>2
  <2>2. \A i \in 0..n : i \in least
    BY <1>1, <2>1, Positions
  <2> QED BY <2>2
<1>4. first(n) = S
  <2>1. \A i \in S : i <= n
    BY <1>0
  <2>2. \A i : i \in first(n) <=> i \in S
    BY <2>1
  <2> QED BY ONLY <2>2
<1> QED BY <1>3, <1>4

LEMMA LeastTime ==
  ASSUME NEW n \in Nat, NEW S, S \subseteq 1..n, S # {},
         NEW list, \A i \in S : list[i].time \in Int
  PROVE  LET T == {list[i].time : i \in S}
         IN  Min(T) \in T /\ \A t \in T : Min(T) <= t
<1> DEFINE T == {list[i].time : i \in S}
           f == [i \in S |-> list[i].time]
<1>1. \A i \in S : f[i] \in Int
  OBVIOUS
<1>2. \E m \in S : \A k \in S : f[m] <= f[k]
  <2> HIDE DEF f
  <2> QED BY <1>1, LeastOfList
<1>3. \E x \in T : \A y \in T : x <= y
  BY <1>2
<1> HIDE DEF T
<1>4. Min(T) \in T /\ \A y \in T : Min(T) <= y
  BY ONLY <1>3 DEF Min
<1> QED BY <1>4 DEF T

(* event_time and event_id order the events of a plan strictly.            *)
LEMMA EarlierOrders ==
  ASSUME NEW list, EventsOK(list)
  PROVE  StrictOrder({p \in Range(list) \X Range(list) : Earlier(p[1], p[2])},
                     Range(list))
<1> DEFINE S == Range(list)
           R == {p \in S \X S : Earlier(p[1], p[2])}
<1>1. DOMAIN list = 1..Len(list)
  BY LenProperties DEF EventsOK
<1>2. \A x \in S : EventOK(x)
  BY <1>1 DEF EventsOK, Range
<1>3. \A x, y \in S : x.id = y.id => x = y
  BY <1>1 DEF EventsOK, Range
<1>4. \A x, y \in S : <<x, y>> \in R <=> Earlier(x, y)
  OBVIOUS
<1> HIDE DEF S, R
<1>5. \A x \in S : ~Earlier(x, x)
  BY <1>2 DEF Earlier, IdBefore, EventOK
<1>6. \A x, y, z \in S : Earlier(x, y) /\ Earlier(y, z) => Earlier(x, z)
  BY <1>2 DEF Earlier, IdBefore, EventOK
<1>7. \A x, y \in S : x # y => Earlier(x, y) \/ Earlier(y, x)
  <2> SUFFICES ASSUME NEW x \in S, NEW y \in S, x # y
               PROVE  Earlier(x, y) \/ Earlier(y, x)
    OBVIOUS
  <2>1. x.id # y.id /\ EventOK(x) /\ EventOK(y)
    BY <1>2, <1>3
  <2>2. x.id[1] # y.id[1] \/ x.id[2] # y.id[2] \/ x.id[3] # y.id[3]
    BY <2>1 DEF EventOK
  <2> QED BY <2>1, <2>2 DEF Earlier, IdBefore, EventOK
<1>8. StrictOrder(R, S)
  BY <1>4, <1>5, <1>6, <1>7 DEF StrictOrder
<1> QED BY <1>8 DEF R, S

(* To sort a plan is to put the same events into another order.            *)
LEMMA RankedEvents ==
  ASSUME NEW list, EventsOK(list), NEW R, StrictOrder(R, Range(list))
  PROVE  LET more == Ranked(Range(list), R)
         IN  /\ EventsOK(more)
             /\ Range(more) = Range(list) /\ Len(more) = Len(list)
             /\ \A i, j \in 1..Len(more) : i < j => <<more[i], more[j]>> \in R
<1> DEFINE S == Range(list)
           more == Ranked(S, R)
<1>1. DOMAIN list = 1..Len(list) /\ list \in Seq(S)
  BY LenProperties DEF EventsOK
<1>2. IsFiniteSet(S) /\ Len(list) = Cardinality(S)
  <2>1. \A i, j \in 1..Len(list) : list[i] = list[j] => i = j
    BY DEF EventsOK
  <2> QED BY <1>1, <2>1, DistinctLength
<1>3. \A x \in S : EventOK(x)
  BY <1>1 DEF EventsOK, Range
<1>4. \A x, y \in S : x.id = y.id => x = y
  BY <1>1 DEF EventsOK, Range
<1>5. StrictOrder(R, S)
  OBVIOUS
<1> HIDE DEF S
<1>6. /\ more \in Seq(S) /\ Len(more) = Cardinality(S) /\ Range(more) = S
      /\ \A i, j \in 1..Len(more) : i < j => <<more[i], more[j]>> \in R
  BY <1>2, <1>5, RankedSorts
<1> HIDE DEF more
<1>7. /\ \A i \in 1..Len(more) : more[i] \in S
      /\ Len(more) \in Nat
  BY <1>6, ElementOfSeq, LenProperties
<1>8. \A i, j \in 1..Len(more) : i < j => more[i] # more[j]
  BY <1>5, <1>6, <1>7 DEF StrictOrder
<1>9. ASSUME NEW i \in 1..Len(more), NEW j \in 1..Len(more),
             more[i].id = more[j].id
      PROVE  i = j
  <2>1. more[i] = more[j]
    BY <1>4, <1>7, <1>9
  <2> QED BY <1>7, <1>8, <2>1
<1>10. EventsOK(more)
  BY <1>3, <1>6, <1>7, <1>9 DEF EventsOK
<1> QED BY <1>2, <1>6, <1>10 DEF more, S

LEMMA InPlanOrderEvents ==
  ASSUME NEW list, EventsOK(list)
  PROVE  /\ EventsOK(InPlanOrder(Range(list)))
         /\ Range(InPlanOrder(Range(list))) = Range(list)
         /\ Len(InPlanOrder(Range(list))) = Len(list)
         /\ InOrder(InPlanOrder(Range(list)))
<1> DEFINE R == {p \in Range(list) \X Range(list) : Earlier(p[1], p[2])}
           more == Ranked(Range(list), R)
<1>1. StrictOrder(R, Range(list))
  BY EarlierOrders
<1>2. \A x, y : <<x, y>> \in R => Earlier(x, y)
  OBVIOUS
<1>3. more = InPlanOrder(Range(list))
  BY DEF InPlanOrder
<1> HIDE DEF R
<1>4. /\ EventsOK(more) /\ Range(more) = Range(list) /\ Len(more) = Len(list)
      /\ \A i, j \in 1..Len(more) : i < j => <<more[i], more[j]>> \in R
  BY <1>1, RankedEvents
<1> QED BY <1>2, <1>3, <1>4 DEF InOrder

LEMMA MinPosition ==
  ASSUME NEW P, P \subseteq Nat, P # {}
  PROVE  Min(P) \in P /\ \A i \in P : Min(P) <= i
<1>1. \E x \in P : \A y \in P : x <= y
  BY LeastNat
<1> QED BY ONLY <1>1 DEF Min

(* Grouping by flow sorts the events of each flow and leaves no event of   *)
(* another flow between them.                                              *)
LEMMA GroupedEvents ==
  ASSUME EventsInv
  PROVE  /\ EventsOK(Grouped)
         /\ Range(Grouped) = Range(events) /\ Len(Grouped) = Len(events)
         /\ \A i, j \in 1..Len(Grouped) :
               i < j /\ Grouped[i].flow = Grouped[j].flow =>
                  /\ Earlier(Grouped[i], Grouped[j])
                  /\ \A k \in i..j : Grouped[k].flow = Grouped[i].flow
<1> DEFINE all == Range(events)
           Of(e) == {i \in DOMAIN events : events[i].flow = e.flow}
           F(e) == Min(Of(e))
           R == {p \in all \X all :
                   \/ F(p[1]) < F(p[2])
                   \/ F(p[1]) = F(p[2]) /\ Earlier(p[1], p[2])}
           Q == {p \in all \X all : Earlier(p[1], p[2])}
           more == Ranked(all, R)
<1>1. EventsOK(events) /\ DOMAIN events = 1..Len(events) /\ Len(events) \in Nat
  BY LenProperties DEF EventsInv, EventsOK
<1>2. ASSUME NEW e \in all
      PROVE  F(e) \in Of(e) /\ F(e) \in Nat /\ events[F(e)].flow = e.flow
  <2>1. Of(e) \subseteq Nat /\ Of(e) # {}
    BY <1>1 DEF Range
  <2> HIDE DEF Of
  <2>2. F(e) \in Of(e)
    BY <2>1, MinPosition
  <2> HIDE DEF F
  <2>3. F(e) \in Nat
    BY <2>1, <2>2
  <2>4. events[F(e)].flow = e.flow
    BY <2>2 DEF Of
  <2> QED BY <2>2, <2>3, <2>4
<1>3. \A d, e \in all : F(d) = F(e) => d.flow = e.flow
  BY <1>2
<1>4. \A d, e \in all : d.flow = e.flow => F(d) = F(e)
  OBVIOUS
<1>5. StrictOrder(Q, all)
  BY <1>1, EarlierOrders
<1>6. \A x, y \in all : <<x, y>> \in Q <=> Earlier(x, y)
  OBVIOUS
<1>7. \A x, y \in all : <<x, y>> \in R <=>
         F(x) < F(y) \/ (F(x) = F(y) /\ <<x, y>> \in Q)
  OBVIOUS
<1>8. \A x \in all : F(x) \in Nat
  BY <1>2
<1>9. more = Grouped
  BY DEF Grouped
<1> HIDE DEF all, F, R, Q, Of
<1>10. StrictOrder(R, all)
  BY <1>5, <1>7, <1>8 DEF StrictOrder
<1>11. /\ EventsOK(more) /\ Range(more) = all /\ Len(more) = Len(events)
       /\ \A i, j \in 1..Len(more) : i < j => <<more[i], more[j]>> \in R
  BY <1>1, <1>10, RankedEvents DEF all
<1> HIDE DEF more
<1>12. Len(more) \in Nat /\ \A i \in 1..Len(more) : more[i] \in all
  BY <1>11, ElementOfSeq, LenProperties DEF EventsOK
<1>13. ASSUME NEW i \in 1..Len(more), NEW j \in 1..Len(more), i < j,
              more[i].flow = more[j].flow
       PROVE  /\ Earlier(more[i], more[j])
              /\ \A k \in i..j : more[k].flow = more[i].flow
  <2>1. F(more[i]) = F(more[j])
    BY <1>4, <1>12, <1>13
  <2>2. Earlier(more[i], more[j])
    <3>1. <<more[i], more[j]>> \in R /\ more[i] \in all /\ more[j] \in all
      BY <1>11, <1>12, <1>13
    <3>2. ~(F(more[i]) < F(more[j]))
      BY <1>8, <2>1, <3>1
    <3> QED BY <1>6, <1>7, <3>1, <3>2
  <2>3. ASSUME NEW k \in i..j, k # i, k # j
        PROVE  more[k].flow = more[i].flow
    <3>1. k \in 1..Len(more) /\ i < k /\ k < j
      BY <1>12, <2>3
    <3>2. F(more[i]) <= F(more[k]) /\ F(more[k]) <= F(more[j])
      <4>1. /\ <<more[i], more[k]>> \in R /\ <<more[k], more[j]>> \in R
            /\ more[i] \in all /\ more[j] \in all /\ more[k] \in all
        BY <1>11, <1>12, <3>1
      <4>2. \A x, y \in all : <<x, y>> \in R => F(x) <= F(y)
        BY <1>7, <1>8
      <4> QED BY <4>1, <4>2
    <3>3. F(more[k]) = F(more[i])
      BY <1>8, <1>12, <1>13, <2>1, <3>1, <3>2
    <3> QED BY <1>3, <1>12, <3>1, <3>3
  <2> QED BY <1>13, <2>2, <2>3
<1>14. Range(more) = Range(events)
  BY <1>11 DEF all
<1> QED BY <1>9, <1>11, <1>13, <1>14
-----------------------------------------------------------------------------
LEMMA ItemAt ==
  ASSUME ScenarioInv, NEW i \in 1..Len(scenario.timeline)
  PROVE  /\ ItemOK(scenario.timeline[i])
         /\ scenario.timeline[i] \in Range(scenario.timeline)
<1>1. /\ scenario.timeline \in Seq(Range(scenario.timeline))
      /\ \A item \in Range(scenario.timeline) : ItemOK(item)
  BY DEF ScenarioInv, ScenarioOK
<1> QED BY <1>1, ElementOfSeq

(* The entities of a type are a list of some of the entities; a list that  *)
(* grows at its end keeps them where they were.                            *)
LEMMA TypeList ==
  ASSUME entities \in Seq(Range(entities)), NEW type
  PROVE  /\ OfType(type) \in Seq(Range(OfType(type)))
         /\ Len(OfType(type)) \in Nat
         /\ Range(OfType(type)) = {x \in Range(entities) : x.type = type}
         /\ \A i \in 1..Len(OfType(type)) : OfType(type)[i] \in Range(entities)
<1> DEFINE S == {x \in Range(entities) : x.type = type}
           list == OfType(type)
<1>1. list \in Seq(Range(entities) \cap S)
      /\ Range(list) = Range(entities) \cap S
  BY OnlyKeeps DEF OfType
<1>2. Range(entities) \cap S = S
  OBVIOUS
<1> HIDE DEF list
<1>3. list \in Seq(Range(list)) /\ Range(list) = S
  BY <1>1, <1>2
<1>4. Len(list) \in Nat /\ \A i \in 1..Len(list) : list[i] \in S
  BY <1>3, LenProperties, ElementOfSeq
<1> QED BY <1>3, <1>4 DEF list

LEMMA PrimariesGrow ==
  ASSUME entities \in Seq(Range(entities)), NEW x,
         entities' = Append(entities, x), scenario' = scenario
  PROVE  /\ Len(Primaries) \in Nat /\ Len(Primaries') \in Nat
         /\ Len(Primaries) <= Len(Primaries')
         /\ \A i \in 1..Len(Primaries) : Primaries'[i] = Primaries[i]
<1> DEFINE type == PrimaryType
           S == {y \in Range(entities) : y.type = type}
           T == {y \in Range(entities') : y.type = type}
           old == Only(entities, S)
           new == Only(Append(entities, x), T)
<1>1. PrimaryType' = PrimaryType
  BY DEF PrimaryType
<1>2. old = Primaries /\ new = Primaries'
  BY <1>1 DEF Primaries, OfType
<1>3. Range(entities') = Range(entities) \cup {x}
  <2>1. entities' = Append(entities, x) /\ entities \in Seq(Range(entities))
    OBVIOUS
  <2>2. Range(Append(entities, x)) = Range(entities) \cup {x}
    BY <2>1, AppendOwn
  <2> QED BY <2>1, <2>2
<1>4. \A i \in 1..Len(entities) : entities[i] \in S <=> entities[i] \in T
  <2>1. \A i \in 1..Len(entities) : entities[i] \in Range(entities)
    BY ElementOfSeq
  <2> QED BY <1>3, <2>1
<1> HIDE DEF S, T
<1>5. new = IF x \in T THEN Append(old, x) ELSE old
  BY <1>4, OnlyAppend
<1>6. old \in Seq(Range(entities) \cap S)
  BY OnlyKeeps
<1> HIDE DEF old, new
<1>7. Len(old) \in Nat
  BY <1>6, LenProperties
<1>8. /\ Len(Append(old, x)) = Len(old) + 1
      /\ \A i \in 1..Len(old) : Append(old, x)[i] = old[i]
  <2> QED BY ONLY <1>6, AppendList
<1> QED BY <1>2, <1>5, <1>7, <1>8

(* The positions of the events of a flow, and the one that is remembered.  *)
LEMMA LatestOf ==
  ASSUME EventsInv, NEW P, P \subseteq OfFlow, P # {}
  PROVE  /\ Max(P) \in P /\ Max(P) \in 1..Len(events)
         /\ \A i \in P : i <= Max(P)
         /\ Latest(P) = events[Max(P)] /\ Latest(P).time \in Int
         /\ Latest(P) \in Range(events)
<1>1. Len(events) \in Nat /\ DOMAIN events = 1..Len(events)
  BY LenProperties DEF EventsInv, EventsOK
<1>2. P \subseteq 1..Len(events)
  BY <1>1 DEF OfFlow
<1>3. Max(P) \in P /\ \A i \in P : i <= Max(P)
  BY <1>1, <1>2, MaxPosition
<1> QED BY <1>1, <1>2, <1>3 DEF Latest, EventsInv, EventsOK, EventOK, Range

(* The time of a step is a time, and not before that of the last event if  *)
(* the step is jittered.                                                   *)
LEMMA StepTime ==
  ASSUME EventsInv, now \in Int, NEW item, ItemOK(item),
         Readable(item), NEW t \in Times(item), NEW u \in Jittered(item, t)
  PROVE  u \in Int
<1>1. BaseTime(item) \in Int
  <2>1. CASE ById(item.after) # {}
    <3>1. ById(item.after) \subseteq OfFlow
      BY DEF ById
    <3>2. Latest(ById(item.after)).time \in Int
      BY <2>1, <3>1, LatestOf
    <3> QED BY <2>1, <3>2 DEF BaseTime
  <2>2. CASE ById(item.after) = {} /\ ByType(item.after) # {}
    <3>1. ByType(item.after) \subseteq OfFlow
      BY DEF ByType
    <3>2. Latest(ByType(item.after)).time \in Int
      BY <2>2, <3>1, LatestOf
    <3> QED BY <2>2, <3>2 DEF BaseTime
  <2> QED BY <2>1, <2>2 DEF BaseTime
<1>2. t \in Int
  <2>1. CASE item.at # None
    BY <2>1 DEF Times, ItemOK, Readable
  <2>2. CASE item.at = None /\ item.after # None /\ item.delay # None
    <3>1. item.delay[1] \in Nat /\ item.delay[2] \in Nat
      BY <2>2 DEF ItemOK, Readable
    <3>2. t \in {BaseTime(item) + d :
                    d \in (item.delay[1]..item.delay[2])
                          \cup (item.delay[2]..item.delay[1])}
      BY <2>2 DEF Times, Between
    <3> QED BY <1>1, <3>1, <3>2
  <2>3. CASE item.at = None /\ (item.after = None \/ item.delay = None)
    BY <2>3 DEF Times
  <2> QED BY <2>1, <2>2, <2>3
<1>3. CASE item.jitter = None
  BY <1>2, <1>3 DEF Jittered
<1>4. CASE item.jitter # None
  <2> DEFINE Clamp(v) == IF OfFlow = {} THEN v
                         ELSE Max({v, Latest(OfFlow).time + 1})
  <2>1. PICK o \in (-item.jitter)..item.jitter : u = Clamp(t + o)
    BY <1>4 DEF Jittered
  <2>2. t + o \in Int
    BY <1>2, <1>4, <2>1 DEF ItemOK, Readable
  <2>3. CASE OfFlow # {}
    <3>1. Latest(OfFlow).time + 1 \in Int
      BY <2>3, LatestOf
    <3>2. Max({t + o, Latest(OfFlow).time + 1}) \in Int
      BY <2>2, <3>1, MaxOfTwo
    <3> QED BY <2>1, <2>3, <3>2
  <2> QED BY <2>1, <2>2, <2>3
<1> QED BY <1>3, <1>4
-----------------------------------------------------------------------------
(* Expanding the timeline keeps the invariant, action by action.           *)
LEMMA SkipPlanInv ==
  ASSUME ScenarioInv, PlanInv, phase = "expand", phase' = "expand", SkipStep
  PROVE  PlanInv'
<1> USE DEF SkipStep, AtItem, PlanInv
<1>1. EventsInv'
  BY DEF EventsInv
<1>2. flow \in Nat /\ step \in Nat /\ \A i \in 1..Len(events) : EventOK(events[i])
  BY DEF ProgressInv, EventsInv, EventsOK
<1>3. IdsInv'
  BY <1>2 DEF IdsInv, EventOK
<1>4. Len(scenario.timeline) \in Nat
  BY LenProperties DEF ScenarioInv, ScenarioOK
<1>5. ProgressInv'
  BY <1>4 DEF ProgressInv
<1> QED BY <1>1, <1>3, <1>5 DEF SortedInv, StrictInv, Sorted, Succeeds

LEMMA BeginPlanInv ==
  ASSUME ScenarioInv, PlanInv, phase = "expand", phase' = "expand", BeginStep
  PROVE  PlanInv'
<1> USE DEF BeginStep, AtItem, PlanInv
<1>1. EventsInv' /\ IdsInv'
  BY DEF EventsInv, IdsInv, NoiseNumber
<1>2. step \in 1..Len(scenario.timeline)
  BY DEF ProgressInv
<1>3. ItemOK(Item)
  BY <1>2, ItemAt DEF Item
<1>4. now' \in Int
  BY <1>3, StepTime DEF ProgressInv
<1>5. Expanding' = Expanding /\ Item' = Item /\ Len(Item.refs) \in Nat
  <2>1. Len(Item.refs) \in Nat
    BY <1>3, LenProperties DEF ItemOK
  <2> QED BY <2>1 DEF Expanding, Primaries, OfType, PrimaryType, Item
<1>6. ProgressInv'
  BY <1>2, <1>4, <1>5 DEF ProgressInv
<1> QED BY <1>1, <1>6 DEF SortedInv, StrictInv, Sorted, Succeeds

LEMMA ReferPlanInv ==
  ASSUME ScenarioInv, PlanInv, phase = "expand", phase' = "expand",
         AtRef, NEW v, Refer(v), made' \in [Types -> Nat],
         \/ entities' = entities
         \/ \E x : x.type \in Types /\ entities' = Append(entities, x)
  PROVE  PlanInv'
<1> USE DEF Refer, AtRef, PlanInv
<1>1. EventsInv' /\ IdsInv'
  BY DEF EventsInv, IdsInv, NoiseNumber
<1>2. /\ entities' \in Seq(Range(entities'))
      /\ \A x \in Range(entities') : x.type \in Types
      /\ Expanding' = TRUE
  <2>1. CASE entities' = entities
    BY <2>1 DEF ProgressInv, Expanding, Primaries, OfType, PrimaryType
  <2>2. CASE \E x : x.type \in Types /\ entities' = Append(entities, x)
    <3>1. PICK x : x.type \in Types /\ entities' = Append(entities, x)
      BY <2>2
    <3>2. /\ entities \in Seq(Range(entities))
          /\ \A y \in Range(entities) : y.type \in Types
          /\ flow \in Nat /\ flow <= Len(Primaries)
      BY DEF ProgressInv, Expanding
    <3>3. /\ entities' \in Seq(Range(entities) \cup {x})
          /\ Range(entities') = Range(entities) \cup {x}
      BY ONLY SMTT(30), <3>1, <3>2, AppendList
    <3>4. /\ Len(Primaries) \in Nat /\ Len(Primaries') \in Nat
          /\ Len(Primaries) <= Len(Primaries')
      BY <3>1, <3>2, PrimariesGrow
    <3> QED BY <3>1, <3>2, <3>3, <3>4 DEF Expanding
  <2> QED BY <2>1, <2>2
<1>3. /\ resolved' \in 0..Len(Item.refs) /\ Item' = Item
      /\ step' = step /\ scenario' = scenario /\ step <= Len(scenario.timeline)
  <2>1. step \in 1..Len(scenario.timeline) /\ resolved \in Nat
    BY DEF ProgressInv
  <2>2. Len(Item.refs) \in Nat
    BY <2>1, ItemAt, LenProperties DEF Item, ItemOK
  <2> QED BY <2>1, <2>2 DEF ProgressInv, Item
<1>4. ProgressInv'
  BY <1>2, <1>3 DEF ProgressInv
<1> QED BY <1>1, <1>4 DEF SortedInv, StrictInv, Sorted, Succeeds

LEMMA ResolvePlanInv ==
  ASSUME ScenarioInv, PlanInv, phase = "expand", phase' = "expand", ResolveRef
  PROVE  PlanInv'
<1>1. AtRef
  BY DEF ResolveRef, RefFlow, RefEntity, RefNew, RefPrevious, RefPlain
<1>2. CASE RefNew
  <2> DEFINE n == made[Ref.type] + 1
             x == [id |-> <<Ref.type, n>>, type |-> Ref.type, fields |-> {}]
  <2>1. /\ Ref.kind = "new" /\ made' = [made EXCEPT ![Ref.type] = n]
        /\ entities' = Append(entities, x) /\ Refer(<<Ref.type, n>>)
    BY <1>2 DEF RefNew
  <2>2. step \in 1..Len(scenario.timeline)
        /\ resolved \in Nat /\ resolved < Len(Item.refs)
    BY <1>1 DEF PlanInv, ProgressInv, AtRef
  <2>3. ItemOK(Item)
    BY <2>2, ItemAt DEF Item
  <2>4. Item.refs[resolved + 1] \in Range(Item.refs)
    <3>1. Item.refs \in Seq(Range(Item.refs))
      BY <2>3 DEF ItemOK
    <3>2. resolved + 1 \in 1..Len(Item.refs)
      BY <2>2, <3>1, LenProperties
    <3> QED BY <3>1, <3>2, ElementOfSeq
  <2>5. Ref.type \in Types
    BY <2>1, <2>3, <2>4 DEF Ref, ItemOK
  <2>6. made' \in [Types -> Nat]
    BY <2>1, <2>5 DEF PlanInv, ProgressInv
  <2>7. x.type \in Types
    BY <2>5
  <2> HIDE DEF x, n
  <2>8. \E y : y.type \in Types /\ entities' = Append(entities, y)
    BY <2>1, <2>7
  <2> QED BY <1>1, <2>1, <2>6, <2>8, ReferPlanInv
<1>3. CASE ~RefNew
  <2>1. made' = made /\ entities' = entities /\ \E v : Refer(v)
    BY <1>3 DEF ResolveRef, RefFlow, RefEntity, RefPrevious, RefPlain,
       Known, Unresolved
  <2>2. made' \in [Types -> Nat]
    BY <2>1 DEF PlanInv, ProgressInv
  <2> QED BY <1>1, <2>1, <2>2, ReferPlanInv
<1> QED BY <1>2, <1>3

LEMMA EmitPlanInv ==
  ASSUME ScenarioInv, PlanInv, phase = "expand", phase' = "expand", EmitEvent
  PROVE  PlanInv'
<1> DEFINE e == [id |-> <<0, flow, step>>, flow |-> FlowId, key |-> StepKey(Item),
                 type |-> Item.event, time |-> now, refs |-> draft,
                 amount |-> Item.amount, sem |-> {}]
<1>1. /\ draft # None /\ events' = Append(events, e) /\ draft' = None
      /\ step' = step + 1
      /\ UNCHANGED <<scenario, entities, made, warnings, flow, now, resolved,
                     noiseLeft, planned, jittered>>
  BY DEF EmitEvent
<1>2. /\ step \in 1..Len(scenario.timeline) /\ flow \in Nat /\ now \in Int
      /\ Len(scenario.timeline) \in Nat
  BY <1>1, LenProperties DEF PlanInv, ProgressInv, ScenarioInv, ScenarioOK
<1>3. EventOK(e) /\ e.id = <<0, flow, step>>
  <2>1. Item.amount \in Int \cup {None, Text}
    BY <1>2, ItemAt DEF Item, ItemOK
  <2> QED BY <1>2, <2>1 DEF EventOK
<1> HIDE DEF e
<1>4. events \in Seq(Range(events)) /\ Len(events) \in Nat
  BY LenProperties DEF PlanInv, EventsInv, EventsOK
<1>5. /\ events' \in Seq(Range(events) \cup {e})
      /\ Len(events') = Len(events) + 1
      /\ \A i \in 1..Len(events) : events'[i] = events[i]
      /\ events'[Len(events) + 1] = e
      /\ Range(events') = Range(events) \cup {e}
  BY <1>1, <1>4, EventsAppend
<1>6. \A i \in 1..Len(events) :
         /\ EventOK(events[i]) /\ events[i].id[1] = 0
         /\ \/ events[i].id[2] < flow
            \/ events[i].id[2] = flow /\ events[i].id[3] < step
  BY DEF PlanInv, EventsInv, EventsOK, IdsInv
<1>7. \A i \in 1..Len(events) : events[i].id # e.id
  <2>1. e.id[2] = flow /\ e.id[3] = step /\ step \in Nat
    BY <1>2, <1>3
  <2>2. \A i \in 1..Len(events) :
           /\ events[i].id[2] \in Nat /\ events[i].id[3] \in Nat
           /\ events[i].id[2] < flow \/ events[i].id[3] < step
    BY <1>6 DEF EventOK
  <2>3. ASSUME NEW i \in 1..Len(events), events[i].id = e.id PROVE FALSE
    <3>1. events[i].id[2] = flow /\ events[i].id[3] = step
      BY <2>1, <2>3
    <3> QED BY <1>2, <2>1, <2>2, <3>1
  <2> QED BY <2>3
<1>8. EventsInv'
  BY SMTT(30), <1>3, <1>4, <1>5, <1>6, <1>7 DEF PlanInv, EventsInv, EventsOK
<1>9. IdsInv'
  BY <1>1, <1>2, <1>3, <1>4, <1>5, <1>6 DEF IdsInv, EventOK
<1>10. ProgressInv'
  BY <1>1, <1>2, <1>4, <1>5 DEF PlanInv, ProgressInv
<1> QED BY <1>8, <1>9, <1>10 DEF PlanInv, SortedInv, StrictInv, Sorted, Succeeds

LEMMA NextFlowPlanInv ==
  ASSUME ScenarioInv, PlanInv, phase = "expand", phase' = "expand", NextFlow
  PROVE  PlanInv'
<1> USE DEF NextFlow, PlanInv
<1>1. EventsInv'
  BY DEF EventsInv
<1>2. /\ flow \in Nat /\ step \in Nat /\ MaxFlows \in Nat
      /\ Len(scenario.timeline) \in Nat
      /\ \A i \in 1..Len(events) : EventOK(events[i])
  BY InputAssumption, LenProperties
     DEF ProgressInv, EventsInv, EventsOK, ScenarioInv, ScenarioOK
<1>3. IdsInv'
  BY <1>2 DEF IdsInv, EventOK
<1>4. draft = None
  BY <1>2 DEF ProgressInv
<1>5. ProgressInv'
  BY <1>2, <1>4 DEF ProgressInv
<1> QED BY <1>1, <1>3, <1>5 DEF SortedInv, StrictInv, Sorted, Succeeds

(* The calls that leave the timeline alone.                                *)
LEMMA QuietPlanInv ==
  ASSUME ScenarioInv, PlanInv,
         UNCHANGED <<made, flow, step, now, draft, resolved, events,
                     noiseLeft, jittered>>,
         scenario'.timeline = scenario.timeline,
         entities' \in Seq(Range(entities')),
         \A x \in Range(entities') : x.type \in Types,
         \/ phase \in {"packs", "entities"} /\ phase' = "expand"
         \/ phase' \in {"packs", "entities"} /\ phase = "packs"
         \/ /\ phase' = "failed" /\ scenario' = scenario
            /\ phase # "expand" \/ draft = None
  PROVE  PlanInv'
<1> USE DEF PlanInv
<1>1. EventsInv'
  BY DEF EventsInv
<1>2. IdsInv'
  <2>1. events = <<>> => Len(events) = 0
    OBVIOUS
  <2> QED BY <2>1 DEF IdsInv
<1>3. draft = None
  BY DEF ProgressInv
<1>4. phase' # "failed" => noiseLeft = 0
  <2>1. events = <<>> => Len(events) = 0
    OBVIOUS
  <2> QED BY <2>1 DEF ProgressInv, IdsInv
<1>5. ProgressInv'
  BY <1>3, <1>4 DEF ProgressInv
<1> QED BY <1>1, <1>2, <1>5 DEF SortedInv, StrictInv, Sorted, Succeeds
-----------------------------------------------------------------------------
(* Noise and jitter keep the invariant.                                    *)
LEMMA FunctionList ==
  ASSUME NEW n \in Nat, NEW f, f = [i \in 1..n |-> f[i]]
  PROVE  f \in Seq(Range(f)) /\ Len(f) = n /\ DOMAIN f = 1..n
<1>1. DOMAIN f = 1..n
  OBVIOUS
<1>2. \A i \in 1..n : f[i] \in Range(f)
  BY <1>1 DEF Range
<1>3. f \in [1..n -> Range(f)]
  BY <1>1, <1>2
<1> QED BY <1>1, <1>3

LEMMA RoundIsNat ==
  ASSUME NEW n \in Nat, NEW halves \in Nat
  PROVE  Round(n, halves) \in Nat
<1> DEFINE p == n * halves
<1>1. p \in Nat
  OBVIOUS
<1> HIDE DEF p
<1>2. p \div 2 \in Nat
  BY <1>1
<1> QED BY <1>2 DEF Round, p

LEMMA StartNoisePlanInv ==
  ASSUME ScenarioInv, PlanInv, phase = "expand", phase' = "noise", StartNoise
  PROVE  PlanInv'
<1> DEFINE more == InPlanOrder(Range(events))
<1>1. EventsOK(events) /\ Len(events) \in Nat /\ events \in Seq(Range(events))
  BY LenProperties DEF PlanInv, EventsInv, EventsOK
<1>2. EventsOK(more) /\ Range(more) = Range(events) /\ Len(more) = Len(events)
  BY <1>1, InPlanOrderEvents
<1>3. events' = more
  BY DEF StartNoise
<1> HIDE DEF more
<1>4. EventsInv'
  BY <1>2, <1>3 DEF EventsInv
<1>5. \A e \in Range(events) : e.id[1] = 0
  <2>1. DOMAIN events = 1..Len(events)
    BY <1>1, LenProperties
  <2> QED BY <2>1 DEF PlanInv, IdsInv, Range
<1>6. \A i \in 1..Len(events') : events'[i].id[1] = 0
  <2>1. \A i \in 1..Len(more) : more[i] \in Range(more)
    BY <1>2, ElementOfSeq DEF EventsOK
  <2> QED BY <1>2, <1>3, <1>5, <2>1
<1>7. IdsInv'
  BY <1>6 DEF IdsInv
<1>8. /\ ~Expanding /\ draft' = draft
      /\ UNCHANGED <<scenario, entities, made, flow, step, now, jittered>>
  BY DEF StartNoise
<1>9. /\ noiseLeft' \in Nat
      /\ noiseLeft' > 0 => scenario.noise # None /\ events # <<>>
  <2>1. scenario.noise # None => Round(Len(events), scenario.noise.halves) \in Nat
    BY <1>1, RoundIsNat DEF ScenarioInv, ScenarioOK, NoiseOK
  <2> QED BY <2>1 DEF StartNoise
<1>10. events # <<>> => 1 \in 1..Len(events')
  <2>1. events # <<>> => Len(events) # 0
    BY <1>1, EmptySeq
  <2> QED BY <1>1, <1>2, <1>3, <2>1
<1>11. ProgressInv'
  BY <1>1, <1>2, <1>3, <1>6, <1>8, <1>9, <1>10 DEF PlanInv, ProgressInv
<1> QED
  BY <1>4, <1>7, <1>11 DEF PlanInv, SortedInv, StrictInv, Sorted, Succeeds

LEMMA AddNoisePlanInv ==
  ASSUME ScenarioInv, PlanInv, phase = "noise", phase' = "noise", AddNoise
  PROVE  PlanInv'
<1> DEFINE first == Min({e.time : e \in TimelineEvents})
<1>1. EventsOK(events) /\ Len(events) \in Nat /\ events \in Seq(Range(events))
      /\ DOMAIN events = 1..Len(events)
  BY LenProperties DEF PlanInv, EventsInv, EventsOK
<1>2. first \in Int
  <2> DEFINE S == {i \in 1..Len(events) : events[i].id[1] = 0}
             T == {events[i].time : i \in S}
  <2>1. S \subseteq 1..Len(events) /\ S # {}
    BY DEF AddNoise, PlanInv, ProgressInv
  <2>2. \A i \in S : events[i].time \in Int
    BY <1>1 DEF EventsOK, EventOK
  <2>3. {e.time : e \in TimelineEvents} = T
    BY <1>1 DEF TimelineEvents, Range
  <2>4. Min(T) \in T
    <3> HIDE DEF S
    <3> QED BY <1>1, <2>1, <2>2, LeastTime
  <2>5. \A t \in T : t \in Int
    BY <2>2
  <2> HIDE DEF T
  <2> QED BY <2>3, <2>4, <2>5
<1>3. PICK spec \in Range(scenario.noise.events),
           t \in first..(first + scenario.duration) :
         \E v \in NoiseRef(spec.spec) :
            events' = Append(events,
               [id |-> <<1, NoiseNumber, 0>>, flow |-> None, key |-> None,
                type |-> spec.event, time |-> t,
                refs |-> [r \in {spec.role} |-> v], amount |-> None, sem |-> {}])
  BY DEF AddNoise
<1>4. PICK v \in NoiseRef(spec.spec) :
         events' = Append(events,
            [id |-> <<1, NoiseNumber, 0>>, flow |-> None, key |-> None,
             type |-> spec.event, time |-> t,
             refs |-> [r \in {spec.role} |-> v], amount |-> None, sem |-> {}])
  BY <1>3
<1> DEFINE e == [id |-> <<1, NoiseNumber, 0>>, flow |-> None, key |-> None,
                 type |-> spec.event, time |-> t,
                 refs |-> [r \in {spec.role} |-> v], amount |-> None, sem |-> {}]
           noise == {d \in Range(events) : d.id[1] = 1}
<1>5. t \in Int
  <2>1. scenario.duration \in Nat
    BY DEF ScenarioInv, ScenarioOK
  <2> HIDE DEF first
  <2> QED BY <1>2, <1>3, <2>1
<1>6. IsFiniteSet(noise) /\ Cardinality(noise) \in Nat
      /\ NoiseNumber = Cardinality(noise) + 1
  <2>1. \A i, j \in 1..Len(events) : events[i] = events[j] => i = j
    BY <1>1 DEF EventsOK
  <2>2. IsFiniteSet(Range(events))
    BY <1>1, <2>1, DistinctLength
  <2>3. IsFiniteSet(noise)
    BY <2>2, FS_Subset
  <2> QED BY <2>3, FS_CardinalityType DEF NoiseNumber
<1>7. EventOK(e) /\ e.id = <<1, NoiseNumber, 0>> /\ e.id[1] = 1
      /\ e.id[2] = NoiseNumber
  BY <1>5, <1>6 DEF EventOK
<1>8. events' = Append(events, e)
  BY <1>4
<1> HIDE DEF e, first
<1>9. /\ events' \in Seq(Range(events) \cup {e})
      /\ Len(events') = Len(events) + 1
      /\ \A i \in 1..Len(events) : events'[i] = events[i]
      /\ events'[Len(events) + 1] = e
      /\ Range(events') = Range(events) \cup {e}
  BY <1>1, <1>8, EventsAppend
<1>10. \A i \in 1..Len(events) : /\ EventOK(events[i])
                                 /\ events[i].id[1] = 1 =>
                                       events[i].id[2] < NoiseNumber
  BY <1>1 DEF PlanInv, IdsInv, EventsOK
<1>11. \A i \in 1..Len(events) : events[i].id # e.id
  <2> SUFFICES ASSUME NEW i \in 1..Len(events), events[i].id = e.id PROVE FALSE
    OBVIOUS
  <2>1. events[i].id[1] = 1 /\ events[i].id[2] = NoiseNumber
    BY <1>7
  <2>2. events[i].id[2] < NoiseNumber
    BY <1>10, <2>1
  <2>3. NoiseNumber \in Nat
    BY <1>6
  <2> QED BY ONLY <2>1, <2>2, <2>3
<1>12. EventsInv'
  BY SMTT(30), <1>1, <1>7, <1>9, <1>10, <1>11 DEF EventsInv, EventsOK
<1>13. NoiseNumber' = NoiseNumber + 1
  <2>1. {d \in Range(events') : d.id[1] = 1} = noise \cup {e}
    BY <1>7, <1>9
  <2>2. e \notin noise
    BY <1>1, <1>11 DEF Range
  <2> HIDE DEF noise
  <2>3. Cardinality(noise \cup {e}) = Cardinality(noise) + 1
    BY <1>6, <2>2, FS_AddElement
  <2> QED BY <1>6, <2>1, <2>3 DEF NoiseNumber
<1>14. IdsInv'
  <2> SUFFICES ASSUME NEW i \in 1..Len(events'), events'[i].id[1] = 1
               PROVE  events'[i].id[2] < NoiseNumber'
    BY DEF IdsInv
  <2>1. CASE i \in 1..Len(events)
    <3>1. events[i].id[2] \in Nat /\ events[i].id[2] < NoiseNumber
      BY <1>9, <1>10, <2>1 DEF EventOK
    <3> QED BY <1>6, <1>9, <1>13, <2>1, <3>1
  <2>2. CASE i = Len(events) + 1
    BY <1>6, <1>7, <1>9, <1>13, <2>2
  <2> QED BY <1>1, <1>9, <2>1, <2>2
<1>15. ProgressInv'
  <2>1. /\ UNCHANGED <<scenario, entities, made, flow, step, now, draft, jittered>>
        /\ noiseLeft' = noiseLeft - 1 /\ noiseLeft > 0
    BY DEF AddNoise
  <2>2. noiseLeft' \in Nat
    BY <2>1 DEF PlanInv, ProgressInv
  <2>3. \E i \in 1..Len(events') : events'[i].id[1] = 0
    <3>1. PICK i \in 1..Len(events) : events[i].id[1] = 0
      BY <2>1 DEF PlanInv, ProgressInv
    <3>2. i \in 1..Len(events') /\ events'[i] = events[i]
      BY <1>1, <1>9
    <3> QED BY <3>1, <3>2
  <2>4. jittered' \in 0..Len(events')
    BY <1>1, <1>9, <2>1 DEF PlanInv, ProgressInv
  <2> QED BY <2>1, <2>2, <2>3, <2>4 DEF PlanInv, ProgressInv
<1> QED
  BY <1>12, <1>14, <1>15 DEF PlanInv, SortedInv, StrictInv, Sorted, Succeeds

LEMMA StartJitterPlanInv ==
  ASSUME ScenarioInv, PlanInv, phase = "noise", phase' = "jitter", StartJitter
  PROVE  PlanInv'
<1>1. EventsOK(events) /\ Len(events) \in Nat
  BY LenProperties DEF PlanInv, EventsInv, EventsOK
<1>2. EventsOK(events') /\ Len(events') = Len(events)
  <2>1. CASE events' = Grouped
    BY <2>1, GroupedEvents DEF PlanInv
  <2>2. CASE events' = events
    BY <1>1, <2>2
  <2> QED BY <2>1, <2>2 DEF StartJitter
<1>3. /\ noiseLeft = 0 /\ jittered' \in {0, Len(events)}
      /\ UNCHANGED <<scenario, entities, made, flow, step, now, draft, noiseLeft>>
  BY DEF StartJitter
<1>4. EventsInv' /\ IdsInv'
  BY <1>2 DEF EventsInv, IdsInv
<1>5. ~JitterOn' => jittered' = Len(events')
  BY <1>2 DEF StartJitter, JitterOn
<1>6. ProgressInv'
  BY <1>1, <1>2, <1>3, <1>5 DEF PlanInv, ProgressInv
<1> QED BY <1>4, <1>6 DEF PlanInv, SortedInv, StrictInv, Sorted, Succeeds

(* Jitter moves one event, to a time that is not before its own, moved,    *)
(* and moves it no further than past the one before it.                    *)
LEMMA JitterMoves ==
  ASSUME ScenarioInv, EventsInv, jittered \in Nat, JitterEvent, JitterOn
  PROVE  LET i == jittered + 1
         IN  /\ i \in 1..Len(events) /\ jittered' = i
             /\ Len(events') = Len(events)
             /\ events' \in Seq(Range(events'))
             /\ \A j \in 1..Len(events) :
                   /\ DOMAIN events'[j] = DOMAIN events[j]
                   /\ \A x \in DOMAIN events[j] :
                         x # "time" => events'[j][x] = events[j][x]
                   /\ events'[j].time \in Int
                   /\ j # i => events'[j] = events[j]
             /\ \E o \in (-scenario.jitter.max)..scenario.jitter.max :
                   events'[i].time =
                      IF /\ scenario.jitter.preserve
                         /\ i > 1 /\ events[i - 1].flow = events[i].flow
                      THEN Max({events[i].time + o, events[i - 1].time + 1})
                      ELSE events[i].time + o
<1> DEFINE i == jittered + 1
           m == scenario.jitter.max
           close == /\ scenario.jitter.preserve
                    /\ i > 1 /\ events[i - 1].flow = events[i].flow
           Clamp(t) == IF close THEN Max({t, events[i - 1].time + 1}) ELSE t
<1>1. /\ Len(events) \in Nat /\ DOMAIN events = 1..Len(events)
      /\ \A j \in 1..Len(events) : EventOK(events[j])
  BY LenProperties DEF EventsInv, EventsOK
<1>2. PICK o \in (-m)..m :
         events' = [events EXCEPT ![i].time = Clamp(events[i].time + o)]
  BY DEF JitterEvent
<1>3. i <= Len(events) /\ jittered' = i
  BY DEF JitterEvent
<1>4. i \in 1..Len(events)
  BY <1>1, <1>3
<1> DEFINE t == Clamp(events[i].time + o)
<1>5. t \in Int
  <2>1. m \in Nat
    BY DEF ScenarioInv, ScenarioOK, JitterOK, JitterOn
  <2>2. events[i].time + o \in Int
    BY <1>1, <1>4, <2>1 DEF EventOK
  <2>3. close => events[i - 1].time + 1 \in Int
    BY <1>1, <1>4 DEF EventOK
  <2> HIDE DEF close
  <2>4. CASE close
    <3>1. Max({events[i].time + o, events[i - 1].time + 1}) \in Int
      BY <2>2, <2>3, <2>4, MaxOfTwo
    <3> QED BY <2>4, <3>1
  <2> QED BY <2>2, <2>4
<1>6. t = IF close THEN Max({events[i].time + o, events[i - 1].time + 1})
          ELSE events[i].time + o
  OBVIOUS
<1>7. events' = [events EXCEPT ![i].time = t]
  BY <1>2
<1> HIDE DEF t, close, m, Clamp
<1>8. events' = [j \in 1..Len(events) |->
                   IF j = i THEN [events[i] EXCEPT !.time = t] ELSE events[j]]
  BY <1>1, <1>4, <1>7
<1>9. /\ events'[i] = [events[i] EXCEPT !.time = t]
      /\ \A j \in 1..Len(events) : j # i => events'[j] = events[j]
  BY <1>4, <1>8
<1>10. /\ DOMAIN events'[i] = DOMAIN events[i]
       /\ \A x \in DOMAIN events[i] : x # "time" => events'[i][x] = events[i][x]
       /\ events'[i].time = t
  <2>1. "time" \in DOMAIN events[i]
    BY <1>1, <1>4 DEF EventOK
  <2> QED BY ONLY <1>9, <2>1
<1>11. events' \in Seq(Range(events')) /\ Len(events') = Len(events)
  <2>1. events' = [j \in 1..Len(events) |-> events'[j]]
    BY <1>8
  <2> QED BY <1>1, <2>1, FunctionList
<1>12. \A j \in 1..Len(events) : events[j].time \in Int
  BY <1>1 DEF EventOK
<1>13. \A j \in 1..Len(events) :
         /\ DOMAIN events'[j] = DOMAIN events[j]
         /\ \A x \in DOMAIN events[j] :
               x # "time" => events'[j][x] = events[j][x]
         /\ events'[j].time \in Int
         /\ j # i => events'[j] = events[j]
  BY <1>5, <1>9, <1>10, <1>12
<1>14. \E q \in (-m)..m :
          events'[i].time =
             IF close THEN Max({events[i].time + q, events[i - 1].time + 1})
             ELSE events[i].time + q
  BY <1>2, <1>6, <1>10
<1> QED BY <1>3, <1>4, <1>11, <1>13, <1>14 DEF close, m

LEMMA JitterPlanInv ==
  ASSUME ScenarioInv, PlanInv, phase = "jitter", phase' = "jitter", JitterEvent
  PROVE  PlanInv' /\ JitterOn
<1>1. /\ jittered \in Nat /\ EventsInv /\ JitterOn
      /\ \A j \in 1..Len(events) : EventOK(events[j])
  <2>1. Len(events) \in Nat /\ jittered + 1 <= Len(events)
    BY LenProperties DEF PlanInv, EventsInv, EventsOK, JitterEvent
  <2> QED BY <2>1 DEF PlanInv, ProgressInv, EventsInv, EventsOK
<1>2. /\ jittered + 1 \in 1..Len(events) /\ jittered' = jittered + 1
      /\ Len(events') = Len(events)
      /\ events' \in Seq(Range(events'))
      /\ \A j \in 1..Len(events) :
            /\ DOMAIN events'[j] = DOMAIN events[j]
            /\ \A x \in DOMAIN events[j] :
                  x # "time" => events'[j][x] = events[j][x]
            /\ events'[j].time \in Int
  BY <1>1, JitterMoves
<1>3. ASSUME NEW j \in 1..Len(events)
      PROVE  EventOK(events'[j]) /\ events'[j].id = events[j].id
  <2>1. /\ DOMAIN events[j] = {"id", "flow", "key", "type", "time", "refs",
                               "amount", "sem"}
        /\ EventOK(events[j])
    BY <1>1 DEF EventOK
  <2>2. events'[j].id = events[j].id /\ events'[j].amount = events[j].amount
    BY <1>2, <2>1
  <2> QED BY <1>2, <2>1, <2>2 DEF EventOK
<1>4. EventsInv'
  BY <1>1, <1>2, <1>3 DEF EventsInv, EventsOK
<1>5. /\ UNCHANGED <<scenario, entities, made, flow, step, now, draft, noiseLeft>>
  BY DEF JitterEvent
<1>6. ProgressInv'
  <2>1. noiseLeft' > 0 => \E i \in 1..Len(events') : events'[i].id[1] = 0
    <3> SUFFICES ASSUME noiseLeft' > 0
                 PROVE  \E i \in 1..Len(events') : events'[i].id[1] = 0
      OBVIOUS
    <3>1. PICK i \in 1..Len(events) : events[i].id[1] = 0
      BY <1>5 DEF PlanInv, ProgressInv
    <3> QED BY <1>2, <1>3, <3>1
  <2>2. jittered' \in 0..Len(events') /\ JitterOn' = JitterOn
    BY <1>2, <1>5 DEF JitterOn
  <2> QED BY <1>1, <1>5, <2>1, <2>2 DEF PlanInv, ProgressInv
<1> QED
  BY <1>1, <1>4, <1>6 DEF PlanInv, IdsInv, SortedInv, StrictInv, Sorted, Succeeds

LEMMA FinalSortPlanInv ==
  ASSUME ScenarioInv, PlanInv, FinalSort
  PROVE  PlanInv'
<1> DEFINE more == InPlanOrder(Range(events))
<1>1. EventsOK(events) /\ Len(events) \in Nat
  BY LenProperties DEF PlanInv, EventsInv, EventsOK
<1>2. /\ EventsOK(more) /\ Range(more) = Range(events)
      /\ Len(more) = Len(events) /\ InOrder(more)
  BY <1>1, InPlanOrderEvents
<1>3. /\ events' = more /\ phase = "jitter" /\ phase' = "attach"
      /\ jittered = Len(events)
      /\ UNCHANGED <<scenario, entities, made, flow, step, now, draft,
                     noiseLeft, jittered>>
  BY DEF FinalSort, Goto, OnlyEventsChange
<1> HIDE DEF more
<1>4. EventsInv' /\ SortedInv' /\ IdsInv'
  BY <1>2, <1>3 DEF EventsInv, SortedInv, InOrder, IdsInv
<1>5. noiseLeft' > 0 => \E i \in 1..Len(events') : events'[i].id[1] = 0
  <2> SUFFICES ASSUME noiseLeft' > 0
               PROVE  \E i \in 1..Len(events') : events'[i].id[1] = 0
    OBVIOUS
  <2>1. PICK i \in 1..Len(events) : events[i].id[1] = 0
    BY <1>3 DEF PlanInv, ProgressInv
  <2>2. events[i] \in Range(more)
    BY <1>1, <1>2, ElementOfSeq DEF EventsOK
  <2>3. DOMAIN more = 1..Len(more)
    BY <1>2, LenProperties DEF EventsOK
  <2>4. PICK j \in 1..Len(more) : more[j] = events[i]
    BY <2>2, <2>3 DEF Range
  <2> QED BY <1>3, <2>1, <2>4
<1>6. ProgressInv'
  BY <1>1, <1>2, <1>3, <1>5 DEF PlanInv, ProgressInv
<1> QED BY <1>3, <1>4, <1>6 DEF PlanInv, StrictInv, Succeeds

LEMMA AttachMarks ==
  ASSUME EventsInv, AttachRefs
  PROVE  /\ Len(events') = Len(events) /\ events' \in Seq(Range(events'))
         /\ \A i \in 1..Len(events) :
               /\ DOMAIN events'[i] = DOMAIN events[i]
               /\ \A x \in DOMAIN events[i] :
                     x # "sem" => events'[i][x] = events[i][x]
               /\ events'[i].sem = events[i].sem \cup
                     {t.id : t \in {u \in Range(SemanticTasks) :
                        u.validFor = {} \/ events[i].type \in u.validFor}}
<1> DEFINE For(e) == {t.id : t \in {u \in Range(SemanticTasks) :
                         u.validFor = {} \/ e.type \in u.validFor}}
<1>1. /\ Len(events) \in Nat /\ DOMAIN events = 1..Len(events)
      /\ \A i \in 1..Len(events) : EventOK(events[i])
  BY LenProperties DEF EventsInv, EventsOK
<1>2. events' = [i \in DOMAIN events |->
                   [events[i] EXCEPT !.sem = @ \cup For(events[i])]]
  BY DEF AttachRefs
<1>3. \A i \in 1..Len(events) : "sem" \in DOMAIN events[i]
  BY <1>1 DEF EventOK
<1> HIDE DEF For
<1>4. \A i \in 1..Len(events) :
         events'[i] = [events[i] EXCEPT !.sem = events[i].sem \cup For(events[i])]
  BY <1>1, <1>2
<1>5. \A i \in 1..Len(events) :
         /\ DOMAIN events'[i] = DOMAIN events[i]
         /\ \A x \in DOMAIN events[i] :
               x # "sem" => events'[i][x] = events[i][x]
         /\ events'[i].sem = events[i].sem \cup For(events[i])
  BY ONLY <1>3, <1>4
<1>6. events' \in Seq(Range(events')) /\ Len(events') = Len(events)
  <2>1. events' = [i \in 1..Len(events) |-> events'[i]]
    BY <1>1, <1>2
  <2> QED BY <1>1, <2>1, FunctionList
<1> QED BY <1>5, <1>6 DEF For

LEMMA AttachPlanInv ==
  ASSUME ScenarioInv, PlanInv, AttachRefs
  PROVE  PlanInv'
<1>1. Len(events) \in Nat /\ \A i \in 1..Len(events) : EventOK(events[i])
  BY LenProperties DEF PlanInv, EventsInv, EventsOK
<1>2. /\ Len(events') = Len(events) /\ events' \in Seq(Range(events'))
      /\ \A i \in 1..Len(events) :
            /\ DOMAIN events'[i] = DOMAIN events[i]
            /\ \A x \in DOMAIN events[i] :
                  x # "sem" => events'[i][x] = events[i][x]
  BY AttachMarks DEF PlanInv
<1>3. ASSUME NEW i \in 1..Len(events)
      PROVE  /\ EventOK(events'[i]) /\ events'[i].id = events[i].id
             /\ events'[i].time = events[i].time
  <2>1. /\ DOMAIN events[i] = {"id", "flow", "key", "type", "time", "refs",
                               "amount", "sem"}
        /\ EventOK(events[i])
    BY <1>1 DEF EventOK
  <2>2. /\ events'[i].id = events[i].id /\ events'[i].amount = events[i].amount
        /\ events'[i].time = events[i].time
    BY <1>2, <2>1
  <2> QED BY <1>2, <2>1, <2>2 DEF EventOK
<1>4. /\ phase = "attach" /\ phase' = "check"
      /\ UNCHANGED <<scenario, entities, made, flow, step, now, draft,
                     noiseLeft, jittered>>
  BY DEF AttachRefs, Goto, OnlyEventsChange
<1>5. EventsInv' /\ IdsInv'
  BY <1>2, <1>3, <1>4 DEF PlanInv, EventsInv, EventsOK, IdsInv
<1>6. SortedInv'
  BY <1>2, <1>3, <1>4 DEF PlanInv, SortedInv, Sorted, InOrder, Earlier
<1>7. ProgressInv'
  <2>1. noiseLeft' > 0 => \E i \in 1..Len(events') : events'[i].id[1] = 0
    <3> SUFFICES ASSUME noiseLeft' > 0
                 PROVE  \E i \in 1..Len(events') : events'[i].id[1] = 0
      OBVIOUS
    <3>1. PICK i \in 1..Len(events) : events[i].id[1] = 0
      BY <1>4 DEF PlanInv, ProgressInv
    <3> QED BY <1>2, <1>3, <3>1
  <2> QED BY <1>2, <1>4, <2>1 DEF PlanInv, ProgressInv
<1> QED BY <1>4, <1>5, <1>6, <1>7 DEF PlanInv, StrictInv, Succeeds

LEMMA RulesStay ==
  scenario' = scenario /\ UNCHANGED packVars => AllRules' = AllRules
BY DEF AllRules, PackRules, packVars

LEMMA CheckPlanInv ==
  ASSUME ScenarioInv, PlanInv, Check
  PROVE  PlanInv'
<1>1. /\ phase = "check" /\ phase' = "done" /\ UNCHANGED packVars
      /\ UNCHANGED <<scenario, entities, made, flow, step, now, draft, events,
                     noiseLeft, jittered>>
  BY DEF Check, KeepPacks
<1>2. EventsInv' /\ IdsInv' /\ SortedInv' /\ ProgressInv'
  BY <1>1 DEF PlanInv, EventsInv, IdsInv, SortedInv, Sorted, InOrder, ProgressInv
<1>3. StrictInv'
  <2> DEFINE found == RuleWarnings(AllRules, events)
  <2>1. options'.strict => found \subseteq errors'
    BY DEF Check, Result
  <2>2. RuleWarnings(AllRules, events)' = found
    BY <1>1, RulesStay
  <2> HIDE DEF found
  <2> QED BY <2>1, <2>2 DEF StrictInv, Succeeds
<1> QED BY <1>2, <1>3 DEF PlanInv
-----------------------------------------------------------------------------
(* What FlattenSeq makes of lists over a set is a list over that set.      *)
LEMMA FlattenedList ==
  ASSUME NEW A, NEW lists \in Seq(Seq(A))
  PROVE  FlattenSeq(lists) \in Seq(A)
<1> DEFINE Solves(k, n) ==
             k = [i \in 1..n |-> IF i = 1 THEN lists[i] ELSE k[i - 1] \o lists[i]]
           solved == {n \in 0..Len(lists) : \E k : Solves(k, n)}
<1>1. Len(lists) \in Nat /\ \A i \in 1..Len(lists) : lists[i] \in Seq(A)
  BY LenProperties, ElementOfSeq
<1>2. 0 \in solved
  <2>1. Solves([i \in 1..0 |-> <<>>], 0)
    OBVIOUS
  <2> HIDE DEF Solves
  <2> QED BY <1>1, <2>1
<1>3. ASSUME NEW n \in 1..Len(lists), n - 1 \in solved
      PROVE  n \in solved
  <2>1. PICK k : Solves(k, n - 1)
    BY <1>3
  <2> DEFINE last == IF n = 1 THEN lists[n] ELSE k[n - 1] \o lists[n]
             l == [i \in 1..n |-> IF i = n THEN last ELSE k[i]]
  <2> HIDE DEF last
  <2>2. \A i \in 1..(n - 1) : l[i] = k[i]
    OBVIOUS
  <2>3. l[n] = last
    OBVIOUS
  <2>4. ASSUME NEW i \in 1..n
        PROVE  l[i] = IF i = 1 THEN lists[i] ELSE l[i - 1] \o lists[i]
    <3>1. CASE i = n /\ n # 1
      <4>1. l[n - 1] = k[n - 1]
        <5>1. n - 1 \in 1..(n - 1)
          BY <3>1
        <5> QED BY <2>2, <5>1
      <4> HIDE DEF l
      <4> QED BY <2>3, <3>1, <4>1 DEF last
    <3>2. CASE i = n /\ n = 1
      <4> HIDE DEF l
      <4> QED BY <2>3, <3>2 DEF last
    <3>3. CASE i # n /\ i # 1
      <4>1. i \in 1..(n - 1) /\ i - 1 \in 1..(n - 1)
        BY <3>3
      <4>2. l[i] = k[i] /\ l[i - 1] = k[i - 1]
        BY <2>2, <4>1
      <4>3. k[i] = k[i - 1] \o lists[i]
        BY <2>1, <3>3, <4>1
      <4> HIDE DEF l
      <4> QED BY <3>3, <4>2, <4>3
    <3>4. CASE i # n /\ i = 1
      <4>1. i \in 1..(n - 1)
        BY <3>4
      <4>2. l[i] = k[i]
        BY <2>2, <4>1
      <4>3. k[i] = lists[i]
        BY <2>1, <3>4, <4>1
      <4> HIDE DEF l
      <4> QED BY <3>4, <4>2, <4>3
    <3> QED BY <3>1, <3>2, <3>3, <3>4
  <2>5. Solves(l, n)
    <3>1. l = [i \in 1..n |-> l[i]]
      OBVIOUS
    <3> HIDE DEF l
    <3> QED BY <2>4, <3>1
  <2> HIDE DEF l, Solves
  <2> QED BY <2>5
<1>4. \E k : Solves(k, Len(lists))
  <2> HIDE DEF solved
  <2>1. \A i \in 1..Len(lists) : i - 1 \in solved => i \in solved
    BY <1>3
  <2>2. \A i \in 0..Len(lists) : i \in solved
    BY <1>1, <1>2, <2>1, Positions
  <2>3. Len(lists) \in solved
    BY <1>1, <2>2
  <2> QED BY <2>3 DEF solved
<1> DEFINE flat == CHOOSE k : Solves(k, Len(lists))
<1>5. Solves(flat, Len(lists))
  <2> HIDE DEF Solves
  <2> QED BY <1>4
<1>6. Len(lists) # 0 => FlattenSeq(lists) = flat[Len(lists)]
  BY DEF FlattenSeq
<1>7. Len(lists) = 0 => FlattenSeq(lists) = <<>>
  <2>1. Len(lists) = 0 => lists = <<>>
    BY EmptySeq
  <2> QED BY <2>1 DEF FlattenSeq
<1> HIDE DEF flat
<1>8. \A i \in 1..Len(lists) :
         flat[i] = IF i = 1 THEN lists[i] ELSE flat[i - 1] \o lists[i]
  BY <1>5
<1> HIDE DEF Solves
<1> DEFINE good == {i \in 0..Len(lists) : i = 0 \/ flat[i] \in Seq(A)}
<1>9. \A i \in 0..Len(lists) : i \in good
  <2>1. 0 \in good
    BY <1>1
  <2>2. ASSUME NEW i \in 1..Len(lists), i - 1 \in good
        PROVE  i \in good
    <3>1. CASE i = 1
      BY <1>1, <1>8, <3>1
    <3>2. CASE i # 1
      <4>1. flat[i - 1] \in Seq(A) /\ lists[i] \in Seq(A)
        BY <1>1, <2>2, <3>2
      <4>2. flat[i - 1] \o lists[i] \in Seq(A)
        BY <4>1, ConcatProperties
      <4>3. flat[i] = flat[i - 1] \o lists[i]
        BY <1>8, <3>2
      <4>4. flat[i] \in Seq(A) /\ i \in 0..Len(lists)
        BY <1>1, <4>2, <4>3
      <4> QED BY <4>4
    <3> QED BY <3>1, <3>2
  <2> HIDE DEF good
  <2>3. \A i \in 1..Len(lists) : i - 1 \in good => i \in good
    BY <2>2
  <2> QED BY <1>1, <2>1, <2>3, Positions
<1>10. CASE Len(lists) # 0
  BY <1>1, <1>6, <1>9, <1>10
<1>11. CASE Len(lists) = 0
  BY <1>7, <1>11
<1> QED BY <1>10, <1>11

LEMMA EntitiesPlanInv ==
  ASSUME ScenarioInv, PlanInv, Entities
  PROVE  PlanInv'
<1> DEFINE templates == scenario.entities
           typeOf(t) == IF t.type # None THEN t.type ELSE t.key
           Made(t) == [n \in 1..t.count |->
                         [id |-> <<t.key, n>>, type |-> typeOf(t),
                          fields |-> t.fields]]
           lists == [i \in DOMAIN templates |-> Made(templates[i])]
           all == UNION {Range(Made(t)) : t \in Range(templates)}
<1>1. /\ phase = "entities" /\ phase' = "expand" /\ scenario' = scenario
      /\ entities' = FlattenSeq(lists)
      /\ UNCHANGED <<made, flow, step, now, draft, resolved, events,
                     noiseLeft, jittered>>
  BY DEF Entities, GenerateEntities, Goto
<1>2. /\ templates \in Seq(Range(templates)) /\ Len(templates) \in Nat
      /\ DOMAIN templates = 1..Len(templates)
      /\ \A t \in Range(templates) : t.count \in Nat /\ typeOf(t) \in Types
  BY LenProperties DEF ScenarioInv, ScenarioOK, TemplateOK
<1>3. ASSUME NEW t \in Range(templates)
      PROVE  /\ Made(t) \in Seq(Range(Made(t)))
             /\ \A x \in Range(Made(t)) : x.type \in Types
  <2>1. Made(t) = [n \in 1..t.count |-> Made(t)[n]]
    OBVIOUS
  <2>2. \A n \in 1..t.count : Made(t)[n].type \in Types
    BY <1>2
  <2>3. t.count \in Nat
    BY <1>2
  <2> HIDE DEF Made
  <2>4. Made(t) \in Seq(Range(Made(t))) /\ DOMAIN Made(t) = 1..t.count
    BY <2>1, <2>3, FunctionList
  <2> QED BY <2>2, <2>4 DEF Range
<1> HIDE DEF Made, typeOf
<1>4. ASSUME NEW t \in Range(templates) PROVE Made(t) \in Seq(all)
  <2>1. Range(Made(t)) \subseteq all
    OBVIOUS
  <2> HIDE DEF all
  <2> QED BY <1>3, <2>1, SeqMonotonic
<1>5. lists \in Seq(Seq(all))
  <2>1. \A i \in 1..Len(templates) : Made(templates[i]) \in Seq(all)
    <3>1. \A i \in 1..Len(templates) : templates[i] \in Range(templates)
      BY <1>2, ElementOfSeq
    <3> QED BY <1>4, <3>1
  <2> HIDE DEF all
  <2> QED BY <1>2, <2>1
<1>6. \A x \in all : x.type \in Types
  BY <1>3
<1> HIDE DEF lists, all, templates
<1>7. entities' \in Seq(all)
  BY <1>1, <1>5, FlattenedList
<1>8. entities' \in Seq(Range(entities')) /\ Range(entities') \subseteq all
  <2> DEFINE list == entities'
  <2>1. list \in Seq(all)
    BY <1>7
  <2> HIDE DEF list
  <2>2. Len(list) \in Nat /\ list = [i \in 1..Len(list) |-> list[i]]
    BY <2>1, LenProperties
  <2>3. list \in Seq(Range(list))
    BY <2>2, FunctionList
  <2>4. Range(list) \subseteq all
    BY <2>1, RangeOfSeq
  <2> QED BY <2>3, <2>4 DEF list
<1>9. \A x \in Range(entities') : x.type \in Types
  BY <1>6, <1>8
<1> QED BY <1>1, <1>8, <1>9, QuietPlanInv

LEMMA InitPlanInv == CompileInit => PlanInv
<1> SUFFICES ASSUME CompileInit PROVE PlanInv
  OBVIOUS
<1>1. /\ entities = <<>> /\ events = <<>> /\ made = [t \in Types |-> 0]
      /\ flow = 1 /\ step = 1 /\ now = 0 /\ draft = None /\ noiseLeft = 0
      /\ jittered = 0 /\ phase = "packs"
  BY DEF CompileInit, Init
<1>2. /\ <<>> \in Seq(Range(<<>>)) /\ Len(<<>>) = 0 /\ Range(<<>>) = {}
  BY DEF Range
<1>3. Len(scenario.timeline) \in Nat /\ MaxFlows \in Nat
  <2>1. ScenarioInv
    BY InitPackInv
  <2> QED BY <2>1, LenProperties, InputAssumption DEF ScenarioInv, ScenarioOK
<1>4. EventsInv /\ IdsInv
  BY <1>1, <1>2 DEF EventsInv, EventsOK, IdsInv
<1>5. ProgressInv
  BY <1>1, <1>2, <1>3 DEF ProgressInv
<1> QED
  BY <1>1, <1>4, <1>5 DEF PlanInv, SortedInv, StrictInv, Sorted, Succeeds

LEMMA NextPlanInv ==
  ASSUME ScenarioInv, PackInv, PlanInv, [Next]_vars
  PROVE  PlanInv'
<1> USE DEF Goto
<1>1. /\ entities \in Seq(Range(entities))
      /\ \A x \in Range(entities) : x.type \in Types
  BY DEF PlanInv, ProgressInv
<1>2. CASE LoadPacks
  <2>1. /\ phase = "packs" /\ phase' = "packs" /\ UNCHANGED timelineVars
    BY <1>2 DEF LoadPacks
  <2> QED BY <1>1, <2>1, QuietPlanInv DEF timelineVars
<1>3. CASE LoadFails
  <2>1. /\ phase = "packs" /\ phase' = "failed" /\ UNCHANGED timelineVars
    BY <1>3 DEF LoadFails
  <2> QED BY <1>1, <2>1, QuietPlanInv DEF timelineVars
<1>4. CASE ResolveRealism
  <2>1. /\ phase = "packs"
        /\ (phase' = "failed" /\ scenario' = scenario) \/ phase' = "entities"
        /\ UNCHANGED <<entities, made, flow, step, now, draft, resolved,
                       events, noiseLeft, jittered>>
    BY <1>4 DEF ResolveRealism
  <2>2. scenario'.timeline = scenario.timeline
    BY <1>4, ResolvePackInv
  <2> QED BY <1>1, <2>1, <2>2, QuietPlanInv
<1>5. CASE Entities
  BY <1>5, EntitiesPlanInv
<1>6. CASE Expand
  <2>1. phase = "expand" /\ phase' = "expand" /\ ExpandStep
    BY <1>6 DEF Expand
  <2> QED
    BY <2>1, SkipPlanInv, BeginPlanInv, ResolvePlanInv, EmitPlanInv,
       NextFlowPlanInv DEF ExpandStep
<1>7. CASE Expanded
  BY <1>7, StartNoisePlanInv DEF Expanded
<1>8. CASE Noise
  BY <1>8, AddNoisePlanInv DEF Noise
<1>9. CASE NoiseAdded
  BY <1>9, StartJitterPlanInv DEF NoiseAdded
<1>10. CASE Jitter
  BY <1>10, JitterPlanInv DEF Jitter
<1>11. CASE FinalSort
  BY <1>11, FinalSortPlanInv
<1>12. CASE AttachRefs
  BY <1>12, AttachPlanInv
<1>13. CASE Check
  BY <1>13, CheckPlanInv
<1>14. CASE CheckRaises
  <2>1. /\ phase = "check" /\ phase' = "failed" /\ UNCHANGED timelineVars
    BY <1>14 DEF CheckRaises
  <2> QED BY <1>1, <2>1, QuietPlanInv DEF timelineVars
<1>15. CASE ExpandFails
  <2>1. /\ phase = "expand" /\ phase' = "failed" /\ draft = None
        /\ UNCHANGED timelineVars
    BY <1>15 DEF ExpandFails, StepUnreadable, AtItem
  <2> QED BY <1>1, <2>1, QuietPlanInv DEF timelineVars
<1>16. CASE UNCHANGED vars
  <2>1. UNCHANGED packVars /\ UNCHANGED timelineVars
        /\ UNCHANGED <<phase, options, errors>>
    BY <1>16 DEF vars
  <2>2. AllRules' = AllRules
    BY <2>1, RulesStay DEF timelineVars
  <2>3. EventsInv' /\ IdsInv' /\ ProgressInv' /\ SortedInv'
    BY <2>1 DEF PlanInv, EventsInv, IdsInv, ProgressInv, SortedInv,
       timelineVars, Sorted, InOrder, Expanding, Primaries, OfType,
       PrimaryType, Item, NoiseNumber, JitterOn
  <2>4. StrictInv'
    BY <2>1, <2>2 DEF PlanInv, StrictInv, Succeeds, timelineVars
  <2> QED BY <2>3, <2>4 DEF PlanInv
<1> QED
  BY <1>2, <1>3, <1>4, <1>5, <1>6, <1>7, <1>8, <1>9, <1>10, <1>11, <1>12,
     <1>13, <1>14, <1>15, <1>16 DEF Next, Planner, Rest

(* The invariant of a compilation: event ids are unique while they are     *)
(* given, sorting and jitter keep the events, and what was found in strict *)
(* mode is in errors.                                                      *)
THEOREM PlanInvariant == Spec => []PlanInv
<1>1. CompileInit => PlanInv
  BY InitPlanInv
<1>2. ScenarioInv /\ PackInv /\ PlanInv /\ [Next]_vars => PlanInv'
  BY NextPlanInv
<1> QED BY <1>1, <1>2, PackInvariant, PTL DEF Spec

(* The planner's lists, counters and positions keep their types.           *)
THEOREM CompilerTypesHold == Spec => []TypeOK
<1>1. ScenarioInv /\ PackInv /\ PlanInv => TypeOK
  <2> SUFFICES ASSUME ScenarioInv, PackInv, PlanInv PROVE TypeOK
    OBVIOUS
  <2>1. DOMAIN events = 1..Len(events)
    BY LenProperties DEF PlanInv, EventsInv, EventsOK
  <2> QED
    BY <2>1 DEF PackInv, PlanInv, ProgressInv, EventsInv, EventsOK, TypeOK
<1> QED BY <1>1, PackInvariant, PlanInvariant, PTL
-----------------------------------------------------------------------------
(* In a sorted plan the events before one in time are those before it in   *)
(* the list, which is what the rules look at.                              *)
LEMMA PositionIsTime ==
  ASSUME PlanInv, Sorted, NEW i \in 1..Len(events), NEW j \in 1..Len(events)
  PROVE  Earlier(events[i], events[j]) <=> i < j
<1>1. EventOK(events[i]) /\ EventOK(events[j]) /\ Len(events) \in Nat
  BY LenProperties DEF PlanInv, EventsInv, EventsOK
<1>2. i < j => Earlier(events[i], events[j])
  BY DEF PlanInv, SortedInv, InOrder
<1>3. j < i => Earlier(events[j], events[i])
  BY DEF PlanInv, SortedInv, InOrder
<1>4. ~Earlier(events[i], events[i])
  BY <1>1 DEF Earlier, IdBefore, EventOK
<1>5. ~(Earlier(events[i], events[j]) /\ Earlier(events[j], events[i]))
  BY SMTT(30), <1>1 DEF Earlier, IdBefore, EventOK
<1> QED BY <1>1, <1>2, <1>3, <1>4, <1>5

LEMMA RulesAreKept ==
  ASSUME ScenarioInv, PlanInv
  PROVE  StrictIsSound
<1> SUFFICES ASSUME Succeeds, options.strict,
                    NEW rule \in Range(AllRules), NEW e \in Range(events),
                    IsOf(e, rule.event)
             PROVE  Holds(rule, e)
  BY DEF StrictIsSound
<1>1. /\ DOMAIN events = 1..Len(events) /\ Len(events) \in Nat /\ Sorted
      /\ \A i \in 1..Len(events) : EventOK(events[i])
  BY LenProperties DEF PlanInv, EventsInv, EventsOK, Succeeds, Sorted
<1>2. PICK i \in 1..Len(events) : events[i] = e
  BY <1>1 DEF Range
<1>3. ~ViolatedAt(rule, events, i)
  BY <1>1, <1>2 DEF PlanInv, StrictInv, RuleWarnings
<1> DEFINE before == Preceding(events, i, rule.scope, rule.other)
           after  == Following(events, i, rule.scope, rule.other)
<1>4. ASSUME NEW j \in before
      PROVE  j \in 1..Len(events) /\ events[j] \in Before(e, rule)
  <2>1. j \in 1..Len(events) /\ j < i /\ IsOf(events[j], rule.other)
        /\ ScopeKey(events[j], rule.scope) = ScopeKey(e, rule.scope)
    BY <1>1, <1>2, <1>4 DEF Preceding
  <2>2. Earlier(events[j], e) /\ events[j] \in Range(events)
    BY <1>1, <1>2, <2>1, PositionIsTime DEF Range
  <2> QED BY <2>1, <2>2 DEF Before
<1>5. ASSUME NEW d \in Before(e, rule)
      PROVE  \E j \in before : events[j] = d
  <2>1. d \in Range(events) /\ IsOf(d, rule.other) /\ Earlier(d, e)
        /\ ScopeKey(d, rule.scope) = ScopeKey(e, rule.scope)
    BY <1>5 DEF Before
  <2>2. PICK j \in 1..Len(events) : events[j] = d
    BY <1>1, <2>1 DEF Range
  <2>3. j < i
    BY <1>1, <1>2, <2>1, <2>2, PositionIsTime
  <2>4. j \in 1..(i - 1)
    BY <1>1, <2>2, <2>3
  <2> QED BY <1>2, <2>1, <2>2, <2>4 DEF Preceding
<1>6. CASE rule.kind = "required_entity_ref"
  BY <1>2, <1>3, <1>6 DEF ViolatedAt, Holds
<1>7. CASE rule.kind = "event_after"
  <2>1. before # {}
    BY <1>3, <1>7 DEF ViolatedAt
  <2>2. Before(e, rule) # {}
    <3> HIDE DEF before
    <3> QED BY <1>4, <2>1
  <2> QED BY <1>7, <2>2 DEF Holds
<1>8. CASE rule.kind = "event_before"
  <2>1. PICK j \in after : TRUE
    BY <1>3, <1>8 DEF ViolatedAt
  <2>2. j \in 1..Len(events) /\ i < j /\ IsOf(events[j], rule.other)
        /\ ScopeKey(events[j], rule.scope) = ScopeKey(e, rule.scope)
    BY <1>1, <1>2, <2>1 DEF Following
  <2>3. Earlier(e, events[j]) /\ events[j] \in Range(events)
    BY <1>1, <1>2, <2>2, PositionIsTime DEF Range
  <2> QED BY <1>8, <2>2, <2>3 DEF Holds
<1>9. CASE rule.kind = "field_lte_ref"
  <2> DEFINE last == Max(before)
             d == events[last]
  <2>1. before # {} /\ ~Exceeds(e.amount, d.amount)
    BY <1>2, <1>3, <1>9 DEF ViolatedAt
  <2>2. before \subseteq 1..Len(events)
    <3> HIDE DEF before
    <3> QED BY <1>4
  <2>3. last \in before /\ \A j \in before : j <= last
    <3> HIDE DEF before
    <3> QED BY <1>1, <2>1, <2>2, MaxPosition
  <2> HIDE DEF last, before
  <2>4. d \in Before(e, rule) /\ last \in 1..Len(events)
    BY <1>4, <2>3
  <2>5. ASSUME NEW c \in Before(e, rule)
        PROVE  c = d \/ Earlier(c, d)
    <3>1. PICK j \in before : events[j] = c
      BY <1>5
    <3>2. j \in 1..Len(events) /\ j <= last
      BY <2>2, <2>3, <3>1
    <3>3. j = last \/ j < last
      BY <1>1, <2>4, <3>2
    <3> QED BY <1>1, <2>4, <3>1, <3>2, <3>3, PositionIsTime
  <2>6. /\ e.amount \notin {None, Text} /\ d.amount \notin {None, Text}
        /\ e.amount <= d.amount
    <3>1. /\ e.amount \in Int \cup {None, Text}
          /\ d.amount \in Int \cup {None, Text}
      BY <1>1, <1>2, <2>4 DEF EventOK
    <3> QED BY <2>1, <3>1 DEF Exceeds
  <2> QED BY <1>9, <2>4, <2>5, <2>6 DEF Holds
<1>10. CASE rule.kind \notin {"required_entity_ref", "event_after",
                              "event_before", "field_lte_ref"}
  BY <1>10 DEF Holds
<1> QED BY <1>6, <1>7, <1>8, <1>9, <1>10

(* A plan that --strict accepts satisfies every rule of the scenario and   *)
(* of its packs by the times of its events, whatever jitter has done.      *)
THEOREM StrictIsSoundHolds == Spec => []StrictIsSound
<1>1. ScenarioInv /\ PlanInv => StrictIsSound
  BY RulesAreKept
<1>2. Spec => []ScenarioInv
  BY PackInvariant, PTL
<1> QED BY <1>1, <1>2, PlanInvariant, PTL
-----------------------------------------------------------------------------
(* Where the references of a plan come from, and where its placeholders.   *)
EntityIds == {x.id : x \in Range(entities)}
Told      == \E w \in warnings \cup errors : w[1] \in {"no entity", "bad ref"}
RefOK(v, kind) ==
    v \in EntityIds \/ v \in Literals \/ (v = Nowhere /\ (kind = 0 => Told))
AllRefsOK(refs, kind) == \A r \in DOMAIN refs : RefOK(refs[r], kind)
RefInv ==
    /\ \A e \in Range(events) : AllRefsOK(e.refs, e.id[1])
    /\ draft # None => AllRefsOK(draft, 0)
    /\ \A e \in Range(events) : phase \in {"check", "done", "failed"} \/ e.sem = {}
    /\ \A e \in Range(events) : \A s \in e.sem :
          \E t \in Range(SemanticTasks) : t.id = s
    /\ phase # "done" => errors = {}

(* An entity stays, and so does a warning.                                 *)
LEMMA RefsStay ==
  ASSUME EntityIds \subseteq EntityIds', Told => Told',
         scenario' = scenario
  PROVE  /\ \A v, kind : RefOK(v, kind) => RefOK(v, kind)'
         /\ \A refs, kind : AllRefsOK(refs, kind) => AllRefsOK(refs, kind)'
<1>1. Literals' = Literals
  BY DEF Literals, TimelineLiterals, NoiseLiterals
<1>2. \A v, kind : RefOK(v, kind) => RefOK(v, kind)'
  BY <1>1 DEF RefOK
<1> QED BY <1>2 DEF AllRefsOK

LEMMA FlowIsEntity ==
  ASSUME ProgressInv, Expanding
  PROVE  FlowId \in EntityIds
<1>1. flow \in 1..Len(Primaries)
  <2>1. Len(Primaries) \in Nat
    BY TypeList DEF ProgressInv, Primaries
  <2> QED BY <2>1 DEF ProgressInv, Expanding
<1>2. Primaries[flow] \in Range(entities)
  BY <1>1, TypeList DEF ProgressInv, Primaries
<1> QED BY <1>2 DEF FlowId, EntityIds

LEMMA IdsOfEntities ==
  ASSUME ProgressInv, NEW type
  PROVE  IdsOf(type) \subseteq EntityIds
BY TypeList DEF ProgressInv, IdsOf, EntityIds

(* Each way to resolve a reference gives an id, a literal or a warning.    *)
LEMMA ResolveValue ==
  ASSUME ScenarioInv, PlanInv, RefInv, phase = "expand", ResolveRef,
         UNCHANGED errors
  PROVE  /\ EntityIds \subseteq EntityIds' /\ (Told => Told')
         /\ \E v : Refer(v) /\ RefOK(v, 0)'
<1>1. AtRef
  BY DEF ResolveRef, RefFlow, RefEntity, RefNew, RefPrevious, RefPlain
<1>2. /\ step \in 1..Len(scenario.timeline) /\ Expanding
      /\ resolved \in Nat /\ resolved < Len(Item.refs)
  BY <1>1 DEF PlanInv, ProgressInv, AtRef
<1>3. ItemOK(Item) /\ Item \in Range(scenario.timeline)
  BY <1>2, ItemAt DEF Item
<1>4. Item.refs[resolved + 1] \in Range(Item.refs)
  <2>1. Item.refs \in Seq(Range(Item.refs))
    BY <1>3 DEF ItemOK
  <2>2. resolved + 1 \in 1..Len(Item.refs)
    BY <1>2, <2>1, LenProperties
  <2> QED BY <2>1, <2>2, ElementOfSeq
<1>5. ASSUME NEW w, warnings' = warnings \cup {w}, w[1] \in {"no entity", "bad ref"}
      PROVE  Told'
  BY <1>5 DEF Told
<1>6. warnings' = warnings => (Told => Told')
  BY DEF Told
<1>7. entities' = entities => EntityIds' = EntityIds
  BY DEF EntityIds
<1>8. FlowId \in EntityIds /\ \A type : IdsOf(type) \subseteq EntityIds
  BY <1>2, FlowIsEntity, IdsOfEntities DEF PlanInv
<1>9. \A v : v \in EntityIds' => RefOK(v, 0)'
  BY DEF RefOK
<1>10. Told' => RefOK(Nowhere, 0)'
  BY DEF RefOK
<1>11. ASSUME NEW v, Known(v), v \in EntityIds
       PROVE  /\ EntityIds \subseteq EntityIds' /\ (Told => Told')
              /\ Refer(v) /\ RefOK(v, 0)'
  BY <1>6, <1>7, <1>9, <1>11 DEF Known
<1>12. ASSUME NEW w, Unresolved(w), w[1] \in {"no entity", "bad ref"}
       PROVE  /\ EntityIds \subseteq EntityIds' /\ (Told => Told')
              /\ Refer(Nowhere) /\ RefOK(Nowhere, 0)'
  BY <1>5, <1>7, <1>10, <1>12 DEF Unresolved
<1>13. CASE RefFlow
  BY <1>8, <1>11, <1>13 DEF RefFlow
<1>14. CASE RefEntity
  <2>1. CASE IdsOf(Ref.type) = {}
    <3>1. Unresolved(<<"no entity", Ref.type>>)
      BY <1>14, <2>1 DEF RefEntity
    <3>2. PICK w : w = <<"no entity", Ref.type>>
      OBVIOUS
    <3>3. w[1] \in {"no entity", "bad ref"}
      BY <3>2
    <3> QED BY <1>12, <3>1, <3>2, <3>3
  <2>2. CASE IdsOf(Ref.type) # {}
    <3>1. PICK id \in IdsOf(Ref.type) : Known(id)
      BY <1>14, <2>2 DEF RefEntity
    <3> QED BY <1>8, <1>11, <3>1
  <2> QED BY <2>1, <2>2
<1>15. CASE RefNew
  <2> DEFINE n == made[Ref.type] + 1
  <2>0. PICK x : x = [id |-> <<Ref.type, n>>, type |-> Ref.type, fields |-> {}]
    OBVIOUS
  <2>1. /\ entities' = Append(entities, x) /\ Refer(<<Ref.type, n>>)
        /\ warnings' = warnings
    BY <1>15, <2>0 DEF RefNew
  <2>2. x.id = <<Ref.type, n>>
    BY <2>0
  <2> HIDE DEF n
  <2>3. Range(entities') = Range(entities) \cup {x}
    <3>1. Range(Append(entities, x)) = Range(entities) \cup {x}
      BY AppendOwn DEF PlanInv, ProgressInv
    <3> QED BY <2>1, <3>1
  <2>4. PICK v : v = <<Ref.type, n>>
    OBVIOUS
  <2>5. EntityIds \subseteq EntityIds' /\ v \in EntityIds'
    BY <2>2, <2>3, <2>4 DEF EntityIds
  <2> QED BY <1>6, <1>9, <2>1, <2>4, <2>5
<1>16. CASE RefPrevious
  <2> DEFINE prev == Latest(ById(Ref.step))
  <2>1. CASE ById(Ref.step) # {} /\ Ref.role \in DOMAIN prev.refs
    <3>1. Known(prev.refs[Ref.role])
      BY <1>16, <2>1 DEF RefPrevious
    <3>2. ById(Ref.step) \subseteq OfFlow
      BY DEF ById
    <3>3. prev \in Range(events) /\ prev.id[1] = 0
      <4>1. /\ Max(ById(Ref.step)) \in ById(Ref.step)
            /\ prev = events[Max(ById(Ref.step))] /\ prev \in Range(events)
        BY <2>1, <3>2, LatestOf DEF PlanInv
      <4> QED BY <3>2, <4>1 DEF OfFlow
    <3>4. RefOK(prev.refs[Ref.role], 0)
      BY <2>1, <3>3 DEF RefInv, AllRefsOK
    <3>5. PICK v : v = prev.refs[Ref.role]
      OBVIOUS
    <3>6. Known(v) /\ RefOK(v, 0)
      BY <3>1, <3>4, <3>5
    <3>7. /\ scenario' = scenario /\ UNCHANGED <<entities, made, warnings>>
          /\ Refer(v)
      BY <3>6 DEF Known, Refer
    <3>8. EntityIds' = EntityIds /\ (Told => Told')
      BY <1>6, <1>7, <3>7
    <3>9. RefOK(v, 0)'
      BY <3>6, <3>7, <3>8, RefsStay
    <3> QED BY <3>7, <3>8, <3>9
  <2>2. CASE ~(ById(Ref.step) # {} /\ Ref.role \in DOMAIN prev.refs)
    <3>1. Unresolved(<<"bad ref", Ref.step, Ref.role>>)
      BY <1>16, <2>2 DEF RefPrevious
    <3>2. PICK w : w = <<"bad ref", Ref.step, Ref.role>>
      OBVIOUS
    <3>3. w[1] \in {"no entity", "bad ref"}
      BY <3>2
    <3> QED BY <1>12, <3>1, <3>2, <3>3
  <2> QED BY <2>1, <2>2
<1>17. CASE RefPlain
  <2>1. CASE IdsOf(Ref.name) # {}
    <3>1. PICK id \in IdsOf(Ref.name) : Known(id)
      BY <1>17, <2>1 DEF RefPlain
    <3> QED BY <1>8, <1>11, <3>1
  <2>2. CASE IdsOf(Ref.name) = {}
    <3>1. PICK v : v = <<Ref.name>>
      OBVIOUS
    <3>2. Known(v) /\ Ref.kind = "plain"
      BY <1>17, <2>2, <3>1 DEF RefPlain
    <3>3. v \in Literals
      BY <1>3, <1>4, <3>1, <3>2 DEF Literals, TimelineLiterals, Plain, Ref
    <3>4. /\ scenario' = scenario /\ UNCHANGED <<entities, made, warnings>>
          /\ Refer(v)
      BY <3>2 DEF Known, Refer
    <3>5. EntityIds' = EntityIds /\ (Told => Told')
      BY <1>6, <1>7, <3>4
    <3>6. RefOK(v, 0)'
      BY <3>3, <3>4, <3>5, RefsStay DEF RefOK
    <3> QED BY <3>4, <3>5, <3>6
  <2> QED BY <2>1, <2>2
<1> QED BY <1>13, <1>14, <1>15, <1>16, <1>17 DEF ResolveRef

LEMMA TasksStay == scenario' = scenario => SemanticTasks' = SemanticTasks
BY DEF SemanticTasks

(* Calls that leave the references of the events what they are.            *)
LEMMA KeepRefInv ==
  ASSUME RefInv, scenario' = scenario, EntityIds \subseteq EntityIds',
         Told => Told', Range(events') = Range(events),
         draft' # None => draft # None /\ draft' = draft,
         errors' = errors, phase' = "done" <=> phase = "done",
         phase' \in {"check", "done", "failed"} \/
            phase \notin {"check", "done", "failed"}
  PROVE  RefInv'
<1>1. SemanticTasks' = SemanticTasks
  BY TasksStay
<1>2. \A refs, kind : AllRefsOK(refs, kind) => AllRefsOK(refs, kind)'
  BY RefsStay
<1>3. \A e \in Range(events') : AllRefsOK(e.refs, e.id[1])'
  BY <1>2 DEF RefInv
<1>4. draft' # None => AllRefsOK(draft, 0)'
  <2> SUFFICES ASSUME draft' # None PROVE AllRefsOK(draft, 0)'
    OBVIOUS
  <2>1. PICK d : d = draft
    OBVIOUS
  <2>2. AllRefsOK(d, 0)' /\ draft' = d
    BY <1>2, <2>1 DEF RefInv
  <2> QED BY <2>2 DEF AllRefsOK
<1>5. \A e \in Range(events') :
         phase' \in {"check", "done", "failed"} \/ e.sem = {}
  BY DEF RefInv
<1>6. \A e \in Range(events') : \A s \in e.sem :
         \E t \in Range(SemanticTasks') : t.id = s
  BY <1>1 DEF RefInv
<1>7. phase' # "done" => errors' = {}
  BY DEF RefInv
<1> QED BY <1>3, <1>4, <1>5, <1>6, <1>7 DEF RefInv

LEMMA ResolveRefInv ==
  ASSUME ScenarioInv, PlanInv, RefInv, phase = "expand", phase' = "expand",
         ResolveRef, UNCHANGED errors
  PROVE  RefInv'
<1>1. /\ EntityIds \subseteq EntityIds' /\ (Told => Told')
      /\ \E v : Refer(v) /\ RefOK(v, 0)'
  BY ResolveValue
<1>2. PICK v : Refer(v) /\ RefOK(v, 0)'
  BY <1>1
<1>3. /\ scenario' = scenario /\ events' = events /\ draft # None
      /\ draft' = With(draft, Role, v)
  BY <1>2 DEF Refer, ResolveRef, RefFlow, RefEntity, RefNew, RefPrevious,
     RefPlain, AtRef
<1>4. \A refs, kind : AllRefsOK(refs, kind) => AllRefsOK(refs, kind)'
  BY <1>1, <1>3, RefsStay
<1>5. SemanticTasks' = SemanticTasks
  BY <1>3, TasksStay
<1>6. PICK d : d = draft
  OBVIOUS
<1>7. PICK more : more = With(draft, Role, v)
  OBVIOUS
<1>8. AllRefsOK(d, 0)' /\ draft' = more
  BY <1>3, <1>4, <1>6, <1>7 DEF RefInv
<1>9. ASSUME NEW r \in DOMAIN more PROVE RefOK(more[r], 0)'
  <2>1. more[r] = v \/ (r \in DOMAIN d /\ more[r] = d[r])
    BY <1>6, <1>7 DEF With
  <2>2. \A s \in DOMAIN d : RefOK(d[s], 0)'
    BY <1>8 DEF AllRefsOK
  <2> QED BY <1>2, <2>1, <2>2
<1>10. AllRefsOK(draft, 0)'
  BY <1>8, <1>9 DEF AllRefsOK
<1>11. \A e \in Range(events') : AllRefsOK(e.refs, e.id[1])'
  BY <1>3, <1>4 DEF RefInv
<1> QED BY <1>3, <1>5, <1>10, <1>11 DEF RefInv

LEMMA BeginRefInv ==
  ASSUME ScenarioInv, PlanInv, RefInv, phase = "expand", phase' = "expand",
         BeginStep, UNCHANGED errors
  PROVE  RefInv'
<1>1. /\ scenario' = scenario /\ entities' = entities /\ events' = events
      /\ warnings' = warnings /\ Expanding
      /\ draft' = [role \in {"flow"} |-> FlowId]
  BY DEF BeginStep, AtItem
<1>2. EntityIds' = EntityIds /\ Told' = Told
  BY <1>1 DEF EntityIds, Told
<1>3. \A refs, kind : AllRefsOK(refs, kind) => AllRefsOK(refs, kind)'
  BY <1>1, <1>2, RefsStay
<1>4. FlowId \in EntityIds
  BY <1>1, FlowIsEntity DEF PlanInv
<1>5. PICK v : v = FlowId
  OBVIOUS
<1>6. v \in EntityIds' /\ draft' = [role \in {"flow"} |-> v]
  BY <1>1, <1>2, <1>4, <1>5
<1>7. AllRefsOK(draft, 0)'
  BY <1>6 DEF AllRefsOK, RefOK
<1>8. \A e \in Range(events') : AllRefsOK(e.refs, e.id[1])'
  BY <1>1, <1>3 DEF RefInv
<1>9. SemanticTasks' = SemanticTasks
  BY <1>1, TasksStay
<1> QED BY <1>1, <1>7, <1>8, <1>9 DEF RefInv

LEMMA AppendRefInv ==
  ASSUME RefInv, events \in Seq(Range(events)), scenario' = scenario,
         entities' = entities, warnings' = warnings, errors' = errors,
         NEW e, events' = Append(events, e), AllRefsOK(e.refs, e.id[1]),
         e.sem = {}, draft' # None => draft # None /\ draft' = draft,
         phase' = phase, phase # "done"
  PROVE  RefInv'
<1>1. EntityIds' = EntityIds /\ Told' = Told
  BY DEF EntityIds, Told
<1>2. \A refs, kind : AllRefsOK(refs, kind) => AllRefsOK(refs, kind)'
  BY <1>1, RefsStay
<1>3. Range(events') = Range(events) \cup {e}
  BY EventsAppend
<1>4. \A d \in Range(events') : AllRefsOK(d.refs, d.id[1])'
  BY <1>2, <1>3 DEF RefInv
<1>5. SemanticTasks' = SemanticTasks
  BY TasksStay
<1>6. draft' # None => AllRefsOK(draft, 0)'
  <2> SUFFICES ASSUME draft' # None PROVE AllRefsOK(draft, 0)'
    OBVIOUS
  <2>1. PICK d : d = draft
    OBVIOUS
  <2>2. AllRefsOK(d, 0)' /\ draft' = d
    BY <1>2, <2>1 DEF RefInv
  <2> QED BY <2>2 DEF AllRefsOK
<1> QED BY <1>3, <1>4, <1>5, <1>6 DEF RefInv

LEMMA EmitRefInv ==
  ASSUME ScenarioInv, PlanInv, RefInv, phase = "expand", phase' = "expand",
         EmitEvent, UNCHANGED errors
  PROVE  RefInv'
<1>1. PICK e : e = [id |-> <<0, flow, step>>, flow |-> FlowId,
                    key |-> StepKey(Item), type |-> Item.event, time |-> now,
                    refs |-> draft, amount |-> Item.amount, sem |-> {}]
  OBVIOUS
<1>2. /\ events' = Append(events, e) /\ draft # None /\ draft' = None
      /\ scenario' = scenario /\ entities' = entities /\ warnings' = warnings
  BY <1>1 DEF EmitEvent
<1>3. AllRefsOK(e.refs, e.id[1]) /\ e.sem = {}
  BY <1>1, <1>2 DEF RefInv
<1>4. events \in Seq(Range(events))
  BY DEF PlanInv, EventsInv, EventsOK
<1> QED BY <1>2, <1>3, <1>4, AppendRefInv

LEMMA NoiseRefInv ==
  ASSUME ScenarioInv, PlanInv, RefInv, phase = "noise", phase' = "noise",
         AddNoise, UNCHANGED errors
  PROVE  RefInv'
<1>1. PICK spec \in Range(scenario.noise.events) :
        \E t, v : /\ v \in NoiseRef(spec.spec)
                  /\ events' = Append(events,
                       [id |-> <<1, NoiseNumber, 0>>, flow |-> None, key |-> None,
                        type |-> spec.event, time |-> t,
                        refs |-> [r \in {spec.role} |-> v], amount |-> None,
                        sem |-> {}])
  BY DEF AddNoise
<1>2. PICK t, v : /\ v \in NoiseRef(spec.spec)
                  /\ events' = Append(events,
                       [id |-> <<1, NoiseNumber, 0>>, flow |-> None, key |-> None,
                        type |-> spec.event, time |-> t,
                        refs |-> [r \in {spec.role} |-> v], amount |-> None,
                        sem |-> {}])
  BY <1>1
<1>3. PICK e : e = [id |-> <<1, NoiseNumber, 0>>, flow |-> None, key |-> None,
                    type |-> spec.event, time |-> t,
                    refs |-> [r \in {spec.role} |-> v], amount |-> None,
                    sem |-> {}]
  OBVIOUS
<1>4. scenario.noise # None
  BY DEF AddNoise, PlanInv, ProgressInv
<1>5. v \in EntityIds \/ v \in Literals \/ v = Nowhere
  <2>1. \A type : IdsOf(type) \subseteq EntityIds
    BY IdsOfEntities DEF PlanInv
  <2>2. CASE spec.spec.kind \in {"entity", "flow"}
    BY <1>2, <2>1, <2>2 DEF NoiseRef
  <2>3. CASE spec.spec.kind \notin {"entity", "flow"}
    <3>1. v = <<spec.spec.name>>
      BY <1>2, <2>3 DEF NoiseRef
    <3>2. v \in {<<n.spec.name>> : n \in
                   {m \in Range(scenario.noise.events) :
                      m.spec.kind \notin {"entity", "flow"}}}
      BY <1>1, <2>3, <3>1
    <3>3. v \in NoiseLiterals
      BY <1>4, <3>2 DEF NoiseLiterals
    <3> QED BY <3>3 DEF Literals
  <2> QED BY <2>2, <2>3
<1>6. RefOK(v, 1)
  BY <1>5 DEF RefOK
<1>7. AllRefsOK(e.refs, e.id[1]) /\ e.sem = {}
  BY <1>3, <1>6 DEF AllRefsOK
<1>8. /\ events' = Append(events, e) /\ draft' = draft
      /\ scenario' = scenario /\ entities' = entities /\ warnings' = warnings
  BY <1>2, <1>3 DEF AddNoise
<1>9. events \in Seq(Range(events))
  BY DEF PlanInv, EventsInv, EventsOK
<1> QED BY <1>7, <1>8, <1>9, AppendRefInv

(* Jitter and placeholders change an event, but not what it refers to.     *)
LEMMA ChangeRefs ==
  ASSUME RefInv, PlanInv, scenario' = scenario, entities' = entities,
         warnings' = warnings, errors' = errors, draft' = draft,
         Len(events') = Len(events), events' \in Seq(Range(events')),
         \A j \in 1..Len(events) : /\ events'[j].refs = events[j].refs
                                   /\ events'[j].id = events[j].id
  PROVE  /\ \A e \in Range(events') : AllRefsOK(e.refs, e.id[1])'
         /\ draft' # None => AllRefsOK(draft, 0)'
<1>1. EntityIds' = EntityIds /\ Told' = Told
  BY DEF EntityIds, Told
<1>2. \A refs, kind : AllRefsOK(refs, kind) => AllRefsOK(refs, kind)'
  BY <1>1, RefsStay
<1>3. DOMAIN events = 1..Len(events) /\ DOMAIN events' = 1..Len(events)
  BY LenProperties DEF PlanInv, EventsInv, EventsOK
<1>4. ASSUME NEW e \in Range(events') PROVE AllRefsOK(e.refs, e.id[1])'
  <2>1. PICK j \in 1..Len(events) : e = events'[j]
    BY <1>3 DEF Range
  <2>2. PICK d : d = events[j]
    OBVIOUS
  <2>3. e.refs = d.refs /\ e.id = d.id /\ d \in Range(events)
    BY <1>3, <2>1, <2>2 DEF Range
  <2>4. AllRefsOK(d.refs, d.id[1])'
    BY <1>2, <2>3 DEF RefInv
  <2> QED BY <2>3, <2>4
<1>5. draft' # None => AllRefsOK(draft, 0)'
  <2> SUFFICES ASSUME draft' # None PROVE AllRefsOK(draft, 0)'
    OBVIOUS
  <2>1. PICK d : d = draft
    OBVIOUS
  <2>2. AllRefsOK(d, 0)' /\ draft' = d
    BY <1>2, <2>1 DEF RefInv
  <2> QED BY <2>2 DEF AllRefsOK
<1> QED BY <1>4, <1>5

LEMMA JitterRefInv ==
  ASSUME ScenarioInv, PlanInv, RefInv, phase = "jitter", phase' = "jitter",
         JitterEvent, UNCHANGED errors
  PROVE  RefInv'
<1>1. /\ UNCHANGED <<scenario, entities, warnings, draft>>
  BY DEF JitterEvent
<1>2. jittered \in Nat /\ EventsInv /\ JitterOn
  BY JitterPlanInv DEF PlanInv, ProgressInv
<1>3. /\ Len(events') = Len(events) /\ events' \in Seq(Range(events'))
      /\ \A j \in 1..Len(events) :
            \A x \in DOMAIN events[j] : x # "time" => events'[j][x] = events[j][x]
  BY <1>2, JitterMoves
<1>4. \A j \in 1..Len(events) :
         /\ events'[j].refs = events[j].refs /\ events'[j].id = events[j].id
         /\ events'[j].sem = events[j].sem
  BY <1>3 DEF PlanInv, EventsInv, EventsOK, EventOK
<1>5. /\ \A e \in Range(events') : AllRefsOK(e.refs, e.id[1])'
      /\ draft' # None => AllRefsOK(draft, 0)'
  BY <1>1, <1>3, <1>4, ChangeRefs
<1>6. DOMAIN events = 1..Len(events) /\ DOMAIN events' = 1..Len(events)
  BY <1>3, LenProperties DEF PlanInv, EventsInv, EventsOK
<1>7. \A e \in Range(events') : e.sem = {}
  <2> SUFFICES ASSUME NEW e \in Range(events') PROVE e.sem = {}
    OBVIOUS
  <2>1. PICK j \in 1..Len(events) : e = events'[j]
    BY <1>6 DEF Range
  <2>2. events[j] \in Range(events)
    BY <1>6 DEF Range
  <2> QED BY <1>4, <2>1, <2>2 DEF RefInv
<1> QED BY <1>5, <1>7 DEF RefInv

LEMMA AttachRefInv ==
  ASSUME ScenarioInv, PlanInv, RefInv, AttachRefs
  PROVE  RefInv'
<1>1. /\ UNCHANGED <<scenario, entities, warnings, draft, errors>>
      /\ phase = "attach" /\ phase' = "check"
  BY DEF AttachRefs, OnlyEventsChange, Goto, Keep
<1>2. /\ Len(events') = Len(events) /\ events' \in Seq(Range(events'))
      /\ \A j \in 1..Len(events) :
            /\ \A x \in DOMAIN events[j] : x # "sem" => events'[j][x] = events[j][x]
            /\ events'[j].sem = events[j].sem \cup
                  {t.id : t \in {u \in Range(SemanticTasks) :
                     u.validFor = {} \/ events[j].type \in u.validFor}}
  BY AttachMarks DEF PlanInv
<1>3. \A j \in 1..Len(events) :
         events'[j].refs = events[j].refs /\ events'[j].id = events[j].id
  BY <1>2 DEF PlanInv, EventsInv, EventsOK, EventOK
<1>4. /\ \A e \in Range(events') : AllRefsOK(e.refs, e.id[1])'
      /\ draft' # None => AllRefsOK(draft, 0)'
  BY <1>1, <1>2, <1>3, ChangeRefs
<1>5. DOMAIN events = 1..Len(events) /\ DOMAIN events' = 1..Len(events)
  BY <1>2, LenProperties DEF PlanInv, EventsInv, EventsOK
<1>6. SemanticTasks' = SemanticTasks
  BY <1>1, TasksStay
<1>7. ASSUME NEW e \in Range(events'), NEW s \in e.sem
      PROVE  \E t \in Range(SemanticTasks') : t.id = s
  <2>1. PICK j \in 1..Len(events) : e = events'[j]
    BY <1>5 DEF Range
  <2>2. events[j].sem = {}
    BY <1>1, <1>5 DEF RefInv, Range
  <2>3. s \in {t.id : t \in {u \in Range(SemanticTasks) :
                   u.validFor = {} \/ events[j].type \in u.validFor}}
    BY <1>2, <1>7, <2>1, <2>2
  <2> QED BY <1>6, <2>3
<1> QED BY <1>1, <1>4, <1>7 DEF RefInv

LEMMA CheckRefInv ==
  ASSUME ScenarioInv, PlanInv, RefInv, Check
  PROVE  RefInv'
<1>1. /\ UNCHANGED <<scenario, entities, draft, events>> /\ phase = "check"
      /\ phase' = "done"
  BY DEF Check
<1>2. Told => Told'
  <2>1. errors = {}
    BY <1>1 DEF RefInv
  <2>2. \A w \in warnings : w \in warnings' \cup errors'
    BY DEF Check, Result
  <2> QED BY <2>1, <2>2 DEF Told
<1>3. EntityIds' = EntityIds
  BY <1>1 DEF EntityIds
<1>4. \A refs, kind : AllRefsOK(refs, kind) => AllRefsOK(refs, kind)'
  BY <1>1, <1>2, <1>3, RefsStay
<1>5. draft' = None
  BY <1>1 DEF PlanInv, ProgressInv
<1>6. SemanticTasks' = SemanticTasks
  BY <1>1, TasksStay
<1>7. \A e \in Range(events') : AllRefsOK(e.refs, e.id[1])'
  BY <1>1, <1>4 DEF RefInv
<1> QED BY <1>1, <1>5, <1>6, <1>7 DEF RefInv

LEMMA InitRefInv == CompileInit => RefInv
<1> SUFFICES ASSUME CompileInit PROVE RefInv
  OBVIOUS
<1>1. events = <<>> /\ draft = None /\ errors = {}
  BY DEF CompileInit, Init
<1>2. Range(events) = {}
  BY <1>1 DEF Range
<1> QED BY <1>1, <1>2 DEF RefInv

LEMMA NextRefInv ==
  ASSUME ScenarioInv, PlanInv, PlanInv', RefInv, [Next]_vars
  PROVE  RefInv'
<1> DEFINE Nothing == /\ Range(events') = {} /\ draft' = None /\ errors' = {}
<1>0. Nothing => RefInv'
  BY DEF RefInv
<1>1. entities' = entities => EntityIds' = EntityIds
  BY DEF EntityIds
<1>2. warnings' = warnings /\ errors' = errors => (Told => Told')
  BY DEF Told
<1>3. UNCHANGED events => Range(events') = Range(events)
  OBVIOUS
<1>4. phase \in {"packs", "entities"} =>
         Range(events) = {} /\ draft = None /\ errors = {}
  <2> SUFFICES ASSUME phase \in {"packs", "entities"}
              PROVE  Range(events) = {} /\ draft = None /\ errors = {}
    OBVIOUS
  <2>1. events = <<>>
    BY DEF PlanInv, IdsInv
  <2>2. Range(events) = {}
    BY <2>1 DEF Range
  <2>3. draft = None
    BY DEF PlanInv, ProgressInv
  <2>4. errors = {}
    BY DEF RefInv
  <2> QED BY <2>2, <2>3, <2>4
<1> HIDE DEF Nothing
<1>5. CASE LoadPacks
  <2>1. phase = "packs" /\ UNCHANGED <<events, draft, errors>>
    BY <1>5 DEF LoadPacks, Goto, Keep, timelineVars
  <2> QED BY <1>0, <1>3, <1>4, <2>1 DEF Nothing
<1>6. CASE LoadFails
  <2>1. phase = "packs" /\ UNCHANGED <<events, draft, errors>>
    BY <1>6 DEF LoadFails, Goto, Keep, timelineVars
  <2> QED BY <1>0, <1>3, <1>4, <2>1 DEF Nothing
<1>7. CASE ResolveRealism
  <2>1. phase = "packs" /\ UNCHANGED <<events, draft, errors>>
    BY <1>7 DEF ResolveRealism, Goto, Keep
  <2> QED BY <1>0, <1>3, <1>4, <2>1 DEF Nothing
<1>8. CASE Entities
  <2>1. phase = "entities" /\ UNCHANGED <<events, draft, errors>>
    BY <1>8 DEF Entities, GenerateEntities, Goto, Keep
  <2> QED BY <1>0, <1>3, <1>4, <2>1 DEF Nothing
<1>9. CASE Expand
  <2>1. phase = "expand" /\ phase' = "expand" /\ UNCHANGED errors
    BY <1>9 DEF Expand, Goto, Keep
  <2>2. CASE SkipStep
    <3>1. UNCHANGED <<scenario, entities, warnings, events, draft>>
      BY <2>2 DEF SkipStep
    <3> QED BY <1>1, <1>2, <2>1, <3>1, KeepRefInv
  <2>3. CASE BeginStep
    BY <2>1, <2>3, BeginRefInv
  <2>4. CASE ResolveRef
    BY <2>1, <2>4, ResolveRefInv
  <2>5. CASE EmitEvent
    BY <2>1, <2>5, EmitRefInv
  <2>6. CASE NextFlow
    <3>1. UNCHANGED <<scenario, entities, warnings, events, draft>>
      BY <2>6 DEF NextFlow
    <3> QED BY <1>1, <1>2, <2>1, <3>1, KeepRefInv
  <2> QED BY <1>9, <2>2, <2>3, <2>4, <2>5, <2>6 DEF Expand, ExpandStep
<1>10. CASE Expanded
  <2>1. /\ phase = "expand" /\ phase' = "noise"
        /\ UNCHANGED <<errors, scenario, entities, warnings, draft>>
        /\ events' = InPlanOrder(Range(events))
    BY <1>10 DEF Expanded, StartNoise, Goto, Keep
  <2>2. Range(events') = Range(events)
    BY <2>1, InPlanOrderEvents DEF PlanInv, EventsInv
  <2> QED BY <1>1, <1>2, <2>1, <2>2, KeepRefInv
<1>11. CASE Noise
  <2>1. /\ phase = "noise" /\ phase' = "noise" /\ UNCHANGED errors
        /\ AddNoise
    BY <1>11 DEF Noise, Goto, Keep
  <2> QED BY <2>1, NoiseRefInv
<1>12. CASE NoiseAdded
  <2>1. /\ phase = "noise" /\ phase' = "jitter"
        /\ UNCHANGED <<errors, scenario, entities, warnings, draft>>
        /\ events' = Grouped \/ events' = events
    BY <1>12 DEF NoiseAdded, StartJitter, Goto, Keep
  <2>2. Range(events') = Range(events)
    BY <2>1, GroupedEvents DEF PlanInv
  <2> QED BY <1>1, <1>2, <2>1, <2>2, KeepRefInv
<1>13. CASE Jitter
  <2>1. /\ phase = "jitter" /\ phase' = "jitter" /\ UNCHANGED errors
        /\ JitterEvent
    BY <1>13 DEF Jitter, Goto, Keep
  <2> QED BY <2>1, JitterRefInv
<1>14. CASE FinalSort
  <2>1. /\ phase = "jitter" /\ phase' = "attach"
        /\ UNCHANGED <<errors, scenario, entities, warnings, draft>>
        /\ events' = InPlanOrder(Range(events))
    BY <1>14 DEF FinalSort, OnlyEventsChange, Goto, Keep
  <2>2. Range(events') = Range(events)
    BY <2>1, InPlanOrderEvents DEF PlanInv, EventsInv
  <2> QED BY <1>1, <1>2, <2>1, <2>2, KeepRefInv
<1>15. CASE AttachRefs
  BY <1>15, AttachRefInv
<1>16. CASE Check
  BY <1>16, CheckRefInv
<1>17. CASE CheckRaises
  <2>1. /\ phase = "check" /\ phase' = "failed"
        /\ UNCHANGED <<errors, scenario, entities, warnings, draft, events>>
    BY <1>17 DEF CheckRaises, Goto, Keep, timelineVars
  <2> QED BY <1>1, <1>2, <2>1, KeepRefInv
<1>18. CASE ExpandFails
  <2>1. /\ phase = "expand" /\ phase' = "failed"
        /\ UNCHANGED <<errors, scenario, entities, warnings, draft, events>>
    BY <1>18 DEF ExpandFails, Goto, Keep, timelineVars
  <2> QED BY <1>1, <1>2, <2>1, KeepRefInv
<1>19. CASE Rest \/ UNCHANGED vars
  <2>1. UNCHANGED <<errors, scenario, entities, warnings, draft, events, phase>>
    BY <1>19 DEF Rest, vars, timelineVars
  <2> QED BY <1>1, <1>2, <2>1, KeepRefInv
<1> QED BY <1>5, <1>6, <1>7, <1>8, <1>9, <1>10, <1>11, <1>12, <1>13, <1>14,
     <1>15, <1>16, <1>17, <1>18, <1>19 DEF Next, Planner

(* Whatever the compiler is doing, what an event of the plan refers to is  *)
(* an entity, a string of the scenario, or empty with a warning.           *)
THEOREM RefInvariant == Spec => []RefInv
<1>1. CompileInit => RefInv
  BY InitRefInv
<1>2. ScenarioInv /\ PlanInv /\ PlanInv' /\ RefInv /\ [Next]_vars => RefInv'
  BY NextRefInv
<1>3. Spec => []ScenarioInv
  BY PackInvariant, PTL
<1> QED BY <1>1, <1>2, <1>3, PlanInvariant, PTL DEF Spec

(* A reference of a finished plan, of the timeline or of its noise, leads  *)
(* somewhere or was reported, and a placeholder names a task.              *)
THEOREM RefsResolveHolds == Spec => []RefsResolve
<1>1. RefInv => RefsResolve
  BY DEF RefInv, AllRefsOK, RefOK, RefsResolve, EntityIds, Told
<1> QED BY <1>1, RefInvariant, PTL
-----------------------------------------------------------------------------
(* A step that comes after another, by its own delay: in any set of events *)
(* it is not before the last one of the flow that has that key.            *)
FollowsIn(L, e, item) ==
    {b \in L : /\ b.id[1] = 0 /\ b.id[2] = e.id[2] /\ b.id[3] < e.id[3]
               /\ b.key = item.after}
AfterIn(L, timeline) ==
    \A e \in L : e.id[1] = 0 /\ Follows(timeline[e.id[3]]) =>
       \A b \in FollowsIn(L, e, timeline[e.id[3]]) :
          (\A c \in FollowsIn(L, e, timeline[e.id[3]]) : c.id[3] <= b.id[3]) =>
             b.time <= e.time

(* Noise has no key, and a number of a flow stands for one flow.           *)
KeysIn(L) ==
    /\ \A e \in L : e.id[1] = 1 => e.key = None
    /\ \A d, e \in L : d.id[1] = 0 /\ e.id[1] = 0 /\ d.id[2] = e.id[2] =>
                          d.flow = e.flow
FlowsOK(L, timeline) == AfterIn(L, timeline) /\ KeysIn(L)

(* While the timeline is expanded, ids grow, an event belongs to the       *)
(* primary entity of its number, and the time of the event being made is   *)
(* not before the one that it follows.                                     *)
GrowInv ==
    /\ \A i, j \in 1..Len(events) : i < j => IdBefore(events[i].id, events[j].id)
    /\ \A i \in 1..Len(events) :
          /\ events[i].id[2] \in 1..Len(Primaries)
          /\ events[i].flow = Primaries[events[i].id[2]].id
DraftInv ==
    draft # None /\ Follows(Item) /\ ById(Item.after) # {} =>
       Latest(ById(Item.after)).time <= now

(* While jitter is applied: what has been reached keeps its order and its  *)
(* margin, and the rest is as planned.                                     *)
InMargin(d, e) == e.time - d.time \in (-Margin)..(Margin + Cardinality(Ahead(d)))
InGroups(list) ==
    \A i, j \in 1..Len(list) : i < j /\ list[i].flow = list[j].flow =>
       /\ Earlier(list[i], list[j])
       /\ \A k \in i..j : list[k].flow = list[i].flow
JitterInv ==
    /\ Len(events) = Len(planned)
    /\ \A i \in 1..Len(planned) :
          /\ events[i].id = planned[i].id /\ events[i].flow = planned[i].flow
          /\ InMargin(planned[i], events[i])
          /\ ~JitterOn \/ jittered < i => events[i].time = planned[i].time
    /\ JitterOn /\ Kept =>
          /\ InGroups(planned)
          /\ \A i, j \in 1..jittered :
                i < j /\ planned[i].flow = planned[j].flow =>
                   events[i].time < events[j].time

(* From then on, for the events that have the same ids.                    *)
DriftInv ==
    \A d \in Range(planned) : \E e \in Range(events) :
       e.id = d.id /\ InMargin(d, e)
OrderInv ==
    \A d, e \in Range(planned), x, y \in Range(events) :
       d.flow = e.flow /\ Earlier(d, e) /\ x.id = d.id /\ y.id = e.id =>
          Earlier(x, y)

FlowInv ==
    /\ phase = "expand" => GrowInv /\ DraftInv
    /\ phase \in {"expand", "noise"} =>
          FlowsOK(Range(events), scenario.timeline)
    /\ phase \in {"jitter", "attach", "check", "done"} =>
          EventsOK(planned) /\ FlowsOK(Range(planned), scenario.timeline)
    /\ phase = "jitter" => JitterInv
    /\ Sorted => DriftInv /\ (Kept => OrderInv)

(* Nothing of the sort is said before the expansion, nor of a failure.     *)
LEMMA EarlyFlowInv ==
  ASSUME phase' \in {"packs", "entities", "failed"}
  PROVE  FlowInv'
BY DEF FlowInv, Sorted

LEMMA EntitiesFlowInv ==
  ASSUME ScenarioInv, PlanInv, phase = "entities", phase' = "expand",
         GenerateEntities
  PROVE  FlowInv'
<1>1. events' = <<>> /\ draft' = None
  BY DEF GenerateEntities, PlanInv, IdsInv, ProgressInv
<1>2. Len(events') = 0 /\ Range(events') = {}
  BY <1>1 DEF Range
<1>3. GrowInv' /\ DraftInv'
  BY <1>1, <1>2 DEF GrowInv, DraftInv
<1>4. FlowsOK({}, scenario'.timeline)
  BY DEF FlowsOK, AfterIn, KeysIn
<1>5. FlowsOK(Range(events), scenario.timeline)'
  BY <1>2, <1>4
<1> QED BY <1>3, <1>5 DEF FlowInv, Sorted

(* The steps of the expansion that make no event.                          *)
LEMMA GrowStays ==
  ASSUME GrowInv, events' = events, scenario' = scenario, entities' = entities
  PROVE  GrowInv'
<1>1. Primaries' = Primaries
  BY DEF Primaries, OfType, PrimaryType
<1> QED BY <1>1 DEF GrowInv

LEMMA QuietFlowInv ==
  ASSUME ScenarioInv, PlanInv, FlowInv, phase = "expand", phase' = "expand",
         SkipStep \/ NextFlow
  PROVE  FlowInv'
<1>1. /\ events' = events /\ scenario' = scenario /\ entities' = entities
      /\ draft' = draft
  BY DEF SkipStep, NextFlow
<1>2. draft = None
  <2>1. step > Len(scenario.timeline) => draft = None
    <3>1. step \in Nat /\ Len(scenario.timeline) \in Nat
      BY LenProperties DEF PlanInv, ProgressInv, ScenarioInv, ScenarioOK
    <3> QED BY <3>1 DEF PlanInv, ProgressInv
  <2> QED BY <2>1 DEF SkipStep, AtItem, NextFlow
<1>3. GrowInv' /\ DraftInv'
  BY <1>1, <1>2, GrowStays DEF FlowInv, DraftInv
<1> QED BY <1>1, <1>3 DEF FlowInv, Sorted

LEMMA BeginFlowInv ==
  ASSUME ScenarioInv, PlanInv, FlowInv, phase = "expand", phase' = "expand",
         BeginStep
  PROVE  FlowInv'
<1>1. /\ events' = events /\ scenario' = scenario /\ entities' = entities
      /\ step' = step /\ flow' = flow
      /\ \E t \in Times(Item) : now' \in Jittered(Item, t)
      /\ step <= Len(scenario.timeline) /\ Readable(Item)
  BY DEF BeginStep, AtItem
<1>2. Item' = Item /\ ItemOK(Item)
  <2>1. step \in 1..Len(scenario.timeline)
    BY <1>1 DEF PlanInv, ProgressInv
  <2> QED BY <1>1, <2>1, ItemAt DEF Item
<1>3. OfFlow' = OfFlow
  BY <1>1 DEF OfFlow
<1>4. \A key : ById(key)' = ById(key)
  BY <1>1, <1>3 DEF ById
<1>5. ASSUME Follows(Item), ById(Item.after) # {}
      PROVE  Latest(ById(Item.after)).time <= now'
  <2>1. PICK t \in Times(Item) : now' \in Jittered(Item, t)
    BY <1>1
  <2>2. now' = t
    BY <1>5, <2>1 DEF Follows, Jittered
  <2>3. t \in {BaseTime(Item) + d :
                  d \in (Item.delay[1]..Item.delay[2])
                        \cup (Item.delay[2]..Item.delay[1])}
    BY <1>5, <2>1 DEF Follows, Times, Between
  <2>4. Item.delay[1] \in Nat /\ Item.delay[2] \in Nat
    BY <1>1, <1>2, <1>5 DEF ItemOK, Follows, Readable
  <2>5. ById(Item.after) \subseteq OfFlow
    BY DEF ById
  <2>6. BaseTime(Item) = Latest(ById(Item.after)).time
    BY <1>5 DEF BaseTime
  <2>7. Latest(ById(Item.after)).time \in Int
    BY <1>5, <2>5, LatestOf DEF PlanInv
  <2> QED BY <2>2, <2>3, <2>4, <2>6, <2>7
<1>6. DraftInv'
  <2>1. PICK key : key = Item.after
    OBVIOUS
  <2>2. ById(key)' = ById(key) /\ Item'.after = key
    BY <1>2, <1>4, <2>1
  <2>3. PICK P : P = ById(key)
    OBVIOUS
  <2>4. ById(Item.after)' = P
    BY <2>2, <2>3
  <2>5. Latest(P)' = Latest(P)
    BY <1>1 DEF Latest
  <2> QED BY <1>2, <1>5, <2>1, <2>3, <2>4, <2>5 DEF DraftInv
<1>7. GrowInv'
  BY <1>1, GrowStays DEF FlowInv
<1> QED BY <1>1, <1>6, <1>7 DEF FlowInv, Sorted

LEMMA ResolveFlowInv ==
  ASSUME ScenarioInv, PlanInv, FlowInv, phase = "expand", phase' = "expand",
         ResolveRef
  PROVE  FlowInv'
<1>1. /\ events' = events /\ scenario' = scenario /\ now' = now
      /\ step' = step /\ flow' = flow /\ draft # None
      /\ entities' = entities \/ \E x : entities' = Append(entities, x)
  BY DEF ResolveRef, RefFlow, RefEntity, RefNew, RefPrevious, RefPlain,
     Known, Unresolved, Refer, AtRef
<1>2. Item' = Item
  BY <1>1 DEF Item
<1>3. OfFlow' = OfFlow
  BY <1>1 DEF OfFlow
<1>4. \A key : ById(key)' = ById(key)
  BY <1>1, <1>3 DEF ById
<1>5. DraftInv'
  <2>1. PICK key : key = Item.after
    OBVIOUS
  <2>2. ById(key)' = ById(key) /\ Item'.after = key
    BY <1>2, <1>4, <2>1
  <2>3. PICK P : P = ById(key)
    OBVIOUS
  <2>4. ById(Item.after)' = P
    BY <2>2, <2>3
  <2>5. Latest(P)' = Latest(P)
    BY <1>1 DEF Latest
  <2>6. Follows(Item) /\ P # {} => Latest(P).time <= now
    BY <1>1, <2>1, <2>3 DEF FlowInv, DraftInv
  <2> QED BY <1>1, <1>2, <2>4, <2>5, <2>6 DEF DraftInv
<1>6. GrowInv'
  <2>1. CASE entities' = entities
    BY <1>1, <2>1, GrowStays DEF FlowInv
  <2>2. CASE \E x : entities' = Append(entities, x)
    <3>1. PICK x : entities' = Append(entities, x)
      BY <2>2
    <3>2. /\ Len(Primaries) \in Nat /\ Len(Primaries') \in Nat
          /\ Len(Primaries) <= Len(Primaries')
          /\ \A i \in 1..Len(Primaries) : Primaries'[i] = Primaries[i]
      BY <1>1, <3>1, PrimariesGrow DEF PlanInv, ProgressInv
    <3> QED BY <1>1, <3>2 DEF FlowInv, GrowInv
  <2> QED BY <1>1, <2>1, <2>2
<1> QED BY <1>1, <1>5, <1>6 DEF FlowInv, Sorted

(* The event that is made follows the last event with the key that it      *)
(* comes after, and no earlier event follows it.                           *)
LEMMA EmitFlowInv ==
  ASSUME ScenarioInv, PlanInv, FlowInv, phase = "expand", phase' = "expand",
         EmitEvent
  PROVE  FlowInv'
<1>1. PICK e : e = [id |-> <<0, flow, step>>, flow |-> FlowId,
                    key |-> StepKey(Item), type |-> Item.event, time |-> now,
                    refs |-> draft, amount |-> Item.amount, sem |-> {}]
  OBVIOUS
<1>2. /\ events' = Append(events, e) /\ draft # None /\ draft' = None
      /\ scenario' = scenario /\ entities' = entities
      /\ Expanding /\ flow \in Nat /\ step \in Nat /\ now \in Int
  BY <1>1 DEF EmitEvent, PlanInv, ProgressInv
<1>3. /\ e.id[1] = 0 /\ e.id[2] = flow /\ e.id[3] = step
      /\ e.flow = FlowId /\ e.time = now
  BY <1>1
<1>4. /\ Len(events) \in Nat /\ DOMAIN events = 1..Len(events)
      /\ events \in Seq(Range(events))
      /\ \A i \in 1..Len(events) : EventOK(events[i])
  BY LenProperties DEF PlanInv, EventsInv, EventsOK
<1>5. /\ Len(events') = Len(events) + 1
      /\ \A i \in 1..Len(events) : events'[i] = events[i]
      /\ events'[Len(events) + 1] = e
      /\ Range(events') = Range(events) \cup {e}
  BY <1>2, <1>4, EventsAppend
<1>6. \A i \in 1..Len(events) :
         /\ events[i].id[1] = 0 /\ events[i].id[2] \in Nat
         /\ events[i].id[3] \in Nat
         /\ \/ events[i].id[2] < flow
            \/ events[i].id[2] = flow /\ events[i].id[3] < step
  BY <1>4 DEF PlanInv, IdsInv, EventOK
<1>7. /\ Len(Primaries) \in Nat /\ flow \in 1..Len(Primaries)
      /\ FlowId = Primaries[flow].id
  <2>1. Len(Primaries) \in Nat
    BY TypeList DEF Primaries, PlanInv, ProgressInv
  <2> QED BY <1>2, <2>1 DEF Expanding, FlowId, PlanInv, ProgressInv
<1>8. GrowInv' /\ DraftInv'
  <2>1. Primaries' = Primaries
    BY <1>2 DEF Primaries, OfType, PrimaryType
  <2>2. \A i \in 1..Len(events) : IdBefore(events[i].id, e.id)
    BY <1>2, <1>3, <1>6 DEF IdBefore
  <2>3. \A i, j \in 1..Len(events') :
           i < j => IdBefore(events'[i].id, events'[j].id)
    <3>1. \A i, j \in 1..Len(events) :
             i < j => IdBefore(events[i].id, events[j].id)
      BY DEF FlowInv, GrowInv
    <3>2. PICK n : n = Len(events)
      OBVIOUS
    <3>3. \A j \in 1..(n + 1) : j = n + 1 \/ j \in 1..n
      BY <1>4, <3>2
    <3>4. \A i \in 1..n, j \in 1..n :
             i < j => IdBefore(events'[i].id, events'[j].id)
      BY <1>5, <3>1, <3>2
    <3>5. \A i \in 1..n : IdBefore(events'[i].id, events'[n + 1].id)
      BY <1>5, <2>2, <3>2
    <3> QED BY <1>4, <1>5, <3>2, <3>3, <3>4, <3>5
  <2>4. \A i \in 1..Len(events') :
           /\ events'[i].id[2] \in 1..Len(Primaries)
           /\ events'[i].flow = Primaries[events'[i].id[2]].id
    BY <1>3, <1>4, <1>5, <1>7 DEF FlowInv, GrowInv
  <2> QED BY <1>2, <2>1, <2>3, <2>4 DEF GrowInv, DraftInv
<1>9. PICK L : L = Range(events)
  OBVIOUS
<1>10. \A x \in L : /\ x.id[1] = 0 /\ x.id[2] \in Nat /\ x.id[3] \in Nat
                    /\ \/ x.id[2] < flow
                       \/ x.id[2] = flow /\ x.id[3] < step
  BY <1>4, <1>6, <1>9 DEF Range
<1>11. PICK timeline : timeline = scenario.timeline
  OBVIOUS
<1>12. AfterIn(L, timeline) /\ KeysIn(L)
  BY <1>9, <1>11 DEF FlowInv, FlowsOK
<1>13. ASSUME NEW x \in L, NEW item
       PROVE  FollowsIn(L \cup {e}, x, item) = FollowsIn(L, x, item)
  BY <1>2, <1>3, <1>10 DEF FollowsIn
<1>14. ASSUME NEW b \in FollowsIn(L \cup {e}, e, timeline[step]),
              Follows(timeline[step]),
              \A c \in FollowsIn(L \cup {e}, e, timeline[step]) :
                 c.id[3] <= b.id[3]
       PROVE  b.time <= now
  <2>1. timeline[step] = Item
    BY <1>11 DEF Item
  <2>2. b \in L /\ b.id[2] = flow /\ b.key = Item.after
    BY <1>2, <1>3, <1>14, <2>1 DEF FollowsIn
  <2>3. PICK i \in 1..Len(events) : b = events[i]
    BY <1>4, <1>9, <2>2 DEF Range
  <2>4. i \in ById(Item.after)
    BY <1>4, <1>6, <2>2, <2>3 DEF ById, OfFlow
  <2>5. ById(Item.after) \subseteq OfFlow
    BY DEF ById
  <2>6. PICK k : k = Max(ById(Item.after))
    OBVIOUS
  <2>7. /\ k \in ById(Item.after) /\ k \in 1..Len(events) /\ i <= k
        /\ Latest(ById(Item.after)) = events[k]
    BY <2>4, <2>5, <2>6, LatestOf DEF PlanInv
  <2>8. events[k] \in FollowsIn(L \cup {e}, e, timeline[step])
    BY SMTT(30), <1>2, <1>3, <1>4, <1>6, <1>9, <2>1, <2>7 DEF FollowsIn, ById, OfFlow, Range
  <2>9. events[k].id[3] <= events[i].id[3]
    BY <1>14, <2>3, <2>8
  <2>10. i < k => IdBefore(events[i].id, events[k].id)
    BY <2>3, <2>7 DEF FlowInv, GrowInv
  <2>11. events[k].id[2] = flow /\ events[i].id[2] = flow
    BY <2>2, <2>3, <2>7 DEF ById, OfFlow
  <2>12. i = k
    BY <1>6, <2>3, <2>7, <2>9, <2>10, <2>11 DEF IdBefore
  <2> QED BY <1>2, <1>14, <2>1, <2>3, <2>4, <2>7, <2>12 DEF FlowInv, DraftInv
<1>15. AfterIn(L \cup {e}, timeline)
  <2> SUFFICES ASSUME NEW x \in L \cup {e}, x.id[1] = 0,
                      Follows(timeline[x.id[3]]),
                      NEW b \in FollowsIn(L \cup {e}, x, timeline[x.id[3]]),
                      \A c \in FollowsIn(L \cup {e}, x, timeline[x.id[3]]) :
                         c.id[3] <= b.id[3]
               PROVE  b.time <= x.time
    BY DEF AfterIn
  <2>1. CASE x \in L
    <3>1. FollowsIn(L \cup {e}, x, timeline[x.id[3]])
            = FollowsIn(L, x, timeline[x.id[3]])
      BY <1>13, <2>1
    <3> QED BY <1>12, <2>1, <3>1 DEF AfterIn
  <2>2. CASE x = e
    BY <1>3, <1>14, <2>2
  <2> QED BY <2>1, <2>2
<1>16. KeysIn(L \cup {e})
  <2>1. ASSUME NEW d \in L, d.id[2] = flow PROVE d.flow = e.flow
    <3>1. PICK i \in 1..Len(events) : d = events[i]
      BY <1>4, <1>9 DEF Range
    <3> QED BY <1>3, <1>7, <2>1, <3>1 DEF FlowInv, GrowInv
  <2> QED BY <1>3, <1>12, <2>1 DEF KeysIn
<1>17. FlowsOK(Range(events), scenario.timeline)'
  <2>1. FlowsOK(L \cup {e}, timeline)
    BY <1>15, <1>16 DEF FlowsOK
  <2>2. Range(events') = L \cup {e} /\ scenario'.timeline = timeline
    BY <1>2, <1>5, <1>9, <1>11
  <2> QED BY <2>1, <2>2
<1> QED BY <1>8, <1>17 DEF FlowInv, Sorted

-----------------------------------------------------------------------------
(* Sorting, noise and the beginning of jitter.                             *)
LEMMA StartNoiseFlowInv ==
  ASSUME ScenarioInv, PlanInv, FlowInv, phase = "expand", phase' = "noise",
         StartNoise
  PROVE  FlowInv'
<1>1. events' = InPlanOrder(Range(events)) /\ scenario' = scenario
  BY DEF StartNoise
<1>2. Range(events') = Range(events)
  BY <1>1, InPlanOrderEvents DEF PlanInv, EventsInv
<1>3. FlowsOK(Range(events), scenario.timeline)'
  BY <1>1, <1>2 DEF FlowInv
<1> QED BY <1>3 DEF FlowInv, Sorted

LEMMA AddNoiseFlowInv ==
  ASSUME ScenarioInv, PlanInv, FlowInv, phase = "noise", phase' = "noise",
         AddNoise
  PROVE  FlowInv'
<1>0. PICK spec \in Range(scenario.noise.events) :
        \E t, v :
           events' = Append(events,
              [id |-> <<1, NoiseNumber, 0>>, flow |-> None, key |-> None,
               type |-> spec.event, time |-> t,
               refs |-> [r \in {spec.role} |-> v], amount |-> None, sem |-> {}])
  BY DEF AddNoise
<1>1. PICK t, v :
         events' = Append(events,
            [id |-> <<1, NoiseNumber, 0>>, flow |-> None, key |-> None,
             type |-> spec.event, time |-> t,
             refs |-> [r \in {spec.role} |-> v], amount |-> None, sem |-> {}])
  BY <1>0
<1>2. PICK e : e = [id |-> <<1, NoiseNumber, 0>>, flow |-> None, key |-> None,
                    type |-> spec.event, time |-> t,
                    refs |-> [r \in {spec.role} |-> v], amount |-> None,
                    sem |-> {}]
  OBVIOUS
<1>3. events' = Append(events, e) /\ scenario' = scenario
  BY <1>1, <1>2 DEF AddNoise
<1>4. e.id[1] = 1 /\ e.key = None
  BY <1>2
<1>5. Range(events') = Range(events) \cup {e}
  BY <1>3, EventsAppend DEF PlanInv, EventsInv, EventsOK
<1>6. PICK L : L = Range(events)
  OBVIOUS
<1>7. PICK timeline : timeline = scenario.timeline
  OBVIOUS
<1>8. AfterIn(L, timeline) /\ KeysIn(L)
  BY <1>6, <1>7 DEF FlowInv, FlowsOK
<1>9. \A x, item : FollowsIn(L \cup {e}, x, item) = FollowsIn(L, x, item)
  BY <1>4 DEF FollowsIn
<1>10. AfterIn(L \cup {e}, timeline)
  <2> SUFFICES ASSUME NEW x \in L \cup {e}, x.id[1] = 0,
                      Follows(timeline[x.id[3]]),
                      NEW b \in FollowsIn(L \cup {e}, x, timeline[x.id[3]]),
                      \A c \in FollowsIn(L \cup {e}, x, timeline[x.id[3]]) :
                         c.id[3] <= b.id[3]
               PROVE  b.time <= x.time
    BY DEF AfterIn
  <2>1. x \in L
    BY <1>4
  <2>2. FollowsIn(L \cup {e}, x, timeline[x.id[3]])
          = FollowsIn(L, x, timeline[x.id[3]])
    BY <1>9
  <2> QED BY <1>8, <2>1, <2>2 DEF AfterIn
<1>11. KeysIn(L \cup {e})
  BY <1>4, <1>8 DEF KeysIn
<1>12. FlowsOK(Range(events), scenario.timeline)'
  <2>1. FlowsOK(L \cup {e}, timeline)
    BY <1>10, <1>11 DEF FlowsOK
  <2>2. Range(events') = L \cup {e} /\ scenario'.timeline = timeline
    BY <1>3, <1>5, <1>6, <1>7
  <2> QED BY <2>1, <2>2
<1> QED BY <1>12 DEF FlowInv, Sorted

(* The margin of an event is a number, and grows behind the group.         *)
LEMMA MarginIsNat == ScenarioInv => Margin \in Nat
BY DEF Margin, ScenarioInv, ScenarioOK, JitterOK, JitterOn

LEMMA MarginGrows ==
  ASSUME ScenarioInv, EventsOK(planned)
  PROVE  /\ Margin \in Nat
         /\ \A d : Cardinality(Ahead(d)) \in Nat
         /\ \A d, e \in Range(planned) :
               JitterOn /\ Kept /\ d.flow = e.flow /\ Earlier(d, e) =>
                  Cardinality(Ahead(d)) + 1 <= Cardinality(Ahead(e))
<1>1. Margin \in Nat
  BY MarginIsNat
<1>2. IsFiniteSet(Range(planned))
  BY DistinctLength DEF EventsOK
<1>3. \A d : IsFiniteSet(Ahead(d)) /\ Cardinality(Ahead(d)) \in Nat
  <2> TAKE d
  <2>1. Ahead(d) \subseteq Range(planned)
    BY DEF Ahead
  <2> QED BY <1>2, <2>1, FS_Subset, FS_CardinalityType
<1>4. ASSUME NEW d \in Range(planned), NEW e \in Range(planned),
             JitterOn, Kept, d.flow = e.flow, Earlier(d, e)
      PROVE  Cardinality(Ahead(d)) + 1 <= Cardinality(Ahead(e))
  <2>1. \A x, y, z \in Range(planned) :
           /\ ~Earlier(x, x)
           /\ Earlier(x, y) /\ Earlier(y, z) => Earlier(x, z)
    <3> DEFINE R == {p \in Range(planned) \X Range(planned) : Earlier(p[1], p[2])}
    <3>1. StrictOrder(R, Range(planned))
      BY EarlierOrders
    <3>2. \A x, y \in Range(planned) : <<x, y>> \in R <=> Earlier(x, y)
      OBVIOUS
    <3> HIDE DEF R
    <3> QED BY <3>1, <3>2 DEF StrictOrder
  <2>2. d \notin Ahead(d) /\ Ahead(d) \cup {d} \subseteq Ahead(e)
    BY <1>4, <2>1 DEF Ahead
  <2>3. Cardinality(Ahead(d) \cup {d}) = Cardinality(Ahead(d)) + 1
    BY <1>3, <2>2, FS_AddElement
  <2>4. Cardinality(Ahead(d) \cup {d}) <= Cardinality(Ahead(e))
    BY <1>3, <2>2, FS_Subset
  <2> QED BY <2>3, <2>4
<1> QED BY <1>1, <1>3, <1>4

LEMMA StartJitterFlowInv ==
  ASSUME ScenarioInv, PlanInv, FlowInv, phase = "noise", phase' = "jitter",
         StartJitter
  PROVE  FlowInv'
<1>1. /\ scenario' = scenario /\ planned' = events'
      /\ events' = IF JitterOn /\ scenario.jitter.preserve THEN Grouped
                   ELSE events
      /\ jittered' = IF JitterOn THEN 0 ELSE Len(events)
  BY DEF StartJitter
<1>2. JitterOn' = JitterOn /\ Kept' = Kept /\ Margin' = Margin
  BY <1>1 DEF JitterOn, Kept, Margin
<1>3. EventsOK(events') /\ Range(events') = Range(events)
  BY <1>1, GroupedEvents DEF PlanInv, EventsInv
<1>4. EventsOK(planned') /\ FlowsOK(Range(planned), scenario.timeline)'
  BY <1>1, <1>3 DEF FlowInv
<1>5. JitterOn /\ Kept => InGroups(planned')
  BY <1>1, GroupedEvents DEF PlanInv, Kept, InGroups
<1>6. \A d : Cardinality(Ahead(d))' \in Nat
  <2> TAKE d
  <2>1. IsFiniteSet(Range(planned'))
    BY <1>4, DistinctLength DEF EventsOK
  <2>2. Ahead(d)' \subseteq Range(planned')
    BY DEF Ahead
  <2> QED BY <2>1, <2>2, FS_Subset, FS_CardinalityType
<1>7. Margin' \in Nat
  BY <1>2, MarginIsNat
<1>8. \A i \in 1..Len(planned') : planned'[i].time \in Int
  BY <1>4 DEF EventsOK, EventOK
<1>9. ASSUME NEW i \in 1..Len(planned') PROVE InMargin(planned[i], events[i])'
  <2>1. PICK d : d = planned'[i]
    OBVIOUS
  <2>2. d.time - d.time = 0
    BY <1>8, <2>1
  <2>3. InMargin(d, d)'
    BY <1>6, <1>7, <2>2 DEF InMargin
  <2>4. planned'[i] = d /\ events'[i] = d
    BY <1>1, <2>1
  <2> QED BY <2>3, <2>4 DEF InMargin
<1>10. \A i, j \in 1..jittered' : JitterOn' => FALSE
  BY <1>1, <1>2
<1>11. JitterOn' /\ Kept' => InGroups(planned)'
  BY <1>2, <1>5
<1>12. Len(events') = Len(planned')
  BY <1>1
<1>13. \A i \in 1..Len(planned') :
          /\ events'[i].id = planned'[i].id /\ events'[i].flow = planned'[i].flow
          /\ events'[i].time = planned'[i].time
  BY <1>1
<1>14. JitterInv'
  BY <1>9, <1>10, <1>11, <1>12, <1>13 DEF JitterInv
<1> QED BY <1>4, <1>14 DEF FlowInv, Sorted

(* One event is moved: clamped behind the one before it in its group, of   *)
(* which it is known how far it has been moved.                            *)
LEMMA JitterFlowInv ==
  ASSUME ScenarioInv, PlanInv, FlowInv, phase = "jitter", phase' = "jitter",
         JitterEvent
  PROVE  FlowInv'
<1> DEFINE i == jittered + 1
           m == scenario.jitter.max
           close == /\ scenario.jitter.preserve
                    /\ i > 1 /\ events[i - 1].flow = events[i].flow
<1>1. /\ scenario' = scenario /\ planned' = planned
  BY DEF JitterEvent
<1>2. jittered \in Nat /\ EventsInv /\ JitterOn
  BY JitterPlanInv DEF PlanInv, ProgressInv
<1>3. /\ i \in 1..Len(events) /\ jittered' = i
      /\ Len(events') = Len(events)
      /\ \A j \in 1..Len(events) :
            /\ \A x \in DOMAIN events[j] :
                  x # "time" => events'[j][x] = events[j][x]
            /\ j # i => events'[j] = events[j]
      /\ \E o \in (-m)..m :
            events'[i].time =
               IF close THEN Max({events[i].time + o, events[i - 1].time + 1})
               ELSE events[i].time + o
  BY <1>2, JitterMoves
<1>4. /\ EventsOK(planned) /\ FlowsOK(Range(planned), scenario.timeline)
      /\ JitterInv
  BY DEF FlowInv
<1>5. /\ Len(events) \in Nat /\ Len(planned) = Len(events)
      /\ \A j \in 1..Len(events) :
            /\ EventOK(events[j]) /\ EventOK(planned[j])
            /\ events[j].time \in Int /\ planned[j].time \in Int
            /\ planned[j] \in Range(planned)
  BY <1>2, <1>4, LenProperties, ElementOfSeq
     DEF JitterInv, EventsInv, EventsOK, EventOK
<1>6. /\ \A j \in 1..Len(events) :
            events'[j].id = events[j].id /\ events'[j].flow = events[j].flow
  BY <1>3, <1>5 DEF EventOK
<1>7. /\ Margin = m /\ Margin \in Nat /\ Margin' = Margin
      /\ JitterOn' = JitterOn /\ Kept' = Kept
      /\ Kept <=> scenario.jitter.preserve
  BY <1>1, <1>2, MarginIsNat DEF Margin, JitterOn, Kept
<1>8. \A d : Ahead(d)' = Ahead(d)
  BY <1>1, <1>7 DEF Ahead
<1>9. /\ \A d : Cardinality(Ahead(d)) \in Nat
      /\ \A d, e \in Range(planned) :
            JitterOn /\ Kept /\ d.flow = e.flow /\ Earlier(d, e) =>
               Cardinality(Ahead(d)) + 1 <= Cardinality(Ahead(e))
  BY <1>4, MarginGrows
<1>10. \A d, e : InMargin(d, e) => InMargin(d, e)'
  BY <1>7, <1>8 DEF InMargin
<1>11. /\ \A j \in 1..Len(events) :
             /\ events[j].id = planned[j].id /\ events[j].flow = planned[j].flow
             /\ InMargin(planned[j], events[j])
             /\ jittered < j => events[j].time = planned[j].time
       /\ Kept => /\ InGroups(planned)
                  /\ \A p, q \in 1..jittered :
                        p < q /\ planned[p].flow = planned[q].flow =>
                           events[p].time < events[q].time
  BY <1>2, <1>4, <1>5 DEF JitterInv
<1>12. PICK o \in (-m)..m :
          events'[i].time =
             IF close THEN Max({events[i].time + o, events[i - 1].time + 1})
             ELSE events[i].time + o
  BY <1>3
<1>13. PICK u : u = events'[i].time
  OBVIOUS
<1>14. PICK t : t = planned[i].time + o
  OBVIOUS
<1>15. /\ t \in Int /\ o \in Int /\ -Margin <= o /\ o <= Margin
       /\ events[i].time + o = t
  <2>1. events[i].time = planned[i].time
    BY <1>2, <1>3, <1>11
  <2> QED BY <1>3, <1>5, <1>7, <1>14, <2>1
<1>16. ~close => u = t
  BY <1>12, <1>13, <1>15
<1>17. close => /\ u \in Int /\ t <= u /\ events[i - 1].time + 1 <= u
                /\ u = t \/ u = events[i - 1].time + 1
  <2> SUFFICES ASSUME close
               PROVE  /\ u \in Int /\ t <= u /\ events[i - 1].time + 1 <= u
                      /\ u = t \/ u = events[i - 1].time + 1
    OBVIOUS
  <2>1. i - 1 \in 1..Len(events)
    BY <1>2, <1>3
  <2>2. events[i - 1].time + 1 \in Int
    BY <1>5, <2>1
  <2>3. u = Max({t, events[i - 1].time + 1})
    BY <1>12, <1>13, <1>15
  <2> HIDE DEF close
  <2> QED BY <1>15, <2>2, <2>3, MaxOfTwo
<1>18. close => /\ i - 1 \in 1..jittered /\ i - 1 \in 1..Len(events)
                /\ planned[i - 1].flow = planned[i].flow
                /\ Kept /\ InGroups(planned)
                /\ Earlier(planned[i - 1], planned[i])
  <2> SUFFICES ASSUME close
               PROVE  /\ i - 1 \in 1..jittered /\ i - 1 \in 1..Len(events)
                      /\ planned[i - 1].flow = planned[i].flow
                      /\ Kept /\ InGroups(planned)
                      /\ Earlier(planned[i - 1], planned[i])
    OBVIOUS
  <2>1. i - 1 \in 1..jittered /\ i - 1 \in 1..Len(events) /\ i - 1 < i
    BY <1>2, <1>3
  <2>2. planned[i - 1].flow = planned[i].flow /\ Kept /\ InGroups(planned)
    BY <1>3, <1>7, <1>11, <2>1
  <2> QED BY <1>3, <1>5, <2>1, <2>2 DEF InGroups
<1>19. u \in Int /\ u - planned[i].time \in
          (-Margin)..(Margin + Cardinality(Ahead(planned[i])))
  <2> PICK c : c = Cardinality(Ahead(planned[i]))
    OBVIOUS
  <2>1. c \in Nat /\ planned[i].time \in Int
    BY <1>3, <1>5, <1>9
  <2>2. CASE u = t
    BY <1>7, <1>14, <1>15, <2>1, <2>2
  <2>3. CASE u # t
    <3>1. close
      BY <1>16, <2>3
    <3>2. PICK b : b = Cardinality(Ahead(planned[i - 1]))
      OBVIOUS
    <3>3. b \in Nat /\ b + 1 <= c
      BY <1>2, <1>3, <1>5, <1>9, <1>18, <3>1, <3>2
    <3>4. events[i - 1].time - planned[i - 1].time \in (-Margin)..(Margin + b)
      BY <1>11, <1>18, <3>1, <3>2 DEF InMargin
    <3>5. /\ events[i - 1].time \in Int /\ planned[i - 1].time \in Int
          /\ planned[i - 1].time <= planned[i].time
      BY <1>3, <1>5, <1>18, <3>1 DEF Earlier
    <3>6. t <= u /\ u = events[i - 1].time + 1
      BY <1>17, <2>3, <3>1
    <3>7. PICK x, y, z : /\ x = events[i - 1].time /\ y = planned[i - 1].time
                         /\ z = planned[i].time
      OBVIOUS
    <3>8. /\ x \in Int /\ y \in Int /\ z \in Int /\ y <= z
          /\ x - y \in (-Margin)..(Margin + b) /\ u = x + 1 /\ t <= u
          /\ t = z + o
      BY <1>14, <2>1, <3>4, <3>5, <3>6, <3>7
    <3>9. u \in Int /\ u - z \in (-Margin)..(Margin + c)
      BY <1>7, <1>15, <2>1, <3>3, <3>8
    <3> QED BY <3>7, <3>9
  <2> QED BY <2>2, <2>3
<1>20. \A j \in 1..Len(events) : InMargin(planned[j], events[j])'
  <2> SUFFICES ASSUME NEW j \in 1..Len(events)
               PROVE  InMargin(planned[j], events[j])'
    OBVIOUS
  <2>1. PICK d : d = planned[j]
    OBVIOUS
  <2>2. PICK e : e = events'[j]
    OBVIOUS
  <2>3. InMargin(d, e)
    <3>1. CASE j = i
      BY <1>13, <1>19, <2>1, <2>2, <3>1 DEF InMargin
    <3>2. CASE j # i
      BY <1>3, <1>11, <2>1, <2>2, <3>2
    <3> QED BY <3>1, <3>2
  <2>4. InMargin(d, e)'
    BY <1>10, <2>3
  <2> QED BY <1>1, <2>1, <2>2, <2>4 DEF InMargin
<1>21. ASSUME Kept, NEW p \in 1..i, NEW q \in 1..i, p < q,
              planned[p].flow = planned[q].flow
       PROVE  events'[p].time < events'[q].time
  <2>1. p \in 1..jittered /\ p # i /\ p \in 1..Len(events) /\ q \in 1..Len(events)
    BY <1>2, <1>3, <1>21
  <2>2. events'[p] = events[p]
    BY <1>3, <2>1
  <2>3. CASE q # i
    <3>1. q \in 1..jittered
      BY <1>2, <2>3
    <3> QED BY <1>3, <1>11, <1>21, <2>1, <2>2, <2>3, <3>1
  <2>4. CASE q = i
    <3>1. i - 1 \in p..q /\ i - 1 \in 1..Len(events) /\ i > 1
      BY <1>2, <1>3, <2>1, <2>4
    <3>2. planned[i - 1].flow = planned[p].flow
      BY <1>5, <1>11, <1>21, <2>1, <3>1 DEF InGroups
    <3>3. close
      BY <1>3, <1>7, <1>11, <1>21, <2>4, <3>1, <3>2
    <3>4. events[p].time <= events[i - 1].time
      <4>1. CASE p = i - 1
        BY <1>5, <2>1, <4>1
      <4>2. CASE p # i - 1
        <5>1. p < i - 1 /\ i - 1 \in 1..jittered
          BY <1>2, <2>1, <3>1, <4>2
        <5>2. events[p].time < events[i - 1].time
          BY <1>11, <1>21, <2>1, <3>2, <5>1
        <5> QED BY <1>5, <2>1, <3>1, <5>2
      <4> QED BY <4>1, <4>2
    <3>5. events[i - 1].time + 1 <= u /\ u \in Int
      BY <1>17, <3>3
    <3>6. events[p].time \in Int /\ events[i - 1].time \in Int
      BY <1>5, <2>1, <3>1
    <3>7. events[p].time < u
      BY <3>4, <3>5, <3>6
    <3> QED BY <1>13, <2>2, <2>4, <3>7
  <2> QED BY <2>3, <2>4
<1>22. JitterInv'
  <2>1. \A j \in 1..Len(events) :
           jittered' < j => events'[j].time = planned[j].time
    BY <1>2, <1>3, <1>11
  <2>2. \A j \in 1..Len(planned') :
           /\ events'[j].id = planned'[j].id /\ events'[j].flow = planned'[j].flow
           /\ InMargin(planned[j], events[j])'
           /\ jittered' < j => events'[j].time = planned'[j].time
    BY <1>1, <1>5, <1>6, <1>11, <1>20, <2>1
  <2>3. Kept' => /\ InGroups(planned')
                 /\ \A p, q \in 1..jittered' :
                       p < q /\ planned'[p].flow = planned'[q].flow =>
                          events'[p].time < events'[q].time
    BY <1>1, <1>3, <1>7, <1>11, <1>21
  <2>4. Len(events') = Len(planned')
    BY <1>1, <1>3, <1>5
  <2> HIDE DEF i, m, close
  <2> QED BY <1>2, <1>7, <2>2, <2>3, <2>4 DEF JitterInv
<1> HIDE DEF i, m, close
<1>23. EventsOK(planned') /\ FlowsOK(Range(planned), scenario.timeline)'
  BY <1>1, <1>4
<1> QED BY <1>22, <1>23 DEF FlowInv, Sorted

-----------------------------------------------------------------------------
(* After jitter: nothing changes the ids and times of the events any more. *)
LEMMA FinalSortFlowInv ==
  ASSUME ScenarioInv, PlanInv, FlowInv, FinalSort
  PROVE  FlowInv'
<1>1. /\ scenario' = scenario /\ planned' = planned
      /\ phase = "jitter" /\ phase' = "attach" /\ jittered = Len(events)
      /\ events' = InPlanOrder(Range(events))
  BY DEF FinalSort, OnlyEventsChange, Goto
<1>2. Range(events') = Range(events) /\ EventsOK(events)
  BY <1>1, InPlanOrderEvents DEF PlanInv, EventsInv
<1>3. EventsOK(planned) /\ FlowsOK(Range(planned), scenario.timeline) /\ JitterInv
  BY <1>1 DEF FlowInv
<1>4. /\ Len(events) \in Nat /\ Len(planned) = Len(events)
      /\ DOMAIN events = 1..Len(events) /\ DOMAIN planned = 1..Len(events)
      /\ \A j \in 1..Len(events) : EventOK(events[j]) /\ EventOK(planned[j])
      /\ \A j, k \in 1..Len(events) : events[j].id = events[k].id => j = k
  BY <1>2, <1>3, LenProperties DEF JitterInv, EventsOK
<1>5. Kept' = Kept /\ JitterOn' = JitterOn /\ Margin' = Margin
  BY <1>1 DEF Kept, JitterOn, Margin
<1>6. \A d : Ahead(d)' = Ahead(d)
  BY <1>1, <1>5 DEF Ahead
<1>7. \A d, e : InMargin(d, e) => InMargin(d, e)'
  BY <1>5, <1>6 DEF InMargin
<1>8. \A j \in 1..Len(events) :
         /\ events[j].id = planned[j].id /\ InMargin(planned[j], events[j])
         /\ ~JitterOn => events[j].time = planned[j].time
  BY <1>4, <1>3 DEF JitterInv
<1>9. DriftInv'
  <2>1. ASSUME NEW d \in Range(planned)
        PROVE  \E e \in Range(events) : e.id = d.id /\ InMargin(d, e)
    <3>1. PICK j \in 1..Len(events) : d = planned[j]
      BY <1>4 DEF Range
    <3>2. events[j] \in Range(events)
      BY <1>4 DEF Range
    <3> QED BY <1>8, <3>1, <3>2
  <2>2. \A d \in Range(planned') : \E e \in Range(events') :
           e.id = d.id /\ InMargin(d, e)'
    BY <1>1, <1>2, <1>7, <2>1
  <2> QED BY <2>2 DEF DriftInv
<1>10. ASSUME Kept, NEW d \in Range(planned), NEW e \in Range(planned),
              NEW x \in Range(events), NEW y \in Range(events),
              d.flow = e.flow, Earlier(d, e), x.id = d.id, y.id = e.id
       PROVE  Earlier(x, y)
  <2>1. PICK j \in 1..Len(events) : d = planned[j]
    BY <1>4 DEF Range
  <2>2. PICK k \in 1..Len(events) : e = planned[k]
    BY <1>4 DEF Range
  <2>3. x = events[j] /\ y = events[k]
    <3>1. PICK p \in 1..Len(events) : x = events[p]
      BY <1>4 DEF Range
    <3>2. PICK q \in 1..Len(events) : y = events[q]
      BY <1>4 DEF Range
    <3>3. p = j /\ q = k
      BY <1>4, <1>8, <1>10, <2>1, <2>2, <3>1, <3>2
    <3> QED BY <3>1, <3>2, <3>3
  <2>4. CASE ~JitterOn
    <3>1. x.time = d.time /\ y.time = e.time
      BY <1>8, <2>1, <2>2, <2>3, <2>4
    <3> QED BY <1>10, <3>1 DEF Earlier
  <2>5. CASE JitterOn
    <3>1. InGroups(planned)
      BY <1>3, <1>10, <2>5 DEF JitterInv
    <3>2. j < k
      <4>1. j # k
        <5>1. EventOK(d)
          BY <1>4, <2>1
        <5>2. ~Earlier(d, d)
          BY <5>1 DEF Earlier, IdBefore, EventOK
        <5> QED BY <1>10, <2>1, <2>2, <5>2
      <4>2. ~(k < j)
        <5>1. k < j => Earlier(e, d)
          BY <1>4, <1>10, <2>1, <2>2, <3>1 DEF InGroups
        <5>2. EventOK(d) /\ EventOK(e)
          BY <1>4, <2>1, <2>2
        <5>3. ~(Earlier(d, e) /\ Earlier(e, d))
          BY <5>2 DEF Earlier, IdBefore, EventOK
        <5> QED BY <1>10, <5>1, <5>3
      <4> QED BY <1>4, <4>1, <4>2
    <3>3. events[j].time < events[k].time
      BY <1>1, <1>3, <1>4, <1>10, <2>1, <2>2, <2>5, <3>2 DEF JitterInv
    <3> QED BY <2>3, <3>3 DEF Earlier
  <2> QED BY <2>4, <2>5
<1>11. Kept' => OrderInv'
  BY <1>1, <1>2, <1>5, <1>10 DEF OrderInv
<1>12. EventsOK(planned') /\ FlowsOK(Range(planned), scenario.timeline)'
  BY <1>1, <1>3
<1> QED BY <1>1, <1>9, <1>11, <1>12 DEF FlowInv, Sorted

LEMMA SameTimesFlowInv ==
  ASSUME FlowInv, Sorted, phase' \in {"attach", "check", "done"},
         scenario' = scenario, planned' = planned,
         \A x \in Range(events') : \E y \in Range(events) :
            x.id = y.id /\ x.time = y.time,
         \A y \in Range(events) : \E x \in Range(events') :
            x.id = y.id /\ x.time = y.time
  PROVE  FlowInv'
<1>1. Kept' = Kept /\ JitterOn' = JitterOn /\ Margin' = Margin
  BY DEF Kept, JitterOn, Margin
<1>2. \A d : Ahead(d)' = Ahead(d)
  BY <1>1 DEF Ahead
<1>3. /\ EventsOK(planned) /\ FlowsOK(Range(planned), scenario.timeline)
      /\ DriftInv /\ (Kept => OrderInv)
  BY DEF FlowInv, Sorted
<1>4. DriftInv'
  <2>1. \A d \in Range(planned') : \E e \in Range(events') :
           e.id = d.id /\ InMargin(d, e)'
    <3> SUFFICES ASSUME NEW d \in Range(planned)
                 PROVE  \E e \in Range(events') : e.id = d.id /\ InMargin(d, e)'
      OBVIOUS
    <3>1. PICK y \in Range(events) : y.id = d.id /\ InMargin(d, y)
      BY <1>3 DEF DriftInv
    <3>2. PICK x \in Range(events') : x.id = y.id /\ x.time = y.time
      OBVIOUS
    <3>3. InMargin(d, x)'
      BY <1>1, <1>2, <3>1, <3>2 DEF InMargin
    <3> QED BY <3>1, <3>2, <3>3
  <2> QED BY <2>1 DEF DriftInv
<1>5. ASSUME Kept, NEW d \in Range(planned), NEW e \in Range(planned),
             NEW x \in Range(events'), NEW y \in Range(events'),
             d.flow = e.flow, Earlier(d, e), x.id = d.id, y.id = e.id
      PROVE  Earlier(x, y)
  <2>1. PICK v \in Range(events) : x.id = v.id /\ x.time = v.time
    OBVIOUS
  <2>2. PICK w \in Range(events) : y.id = w.id /\ y.time = w.time
    OBVIOUS
  <2>3. Earlier(v, w)
    BY <1>3, <1>5, <2>1, <2>2 DEF OrderInv
  <2> QED BY <2>1, <2>2, <2>3 DEF Earlier
<1>6. Kept' => OrderInv'
  BY <1>1, <1>5 DEF OrderInv
<1>7. EventsOK(planned') /\ FlowsOK(Range(planned), scenario.timeline)'
  BY <1>3
<1> QED BY <1>4, <1>6, <1>7 DEF FlowInv, Sorted

LEMMA AttachFlowInv ==
  ASSUME ScenarioInv, PlanInv, FlowInv, AttachRefs
  PROVE  FlowInv'
<1>1. /\ scenario' = scenario /\ planned' = planned
      /\ phase = "attach" /\ phase' = "check"
  BY DEF AttachRefs, OnlyEventsChange, Goto
<1>2. /\ Len(events') = Len(events) /\ events' \in Seq(Range(events'))
      /\ \A j \in 1..Len(events) :
            \A x \in DOMAIN events[j] : x # "sem" => events'[j][x] = events[j][x]
  BY AttachMarks DEF PlanInv
<1>3. /\ DOMAIN events = 1..Len(events) /\ DOMAIN events' = 1..Len(events)
      /\ \A j \in 1..Len(events) :
            events'[j].id = events[j].id /\ events'[j].time = events[j].time
  BY <1>2, LenProperties DEF PlanInv, EventsInv, EventsOK, EventOK
<1>4. \A x \in Range(events') : \E y \in Range(events) :
         x.id = y.id /\ x.time = y.time
  BY <1>3 DEF Range
<1>5. \A y \in Range(events) : \E x \in Range(events') :
         x.id = y.id /\ x.time = y.time
  BY <1>3 DEF Range
<1> QED BY <1>1, <1>4, <1>5, SameTimesFlowInv DEF Sorted

LEMMA StutterFlowInv ==
  ASSUME FlowInv,
         UNCHANGED <<phase, scenario, entities, events, planned, draft, now,
                     flow, step, jittered>>
  PROVE  FlowInv'
<1>1. Primaries' = Primaries /\ Item' = Item
  BY DEF Primaries, OfType, PrimaryType, Item
<1>2. GrowInv' = GrowInv
  BY <1>1 DEF GrowInv
<1>3. OfFlow' = OfFlow
  BY DEF OfFlow
<1>4. \A key : ById(key)' = ById(key)
  BY <1>3 DEF ById
<1>5. DraftInv => DraftInv'
  <2> SUFFICES ASSUME DraftInv PROVE DraftInv'
    OBVIOUS
  <2>1. PICK key : key = Item.after
    OBVIOUS
  <2>2. PICK P : P = ById(key)
    OBVIOUS
  <2>3. ById(Item.after)' = P
    BY <1>1, <1>4, <2>1, <2>2
  <2>4. Latest(P)' = Latest(P)
    BY DEF Latest
  <2>5. draft # None /\ Follows(Item) /\ P # {} => Latest(P).time <= now
    BY <2>1, <2>2 DEF DraftInv
  <2> QED BY <1>1, <2>3, <2>4, <2>5 DEF DraftInv
<1>6. Kept' = Kept /\ JitterOn' = JitterOn /\ Margin' = Margin
  BY DEF Kept, JitterOn, Margin
<1>7. \A d : Ahead(d)' = Ahead(d)
  BY <1>6 DEF Ahead
<1>8. JitterInv => JitterInv'
  BY <1>6, <1>7 DEF JitterInv, InMargin
<1>9. Sorted => DriftInv' /\ (Kept => OrderInv')
  BY <1>6, <1>7 DEF DriftInv, OrderInv, InMargin, FlowInv
<1> QED BY <1>2, <1>5, <1>6, <1>8, <1>9 DEF FlowInv, Sorted

LEMMA NextFlowInv ==
  ASSUME ScenarioInv, PlanInv, FlowInv, [Next]_vars
  PROVE  FlowInv'
<1>1. CASE \/ LoadPacks \/ LoadFails \/ ResolveRealism \/ ExpandFails
           \/ CheckRaises
  <2>1. phase' \in {"packs", "entities", "failed"}
    BY <1>1 DEF LoadPacks, LoadFails, ResolveRealism, ExpandFails,
       CheckRaises, Goto
  <2> QED BY <2>1, EarlyFlowInv
<1>2. CASE Entities
  BY <1>2, EntitiesFlowInv DEF Entities, Goto
<1>3. CASE Expand
  <2>1. phase = "expand" /\ phase' = "expand"
    BY <1>3 DEF Expand, Goto
  <2>2. CASE SkipStep \/ NextFlow
    BY <2>1, <2>2, QuietFlowInv
  <2>3. CASE BeginStep
    BY <2>1, <2>3, BeginFlowInv
  <2>4. CASE ResolveRef
    BY <2>1, <2>4, ResolveFlowInv
  <2>5. CASE EmitEvent
    BY <2>1, <2>5, EmitFlowInv
  <2> QED BY <1>3, <2>2, <2>3, <2>4, <2>5 DEF Expand, ExpandStep
<1>4. CASE Expanded
  BY <1>4, StartNoiseFlowInv DEF Expanded, Goto
<1>5. CASE Noise
  BY <1>5, AddNoiseFlowInv DEF Noise, Goto
<1>6. CASE NoiseAdded
  BY <1>6, StartJitterFlowInv DEF NoiseAdded, Goto
<1>7. CASE Jitter
  BY <1>7, JitterFlowInv DEF Jitter, Goto
<1>8. CASE FinalSort
  BY <1>8, FinalSortFlowInv
<1>9. CASE AttachRefs
  BY <1>9, AttachFlowInv
<1>10. CASE Check
  <2>1. /\ phase = "check" /\ phase' = "done" /\ scenario' = scenario
        /\ planned' = planned /\ events' = events
    BY <1>10 DEF Check
  <2> QED BY <2>1, SameTimesFlowInv DEF Sorted
<1>11. CASE Rest \/ UNCHANGED vars
  <2>1. UNCHANGED <<phase, scenario, entities, events, planned, draft, now,
                    flow, step, jittered>>
    BY <1>11 DEF Rest, vars, timelineVars
  <2> QED BY <2>1, StutterFlowInv
<1> QED BY <1>1, <1>2, <1>3, <1>4, <1>5, <1>6, <1>7, <1>8, <1>9, <1>10, <1>11
     DEF Next, Planner

(* The times of the plan, from the first event of a flow to the last sort: *)
(* every step keeps what jitter and delays promise.                        *)
THEOREM FlowInvariant == Spec => []FlowInv
<1>1. CompileInit => FlowInv
  BY DEF CompileInit, FlowInv, Sorted
<1>2. ScenarioInv /\ PlanInv /\ FlowInv /\ [Next]_vars => FlowInv'
  BY NextFlowInv
<1>3. Spec => []ScenarioInv
  BY PackInvariant, PTL
<1> QED BY <1>1, <1>2, <1>3, PlanInvariant, PTL DEF Spec

(* The events that share its number with a step, and its key, are those of *)
(* its flow; there is a last one.                                          *)
LEMMA LastOfBase ==
  ASSUME NEW base, base # {}, NEW n \in Nat,
         \A b \in base : b.id[3] \in Nat /\ b.id[3] < n
  PROVE  \E b \in base : \A c \in base : c.id[3] <= b.id[3]
<1> DEFINE T == {n - b.id[3] : b \in base}
<1>1. T \subseteq Nat /\ T # {}
  OBVIOUS
<1> HIDE DEF T
<1>2. PICK k \in T : \A j \in T : k <= j
  BY <1>1, LeastNat
<1>3. PICK b \in base : k = n - b.id[3]
  BY <1>2 DEF T
<1>4. \A c \in base : n - b.id[3] <= n - c.id[3]
  BY <1>2, <1>3 DEF T
<1> QED BY <1>4

LEMMA FlowOrderIsKept ==
  ASSUME ScenarioInv, PlanInv, FlowInv
  PROVE  FlowOrderKept
<1> SUFFICES ASSUME Sorted
             PROVE  DriftBounded /\ (Kept => OrderKept /\ AfterKept)
  BY DEF FlowOrderKept
<1>1. /\ EventsOK(planned) /\ AfterIn(Range(planned), scenario.timeline)
      /\ KeysIn(Range(planned))
      /\ DriftInv /\ (Kept => OrderInv)
  BY DEF FlowInv, FlowsOK, Sorted
<1>2. \A x, y \in Range(events) : x.id = y.id => x = y
  <2>1. DOMAIN events = 1..Len(events)
    BY LenProperties DEF PlanInv, EventsInv, EventsOK
  <2> QED BY <2>1 DEF PlanInv, EventsInv, EventsOK, Range
<1>3. ASSUME NEW d \in Range(planned)
      PROVE  /\ Final(d) \in Range(events) /\ Final(d).id = d.id
             /\ InMargin(d, Final(d))
  <2>1. PICK e \in Range(events) : e.id = d.id /\ InMargin(d, e)
    BY <1>1 DEF DriftInv
  <2>2. Final(d) = e
    BY <1>2, <2>1 DEF Final
  <2> QED BY <2>1, <2>2
<1>4. DriftBounded
  BY <1>3 DEF DriftBounded, InMargin
<1>5. Kept => OrderKept
  BY <1>1, <1>3 DEF OrderKept, OrderInv
<1>6. \A x \in Range(planned) : EventOK(x)
  <2>1. DOMAIN planned = 1..Len(planned)
    BY <1>1, LenProperties DEF EventsOK
  <2> QED BY <1>1, <2>1 DEF EventsOK, Range
<1>7. ASSUME Kept, NEW e \in Range(planned), e.id[1] = 0,
             Follows(ItemOf(e)), BaseOf(e) # {}
      PROVE  Earlier(Final(LastOf(BaseOf(e))), Final(e))
  <2>1. BaseOf(e) = FollowsIn(Range(planned), e, ItemOf(e))
    <3>1. \A b \in BaseOf(e) : b.id[1] = 0
      BY <1>1, <1>6, <1>7 DEF BaseOf, KeysIn, EventOK, Follows
    <3>2. \A b \in FollowsIn(Range(planned), e, ItemOf(e)) : b.flow = e.flow
      BY <1>1, <1>7 DEF KeysIn, FollowsIn
    <3>3. BaseOf(e) \subseteq FollowsIn(Range(planned), e, ItemOf(e))
      BY <1>7, <3>1 DEF BaseOf, FollowsIn
    <3>4. FollowsIn(Range(planned), e, ItemOf(e)) \subseteq BaseOf(e)
      BY <1>7, <3>2 DEF BaseOf, FollowsIn
    <3> QED BY <3>3, <3>4
  <2>2. /\ e.id[3] \in Nat
        /\ \A b \in BaseOf(e) : b.id[3] \in Nat /\ b.id[3] < e.id[3]
    BY <1>6, <1>7 DEF BaseOf, EventOK
  <2>3. \E b \in BaseOf(e) : \A c \in BaseOf(e) : c.id[3] <= b.id[3]
    BY <1>7, <2>2, LastOfBase
  <2>4. PICK last : last = LastOf(BaseOf(e))
    OBVIOUS
  <2>5. last \in BaseOf(e) /\ \A c \in BaseOf(e) : c.id[3] <= last.id[3]
    BY <2>3, <2>4 DEF LastOf
  <2>6. last.time <= e.time
    BY <1>1, <1>7, <2>1, <2>5 DEF AfterIn, ItemOf
  <2>7. /\ last \in Range(planned) /\ last.flow = e.flow
        /\ last.id[1] = 0 /\ last.id[2] = e.id[2] /\ last.id[3] < e.id[3]
    <3>1. last \in Range(planned) /\ last.flow = e.flow
      BY <2>5 DEF BaseOf
    <3> QED BY <2>1, <2>5, <3>1 DEF FollowsIn
  <2>8. Earlier(last, e)
    BY <1>6, <1>7, <2>6, <2>7 DEF Earlier, IdBefore, EventOK
  <2>9. Earlier(Final(last), Final(e))
    BY <1>5, <1>7, <2>7, <2>8 DEF OrderKept
  <2> QED BY <2>4, <2>9
<1>8. Kept => AfterKept
  BY <1>7 DEF AfterKept
<1> QED BY <1>4, <1>5, <1>8

(* Jitter moves no event further than it may, and one that preserves order *)
(* keeps the order of every flow and every delay behind another step.      *)
THEOREM FlowOrderKeptHolds == Spec => []FlowOrderKept
<1>1. ScenarioInv /\ PlanInv /\ FlowInv => FlowOrderKept
  BY FlowOrderIsKept
<1>2. Spec => []ScenarioInv
  BY PackInvariant, PTL
<1> QED BY <1>1, <1>2, PlanInvariant, FlowInvariant, PTL
=============================================================================
