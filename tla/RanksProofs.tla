---------------------------- MODULE RanksProofs ----------------------------
(* Proofs about Ranks.tla, for any finite set of numbers, and about the     *)
(* least number of any set.                                                *)
EXTENDS Ranks, Integers, Sequences, FiniteSetTheorems, WellFoundedInduction, TLAPS

\* Numbers have a least one among them: what has to fail at some number fails
\* at a first one.
LEMMA LeastNat ==
  ASSUME NEW S, S \subseteq Nat, S # {}
  PROVE  \E m \in S : \A n \in S : m <= n
<1> DEFINE T == {0..m : m \in S}
<1>1. T \subseteq FiniteSubsetsOf(Nat)
  <2>1. ASSUME NEW m \in S PROVE IsFiniteSet(0..m) /\ 0..m \in SUBSET Nat
    BY FS_Interval
  <2> QED BY <2>1 DEF FiniteSubsetsOf
<1>2. \E s \in T : \A t \in T : <<t, s>> \notin StrictSubsetOrdering(Nat)
  <2>1. T # {}
    OBVIOUS
  <2> HIDE DEF T
  <2> QED BY <1>1, <2>1, FS_StrictSubsetOrderingWellFounded, WFMin, Zenon
<1>3. PICK m \in S : \A n \in S : <<0..n, 0..m>> \notin StrictSubsetOrdering(Nat)
  BY <1>2
<1>4. ASSUME NEW n \in S PROVE m <= n
  <2>1. SUFFICES ASSUME n < m PROVE FALSE
    OBVIOUS
  <2>2. 0..n \subseteq 0..m /\ m \in 0..m /\ m \notin 0..n
    BY <2>1
  <2>3. 0..n \in SUBSET Nat /\ 0..m \in SUBSET Nat
    OBVIOUS
  <2> QED BY <1>3, <2>2, <2>3 DEF StrictSubsetOrdering
<1> QED BY <1>4

\* The count goes up at each place, from 1 to the number of places.
LEMMA SeenRises ==
  ASSUME NEW S \in SUBSET Nat, IsFiniteSet(S), NEW i \in S
  PROVE  /\ Seen(S, i) \in 1..Cardinality(S)
         /\ \A j \in S : i < j => Seen(S, i) < Seen(S, j)
<1> DEFINE upto(k) == {x \in S : x <= k}
<1>1. \A k \in S : /\ IsFiniteSet(upto(k)) /\ Cardinality(upto(k)) \in Nat
                   /\ Cardinality(upto(k)) <= Cardinality(S)
  BY FS_Subset, FS_CardinalityType
<1>2. Cardinality(S) \in Nat
  BY FS_CardinalityType
<1>3. Cardinality(upto(i)) # 0
  BY <1>1, FS_EmptySet
<1>4. ASSUME NEW j \in S, i < j PROVE Cardinality(upto(i)) < Cardinality(upto(j))
  <2>0. i \in Nat /\ j \in Nat /\ \A x \in S : x \in Nat
    OBVIOUS
  <2>1. upto(i) \in SUBSET upto(j) /\ j \in upto(j) /\ j \notin upto(i)
    <3>1. \A x \in S : x <= i => x <= j
      BY <1>4, <2>0
    <3>2. j <= j /\ ~(j <= i)
      BY <1>4, <2>0
    <3> QED BY <3>1, <3>2
  <2>2. /\ Cardinality(upto(i)) <= Cardinality(upto(j))
        /\ Cardinality(upto(j)) = Cardinality(upto(i)) => upto(j) = upto(i)
    BY <1>1, <2>1, FS_Subset
  <2> QED BY <1>1, <2>1, <2>2
<1> QED BY <1>1, <1>2, <1>3, <1>4 DEF Seen

\* It takes each value once.
LEMMA SeenEach ==
  ASSUME NEW S \in SUBSET Nat, IsFiniteSet(S)
  PROVE  /\ \A i, j \in S : Seen(S, i) = Seen(S, j) => i = j
         /\ \A n \in 1..Cardinality(S) : \E i \in S : Seen(S, i) = n
<1>1. ASSUME NEW i \in S, NEW j \in S, Seen(S, i) = Seen(S, j) PROVE i = j
  <2>1. Seen(S, i) \in 1..Cardinality(S) /\ Cardinality(S) \in Nat
    BY SeenRises, FS_CardinalityType
  <2>2. (i < j => Seen(S, i) < Seen(S, j)) /\ (j < i => Seen(S, j) < Seen(S, i))
    BY SeenRises
  <2>3. i \in Nat /\ j \in Nat
    OBVIOUS
  <2> QED BY <1>1, <2>1, <2>2, <2>3
<1> DEFINE T == 1..Cardinality(S)
           f == [i \in S |-> Seen(S, i)]
<1>2. Cardinality(S) \in Nat
  BY FS_CardinalityType
<1>3. IsFiniteSet(T) /\ Cardinality(T) = Cardinality(S)
  <2>1. IsFiniteSet(1..Cardinality(S))
        /\ Cardinality(1..Cardinality(S)) = IF 1 > Cardinality(S) THEN 0
                                            ELSE Cardinality(S) - 1 + 1
    BY <1>2, FS_Interval
  <2> QED BY <1>2, <2>1
<1>4. f \in [S -> T]
  BY SeenRises
<1>5. \A i, j \in S : f[i] = f[j] => i = j
  BY <1>1
<1> HIDE DEF f, T
<1>6. f \in Injection(S, T)
  BY <1>4, <1>5 DEF Injection, IsInjective
<1>7. f \in Surjection(S, T)
  BY <1>3, <1>6, FS_Injection
<1>8. \A n \in T : \E i \in S : f[i] = n
  BY <1>7 DEF Surjection
<1> QED BY <1>1, <1>8 DEF f, T

\* More places never make the count of one of them smaller.
LEMMA SeenGrows ==
  ASSUME NEW T \in SUBSET Nat, IsFiniteSet(T), NEW S \in SUBSET T, NEW i \in S
  PROVE  Seen(S, i) <= Seen(T, i)
<1>1. {j \in S : j <= i} \in SUBSET {j \in T : j <= i}
  OBVIOUS
<1>2. IsFiniteSet({j \in T : j <= i})
  BY FS_Subset
<1> QED BY <1>1, <1>2, FS_Subset DEF Seen

\* The list holds every number once, in ascending order.
THEOREM InOrderLists ==
  ASSUME NEW S \in SUBSET Nat, IsFiniteSet(S)
  PROVE  /\ InOrder(S) \in Seq(S) /\ Len(InOrder(S)) = Cardinality(S)
         /\ \A i \in S : InOrder(S)[Seen(S, i)] = i
         /\ \A n \in 1..Cardinality(S) : Seen(S, InOrder(S)[n]) = n
         /\ \A m, n \in 1..Cardinality(S) : m < n => InOrder(S)[m] < InOrder(S)[n]
<1> DEFINE at(n) == CHOOSE i \in S : Seen(S, i) = n
           list == [n \in 1..Cardinality(S) |-> at(n)]
<1>1. Cardinality(S) \in Nat
  BY FS_CardinalityType
<1>2. \A n \in 1..Cardinality(S) : at(n) \in S /\ Seen(S, at(n)) = n
  BY SeenEach
<1>3. \A i \in S : Seen(S, i) \in 1..Cardinality(S) /\ at(Seen(S, i)) = i
  <2>1. \A i \in S : Seen(S, i) \in 1..Cardinality(S)
    BY SeenRises
  <2>2. \A i, j \in S : Seen(S, i) = Seen(S, j) => i = j
    BY SeenEach
  <2> QED BY <1>2, <2>1, <2>2
<1>4. InOrder(S) = list
  BY DEF InOrder
<1> HIDE DEF at
<1>5. list \in Seq(S) /\ Len(list) = Cardinality(S)
  BY <1>1, <1>2
<1>6. ASSUME NEW m \in 1..Cardinality(S), NEW n \in 1..Cardinality(S), m < n
      PROVE  at(m) < at(n)
  <2>1. /\ at(m) \in S /\ at(n) \in S /\ Seen(S, at(m)) = m /\ Seen(S, at(n)) = n
    BY <1>2
  <2>2. at(n) < at(m) => n < m
    BY <2>1, SeenRises
  <2>3. at(m) \in Nat /\ at(n) \in Nat
    BY <2>1
  <2>4. m \in Nat /\ n \in Nat
    BY <1>1
  <2> QED BY <1>6, <2>1, <2>2, <2>3, <2>4
<1> QED BY <1>2, <1>3, <1>4, <1>5, <1>6
============================================================================
