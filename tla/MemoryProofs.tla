---------------------------- MODULE MemoryProofs ----------------------------
(***************************************************************************)
(* Proofs about MemoryEngine.tla and Index.tla, for any texts, keys and      *)
(* values: every line is heard as it is meant, the index describes the map,  *)
(* and a search in it answers like a scan of the map.                        *)
(***************************************************************************)
EXTENDS MemoryEngine, CommandProofs

----------------------------------------------------------------------------
(* Texts                                                                   *)

InUse == Range(Texts)

LEMMA TextsSequence == /\ Len(Texts) \in Nat /\ DOMAIN Texts = 1..Len(Texts)
                       /\ \A i \in DOMAIN Texts : Texts[i] \in InUse
BY WordsAssumption DEF InUse, Range

\* Each text in use has its place among them.
LEMMA PlaceOf ==
  /\ \A t \in InUse : Place(t) \in DOMAIN Texts /\ Place(t) \in Nat /\ Texts[Place(t)] = t
  /\ \A i \in DOMAIN Texts : Place(Texts[i]) = i
<1>1. \A t \in InUse : Place(t) \in DOMAIN Texts /\ Texts[Place(t)] = t
  BY DEF Place, InUse, Range
<1>2. \A i \in DOMAIN Texts : i \in Nat
  BY TextsSequence
<1>3. \A i, j \in DOMAIN Texts : Texts[i] = Texts[j] => i = j
  BY WordsAssumption DEF IsInjective
<1> QED BY <1>1, <1>2, <1>3, TextsSequence

\* sort.Strings: each text once, in ascending order.
LEMMA SortedLists ==
  ASSUME NEW S \in SUBSET InUse
  PROVE  Range(Sorted(S)) = S /\ Ascending(Sorted(S))
<1> DEFINE P == {Place(t) : t \in S}
           at == InOrder(P)
           list == [n \in 1..Len(at) |-> Texts[at[n]]]
<1>1. P \in SUBSET DOMAIN Texts /\ P \in SUBSET Nat
  BY PlaceOf
<1>2. IsFiniteSet(P)
  <2>1. IsFiniteSet(1..Len(Texts))
    BY TextsSequence, FS_Interval
  <2> HIDE DEF P
  <2> QED BY <1>1, <2>1, TextsSequence, FS_Subset
<1>3. Sorted(S) = list
  BY DEF Sorted
<1>4. \A i \in P : Texts[i] \in S /\ Place(Texts[i]) = i
  BY PlaceOf
<1>5. \A t \in S : Place(t) \in P /\ Texts[Place(t)] = t
  BY PlaceOf
<1> HIDE DEF P
<1>6. /\ at \in Seq(P) /\ Len(at) = Cardinality(P) /\ Cardinality(P) \in Nat
      /\ \A i \in P : Seen(P, i) \in 1..Cardinality(P) /\ at[Seen(P, i)] = i
      /\ \A m, n \in 1..Cardinality(P) : m < n => at[m] < at[n]
  BY <1>1, <1>2, InOrderLists, SeenRises, FS_CardinalityType
<1> HIDE DEF at
<1>7. \A n \in 1..Len(at) : at[n] \in P
  BY <1>6
<1>8. Range(list) = S
  <2>1. \A n \in 1..Len(at) : list[n] \in S
    BY <1>4, <1>7
  <2>2. \A t \in S : \E n \in 1..Len(at) : list[n] = t
    BY <1>5, <1>6
  <2> QED BY <2>1, <2>2 DEF Range
<1>9. Ascending(list)
  <2>1. Len(list) = Len(at) /\ Len(at) \in Nat
    BY <1>6
  <2>2. ASSUME NEW i \in 1..(Len(at) - 1) PROVE TextBelow(list[i], list[i + 1])
    <3>1. i \in 1..Len(at) /\ i + 1 \in 1..Len(at) /\ i < i + 1
      BY <2>1
    <3>2. at[i] \in P /\ at[i + 1] \in P /\ at[i] < at[i + 1]
      BY <1>6, <1>7, <3>1
    <3>3. list[i] = Texts[at[i]] /\ list[i + 1] = Texts[at[i + 1]]
      BY <3>1
    <3> QED BY <1>4, <3>2, <3>3 DEF TextBelow
  <2> HIDE DEF list
  <2> QED BY <2>1, <2>2 DEF Ascending
<1> QED BY <1>3, <1>8, <1>9

----------------------------------------------------------------------------
(* Values                                                                  *)

TextItems == {Scalar(t, FALSE) : t \in InUse}
NumberItems == {Scalar(t, TRUE) : t \in DOMAIN Number}
Items    == TextItems \cup NumberItems

LEMMA StringItem ==
  ASSUME NEW t
  PROVE  /\ Scalar(t, FALSE).text = t /\ Scalar(t, FALSE).number = FALSE
         /\ Scalar(t, FALSE).numeric = 0
BY DEF Scalar

LEMMA NumberItem ==
  ASSUME NEW t \in DOMAIN Number
  PROVE  /\ Scalar(t, TRUE).text = Plain[Number[t]] /\ Scalar(t, TRUE).number = TRUE
         /\ Scalar(t, TRUE).numeric = Number[t] /\ Number[t] \in Int
<1>1. Number[t] \in Int
  BY WordsAssumption DEF Range
<1> QED BY <1>1 DEF Scalar

\* Less, case by case.
LEMMA LessTexts ==
  ASSUME NEW a, NEW b, a.number = FALSE, b.number = FALSE
  PROVE  Less(a, b) <=> Place(a.text) < Place(b.text)
BY DEF Less, TextBelow

LEMMA LessNumbers ==
  ASSUME NEW a, NEW b, a.number = TRUE, b.number = TRUE
  PROVE  Less(a, b) <=> a.numeric < b.numeric
BY DEF Less

LEMMA LessMixed ==
  ASSUME NEW a, NEW b, a.number = FALSE, b.number = TRUE
  PROVE  Less(a, b) /\ ~Less(b, a)
BY DEF Less

LEMMA ItemTypes ==
  /\ \A a \in TextItems : \E t \in InUse :
       a = Scalar(t, FALSE) /\ a.text = t /\ a.number = FALSE /\ a.numeric = 0
  /\ \A a \in NumberItems : \E t \in DOMAIN Number :
       /\ a = Scalar(t, TRUE) /\ a.text = Plain[Number[t]] /\ a.number = TRUE
       /\ a.numeric = Number[t] /\ Number[t] \in Int
<1>1. ASSUME NEW a \in TextItems
      PROVE  \E t \in InUse : a = Scalar(t, FALSE) /\ a.text = t /\ a.number = FALSE /\ a.numeric = 0
  <2>1. PICK t \in InUse : a = Scalar(t, FALSE)
    BY DEF TextItems
  <2> QED BY <2>1, StringItem
<1>2. ASSUME NEW a \in NumberItems
      PROVE  \E t \in DOMAIN Number :
               /\ a = Scalar(t, TRUE) /\ a.text = Plain[Number[t]] /\ a.number = TRUE
               /\ a.numeric = Number[t] /\ Number[t] \in Int
  <2>1. PICK t \in DOMAIN Number : a = Scalar(t, TRUE)
    BY DEF NumberItems
  <2> QED BY <2>1, NumberItem
<1> QED BY <1>1, <1>2

\* Scalar writes equal numbers alike: values that Less does not tell apart are
\* the same (index.go:23-47).
LEMMA LessTellsApart ==
  ASSUME NEW a \in Items, NEW b \in Items
  PROVE  ~Less(a, a) /\ (a # b => Less(a, b) \/ Less(b, a))
<1>1. CASE a \in TextItems /\ b \in TextItems
  <2>1. PICK s \in InUse : a = Scalar(s, FALSE) /\ a.text = s /\ a.number = FALSE
    BY <1>1, ItemTypes
  <2>2. PICK t \in InUse : b = Scalar(t, FALSE) /\ b.text = t /\ b.number = FALSE
    BY <1>1, ItemTypes
  <2>3. Place(s) \in Nat /\ Place(t) \in Nat /\ (Place(s) = Place(t) => s = t)
    BY PlaceOf
  <2>4. /\ Less(a, b) <=> Place(s) < Place(t)
        /\ Less(b, a) <=> Place(t) < Place(s)
        /\ Less(a, a) <=> Place(s) < Place(s)
    BY <2>1, <2>2, LessTexts
  <2>5. Place(s) = Place(t) => a = b
    BY <2>1, <2>2, <2>3
  <2>6. ~(Place(s) < Place(s)) /\ (Place(s) < Place(t) \/ Place(t) < Place(s) \/ Place(s) = Place(t))
    BY <2>3
  <2> QED BY <2>4, <2>5, <2>6
<1>2. CASE a \in NumberItems /\ b \in NumberItems
  <2>1. PICK s \in DOMAIN Number : /\ a = Scalar(s, TRUE) /\ a.number = TRUE
                                   /\ a.numeric = Number[s] /\ Number[s] \in Int
    BY <1>2, ItemTypes
  <2>2. PICK t \in DOMAIN Number : /\ b = Scalar(t, TRUE) /\ b.number = TRUE
                                   /\ b.numeric = Number[t] /\ Number[t] \in Int
    BY <1>2, ItemTypes
  <2>3. Number[s] = Number[t] => a = b
    BY <2>1, <2>2 DEF Scalar
  <2>4. /\ Less(a, b) <=> Number[s] < Number[t]
        /\ Less(b, a) <=> Number[t] < Number[s]
        /\ Less(a, a) <=> Number[s] < Number[s]
    BY <2>1, <2>2, LessNumbers
  <2>5. /\ ~(Number[s] < Number[s])
        /\ Number[s] < Number[t] \/ Number[t] < Number[s] \/ Number[s] = Number[t]
    BY <2>1, <2>2
  <2> QED BY <2>3, <2>4, <2>5
<1>3. ASSUME NEW c \in TextItems PROVE ~Less(c, c)
  <2>1. PICK s \in InUse : c.text = s /\ c.number = FALSE
    BY ItemTypes
  <2>2. Less(c, c) <=> Place(s) < Place(s)
    BY <2>1, LessTexts
  <2> QED BY <2>2, PlaceOf
<1>4. ASSUME NEW c \in NumberItems PROVE ~Less(c, c)
  <2>1. PICK t \in DOMAIN Number : c.number = TRUE /\ c.numeric = Number[t] /\ Number[t] \in Int
    BY ItemTypes
  <2>2. Less(c, c) <=> Number[t] < Number[t]
    BY <2>1, LessNumbers
  <2> QED BY <2>1, <2>2
<1>5. ASSUME NEW c \in TextItems, NEW d \in NumberItems PROVE Less(c, d)
  <2>1. c.number = FALSE /\ d.number = TRUE
    BY ItemTypes
  <2> QED BY <2>1, LessMixed
<1> QED BY <1>1, <1>2, <1>3, <1>4, <1>5 DEF Items

LEMMA LessOneWay ==
  ASSUME NEW a \in Items, NEW b \in Items
  PROVE  ~(Less(a, b) /\ Less(b, a))
<1>1. CASE a \in TextItems /\ b \in TextItems
  <2>1. a.number = FALSE /\ b.number = FALSE /\ a.text \in InUse /\ b.text \in InUse
    BY <1>1, ItemTypes
  <2>2. Place(a.text) \in Nat /\ Place(b.text) \in Nat
    BY <2>1, PlaceOf
  <2>3. (Less(a, b) <=> Place(a.text) < Place(b.text)) /\ (Less(b, a) <=> Place(b.text) < Place(a.text))
    BY <2>1, LessTexts
  <2> QED BY <2>2, <2>3
<1>2. CASE a \in NumberItems /\ b \in NumberItems
  <2>1. a.number = TRUE /\ b.number = TRUE /\ a.numeric \in Int /\ b.numeric \in Int
    BY <1>2, ItemTypes
  <2>2. (Less(a, b) <=> a.numeric < b.numeric) /\ (Less(b, a) <=> b.numeric < a.numeric)
    BY <2>1, LessNumbers
  <2> QED BY <2>1, <2>2
<1>3. ASSUME NEW c \in TextItems, NEW d \in NumberItems PROVE ~Less(d, c)
  <2>1. c.number = FALSE /\ d.number = TRUE
    BY ItemTypes
  <2> QED BY <2>1, LessMixed
<1> QED BY <1>1, <1>2, <1>3 DEF Items

----------------------------------------------------------------------------
(* Filing                                                                  *)

\* The index that describes the filing E of keys under values.
IndexOf(E) ==
  [keys |-> DOMAIN E, values |-> Range(E), entries |-> E,
   inverted |-> [i \in Range(E) |-> {k \in DOMAIN E : E[k] = i}]]

Apart(E, K) == [k \in DOMAIN E \ K |-> E[k]]

LEMMA RangeOf ==
  ASSUME NEW E, E \in [DOMAIN E -> Items]
  PROVE  /\ Range(E) \in SUBSET Items /\ \A k \in DOMAIN E : E[k] \in Range(E)
         /\ \A i \in Range(E) : \E k \in DOMAIN E : E[k] = i
BY DEF Range

\* Two values in the tree are one only if Less does not tell them apart.
LEMMA RemovedIs ==
  ASSUME NEW T \in SUBSET Items, NEW item \in Items
  PROVE  Removed(T, item) = T \ {item}
BY LessTellsApart DEF Removed

\* Delete keeps the index of the other keys (index.go:65-77).
LEMMA UnfiledIndex ==
  ASSUME NEW E, E \in [DOMAIN E -> Items], NEW key
  PROVE  Unfiled(IndexOf(E), key) = IndexOf(Apart(E, {key}))
<1> DEFINE F == Apart(E, {key})
<1>1. F \in [DOMAIN E \ {key} -> Items] /\ \A k \in DOMAIN E \ {key} : F[k] = E[k]
  BY DEF Apart
<1>2. CASE key \notin DOMAIN E
  <2>1. F = E
    BY <1>2 DEF Apart
  <2>2. Unfiled(IndexOf(E), key) = IndexOf(E)
    BY <1>2 DEF Unfiled, IndexOf
  <2> QED BY <2>1, <2>2
<1>3. CASE key \in DOMAIN E
  <2> DEFINE item == E[key]
             left == {k \in DOMAIN E : E[k] = item} \ {key}
             inv == [i \in Range(E) |-> {k \in DOMAIN E : E[k] = i}]
             inv2 == [i \in Range(F) |-> {k \in DOMAIN E \ {key} : F[k] = i}]
  <2>1. item \in Items /\ item \in Range(E) /\ Range(E) \in SUBSET Items
    BY <1>3, RangeOf
  <2>2. /\ \A i \in Range(E) : \E k \in DOMAIN E : E[k] = i
        /\ \A i \in Range(F) : \E k \in DOMAIN E \ {key} : E[k] = i
        /\ \A k \in DOMAIN E \ {key} : E[k] \in Range(F) /\ E[k] \in Range(E)
    BY <1>1 DEF Range
  <2> HIDE DEF F
  <2>3. Range(F) = IF left = {} THEN Range(E) \ {item} ELSE Range(E)
    <3>1. \A i \in Range(F) : i \in Range(E) /\ (left = {} => i # item)
      BY <2>2
    <3>2. \A i \in Range(E) : i # item => i \in Range(F)
      BY <2>2
    <3>3. left # {} => item \in Range(F)
      BY <2>2
    <3> QED BY <2>1, <3>1, <3>2, <3>3
  <2>4. Listed(Range(E), item, left) = Range(F)
    BY <2>1, <2>3, RemovedIs DEF Listed
  <2>5. (IF left = {} THEN [i \in DOMAIN inv \ {item} |-> inv[i]] ELSE [inv EXCEPT ![item] = left])
          = inv2
    <3>1. \A i \in Range(E) \ {item} : inv[i] = {k \in DOMAIN E \ {key} : F[k] = i}
      BY <1>1
    <3>2. left = {k \in DOMAIN E \ {key} : F[k] = item}
      BY <1>1
    <3>3. CASE left = {}
      <4>1. Range(F) = DOMAIN inv \ {item} /\ DOMAIN inv = Range(E)
        BY <2>3, <3>3
      <4> HIDE DEF inv
      <4> QED BY <3>1, <3>3, <4>1
    <3>4. CASE left # {}
      <4>1. Range(F) = Range(E)
        BY <2>3, <3>4
      <4>2. DOMAIN inv = Range(E)
        OBVIOUS
      <4> HIDE DEF inv, left
      <4>3. \A i \in Range(E) : [inv EXCEPT ![item] = left][i] = {k \in DOMAIN E \ {key} : F[k] = i}
        BY <2>1, <3>1, <3>2, <4>2
      <4>4. [inv EXCEPT ![item] = left] = [i \in Range(E) |-> [inv EXCEPT ![item] = left][i]]
        BY <4>2
      <4> QED BY <3>4, <4>1, <4>3, <4>4
    <3> QED BY <3>3, <3>4
  <2>6. IndexOf(F) = [keys |-> DOMAIN E \ {key}, values |-> Range(F), entries |-> F, inverted |-> inv2]
    BY <1>1 DEF IndexOf
  <2>7. IndexOf(E) = [keys |-> DOMAIN E, values |-> Range(E), entries |-> E, inverted |-> inv]
    BY DEF IndexOf
  <2>8. inv[item] \ {key} = left
    BY <2>1
  <2>9. F = [k \in DOMAIN E \ {key} |-> E[k]]
    BY DEF F, Apart
  <2> HIDE DEF inv2, left, item
  <2>10. Unfiled(IndexOf(E), key)
           = [keys |-> DOMAIN E \ {key}, values |-> Listed(Range(E), item, left),
              entries |-> [k \in DOMAIN E \ {key} |-> E[k]],
              inverted |-> IF left = {} THEN [i \in DOMAIN inv \ {item} |-> inv[i]]
                           ELSE [inv EXCEPT ![item] = left]]
    <3>1. Unfiled(IndexOf(E), key)
           = [keys |-> DOMAIN E \ {key}, values |-> Listed(Range(E), E[key], inv[E[key]] \ {key}),
              entries |-> [k \in DOMAIN E \ {key} |-> E[k]],
              inverted |-> IF inv[E[key]] \ {key} = {} THEN [i \in DOMAIN inv \ {E[key]} |-> inv[i]]
                           ELSE [inv EXCEPT ![E[key]] = inv[E[key]] \ {key}]]
      BY <1>3 DEF Unfiled, IndexOf
    <3> HIDE DEF inv
    <3> QED BY <2>8, <3>1 DEF item
  <2> HIDE DEF inv
  <2>11. Unfiled(IndexOf(E), key)
           = [keys |-> DOMAIN E \ {key}, values |-> Range(F), entries |-> F, inverted |-> inv2]
    BY <2>4, <2>5, <2>9, <2>10, Zenon
  <2> QED BY <2>6, <2>11 DEF F
<1> QED BY <1>2, <1>3

\* Several keys at once.
LEMMA AllUnfiledIndex ==
  ASSUME NEW E, E \in [DOMAIN E -> Items], NEW K
  PROVE  AllUnfiled(IndexOf(E), K) = IndexOf(Apart(E, K))
<1> DEFINE F == Apart(E, K)
           inv == [i \in Range(E) |-> {k \in DOMAIN E : E[k] = i}]
           inv2 == [i \in Range(F) |-> {k \in DOMAIN F : F[k] = i}]
           emptied == {i \in DOMAIN inv : inv[i] \ K = {}}
           others == {v \in Range(E) : \A i \in emptied : Less(v, i) \/ Less(i, v)}
<1>1. DOMAIN F = DOMAIN E \ K /\ \A k \in DOMAIN E \ K : F[k] = E[k]
  BY DEF Apart
<1>2. AllUnfiled(IndexOf(E), K)
        = [keys |-> DOMAIN E \ K, values |-> others, entries |-> [k \in DOMAIN E \ K |-> E[k]],
           inverted |-> [i \in DOMAIN inv \ emptied |-> inv[i] \ K]]
  BY DEF AllUnfiled, IndexOf
<1>3. IndexOf(F) = [keys |-> DOMAIN F, values |-> Range(F), entries |-> F, inverted |-> inv2]
  BY DEF IndexOf
<1>4. F = [k \in DOMAIN E \ K |-> E[k]]
  BY DEF Apart
<1> HIDE DEF F
<1>5. DOMAIN inv = Range(E) /\ Range(E) \in SUBSET Items
  BY RangeOf
<1>6. \A i \in Range(E) : inv[i] \ K = {k \in DOMAIN F : F[k] = i}
  BY <1>1
<1>7. Range(F) = DOMAIN inv \ emptied
  <2>1. \A i \in Range(F) : i \in Range(E) /\ inv[i] \ K # {}
    BY <1>1, <1>6 DEF Range
  <2>2. \A i \in Range(E) : inv[i] \ K # {} => i \in Range(F)
    BY <1>1, <1>6 DEF Range
  <2> HIDE DEF inv
  <2> QED BY <1>5, <2>1, <2>2
<1>8. others = Range(F)
  <2>1. \A v \in Range(E), i \in emptied :
          v \in Items /\ i \in Items /\ (Less(v, i) \/ Less(i, v) <=> v # i)
    <3>1. ASSUME NEW v \in Range(E), NEW i \in emptied
          PROVE  v \in Items /\ i \in Items /\ (Less(v, i) \/ Less(i, v) <=> v # i)
      <4>1. v \in Items /\ i \in Items
        BY <1>5
      <4> QED BY <4>1, LessTellsApart
    <3> QED BY <3>1
  <2>2. others = Range(E) \ emptied
    <3> HIDE DEF emptied
    <3> QED BY <2>1
  <2> HIDE DEF others, emptied, inv
  <2> QED BY <1>5, <1>7, <2>2
<1>9. [i \in DOMAIN inv \ emptied |-> inv[i] \ K] = inv2
  <2> HIDE DEF inv, emptied
  <2> QED BY <1>5, <1>6, <1>7
<1> HIDE DEF inv, inv2, emptied, others
<1>10. AllUnfiled(IndexOf(E), K)
         = [keys |-> DOMAIN F, values |-> Range(F), entries |-> F, inverted |-> inv2]
  BY <1>1, <1>2, <1>4, <1>8, <1>9, Zenon
<1> QED BY <1>3, <1>10 DEF F

\* Deleting keys at once is deleting one more than before: what the loops of
\* SweepExpired and GetWhere do comes to the same (background.go:17, query.go:13).
THEOREM OneByOne ==
  ASSUME NEW E, E \in [DOMAIN E -> Items], NEW K, NEW key
  PROVE  /\ AllUnfiled(IndexOf(E), {}) = IndexOf(E)
         /\ AllUnfiled(IndexOf(E), K \cup {key}) = Unfiled(AllUnfiled(IndexOf(E), K), key)
<1>1. Apart(E, {}) = E
  BY DEF Apart
<1> DEFINE F == Apart(E, K)
<1>2. DOMAIN F = DOMAIN E \ K /\ F \in [DOMAIN F -> Items]
  BY DEF Apart
<1>3. Apart(F, {key}) = Apart(E, K \cup {key})
  <2>1. DOMAIN F \ {key} = DOMAIN E \ (K \cup {key})
    BY <1>2
  <2>2. \A k \in DOMAIN F : F[k] = E[k]
    BY DEF Apart
  <2> HIDE DEF F
  <2> QED BY <2>1, <2>2 DEF Apart
<1>4. AllUnfiled(IndexOf(E), K) = IndexOf(F)
  BY AllUnfiledIndex
<1>5. AllUnfiled(IndexOf(E), {}) = IndexOf(Apart(E, {}))
  BY AllUnfiledIndex
<1>6. AllUnfiled(IndexOf(E), K \cup {key}) = IndexOf(Apart(E, K \cup {key}))
  BY AllUnfiledIndex
<1> HIDE DEF F
<1>7. Unfiled(IndexOf(F), key) = IndexOf(Apart(F, {key}))
  BY <1>2, UnfiledIndex
<1> QED BY <1>1, <1>3, <1>4, <1>5, <1>6, <1>7

\* Set files the key under its new value (index.go:49-63).
LEMMA FiledIndex ==
  ASSUME NEW E, E \in [DOMAIN E -> Items], NEW key, NEW text, NEW number,
         Scalar(text, number) \in Items
  PROVE  Filed(IndexOf(E), key, text, number) = IndexOf(With(E, key, Scalar(text, number)))
<1> DEFINE R == Apart(E, {key})
           item == Scalar(text, number)
           G == With(E, key, item)
           inv == [i \in Range(R) |-> {k \in DOMAIN R : R[k] = i}]
           same == IF item \in DOMAIN inv THEN inv[item] ELSE {}
           inv2 == [i \in Range(G) |-> {k \in DOMAIN G : G[k] = i}]
<1>1. /\ DOMAIN R = DOMAIN E \ {key} /\ \A k \in DOMAIN R : R[k] = E[k]
      /\ R \in [DOMAIN R -> Items]
  BY DEF Apart
<1>2. /\ DOMAIN G = DOMAIN E \cup {key} /\ G[key] = item
      /\ \A k \in DOMAIN R : G[k] = R[k]
  BY <1>1 DEF With
<1>3. G = With(R, key, item)
  <2>1. DOMAIN R \cup {key} = DOMAIN E \cup {key}
    BY <1>1
  <2>2. \A k \in DOMAIN E \cup {key} : k # key => R[k] = E[k]
    BY <1>1
  <2> HIDE DEF R, item
  <2> QED BY <2>1, <2>2 DEF With
<1>4. Unfiled(IndexOf(E), key) = IndexOf(R)
  BY UnfiledIndex
<1>5. item \in Items
  OBVIOUS
<1> HIDE DEF R, G
<1>6. IndexOf(R) = [keys |-> DOMAIN R, values |-> Range(R), entries |-> R, inverted |-> inv]
  BY DEF IndexOf
<1>7. IndexOf(G) = [keys |-> DOMAIN G, values |-> Range(G), entries |-> G, inverted |-> inv2]
  BY DEF IndexOf
<1>8. Range(G) = Range(R) \cup {item} /\ Range(R) \in SUBSET Items
  <2>1. Range(R) \in SUBSET Items
    BY <1>1, RangeOf
  <2>2. \A i \in Range(G) : i \in Range(R) \/ i = item
    BY <1>1, <1>2 DEF Range
  <2>3. item \in Range(G) /\ \A i \in Range(R) : i \in Range(G)
    BY <1>1, <1>2 DEF Range
  <2> HIDE DEF item
  <2> QED BY <2>1, <2>2, <2>3
<1>9. (IF item \in DOMAIN inv THEN Range(R) ELSE Inserted(Range(R), item)) = Range(G)
  <2>1. Removed(Range(R), item) = Range(R) \ {item}
    BY <1>5, <1>8, RemovedIs
  <2> HIDE DEF item
  <2> QED BY <1>8, <2>1 DEF Inserted
<1>10. With(inv, item, same \cup {key}) = inv2
  <2>1. same \cup {key} = {k \in DOMAIN G : G[k] = item}
    <3>1. same = {k \in DOMAIN R : R[k] = item}
      <4>1. CASE item \in Range(R)
        BY <4>1
      <4>2. CASE item \notin Range(R)
        BY <4>2 DEF Range
      <4> QED BY <4>1, <4>2
    <3> HIDE DEF item, same
    <3> QED BY <1>1, <1>2, <3>1
  <2>2. \A i \in Range(R) : i # item => inv[i] = {k \in DOMAIN G : G[k] = i}
    BY <1>1, <1>2
  <2>3. DOMAIN inv \cup {item} = Range(G)
    BY <1>8
  <2> HIDE DEF inv, item, same
  <2>4. \A y \in DOMAIN inv \cup {item} :
          (IF y = item THEN same \cup {key} ELSE inv[y]) = {k \in DOMAIN G : G[k] = y}
    BY <1>8, <2>1, <2>2, <2>3
  <2> QED BY <2>3, <2>4 DEF With
<1>11. Filed(IndexOf(E), key, text, number)
         = [keys |-> DOMAIN R \cup {key},
            values |-> IF item \in DOMAIN inv THEN Range(R) ELSE Inserted(Range(R), item),
            entries |-> With(R, key, item), inverted |-> With(inv, item, same \cup {key})]
  <2>1. Filed(IndexOf(E), key, text, number)
         = LET rest == IndexOf(R)
               old == IF item \in DOMAIN rest.inverted THEN rest.inverted[item] ELSE {}
           IN [keys |-> rest.keys \cup {key},
               values |-> IF item \in DOMAIN rest.inverted THEN rest.values
                          ELSE Inserted(rest.values, item),
               entries |-> With(rest.entries, key, item),
               inverted |-> With(rest.inverted, item, old \cup {key})]
    BY <1>4 DEF Filed
  <2>2. /\ IndexOf(R).keys = DOMAIN R /\ IndexOf(R).values = Range(R)
        /\ IndexOf(R).entries = R /\ IndexOf(R).inverted = inv
    BY DEF IndexOf
  <2> HIDE DEF item, inv
  <2> QED BY <2>1, <2>2
<1>12. DOMAIN R \cup {key} = DOMAIN G
  BY <1>1, <1>2
<1> HIDE DEF inv, inv2, same, item
<1>13. Filed(IndexOf(E), key, text, number)
         = [keys |-> DOMAIN G, values |-> Range(G), entries |-> G, inverted |-> inv2]
  BY <1>3, <1>9, <1>10, <1>11, <1>12, Zenon
<1> QED BY <1>7, <1>13 DEF G, item

----------------------------------------------------------------------------
(* The invariant                                                           *)

\* The entries of the map are typed as its users type them.
Well ==
  \A k \in DOMAIN state :
    /\ k \in InUse
    /\ state[k] \in [value : InUse, number : BOOLEAN, ttl : BOOLEAN, late : BOOLEAN]
    /\ state[k].number = TRUE => state[k].value \in DOMAIN Number

\* The value that each key of the map is to be filed under.
Filing == [k \in DOMAIN state |-> Scalar(state[k].value, state[k].number)]

MemInv == Well /\ index = IndexOf(Filing)

LEMMA FilingItems ==
  ASSUME Well
  PROVE  /\ DOMAIN Filing = DOMAIN state /\ Filing \in [DOMAIN Filing -> Items]
         /\ \A k \in DOMAIN state : Filing[k] = Scalar(state[k].value, state[k].number)
<1>1. \A k \in DOMAIN state : Scalar(state[k].value, state[k].number) \in Items
  <2>1. ASSUME NEW k \in DOMAIN state PROVE Scalar(state[k].value, state[k].number) \in Items
    <3>1. state[k].value \in InUse /\ (state[k].number = TRUE \/ state[k].number = FALSE)
      BY DEF Well
    <3>2. CASE state[k].number = TRUE
      <4>1. state[k].value \in DOMAIN Number
        BY <3>2 DEF Well
      <4> QED BY <3>2, <4>1 DEF Items, NumberItems
    <3>3. CASE state[k].number = FALSE
      BY <3>1, <3>3 DEF Items, TextItems
    <3> QED BY <3>1, <3>2, <3>3
  <2> QED BY <2>1
<1> QED BY <1>1 DEF Filing

LEMMA Described == MemInv => IndexConsistent
<1> SUFFICES ASSUME MemInv PROVE IndexConsistent
  OBVIOUS
<1>1. /\ index.keys = DOMAIN Filing /\ index.values = Range(Filing) /\ index.entries = Filing
      /\ index.inverted = [i \in Range(Filing) |-> {k \in DOMAIN Filing : Filing[k] = i}]
  BY DEF MemInv, IndexOf
<1>2. /\ DOMAIN Filing = DOMAIN state
      /\ \A k \in DOMAIN state : Filing[k] = Scalar(state[k].value, state[k].number)
  BY FilingItems DEF MemInv
<1> HIDE DEF Filing
<1> QED BY <1>1, <1>2 DEF IndexConsistent

----------------------------------------------------------------------------
(* Searches                                                                *)

\* A search as the language lets it be meant.
Asked(c) ==
  /\ c.field \in Fields /\ c.operator \in Operators
  /\ \/ c.operandIsNumber = TRUE /\ c.field = "value" /\ c.operand \in DOMAIN Number
     \/ c.operandIsNumber = FALSE /\ c.operand \in InUse

LEMMA PivotOf ==
  ASSUME NEW c, Asked(c)
  PROVE  /\ Scalar(c.operand, c.field # "key" /\ c.operandIsNumber)
              = Scalar(c.operand, c.operandIsNumber)
         /\ Scalar(c.operand, c.operandIsNumber) \in Items
         /\ Scalar(c.operand, c.operandIsNumber) # NoItem
<1>1. CASE c.operandIsNumber = TRUE /\ c.field = "value" /\ c.operand \in DOMAIN Number
  <2>1. (c.field # "key" /\ c.operandIsNumber) = TRUE
    BY <1>1
  <2>2. Scalar(c.operand, TRUE).text = Plain[Number[c.operand]]
    BY <1>1, NumberItem
  <2>3. Number[c.operand] \in DOMAIN Plain
    BY <1>1, WordsAssumption DEF Range
  <2>4. Plain[Number[c.operand]] # NoText
    BY <2>3, WordsAssumption
  <2>5. NoItem.text = NoText
    BY DEF NoItem
  <2>6. Scalar(c.operand, TRUE) # NoItem
    BY <2>2, <2>4, <2>5, Zenon
  <2>7. Scalar(c.operand, TRUE) \in Items
    BY <1>1 DEF Items, NumberItems
  <2> QED BY <1>1, <2>1, <2>6, <2>7
<1>2. CASE c.operandIsNumber = FALSE /\ c.operand \in InUse
  <2>1. (c.field # "key" /\ c.operandIsNumber) = FALSE
    BY <1>2
  <2>2. Scalar(c.operand, FALSE) # NoItem
    <3>1. NoItem.number = TRUE
      BY DEF NoItem
    <3>2. Scalar(c.operand, FALSE).number = FALSE
      BY StringItem
    <3> QED BY <3>1, <3>2, Zenon
  <2>3. Scalar(c.operand, FALSE) \in Items
    BY <1>2 DEF Items, TextItems
  <2> QED BY <1>2, <2>1, <2>2, <2>3
<1> QED BY <1>1, <1>2 DEF Asked

\* A visit of the values meets those of the pivot's type: strings come before
\* numbers, so it leaves them at the border or never crosses it (index.go:121).
LEMMA MetOfOneType ==
  ASSUME NEW T \in SUBSET Items, NEW idx, idx.values = T, NEW pivot \in Items, NEW operator
  PROVE  Met(idx, operator, pivot)
           = {v \in T : /\ v.number = pivot.number
                        /\ IF Upwards(operator) THEN ~Less(v, pivot) ELSE ~Less(pivot, v)}
<1> DEFINE ahead == OnTheWay(idx, operator, pivot)
<1>1. ahead = {v \in T : IF Upwards(operator) THEN ~Less(v, pivot) ELSE ~Less(pivot, v)}
  BY DEF OnTheWay
<1>2. \A a \in Items : a.number = TRUE \/ a.number = FALSE
  BY ItemTypes DEF Items
<1>3. ASSUME NEW a \in Items, NEW b \in Items, a.number # b.number
      PROVE  (Less(a, b) /\ ~Less(b, a) /\ a.number = FALSE /\ b.number = TRUE)
               \/ (Less(b, a) /\ ~Less(a, b) /\ a.number = TRUE /\ b.number = FALSE)
  <2>1. CASE a.number = FALSE
    BY <1>2, <1>3, <2>1, LessMixed
  <2>2. CASE a.number = TRUE
    BY <1>2, <1>3, <2>2, LessMixed
  <2> QED BY <1>2, <2>1, <2>2
<1>4. \A a \in Items : ~Less(a, a)
  BY LessTellsApart
<1> HIDE DEF ahead
<1>5. ASSUME NEW v \in ahead, v.number = pivot.number, NEW u \in ahead, u.number # pivot.number
      PROVE  IF Upwards(operator) THEN Less(v, u) ELSE Less(u, v)
  <2>1. v \in Items /\ u \in Items
    BY <1>1
  <2>2. IF Upwards(operator) THEN ~Less(u, pivot) ELSE ~Less(pivot, u)
    BY <1>1
  <2>3. CASE Upwards(operator)
    <3>1. pivot.number = FALSE /\ u.number = TRUE
      BY <1>3, <1>5, <2>1, <2>2, <2>3
    <3>2. Less(v, u)
      BY <1>5, <2>1, <3>1, LessMixed
    <3> QED BY <2>3, <3>2
  <2>4. CASE ~Upwards(operator)
    <3>1. pivot.number = TRUE /\ u.number = FALSE
      BY <1>3, <1>5, <2>1, <2>2, <2>4
    <3>2. Less(u, v)
      BY <1>5, <2>1, <3>1, LessMixed
    <3> QED BY <2>4, <3>2
  <2> QED BY <2>3, <2>4
<1>6. ASSUME NEW v \in ahead, v.number # pivot.number
      PROVE  ~(IF Upwards(operator) THEN Less(v, v) ELSE Less(v, v))
  BY <1>1, <1>4
<1>7. Met(idx, operator, pivot)
        = {v \in ahead : \A u \in ahead : u.number # pivot.number =>
                           IF Upwards(operator) THEN Less(v, u) ELSE Less(u, v)}
  BY DEF Met, ahead
<1>8. \A v \in ahead : v \in Met(idx, operator, pivot) <=> v.number = pivot.number
  BY <1>5, <1>6, <1>7
<1>9. Met(idx, operator, pivot) \subseteq ahead
  BY <1>7
<1>10. Met(idx, operator, pivot) = {v \in ahead : v.number = pivot.number}
  BY <1>8, <1>9
<1> QED BY <1>1, <1>10

\* What an operator other than contains asks of the distance to the operand.
Fits(operator, gap) ==
  /\ operator = "equals" => gap = 0
  /\ operator = ">"  => gap > 0
  /\ operator = ">=" => gap >= 0
  /\ operator = "<"  => gap < 0
  /\ operator = "<=" => gap <= 0

\* How far apart two texts are, as numbers or by their bytes.
Distance(s, t, number) ==
  IF number = TRUE THEN Number[s] - Number[t] ELSE Place(s) - Place(t)

LEMMA MatchesKey ==
  ASSUME NEW k, NEW c, Asked(c), c.field = "key"
  PROVE  Matches(k, c) <=> IF c.operator = "contains" THEN HasPart(k, c.operand)
                           ELSE Fits(c.operator, Place(k) - Place(c.operand))
<1>1. c.operandIsNumber = FALSE /\ c.operator \in Operators
  BY DEF Asked
<1>2. (c.field = "value" /\ state[k].number) = FALSE
  OBVIOUS
<1> DEFINE gap == Place(k) - Place(c.operand)
<1>3. Matches(k, c)
        <=> CASE c.operator = "contains" -> HasPart(k, c.operand)
              [] c.operator = "equals" -> gap = 0
              [] c.operator = ">"  -> gap > 0
              [] c.operator = ">=" -> gap >= 0
              [] c.operator = "<"  -> gap < 0
              [] c.operator = "<=" -> gap <= 0
  BY <1>1, <1>2 DEF Matches
<1> HIDE DEF gap
<1>4. CASE c.operator = "contains"
  BY <1>3, <1>4
<1>5. CASE c.operator # "contains"
  BY <1>1, <1>3, <1>5 DEF Operators, Fits, gap
<1> QED BY <1>4, <1>5

LEMMA MatchesValue ==
  ASSUME NEW k, NEW c, Asked(c), c.field = "value", state[k].number \in BOOLEAN
  PROVE  Matches(k, c) <=>
           IF c.operator = "contains" THEN state[k].number = FALSE /\ HasPart(state[k].value, c.operand)
           ELSE /\ state[k].number = c.operandIsNumber
                /\ Fits(c.operator, Distance(state[k].value, c.operand, state[k].number))
<1>1. c.operandIsNumber \in BOOLEAN /\ c.operator \in Operators
  BY DEF Asked
<1>2. (c.field = "value" /\ state[k].number) = state[k].number
  OBVIOUS
<1> DEFINE gap == Distance(state[k].value, c.operand, state[k].number)
<1>3. Matches(k, c)
        <=> /\ ~(c.operator = "contains" /\ state[k].number)
            /\ c.operator # "contains" => state[k].number = c.operandIsNumber
            /\ CASE c.operator = "contains" -> HasPart(state[k].value, c.operand)
                 [] c.operator = "equals" -> gap = 0
                 [] c.operator = ">"  -> gap > 0
                 [] c.operator = ">=" -> gap >= 0
                 [] c.operator = "<"  -> gap < 0
                 [] c.operator = "<=" -> gap <= 0
  <2>1. CASE state[k].number = TRUE
    BY <1>1, <1>2, <2>1 DEF Matches, Distance
  <2>2. CASE state[k].number = FALSE
    BY <1>1, <1>2, <2>2 DEF Matches, Distance
  <2> QED BY <2>1, <2>2
<1> HIDE DEF gap
<1>4. CASE c.operator = "contains"
  BY <1>3, <1>4
<1>5. CASE c.operator # "contains"
  BY <1>1, <1>3, <1>5 DEF Operators, Fits, gap
<1> QED BY <1>4, <1>5

LEMMA FitsIs ==
  ASSUME NEW x \in Int, NEW y \in Int, NEW operator
  PROVE  Fits(operator, x - y) <=> /\ operator = "equals" => x = y
                                   /\ operator = ">"  => y < x
                                   /\ operator = ">=" => ~(x < y)
                                   /\ operator = "<"  => x < y
                                   /\ operator = "<=" => ~(y < x)
BY DEF Fits

\* Less orders values of one type by their distance.
LEMMA GapOf ==
  ASSUME NEW s, NEW t, NEW number \in BOOLEAN, 
         IF number THEN s \in DOMAIN Number /\ t \in DOMAIN Number ELSE s \in InUse /\ t \in InUse,
         NEW operator \in Operators \ {"contains"}
  PROVE  Fits(operator, Distance(s, t, number))
           <=> /\ operator = "equals" => Scalar(s, number) = Scalar(t, number)
               /\ operator = ">"  => Less(Scalar(t, number), Scalar(s, number))
               /\ operator = ">=" => ~Less(Scalar(s, number), Scalar(t, number))
               /\ operator = "<"  => Less(Scalar(s, number), Scalar(t, number))
               /\ operator = "<=" => ~Less(Scalar(t, number), Scalar(s, number))
<1> DEFINE a == Scalar(s, number)
           b == Scalar(t, number)
<1>1. CASE number = TRUE
  <2>1. Number[s] \in Int /\ Number[t] \in Int /\ a.number = TRUE /\ b.number = TRUE
        /\ a.numeric = Number[s] /\ b.numeric = Number[t]
    BY <1>1, NumberItem
  <2>2. (Less(a, b) <=> Number[s] < Number[t]) /\ (Less(b, a) <=> Number[t] < Number[s])
    BY <2>1, LessNumbers
  <2>3. Number[s] = Number[t] <=> a = b
    <3>1. Number[s] = Number[t] => a = b
      BY <1>1 DEF Scalar
    <3>2. a = b => Number[s] = Number[t]
      BY <2>1
    <3> QED BY <3>1, <3>2
  <2>4. Fits(operator, Number[s] - Number[t])
          <=> /\ operator = "equals" => Number[s] = Number[t]
              /\ operator = ">"  => Number[t] < Number[s]
              /\ operator = ">=" => ~(Number[s] < Number[t])
              /\ operator = "<"  => Number[s] < Number[t]
              /\ operator = "<=" => ~(Number[t] < Number[s])
    BY <2>1, FitsIs
  <2> HIDE DEF a, b
  <2>5. Fits(operator, Number[s] - Number[t])
          <=> /\ operator = "equals" => a = b
              /\ operator = ">"  => Less(b, a)
              /\ operator = ">=" => ~Less(a, b)
              /\ operator = "<"  => Less(a, b)
              /\ operator = "<=" => ~Less(b, a)
    BY <2>2, <2>3, <2>4
  <2> QED BY <1>1, <2>5 DEF a, b, Distance
<1>2. CASE number = FALSE
  <2>1. /\ Place(s) \in Nat /\ Place(t) \in Nat /\ a.number = FALSE /\ b.number = FALSE
        /\ a.text = s /\ b.text = t
    BY <1>2, StringItem, PlaceOf
  <2>2. (Less(a, b) <=> Place(s) < Place(t)) /\ (Less(b, a) <=> Place(t) < Place(s))
    BY <2>1, LessTexts
  <2>3. Place(s) = Place(t) <=> a = b
    <3>1. Place(s) = Place(t) => s = t
      BY <1>2, PlaceOf
    <3>2. a = b => s = t
      BY <2>1
    <3> QED BY <3>1, <3>2
  <2>4. Fits(operator, Place(s) - Place(t))
          <=> /\ operator = "equals" => Place(s) = Place(t)
              /\ operator = ">"  => Place(t) < Place(s)
              /\ operator = ">=" => ~(Place(s) < Place(t))
              /\ operator = "<"  => Place(s) < Place(t)
              /\ operator = "<=" => ~(Place(t) < Place(s))
    <3> HIDE DEF a, b
    <3>1. Place(s) \in Int /\ Place(t) \in Int
      BY <2>1
    <3> DEFINE p == Place(s)
               q == Place(t)
    <3> HIDE DEF p, q
    <3>2. Fits(operator, p - q)
            <=> /\ operator = "equals" => p = q
                /\ operator = ">"  => q < p
                /\ operator = ">=" => ~(p < q)
                /\ operator = "<"  => p < q
                /\ operator = "<=" => ~(q < p)
      <4>1. p \in Int /\ q \in Int
        BY <3>1 DEF p, q
      <4> QED BY <4>1, FitsIs
    <3> QED BY <3>2 DEF p, q
  <2> HIDE DEF a, b
  <2>5. Fits(operator, Place(s) - Place(t))
          <=> /\ operator = "equals" => a = b
              /\ operator = ">"  => Less(b, a)
              /\ operator = ">=" => ~Less(a, b)
              /\ operator = "<"  => Less(a, b)
              /\ operator = "<=" => ~Less(b, a)
    BY <2>2, <2>3, <2>4
  <2> QED BY <1>2, <2>5 DEF a, b, Distance
<1> QED BY <1>1, <1>2

\* A search by key: no value is looked at (index.go:88-118).
LEMMA CollectedByKey ==
  ASSUME MemInv, NEW c, Asked(c), c.field = "key", NEW pivot
  PROVE  Collected(index, c.field, c.operator, c.operand, pivot)
           = {k \in DOMAIN state : Matches(k, c)}
<1>1. index.entries = Filing /\ DOMAIN Filing = DOMAIN state /\ index.keys = DOMAIN state
  BY FilingItems DEF MemInv, IndexOf
<1>2. c.operand \in InUse /\ c.operator \in Operators /\ c.field # "value"
  BY DEF Asked
<1>3. ASSUME NEW k \in DOMAIN state
      PROVE  /\ k \in InUse /\ Place(k) \in Int /\ Place(c.operand) \in Int
             /\ Place(k) = Place(c.operand) <=> k = c.operand
  BY <1>2, PlaceOf DEF MemInv, Well
<1>4. CASE c.operator = "contains"
  <2>1. \A k \in DOMAIN state : Matches(k, c) <=> HasPart(k, c.operand)
    BY <1>4, MatchesKey
  <2> QED BY <1>1, <1>2, <1>4, <2>1 DEF Collected
<1>5. CASE c.operator = "equals"
  <2>1. \A k \in DOMAIN state : Matches(k, c) <=> k = c.operand
    <3>1. ASSUME NEW k \in DOMAIN state PROVE Matches(k, c) <=> k = c.operand
      <4>1. Matches(k, c) <=> Fits(c.operator, Place(k) - Place(c.operand))
        BY <1>5, MatchesKey
      <4> QED BY <1>3, <1>5, <4>1, FitsIs
    <3> QED BY <3>1
  <2>2. Collected(index, c.field, c.operator, c.operand, pivot) = {c.operand} \cap DOMAIN state
    BY <1>1, <1>5 DEF Collected
  <2> QED BY <2>1, <2>2
<1>6. CASE c.operator \notin {"contains", "equals"}
  <2>1. Collected(index, c.field, c.operator, c.operand, pivot)
          = OnKeys(index, c.operator, c.operand)
    BY <1>6 DEF Collected
  <2>2. ASSUME NEW k \in DOMAIN state
        PROVE  Matches(k, c) <=>
                 /\ IF Upwards(c.operator) THEN ~TextBelow(k, c.operand) ELSE ~TextBelow(c.operand, k)
                 /\ ~(Strict(c.operator) /\ k = c.operand)
    <3>1. Matches(k, c) <=> Fits(c.operator, Place(k) - Place(c.operand))
      BY <1>6, MatchesKey
    <3>2. Fits(c.operator, Place(k) - Place(c.operand))
            <=> /\ c.operator = ">"  => Place(c.operand) < Place(k)
                /\ c.operator = ">=" => ~(Place(k) < Place(c.operand))
                /\ c.operator = "<"  => Place(k) < Place(c.operand)
                /\ c.operator = "<=" => ~(Place(c.operand) < Place(k))
      BY <1>3, <1>6, FitsIs
    <3>3. /\ Upwards(c.operator) <=> c.operator \in {">", ">="}
          /\ Strict(c.operator) <=> c.operator \in {">", "<"}
          /\ c.operator \in {">", ">=", "<", "<="}
      BY <1>2, <1>6 DEF Upwards, Strict, Operators
    <3>4. /\ TextBelow(k, c.operand) <=> Place(k) < Place(c.operand)
          /\ TextBelow(c.operand, k) <=> Place(c.operand) < Place(k)
      BY DEF TextBelow
    <3> QED BY <1>3, <3>1, <3>2, <3>3, <3>4
  <2> QED BY <1>1, <2>1, <2>2 DEF OnKeys
<1> QED BY <1>4, <1>5, <1>6

\* A search by value: the keys under the values met, each value with its type.
LEMMA CollectedByValue ==
  ASSUME MemInv, NEW c, Asked(c), c.field = "value"
  PROVE  Collected(index, c.field, c.operator, c.operand, Scalar(c.operand, c.operandIsNumber))
           = {k \in DOMAIN state : Matches(k, c)}
<1> DEFINE pivot == Scalar(c.operand, c.operandIsNumber)
           found == Collected(index, c.field, c.operator, c.operand, pivot)
<1>1. /\ index.entries = Filing /\ DOMAIN Filing = DOMAIN state
      /\ index.inverted = [i \in Range(Filing) |-> {k \in DOMAIN Filing : Filing[k] = i}]
      /\ index.values = Range(Filing)
  BY FilingItems DEF MemInv, IndexOf
<1>2. /\ c.operator \in Operators /\ c.operandIsNumber \in BOOLEAN /\ c.field # "key"
      /\ IF c.operandIsNumber THEN c.operand \in DOMAIN Number ELSE c.operand \in InUse
  BY DEF Asked
<1>3. pivot \in Items /\ pivot.number = c.operandIsNumber
  <2>1. CASE c.operandIsNumber = TRUE
    BY <1>2, <2>1, NumberItem, PivotOf
  <2>2. CASE c.operandIsNumber = FALSE
    BY <2>2, StringItem, PivotOf
  <2> QED BY <1>2, <2>1, <2>2
<1>4. ASSUME NEW k \in DOMAIN state
      PROVE  /\ Filing[k] = Scalar(state[k].value, state[k].number) /\ state[k].number \in BOOLEAN
             /\ Filing[k].number = state[k].number /\ Filing[k] \in Items
             /\ state[k].number = FALSE => Filing[k].text = state[k].value
             /\ IF state[k].number THEN state[k].value \in DOMAIN Number
                ELSE state[k].value \in InUse
  <2>1. /\ Filing[k] = Scalar(state[k].value, state[k].number) /\ state[k].number \in BOOLEAN
        /\ Filing[k] \in Items
        /\ IF state[k].number THEN state[k].value \in DOMAIN Number
           ELSE state[k].value \in InUse
    BY <1>1, FilingItems DEF MemInv, Well
  <2>2. CASE state[k].number = TRUE
    BY <2>1, <2>2, NumberItem
  <2>3. CASE state[k].number = FALSE
    BY <2>1, <2>3, StringItem
  <2> QED BY <2>1, <2>2, <2>3
<1>5. CASE c.operator = "contains"
  <2>1. \A k \in DOMAIN state : 
          Matches(k, c) <=> state[k].number = FALSE /\ HasPart(state[k].value, c.operand)
    <3>1. ASSUME NEW k \in DOMAIN state
          PROVE  Matches(k, c) <=> state[k].number = FALSE /\ HasPart(state[k].value, c.operand)
      <4>1. state[k].number \in BOOLEAN
        BY <1>4
      <4>2. Matches(k, c) <=> IF c.operator = "contains"
                              THEN state[k].number = FALSE /\ HasPart(state[k].value, c.operand)
                              ELSE /\ state[k].number = c.operandIsNumber
                                   /\ Fits(c.operator, Distance(state[k].value, c.operand, state[k].number))
        BY <4>1, MatchesValue
      <4> QED BY <1>5, <4>2
    <3> QED BY <3>1
  <2>2. found = {k \in DOMAIN state : ~Filing[k].number /\ HasPart(Filing[k].text, c.operand)}
    BY <1>1, <1>2, <1>5 DEF Collected
  <2>3. ASSUME NEW k \in DOMAIN state
        PROVE  ~Filing[k].number /\ HasPart(Filing[k].text, c.operand)
                 <=> state[k].number = FALSE /\ HasPart(state[k].value, c.operand)
    <3>1. CASE state[k].number = TRUE
      BY <1>4, <3>1
    <3>2. CASE state[k].number = FALSE
      BY <1>4, <3>2
    <3> QED BY <1>4, <3>1, <3>2
  <2> HIDE DEF found
  <2>4. found = {k \in DOMAIN state : Matches(k, c)}
    BY <2>1, <2>2, <2>3
  <2> QED BY <2>4 DEF found, pivot
<1>6. ASSUME c.operator # "contains", NEW k \in DOMAIN state
      PROVE  Matches(k, c) <=>
               /\ state[k].number = c.operandIsNumber
               /\ c.operator = "equals" => Filing[k] = pivot
               /\ c.operator = ">"  => Less(pivot, Filing[k])
               /\ c.operator = ">=" => ~Less(Filing[k], pivot)
               /\ c.operator = "<"  => Less(Filing[k], pivot)
               /\ c.operator = "<=" => ~Less(pivot, Filing[k])
  <2>1. Matches(k, c) <=>
           /\ state[k].number = c.operandIsNumber
           /\ Fits(c.operator, Distance(state[k].value, c.operand, state[k].number))
    <3>1. state[k].number \in BOOLEAN
      BY <1>4
    <3>2. Matches(k, c) <=> IF c.operator = "contains"
                            THEN state[k].number = FALSE /\ HasPart(state[k].value, c.operand)
                            ELSE /\ state[k].number = c.operandIsNumber
                                 /\ Fits(c.operator, Distance(state[k].value, c.operand, state[k].number))
      BY <3>1, MatchesValue
    <3> QED BY <1>6, <3>2
  <2>2. CASE state[k].number = c.operandIsNumber
    <3>1. IF state[k].number THEN state[k].value \in DOMAIN Number /\ c.operand \in DOMAIN Number
          ELSE state[k].value \in InUse /\ c.operand \in InUse
      BY <1>2, <1>4, <2>2
    <3>2. Fits(c.operator, Distance(state[k].value, c.operand, state[k].number))
            <=> /\ c.operator = "equals" => Filing[k] = pivot
                /\ c.operator = ">"  => Less(pivot, Filing[k])
                /\ c.operator = ">=" => ~Less(Filing[k], pivot)
                /\ c.operator = "<"  => Less(Filing[k], pivot)
                /\ c.operator = "<=" => ~Less(pivot, Filing[k])
      <4>1. c.operator \in Operators \ {"contains"} /\ state[k].number \in BOOLEAN
        BY <1>2, <1>4, <1>6
      <4>2. pivot = Scalar(c.operand, state[k].number)
        BY <2>2
      <4>3. Filing[k] = Scalar(state[k].value, state[k].number)
        BY <1>4
      <4> HIDE DEF pivot, Filing
      <4> QED BY <3>1, <4>1, <4>2, <4>3, GapOf
    <3> QED BY <2>1, <2>2, <3>2
  <2>3. CASE state[k].number # c.operandIsNumber
    BY <2>1, <2>3
  <2> QED BY <2>2, <2>3
<1> HIDE DEF pivot
<1>7. CASE c.operator = "equals"
  <2>1. \A k \in DOMAIN state : Matches(k, c) <=> Filing[k] = pivot
    <3>1. \A k \in DOMAIN state : Filing[k] = pivot => state[k].number = c.operandIsNumber
      BY <1>3, <1>4
    <3> QED BY <1>6, <1>7, <3>1
  <2>2. found = {k \in DOMAIN state : Filing[k] = pivot}
    <3>1. found = IF pivot \in DOMAIN index.inverted THEN index.inverted[pivot] ELSE {}
      BY <1>2, <1>7 DEF Collected
    <3> HIDE DEF found
    <3> QED BY <1>1, <3>1 DEF Range
  <2> HIDE DEF found
  <2>3. found = {k \in DOMAIN state : Matches(k, c)}
    BY <2>1, <2>2
  <2> QED BY <2>3 DEF found, pivot
<1>8. CASE c.operator \notin {"contains", "equals"}
  <2> DEFINE met == {u \in Met(index, c.operator, pivot) : ~(Strict(c.operator) /\ u = pivot)}
  <2>1. found = UNION {index.inverted[v] : v \in met}
    BY <1>2, <1>8 DEF Collected, OnValues
  <2>2. Range(Filing) \in SUBSET Items
    BY <1>1, <1>4 DEF Range
  <2>3. Met(index, c.operator, pivot)
          = {v \in Range(Filing) : 
               /\ v.number = pivot.number
               /\ IF Upwards(c.operator) THEN ~Less(v, pivot) ELSE ~Less(pivot, v)}
    BY <1>1, <1>3, <2>2, MetOfOneType
  <2>4. found = {k \in DOMAIN state : Filing[k] \in met}
    <3>1. met \subseteq Range(Filing)
      BY <2>3
    <3> HIDE DEF found, met
    <3>2. \A v \in met : index.inverted[v] = {k \in DOMAIN state : Filing[k] = v}
      BY <1>1, <3>1
    <3> QED BY <2>1, <3>2
  <2>5. ASSUME NEW k \in DOMAIN state PROVE Matches(k, c) <=> Filing[k] \in met
    <3>1. Filing[k] \in Range(Filing) /\ Filing[k] \in Items
      BY <1>1, <1>4 DEF Range
    <3>2. Filing[k].number = pivot.number <=> state[k].number = c.operandIsNumber
      BY <1>3, <1>4
    <3>3. Matches(k, c) <=>
               /\ state[k].number = c.operandIsNumber
               /\ c.operator = ">"  => Less(pivot, Filing[k])
               /\ c.operator = ">=" => ~Less(Filing[k], pivot)
               /\ c.operator = "<"  => Less(Filing[k], pivot)
               /\ c.operator = "<=" => ~Less(pivot, Filing[k])
      BY <1>6, <1>8
    <3>4. /\ Upwards(c.operator) <=> c.operator \in {">", ">="}
          /\ Strict(c.operator) <=> c.operator \in {">", "<"}
          /\ c.operator \in {">", ">=", "<", "<="}
      BY <1>2, <1>8 DEF Upwards, Strict, Operators
    <3>5. Filing[k] \in met <=>
            /\ Filing[k].number = pivot.number
            /\ IF Upwards(c.operator) THEN ~Less(Filing[k], pivot) ELSE ~Less(pivot, Filing[k])
            /\ ~(Strict(c.operator) /\ Filing[k] = pivot)
      BY <2>3, <3>1
    <3>6. /\ Less(pivot, Filing[k]) => ~Less(Filing[k], pivot)
          /\ Filing[k] = pivot => ~Less(Filing[k], pivot) /\ ~Less(pivot, Filing[k])
          /\ Filing[k] # pivot => Less(Filing[k], pivot) \/ Less(pivot, Filing[k])
      BY <1>3, <3>1, LessTellsApart, LessOneWay
    <3> HIDE DEF met
    <3>7. CASE Upwards(c.operator)
      BY <3>2, <3>3, <3>4, <3>5, <3>6, <3>7
    <3>8. CASE ~Upwards(c.operator)
      BY <3>2, <3>3, <3>4, <3>5, <3>6, <3>8
    <3> QED BY <3>7, <3>8
  <2> HIDE DEF found, met
  <2>6. found = {k \in DOMAIN state : Matches(k, c)}
    BY <2>4, <2>5
  <2> QED BY <2>6 DEF found, pivot
<1>9. CASE c.operator = "contains"
  BY <1>5, <1>9
<1> QED BY <1>7, <1>8, <1>9 DEF pivot

\* Find answers a search as a scan of the map would, in the order of the keys
\* (index.go:88-147).
THEOREM FindScans ==
  ASSUME MemInv, NEW c, Asked(c)
  PROVE  LET found == Find(index, c.field, c.operator, c.operand, c.operandIsNumber)
         IN /\ found.error = FALSE
            /\ Range(found.keys) = {k \in DOMAIN state : Matches(k, c)}
            /\ Ascending(found.keys)
<1> DEFINE pivot == Scalar(c.operand, c.operandIsNumber)
           keys == Collected(index, c.field, c.operator, c.operand, pivot)
<1>1. /\ Scalar(c.operand, c.field # "key" /\ c.operandIsNumber) = pivot /\ pivot # NoItem
      /\ c.field \in Fields /\ c.operator \in Operators
  BY PivotOf DEF Asked
<1>2. keys = {k \in DOMAIN state : Matches(k, c)}
  <2>1. CASE c.field = "key"
    BY <2>1, CollectedByKey
  <2>2. CASE c.field = "value"
    BY <2>2, CollectedByValue
  <2> QED BY <1>1, <2>1, <2>2 DEF Fields
<1>3. keys \in SUBSET InUse
  BY <1>2 DEF MemInv, Well
<1> HIDE DEF pivot
<1>4. Find(index, c.field, c.operator, c.operand, c.operandIsNumber)
        = [error |-> FALSE, keys |-> Sorted(keys)]
  BY <1>1 DEF Find
<1> HIDE DEF keys
<1>5. Range(Sorted(keys)) = keys /\ Ascending(Sorted(keys))
  BY <1>3, SortedLists
<1> QED BY <1>2, <1>4, <1>5

----------------------------------------------------------------------------
(* Steps                                                                   *)

\* A SET is asked for with a value of its kind.
Settable(c) ==
  \E k \in Keys, v \in InUse, n \in BOOLEAN, t \in TTLs \cup {0} :
    c = SetTo(k, v, n, t) /\ (n = TRUE => v \in DOMAIN Number)

\* A search is asked for with an operand of its kind.
Searchable(c) ==
  \E f \in Fields, o \in Operators, t \in InUse, n \in BOOLEAN :
    c = Search(f, o, t, n) /\ (n = TRUE => t \in DOMAIN Number /\ f = "value")

TextSet(k, v, t)      == SetTo(k, v, FALSE, t)
NumberSet(k, v, t)    == SetTo(k, v, TRUE, t)
TextSearch(f, o, t)   == Search(f, o, t, FALSE)
NumberSearch(o, t)    == Search("value", o, t, TRUE)

LEMMA CommandCases ==
  ASSUME NEW c \in Commands
  PROVE  \/ Settable(c)
         \/ \E d \in {"GET", "DELETE"}, k \in Keys : c = On(d, k)
         \/ c = Ping
         \/ Searchable(c)
<1>1. /\ Keys \subseteq InUse /\ Strings \subseteq InUse /\ Numbers \subseteq InUse
      /\ Numbers \subseteq DOMAIN Number
  BY MemoryAssumption DEF InUse
<1>2. DOMAIN Number \subseteq InUse
  BY WordsAssumption DEF InUse
<1> DEFINE S1 == {TextSet(k, v, t) : k \in Keys, v \in Strings, t \in TTLs \cup {0}}
           S2 == {NumberSet(k, v, t) : k \in Keys, v \in Numbers, t \in TTLs \cup {0}}
           S3 == {On(d, k) : d \in {"GET", "DELETE"}, k \in Keys}
           S5 == {TextSearch(f, o, t) : f \in Fields, o \in Operators, t \in InUse}
           S6 == {NumberSearch(o, t) : o \in Operators, t \in DOMAIN Number}
<1>3. c \in S1 \/ c \in S2 \/ c \in S3 \/ c = Ping \/ c \in S5 \/ c \in S6
  <2>1. Commands = S1 \cup S2 \cup S3 \cup {Ping} \cup S5 \cup S6
    BY DEF Commands, InUse, TextSet, NumberSet, TextSearch, NumberSearch
  <2> HIDE DEF S1, S2, S3, S5, S6
  <2> QED BY <2>1
<1>4. ASSUME c \in S1 PROVE Settable(c)
  <2>1. PICK k \in Keys, v \in Strings, t \in TTLs \cup {0} : c = TextSet(k, v, t)
    BY <1>4
  <2>2. v \in InUse /\ FALSE \in BOOLEAN
    BY <1>1, <2>1
  <2> QED BY <2>1, <2>2, Zenon DEF Settable, TextSet, NumberSet
<1>5. ASSUME c \in S2 PROVE Settable(c)
  <2>1. PICK k \in Keys, v \in Numbers, t \in TTLs \cup {0} : c = NumberSet(k, v, t)
    BY <1>5
  <2>2. v \in InUse /\ v \in DOMAIN Number /\ TRUE \in BOOLEAN
    BY <1>1, <2>1
  <2> QED BY <2>1, <2>2, Zenon DEF Settable, TextSet, NumberSet
<1>6. c \in S3 => \E d \in {"GET", "DELETE"}, k \in Keys : c = On(d, k)
  OBVIOUS
<1>7. ASSUME c \in S5 PROVE Searchable(c)
  <2>1. PICK f \in Fields, o \in Operators, t \in InUse : c = TextSearch(f, o, t)
    BY <1>7
  <2>2. FALSE \in BOOLEAN
    OBVIOUS
  <2> QED BY <2>1, <2>2, Zenon DEF Searchable, TextSearch, NumberSearch
<1>8. ASSUME c \in S6 PROVE Searchable(c)
  <2>1. PICK o \in Operators, t \in DOMAIN Number : c = NumberSearch(o, t)
    BY <1>8
  <2>2. "value" \in Fields /\ t \in InUse /\ TRUE \in BOOLEAN
    BY <1>2, <2>1 DEF Fields
  <2> QED BY <2>1, <2>2, Zenon DEF Searchable, TextSearch, NumberSearch
<1> HIDE DEF S1, S2, S3, S5, S6
<1> QED BY <1>3, <1>4, <1>5, <1>6, <1>7, <1>8

LEMMA CommandTyped ==
  ASSUME NEW c \in Commands
  PROVE  /\ c.kind \in {"SET", "GET", "DELETE", "PING", "GET_WHERE"}
         /\ c.kind = "SET" => /\ c.key \in InUse /\ c.value \in InUse /\ c.isNumber \in BOOLEAN
                              /\ c.isNumber = TRUE => c.value \in DOMAIN Number
         /\ c.kind = "GET_WHERE" => Asked(c)
<1>1. Keys \subseteq InUse
  BY MemoryAssumption DEF InUse
<1>2. CASE Settable(c)
  <2>1. PICK k \in Keys, v \in InUse, n \in BOOLEAN, t \in TTLs \cup {0} :
          c = SetTo(k, v, n, t) /\ (n = TRUE => v \in DOMAIN Number)
    BY <1>2 DEF Settable
  <2>2. c.kind = "SET" /\ c.key = k /\ c.value = v /\ c.isNumber = n
    BY <2>1, SetParts
  <2> QED BY <1>1, <2>1, <2>2
<1>3. CASE \E d \in {"GET", "DELETE"}, k \in Keys : c = On(d, k)
  <2>1. c.kind \in {"GET", "DELETE"}
    BY <1>3, OnParts
  <2> QED BY <2>1
<1>4. CASE c = Ping
  BY <1>4, PingParts
<1>5. CASE Searchable(c)
  <2>1. PICK f \in Fields, o \in Operators, t \in InUse, n \in BOOLEAN :
          c = Search(f, o, t, n) /\ (n = TRUE => t \in DOMAIN Number /\ f = "value")
    BY <1>5 DEF Searchable
  <2>2. /\ c.kind = "GET_WHERE" /\ c.field = f /\ c.operator = o /\ c.operand = t
        /\ c.operandIsNumber = n
    BY <2>1, SearchParts
  <2> QED BY <2>1, <2>2 DEF Asked, Fields
<1> QED BY <1>2, <1>3, <1>4, <1>5, CommandCases

\* Keys leave the map and the index together.
LEMMA RemovalKeeps ==
  ASSUME MemInv, NEW K, state' = Without(K),
         \/ index' = AllUnfiled(index, K)
         \/ \E key : K = {key} /\ index' = Unfiled(index, key)
  PROVE  MemInv'
<1>1. Filing \in [DOMAIN Filing -> Items] /\ DOMAIN Filing = DOMAIN state
  BY FilingItems DEF MemInv
<1>2. DOMAIN state' = DOMAIN state \ K /\ \A k \in DOMAIN state' : state'[k] = state[k]
  BY DEF Without
<1>3. Well'
  BY <1>2 DEF MemInv, Well
<1>4. Filing' = Apart(Filing, K)
  <2>1. \A k \in DOMAIN state \ K :
          Scalar(state'[k].value, state'[k].number) = Scalar(state[k].value, state[k].number)
    BY <1>2
  <2> QED BY <1>2, <2>1 DEF Filing, Apart
<1>5. index' = IndexOf(Apart(Filing, K))
  <2>1. index = IndexOf(Filing)
    BY DEF MemInv
  <2>2. CASE index' = AllUnfiled(index, K)
    BY <1>1, <2>1, <2>2, AllUnfiledIndex
  <2>3. CASE \E key : K = {key} /\ index' = Unfiled(index, key)
    BY <1>1, <2>1, <2>3, UnfiledIndex
  <2> QED BY <2>2, <2>3
<1> QED BY <1>3, <1>4, <1>5 DEF MemInv

\* A SET files the key under the value it puts in the map.
LEMMA SetKeeps ==
  ASSUME MemInv, NEW c, c.key \in InUse, c.value \in InUse, c.isNumber \in BOOLEAN,
         c.isNumber = TRUE => c.value \in DOMAIN Number,
         state' = With(state, c.key, [value |-> c.value, number |-> c.isNumber,
                                      ttl |-> c.ttl > 0, late |-> FALSE]),
         index' = Filed(index, c.key, c.value, c.isNumber)
  PROVE  MemInv'
<1> DEFINE e == [value |-> c.value, number |-> c.isNumber, ttl |-> c.ttl > 0, late |-> FALSE]
<1>1. Filing \in [DOMAIN Filing -> Items] /\ DOMAIN Filing = DOMAIN state
  BY FilingItems DEF MemInv
<1>2. /\ e \in [value : InUse, number : BOOLEAN, ttl : BOOLEAN, late : BOOLEAN]
      /\ e.value = c.value /\ e.number = c.isNumber
  <2>1. (c.ttl > 0) \in BOOLEAN
    OBVIOUS
  <2> QED BY <2>1
<1> HIDE DEF e
<1>3. /\ DOMAIN state' = DOMAIN state \cup {c.key}
      /\ \A k \in DOMAIN state' : state'[k] = IF k = c.key THEN e ELSE state[k]
  BY DEF With, e
<1>4. Well'
  <2>1. ASSUME NEW k \in DOMAIN state'
        PROVE  /\ k \in InUse
               /\ state'[k] \in [value : InUse, number : BOOLEAN, ttl : BOOLEAN, late : BOOLEAN]
               /\ state'[k].number = TRUE => state'[k].value \in DOMAIN Number
    <3>1. CASE k = c.key
      <4>1. state'[k] = e
        BY <1>3, <3>1
      <4> QED BY <1>2, <3>1, <4>1
    <3>2. CASE k # c.key
      <4>1. state'[k] = state[k] /\ k \in DOMAIN state
        BY <1>3, <3>2
      <4> QED BY <4>1 DEF MemInv, Well
    <3> QED BY <3>1, <3>2
  <2> QED BY <2>1 DEF Well
<1>5. Scalar(c.value, c.isNumber) \in Items
  <2>1. CASE c.isNumber = TRUE
    BY <2>1 DEF Items, NumberItems
  <2>2. CASE c.isNumber = FALSE
    BY <2>2 DEF Items, TextItems
  <2> QED BY <2>1, <2>2
<1>6. Filing' = With(Filing, c.key, Scalar(c.value, c.isNumber))
  <2>1. \A k \in DOMAIN state' :
          Scalar(state'[k].value, state'[k].number)
            = IF k = c.key THEN Scalar(c.value, c.isNumber) ELSE Filing[k]
    BY <1>2, <1>3 DEF Filing
  <2> QED BY <1>1, <1>3, <2>1 DEF Filing, With
<1>7. index' = IndexOf(With(Filing, c.key, Scalar(c.value, c.isNumber)))
  BY <1>1, <1>5, FiledIndex DEF MemInv
<1> QED BY <1>4, <1>6, <1>7 DEF MemInv

LEMMA ExpireKeeps ==
  ASSUME MemInv, NEW k \in DOMAIN state, Expire(k)
  PROVE  MemInv'
<1>1. state' = [state EXCEPT ![k].late = TRUE] /\ index' = index
  BY DEF Expire
<1>2. DOMAIN state' = DOMAIN state
  BY <1>1
<1>3. ASSUME NEW j \in DOMAIN state
      PROVE  /\ state'[j] \in [value : InUse, number : BOOLEAN, ttl : BOOLEAN, late : BOOLEAN]
             /\ state'[j].value = state[j].value /\ state'[j].number = state[j].number
  <2>1. state[j] \in [value : InUse, number : BOOLEAN, ttl : BOOLEAN, late : BOOLEAN]
    BY DEF MemInv, Well
  <2> QED BY <1>1, <2>1
<1>4. Well'
  BY <1>2, <1>3 DEF MemInv, Well
<1>5. Filing' = Filing
  BY <1>2, <1>3 DEF Filing
<1> QED BY <1>1, <1>4, <1>5 DEF MemInv

LEMMA RemovalOfAllKeeps ==
  ASSUME MemInv, NEW K, RemovalOfAll(K)
  PROVE  MemInv'
<1>1. state' = Without(K) /\ index' = AllUnfiled(index, K)
  BY DEF RemovalOfAll
<1>2. index' = AllUnfiled(index, K) \/ \E key : K = {key} /\ index' = Unfiled(index, key)
  BY <1>1
<1> HIDE DEF MemInv
<1> QED BY <1>1, <1>2, RemovalKeeps, Zenon

LEMMA UnchangedKeeps == MemInv /\ UNCHANGED <<state, index>> => MemInv'
BY DEF MemInv, Well, Filing

\* A line is carried out as the command that Parse hears in it.
LEMMA Carried ==
  ASSUME NEW line, Execute(line)
  PROVE  \/ heard'.kind = "SET" /\ ExecuteSet(heard')
         \/ heard'.kind = "GET" /\ ExecuteGet(heard')
         \/ heard'.kind = "DELETE" /\ ExecuteDelete(heard')
         \/ heard'.kind = "GET_WHERE" /\ ExecuteWhere(heard')
         \/ heard'.kind # "GET_WHERE" /\ UNCHANGED <<state, index>>
<1>1. heard' = Parse(line)
  BY DEF Execute
<1>2. CASE heard' .kind \in {"SET", "GET", "DELETE", "GET_WHERE"}
  BY <1>1, <1>2 DEF Execute
<1>3. CASE heard'.kind \notin {"SET", "GET", "DELETE", "GET_WHERE"}
  <2>1. UNCHANGED <<state, index>>
    BY <1>1, <1>3 DEF Execute
  <2> QED BY <1>3, <2>1
<1> QED BY <1>2, <1>3

\* Whatever command is heard, the index goes on describing the map; of what is
\* heard instead of a command it matters only that it is no SET.
LEMMA ExecuteKeeps ==
  ASSUME MemInv, NEW line, Execute(line), heard' \in Commands \/ heard'.kind # "SET"
  PROVE  MemInv'
<1> DEFINE c == heard'
<1>1. CASE UNCHANGED <<state, index>>
  BY <1>1, UnchangedKeeps
<1>2. CASE c.kind = "SET" /\ ExecuteSet(c)
  <2>1. CASE closed
    BY <1>1, <1>2, <2>1 DEF ExecuteSet
  <2>2. CASE ~closed
    <3>1. c \in Commands
      BY <1>2
    <3>2. /\ c.key \in InUse /\ c.value \in InUse /\ c.isNumber \in BOOLEAN
          /\ c.isNumber = TRUE => c.value \in DOMAIN Number
      BY <1>2, <3>1, CommandTyped
    <3>3. /\ state' = With(state, c.key, [value |-> c.value, number |-> c.isNumber,
                                         ttl |-> c.ttl > 0, late |-> FALSE])
          /\ index' = Filed(index, c.key, c.value, c.isNumber)
      BY <1>2, <2>2 DEF ExecuteSet
    <3> HIDE DEF c
    <3> QED BY <3>2, <3>3, SetKeeps
  <2> QED BY <2>1, <2>2
<1>3. CASE \E key : Removal(key)
  <2>1. PICK key : state' = Without({key}) /\ index' = Unfiled(index, key)
    BY <1>3 DEF Removal
  <2> QED BY <2>1, RemovalKeeps
<1>4. CASE c.kind = "GET" /\ ExecuteGet(c)
  <2>1. UNCHANGED <<state, index>> \/ Removal(c.key)
    BY <1>4 DEF ExecuteGet
  <2> QED BY <1>1, <1>3, <2>1
<1>5. CASE c.kind = "DELETE" /\ ExecuteDelete(c)
  <2>1. UNCHANGED <<state, index>> \/ Removal(c.key)
    BY <1>5 DEF ExecuteDelete
  <2> QED BY <1>1, <1>3, <2>1
<1>6. CASE c.kind = "GET_WHERE" /\ ExecuteWhere(c)
  <2>1. UNCHANGED <<state, index>> \/ \E K : RemovalOfAll(K)
    BY <1>6 DEF ExecuteWhere
  <2>2. CASE \E K : RemovalOfAll(K)
    BY <2>2, RemovalOfAllKeeps
  <2> QED BY <1>1, <2>1, <2>2
<1> QED BY <1>1, <1>2, <1>4, <1>5, <1>6, Carried

\* What the answer to a search holds.
LEMMA WhereAnswers ==
  ASSUME MemInv, NEW line, Execute(line), heard' \in Commands, heard'.kind = "GET_WHERE"
  PROVE  /\ Range(answer'.keys) = {k \in DOMAIN state \ Late(DOMAIN state) : Matches(k, heard')}
         /\ Ascending(answer'.keys) /\ ~answer'.error
<1> DEFINE c == heard'
           found == Find(index, c.field, c.operator, c.operand, c.operandIsNumber)
           meets == {k \in DOMAIN state : Matches(k, c)}
<1>1. ExecuteWhere(c)
  BY Carried
<1>2. found.error = FALSE /\ Range(found.keys) = meets
  BY FindScans, CommandTyped
<1>3. answer' = [error |-> found.error, keys |-> Sorted(Range(found.keys) \ Late(Range(found.keys)))]
  BY <1>1 DEF ExecuteWhere, Answer
<1>4. Range(found.keys) \ Late(Range(found.keys))
        = {k \in DOMAIN state \ Late(DOMAIN state) : Matches(k, c)}
  BY <1>2 DEF Late
<1> DEFINE left == {k \in DOMAIN state \ Late(DOMAIN state) : Matches(k, c)}
<1>5. left \in SUBSET InUse
  BY DEF MemInv, Well
<1> HIDE DEF found, left
<1>6. Range(Sorted(left)) = left /\ Ascending(Sorted(left))
  BY <1>5, SortedLists
<1>7. answer'.error = FALSE /\ answer'.keys = Sorted(left)
  BY <1>2, <1>3, <1>4 DEF left
<1> QED BY <1>6, <1>7 DEF left

LEMMA NotASlip == \A c \in Commands : c # Slip
<1>1. Slip.kind = "slip"
  BY DEF Slip, NoCommand
<1> QED BY <1>1, CommandTyped

\* A command is heard as it is meant.
LEMMA CommandHeard ==
  ASSUME NEW c \in Commands, NEW line \in Written(c)
  PROVE  Parse(line) = c
<1>1. Keys \subseteq InUse /\ TTLs \subseteq 1..MaxSeconds
  BY MemoryAssumption DEF InUse
<1>2. CASE Settable(c)
  <2>1. PICK k \in Keys, v \in InUse, n \in BOOLEAN, t \in TTLs \cup {0} :
          c = SetTo(k, v, n, t) /\ (n = TRUE => v \in DOMAIN Number)
    BY <1>2 DEF Settable
  <2>2. k \in Range(Texts) /\ v \in Range(Texts)
    BY <1>1, <2>1 DEF InUse
  <2>3. Parse(line) = IF t = 0 \/ t \in 1..MaxSeconds THEN SetTo(k, v, n, t) ELSE Invalid
    BY <2>1, <2>2, HearsSet
  <2>4. t = 0 \/ t \in 1..MaxSeconds
    BY <1>1, <2>1
  <2> QED BY <2>1, <2>3, <2>4
<1>3. CASE \E d \in {"GET", "DELETE"}, k \in Keys : c = On(d, k)
  <2>1. PICK d \in {"GET", "DELETE"}, k \in Keys : c = On(d, k)
    BY <1>3
  <2>2. k \in Range(Texts)
    BY <1>1, <2>1 DEF InUse
  <2> QED BY <2>1, <2>2, HearsOn
<1>4. CASE c = Ping
  BY <1>4, HearsPing
<1>5. CASE Searchable(c)
  <2>1. PICK f \in Fields, o \in Operators, t \in InUse, n \in BOOLEAN :
          c = Search(f, o, t, n) /\ (n = TRUE => t \in DOMAIN Number /\ f = "value")
    BY <1>5 DEF Searchable
  <2>2. /\ f \in {"key", "value"} /\ o \in {"equals", "contains", ">", ">=", "<", "<="}
        /\ t \in Range(Texts)
    BY <2>1 DEF Fields, Operators, InUse
  <2>3. Wanted(f, o, t, n)
    BY <2>1, <2>2 DEF Wanted
  <2>4. line \in Written(Search(f, o, t, n))
    BY <2>1
  <2>5. Parse(line) = Search(f, o, t, n)
    BY <2>3, <2>4, HearsWhere
  <2> QED BY <2>1, <2>5
<1> QED BY <1>2, <1>3, <1>4, <1>5, CommandCases

LEMMA SayHeard ==
  ASSUME NEW c \in Commands, Say(c)
  PROVE  heard' = c /\ meant' = c /\ meant' # Slip
<1>1. PICK line \in Written(c) : Execute(line)
  BY DEF Say
<1>2. heard' = Parse(line)
  BY <1>1 DEF Execute
<1> QED BY <1>1, <1>2, CommandHeard, NotASlip DEF Say

\* The verbs of which a key would make a command of what is left of another.
Verbs == {"GET", "DEL", "DELETE", "PING"}

LEMMA RefusedParts ==
  ASSUME NEW rest, NEW key, Refused(rest, key)
  PROVE  Parse(rest).kind # "SET" /\ (Upper(key) \notin Verbs => Parse(rest) = Invalid)
BY DEF Refused, Verbs

\* A slip stores nothing, and is refused unless its key is a verb.
LEMMA SlipHeard ==
  ASSUME NEW c \in Commands, Misspell(c)
  PROVE  /\ meant' = Slip /\ heard'.kind # "SET"
         /\ (\A k \in Keys : Upper(k) \notin Verbs) => heard' = Invalid
<1>1. Keys \subseteq InUse
  BY MemoryAssumption DEF InUse
<1>2. Invalid.kind # "SET"
  BY DEF Invalid, NoCommand
<1>3. meant' = Slip /\ c.kind \in {"SET", "DELETE"}
  BY DEF Misspell
<1>4. CASE \E line \in Written(c) : \E rest \in Forgotten(line) : Execute(rest)
  <2>1. PICK line \in Written(c) : \E rest \in Forgotten(line) : Execute(rest)
    BY <1>4
  <2>2. PICK i \in DOMAIN line : /\ Scanned(NoWord, SubSeq(line, 1, i - 1)).quote \in {"", line[i]}
                                 /\ Execute(RemoveAt(line, i))
    BY <2>1 DEF Forgotten
  <2>3. Removable(line, i)
    BY <2>2 DEF Removable
  <2>4. heard' = Parse(RemoveAt(line, i))
    BY <2>2 DEF Execute
  <2>5. ASSUME NEW k \in Keys, Refused(RemoveAt(line, i), k)
        PROVE  /\ heard'.kind # "SET"
               /\ (\A j \in Keys : Upper(j) \notin Verbs) => heard' = Invalid
    BY <2>4, <2>5, RefusedParts
  <2>6. CASE Settable(c)
    <3>1. PICK k \in Keys, v \in InUse, n \in BOOLEAN, t \in TTLs \cup {0} :
            c = SetTo(k, v, n, t) /\ (n = TRUE => v \in DOMAIN Number)
      BY <2>6 DEF Settable
    <3>2. k \in Range(Texts) /\ v \in Range(Texts)
      BY <1>1, <3>1 DEF InUse
    <3>3. Refused(RemoveAt(line, i), k)
      BY <2>1, <2>3, <3>1, <3>2, SlipOfSet
    <3> QED BY <1>3, <2>5, <3>1, <3>3
  <2>7. CASE \E d \in {"GET", "DELETE"}, k \in Keys : c = On(d, k)
    <3>1. PICK d \in {"GET", "DELETE"}, k \in Keys : c = On(d, k)
      BY <2>7
    <3>2. d = "DELETE"
      BY <1>3, <3>1, OnParts
    <3>3. k \in Range(Texts)
      BY <1>1, <3>1 DEF InUse
    <3>4. Refused(RemoveAt(line, i), k)
      BY <2>1, <2>3, <3>1, <3>2, <3>3, SlipOfDelete
    <3> QED BY <1>3, <2>5, <3>1, <3>4
  <2>8. ~(c = Ping) /\ ~Searchable(c)
    <3>1. Searchable(c) => c.kind = "GET_WHERE"
      BY SearchParts DEF Searchable
    <3> QED BY <1>3, <3>1, PingParts
  <2> QED BY <2>6, <2>7, <2>8, CommandCases
<1>5. CASE \E t \in Range(Seconds) \ 0..MaxSeconds :
             \E line \in Written(SetTo(c.key, c.value, c.isNumber, t)) : c.kind = "SET" /\ Execute(line)
  <2>1. PICK t \in Range(Seconds) \ 0..MaxSeconds :
          \E line \in Written(SetTo(c.key, c.value, c.isNumber, t)) : c.kind = "SET" /\ Execute(line)
    BY <1>5
  <2>2. PICK line \in Written(SetTo(c.key, c.value, c.isNumber, t)) : c.kind = "SET" /\ Execute(line)
    BY <2>1
  <2>3. /\ c.key \in Range(Texts) /\ c.value \in Range(Texts) /\ c.isNumber \in BOOLEAN
        /\ c.isNumber = TRUE => c.value \in DOMAIN Number
    BY <2>2, CommandTyped DEF InUse
  <2>4. t # 0 /\ t \notin 1..MaxSeconds
    BY <2>1, CommandAssumption
  <2>5. Parse(line) = Invalid
    <3> DEFINE k == c.key
               v == c.value
               n == c.isNumber
    <3> HIDE DEF k, v, n
    <3>1. /\ k \in Range(Texts) /\ v \in Range(Texts) /\ n \in BOOLEAN
          /\ n = TRUE => v \in DOMAIN Number
      BY <2>3 DEF k, v, n
    <3>2. line \in Written(SetTo(k, v, n, t))
      BY <2>2 DEF k, v, n
    <3>3. Parse(line) = IF t = 0 \/ t \in 1..MaxSeconds THEN SetTo(k, v, n, t) ELSE Invalid
      BY <3>1, <3>2, HearsSet
    <3> QED BY <2>4, <3>3
  <2>6. heard' = Parse(line)
    BY <2>2 DEF Execute
  <2> QED BY <1>2, <1>3, <2>5, <2>6
<1> QED BY <1>4, <1>5 DEF Misspell

LEMMA StepKeeps ==
  ASSUME MemInv, Next
  PROVE  MemInv'
<1>1. ASSUME NEW c \in Commands, Say(c) PROVE MemInv'
  <2>1. PICK line : Execute(line)
    BY <1>1 DEF Say
  <2>2. heard' \in Commands
    BY <1>1, SayHeard
  <2> QED BY <2>1, <2>2, ExecuteKeeps
<1>2. ASSUME NEW c \in Commands, Misspell(c) PROVE MemInv'
  <2>1. heard'.kind # "SET"
    BY <1>2, SlipHeard
  <2>2. \E line : Execute(line)
    BY <1>2 DEF Misspell
  <2> QED BY <2>1, <2>2, ExecuteKeeps
<1>3. ASSUME NEW k \in DOMAIN state, Expire(k) PROVE MemInv'
  BY <1>3, ExpireKeeps
<1>4. CASE Sweep
  BY <1>4, RemovalOfAllKeeps DEF Sweep
<1>5. CASE Close
  BY <1>5, UnchangedKeeps DEF Close
<1> QED BY <1>1, <1>2, <1>3, <1>4, <1>5 DEF Next

LEMMA InitKeeps == Init => MemInv
<1> SUFFICES ASSUME Init PROVE MemInv
  OBVIOUS
<1>1. state = << >> /\ index = EmptyIndex
  BY DEF Init
<1>2. DOMAIN state = {}
  BY <1>1
<1>3. Well
  BY <1>2 DEF Well
<1>4. Filing = << >> /\ DOMAIN Filing = {}
  BY <1>2 DEF Filing
<1>5. Range(Filing) = {}
  BY <1>4 DEF Range
<1>6. index = IndexOf(Filing)
  <2> HIDE DEF Filing
  <2>1. [i \in {} |-> {k \in DOMAIN Filing : Filing[k] = i}] = << >>
    OBVIOUS
  <2>2. IndexOf(Filing) = [keys |-> {}, values |-> {}, entries |-> << >>,
                           inverted |-> [i \in {} |-> {k \in DOMAIN Filing : Filing[k] = i}]]
    BY <1>4, <1>5 DEF IndexOf
  <2> QED BY <1>1, <2>1, <2>2, Zenon DEF EmptyIndex
<1> QED BY <1>3, <1>6 DEF MemInv

----------------------------------------------------------------------------
(* Theorems                                                                *)

LEMMA Silent ==
  ASSUME Next, ~\E c \in Commands : Say(c) \/ Misspell(c)
  PROVE  meant' = NoCommand /\ heard' = NoCommand /\ NoCommand # Slip
<1>1. NoCommand.kind = NoText /\ Slip.kind = "slip"
  BY DEF Slip, NoCommand
<1>2. NoText # "slip"
  BY Zenon DEF NoText
<1> QED BY <1>1, <1>2 DEF Next, Expire, Sweep, Close, Silence

\* Whatever way a command is written in, Parse hears that command: for all
\* texts, with blanks and marks in them, and all keys, values and operands
\* (command.go:25-140).
THEOREM Understood == Spec => HeardAsMeant
<1>1. [Next]_vars => [meant' # Slip => heard' = meant']_vars
  <2> SUFFICES ASSUME Next PROVE meant' # Slip => heard' = meant'
    OBVIOUS
  <2>1. CASE \E c \in Commands : Say(c)
    BY <2>1, SayHeard
  <2>2. CASE \E c \in Commands : Misspell(c)
    BY <2>2, SlipHeard
  <2> QED BY <2>1, <2>2, Silent
<1> QED BY <1>1, PTL DEF Spec, HeardAsMeant

\* What is left of a SET or a DELETE without one of its words or quotation
\* marks, and a SET for too long, never stores anything (command.go:48-67, 122).
THEOREM SlipsStoreNothing == Spec => [][meant' = Slip => heard'.kind # "SET"]_vars
<1>1. [Next]_vars => [meant' = Slip => heard'.kind # "SET"]_vars
  <2> SUFFICES ASSUME Next PROVE meant' = Slip => heard'.kind # "SET"
    OBVIOUS
  <2>1. CASE \E c \in Commands : Say(c)
    BY <2>1, SayHeard
  <2>2. CASE \E c \in Commands : Misspell(c)
    BY <2>2, SlipHeard
  <2> QED BY <2>1, <2>2, Silent
<1> QED BY <1>1, PTL DEF Spec

\* Unless a key is itself a verb - SET del x without its SET is a DELETE - such
\* a line is refused (command.go:28-70).
THEOREM SlipsNeverPass ==
  ASSUME \A k \in Keys : Upper(k) \notin Verbs
  PROVE  Spec => SlipsRefused
<1>1. [Next]_vars => [meant' = Slip => heard' = Invalid]_vars
  <2> SUFFICES ASSUME Next PROVE meant' = Slip => heard' = Invalid
    OBVIOUS
  <2>1. CASE \E c \in Commands : Say(c)
    BY <2>1, SayHeard
  <2>2. CASE \E c \in Commands : Misspell(c)
    BY <2>2, SlipHeard
  <2> QED BY <2>1, <2>2, Silent
<1> QED BY <1>1, PTL DEF Spec, SlipsRefused

\* Whatever is said, every command, slip, sweep and expiry leaves an index that
\* describes the map.
THEOREM Indexed == Spec => []MemInv
<1>1. MemInv /\ [Next]_vars => MemInv'
  <2> SUFFICES ASSUME MemInv, [Next]_vars PROVE MemInv'
    OBVIOUS
  <2>1. CASE UNCHANGED vars
    BY <2>1, UnchangedKeeps DEF vars
  <2>2. CASE Next
    BY <2>2, StepKeeps
  <2> QED BY <2>1, <2>2
<1> QED BY <1>1, InitKeeps, PTL DEF Spec

\* The four parts of the index and the map agree at all times (index.go:49-77).
THEOREM IndexAgrees == Spec => []IndexConsistent
BY Indexed, Described, PTL

\* GET WHERE answers with the entries that a scan of the whole map would find
\* (query.go:9-26, index.go:88-147).
THEOREM SearchesScan == Spec => AnswersAsScan
<1> DEFINE AsScan == meant'.kind = "GET_WHERE" =>
             /\ Range(answer'.keys) = {k \in DOMAIN state \ Late(DOMAIN state) : Matches(k, meant')}
             /\ Ascending(answer'.keys) /\ ~answer'.error
<1>1. MemInv /\ [Next]_vars => [AsScan]_vars
  <2> SUFFICES ASSUME MemInv, Next, meant'.kind = "GET_WHERE"
               PROVE  AsScan
    OBVIOUS
  <2>1. Slip.kind = "slip" /\ NoCommand.kind = NoText
    BY DEF Slip, NoCommand
  <2>2. NoText # "GET_WHERE"
    BY Zenon DEF NoText
  <2>3. \E c \in Commands : Say(c)
    BY <2>1, <2>2 DEF Next, Misspell, Expire, Sweep, Close, Silence
  <2>4. PICK c \in Commands : Say(c)
    BY <2>3
  <2>5. PICK line : Execute(line)
    BY <2>4 DEF Say
  <2>6. heard' = meant' /\ meant' \in Commands
    BY <2>4, SayHeard
  <2> QED BY <2>5, <2>6, WhereAnswers
<1> QED BY <1>1, Indexed, PTL DEF Spec, AnswersAsScan
=============================================================================
