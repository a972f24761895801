------------------------------- MODULE Index -------------------------------
(***************************************************************************)
(* The secondary index (internal/index/index.go): the value each key is      *)
(* filed under, its inverse, and two ordered trees, one of the keys and one  *)
(* of the values, strings before numbers.  A tree is the set of what is in   *)
(* it, a visit goes through it in its order.  The index is a value here,     *)
(* Find an operator on it.                                                   *)
(***************************************************************************)
EXTENDS Words

Operators == {"equals", "contains", ">", ">=", "<", "<="}
Fields    == {"key", "value"}

----------------------------------------------------------------------------
(* Values                                                                  *)

\* What scalar returns with an error.
NoItem == [text |-> NoText, number |-> TRUE, numeric |-> 0]

\* Numbers that are equal become the same value, however they are written.
Scalar(text, number) ==
  IF ~number THEN [text |-> text, number |-> FALSE, numeric |-> 0]
  ELSE IF text \in DOMAIN Number
  THEN [text |-> Plain[Number[text]], number |-> TRUE, numeric |-> Number[text]]
  ELSE NoItem

Less(a, b) ==
  IF a.number # b.number THEN ~a.number
  ELSE IF a.number THEN a.numeric < b.numeric ELSE TextBelow(a.text, b.text)

----------------------------------------------------------------------------
(* github.com/google/btree on the values: those that Less does not tell      *)
(* apart are one and the same to the tree.                                   *)

Removed(tree, item) == {v \in tree : Less(v, item) \/ Less(item, v)}

Inserted(tree, item) == Removed(tree, item) \cup {item}

----------------------------------------------------------------------------
(* The index                                                               *)

EmptyIndex == [keys |-> {}, values |-> {}, entries |-> << >>, inverted |-> << >>]

\* m[x] = v in Go
With(m, x, v) == [y \in DOMAIN m \cup {x} |-> IF y = x THEN v ELSE m[y]]

\* Faulty variant of Listed: a value without keys stays in the tree.
ListedForever(values, item, left) == values

\* The tree of the values when left are the keys that still have the value.
Listed(values, item, left) == IF left = {} THEN Removed(values, item) ELSE values

\* Delete
Unfiled(idx, key) ==
  IF key \notin DOMAIN idx.entries THEN idx
  ELSE LET item == idx.entries[key]
           left == idx.inverted[item] \ {key}
       IN [keys |-> idx.keys \ {key},
           values |-> Listed(idx.values, item, left),
           entries |-> [k \in DOMAIN idx.entries \ {key} |-> idx.entries[k]],
           inverted |-> IF left = {} THEN [i \in DOMAIN idx.inverted \ {item} |-> idx.inverted[i]]
                        ELSE [idx.inverted EXCEPT ![item] = left]]

\* Delete for each of several keys.
AllUnfiled(idx, keys) ==
  LET left(item) == idx.inverted[item] \ keys
      emptied    == {i \in DOMAIN idx.inverted : left(i) = {}}
  IN [keys |-> idx.keys \ keys,
      values |-> {v \in idx.values : \A i \in emptied : Less(v, i) \/ Less(i, v)},
      entries |-> [k \in DOMAIN idx.entries \ keys |-> idx.entries[k]],
      inverted |-> [i \in DOMAIN idx.inverted \ emptied |-> left(i)]]

\* Set; the text of a number must be one.
Filed(idx, key, text, number) ==
  LET item == Scalar(text, number)
      rest == Unfiled(idx, key)
      same == IF item \in DOMAIN rest.inverted THEN rest.inverted[item] ELSE {}
  IN [keys |-> rest.keys \cup {key},
      values |-> IF item \in DOMAIN rest.inverted THEN rest.values
                 ELSE Inserted(rest.values, item),
      entries |-> With(rest.entries, key, item),
      inverted |-> With(rest.inverted, item, same \cup {key})]

----------------------------------------------------------------------------
(* Find                                                                    *)

Upwards(operator) == operator \in {">", ">="}
Strict(operator)  == operator \in {">", "<"}

\* The keys visited from the operand on.
OnKeys(idx, operator, operand) ==
  {k \in idx.keys : /\ IF Upwards(operator) THEN ~TextBelow(k, operand) ELSE ~TextBelow(operand, k)
                    /\ ~(Strict(operator) /\ k = operand)}

\* The values a visit from pivot on would meet if it went to the end.
OnTheWay(idx, operator, pivot) ==
  {v \in idx.values : IF Upwards(operator) THEN ~Less(v, pivot) ELSE ~Less(pivot, v)}

\* Faulty variant of Met: the border between strings and numbers is not seen.
MetAcross(idx, operator, pivot) == OnTheWay(idx, operator, pivot)

\* The first value of the other type ends the visit.
Met(idx, operator, pivot) ==
  LET ahead == OnTheWay(idx, operator, pivot)
  IN {v \in ahead : \A u \in ahead : u.number # pivot.number =>
                      IF Upwards(operator) THEN Less(v, u) ELSE Less(u, v)}

OnValues(idx, operator, pivot) ==
  UNION {idx.inverted[v] : v \in {u \in Met(idx, operator, pivot) :
                                    ~(Strict(operator) /\ u = pivot)}}

\* The keys that Find collects.
Collected(idx, field, operator, operand, pivot) ==
  IF operator = "contains"
  THEN {k \in DOMAIN idx.entries :
          \/ field = "key" /\ HasPart(k, operand)
          \/ field = "value" /\ ~idx.entries[k].number /\ HasPart(idx.entries[k].text, operand)}
  ELSE IF field = "key"
  THEN IF operator = "equals" THEN {operand} \cap DOMAIN idx.entries
       ELSE OnKeys(idx, operator, operand)
  ELSE IF operator = "equals"
  THEN IF pivot \in DOMAIN idx.inverted THEN idx.inverted[pivot] ELSE {}
  ELSE OnValues(idx, operator, pivot)

Find(idx, field, operator, operand, number) ==
  LET pivot == Scalar(operand, field # "key" /\ number)
  IN IF field \notin Fields \/ operator \notin Operators \/ pivot = NoItem
     THEN [error |-> TRUE, keys |-> << >>]
     ELSE [error |-> FALSE, keys |-> Sorted(Collected(idx, field, operator, operand, pivot))]
=============================================================================
