------------------------------- MODULE Ranks -------------------------------
(* The numbers of a finite set, in ascending order.                        *)
EXTENDS Naturals, FiniteSets

\* How many of the numbers have been met on the way up when i has been.
Seen(numbers, i) == Cardinality({j \in numbers : j <= i})

InOrder(numbers) ==
  [n \in 1..Cardinality(numbers) |-> CHOOSE i \in numbers : Seen(numbers, i) = n]
============================================================================
