------------------------------ MODULE Ordering ------------------------------
(* What sort and filter return: the elements of a set in the order of a     *)
(* relation, and the elements of a sequence at some of its places.          *)
EXTENDS Integers, FiniteSets

\* `before` is the set of pairs <<x, y>> with x to come before y.
InOrder(S, before) ==
  LET rank == [x \in S |-> Cardinality({y \in S : <<y, x>> \in before})]
  IN [i \in 1..Cardinality(S) |-> CHOOSE x \in S : rank[x] = i - 1]

Ascending(S) == {p \in S \X S : p[1] < p[2]}

AtPlaces(s, places) ==
  LET order == InOrder(places, Ascending(places))
  IN [i \in DOMAIN order |-> s[order[i]]]
=============================================================================
