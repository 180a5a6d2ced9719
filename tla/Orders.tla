-------------------------------- MODULE Orders --------------------------------
(* Sets in an order and sequences at some of their places.  This is what        *)
(* sorting, SelectSeq and removing duplicates do, said by counting instead of   *)
(* by recursion, so that it can be proved about.  An order is the set of its    *)
(* pairs, <<x, y>> if x does not come after y.                                  *)
EXTENDS Integers, Sequences, FiniteSets

(* The first n, or all if there are not as many.                                *)
First(s, n) == SubSeq(s, 1, IF Len(s) < n THEN Len(s) ELSE n)

(* The sequence itself, which TLC then works out once and not at every use.     *)
Evaluated(s) == SubSeq(s, 1, Len(s))

(* How many of S come no later than x, and the member that is the k-th.         *)
Rank(S, R, x) == Cardinality({y \in S : <<y, x>> \in R})
Nth(S, R, k) == CHOOSE x \in S : Rank(S, R, x) = k
Sorted(S, R) == Evaluated([k \in 1..Cardinality(S) |-> Nth(S, R, k)])

(* The members of a sequence at some places, as they come.                      *)
Ascending(S) == {p \in S \X S : p[1] <= p[2]}
Members(s, places) ==
    LET order == Sorted(places, Ascending(places))
    IN  Evaluated([k \in 1..Cardinality(places) |-> s[order[k]]])
=============================================================================
