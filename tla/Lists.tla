------------------------------- MODULE Lists -------------------------------
(***************************************************************************)
(* `retain`, `filter` and `filter_map`, by the places of what is kept: the *)
(* SelectSeq of a set of places.                                           *)
(***************************************************************************)
EXTENDS Naturals, FiniteSets

(* The place of the k-th member of a set of places K.                       *)
Nth(K, k) == CHOOSE i \in K : Cardinality({j \in K : j <= i}) = k

(* What stands at the places K of a list, in its order.                     *)
Kept(s, K) == [k \in 1..Cardinality(K) |-> s[Nth(K, k)]]
=============================================================================
