-------------------------------- MODULE Ranks --------------------------------
(* The members of a finite set of numbers in their order.                   *)
EXTENDS Naturals, FiniteSets

Rank(S, i) == Cardinality({j \in S : j <= i})

(* The n-th one, from 1. *)
Nth(S, n) == CHOOSE i \in S : Rank(S, i) = n
=============================================================================
