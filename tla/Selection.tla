------------------------------ MODULE Selection -----------------------------
(***************************************************************************)
(* What a comprehension with a condition makes of a list: the elements at  *)
(* the positions that meet it, in their order.  It is SelectSeq, told by   *)
(* positions, so that two lists can be selected from alike.                *)
(***************************************************************************)
EXTENDS Naturals, FiniteSets

(* The n-th member of a set of positions.                                  *)
Nth(S, n) == CHOOSE i \in S : Cardinality({j \in S : j <= i}) = n

Selected(s, S) == [n \in 1..Cardinality(S) |-> s[Nth(S, n)]]
=============================================================================
