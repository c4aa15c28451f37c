-------------------------------- MODULE Places --------------------------------
(***************************************************************************)
(* The elements of a sequence that stand at some of its places, in their   *)
(* order: what SelectSeq gives, without the recursion along the sequence,  *)
(* so that a proof can say which element is where.                         *)
(***************************************************************************)
EXTENDS Naturals, FiniteSets

\* The n-th of the places, from the left.
Nth(K, n) == CHOOSE k \in K : Cardinality({j \in K : j <= k}) = n

PickAt(s, K) == [n \in 1..Cardinality(K) |-> s[Nth(K, n)]]
==============================================================================
