---------------------------- MODULE Subsequences ----------------------------
(***************************************************************************)
(* What is left of a list when some of its elements are erased: SelectSeq  *)
(* by positions, so that two lists can lose the same ones and a proof can  *)
(* follow each element.                                                    *)
(***************************************************************************)
EXTENDS Naturals, Sequences, FiniteSets

\* The number of positions in K up to i, and the position with k of them.
Rank(K, i) == Cardinality({j \in K : j <= i})
Position(K, k) == CHOOSE i \in K : Rank(K, i) = k

\* The elements of s at the positions in K, in their order.
Kept(s, K) == [k \in 1..Cardinality(K) |-> s[Position(K, k)]]
=============================================================================
