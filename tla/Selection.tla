------------------------------ MODULE Selection ------------------------------
(***************************************************************************)
(* What a filter keeps of a sequence, by the set of positions it keeps:    *)
(* the retain and filter calls of the code, in a form without recursion.   *)
(***************************************************************************)
EXTENDS Naturals, FiniteSets

\* Which one a position is among the positions K, and which position is the n-th.
Rank(K, i) == Cardinality({j \in K : j <= i})
Place(K, n) == CHOOSE i \in K : Rank(K, i) = n

\* The elements of s at the positions K, in their order.
Kept(s, K) == [n \in 1..Cardinality(K) |-> s[Place(K, n)]]

\* A sequence without the elements in S.
Without(s, S) == Kept(s, {i \in DOMAIN s : s[i] \notin S})
=============================================================================
