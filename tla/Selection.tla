----------------------------- MODULE Selection -----------------------------
(***************************************************************************)
(* What Array.prototype.filter keeps of an array, as a choice of indices:  *)
(* the filter is the set of the indices it keeps, so that statements about *)
(* it are statements about a set of numbers.                               *)
(***************************************************************************)
EXTENDS Naturals, Sequences, FiniteSets

\* How many numbers of S there are up to l, and the k-th number of S.
Rank(S, l) == Cardinality({x \in S : x <= l})
Nth(S, k) == CHOOSE l \in S : Rank(S, l) = k

\* The elements of s at the indices of S, in the order of s.
Chosen(s, S) == [k \in 1..Cardinality(S) |-> s[Nth(S, k)]]

=============================================================================
