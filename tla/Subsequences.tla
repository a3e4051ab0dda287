---------------------------- MODULE Subsequences ----------------------------
(***************************************************************************)
(* Parts of a sequence, for modules that theorems are proved about: the    *)
(* provers know nothing of SelectSeq and of sorting.                       *)
(***************************************************************************)
EXTENDS Integers, FiniteSets

\* The k-th smallest member of a set of numbers.
Nth(S, k) == CHOOSE i \in S : Cardinality({j \in S : j < i}) = k - 1
\* What s holds at the positions in at, in their order.
Part(s, at) == [k \in 1..Cardinality(at) |-> s[Nth(at, k)]]
=============================================================================
