----------------------------- MODULE SortedSets -----------------------------
(***************************************************************************)
(* Sets of numbers in order, by a definition the provers can read (they    *)
(* cannot see into SortSeq and SelectSeq, which are defined for TLC).      *)
(***************************************************************************)
EXTENDS Naturals, FiniteSets

\* A set of numbers in order: the i-th element has i - 1 before it.
Sorted(S) ==
  [i \in 1..Cardinality(S) |->
     CHOOSE x \in S : Cardinality({y \in S : y < x}) = i - 1]
=============================================================================
