------------------------------ MODULE Sorting -------------------------------
(***************************************************************************)
(* What slices.Sort makes of values that differ: place i holds the value   *)
(* that i - 1 others are below.  (SetToSortSeq of SequencesExt denotes the *)
(* same sequence; this definition is one that can be reasoned about.)      *)
(***************************************************************************)
EXTENDS Integers, FiniteSets

Below(S, x) == {y \in S : y < x}

\* The elements of a finite set of integers in ascending order.
Ascending(S) == [i \in 1..Cardinality(S) |-> CHOOSE x \in S : Cardinality(Below(S, x)) = i - 1]
=============================================================================
