------------------------------ MODULE MCApiKeys -----------------------------
(***************************************************************************)
(* ApiKeys on a small instance.                                            *)
(***************************************************************************)
EXTENDS ApiKeys, TLC

Symmetry == Permutations(Calls) \cup Permutations(Principals)
=============================================================================
