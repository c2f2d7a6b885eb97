------------------------------ MODULE MCBudget ------------------------------
(***************************************************************************)
(* Budget on a small instance: two-instant days, and months of one and of  *)
(* two days, so that the clock crosses a day end inside a month and a day  *)
(* end that is also a month end.                                           *)
(***************************************************************************)
EXTENDS Budget, TLC

MCPeriodEnd ==
  [w \in Windows |-> [t \in Times |->
     IF w = "daily" THEN 2 * (t \div 2) + 2
     ELSE IF t < 2 THEN 2 ELSE 4 * ((t - 2) \div 4) + 6]]

Symmetry == Permutations(Principals) \cup Permutations(Runs)
=============================================================================
