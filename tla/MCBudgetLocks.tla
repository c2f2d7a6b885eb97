--------------------------- MODULE MCBudgetLocks ----------------------------
(***************************************************************************)
(* BudgetLocks with days of one instant and a month of two, so that a      *)
(* statement can take effect after its day is over.                        *)
(***************************************************************************)
EXTENDS BudgetLocks, TLC

MCPeriodEnd == [w \in {"daily", "monthly"} |-> [t \in 0..MaxClock |->
                  IF w = "daily" THEN t + 1 ELSE MaxClock + 1]]

MCLimits == {<<2, 2>>}

Symmetry == Permutations(Principals) \cup Permutations(Runs \ Served)
              \cup Permutations(Sessions)
=============================================================================
