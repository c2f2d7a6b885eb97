----------------------------- MODULE MCGateway ------------------------------
(***************************************************************************)
(* Gateway on a small instance; all of it happens within one day.          *)
(***************************************************************************)
EXTENDS Gateway, TLC

MCPeriodEnd == [w \in {"daily", "monthly"} |-> [t \in 0..MaxClock |-> MaxClock + 1]]

Symmetry == Permutations(Runs) \cup Permutations(Principals)
=============================================================================
