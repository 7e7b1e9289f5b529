-------------------------- MODULE MCFleetDispatch --------------------------
(* Values of the constants of FleetDispatch for TLC. *)
EXTENDS FleetDispatch, TLC
CONSTANTS r1, r2, m1, m2
Missions == Permutations({m1, m2})
=============================================================================
