---------------------------- MODULE MCPatrolFleet ----------------------------
(* Values of the constants of PatrolFleet for TLC. *)
EXTENDS PatrolFleet
CONSTANTS r1, r2
\* r1 is preferred: whichever robot is, the other one runs the retries.
UnequalBattery == [r \in Robot |-> IF r = r1 THEN 90 ELSE 80]
=============================================================================
