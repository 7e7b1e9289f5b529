----------------------- MODULE MCReadinessSupervisor -----------------------
(* Values of the constants of ReadinessSupervisor for TLC. *)
EXTENDS ReadinessSupervisor, TLC

CONSTANTS r1, n1, n2

Nodes == Permutations({n1, n2})
=============================================================================
