--------------------------- MODULE MCPatrolManager ---------------------------
(* PatrolManager and what it implements, for TLC: the constants are plain      *)
(* values of the cfg.                                                          *)
EXTENDS PatrolRefinement
=============================================================================
