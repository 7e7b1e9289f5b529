--------------------------- MODULE MCMissionQueue ---------------------------
(* MissionQueue for TLC: its constants are plain values of the cfg. *)
EXTENDS MissionQueue
Levels == -1 .. 1
=============================================================================
