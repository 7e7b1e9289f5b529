---------------------------- MODULE MCFleetHealth ----------------------------
(* FleetHealth for TLC: its robot is a model value. *)
EXTENDS FleetHealth
CONSTANT r1
=============================================================================
