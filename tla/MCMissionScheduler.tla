------------------------- MODULE MCMissionScheduler -------------------------
(* Values of the constants of MissionScheduler for TLC. *)
EXTENDS SchedulerRefinement

CONSTANTS r1, r2

Idle == [state |-> "IDLE", online |-> TRUE, confirmed_offline |-> FALSE,
         localization_ok |-> TRUE]
Working == [Idle EXCEPT !.state = "OTHER"]
Erred == [Idle EXCEPT !.state = "ERROR"]

OneRobot == {r1}
TwoRobots == {r1, r2}
FullBattery == [r \in Robot |-> 90]
MovingStatuses == {Idle, Working, Erred}
StayIdle == {Idle}
SlotStatuses == {Idle, Erred}
=============================================================================
