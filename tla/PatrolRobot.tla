----------------------------- MODULE PatrolRobot -----------------------------
(***************************************************************************)
(* What one robot promises the fleet: the steps its work can take.         *)
(***************************************************************************)
EXTENDS RobotWork

VARIABLE work  \* a RobotState

Init == work = NoWork

Begin == CanBegin(work) /\ work' = Begun(work)
Take == CanBeTaken(work) /\ work' = Taken(work)
End(s) == CanEnd(work) /\ work' = Ended(work, s)
EndOlder(s) == CanEndOlder(work) /\ work' = OlderEnded(work, s)

Next ==
  \/ Begin
  \/ Take
  \/ \E s \in EndStates : End(s) \/ EndOlder(s)

Spec == Init /\ [][Next]_work
=============================================================================
