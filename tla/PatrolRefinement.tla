-------------------------- MODULE PatrolRefinement --------------------------
(***************************************************************************)
(* PatrolManager, with its Nav2 and its heartbeat node, is one of the      *)
(* robots the fleet is modelled with.  The goals with a result to come,    *)
(* patrol_active_ and the status are all the fleet can tell of it.         *)
(***************************************************************************)
EXTENDS PatrolManager

Last == Cardinality(Sent)
Open == {g \in Sent : goals[g].client # "done"}

\* While send_goal waits, the goal to come is the last one and all others are
\* older.
Older == IF waiting THEN Open ELSE Open \ {Last}

\* The status as robot_heartbeat would report it now.
StatusNow == IF StateOf(status) = "PATROLLING" THEN "OTHER" ELSE StateOf(status)

Work == [goal |-> waiting \/ Last \in Open,
         preempted |-> Cardinality(Older),
         active |-> patrol_active, state |-> StatusNow]

Robot == INSTANCE PatrolRobot WITH work <- Work

-----------------------------------------------------------------------------
\* Whatever starts, stops, answers and results come in whatever order, also
\* when goals overlap, the robot does to its work what PatrolRobot allows: it
\* is active only by an answer, it is done with a goal once, and its status
\* turns IDLE or ERROR only with the end of a goal.
ImplementsRobot == Robot!Spec
=============================================================================
