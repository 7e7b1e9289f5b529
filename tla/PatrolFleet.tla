----------------------------- MODULE PatrolFleet -----------------------------
(***************************************************************************)
(* The scheduler, the fleet manager and the robots together: what the      *)
(* scheduler believes of its missions against what the robots do.          *)
(*                                                                         *)
(* The scheduler is MissionScheduler with the open environment of that     *)
(* module closed: an AssignMission call is answered after                  *)
(* handle_assign_mission ran, a start reaches its robot when the network   *)
(* pleases, and a fleet snapshot holds what the robots' heartbeats said.   *)
(*                                                                         *)
(* Abstractions:                                                           *)
(*  - A robot is its patrol_manager and robot_heartbeat in the few fields  *)
(*    of RobotWork, which module PatrolManager, that has them in detail,   *)
(*    implements.  A patrol started by hand is left out.                   *)
(*  - report is fleet_manager's record of each robot; the snapshot that    *)
(*    carries it is read when the scheduler's callback runs.  One register *)
(*    written and read late lags as a chain of them does: a snapshot may   *)
(*    be of any age and may skip states, and never goes back.              *)
(*  - A lost request, answer or start is one that stays under way.         *)
(*  - A robot is lost in a snapshot or not, as its heartbeats please; a    *)
(*    request for a robot that is offline is one Refuse answers.           *)
(*  - Missions that dispatch_patrol and the recurring timer queue are left *)
(*    to QueueMission, and the system stays ready once it is.              *)
(***************************************************************************)
EXTENDS MissionScheduler, RobotWork

CONSTANT MaxLost  \* bound: robots that are lost in one snapshot

\* The snapshots of this module are among those MissionScheduler allows.
ASSUME FleetAssumption == MaxLost \in Nat /\ RobotStatus \subseteq Statuses

VARIABLES
  asked,     \* AssignMission calls fleet_manager has not handled
  accepted,  \* AssignMission calls it answered with success
  starts,    \* StartMission requests under way, as the calls they come from
  robot,     \* each robot
  report,    \* what fleet_manager publishes of each robot
  doubted,   \* history: whether the scheduler let a mission go in doubt
  begun,     \* history, until then: the mission each robot began last, or 0
  heard      \* history, until then: what begun was when it was last heard of

managerVars == <<asked, accepted, starts, report>>
history == <<doubted, begun, heard>>
allVars == <<vars, managerVars, robot, history>>

FleetTypeOK ==
  /\ TypeOK
  /\ asked \subseteq calls /\ accepted \subseteq calls
  /\ starts \subseteq Call
  /\ robot \in [Robot -> RobotState]
  /\ report \in [Robot -> State]
  /\ doubted \in BOOLEAN
  /\ begun \in [Robot -> Nat] /\ heard \in [Robot -> Nat]

FleetInit ==
  /\ Init
  /\ asked = {} /\ accepted = {} /\ starts = {}
  /\ robot = [r \in Robot |-> NoWork]
  /\ report = [r \in Robot |-> "OTHER"]
  /\ doubted = FALSE
  /\ begun = [r \in Robot |-> 0] /\ heard = begun

(***************************************************************************)
(* The scheduler.                                                          *)
(***************************************************************************)
\* The step lets go of a mission in doubt, or does not.
Doubt(indeed) ==
  /\ doubted' = (doubted \/ indeed)
  /\ begun' = [r \in Robot |-> IF doubted' THEN 0 ELSE begun[r]]
  /\ heard' = [r \in Robot |-> IF doubted' THEN 0 ELSE heard[r]]

\* Callers and time touch nothing else.
Callers ==
  /\ \/ SystemReady(TRUE)
     \/ \E p \in Priorities : QueueMission(p)
     \/ \E m \in queue : CancelMission(m)
  /\ UNCHANGED <<managerVars, robot, history>>

TimePasses == Tick /\ UNCHANGED <<managerVars, robot, history>>

\* A tick of the dispatch timer.  Taking the slot back is a doubt: the start
\* may have been forwarded.  So is sending a second mission to a robot.
Reclaim ==
  /\ ReclaimSlot
  /\ Doubt(TRUE)
  /\ UNCHANGED <<managerVars, robot>>

Ask(r) ==
  /\ Dispatch(r)
  /\ asked' = asked \cup (calls' \ calls)
  /\ Doubt(inProgress \/ r \in DOMAIN active)
  /\ UNCHANGED <<accepted, starts, report, robot>>

\* What /fleet/state says while these robots are lost: no heartbeat came for
\* the grace period.
FleetSnapshot(lost) ==
  [r \in Robot |-> [state |-> report[r], online |-> r \notin lost,
                    confirmed_offline |-> r \in lost, localization_ok |-> TRUE]]

\* Giving up a mission is a doubt unless its robot has failed it: the robot is
\* lost, or did not begin it in time, or was in STATE_ERROR before it began.
GivenUp(r, lost) == r \in lost \/ report[r] = "IDLE" \/ heard[r] # active[r].mission.id

Snapshot(lost) ==
  /\ Cardinality(lost) <= MaxLost
  /\ UNCHANGED <<managerVars, robot>>
  /\ Doubt(\E r \in Failed(FleetSnapshot(lost)) : GivenUp(r, lost))
  /\ FleetState(FleetSnapshot(lost))

(***************************************************************************)
(* The fleet manager.                                                      *)
(***************************************************************************)
\* handle_assign_mission forwards a start and answers with success at once ...
Forward(c) ==
  /\ c \in asked
  /\ asked' = asked \ {c} /\ accepted' = accepted \cup {c}
  /\ starts' = starts \cup {c}
  /\ UNCHANGED <<vars, report, robot, history>>

\* Mutant of Refuse: the start is sent before the checks.
RefuseAfterSending(c) ==
  /\ c \in asked /\ asked' = asked \ {c}
  /\ starts' = starts \cup {c}
  /\ UNCHANGED <<vars, accepted, report, robot, history>>

\* ... or refuses it: the robot is offline, its service is not there, or the
\* mission lacks a target.
Refuse(c) ==
  /\ c \in asked /\ asked' = asked \ {c}
  /\ UNCHANGED <<vars, accepted, starts, report, robot, history>>

\* The answer reaches the scheduler.
Answer(c) ==
  /\ c \in calls \ asked
  /\ \/ StaleResponse(c)
     \/ c \in accepted /\ AcceptedResponse(c)
     \/ c \notin accepted /\ RejectedResponse(c)
  /\ accepted' = accepted \ {c}
  /\ UNCHANGED <<asked, starts, report, robot, history>>

\* A heartbeat is received, and published from now on.
Heartbeat(r) ==
  /\ report' = [report EXCEPT ![r] = robot[r].state]
  /\ heard' = [heard EXCEPT ![r] = begun[r]]
  /\ UNCHANGED <<vars, asked, accepted, starts, robot, doubted, begun>>

(***************************************************************************)
(* The robots: patrol_manager and its Nav2.                                *)
(***************************************************************************)
\* handle_start while no patrol is active.
Begin(c) ==
  /\ c \in starts /\ CanBegin(robot[c.robot])
  /\ starts' = starts \ {c}
  /\ robot' = [robot EXCEPT ![c.robot] = Begun(@)]
  /\ begun' = [begun EXCEPT ![c.robot] = IF doubted THEN 0 ELSE c.mission.id]
  /\ UNCHANGED <<vars, asked, accepted, report, doubted, heard>>

\* "Patrol mission is already active": the fleet manager only logs it.
TurnDown(c) ==
  /\ c \in starts /\ ~CanBegin(robot[c.robot])
  /\ starts' = starts \ {c}
  /\ UNCHANGED <<vars, asked, accepted, report, robot, history>>

GoalAccepted(r) ==
  /\ CanBeTaken(robot[r])
  /\ robot' = [robot EXCEPT ![r] = Taken(@)]
  /\ UNCHANGED <<vars, managerVars, history>>

\* The goal sent last is rejected, or ends well or badly.
End(r, s) ==
  /\ CanEnd(robot[r])
  /\ robot' = [robot EXCEPT ![r] = Ended(@, s)]
  /\ UNCHANGED <<vars, managerVars, history>>

\* So is or does an older one, whichever goal runs now.
EndOlder(r, s) ==
  /\ CanEndOlder(robot[r])
  /\ robot' = [robot EXCEPT ![r] = OlderEnded(@, s)]
  /\ UNCHANGED <<vars, managerVars, history>>

-----------------------------------------------------------------------------
FleetNext ==
  \/ Callers
  \/ TimePasses
  \/ Reclaim
  \/ \E r \in Robot : Ask(r)
  \/ \E lost \in SUBSET Robot : Snapshot(lost)
  \/ \E c \in asked : Forward(c)
  \/ \E c \in asked : Refuse(c)
  \/ \E c \in calls : Answer(c)
  \/ \E r \in Robot : Heartbeat(r)
  \/ \E c \in starts : Begin(c)
  \/ \E c \in starts : TurnDown(c)
  \/ \E r \in Robot : GoalAccepted(r)
  \/ \E r \in Robot, s \in EndStates : End(r, s)
  \/ \E r \in Robot, s \in EndStates : EndOlder(r, s)

FleetSpec == FleetInit /\ [][FleetNext]_allVars

\* Time passes, heartbeats and snapshots keep coming, and goals come to an end.
\* Starts and answers may be lost all the same.
FairFleetSpec ==
  /\ FleetSpec
  /\ WF_allVars(TimePasses)
  /\ WF_allVars(\E lost \in SUBSET Robot : Snapshot(lost))
  /\ \A r \in Robot :
       /\ WF_allVars(Heartbeat(r))
       /\ WF_allVars(\E s \in EndStates : End(r, s) \/ EndOlder(r, s))

-----------------------------------------------------------------------------
\* The missions the scheduler has for robot r, or is sending it.
MissionsOf(r) ==
  {active[s].mission : s \in DOMAIN active \cap {r}} \cup
  {c.mission : c \in {d \in CurrentCalls : d.robot = r}}

\* While nothing was let go in doubt, the scheduler knows where every mission
\* is: each job it was given is queued, on a robot or ended ("One mission's path
\* from queue to done, retry, or drop"), a robot with a goal works at the mission
\* the scheduler has for it or is sending it, and no two robots have one job.
BeliefsAgree ==
  ~doubted =>
    /\ NeverForgotten
    /\ \A r \in Robot : robot[r].goal => \E m \in MissionsOf(r) : m.id = begun[r]
    /\ \A q, r \in Robot :
         q # r => JobsOf(MissionsOf(q)) \cap JobsOf(MissionsOf(r)) = {}

\* "so a stale IDLE can't be mistaken for completion" (lines 243-252): a
\* mission counts as completed only after its robot began it and while that
\* robot is done with it, unless something was let go in doubt before.
CompletionIsTrue ==
  [][\A r \in DOMAIN active \ DOMAIN active' :
       ~doubted /\ [job |-> active[r].mission.job, how |-> "completed"] \in closed'
       => heard[r] = active[r].mission.id /\ ~robot[r].goal]_allVars

\* No mission stays on a robot for good: one that was never begun, was turned
\* down, or whose robot failed it, is given up as the one that was done is
\* taken off, whatever starts and answers are lost (lines 398-414).
MissionsLeaveTheRobots ==
  \A id \in 1 .. MaxJobs * MaxAttempts : []<>(\A m \in Running : m.id # id)
=============================================================================
