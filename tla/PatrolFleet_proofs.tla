------------------------- MODULE PatrolFleet_proofs -------------------------
(***************************************************************************)
(* Proofs about scheduler, fleet manager and robots together: the          *)
(* composition implements MissionScheduler, so that what is proved of the  *)
(* scheduler in an open environment holds in it; and until the scheduler   *)
(* gives a mission up in doubt, it knows what every robot works at.        *)
(***************************************************************************)
EXTENDS PatrolFleet, SchedulerRefinement_proofs

-----------------------------------------------------------------------------
(***************************************************************************)
(* Types.                                                                  *)
(***************************************************************************)
\* The variables this module adds keep their types.
FleetTypes ==
  /\ asked \subseteq calls /\ accepted \subseteq calls
  /\ starts \subseteq Call
  /\ robot \in [Robot -> RobotState]
  /\ report \in [Robot -> State]
  /\ doubted \in BOOLEAN
  /\ begun \in [Robot -> Nat] /\ heard \in [Robot -> Nat]

\* A snapshot of the composition is one the scheduler's module allows.
LEMMA SnapshotAllowed ==
  ASSUME FleetTypes, NEW lost \in SUBSET Robot
  PROVE  FleetSnapshot(lost) \in [Robot -> Statuses]
<1>1. ASSUME NEW r \in Robot
      PROVE  [state |-> report[r], online |-> r \notin lost,
              confirmed_offline |-> r \in lost, localization_ok |-> TRUE] \in Statuses
  <2>1. report[r] \in {"IDLE", "OTHER", "ERROR"}
    BY DEF FleetTypes, State
  <2>2. (r \notin lost) \in BOOLEAN /\ (r \in lost) \in BOOLEAN
    OBVIOUS
  <2>3. [state |-> report[r], online |-> r \notin lost,
         confirmed_offline |-> r \in lost, localization_ok |-> TRUE] \in RobotStatus
    BY <2>1, <2>2 DEF RobotStatus
  <2> QED
    BY <2>3, FleetAssumption
<1> QED
  BY <1>1 DEF FleetSnapshot

\* Every step of the composition is a step of the scheduler or leaves it alone.
LEMMA SchedulerStep ==
  ASSUME FleetTypes, [FleetNext]_allVars
  PROVE  [Next]_vars
<1>1. CASE Callers
  BY <1>1 DEF Callers, Next
<1>2. CASE TimePasses
  BY <1>2 DEF TimePasses, Next
<1>3. CASE Reclaim
  BY <1>3 DEF Reclaim, Next
<1>4. CASE \E r \in Robot : Ask(r)
  BY <1>4 DEF Ask, Next
<1>5. CASE \E lost \in SUBSET Robot : Snapshot(lost)
  BY <1>5, SnapshotAllowed DEF Snapshot, Next
<1>6. CASE \E c \in calls : Answer(c)
  BY <1>6 DEF Answer, Next
<1>7. CASE \E c \in asked : Forward(c)
  BY <1>7 DEF Forward
<1>8. CASE \E c \in asked : Refuse(c)
  BY <1>8 DEF Refuse
<1>9. CASE \E r \in Robot : Heartbeat(r)
  BY <1>9 DEF Heartbeat
<1>10. CASE \E c \in starts : Begin(c)
  BY <1>10 DEF Begin
<1>11. CASE \E c \in starts : TurnDown(c)
  BY <1>11 DEF TurnDown
<1>12. CASE \E r \in Robot : GoalAccepted(r)
  BY <1>12 DEF GoalAccepted
<1>13. CASE \E r \in Robot, s \in EndStates : End(r, s)
  BY <1>13 DEF End
<1>14. CASE \E r \in Robot, s \in EndStates : EndOlder(r, s)
  BY <1>14 DEF EndOlder
<1>15. CASE UNCHANGED allVars
  BY <1>15 DEF allVars
<1> QED
  BY <1>1, <1>2, <1>3, <1>4, <1>5, <1>6, <1>7, <1>8, <1>9, <1>10, <1>11, <1>12,
     <1>13, <1>14, <1>15
  DEF FleetNext

\* What happens to a robot's work leaves it a robot's work: an older goal ends
\* only while there is one.
LEMMA WorkTypes ==
  /\ NoWork \in RobotState
  /\ \A w \in RobotState, s \in EndStates :
       /\ Begun(w) \in RobotState /\ Taken(w) \in RobotState
       /\ Ended(w, s) \in RobotState
       /\ CanEndOlder(w) => OlderEnded(w, s) \in RobotState
<1>1. NoWork \in RobotState
  BY DEF NoWork, RobotState, State
<1>2. ASSUME NEW w \in RobotState, NEW s \in EndStates
      PROVE  /\ Begun(w) \in RobotState /\ Taken(w) \in RobotState
             /\ Ended(w, s) \in RobotState
             /\ CanEndOlder(w) => OlderEnded(w, s) \in RobotState
  <2> USE DEF RobotState, State, EndStates
  <2>1. Begun(w) \in RobotState
    BY DEF Begun
  <2>2. Taken(w) \in RobotState /\ Ended(w, s) \in RobotState
    BY DEF Taken, Ended
  <2>3. ASSUME CanEndOlder(w)
        PROVE  OlderEnded(w, s) \in RobotState
    <3>1. w.preempted \in Nat /\ w.preempted > 0
      BY <2>3 DEF CanEndOlder
    <3>2. w.preempted - 1 \in Nat
      BY <3>1
    <3>3. \A n \in Nat :
            [w EXCEPT !.preempted = n, !.active = FALSE, !.state = s] \in RobotState
      OBVIOUS
    <3> QED
      BY <3>2, <3>3 DEF OlderEnded
  <2> HIDE DEF RobotState
  <2> QED BY <2>1, <2>2, <2>3
<1> QED BY <1>1, <1>2

LEMMA FleetTypesInit == FleetInit => FleetTypes
<1> SUFFICES ASSUME FleetInit PROVE FleetTypes
  OBVIOUS
<1>1. NoWork \in RobotState
  BY WorkTypes
<1>2. robot \in [Robot -> RobotState] /\ report \in [Robot -> State]
  BY <1>1 DEF FleetInit, State
<1> QED
  BY <1>2 DEF FleetInit, FleetTypes, Init

LEMMA FleetTypesStep ==
  ASSUME TypeOK, FleetTypes, [FleetNext]_allVars
  PROVE  FleetTypes'
<1> USE DEF FleetTypes
<1>1. CASE Callers \/ TimePasses
  BY <1>1 DEF Callers, TimePasses, managerVars, history, SystemReady, QueueMission,
              Enqueue, CancelMission, Tick, dispatchVars
<1>2. ASSUME NEW indeed \in BOOLEAN, Doubt(indeed)
      PROVE  /\ doubted' \in BOOLEAN
             /\ begun' \in [Robot -> Nat] /\ heard' \in [Robot -> Nat]
  <2>1. doubted' \in BOOLEAN
    BY <1>2 DEF Doubt
  <2> QED
    BY <1>2, <2>1 DEF Doubt
<1>3. CASE Reclaim
  BY <1>2, <1>3 DEF Reclaim, ReclaimSlot, managerVars
<1>4. ASSUME NEW r \in Robot, Ask(r)
      PROVE  FleetTypes'
  <2>1. Doubt(inProgress \/ r \in DOMAIN active)
    BY <1>4 DEF Ask
  <2>2. (inProgress \/ r \in DOMAIN active) \in BOOLEAN
    OBVIOUS
  <2>3. calls \subseteq calls'
    BY <1>4 DEF Ask, Dispatch
  <2> QED
    BY <1>2, <1>4, <2>1, <2>2, <2>3 DEF Ask
<1>5. ASSUME NEW lost \in SUBSET Robot, Snapshot(lost)
      PROVE  FleetTypes'
  <2> DEFINE indeed == \E r \in Failed(FleetSnapshot(lost)) : GivenUp(r, lost)
  <2>1. Doubt(indeed)
    BY <1>5 DEF Snapshot
  <2>2. indeed \in BOOLEAN
    OBVIOUS
  <2> HIDE DEF indeed
  <2> QED
    BY <1>2, <1>5, <2>1, <2>2 DEF Snapshot, FleetState, dispatchVars, managerVars
<1>6. ASSUME NEW c \in asked, Forward(c)
      PROVE  FleetTypes'
  BY <1>6 DEF Forward, vars, dispatchVars, history, TypeOK
<1>7. ASSUME NEW c \in asked, Refuse(c)
      PROVE  FleetTypes'
  BY <1>7 DEF Refuse, vars, dispatchVars, history
<1>8. ASSUME NEW c \in calls, Answer(c)
      PROVE  FleetTypes'
  <2>1. calls' = calls \ {c} /\ c \notin asked
    BY <1>8 DEF Answer, StaleResponse, AcceptedResponse, RejectedResponse
  <2> QED
    BY <1>8, <2>1 DEF Answer, history
<1>9. ASSUME NEW r \in Robot, Heartbeat(r)
      PROVE  FleetTypes'
  BY <1>9 DEF Heartbeat, vars, dispatchVars, RobotState
<1>10. ASSUME NEW c \in starts, Begin(c)
       PROVE  FleetTypes'
  <2>1. c.robot \in Robot /\ c.mission.id \in Nat
    BY DEF Call, Mission
  <2>2. robot' \in [Robot -> RobotState]
    <3>1. Begun(robot[c.robot]) \in RobotState
      <4>1. "IDLE" \in EndStates
        BY DEF EndStates
      <4> QED
        BY <2>1, <4>1, WorkTypes
    <3> QED
      BY <1>10, <2>1, <3>1 DEF Begin
  <2>3. begun' \in [Robot -> Nat]
    BY <1>10, <2>1 DEF Begin
  <2>4. /\ starts' \subseteq starts /\ UNCHANGED <<asked, accepted, calls>>
        /\ UNCHANGED <<report, doubted, heard>>
    BY <1>10 DEF Begin, vars, dispatchVars
  <2> QED
    BY <2>2, <2>3, <2>4
<1>11. ASSUME NEW c \in starts, TurnDown(c)
       PROVE  FleetTypes'
  BY <1>11 DEF TurnDown, vars, dispatchVars, history
<1>12. ASSUME NEW r \in Robot, NEW s \in EndStates,
              GoalAccepted(r) \/ End(r, s) \/ EndOlder(r, s)
       PROVE  FleetTypes'
  <2>1. robot[r] \in RobotState
    OBVIOUS
  <2>2. CASE GoalAccepted(r)
    BY <2>1, <2>2, WorkTypes
    DEF GoalAccepted, managerVars, vars, dispatchVars, history
  <2>3. CASE End(r, s)
    BY <2>1, <2>3, WorkTypes DEF End, managerVars, vars, dispatchVars, history
  <2>4. CASE EndOlder(r, s)
    BY <2>1, <2>4, WorkTypes DEF EndOlder, managerVars, vars, dispatchVars, history
  <2> QED
    BY <1>12, <2>2, <2>3, <2>4
<1>13. CASE UNCHANGED allVars
  BY <1>13 DEF allVars, managerVars, vars, dispatchVars, history
<1>14. CASE \E r \in Robot : Ask(r)
  BY <1>4, <1>14
<1>15. CASE \E lost \in SUBSET Robot : Snapshot(lost)
  BY <1>5, <1>15
<1>16. CASE \E c \in asked : Forward(c)
  BY <1>6, <1>16
<1>17. CASE \E c \in asked : Refuse(c)
  BY <1>7, <1>17
<1>18. CASE \E c \in calls : Answer(c)
  BY <1>8, <1>18
<1>19. CASE \E r \in Robot : Heartbeat(r)
  BY <1>9, <1>19
<1>20. CASE \E c \in starts : Begin(c)
  BY <1>10, <1>20
<1>21. CASE \E c \in starts : TurnDown(c)
  BY <1>11, <1>21
<1>22. CASE \E r \in Robot : GoalAccepted(r)
  <2>1. "IDLE" \in EndStates
    BY DEF EndStates
  <2> QED
    BY <1>12, <1>22, <2>1
<1>23. CASE \E r \in Robot, s \in EndStates : End(r, s)
  BY <1>12, <1>23
<1>24. CASE \E r \in Robot, s \in EndStates : EndOlder(r, s)
  BY <1>12, <1>24
<1> HIDE DEF FleetTypes
<1> QED
  BY <1>1, <1>3, <1>13, <1>14, <1>15, <1>16, <1>17, <1>18, <1>19, <1>20,
     <1>21, <1>22, <1>23, <1>24
  DEF FleetNext

\* A step keeps all that is known of the scheduler, and the types.
LEMMA FleetStep ==
  ASSUME TypeOK, JobsAccounted, FleetTypes, [FleetNext]_allVars
  PROVE  (TypeOK /\ JobsAccounted /\ FleetTypes)'
<1>1. [Next]_vars
  BY SchedulerStep
<1>2. IdsFresh
  BY DEF JobsAccounted
<1>3. TypeOK'
  BY <1>1, <1>2, TypeStep
<1>4. JobsAccounted'
  BY <1>1, JobsStep
<1> QED
  BY <1>3, <1>4, FleetTypesStep

LEMMA FleetStart == FleetInit => TypeOK /\ JobsAccounted /\ FleetTypes
<1>1. FleetInit => Init
  BY DEF FleetInit
<1> QED
  BY <1>1, InitOK, FleetTypesInit

\* The composition implements MissionScheduler: whatever fleet manager,
\* network and robots do is within the open environment of that module, so
\* what is proved of the scheduler alone holds in the composition.
THEOREM FleetIsAScheduler == FleetSpec => Spec
<1>1. FleetInit => Init
  BY DEF FleetInit
<1>2. TypeOK /\ JobsAccounted /\ FleetTypes /\ [FleetNext]_allVars => [Next]_vars
  BY SchedulerStep
<1>3. TypeOK /\ JobsAccounted /\ FleetTypes /\ [FleetNext]_allVars
        => (TypeOK /\ JobsAccounted /\ FleetTypes)'
  BY FleetStep
<1> QED
  BY <1>1, <1>2, <1>3, FleetStart, PTL DEF FleetSpec, Spec

\* Every variable of the composition keeps its type, for every fleet, every
\* timeout and every number of missions, attempts and lost robots.
THEOREM FleetTypeCorrect == FleetSpec => []FleetTypeOK
<1>1. TypeOK /\ FleetTypes => FleetTypeOK
  BY DEF FleetTypes, FleetTypeOK
<1>2. TypeOK /\ JobsAccounted /\ FleetTypes /\ [FleetNext]_allVars
        => (TypeOK /\ JobsAccounted /\ FleetTypes)'
  BY FleetStep
<1> QED
  BY <1>1, <1>2, FleetStart, PTL DEF FleetSpec

-----------------------------------------------------------------------------
(***************************************************************************)
(* What the scheduler knows while nothing was let go in doubt: the         *)
(* inductive invariant behind BeliefsAgree and CompletionIsTrue.           *)
(***************************************************************************)
\* What the scheduler has for robot r, or is being answered for it, is this.
Assigned(r, id) ==
  \/ r \in DOMAIN active /\ active[r].mission.id = id
  \/ \E c \in accepted : c.robot = r /\ c.mission.id = id

\* No call was given up, and those under way are for robots without a mission.
OneCall ==
  /\ asked \cap accepted = {}
  /\ \A c \in calls : c.generation = generation /\ c.robot \notin DOMAIN active

\* A start under way is for what its robot is assigned, which it has not begun,
\* and is the only one for that robot.
StartsKnown ==
  \A c \in starts :
    /\ Assigned(c.robot, c.mission.id)
    /\ begun[c.robot] # c.mission.id /\ heard[c.robot] # c.mission.id
    /\ \A d \in starts : d.robot = c.robot => d = c

\* No robot has begun this.
NotBegun(id) == \A r \in Robot : begun[r] # id /\ heard[r] # id

\* Only what was accepted is begun, and an active mission has its id to itself.
IdsApart ==
  /\ \A r \in Robot : begun[r] <= missionCounter /\ heard[r] <= missionCounter
  /\ \A m \in queue : (\A c \in accepted : c.mission.id # m.id) => NotBegun(m.id)
  /\ \A c \in calls \ accepted : NotBegun(c.mission.id)
  /\ \A r \in DOMAIN active :
       /\ \A m \in queue : m.id # active[r].mission.id
       /\ \A c \in calls : c.mission.id # active[r].mission.id

\* A robot that works, works at what it is assigned.
RobotsKnown ==
  \A r \in Robot :
    /\ robot[r].preempted = 0
    /\ robot[r].goal => robot[r].state = "OTHER" /\ Assigned(r, begun[r])
    /\ robot[r].state = "OTHER" => robot[r].goal

\* What fleet_manager last heard of a robot, against what the robot does.
ReportsKnown ==
  \A r \in Robot :
    /\ report[r] # "OTHER" /\ heard[r] = begun[r] => ~robot[r].goal
    /\ report[r] = "OTHER" =>
         \/ Assigned(r, heard[r])
         \/ /\ r \notin DOMAIN active /\ \A c \in calls : c.robot # r
            /\ fleet[r].state \notin {"IDLE", "ERROR"}
    /\ Assigned(r, heard[r]) => begun[r] = heard[r]
    /\ r \in DOMAIN active /\ active[r].confirmed => heard[r] = active[r].mission.id

Known == OneCall /\ StartsKnown /\ IdsApart /\ RobotsKnown /\ ReportsKnown

Knowledge == ~doubted => Known

\* There is at most one call, and a robot is assigned at most one mission.
LEMMA CallOnce ==
  ASSUME DispatchSlot, OneCall, NEW c \in calls, NEW d \in calls
  PROVE  c = d
BY DEF DispatchSlot, OneCall

LEMMA AssignedOnce ==
  ASSUME FleetTypes, DispatchSlot, OneCall, NEW r, NEW i, NEW j,
         Assigned(r, i), Assigned(r, j)
  PROVE  i = j
<1>1. \A c, d \in accepted : c = d
  BY CallOnce DEF FleetTypes
<1>2. \A c \in accepted : c.robot \notin DOMAIN active
  BY DEF OneCall, FleetTypes
<1> QED
  BY <1>1, <1>2 DEF Assigned

\* The premise of each step below.
Before == TypeOK /\ JobsAccounted /\ FleetTypes /\ Known

\* What is assigned has an id that was given out, and is not queued any more
\* unless its answer is still to come.
LEMMA AssignedIds ==
  ASSUME Before, NEW r, NEW id, Assigned(r, id)
  PROVE  /\ id <= missionCounter
         /\ \A m \in queue : (\A c \in accepted : c.mission.id # m.id) => m.id # id
         /\ \A c \in calls \ accepted : c.mission.id # id
<1> USE DEF Before, Known, JobsAccounted, IdsFresh, IdsApart
<1>1. CASE r \in DOMAIN active /\ active[r].mission.id = id
  <2>1. active[r].mission \in Tracked
    BY <1>1 DEF Tracked, Running
  <2> QED
    BY <1>1, <2>1
<1>2. CASE \E c \in accepted : c.robot = r /\ c.mission.id = id
  <2>1. PICK c \in accepted : c.robot = r /\ c.mission.id = id
    BY <1>2
  <2>2. c \in calls
    BY DEF FleetTypes
  <2>3. id <= missionCounter
    BY <2>1, <2>2
  <2>4. \A d \in calls : d = c
    BY <2>2, CallOnce
  <2> QED
    BY <2>1, <2>3, <2>4
<1> QED
  BY <1>1, <1>2 DEF Assigned

\* What is assigned is the same when active, its missions and the accepted
\* calls are.
LEMMA AssignedFrame ==
  ASSUME DOMAIN active' = DOMAIN active, accepted' = accepted,
         \A r \in DOMAIN active : active'[r].mission = active[r].mission
  PROVE  \A r, id : Assigned(r, id)' <=> Assigned(r, id)
BY DEF Assigned

\* Steps of the scheduler that leave missions, calls and starts alone.
LEMMA KnownCallers ==
  ASSUME Before, Callers
  PROVE  Known'
<1> USE DEF Before, Known
<1>1. /\ UNCHANGED <<asked, accepted, starts, report, robot, begun, heard>>
      /\ UNCHANGED <<fleet, active, calls, generation>>
  BY DEF Callers, managerVars, history, SystemReady, QueueMission, Enqueue,
         CancelMission, dispatchVars
<1>2. \A r, id : Assigned(r, id)' <=> Assigned(r, id)
  BY <1>1, AssignedFrame
<1>3. \A id : NotBegun(id)' <=> NotBegun(id)
  BY <1>1 DEF NotBegun
<1>4. IdsApart'
  <2>1. missionCounter \in Nat
    BY DEF TypeOK
  <2>2. \A r \in Robot : begun[r] \in Nat /\ heard[r] \in Nat
    BY DEF FleetTypes
  <2>3. CASE SystemReady(TRUE) \/ \E m \in queue : CancelMission(m)
    <3>1. queue' \subseteq queue /\ missionCounter' = missionCounter
      BY <2>3 DEF SystemReady, CancelMission, queueVars
    <3> QED
      BY <1>1, <1>3, <3>1 DEF IdsApart
  <2>4. ASSUME NEW p \in Priorities, QueueMission(p)
        PROVE  IdsApart'
    <3>1. /\ missionCounter' = missionCounter + 1
          /\ \A m \in queue' : m \in queue \/ m.id = missionCounter + 1
      BY <2>4 DEF QueueMission, Enqueue
    <3>2. \A r \in DOMAIN active : active[r].mission.id \in Nat
                                   /\ active[r].mission.id <= missionCounter
      <4>1. \A r \in DOMAIN active : active[r].mission \in Tracked
        BY DEF Tracked, Running
      <4>2. \A r \in DOMAIN active : active[r].mission.id \in Nat
        BY MissionTypes DEF Mission
      <4> QED
        BY <4>1, <4>2 DEF JobsAccounted, IdsFresh
    <3>3. NotBegun(missionCounter + 1)
      BY <2>1, <2>2 DEF IdsApart, NotBegun
    <3>4. \A r \in Robot : begun[r] <= missionCounter' /\ heard[r] <= missionCounter'
      BY <2>1, <2>2, <3>1 DEF IdsApart
    <3>5. \A m \in queue' : (\A c \in accepted : c.mission.id # m.id) => NotBegun(m.id)
      BY <3>1, <3>3 DEF IdsApart
    <3>6. \A r \in DOMAIN active : \A m \in queue' : m.id # active[r].mission.id
      BY <2>1, <3>1, <3>2 DEF IdsApart
    <3> QED
      BY <1>1, <1>3, <3>4, <3>5, <3>6 DEF IdsApart
  <2> QED
    BY <2>3, <2>4 DEF Callers
<1>5. OneCall' /\ StartsKnown' /\ RobotsKnown' /\ ReportsKnown'
  BY <1>1, <1>2 DEF OneCall, StartsKnown, RobotsKnown, ReportsKnown
<1> QED
  BY <1>4, <1>5

LEMMA KnownTime ==
  ASSUME Before, TimePasses
  PROVE  Known'
<1> USE DEF Before, Known
<1>1. /\ UNCHANGED <<asked, accepted, starts, report, robot, begun, heard>>
      /\ UNCHANGED <<fleet, calls, generation, queue, missionCounter>>
      /\ DOMAIN active' = DOMAIN active
  BY DEF TimePasses, Tick, managerVars, history, queueVars
<1>2. \A r \in DOMAIN active : /\ active'[r].mission = active[r].mission
                               /\ active'[r].confirmed = active[r].confirmed
  BY DEF TimePasses, Tick, TypeOK, ActiveMission
<1>3. \A r, id : Assigned(r, id)' <=> Assigned(r, id)
  BY <1>1, <1>2, AssignedFrame
<1>4. \A id : NotBegun(id)' <=> NotBegun(id)
  BY <1>1 DEF NotBegun
<1>5. IdsApart'
  BY <1>1, <1>2, <1>4 DEF IdsApart
<1>6. OneCall' /\ StartsKnown' /\ RobotsKnown'
  BY <1>1, <1>3 DEF OneCall, StartsKnown, RobotsKnown
<1>7. ReportsKnown'
  BY <1>1, <1>2, <1>3 DEF ReportsKnown
<1> QED
  BY <1>5, <1>6, <1>7

\* A mission is sent to a robot that has none and is known to be at rest.
LEMMA KnownAsk ==
  ASSUME Before, NEW r \in Robot, Ask(r), ~doubted, ~doubted'
  PROVE  Known'
<1> USE DEF Before, Known
<1> DEFINE new == [generation |-> generation', robot |-> r, mission |-> Front(queue)]
<1>1. ~inProgress /\ r \notin DOMAIN active /\ begun' = begun /\ heard' = heard
  <2>1. ~inProgress /\ r \notin DOMAIN active
    BY DEF Ask, Doubt
  <2> QED
    BY <2>1 DEF Ask, Doubt, FleetTypes
<1>2. calls = {} /\ asked = {} /\ accepted = {}
  BY <1>1 DEF OneCall, JobsAccounted, DispatchSlot, CurrentCalls, FleetTypes
<1>3. /\ calls' = {new} /\ asked' = {new} /\ accepted' = {}
      /\ UNCHANGED <<starts, report, robot, fleet, active, queue, missionCounter>>
  BY <1>2 DEF Ask, Dispatch, queueVars
<1>4. fleet[r].state \in {"IDLE", "ERROR"}
  BY DEF Ask, Dispatch, BestRobots, Candidates
<1>5. queue # {} /\ Front(queue) \in queue
  <2>1. queue # {}
    BY DEF Ask, Dispatch
  <2>2. \A m, n \in queue : m.id = n.id => m = n
    BY DEF JobsAccounted, IdsFresh
  <2> QED
    BY <2>1, <2>2, FrontIsQueued DEF TypeOK
<1> HIDE DEF new
<1>6. new.generation = generation' /\ new.robot = r /\ new.mission = Front(queue)
  BY DEF new
<1>7. \A q, id : Assigned(q, id)' <=> Assigned(q, id)
  BY <1>2, <1>3, AssignedFrame
<1>8. \A id : NotBegun(id)' <=> NotBegun(id)
  BY <1>1 DEF NotBegun
<1>9. OneCall'
  BY <1>1, <1>3, <1>6 DEF OneCall
<1>10. StartsKnown' /\ RobotsKnown'
  BY <1>1, <1>3, <1>7 DEF StartsKnown, RobotsKnown
<1>11. IdsApart'
  <2>1. \A m \in queue : NotBegun(m.id)
    BY <1>2 DEF IdsApart
  <2>2. \A c \in calls' : c.mission \in queue
    BY <1>3, <1>5, <1>6
  <2> QED
    BY <1>1, <1>3, <1>8, <2>1, <2>2 DEF IdsApart
<1>12. ReportsKnown'
  <2>1. report[r] # "OTHER"
    BY <1>1, <1>2, <1>4 DEF ReportsKnown, Assigned
  <2>2. \A q \in Robot : q # r => \A c \in calls' : c.robot # q
    BY <1>3, <1>6
  <2> QED
    BY <1>1, <1>3, <1>7, <2>1, <2>2 DEF ReportsKnown
<1> QED
  BY <1>9, <1>10, <1>11, <1>12

\* A robot that a snapshot takes the mission from, without a doubt, is at rest
\* and was heard to be after it had begun that mission.
LEMMA TakenAtRest ==
  ASSUME Before, NEW lost \in SUBSET Robot, Snapshot(lost), ~doubted',
         NEW r \in Failed(FleetSnapshot(lost)) \cup Completed(FleetSnapshot(lost))
  PROVE  /\ r \in DOMAIN active /\ r \in Robot
         /\ report[r] # "OTHER" /\ heard[r] = active[r].mission.id
         /\ ~robot[r].goal /\ \A c \in starts : c.robot # r
<1> USE DEF Before, Known
<1>1. r \in DOMAIN active /\ r \in Robot
  BY DEF Failed, Completed, TypeOK
<1>2. /\ FleetSnapshot(lost)[r].state = report[r]
      /\ FleetSnapshot(lost)[r].confirmed_offline = (r \in lost)
  BY <1>1 DEF FleetSnapshot
<1>3. report[r] # "OTHER" /\ heard[r] = active[r].mission.id
  <2>1. CASE r \in Failed(FleetSnapshot(lost))
    <3>1. ~GivenUp(r, lost)
      BY <2>1 DEF Snapshot, Doubt
    <3> QED
      BY <2>1, <3>1, <1>2 DEF GivenUp, Failed
  <2>2. CASE r \in Completed(FleetSnapshot(lost))
    BY <2>2, <1>1, <1>2 DEF Completed, ReportsKnown
  <2> QED
    BY <2>1, <2>2
<1>4. Assigned(r, heard[r])
  BY <1>1, <1>3 DEF Assigned
<1>5. ~robot[r].goal
  BY <1>1, <1>3, <1>4 DEF ReportsKnown
<1>6. ASSUME NEW c \in starts, c.robot = r
      PROVE  FALSE
  <2>1. Assigned(r, c.mission.id) /\ heard[r] # c.mission.id
    BY <1>6 DEF StartsKnown
  <2> QED
    BY <1>4, <2>1, AssignedOnce DEF JobsAccounted
<1> QED
  BY <1>1, <1>3, <1>5, <1>6

LEMMA KnownSnapshot ==
  ASSUME Before, NEW lost \in SUBSET Robot, Snapshot(lost), ~doubted, ~doubted'
  PROVE  Known'
<1> DEFINE s == FleetSnapshot(lost)
           taken == Failed(s) \cup Completed(s)
<1> USE DEF Before, Known
<1>1. /\ UNCHANGED <<asked, accepted, starts, report, robot, calls, generation>>
      /\ begun' = begun /\ heard' = heard /\ fleet' = s
      /\ FleetState(s)
  <2>1. begun' = begun /\ heard' = heard
    BY DEF Snapshot, Doubt, FleetTypes
  <2> QED
    BY <2>1 DEF Snapshot, managerVars, FleetState, dispatchVars
<1>2. \A r \in Robot : s[r].state = report[r]
  BY DEF FleetSnapshot
<1>3. \A r \in taken : /\ r \in DOMAIN active /\ r \in Robot
                       /\ report[r] # "OTHER" /\ heard[r] = active[r].mission.id
                       /\ ~robot[r].goal /\ \A c \in starts : c.robot # r
  BY TakenAtRest
<1>4. /\ DOMAIN active' = DOMAIN active \ taken
      /\ \A r \in DOMAIN active' :
           /\ active'[r].mission = active[r].mission
           /\ active'[r].confirmed => active[r].confirmed \/ report[r] = "OTHER"
  <2>1. DOMAIN active' = DOMAIN active \ taken
    BY <1>1 DEF FleetState
  <2>2. \A r \in DOMAIN active' :
          active'[r] = [active[r] EXCEPT !.confirmed = @ \/ s[r].state = "OTHER"]
    BY <1>1, <2>1 DEF FleetState
  <2>3. \A r \in DOMAIN active : r \in Robot /\ active[r] \in ActiveMission
    BY DEF TypeOK
  <2> HIDE DEF s, taken
  <2> QED
    BY <1>2, <2>1, <2>2, <2>3 DEF ActiveMission
<1>5. /\ missionCounter' \in Nat /\ missionCounter' >= missionCounter
      /\ \A m \in queue' : m \in queue \/ m.id > missionCounter
  <2>1. PICK id : Renumbering(s, id)
    BY <1>1, SnapshotEffect
  <2>2. missionCounter' \in Nat /\ missionCounter' >= missionCounter
    BY <1>1, SnapshotEffect
  <2>3. \A r \in Retried(s) : active[r].mission \in Mission
    BY RetriedFinite, MissionTypes
  <2> HIDE DEF s, taken
  <2>4. \A r \in Retried(s) : Retry(active[r].mission, id[r]).id > missionCounter
    BY <2>1, <2>3 DEF Renumbering, Retry
  <2> QED
    BY <2>1, <2>2, <2>4 DEF Renumbering
<1> HIDE DEF s, taken
<1>6. \A r : r \notin taken => \A id : Assigned(r, id)' <=> Assigned(r, id)
  BY <1>1, <1>4 DEF Assigned
<1>7. \A r, id : Assigned(r, id)' => Assigned(r, id)
  BY <1>1, <1>4 DEF Assigned
<1>8. OneCall' /\ StartsKnown'
  BY <1>1, <1>3, <1>4, <1>6 DEF OneCall, StartsKnown
<1>9. IdsApart'
  <2>1. missionCounter \in Nat /\ \A r \in Robot : begun[r] \in Nat /\ heard[r] \in Nat
    BY DEF TypeOK, FleetTypes
  <2>2. \A r \in Robot : begun[r] <= missionCounter' /\ heard[r] <= missionCounter'
    BY <1>5, <2>1 DEF IdsApart
  <2>3. \A id : NotBegun(id)' <=> NotBegun(id)
    BY <1>1 DEF NotBegun
  <2>4. \A m \in queue' : m.id \in Nat
    <3>1. TypeOK'
      <4>1. s \in [Robot -> Statuses]
        BY SnapshotAllowed DEF s
      <4>2. [Next]_vars
        BY <1>1, <4>1 DEF Next
      <4> QED
        BY <4>2, TypeStep DEF JobsAccounted
    <3> QED
      BY <3>1 DEF TypeOK, Mission
  <2>5. \A m \in queue' : m \notin queue => NotBegun(m.id)
    BY <1>5, <2>1, <2>4 DEF IdsApart, NotBegun
  <2>6. \A r \in DOMAIN active : active[r].mission.id \in Nat
                                 /\ active[r].mission.id <= missionCounter
    <3>1. \A r \in DOMAIN active : Assigned(r, active[r].mission.id)
      BY DEF Assigned
    <3>2. \A r \in DOMAIN active : active[r].mission.id \in Nat
      BY MissionTypes DEF Mission
    <3> QED
      BY <3>1, <3>2, AssignedIds
  <2>7. \A r \in DOMAIN active' : \A m \in queue' : m.id # active'[r].mission.id
    BY <1>4, <1>5, <2>1, <2>4, <2>6 DEF IdsApart
  <2>8. \A m \in queue' :
          (\A c \in accepted : c.mission.id # m.id) => NotBegun(m.id)
    BY <2>5 DEF IdsApart
  <2>9. \A r \in DOMAIN active' : \A c \in calls : c.mission.id # active'[r].mission.id
    BY <1>4 DEF IdsApart
  <2>10. \A c \in calls \ accepted : NotBegun(c.mission.id)
    BY DEF IdsApart
  <2> QED
    BY <1>1, <2>2, <2>3, <2>7, <2>8, <2>9, <2>10 DEF IdsApart
<1>10. RobotsKnown'
  BY <1>1, <1>3, <1>6 DEF RobotsKnown
<1>11. ReportsKnown'
  <2>1. ASSUME NEW r \in Robot, report[r] = "OTHER"
        PROVE  \/ Assigned(r, heard[r])'
               \/ /\ r \notin DOMAIN active' /\ \A c \in calls' : c.robot # r
                  /\ fleet'[r].state \notin {"IDLE", "ERROR"}
    BY <1>1, <1>2, <1>3, <1>4, <1>6, <2>1 DEF ReportsKnown
  <2>2. ASSUME NEW r \in DOMAIN active', active'[r].confirmed
        PROVE  heard[r] = active'[r].mission.id
    <3>1. r \in Robot /\ r \in DOMAIN active
      BY <1>4 DEF TypeOK
    <3>2. CASE active[r].confirmed
      BY <1>4, <3>1, <3>2 DEF ReportsKnown
    <3>3. CASE report[r] = "OTHER"
      <4>1. Assigned(r, heard[r]) /\ Assigned(r, active[r].mission.id)
        BY <3>1, <3>3 DEF ReportsKnown, Assigned
      <4> QED
        BY <1>4, <4>1, AssignedOnce DEF JobsAccounted
    <3> QED
      BY <1>4, <2>2, <3>2, <3>3
  <2>3. /\ report' = report /\ robot' = robot /\ begun' = begun /\ heard' = heard
        /\ \A r \in Robot : Assigned(r, heard[r])' => Assigned(r, heard[r])
    BY <1>1, <1>7
  <2>4. \A r \in Robot :
          /\ report'[r] # "OTHER" /\ heard'[r] = begun'[r] => ~robot'[r].goal
          /\ Assigned(r, heard[r])' => begun'[r] = heard'[r]
    BY <2>3 DEF ReportsKnown
  <2> QED
    BY <2>1, <2>2, <2>3, <2>4 DEF ReportsKnown
<1> QED
  BY <1>8, <1>9, <1>10, <1>11

\* The start that is forwarded is the first for its robot.
LEMMA KnownForward ==
  ASSUME Before, NEW c \in asked, Forward(c)
  PROVE  Known'
<1> USE DEF Before, Known
<1>1. /\ asked' = asked \ {c} /\ accepted' = accepted \cup {c}
      /\ starts' = starts \cup {c}
      /\ UNCHANGED <<report, robot, begun, heard, fleet, active, calls>>
      /\ UNCHANGED <<generation, queue, missionCounter>>
  BY DEF Forward, vars, dispatchVars, queueVars, history
<1>2. c \in calls /\ c \notin accepted /\ \A d \in calls : d = c
  <2>1. c \in calls /\ c \notin accepted
    BY DEF FleetTypes, OneCall
  <2> QED
    BY <2>1, CallOnce DEF JobsAccounted
<1>3. accepted = {}
  BY <1>2 DEF FleetTypes
<1>4. c.robot \in Robot /\ c.robot \notin DOMAIN active /\ NotBegun(c.mission.id)
  BY <1>2 DEF OneCall, IdsApart, TypeOK, Call
<1>5. \A d \in starts : d.robot # c.robot
  BY <1>3, <1>4 DEF StartsKnown, Assigned
<1>6. /\ \A r, id : Assigned(r, id) => Assigned(r, id)'
      /\ \A r, id : Assigned(r, id)' =>
           Assigned(r, id) \/ (r = c.robot /\ id = c.mission.id)
      /\ Assigned(c.robot, c.mission.id)'
  <2>1. accepted' = accepted \cup {c} /\ active' = active
    BY <1>1
  <2>2. \A r, id : Assigned(r, id) => Assigned(r, id)'
    BY <2>1 DEF Assigned
  <2>3. ASSUME NEW r, NEW id, Assigned(r, id)', ~Assigned(r, id)
        PROVE  r = c.robot /\ id = c.mission.id
    BY <2>1, <2>3 DEF Assigned
  <2>4. Assigned(c.robot, c.mission.id)'
    BY <2>1 DEF Assigned
  <2> QED
    BY <2>2, <2>3, <2>4
<1>7. OneCall'
  BY <1>1 DEF OneCall
<1>8. StartsKnown'
  <2>1. ASSUME NEW d \in starts'
        PROVE  /\ Assigned(d.robot, d.mission.id)'
               /\ begun[d.robot] # d.mission.id /\ heard[d.robot] # d.mission.id
    <3>1. CASE d = c
      BY <1>4, <1>6, <3>1 DEF NotBegun
    <3>2. CASE d \in starts
      BY <1>6, <3>2 DEF StartsKnown
    <3> QED
      BY <1>1, <3>1, <3>2
  <2>2. \A d, e \in starts' : d.robot = e.robot => d = e
    BY <1>1, <1>5 DEF StartsKnown
  <2> QED
    BY <1>1, <2>1, <2>2 DEF StartsKnown
<1>9. IdsApart'
  <2>1. \A id : NotBegun(id)' <=> NotBegun(id)
    BY <1>1 DEF NotBegun
  <2> QED
    BY <1>1, <2>1 DEF IdsApart
<1>10. RobotsKnown'
  BY <1>1, <1>6 DEF RobotsKnown
<1>11. ReportsKnown'
  <2>1. \A r \in Robot : Assigned(r, heard[r])' => Assigned(r, heard[r])
    BY <1>1, <1>4, <1>6 DEF NotBegun
  <2> QED
    BY <1>1, <1>6, <2>1 DEF ReportsKnown
<1> QED
  BY <1>7, <1>8, <1>9, <1>10, <1>11

LEMMA KnownRefuse ==
  ASSUME Before, NEW c \in asked, Refuse(c)
  PROVE  Known'
<1> USE DEF Before, Known
<1>1. /\ asked' \subseteq asked
      /\ UNCHANGED <<accepted, starts, report, robot, begun, heard, fleet, active>>
      /\ UNCHANGED <<calls, generation, queue, missionCounter>>
  BY DEF Refuse, vars, dispatchVars, queueVars, history
<1>2. \A r, id : Assigned(r, id)' <=> Assigned(r, id)
  BY <1>1, AssignedFrame
<1>3. \A id : NotBegun(id)' <=> NotBegun(id)
  BY <1>1 DEF NotBegun
<1>4. OneCall' /\ StartsKnown' /\ IdsApart'
  BY <1>1, <1>2, <1>3 DEF OneCall, StartsKnown, IdsApart
<1>5. RobotsKnown' /\ ReportsKnown'
  BY <1>1, <1>2 DEF RobotsKnown, ReportsKnown
<1> QED
  BY <1>4, <1>5

\* The mission of an accepted call passes from the call to its robot.
LEMMA KnownAnswer ==
  ASSUME Before, NEW c \in calls, Answer(c)
  PROVE  Known'
<1> USE DEF Before, Known
<1>1. /\ calls' = {} /\ accepted' = {} /\ asked' = {} /\ asked = {}
      /\ \A d \in accepted : d = c
      /\ UNCHANGED <<starts, report, robot, begun, heard, fleet>>
      /\ UNCHANGED <<generation, missionCounter>>
  <2>1. \A d \in calls : d = c
    BY CallOnce DEF JobsAccounted
  <2>2. calls' = calls \ {c} /\ UNCHANGED <<fleet, generation, missionCounter>>
    BY DEF Answer, StaleResponse, AcceptedResponse, RejectedResponse, queueVars
  <2>3. /\ c \notin asked /\ accepted' = accepted \ {c}
        /\ UNCHANGED <<asked, starts, report, robot, begun, heard>>
    BY DEF Answer, history
  <2>4. asked \subseteq calls /\ accepted \subseteq calls
    BY DEF FleetTypes
  <2>5. calls' = {} /\ accepted' = {} /\ asked = {} /\ \A d \in accepted : d = c
    BY <2>1, <2>2, <2>3, <2>4
  <2> QED
    BY <2>2, <2>3, <2>5
<1>2. c.robot \notin DOMAIN active /\ c.robot \in Robot
  BY DEF OneCall, TypeOK, Call
<1>3. OneCall'
  BY <1>1 DEF OneCall
<1>4. \A id : NotBegun(id)' <=> NotBegun(id)
  BY <1>1 DEF NotBegun
<1>5. ASSUME c \in accepted, AcceptedResponse(c)
      PROVE  Known'
  <2>1. /\ queue' = {m \in queue : m.id # c.mission.id}
        /\ DOMAIN active' = DOMAIN active \cup {c.robot}
        /\ active'[c.robot] = [mission |-> c.mission, confirmed |-> FALSE, age |-> 0]
        /\ \A r \in DOMAIN active : active'[r] = active[r]
    BY <1>2, <1>5 DEF AcceptedResponse, Assign
  <2>2. \A r, id : Assigned(r, id)' <=> Assigned(r, id)
    BY <1>1, <1>2, <1>5, <2>1 DEF Assigned
  <2>3. StartsKnown' /\ RobotsKnown'
    BY <1>1, <2>2 DEF StartsKnown, RobotsKnown
  <2>4. IdsApart'
    <3>1. \A m \in queue' : NotBegun(m.id)
      BY <1>1, <2>1 DEF IdsApart
    <3>2. \A r \in DOMAIN active' : \A m \in queue' : m.id # active'[r].mission.id
      BY <2>1 DEF IdsApart
    <3> QED
      BY <1>1, <1>4, <3>1, <3>2 DEF IdsApart
  <2>5. ReportsKnown'
    <3>1. \A r \in DOMAIN active' : r # c.robot => r \in DOMAIN active
                                                    /\ active'[r] = active[r]
      BY <2>1
    <3>2. ~active'[c.robot].confirmed
      BY <2>1
    <3>3. \A r \in Robot : r \notin DOMAIN active /\ (\A d \in calls : d.robot # r)
                           => r \notin DOMAIN active'
      BY <2>1
    <3> QED
      BY <1>1, <2>2, <3>1, <3>2, <3>3 DEF ReportsKnown
  <2> QED
    BY <1>3, <2>3, <2>4, <2>5
<1>6. ASSUME c \notin accepted, RejectedResponse(c)
      PROVE  Known'
  <2>1. accepted = {} /\ queue' = queue /\ active' = active
    BY <1>1, <1>6 DEF RejectedResponse, queueVars
  <2>2. \A r, id : Assigned(r, id)' <=> Assigned(r, id)
    BY <1>1, <2>1, AssignedFrame
  <2>3. StartsKnown' /\ RobotsKnown' /\ ReportsKnown'
    BY <1>1, <2>1, <2>2 DEF StartsKnown, RobotsKnown, ReportsKnown
  <2>4. IdsApart'
    BY <1>1, <1>4, <2>1 DEF IdsApart
  <2> QED
    BY <1>3, <2>3, <2>4
<1>7. ~StaleResponse(c)
  BY DEF StaleResponse, OneCall
<1> QED
  BY <1>5, <1>6, <1>7 DEF Answer

LEMMA KnownHeartbeat ==
  ASSUME Before, NEW r \in Robot, Heartbeat(r)
  PROVE  Known'
<1> USE DEF Before, Known
<1>1. /\ UNCHANGED <<asked, accepted, starts, robot, begun, fleet, active>>
      /\ UNCHANGED <<calls, generation, queue, missionCounter>>
  BY DEF Heartbeat, vars, dispatchVars, queueVars
<1>2. /\ report'[r] = robot[r].state /\ heard'[r] = begun[r]
      /\ \A q \in Robot : q # r => report'[q] = report[q] /\ heard'[q] = heard[q]
  BY DEF Heartbeat, FleetTypes
<1>3. \A q, id : Assigned(q, id)' <=> Assigned(q, id)
  BY <1>1, AssignedFrame
<1>4. \A id : NotBegun(id) => NotBegun(id)'
  BY <1>1, <1>2 DEF NotBegun
<1>5. OneCall' /\ RobotsKnown'
  BY <1>1, <1>3 DEF OneCall, RobotsKnown
<1>6. StartsKnown'
  <2>1. \A c \in starts : c.robot \in Robot
    BY DEF FleetTypes, Call
  <2> QED
    BY <1>1, <1>2, <1>3, <2>1 DEF StartsKnown
<1>7. IdsApart'
  <2>1. \A q \in Robot : heard'[q] <= missionCounter
    BY <1>2 DEF IdsApart
  <2> QED
    BY <1>1, <1>4, <2>1 DEF IdsApart
<1>8. ReportsKnown'
  <2>1. ASSUME report'[r] # "OTHER" PROVE ~robot[r].goal
    BY <1>2, <2>1 DEF RobotsKnown
  <2>2. ASSUME report'[r] = "OTHER" PROVE Assigned(r, begun[r])
    BY <1>2, <2>2 DEF RobotsKnown
  <2>3. ASSUME r \in DOMAIN active, active[r].confirmed
        PROVE  begun[r] = active[r].mission.id
    <3>1. heard[r] = active[r].mission.id
      BY <2>3 DEF ReportsKnown
    <3>2. Assigned(r, heard[r])
      BY <2>3, <3>1 DEF Assigned
    <3> QED
      BY <3>1, <3>2 DEF ReportsKnown
  <2> QED
    BY <1>1, <1>2, <1>3, <2>1, <2>2, <2>3 DEF ReportsKnown
<1> QED
  BY <1>5, <1>6, <1>7, <1>8

\* The robot that begins was at rest, and begins what it is assigned.
LEMMA KnownBegin ==
  ASSUME Before, NEW c \in starts, Begin(c), ~doubted
  PROVE  Known'
<1> USE DEF Before, Known
<1>1. /\ starts' = starts \ {c}
      /\ UNCHANGED <<asked, accepted, report, heard, fleet, active>>
      /\ UNCHANGED <<calls, generation, queue, missionCounter>>
  BY DEF Begin, vars, dispatchVars, queueVars
<1>2. c.robot \in Robot /\ c.mission.id \in Nat
  BY DEF FleetTypes, Call, Mission
<1>3. /\ Assigned(c.robot, c.mission.id)
      /\ begun[c.robot] # c.mission.id /\ heard[c.robot] # c.mission.id
      /\ \A d \in starts' : d \in starts /\ d.robot # c.robot
  BY <1>1 DEF StartsKnown
<1>4. \A id : Assigned(c.robot, id) => id = c.mission.id
  BY <1>3, AssignedOnce DEF JobsAccounted
<1>5. ~robot[c.robot].goal
  BY <1>2, <1>3, <1>4 DEF RobotsKnown
<1>6. /\ begun'[c.robot] = c.mission.id
      /\ \A r \in Robot : r # c.robot => begun'[r] = begun[r]
  BY <1>2 DEF Begin, FleetTypes
<1>7. /\ robot'[c.robot].goal /\ robot'[c.robot].state = "OTHER"
      /\ robot'[c.robot].preempted = robot[c.robot].preempted
      /\ \A r \in Robot : r # c.robot => robot'[r] = robot[r]
  BY <1>2, <1>5 DEF Begin, Begun, FleetTypes
<1>8. \A r, id : Assigned(r, id)' <=> Assigned(r, id)
  BY <1>1, AssignedFrame
<1>9. OneCall'
  BY <1>1 DEF OneCall
<1>10. StartsKnown'
  <2>1. \A d \in starts : d.robot \in Robot
    BY DEF FleetTypes, Call
  <2> QED
    BY <1>1, <1>3, <1>6, <1>8, <2>1 DEF StartsKnown
<1>11. IdsApart'
  <2>1. /\ c.mission.id <= missionCounter
        /\ \A m \in queue : (\A d \in accepted : d.mission.id # m.id)
                            => m.id # c.mission.id
        /\ \A d \in calls \ accepted : d.mission.id # c.mission.id
    BY <1>3, AssignedIds
  <2>2. \A r \in Robot : begun'[r] <= missionCounter
    BY <1>6, <2>1 DEF IdsApart
  <2>3. \A id : NotBegun(id) /\ id # c.mission.id => NotBegun(id)'
    BY <1>1, <1>6 DEF NotBegun
  <2> QED
    BY <1>1, <2>1, <2>2, <2>3 DEF IdsApart
<1>12. RobotsKnown'
  <2>1. robot[c.robot].preempted = 0
    BY <1>2 DEF RobotsKnown
  <2>2. robot'[c.robot].preempted = 0
    BY <1>7, <2>1
  <2> QED
    BY <1>3, <1>6, <1>7, <1>8, <2>2 DEF RobotsKnown
<1>13. ReportsKnown'
  <2>1. heard[c.robot] # begun'[c.robot] /\ ~Assigned(c.robot, heard[c.robot])
    BY <1>3, <1>4, <1>6
  <2> QED
    BY <1>1, <1>6, <1>7, <1>8, <2>1 DEF ReportsKnown
<1> QED
  BY <1>9, <1>10, <1>11, <1>12, <1>13

LEMMA KnownTurnDown ==
  ASSUME Before, NEW c \in starts, TurnDown(c)
  PROVE  Known'
<1> USE DEF Before, Known
<1>1. /\ starts' \subseteq starts
      /\ UNCHANGED <<asked, accepted, report, robot, begun, heard, fleet, active>>
      /\ UNCHANGED <<calls, generation, queue, missionCounter>>
  BY DEF TurnDown, vars, dispatchVars, queueVars, history
<1>2. \A r, id : Assigned(r, id)' <=> Assigned(r, id)
  BY <1>1, AssignedFrame
<1>3. \A id : NotBegun(id)' <=> NotBegun(id)
  BY <1>1 DEF NotBegun
<1>4. OneCall' /\ StartsKnown' /\ IdsApart'
  BY <1>1, <1>2, <1>3 DEF OneCall, StartsKnown, IdsApart
<1>5. RobotsKnown' /\ ReportsKnown'
  BY <1>1, <1>2 DEF RobotsKnown, ReportsKnown
<1> QED
  BY <1>4, <1>5

\* What a robot's goal does: it is accepted, or it ends.
LEMMA KnownGoal ==
  ASSUME Before, NEW r \in Robot, NEW s \in EndStates,
         GoalAccepted(r) \/ End(r, s) \/ EndOlder(r, s)
  PROVE  Known'
<1> USE DEF Before, Known
<1>1. /\ UNCHANGED <<asked, accepted, starts, report, begun, heard, fleet, active>>
      /\ UNCHANGED <<calls, generation, queue, missionCounter>>
  BY DEF GoalAccepted, End, EndOlder, managerVars, vars, dispatchVars,
         queueVars, history
<1>2. robot[r].preempted = 0 /\ robot[r] \in RobotState
  BY DEF RobotsKnown, FleetTypes
<1>3. /\ \A q \in Robot : q # r => robot'[q] = robot[q]
      /\ robot'[r].preempted = 0
      /\ \/ robot[r].goal /\ robot'[r].goal /\ robot'[r].state = "OTHER"
         \/ robot'[r].goal = FALSE /\ robot'[r].state # "OTHER"
  <2>1. CASE GoalAccepted(r)
    BY <1>2, <2>1 DEF GoalAccepted, CanBeTaken, Taken, FleetTypes, RobotState
  <2>2. CASE End(r, s)
    BY <1>2, <2>2 DEF End, Ended, EndStates, FleetTypes, RobotState
  <2>3. ~EndOlder(r, s)
    BY <1>2 DEF EndOlder, CanEndOlder
  <2> QED
    BY <2>1, <2>2, <2>3
<1>4. \A q, id : Assigned(q, id)' <=> Assigned(q, id)
  BY <1>1, AssignedFrame
<1>5. \A id : NotBegun(id)' <=> NotBegun(id)
  BY <1>1 DEF NotBegun
<1>6. OneCall' /\ StartsKnown' /\ IdsApart'
  BY <1>1, <1>4, <1>5 DEF OneCall, StartsKnown, IdsApart
<1>7. RobotsKnown' /\ ReportsKnown'
  BY <1>1, <1>3, <1>4 DEF RobotsKnown, ReportsKnown
<1> QED
  BY <1>6, <1>7

LEMMA KnowledgeInit == FleetInit => Knowledge
<1> SUFFICES ASSUME FleetInit PROVE Known
  BY DEF Knowledge
<1>1. /\ asked = {} /\ accepted = {} /\ starts = {} /\ calls = {} /\ queue = {}
      /\ DOMAIN active = {} /\ missionCounter = 0
  BY DEF FleetInit, Init
<1>2. \A r \in Robot : /\ ~robot[r].goal /\ robot[r].preempted = 0
                       /\ robot[r].state = "IDLE" /\ begun[r] = 0 /\ heard[r] = 0
                       /\ fleet[r].state = "ABSENT"
  BY DEF FleetInit, Init, Unseen, NoWork
<1>3. \A r, id : ~Assigned(r, id)
  BY <1>1 DEF Assigned
<1>4. OneCall /\ StartsKnown /\ IdsApart
  BY <1>1, <1>2 DEF OneCall, StartsKnown, IdsApart
<1>5. RobotsKnown /\ ReportsKnown
  BY <1>1, <1>2, <1>3 DEF RobotsKnown, ReportsKnown
<1> QED
  BY <1>4, <1>5 DEF Known

\* A doubt is not taken back.
LEMMA DoubtStays ==
  ASSUME [FleetNext]_allVars, ~doubted'
  PROVE  ~doubted
BY DEF FleetNext, allVars, history, Callers, TimePasses, Reclaim, Ask, Snapshot,
       Forward, Refuse, Answer, Heartbeat, Begin, TurnDown, GoalAccepted, End,
       EndOlder, Doubt

LEMMA KnowledgeStep ==
  ASSUME TypeOK, JobsAccounted, FleetTypes, Knowledge, [FleetNext]_allVars
  PROVE  Knowledge'
<1> SUFFICES ASSUME ~doubted' PROVE Known'
  BY DEF Knowledge
<1>1. ~doubted
  BY DoubtStays
<1>2. Before
  BY <1>1 DEF Before, Knowledge
<1>3. CASE Callers
  BY <1>2, <1>3, KnownCallers
<1>4. CASE TimePasses
  BY <1>2, <1>4, KnownTime
<1>5. ~Reclaim
  BY DEF Reclaim, Doubt
<1>6. CASE \E r \in Robot : Ask(r)
  BY <1>1, <1>2, <1>6, KnownAsk
<1>7. CASE \E lost \in SUBSET Robot : Snapshot(lost)
  BY <1>1, <1>2, <1>7, KnownSnapshot
<1>8. CASE \E c \in asked : Forward(c)
  BY <1>2, <1>8, KnownForward
<1>9. CASE \E c \in asked : Refuse(c)
  BY <1>2, <1>9, KnownRefuse
<1>10. CASE \E c \in calls : Answer(c)
  BY <1>2, <1>10, KnownAnswer
<1>11. CASE \E r \in Robot : Heartbeat(r)
  BY <1>2, <1>11, KnownHeartbeat
<1>12. CASE \E c \in starts : Begin(c)
  BY <1>1, <1>2, <1>12, KnownBegin
<1>13. CASE \E c \in starts : TurnDown(c)
  BY <1>2, <1>13, KnownTurnDown
<1>14. CASE \E r \in Robot : GoalAccepted(r)
  <2>1. "IDLE" \in EndStates
    BY DEF EndStates
  <2> QED
    BY <1>2, <1>14, <2>1, KnownGoal
<1>15. CASE \E r \in Robot, s \in EndStates : End(r, s)
  BY <1>2, <1>15, KnownGoal
<1>16. CASE \E r \in Robot, s \in EndStates : EndOlder(r, s)
  BY <1>2, <1>16, KnownGoal
<1>17. CASE UNCHANGED allVars
  BY <1>2, <1>17 DEF allVars, managerVars, vars, dispatchVars, queueVars, history,
     Before, Known, OneCall, StartsKnown, IdsApart, NotBegun, RobotsKnown,
     ReportsKnown, Assigned
<1> QED
  BY <1>3, <1>4, <1>5, <1>6, <1>7, <1>8, <1>9, <1>10, <1>11, <1>12, <1>13,
     <1>14, <1>15, <1>16, <1>17
  DEF FleetNext

-----------------------------------------------------------------------------
(***************************************************************************)
(* What follows from it.                                                   *)
(***************************************************************************)
\* Only a snapshot takes a mission from its robot.
LEMMA OnlySnapshotsTake ==
  ASSUME [FleetNext]_allVars, ~(\E lost \in SUBSET Robot : Snapshot(lost))
  PROVE  DOMAIN active \subseteq DOMAIN active'
<1>1. CASE Callers \/ TimePasses \/ Reclaim \/ \E r \in Robot : Ask(r)
  BY <1>1 DEF Callers, SystemReady, QueueMission, Enqueue, CancelMission,
              TimePasses, Tick, Reclaim, ReclaimSlot, Ask, Dispatch
<1>2. ASSUME NEW c \in calls, Answer(c)
      PROVE  DOMAIN active \subseteq DOMAIN active'
  BY <1>2 DEF Answer, StaleResponse, AcceptedResponse, RejectedResponse, Assign
<1>3. CASE \/ \E c \in asked : Forward(c)
           \/ \E c \in asked : Refuse(c)
           \/ \E r \in Robot : Heartbeat(r)
           \/ \E c \in starts : Begin(c)
           \/ \E c \in starts : TurnDown(c)
  BY <1>3 DEF Forward, Refuse, Heartbeat, Begin, TurnDown, vars
<1>4. CASE \/ \E r \in Robot : GoalAccepted(r)
           \/ \E r \in Robot, s \in EndStates : End(r, s)
           \/ \E r \in Robot, s \in EndStates : EndOlder(r, s)
  BY <1>4 DEF GoalAccepted, End, EndOlder, vars
<1>5. CASE UNCHANGED allVars
  BY <1>5 DEF allVars, vars
<1> QED
  BY <1>1, <1>2, <1>3, <1>4, <1>5 DEF FleetNext

\* A job counts as completed by a step only if it was running on a robot that
\* is Completed, and a job runs on one robot.
LEMMA CompletedByItsRobot ==
  ASSUME TypeOK, JobsAccounted, NEW s, FleetState(s), NEW r \in DOMAIN active,
         [job |-> active[r].mission.job, how |-> "completed"] \in closed'
  PROVE  r \in Completed(s)
<1> DEFINE e == [job |-> active[r].mission.job, how |-> "completed"]
<1>1. active[r].mission \in Tracked
  BY DEF Tracked, Running
<1>2. e \notin closed
  <2>1. e.job = active[r].mission.job /\ e.how # "canceled"
    OBVIOUS
  <2>2. e.job \in JobsOf(Tracked)
    BY <1>1, <2>1 DEF JobsOf
  <2> HIDE DEF e
  <2> QED
    BY <2>1, <2>2 DEF JobsAccounted, EndedIsFinal
<1>3. PICK t \in Completed(s) :
        e = [job |-> active[t].mission.job, how |-> "completed"]
  BY <1>2 DEF FleetState
<1>4. t \in DOMAIN active /\ active[t].mission.job = active[r].mission.job
  BY <1>3 DEF Completed
<1> QED
  BY <1>3, <1>4 DEF JobsAccounted, OneIncarnation

LEMMA CompletionStep ==
  ASSUME TypeOK, JobsAccounted, FleetTypes, Knowledge, [FleetNext]_allVars,
         NEW r \in DOMAIN active \ DOMAIN active', ~doubted,
         [job |-> active[r].mission.job, how |-> "completed"] \in closed'
  PROVE  heard[r] = active[r].mission.id /\ ~robot[r].goal
<1>1. PICK lost \in SUBSET Robot : Snapshot(lost)
  BY OnlySnapshotsTake
<1>2. FleetState(FleetSnapshot(lost))
  BY <1>1 DEF Snapshot
<1>3. r \in Completed(FleetSnapshot(lost))
  BY <1>2, CompletedByItsRobot
<1>4. /\ r \in DOMAIN active /\ r \in Robot /\ active[r].confirmed
      /\ report[r] = "IDLE"
  BY <1>3 DEF Completed, TypeOK, FleetSnapshot
<1>5. ReportsKnown
  BY DEF Knowledge, Known
<1>6. heard[r] = active[r].mission.id
  BY <1>4, <1>5 DEF ReportsKnown
<1>7. Assigned(r, heard[r])
  BY <1>4, <1>6 DEF Assigned
<1> QED
  BY <1>4, <1>5, <1>6, <1>7 DEF ReportsKnown

AllKnown == TypeOK /\ JobsAccounted /\ FleetTypes /\ Knowledge

\* What is known of the scheduler alone, the types, and what the scheduler knows
\* of the robots while nothing was let go in doubt hold together in every state.
THEOREM KnowledgeHolds == FleetSpec => []AllKnown
<1>1. FleetInit => AllKnown
  BY FleetStart, KnowledgeInit DEF AllKnown
<1>2. AllKnown /\ [FleetNext]_allVars => AllKnown'
  BY FleetStep, KnowledgeStep DEF AllKnown
<1> QED
  BY <1>1, <1>2, PTL DEF FleetSpec

\* Jobs get numbers in the order they are submitted, and a job that is new is
\* queued; an end that was counted stays counted.
LEMMA SubmittedStep ==
  ASSUME TypeOK, [Next]_vars
  PROVE  /\ closed \subseteq closed'
         /\ \A j \in 1 .. submitted' : j \in 1 .. submitted \/ j \in JobsOf(Tracked')
<1>1. submitted \in Int
  BY SchedulerAssumption DEF TypeOK, SchedulerAssumption
<1>2. ASSUME NEW p \in Int32, Enqueue(p)
      PROVE  /\ closed \subseteq closed'
             /\ \A j \in 1 .. submitted' : j \in 1 .. submitted \/ j \in JobsOf(Tracked')
  <2>1. submitted' = submitted + 1 /\ closed' = closed
    BY <1>2 DEF Enqueue
  <2>2. \E m \in queue' : m.job = submitted + 1
    <3> DEFINE m == [id |-> missionCounter', job |-> submitted',
                     priority |-> p, attempts |-> 0]
    <3>1. m \in queue'
      BY <1>2 DEF Enqueue
    <3>2. m.job = submitted + 1
      BY <2>1
    <3> QED
      BY <3>1, <3>2
  <2>3. submitted + 1 \in JobsOf(Tracked')
    BY <2>2 DEF JobsOf, Tracked
  <2> QED
    BY <1>1, <2>1, <2>3
<1>3. CASE Quiet
  BY <1>3 DEF Quiet
<1>4. CASE \E m \in queue : CancelMission(m)
  BY <1>4 DEF CancelMission
<1>5. CASE \E s : FleetState(s)
  BY <1>5 DEF FleetState
<1>6. CASE \E c \in calls : AcceptedResponse(c)
  BY <1>6 DEF AcceptedResponse
<1> QED
  BY <1>2, <1>3, <1>4, <1>5, <1>6, StepKinds

\* While no robot that has a mission is sent another, no entry is overwritten,
\* and that is the one way a mission could be forgotten (LossStep).
LEMMA RememberedStep ==
  ASSUME AllKnown, Books, [FleetNext]_allVars, ~doubted, NeverForgotten
  PROVE  NeverForgotten'
<1>1. [Next]_vars /\ TypeOK
  BY SchedulerStep DEF AllKnown
<1>2. \A c \in calls : c.robot \notin DOMAIN active
  BY DEF AllKnown, Knowledge, Known, OneCall
<1>3. \A m \in Tracked : m.job \in JobsOf(Tracked') \/ \E e \in closed' : e.job = m.job
  BY <1>1, <1>2, LossStep
<1>4. ASSUME NEW j \in 1 .. submitted
      PROVE  j \in JobsOf(Tracked') \/ \E e \in closed' : e.job = j
  <2>1. CASE j \in JobsOf(Tracked)
    BY <1>3, <2>1 DEF JobsOf
  <2>2. CASE \E e \in closed : e.job = j
    BY <1>1, <2>2, SubmittedStep
  <2> QED
    BY <2>1, <2>2 DEF NeverForgotten
<1>5. \A j \in 1 .. submitted' : j \in 1 .. submitted \/ j \in JobsOf(Tracked')
  BY <1>1, SubmittedStep
<1>6. \A j \in 1 .. submitted' : j \in JobsOf(Tracked') \/ \E e \in closed' : e.job = j
  BY <1>4, <1>5
<1> QED
  BY <1>6 DEF NeverForgotten, JobsOf, Tracked, Running

Remembered == ~doubted => NeverForgotten

THEOREM NothingForgotten == FleetSpec => []Remembered
<1>1. FleetInit => Remembered
  <2> SUFFICES ASSUME FleetInit PROVE NeverForgotten
    BY DEF Remembered
  <2>1. submitted = 0
    BY DEF FleetInit, Init
  <2> QED
    BY <2>1 DEF NeverForgotten
<1>2. AllKnown /\ Books /\ Remembered /\ [FleetNext]_allVars => Remembered'
  <2> SUFFICES ASSUME AllKnown, Books, Remembered, [FleetNext]_allVars, ~doubted'
               PROVE  NeverForgotten'
    BY DEF Remembered
  <2>1. ~doubted
    BY DoubtStays
  <2> QED
    BY <2>1, RememberedStep DEF Remembered
<1> QED
  BY <1>1, <1>2, KnowledgeHolds, FleetIsAScheduler, BooksHold, PTL DEF FleetSpec

\* Two robots never have one job: a job is on one robot at most, and the mission
\* in flight is on none.
LEMMA JobsApart ==
  ASSUME JobsAccounted, NEW q \in Robot, NEW r \in Robot, q # r
  PROVE  JobsOf(MissionsOf(q)) \cap JobsOf(MissionsOf(r)) = {}
<1>1. ASSUME NEW m \in MissionsOf(q), NEW n \in MissionsOf(r)
      PROVE  m.job # n.job
  <2>1. CASE /\ q \in DOMAIN active /\ m = active[q].mission
             /\ r \in DOMAIN active /\ n = active[r].mission
    BY <1>1, <2>1 DEF JobsAccounted, OneIncarnation
  <2>2. \A c \in CurrentCalls : \A s \in DOMAIN active :
           c.mission.job # active[s].mission.job
    BY DEF JobsAccounted, InFlight, JobsOf, Running
  <2>3. \A c, d \in CurrentCalls : c = d
    BY DEF JobsAccounted, DispatchSlot, CurrentCalls
  <2>4. \/ q \in DOMAIN active /\ m = active[q].mission
        \/ \E c \in CurrentCalls : c.robot = q /\ c.mission = m
    BY <1>1 DEF MissionsOf
  <2>5. \/ r \in DOMAIN active /\ n = active[r].mission
        \/ \E c \in CurrentCalls : c.robot = r /\ c.mission = n
    BY <1>1 DEF MissionsOf
  <2> QED
    BY <2>1, <2>2, <2>3, <2>4, <2>5
<1> QED
  BY <1>1 DEF JobsOf

\* Until something is let go in doubt, no job is forgotten, a robot with a goal
\* works at the mission the scheduler has for it or is being answered for it, and
\* no two robots have one job: for every fleet, every timeout, and with requests, answers, starts and
\* reports as late as they like.
THEOREM SchedulerIsRight == FleetSpec => []BeliefsAgree
<1>1. AllKnown /\ Remembered => BeliefsAgree
  <2> SUFFICES ASSUME AllKnown, Remembered, ~doubted
               PROVE  /\ NeverForgotten
                      /\ \A r \in Robot : robot[r].goal =>
                           \E m \in MissionsOf(r) : m.id = begun[r]
                      /\ \A q, r \in Robot :
                           q # r => JobsOf(MissionsOf(q)) \cap JobsOf(MissionsOf(r)) = {}
    BY DEF BeliefsAgree
  <2>1. NeverForgotten
    BY DEF Remembered
  <2>2. ASSUME NEW r \in Robot, robot[r].goal
        PROVE  \E m \in MissionsOf(r) : m.id = begun[r]
    <3>1. Assigned(r, begun[r])
      BY <2>2 DEF AllKnown, Knowledge, Known, RobotsKnown
    <3>2. accepted \subseteq CurrentCalls
      BY DEF AllKnown, FleetTypes, Knowledge, Known, OneCall, CurrentCalls
    <3> QED
      BY <3>1, <3>2 DEF Assigned, MissionsOf
  <2>3. ASSUME NEW q \in Robot, NEW r \in Robot, q # r
        PROVE  JobsOf(MissionsOf(q)) \cap JobsOf(MissionsOf(r)) = {}
    BY <2>3, JobsApart DEF AllKnown
  <2> QED
    BY <2>1, <2>2, <2>3
<1> QED
  BY KnowledgeHolds, NothingForgotten, <1>1, PTL

\* Until then, a mission counts as completed only after its robot has begun it
\* and is done with it: a stale IDLE is never taken for a completion.
THEOREM CompletionsAreTrue == FleetSpec => CompletionIsTrue
<1>1. AllKnown /\ [FleetNext]_allVars =>
        [\A r \in DOMAIN active \ DOMAIN active' :
           ~doubted /\ [job |-> active[r].mission.job, how |-> "completed"] \in closed'
           => heard[r] = active[r].mission.id /\ ~robot[r].goal]_allVars
  BY CompletionStep DEF AllKnown
<1> QED
  BY KnowledgeHolds, <1>1, PTL DEF FleetSpec, CompletionIsTrue

=============================================================================
