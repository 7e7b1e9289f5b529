-------------------------- MODULE MissionScheduler --------------------------
(***************************************************************************)
(* The mission_scheduler node: a priority queue of missions, the           *)
(* reservation of robots, the single dispatch slot towards fleet_manager   *)
(* and the reconciliation of active missions with /fleet/state.            *)
(*                                                                         *)
(* The node runs on a single-threaded executor (rclcpp::spin), so every    *)
(* callback - a subscription, a service, a timer, a service response - is  *)
(* one atomic action here.  Its environment is open: any fleet snapshot    *)
(* in Statuses may arrive at any time, callers queue and cancel as they    *)
(* like, and an AssignMission call is answered late, early or never.       *)
(*                                                                         *)
(* Data abstractions:                                                      *)
(*  - mission_queue_ is kept sorted by enqueue_mission, so it is the set   *)
(*    of its missions together with the order Precedes; module             *)
(*    MissionQueue models the sorted vector and checks that this is so.    *)
(*  - mission_counter_ and next_sequence_ advance together and only in     *)
(*    enqueue_mission: one counter stands for both.                        *)
(*  - what a mission asks for (type, target_pose, has_target) is carried   *)
(*    unchanged through every copy: it is named by a job number.           *)
(*  - a timestamp compared with now() is the age it has, in ticks, which   *)
(*    stops growing one tick past the timeout it is compared with.         *)
(***************************************************************************)
EXTENDS Integers, FiniteSets, Functions, QueueOrder

CONSTANTS
  Robot,                \* the robot ids of /fleet/state
  NoRobot,              \* the empty dispatch_robot_id_
  Priorities,           \* priorities callers of QueueMission use
  RecurringPriority,    \* recurring_patrol_priority
  Battery,              \* battery_percentage of each robot (never changes)
  MinimumBattery,       \* minimum_battery_percentage
  Statuses,             \* the robot statuses fleet snapshots may carry
  ReservationTimeout,   \* reservation_timeout_seconds, in ticks
  DispatchTimeout,      \* dispatch_timeout_seconds, in ticks
  MissionStartTimeout,  \* mission_start_timeout_seconds, in ticks
  MaxInt32,             \* the greatest int32
  MaxAttempts,          \* max_mission_attempts
  MaxJobs,              \* bound: missions submitted by callers and timers
  MaxGeneration         \* bound: no dispatch starts at or past this one

\* What a snapshot says of a robot.  OTHER stands for every other state
\* (UNKNOWN, NAVIGATING, PATROLLING...), ABSENT for a robot not listed.
RobotStatus == [state : {"IDLE", "ERROR", "OTHER", "ABSENT"}, online : BOOLEAN,
                confirmed_offline : BOOLEAN, localization_ok : BOOLEAN]

\* The values of an int32 priority.
Int32 == -MaxInt32 - 1 .. MaxInt32

ASSUME SchedulerAssumption ==
  /\ IsFiniteSet(Robot) /\ NoRobot \notin Robot
  /\ MaxInt32 \in Nat
  /\ Priorities \subseteq Int32 /\ RecurringPriority \in Int32
  /\ Battery \in [Robot -> Nat] /\ MinimumBattery \in Nat
  /\ Statuses \subseteq RobotStatus
  /\ ReservationTimeout \in Nat /\ DispatchTimeout \in Nat
  /\ MissionStartTimeout \in Nat /\ MaxAttempts \in Nat
  /\ MaxJobs \in Nat /\ MaxGeneration \in Nat

VARIABLES
  systemReady,     \* system_ready_
  fleet,           \* latest_fleet_state_, as a function of the robot
  queue,           \* mission_queue_, as the set of its missions
  missionCounter,  \* mission_counter_, and next_sequence_ with it
  active,          \* active_missions_, a map from some robots
  reservations,    \* reserved_robots_ with the ages of reservation_times_
  inProgress,      \* dispatch_in_progress_
  dispatchRobot,   \* dispatch_robot_id_
  dispatchAge,     \* the age of dispatch_started_at_
  generation,      \* dispatch_generation_
  calls,           \* AssignMission calls whose response has not been handled
  submitted,       \* history: jobs submitted so far
  closed           \* history: how jobs ended, as far as the node knows

queueVars    == <<queue, missionCounter, submitted>>
dispatchVars == <<inProgress, dispatchRobot, dispatchAge, generation, calls>>
vars == <<systemReady, fleet, queueVars, active, reservations, dispatchVars,
          closed>>

(***************************************************************************)
(* Types.                                                                  *)
(***************************************************************************)
Mission == [id : Nat, job : Nat, priority : Int32, attempts : Nat]

ActiveMission == [mission : Mission, confirmed : BOOLEAN,
                  age : 0 .. MissionStartTimeout + 1]

Call == [generation : Nat, robot : Robot, mission : Mission]

Outcome == {"completed", "dropped", "canceled"}

TypeOK ==
  /\ systemReady \in BOOLEAN
  /\ fleet \in [Robot -> RobotStatus]
  /\ queue \subseteq Mission
  /\ missionCounter \in Nat
  /\ DOMAIN active \subseteq Robot
  /\ \A r \in DOMAIN active : active[r] \in ActiveMission
  /\ DOMAIN reservations \subseteq Robot
  /\ \A r \in DOMAIN reservations :
        reservations[r] \in 0 .. ReservationTimeout + 1
  /\ inProgress \in BOOLEAN
  /\ dispatchRobot \in Robot \cup {NoRobot}
  /\ dispatchAge \in 0 .. DispatchTimeout
  /\ generation \in Nat
  /\ calls \subseteq Call
  /\ submitted \in 0 .. MaxJobs
  /\ closed \subseteq [job : Nat, how : Outcome]

(***************************************************************************)
(* Helpers.                                                                *)
(***************************************************************************)
\* The map f with the keys in S erased.
Erase(f, S) == Restrict(f, DOMAIN f \ S)

\* The map f with f[k] set to v.
Assign(f, k, v) == [x \in DOMAIN f \cup {k} |-> IF x = k THEN v ELSE f[x]]

\* An age after one more tick, which saturates at the cap.
Older(age, cap) == IF age < cap THEN age + 1 ELSE age

\* The robots select_robot may pick, given the reservations in force.
Candidates(reserved) ==
  {r \in Robot : /\ fleet[r].online
                 /\ ~fleet[r].confirmed_offline
                 /\ fleet[r].localization_ok
                 /\ fleet[r].state \in {"IDLE", "ERROR"}
                 /\ Battery[r] >= MinimumBattery
                 /\ r \notin reserved}

\* select_robot: a candidate with the fullest battery; which of several
\* equally charged robots wins depends on their order in the message.
BestRobots(reserved) ==
  {r \in Candidates(reserved) :
     \A s \in Candidates(reserved) : Battery[s] <= Battery[r]}

Unseen == [state |-> "ABSENT", online |-> FALSE,
           confirmed_offline |-> FALSE, localization_ok |-> TRUE]

(***************************************************************************)
(* Initial state: no fleet snapshot was received, so no robot is listed.   *)
(***************************************************************************)
Init ==
  /\ systemReady = FALSE
  /\ fleet = [r \in Robot |-> Unseen]
  /\ queue = {} /\ missionCounter = 0 /\ submitted = 0
  /\ active = [r \in {} |-> 0]
  /\ reservations = [r \in {} |-> 0]
  /\ inProgress = FALSE /\ dispatchRobot = NoRobot
  /\ dispatchAge = 0 /\ generation = 0 /\ calls = {}
  /\ closed = {}

(***************************************************************************)
(* Callers and timers.                                                     *)
(***************************************************************************)
SystemReady(ready) ==
  /\ systemReady' = ready
  /\ UNCHANGED <<fleet, queueVars, active, reservations, dispatchVars, closed>>

\* enqueue_mission for a job that was not queued before.
Enqueue(priority) ==
  /\ submitted < MaxJobs
  /\ submitted' = submitted + 1
  /\ missionCounter' = missionCounter + 1
  /\ queue' = queue \cup {[id |-> missionCounter', job |-> submitted',
                           priority |-> priority, attempts |-> 0]}
  /\ UNCHANGED <<systemReady, fleet, active, reservations, dispatchVars, closed>>

\* An unsupported mission type is refused and changes nothing.
QueueMission(priority) == Enqueue(priority)

DispatchPatrol == Enqueue(0)

EnqueueRecurringPatrol == Enqueue(RecurringPriority)

\* A mission_id that is not queued is refused and changes nothing.
CancelMission(m) ==
  /\ m \in queue
  /\ queue' = queue \ {m}
  /\ closed' = closed \cup {[job |-> m.job, how |-> "canceled"]}
  /\ UNCHANGED <<systemReady, fleet, missionCounter, submitted, active,
                 reservations, dispatchVars>>

(***************************************************************************)
(* The /fleet/state subscription.  s is the snapshot received.             *)
(***************************************************************************)
\* update_robot_reservations_locked drops these reservations.
Released(s) ==
  {r \in DOMAIN reservations :
     /\ s[r].state # "ABSENT"
     /\ s[r].state # "IDLE" \/ reservations[r] > ReservationTimeout}

\* Mutant of Failed: STATE_ERROR forgotten.
FailedOnlyOffline(s) ==
  {r \in DOMAIN active : s[r].state # "ABSENT" /\ s[r].confirmed_offline}

\* Mutant of Failed: a robot that never begins is waited for.
FailedIfSeen(s) ==
  {r \in DOMAIN active :
     /\ s[r].state # "ABSENT"
     /\ s[r].confirmed_offline \/ s[r].state = "ERROR"}

\* reconcile_active_missions_locked counts these missions as failed.
Failed(s) ==
  {r \in DOMAIN active :
     /\ s[r].state # "ABSENT"
     /\ \/ s[r].confirmed_offline \/ s[r].state = "ERROR"
        \/ /\ s[r].state = "IDLE" /\ ~active[r].confirmed
           /\ active[r].age > MissionStartTimeout}

\* Mutant of Completed: robot_confirmed_active is not looked at.
CompletedIfIdle(s) == {r \in DOMAIN active \ Failed(s) : s[r].state = "IDLE"}

\* ... these as completed ...
Completed(s) ==
  {r \in DOMAIN active \ Failed(s) : s[r].state = "IDLE" /\ active[r].confirmed}

\* Mutant of Retried: one attempt too many.
RetriedOnceMore(s) == {r \in Failed(s) : active[r].mission.attempts < MaxAttempts}

\* ... and queues these again, ...
Retried(s) == {r \in Failed(s) : active[r].mission.attempts + 1 < MaxAttempts}

\* Mutant of Retry: attempt_count is not carried over.
RetryAfresh(m, id) == [id |-> id, job |-> m.job, priority |-> m.priority,
                       attempts |-> 0]

\* ... as this mission: a fresh id, one attempt further.
Retry(m, id) == [id |-> id, job |-> m.job, priority |-> m.priority,
                 attempts |-> m.attempts + 1]

\* The failed missions are queued again in the unspecified order in which
\* the hash map was walked: any numbering of them may come out.
FleetState(s) ==
  /\ fleet' = s
  /\ reservations' = Erase(reservations, Released(s))
  /\ active' = [r \in DOMAIN active \ (Failed(s) \cup Completed(s)) |->
                  [active[r] EXCEPT !.confirmed = @ \/ s[r].state = "OTHER"]]
  /\ \E place \in Bijection(Retried(s), 1 .. Cardinality(Retried(s))) :
        queue' = queue \cup {Retry(active[r].mission, missionCounter + place[r]) :
                               r \in Retried(s)}
  /\ missionCounter' = missionCounter + Cardinality(Retried(s))
  /\ closed' = closed \cup
        {[job |-> active[r].mission.job, how |-> "completed"] :
           r \in Completed(s)} \cup
        {[job |-> active[r].mission.job, how |-> "dropped"] :
           r \in Failed(s) \ Retried(s)}
  /\ UNCHANGED <<systemReady, submitted, dispatchVars>>

(***************************************************************************)
(* The 500 ms timer: process_queue.                                        *)
(***************************************************************************)
\* Mutant of SlotAvailable: no timeout, only a response frees the slot.
SlotFree == ~inProgress

\* The slot is free, or held so long that this tick takes it back.
SlotAvailable == inProgress => dispatchAge >= DispatchTimeout

\* The reservations and the generation once the slot was taken back, if it
\* had to be.
ReservationsNow ==
  IF inProgress THEN Erase(reservations, {dispatchRobot}) ELSE reservations

GenerationNow == IF inProgress THEN generation + 1 ELSE generation

\* A tick that takes the slot back and finds nothing to dispatch (or the
\* AssignMission service away, which may happen at any time).
ReclaimSlot ==
  /\ systemReady /\ inProgress /\ SlotAvailable
  /\ inProgress' = FALSE /\ dispatchRobot' = NoRobot /\ dispatchAge' = 0
  /\ generation' = GenerationNow
  /\ reservations' = ReservationsNow
  /\ UNCHANGED <<systemReady, fleet, queueVars, active, calls, closed>>

\* A tick that dispatches the front of the queue to the best robot.
Dispatch(r) ==
  /\ systemReady /\ SlotAvailable
  /\ generation < MaxGeneration
  /\ queue # {}
  /\ r \in BestRobots(DOMAIN ReservationsNow)
  /\ inProgress' = TRUE /\ dispatchRobot' = r /\ dispatchAge' = 0
  /\ generation' = GenerationNow + 1
  /\ reservations' = Assign(ReservationsNow, r, 0)
  /\ calls' = calls \cup {[generation |-> generation', robot |-> r,
                           mission |-> Front(queue)]}
  /\ UNCHANGED <<systemReady, fleet, queueVars, active, closed>>

(***************************************************************************)
(* The response callback of an AssignMission call.                         *)
(***************************************************************************)
\* Mutant of StaleResponse: a mission whose dispatch timed out is queued again
\* when the answer comes after all.
StaleRequeued(c) ==
  /\ c \in calls /\ c.generation # generation
  /\ calls' = calls \ {c}
  /\ queue' = queue \cup {c.mission}
  /\ UNCHANGED <<systemReady, fleet, missionCounter, submitted, active, reservations,
                 inProgress, dispatchRobot, dispatchAge, generation, closed>>

StaleResponse(c) ==
  /\ c \in calls /\ c.generation # generation
  /\ calls' = calls \ {c}
  /\ UNCHANGED <<systemReady, fleet, queueVars, active, reservations,
                 inProgress, dispatchRobot, dispatchAge, generation, closed>>

\* Mutant of AcceptedResponse: no look at the generation.
AcceptedLate(c) ==
  /\ c \in calls
  /\ calls' = calls \ {c}
  /\ queue' = {m \in queue : m.id # c.mission.id}
  /\ active' = Assign(active, c.robot, [mission |-> c.mission,
                                        confirmed |-> FALSE, age |-> 0])
  /\ inProgress' = FALSE /\ dispatchAge' = 0
  /\ UNCHANGED <<systemReady, fleet, missionCounter, submitted, reservations,
                 dispatchRobot, generation, closed>>

\* Mutant of AcceptedResponse: enters dispatch_robot_id_, not the robot the
\* call was made for, whatever the generation.
AcceptedForSlot(c) ==
  /\ c \in calls
  /\ calls' = calls \ {c}
  /\ queue' = {m \in queue : m.id # c.mission.id}
  /\ active' = Assign(active, dispatchRobot, [mission |-> c.mission,
                                        confirmed |-> FALSE, age |-> 0])
  /\ inProgress' = FALSE /\ dispatchAge' = 0
  /\ UNCHANGED <<systemReady, fleet, missionCounter, submitted, reservations,
                 dispatchRobot, generation, closed>>

AcceptedResponse(c) ==
  /\ c \in calls /\ c.generation = generation
  /\ calls' = calls \ {c}
  /\ queue' = {m \in queue : m.id # c.mission.id}
  /\ active' = Assign(active, c.robot, [mission |-> c.mission,
                                        confirmed |-> FALSE, age |-> 0])
  /\ inProgress' = FALSE /\ dispatchAge' = 0
  /\ UNCHANGED <<systemReady, fleet, missionCounter, submitted, reservations,
                 dispatchRobot, generation, closed>>

\* Mutant of RejectedResponse: the mission is taken off the queue anyway.
RejectedAndRemoved(c) ==
  /\ c \in calls /\ c.generation = generation
  /\ calls' = calls \ {c}
  /\ queue' = {m \in queue : m.id # c.mission.id}
  /\ reservations' = Erase(reservations, {c.robot})
  /\ inProgress' = FALSE /\ dispatchAge' = 0
  /\ UNCHANGED <<systemReady, fleet, missionCounter, submitted, active,
                 dispatchRobot, generation, closed>>

\* The fleet refused the mission, or the call threw.
RejectedResponse(c) ==
  /\ c \in calls /\ c.generation = generation
  /\ calls' = calls \ {c}
  /\ reservations' = Erase(reservations, {c.robot})
  /\ inProgress' = FALSE /\ dispatchAge' = 0
  /\ UNCHANGED <<systemReady, fleet, queueVars, active, dispatchRobot,
                 generation, closed>>

(***************************************************************************)
(* Time passes.                                                            *)
(***************************************************************************)
Tick ==
  /\ active' = [r \in DOMAIN active |->
       [active[r] EXCEPT !.age = Older(@, MissionStartTimeout + 1)]]
  /\ reservations' = [r \in DOMAIN reservations |->
                        Older(reservations[r], ReservationTimeout + 1)]
  /\ dispatchAge' = IF inProgress THEN Older(dispatchAge, DispatchTimeout)
                    ELSE dispatchAge
  /\ UNCHANGED <<systemReady, fleet, queueVars, inProgress, dispatchRobot,
                 generation, calls, closed>>

-----------------------------------------------------------------------------
Response == \E c \in calls :
  StaleResponse(c) \/ AcceptedResponse(c) \/ RejectedResponse(c)

ProcessQueue == ReclaimSlot \/ \E r \in Robot : Dispatch(r)

Next ==
  \/ \E ready \in BOOLEAN : SystemReady(ready)
  \/ \E p \in Priorities : QueueMission(p)
  \/ DispatchPatrol
  \/ EnqueueRecurringPatrol
  \/ \E m \in queue : CancelMission(m)
  \/ \E s \in [Robot -> Statuses] : FleetState(s)
  \/ ReclaimSlot
  \/ \E r \in Robot : Dispatch(r)
  \/ \E c \in calls : StaleResponse(c)
  \/ \E c \in calls : AcceptedResponse(c)
  \/ \E c \in calls : RejectedResponse(c)
  \/ Tick

Spec == Init /\ [][Next]_vars

\* The dispatch timer fires forever and time passes; nothing is assumed of
\* callers, of fleet_manager or of the network.
FairSpec == Spec /\ WF_vars(ProcessQueue) /\ WF_vars(Tick)

-----------------------------------------------------------------------------
(***************************************************************************)
(* Safety.                                                                 *)
(***************************************************************************)
CurrentCalls == {c \in calls : c.generation = generation}

Running == {active[r].mission : r \in DOMAIN active}

Tracked == queue \cup Running

JobsOf(missions) == {m.job : m \in missions}

\* The dispatch slot (dispatch_in_progress_, dispatch_robot_id_) is held
\* exactly while one unanswered AssignMission call carries the current
\* generation, and it names the robot of that call: whatever the order of
\* timeouts and late responses, no response can free or fill a slot that a
\* later dispatch holds (process_queue, lines 812-845 and 915-927).
DispatchSlot ==
  /\ \A c \in calls : c.generation <= generation
  /\ \A c, d \in calls : c.generation = d.generation => c = d
  /\ inProgress <=> CurrentCalls # {}
  /\ \A c \in CurrentCalls : c.robot = dispatchRobot

\* Every mission in the queue, on a robot or in flight that was tried before
\* was tried less than max_mission_attempts_ times, so no mission cycles the
\* fleet through STATE_ERROR forever (comment at lines 441-447).
AttemptsBounded ==
  \A m \in Tracked \cup {c.mission : c \in calls} :
     m.attempts = 0 \/ m.attempts < MaxAttempts

\* A job exists at most once among the queue and the robots: a timeout, a
\* late acceptance and a re-queue never make two missions of one.
OneIncarnation ==
  /\ \A m, n \in queue : m.job = n.job => m = n
  /\ \A r, s \in DOMAIN active :
        active[r].mission.job = active[s].mission.job => r = s
  /\ JobsOf(queue) \cap JobsOf(Running) = {}

\* A job counted as completed or dropped is over: it is not queued nor on a
\* robot again (a late response could have put it back), and it has only
\* one of these ends.
EndedIsFinal ==
  \A e \in closed : e.how # "canceled" =>
     /\ e.job \notin JobsOf(Tracked)
     /\ \A f \in closed : f.job = e.job /\ f.how # "canceled" => f = e

\* A robot seen working on its mission since it was dispatched is not free
\* for another one in the snapshot select_robot reads: its mission is ended
\* before the robot is offered again (reconcile_active_missions_locked runs
\* inside fleet_state_callback).
WorkingRobotNotOffered ==
  \A r \in DOMAIN active : active[r].confirmed => r \notin Candidates({})

\* Ids and jobs come from counters that only grow, and an id names one
\* queued mission.
IdsFresh ==
  /\ \A m \in Tracked \cup {c.mission : c \in calls} :
        m.id <= missionCounter /\ m.job <= submitted
  /\ \A e \in closed : e.job <= submitted
  /\ \A m, n \in queue : m.id = n.id => m = n

\* The mission of the dispatch under way is on no robot and is not over; if
\* it is still queued (it may have been canceled), it is queued as it was
\* sent.  This is what makes it safe for an accepted response to erase the
\* mission by its id and to enter it in active_missions_.
InFlight ==
  \A c \in CurrentCalls :
    /\ c.mission.job \notin JobsOf(Running)
    /\ \A m \in queue : m.job = c.mission.job <=> m.id = c.mission.id
    /\ \A e \in closed : e.job = c.mission.job => e.how = "canceled"

\* The inductive invariant behind OneIncarnation and EndedIsFinal: ids are
\* never reused and the mission of the dispatch under way is nowhere else,
\* whatever order timeouts, late responses and snapshots come in.
JobsAccounted == /\ DispatchSlot /\ IdsFresh /\ InFlight
                 /\ OneIncarnation /\ EndedIsFinal

(***************************************************************************)
(* Action properties.                                                      *)
(***************************************************************************)
\* A job leaves the queue and the robots only by an end the node knows of,
\* or - the gap NeverForgotten is about - when the response that accepts
\* another mission for its robot overwrites its entry in active_missions_.
LostOnlyByOverwrite ==
  [][\A m \in Tracked : m.job \notin JobsOf(Tracked') =>
       \/ \E e \in closed' : e.job = m.job
       \/ \E c \in calls \ calls' : c.robot \in DOMAIN active /\
                                   active[c.robot].mission = m]_vars

\* A mission taken off a robot and queued again keeps its priority, has a
\* new id and is one attempt further; nothing else changes the attempts of
\* a job - a refused, lost or late dispatch least of all (README.md:44-47).
AttemptsCountFailures ==
  [][\A m \in Tracked, n \in Tracked' : m.job = n.job /\ m # n =>
       /\ m \in Running /\ n \in queue'
       /\ n.priority = m.priority /\ n.id > missionCounter
       /\ n.attempts = m.attempts + 1]_vars

\* The job has no mission, and no answer that still counts can bring one back.
OutOfReach(j) ==
  j \notin JobsOf(Tracked) /\ \A c \in CurrentCalls : c.mission.job # j

\* A job out of reach - completed, dropped, forgotten, or canceled while it was
\* not being sent - never runs again, whatever answers come late: the dispatch
\* under way is the only one a cancellation can lose to (lines 619 and 918).
GoneForGood == [][\A j \in 1 .. submitted : OutOfReach(j) => OutOfReach(j)']_vars

(***************************************************************************)
(* Liveness.                                                               *)
(***************************************************************************)
\* While the system stays ready no dispatch holds the slot forever, even if
\* its AssignMission call is never answered (comment at lines 823-830).  The
\* slot itself may be taken again by the tick that frees it.
SlotRecovers ==
  <>[]systemReady =>
    \A g \in 1 .. MaxGeneration + 1 : ~<>[](inProgress /\ generation = g)

(***************************************************************************)
(* Two things the documents say that the code does not do.                 *)
(***************************************************************************)
\* "One mission's path from queue to done, retry, or drop" (README.md:43-44):
\* a job submitted and not canceled is queued, on a robot, or ended.
NeverForgotten ==
  \A j \in 1 .. submitted : \/ j \in JobsOf(Tracked)
                            \/ \E e \in closed : e.job = j

\* "Pending mission canceled" (line 642): a mission whose cancellation was
\* reported as successful is not run afterwards.
CanceledNeverRuns ==
  \A e \in closed : e.how = "canceled" => e.job \notin JobsOf(Running)
=============================================================================
