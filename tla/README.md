# TLA+ models of the multi-robot patrol fleet

TLA+ specifications of the parts of this repository that decide what the fleet
does, TLC configurations that model-check them on small instances, and proofs
checked by TLAPS. Paths below are relative to the repository's root; the ROS
packages are under `src/<package>`.

## 1. The system

Every ROS node below runs on a single-threaded executor (`rclcpp::spin` or
`rclpy.spin`). A callback of one node is therefore atomic with respect to its
other callbacks; all the concurrency is *between* nodes, and between a service
or action call and its answer.

| Component | State it keeps | Operations | Talks to |
|---|---|---|---|
| `mission_scheduler` (`scheduler`) | the priority queue, `active_missions_`, `reserved_robots_`, one dispatch slot with its generation, the latest fleet snapshot | queue, cancel, recurring patrol, `/fleet/state`, `/system/ready`, 500 ms dispatch timer, response of `AssignMission` | calls `/fleet/assign_mission`; publishes the latched `/scheduler/queue_state` |
| `system_readiness_supervisor` (`bringup`) | per robot: phase, `confirmed_active`, the poll under way, retry times | maps, readiness timer with its watchdog, `GetState` and `ManageLifecycleNodes` responses | Nav2's lifecycle nodes and managers; publishes the latched `/system/ready` |
| `fleet_manager` (`fleet`) | per robot: last heartbeat, `offline_since`, `auto_estopped` | heartbeats, the 1 s fleet state, e-stop services, automatic e-stop, mission forwarding, incidents | `/robotN/estop`, `/robotN/patrol/*`, `/scheduler/queue_mission`, `mission_store` |
| `mission_store` (`fleet`) | an SQLite log | append | written by `fleet_manager` only, read by nobody |
| `robot_heartbeat` (`fleet`) | the robot's state derived from `patrol/status` | status, battery, localization; periodic heartbeat | `/robotN/heartbeat` |
| `patrol_manager` (`patrol`) | `patrol_active_`, the goal handle, the status | start, stop, autostart timer, goal response, result | Nav2's `FollowWaypoints`; `patrol/status` |
| `safety_gate` (`safety`) | `estop_active_` | e-stop message, Nav2 velocity | the base's `cmd_vel` |
| `pose_jump_watchdog` (`mapping`) | last pose, time of the last jump | timer | `localization_ok` |
| `merge_map` (`merge_map`) | last map per robot | timer | `/merged_map`, for display |

### What makes it correct, and what is hard

- **Scheduler.** A mission goes from the queue to done, retry or drop, exactly
  once, and no more than `max_mission_attempts` times. Hard: the answer to a
  dispatch may come after the timeout gave the slot away, after the mission was
  cancelled, or never; snapshots are older than what they are compared with;
  reservation, start and dispatch each have their own timeout.
- **Queue.** The order is priority first, then arrival; a re-queued mission
  arrives anew; the latched snapshot must not be stale. Hard: five callbacks
  change the queue, and each has to publish it by a call of its own.
- **Readiness supervisor.** `/system/ready` must follow the Nav2 nodes both
  ways. Hard: answers to abandoned polls, lost answers, inputs that go and come
  back while a command is outstanding, clock at zero.
- **Fleet monitor.** `confirmed_offline` makes the scheduler give missions up,
  and the automatic e-stop stops a robot, so neither may follow from a short
  dropout, and neither may be lost by an order of outages and releases.
- **Patrol manager.** The goal that Nav2 runs must be the one the node can
  stop. Hard: `patrol_active_` changes when a goal is *answered*.
- **Fleet dispatch.** One verdict for each mission recorded as dispatched, one
  inspection for each severe incident, recorded under its id. Hard: answers come
  late, in any order, or to a process that is gone, while the scheduler goes on
  serving what that process asked for.
- **Localization watchdog.** A jump must keep a robot from being sent for the
  whole hold, and a recovered robot must be offered again. Hard: jumps across
  gaps in the transforms, jumps during a hold, three hops to the scheduler that
  each may lag.
- **All of them together.** What the scheduler believes of a mission must be what
  the robots do. Hard: every message between them may be lost or late, and the
  scheduler acts on time-outs, on IDLE and on ERROR reports that may be old.

`PROJECT.json` lists every hazard with its line and the properties that would
catch it.

## 2. Modules

```
QueueOrder <-- MissionScheduler <-- SchedulerRefinement <-- MCMissionScheduler
    ^             ^       ^               |       ^
    |             |       |               |       +-- SchedulerRefinement_proofs
    |             |       |               |               (and MissionScheduler_proofs)
    |             |       |               +-- implements --> MissionLifecycle
MissionQueue      |       +-- MissionScheduler_proofs <--+
    ^             |                                      |
    |             +-- PatrolFleet <--------------------- PatrolFleet_proofs
    |                 (scheduler, fleet manager, robots)
    |                     |
MissionQueue_proofs       v
                      RobotWork <-- PatrolRobot
                                        ^
                                        |  implements
PatrolManager <-- PatrolRefinement -----+
                      ^
                      +-- MCPatrolManager, PatrolManager_proofs

FleetMonitor <-- FleetHealth <-- FleetHealth_proofs
                 (watchdogs, heartbeats, monitor, gates)

ReadinessSupervisor <-- ReadinessSupervisor_proofs
FleetDispatch       <-- FleetDispatch_proofs
```

Each `MC*` module gives the component's constants their values for TLC. The
definitions named "Mutant of X" next to a definition X are wrong versions of X
that a bug in the code would give; no specification uses them. Each property
has one, and TLC finds the property violated when X is replaced by it.

### MissionScheduler (`src/scheduler/src/mission_scheduler_node.cpp`)

| Variable | Code |
|---|---|
| `systemReady`, `fleet` | `system_ready_`, `latest_fleet_state_` |
| `queue`, `missionCounter` | `mission_queue_`; `mission_counter_` and `next_sequence_`, which advance together |
| `active`, `reservations` | `active_missions_`; `reserved_robots_` with `reservation_times_` |
| `inProgress`, `dispatchRobot`, `dispatchAge`, `generation` | the `dispatch_*_` members |
| `calls` | the `AssignMission` calls whose response callback has not run |
| `submitted`, `closed` | history, for the properties |

Actions: `SystemReady`, `QueueMission`, `DispatchPatrol`,
`EnqueueRecurringPatrol`, `CancelMission`; `FleetState` is the whole of
`fleet_state_callback` (reservations, then active missions, then retries);
`ReclaimSlot` and `Dispatch` are `process_queue`; `StaleResponse`,
`AcceptedResponse` and `RejectedResponse` are the response callback. `Tick` lets
the ages grow. Fleet snapshots are any function from robots to `Statuses`,
unrelated to what the scheduler did: this over-approximates stale, early and
contradictory snapshots. A robot's battery never changes. Several failed
missions are queued again in any order, because the code walks an
`unordered_map`.

`MissionQueue` keeps the queue as the sorted vector it is, with both counters
and the latched copy, and shows that its head is the mission `Precedes` puts
first. That entitles `MissionScheduler` to keep a set. Its steps are finer than
those of the other modules: a callback (`QueueMission`, `CancelMission`,
`AcceptedResponse`, `RejectedResponse`, or `MissionsFail` with one `Requeue` for
each mission a snapshot made fail) changes the queue, and `PublishQueueState`,
its call of `publish_queue_state`, is a step of its own. `busy` and `failed` say
where the running callback is, and keep others from starting meanwhile, as the
executor does. Sorting is written without
recursion: a mission's place is the number of positions ahead of it
(`Arranged`), ties kept in their order as `std::stable_sort` keeps them.

`MissionLifecycle` is Figure 4 of the README for one job, with two steps the
figure does not have, in the parameter `Gaps`. `SchedulerRefinement` maps the
scheduler's state to it: TLC checks `ImplementsLifecycle` with both gaps, and
runs `scheduler_lost` and `scheduler_cancel` show that each gap is real.

### ReadinessSupervisor (`src/bringup/src/system_readiness_supervisor.cpp`)

`sup[r]` is `RobotSupervisor`; `up`, `nav` and `clock` are the environment;
`commands` counts unanswered `STARTUP` and `RESET` calls; `stale` is the last
abandoned poll. `CheckReadiness` is the whole timer callback: inputs, watchdog,
start of a poll and publication. `GetStateResponse` contains `finish_poll` and
the requests it makes. `poll_generation` is only compared for equality, so the
model has no counter: a response belongs to the current poll or is stale.

### FleetMonitor (`src/fleet/src/fleet_manager_node.cpp`, `src/safety/src/safety_gate_node.cpp`)

`heard`, `age`, `outage` and `auto_estopped` are the fields of `RobotRecord` the
monitor uses; `fleet` is the published state; `estop` is the last message on
each latched `/robotN/estop`; `estop_active` and `cmd` are the gate's.
`PublishFleetState` is one run of the timer over all robots. A gate may restart
(`GateStarts`), and then has seen no message until `EstopCallback` runs.

### FleetHealth (`src/mapping/src/pose_jump_watchdog.cpp`, `src/fleet/src/robot_heartbeat_node.cpp`)

Extends `FleetMonitor` with what `/fleet/state` says of localization.
`last_position`, `last_jump` and `localization_ok` are the watchdog's members;
`told` is `robot_heartbeat`'s copy, `record_ok` the fleet manager's and
`fleet_ok` the published one. `Check` is the whole of `check`, publications
included; the position it finds (or `Missing`, when the transform is not there)
is its input, so that the robot may move, jump and vanish between any two
checks. `Heartbeat` and `Publish` are `HeartbeatCallback` and
`PublishFleetState` of the monitor with the extra field, `Stops` the monitor's
e-stops and gates unchanged, and `TimePasses` its tick together with the age of
the last jump. `shown` and `sinceJump` are history: the jumps as the transforms
show them, whatever the watchdog makes of them.

### PatrolFleet (`scheduler`, `fleet`, `patrol` together)

Extends `MissionScheduler` and closes its environment. `asked`, `accepted` and
`starts` are the messages under way between scheduler, fleet manager and robots;
`report` is what the fleet manager publishes of each robot; `robot` is each
robot's patrol_manager with its Nav2, in the fields of `RobotWork`: whether
the mission begun last has a goal without a result, how many older goals have
none, `patrol_active_` and the state its heartbeat shows. `PatrolManager` is
shown to be such a robot. `Ask`, `Reclaim`, `Snapshot` and `Answer` are `Dispatch`,
`ReclaimSlot`, `FleetState` and the response actions of the scheduler; `Forward`
and `Refuse` are `handle_assign_mission`; `Begin` and `TurnDown` are
`handle_start`; `GoalAccepted`, `End` and `EndOlder` the goal's callbacks.
Any message may stay under way for good, which is how it is lost, and a
snapshot may be as old as it likes.

The scheduler cannot always know. It **lets a mission go in doubt**
(`doubted`) when it

- takes back the slot of a dispatch that was not answered (the start may have
  been forwarded),
- sends a second mission to a robot that has one,
- gives up a mission because its robot is lost, did not begin in time, or
  reported an ERROR from before it began (`GivenUp`).

The code does each of these on purpose, and after any of them a robot may work
at a mission the scheduler has queued again. The safety properties say that
nothing else leads there; they claim nothing after a doubt. `begun` and `heard`
are histories up to then: the mission each robot began last, and what that was
when the fleet manager last heard of it.

### PatrolManager (`src/patrol/src/patrol_manager.cpp`, `src/fleet/src/robot_heartbeat_node.cpp`)

`execute_mission` and `send_goal` block the executor in
`wait_for_action_server`, so they are split there: `ExecuteMission`, then
`ServerMissing` or `SendGoal`, and `waiting` disables the node's other callbacks
meanwhile. `goals[g]` says where Nav2 (`server`) and the node (`client`) are
with a goal. The `FollowWaypoints` server is not in the repository; `Accept`,
`Reject`, `End` and `Cancel` model what the callbacks rely on, preemption
included. `overlapped` is a history variable. `PatrolStatusCallback` is the
heartbeat's subscription to a topic that keeps one message.

`PatrolRobot` is what one robot promises the fleet: the five steps `RobotWork`
allows. `PatrolRefinement` maps the patrol manager to it: its work has a goal
while a start waits for the server or the goal sent last has no result, the older
goals without a result are counted, `patrol_active_` is itself, and the state is
what `robot_heartbeat` would make of the status now. `ImplementsRobot` says that
every step of the node and of Nav2, overlaps included, is one of the five or
changes nothing of this. `PatrolFleet` is built of the same operators, so its
robots do what the code's do. A start that waits for the action server has begun
there: the fleet sees no difference, because the status has changed already.

### FleetDispatch (`src/fleet/src/fleet_manager_node.cpp`, `src/fleet/src/mission_store.cpp`)

| Variable | Code |
|---|---|
| `ready`, `online`, `served` | `system_ready_`; what `is_robot_online` and `service_is_ready` answer |
| `calls` | calls to the patrol managers not answered yet |
| `queries`, `strays` | `QueueMission` requests the scheduler has not served yet, sent by this process and by one that ended |
| `answers` | answers of the scheduler whose callback has not run |
| `log`, `incidents`, `inspected` | rows of `mission_events` and `incidents`, as bags |
| `incident_counter` | `incident_counter_` |
| `missions` | external: what each mission of the scheduler asks for |
| `orphans`, `missed` | history: calls and inspections whose answer a restart made the node miss |
| `unasked`, `purpose` | history: incidents without an inspection; the incident a mission was queued for |

`RejectMission` and `AssignMission` are `handle_assign_mission` for a start,
`StopMission` for a stop; `Response` is the callback of either call;
`ReportIncident` contains `dispatch_incident_inspection`. `Restart` may come
between any two callbacks: the members are gone and the tables remain. An
inspection takes three steps of two processes: the request goes out with
`ReportIncident`, the scheduler queues the mission (`InspectionQueued`, or
`StrayQueued` for a request whose sender has ended), and the response callback
writes the row (`InspectionAnswered`). A restart may fall between any two of
them, so that a mission can be queued that no row explains. Opening
the database, and a row it fails to write, are left out; the bags hold what was
handed to the store. Severities below the one that calls for an inspection leave
an incidents row no property is about.

## 3. Runs

| Run | Shows | Bounds, and why they are enough |
|---|---|---|
| `scheduler` | type, `AttemptsBounded`, `JobsAccounted`, `WorkingRobotNotOffered`, `LostOnlyByOverwrite`, `AttemptsCountFailures`, `GoneForGood`, `SlotRecovers`, `ImplementsLifecycle` | two robots, two jobs, two attempts, three dispatches (179,000 states): a late answer, a re-queue, both robots failing in one snapshot, a second mission for a robot, a job that moves to the other robot. Robots idle, work or fail in their reports; no other status changes what the scheduler does with a mission but by the same conditions. `SlotRecovers` speaks of each dispatch by its generation, because the tick that takes the slot back may fill it at once. |
| `scheduler_lost` | **violated**: `NeverForgotten` | the order of the code's defaults (reservation before start timeout), scaled |
| `scheduler_cancel` | **violated**: `CanceledNeverRuns` | one job, one dispatch |
| `queue` | type, `HeadIsFront`, `SnapshotIsCurrent`, `NoOvertaking` | five missions of a few priorities, queued singly or by a snapshot that makes up to two fail (`MaxBatch`; 12,000 states): ties, re-queues, two missions that fail at once, and removals anywhere |
| `supervisor_safety` | `PhaseHasACause`, `PendingIsNotActive`, `OnlyTheCurrentPollDecides` | two nodes (symmetric), so that a poll can be half answered; robots of the supervisor do not interact except in `published` |
| `supervisor_liveness` | `PollsEnd`, `EventuallyReady`, `RegressionCaught` | one node: with two, the product with the formulas is too large |
| `supervisor_death` | **violated**: `DeathCaught` | one node |
| `fleet` | type, `BeliefsAgree`, `CompletionIsTrue`, `MissionsLeaveTheRobots` | two robots of unequal battery, one job, two attempts, two dispatches, one robot lost at a time (330,000 states): the job fails on one robot and moves to the other, with requests, starts, answers and reports in any order. The time-outs are zero, so that each may run out at once. The safety properties are proved for every bound |
| `health` | type, `StoppedMeansStill`, `AutoStopInForce`, `StatusFollowsJumps`, `ConfirmedIsSustained`, `LostRobotStops`, `LocalizationReported` | one robot (no two robots of the monitor interact, but in the services that act on all), ages up to 4 with thresholds 1, 2 and 4: each is crossed separately, and a dropout fits into the grace period; three positions of which the outer two are a jump apart; a hold of two ticks, so that a jump can fall into it |
| `patrol` | type, `GoalIsStoppable`, `QuietStatusIsFinal`, `IdleMeansDone`, `HeartbeatSettles`, `ImplementsRobot` | three goals (484,000 states): overlap, and one more start after it |
| `dispatch` | type, `LogBalances`, `InspectionsAccounted` | one robot, two missions (symmetric), three requests (304,000 states): the same mission forwarded twice, an incident numbered again after a restart, two incidents waiting at once, a restart before, between and after the scheduler's step and the callback |
| `dispatch_incident` | **violated**: `InspectionsAreForwarded` | one robot, one mission |

`PollTimeout` and `ResetRetry` of `supervisor_safety` are zero so that a tick is
enough for either; the code tells ages apart only by comparing them with these.
Ages stop growing one past the value they are compared with, so ticks need no
bound. `MaxInFlight` is the number of unanswered commands of a kind that are
told apart; a further one shares their answers.

In `CHECK_DEADLOCK` all configurations keep the default: time can always pass,
a snapshot can always arrive, or a status can always be read.

### Fairness

- `MissionScheduler!FairSpec`: the timer fires and time passes. Callers, the
  fleet manager and the network owe nothing.
- `ReadinessSupervisor!FairSpec`: the same. `LiveSpec` adds that live nodes and
  lifecycle managers answer; the properties that need more (inputs there, nodes
  active, answers before the watchdog) say so as hypotheses. `PollsEnd` needs
  no answers, only the timer and time.
- `PatrolFleet!FairFleetSpec`: time passes, heartbeats are received and snapshots
  handled, and Nav2 ends every goal in the end. Requests, starts and answers may
  be lost, so nothing is assumed of them. A snapshot may call up to `MaxLost`
  robots lost, any time.
- `FleetHealth!FairHealthSpec`: time, both timers, delivery of the reliable,
  latched topics (the watchdog's verdict, the e-stop). Heartbeats and operators
  owe nothing; `LocalizationReported` has "heartbeats keep coming" as a
  hypothesis. `Slack <= Timeout` says
  the one-second timer is never as late as the heartbeat timeout (3 s).
- `PatrolManager!FairSpec`: the wait for the action server is bounded
  (`server_wait_timeout`), callbacks run, and Nav2 answers and ends each goal.
  Nobody has to start or stop anything.

### What the violated runs show

1. **A mission can be forgotten** (`scheduler_lost`). The reservation expires
   (10 s) before the mission counts as not started (15 s). A robot that has not
   begun and still says IDLE is offered again, and the second accepted mission
   overwrites the first one's entry in `active_missions_` (line 801). The first
   is neither done, nor retried, nor dropped, against Figure 4.
2. **A cancelled mission can run** (`scheduler_cancel`). A mission stays in the
   queue until its dispatch is answered; cancelling it then answers "Pending
   mission canceled", and the acceptance makes it active all the same.
3. **A dead Nav2 node is not noticed** (`supervisor_death`). If its services are
   not ready, `poll_lifecycle_states` returns early; if it does not answer, the
   watchdog abandons the poll. Neither clears `confirmed_active`, and the README
   says a node that dies later still gets caught. A node that is alive and
   reports another state is caught: `RegressionCaught`.
4. **An incident's inspection is never carried out** (`dispatch_incident`).
   `dispatch_incident_inspection` queues an "inspect" mission without a target.
   The scheduler accepts it, and `handle_assign_mission` turns down every start
   of it for want of one, whatever is ready. The README says `report_incident`
   auto-dispatches a mission above the configured severity.

## 4. Proofs

| Theorem | Property | Argument |
|---|---|---|
| `MissionScheduler_proofs!TypeCorrect` | `TypeOK` | inductive together with `JobsAccounted`: `Dispatch` sends the front of the queue, which is a mission because ids are distinct in the queue and `Precedes` then has a least element (`FrontIsQueued`) |
| `JobsAlwaysAccounted` | `JobsAccounted` | inductive, see below |
| `SlotIsSound`, `NoDuplicateJobs`, `EndsAreFinal` | `DispatchSlot`, `OneIncarnation`, `EndedIsFinal` | conjuncts of `JobsAccounted`, which the run checks |
| `MissionQueue_proofs!TypeCorrect`, `HeadIsAlwaysFront`, `SnapshotIsAlwaysCurrent` | `TypeOK`, `HeadIsFront`, `SnapshotIsCurrent` | inductive with the types; see below |
| `NeverOvertaking` | `NoOvertaking` | from the same invariant: the queue keeps its order through a sort and an erase |
| `RetriesAreBounded` | `AttemptsBounded` | inductive with the types |
| `SchedulerRefinement_proofs!SchedulerImplementsLifecycle` | `ImplementsLifecycle` | every step maps to one step of each job or leaves it alone, see below |
| `LossesAreOverwrites`, `AttemptsAreFailures` | `LostOnlyByOverwrite`, `AttemptsCountFailures` | from the invariant `Books`, by what each kind of step does to the missions |
| `GoneIsGone` | `GoneForGood` | from `Books`: a job without a mission and without a current call never runs again, so that only a cancellation while the dispatch is under way can be overtaken |
| `WorkingRobotsAreLeftAlone` | `WorkingRobotNotOffered` | inductive with the types |
| `ReadinessSupervisor_proofs!SupervisorTypeCorrect`, `PhasesHaveCauses`, `PendingRobotsAreInactive` | `TypeOK` (only proved), `PhaseHasACause`, `PendingIsNotActive` | inductive together; `Sound` is what they ask of one robot |
| `TheCurrentPollDecides` | `OnlyTheCurrentPollDecides` | from the same invariant |
| `PatrolManager_proofs!PatrolTypeCorrect`, `GoalsAreStoppable`, `StatusSettles` | `TypeOK`, `GoalIsStoppable`, `QuietStatusIsFinal` | from the invariant `PatrolInv`, see below |
| `IdleIsDone` | `IdleMeansDone` | from `PatrolInv`: `FreeIsDone` remembers what the last status was said of |
| `PatrolIsARobot` | `ImplementsRobot` | every step maps to one step of the robot's work or leaves it alone, see below |
| `FleetHealth_proofs!TypeCorrect`, `StoppedIsStill`, `AutoStopHolds` | `TypeOK`, `StoppedMeansStill`, `AutoStopInForce` | inductive with the types |
| `ConfirmationIsSustained` | `ConfirmedIsSustained` | from the invariant `SilenceIsOlder` |
| `HealthIsAMonitor` | `HealthSpec => FleetMonitor!Spec` | every step is one of the monitor or leaves its variables alone; `HealthKeepsStops` carries both e-stop invariants over |
| `HealthTypeCorrect`, `VerdictFollowsJumps` | `HealthTypeOK`, `StatusFollowsJumps` | the second from the invariant `MemoryIsTrue`: what the watchdog remembers is what the transforms showed |
| `PatrolFleet_proofs!FleetIsAScheduler` | `FleetSpec => MissionScheduler!Spec` | every step is one of the scheduler or leaves its variables alone, so all theorems above hold in the composition |
| `FleetTypeCorrect` | `FleetTypeOK` | inductive together with the scheduler's `JobsAccounted` |
| `NothingForgotten` | `NeverForgotten`, until a doubt | from `Knowledge`: the robot of a call has no mission, so that an acceptance overwrites none |
| `SchedulerIsRight`, `CompletionsAreTrue` | `BeliefsAgree`, `CompletionIsTrue` | from the invariant `Knowledge`, see below |
| `FleetDispatch_proofs!TypeCorrect` | `TypeOK` | inductive: no call is answered twice |
| `LogAlwaysBalances` | `LogBalances` | inductive with the types; the lemmas say which rows of a bag a step changes |
| `InspectionsAlwaysAccounted` | `InspectionsAccounted` | from the invariant `Accounts`, see below |

`OneIncarnation`, the conjunct of `JobsAccounted` that puts a job in one place, is
not inductive: an accepted response puts the mission of its
call on a robot, so it must be known that this mission is nowhere else. The
strengthening says that a current call exists only while the slot is held
(`DispatchSlot`), that ids are never reused and jobs never exceed `submitted`
(`IdsFresh`), and that the mission in flight is on no robot, is not over unless
cancelled, and is the only one queued under its id (`InFlight`). The hard step
is the fleet snapshot, which ends and re-queues several missions at once: lemma
`SnapshotEffect` names the numbering it uses, and `JobsSnapshot` compares every
pair of places before and after.

`ImplementsLifecycle` compares stages, and a stage is read off a job's mission.
`StagesKnown` says how: by the mission if there is one, which `JobsAccounted` makes
the only one, and by the recorded end otherwise. `Books` adds to the invariants
above that the queued mission of a call's id is the mission the call carries
(`CallsAreQueued`), so that the attempts of a job do not change when it starts.
The steps then fall into five kinds (`StepKinds`), and each kind has a lemma that
names the step of the life cycle it is; an accepted response is three of them at
once: its own job starts or, if it was cancelled, is revived, and the job whose
entry it overwrites is forgotten.

The queue's order is proved by counting, since nothing can be proved by induction
over a sequence. In `Arranged(q, I, ahead)` the mission at place i is the one with
i - 1 positions ahead of it; if `ahead` is a strict total order on the positions I,
these numbers are all different and below the size of I, so that every position
has one place and `Arranged` is a bijection that follows the order. Sorting and
erasing are both of this form. `mission_queue` is then strictly sorted by
`Before`, its head precedes every other mission, and two missions that stay keep
the order their priorities and sequence numbers give them. `SnapshotIsCurrent` is
inductive because a step that changes the queue leaves a callback under way
(`busy`) and only `PublishQueueState` ends one; a callback without that call, as in
the mutant `CancelSilently`, breaks it.

`GoalIsStoppable` says that of the goals Nav2 runs `/patrol/stop` reaches exactly
those whose goal response was handled: not before, though the robot may be moving
then (the code refuses the stop at line 214), and always afterwards, unless goals
overlapped. It needs to know that a start which waits for the server found no
active patrol and is alone meanwhile (`WaitsAlone`), so that without overlap only
the goal sent last can be open (`OneAtATime`), and that Nav2 runs no goal whose
answer or result ended it (`DoneIsOver`); `QuietStatusIsFinal` that
`active_goal_handle_` is a goal whose result is not in (`HandleIsLive`), so that
"canceling" is always followed by a result.

`ImplementsRobot` counts goals. A new goal over an unanswered one makes that an
older one, and an end removes one from the count, if it was in it: the lemmas say
how the cardinality changes when one goal's record does. That the status turns
IDLE or ERROR only at an end needs `StatusFits` besides `PatrolInv`: a patrol is
active only under "active" or "canceling", so that a stop that changes the status
does not make the robot look idle, and a start waits only under "waiting_for_nav2".

`InspectionsAccounted` counts incidents by id and rows by mission. `Queued` adds
that an id the scheduler has not handed out was queued for nothing and missed by
nobody, and that an answer on its way is about the mission queued for its incident
and was not missed yet. An answer then finds no row of its mission and writes the
only one, and a request served after its sender ended gets a mission that never
has one. That the missions of an incident are finitely many is part of it, since
each adds one to their number.

`ConfirmedIsSustained` needs that `offline_since` is not newer than the silence
it stands for. That is false while a heartbeat came after the last run of the
timer; `SilenceIsOlder` allows just this case, and `Slack <= Timeout` makes the
next run see the robot online and clear the mark.

`BeliefsAgree` says that no job is forgotten, where the working robots' missions
are, and that no two robots have one job. The last is the scheduler's own
(`JobsAccounted`); the other two are not inductive. To keep the second through a
snapshot one must know that a robot whose mission is taken away has
really begun that mission and come to rest. `Knowledge` is the strengthening, and
holds as long as nothing was let go in doubt: there is one call at most, for a
robot without a mission (`OneCall`); a start under way is the only one for its
robot, is for what the robot is assigned, and was not begun (`StartsKnown`); only
accepted missions are begun, and no queued or refused one has the id of a begun
one (`IdsApart`); a robot that works, works at what it is assigned
(`RobotsKnown`); and a report that says IDLE or ERROR, heard since the robot began
its mission, is of a robot at rest, whereas one that says it works is of its
present mission or of a robot that cannot be dispatched to (`ReportsKnown`). The
step that needs all of it is the snapshot (`TakenAtRest`). The scheduler's ids
carry the argument: a retry has an id that no robot can have begun. `Remembered`
adds `NeverForgotten` to this: of all steps only an acceptance for a robot that has a
mission loses a job (`LostOnlyByOverwrite`), and `OneCall` says there is none. So
the first gap of `MissionLifecycle`, which `scheduler_lost` shows to be real, opens
only after a doubt.

The assumptions are the named `ASSUME`s of the modules, which TLC evaluates:
finite `Robot`, natural timeouts and bounds, priorities in int32
(`SchedulerAssumption`); integer priorities (`QueueAssumption`); `PatrolRobot \in Robot`, `Manual` no mission of the
scheduler (`DispatchAssumption`); all statuses allowed in snapshots
(`FleetAssumption`); a hold that is not zero (`HealthAssumption`); `Slack <= Timeout < Cap` and thresholds within `Cap`
(`MonitorAssumption`); a node to poll and a `MaxInFlight` that is not zero
(`SupervisorAssumption`); a natural `MaxGoals` (`PatrolAssumption`). The theorems hold for every value of the bounds.

Every invariant, action property and refinement that a passing run checks is
proved. Only model-checked are the liveness properties: `SlotRecovers`,
`PollsEnd`, `EventuallyReady`, `RegressionCaught`, `MissionsLeaveTheRobots`,
`LostRobotStops`, `LocalizationReported` and `HeartbeatSettles`. Liveness under
fairness, `ENABLED`, and induction over recursive definitions are beyond the
provers used. What the violated runs show is shown by TLC's counterexamples.

## 5. Not modelled

- *The mission store's failures*: opening the database, a row not written.
- *The supervisor's abandoned poll*: a late answer to `STARTUP` or `RESET` sets
  `kIdle` whatever the phase is. If the inputs went and came back meanwhile, a
  newer poll is under way and the next tick abandons it. The model does this; no
  property calls it wrong, since the poll is repeated.
- *`merge_map`*: each run of its timer merges the latest map of every robot into a
  fresh grid for RViz. It keeps nothing but those maps, no node acts on the
  result, and what it computes is floating-point geometry.
- *Uniqueness of incident ids*: `incident_counter_` starts again with the process,
  so an id may stand for several incidents of the table. The model does this, and
  `InspectionsAccounted` counts by id.
- *Overlapping goals and stops*: a second goal sent before the first one is answered
  may lose its handle to the first one's result and run out of reach of
  `/patrol/stop`. The model does this; `GoalIsStoppable` excludes it.
- *A lost answer to `STARTUP` or `RESET`*: the code waits for it without a timeout
  until the robot's inputs are lost, so there is no recovery to check.
- *What robots do after a doubt* (section 2, `PatrolFleet`): a late acceptance or a
  stale ERROR may put two robots on one job. The scheduler cannot tell, and no
  property is claimed of it.
- Mission contents (type, pose, has_target) are carried along unchanged by the
  scheduler, and named by a job number. Battery, mission type and
  `localization_ok` pass through the heartbeat; the scheduler reads them from
  the snapshot, with a constant battery.
- Launch, simulation, navigation and description files: configuration.
- Parameters, logging, message texts, ROS discovery: constants or left out.

## 6. Plan

1. After a doubt: which doubts can put two robots on one job, as theorems about what
   a reclaimed slot or a stale ERROR leaves behind.
2. The mission store's failures, if something ever reads the store back.
