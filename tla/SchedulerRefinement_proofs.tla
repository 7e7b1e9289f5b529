--------------------- MODULE SchedulerRefinement_proofs ---------------------
(***************************************************************************)
(* Proofs about what the scheduler does with one job, step by step: no     *)
(* mission disappears but by an overwritten entry, attempts count failures *)
(* and nothing else, and every job lives as MissionLifecycle says.         *)
(***************************************************************************)
EXTENDS SchedulerRefinement, MissionScheduler_proofs

-----------------------------------------------------------------------------
(***************************************************************************)
(* A mission in flight is the queued mission of its id.                    *)
(***************************************************************************)
CallsAreQueued ==
  \A c \in CurrentCalls, m \in queue : m.id = c.mission.id => m = c.mission

\* What is known of the scheduler in every state.
Books == TypeOK /\ JobsAccounted /\ AttemptsBounded /\ CallsAreQueued
         /\ WorkingRobotNotOffered

\* A step after which fewer calls are current and fewer missions queued keeps
\* what is in flight queued as it was sent.
LEMMA QueuedFrame ==
  ASSUME CallsAreQueued, CurrentCalls' \subseteq CurrentCalls, queue' \subseteq queue
  PROVE  CallsAreQueued'
BY DEF CallsAreQueued

LEMMA CallsAreQueuedStep ==
  ASSUME TypeOK, JobsAccounted, CallsAreQueued, [Next]_vars
  PROVE  CallsAreQueued'
<1>1. /\ \A c \in calls : c.generation \in Nat /\ c.generation <= generation
                          /\ c.mission.id \in Nat /\ c.mission.id <= missionCounter
      /\ missionCounter \in Nat /\ generation \in Nat
      /\ \A m \in queue : m.id \in Nat
  <2>1. \A c \in calls : c.mission.id \in Nat
    BY MissionTypes DEF Mission
  <2> QED
    BY <2>1, MissionTypes
    DEF TypeOK, Call, JobsAccounted, DispatchSlot, IdsFresh
<1>2. ASSUME CurrentCalls' \subseteq CurrentCalls,
             \A m \in queue' : m \in queue \/ (m.id \in Nat /\ m.id > missionCounter)
      PROVE  CallsAreQueued'
  BY <1>1, <1>2 DEF CallsAreQueued, CurrentCalls
<1>3. ASSUME NEW p, Enqueue(p)
      PROVE  CallsAreQueued'
  <2>1. CurrentCalls' = CurrentCalls
    BY <1>3 DEF Enqueue, dispatchVars, CurrentCalls
  <2>2. \A m \in queue' : m \in queue \/ m.id = missionCounter + 1
    BY <1>3 DEF Enqueue
  <2> QED
    BY <1>1, <1>2, <2>1, <2>2
<1>4. ASSUME NEW s, FleetState(s)
      PROVE  CallsAreQueued'
  <2>1. CurrentCalls' = CurrentCalls
    BY <1>4 DEF FleetState, dispatchVars, CurrentCalls
  <2>2. PICK id : Renumbering(s, id)
    BY <1>4, SnapshotEffect
  <2>3. \A r \in Retried(s) : active[r].mission \in Mission
    BY RetriedFinite, MissionTypes
  <2>4. \A r \in Retried(s) : Retry(active[r].mission, id[r]).id = id[r]
    BY DEF Retry
  <2>5. \A m \in queue' : m \in queue \/ (m.id \in Nat /\ m.id > missionCounter)
    BY <2>2, <2>4 DEF Renumbering
  <2> QED
    BY <1>2, <2>1, <2>5
<1>5. ASSUME NEW r \in Robot, Dispatch(r)
      PROVE  CallsAreQueued'
  <2>1. Front(queue) \in queue /\ \A m, n \in queue : m.id = n.id => m = n
    BY <1>5, FrontIsQueued DEF Dispatch, JobsAccounted, IdsFresh, TypeOK
  <2>2. generation' > generation
    BY <1>1, <1>5 DEF Dispatch, GenerationNow
  <2>3. \A c \in CurrentCalls' : c.mission = Front(queue)
    BY <1>1, <1>5, <2>2 DEF Dispatch, CurrentCalls
  <2> QED
    BY <1>5, <2>1, <2>3 DEF CallsAreQueued, Dispatch, queueVars
<1>6. CASE ReclaimSlot
  <2>1. CurrentCalls' = {}
    BY <1>1, <1>6 DEF ReclaimSlot, GenerationNow, CurrentCalls
  <2> QED
    BY <2>1 DEF CallsAreQueued
<1>7. ASSUME NEW c \in calls, StaleResponse(c) \/ AcceptedResponse(c) \/ RejectedResponse(c)
      PROVE  CallsAreQueued'
  BY <1>7, QueuedFrame
  DEF StaleResponse, AcceptedResponse, RejectedResponse, CurrentCalls, queueVars
<1>8. ASSUME NEW m \in queue, CancelMission(m)
      PROVE  CallsAreQueued'
  BY <1>8, QueuedFrame DEF CancelMission, CurrentCalls, dispatchVars
<1>9. CASE Tick \/ \E ready \in BOOLEAN : SystemReady(ready)
  BY <1>9, QueuedFrame DEF Tick, SystemReady, CurrentCalls, dispatchVars, queueVars
<1>10. CASE UNCHANGED vars
  BY <1>10, QueuedFrame DEF vars, CurrentCalls, dispatchVars, queueVars
<1> QED
  BY <1>3, <1>4, <1>5, <1>6, <1>7, <1>8, <1>9, <1>10
  DEF Next, QueueMission, DispatchPatrol, EnqueueRecurringPatrol

-----------------------------------------------------------------------------
(***************************************************************************)
(* A robot that works is not offered.                                      *)
(***************************************************************************)
LEMMA WorkingStep ==
  ASSUME TypeOK, WorkingRobotNotOffered, [Next]_vars
  PROVE  WorkingRobotNotOffered'
<1>1. ASSUME fleet' = fleet, DOMAIN active' \subseteq DOMAIN active,
             \A r \in DOMAIN active' : active'[r].confirmed => active[r].confirmed
      PROVE  WorkingRobotNotOffered'
  BY <1>1 DEF WorkingRobotNotOffered, Candidates
<1>2. ASSUME NEW s, FleetState(s)
      PROVE  WorkingRobotNotOffered'
  <2> SUFFICES ASSUME NEW r \in DOMAIN active', active'[r].confirmed,
                      s[r].state \in {"IDLE", "ERROR"}
               PROVE  FALSE
    BY <1>2 DEF FleetState, WorkingRobotNotOffered, Candidates
  <2>1. /\ r \in DOMAIN active /\ r \notin Failed(s) /\ r \notin Completed(s)
        /\ active'[r] = [active[r] EXCEPT !.confirmed = @ \/ s[r].state = "OTHER"]
    BY <1>2 DEF FleetState
  <2>2. active[r] \in ActiveMission
    BY <2>1 DEF TypeOK
  <2>3. active[r].confirmed \/ s[r].state = "OTHER"
    BY <2>1, <2>2 DEF ActiveMission
  <2> QED
    BY <2>1, <2>3 DEF Failed, Completed
<1>3. ASSUME NEW c \in calls, AcceptedResponse(c)
      PROVE  WorkingRobotNotOffered'
  BY <1>3 DEF AcceptedResponse, Assign, WorkingRobotNotOffered, Candidates
<1>4. CASE Tick
  BY <1>1, <1>4 DEF Tick, TypeOK, ActiveMission
<1>5. ASSUME fleet' = fleet, active' = active
      PROVE  WorkingRobotNotOffered'
  BY <1>1, <1>5
<1>6. CASE UNCHANGED vars
  BY <1>5, <1>6 DEF vars
<1> QED
  BY <1>2, <1>3, <1>4, <1>5, <1>6
  DEF Next, SystemReady, QueueMission, DispatchPatrol, EnqueueRecurringPatrol,
      Enqueue, CancelMission, ReclaimSlot, Dispatch, StaleResponse, RejectedResponse

LEMMA BooksInit == Init => Books
<1>1. Init => CallsAreQueued /\ WorkingRobotNotOffered
  BY DEF Init, CallsAreQueued, CurrentCalls, WorkingRobotNotOffered
<1> QED
  BY <1>1, InitOK DEF Books

LEMMA BooksStep ==
  ASSUME Books, [Next]_vars
  PROVE  Books'
<1> USE DEF Books
<1>1. TypeOK' /\ JobsAccounted'
  BY TypeStep, JobsStep DEF JobsAccounted
<1>2. AttemptsBounded'
  BY AttemptsStep
<1>3. CallsAreQueued'
  BY CallsAreQueuedStep
<1>4. WorkingRobotNotOffered'
  BY WorkingStep
<1> QED
  BY <1>1, <1>2, <1>3, <1>4

\* The books are in order in every state.
THEOREM BooksHold == Spec => []Books
<1>1. Books /\ [Next]_vars => Books'
  BY BooksStep
<1> QED
  BY BooksInit, <1>1, PTL DEF Spec

\* select_robot never offers a robot that was seen at work on the mission it
\* has, whatever snapshots come.
THEOREM WorkingRobotsAreLeftAlone == Spec => []WorkingRobotNotOffered
<1>1. Books => WorkingRobotNotOffered
  BY DEF Books
<1> QED
  BY BooksHold, <1>1, PTL

-----------------------------------------------------------------------------
(***************************************************************************)
(* What one step does to the missions.                                     *)
(***************************************************************************)
\* Steps that leave all missions where they are.
Quiet == /\ queue' = queue /\ closed' = closed /\ submitted' = submitted
         /\ DOMAIN active' = DOMAIN active
         /\ \A r \in DOMAIN active : active'[r].mission = active[r].mission

LEMMA StepKinds ==
  ASSUME TypeOK, [Next]_vars
  PROVE  \/ Quiet
         \/ \E p \in Int32 : Enqueue(p)
         \/ \E m \in queue : CancelMission(m)
         \/ \E s : FleetState(s)
         \/ \E c \in calls : AcceptedResponse(c)
<1>1. CASE Tick
  BY <1>1 DEF Quiet, Tick, TypeOK, ActiveMission, queueVars
<1>2. CASE UNCHANGED vars
  BY <1>2 DEF Quiet, vars, queueVars
<1>3. 0 \in Int32 /\ Priorities \subseteq Int32 /\ RecurringPriority \in Int32
  BY SchedulerAssumption DEF SchedulerAssumption, Int32
<1>4. CASE \/ \E ready \in BOOLEAN : SystemReady(ready)
           \/ ReclaimSlot
           \/ \E r \in Robot : Dispatch(r)
           \/ \E c \in calls : StaleResponse(c)
           \/ \E c \in calls : RejectedResponse(c)
  BY <1>4 DEF Quiet, SystemReady, ReclaimSlot, Dispatch, StaleResponse,
              RejectedResponse, queueVars
<1> QED
  BY <1>1, <1>2, <1>3, <1>4
  DEF Next, QueueMission, DispatchPatrol, EnqueueRecurringPatrol

\* Two tracked missions of one job are one mission.
LEMMA TrackedOnce ==
  ASSUME OneIncarnation, NEW m \in Tracked, NEW n \in Tracked, m.job = n.job
  PROVE  m = n
BY DEF OneIncarnation, Tracked, Running, JobsOf

\* What a snapshot does with the mission of each robot.
LEMMA SnapshotFates ==
  ASSUME TypeOK, NEW s, FleetState(s), NEW r \in DOMAIN active
  PROVE  \/ r \in DOMAIN active' /\ active'[r].mission = active[r].mission
         \/ [job |-> active[r].mission.job, how |-> "completed"] \in closed'
         \/ /\ active[r].mission.attempts + 1 >= MaxAttempts
            /\ [job |-> active[r].mission.job, how |-> "dropped"] \in closed'
         \/ /\ active[r].mission.attempts + 1 < MaxAttempts
            /\ \E id : Retry(active[r].mission, id) \in queue'
<1>1. CASE r \notin Failed(s) \cup Completed(s)
  BY <1>1, SnapshotEffect
<1>2. CASE r \in Completed(s)
  BY <1>2 DEF FleetState
<1>3. CASE r \in Failed(s) \ Retried(s)
  <2>1. [job |-> active[r].mission.job, how |-> "dropped"] \in closed'
    BY <1>3 DEF FleetState
  <2>2. active[r].mission.attempts \in Nat
    BY MissionTypes
  <2> QED
    BY <1>3, <2>1, <2>2, SchedulerAssumption DEF Retried, SchedulerAssumption
<1>4. CASE r \in Retried(s)
  <2>1. PICK id : Renumbering(s, id)
    BY SnapshotEffect
  <2>2. Retry(active[r].mission, id[r]) \in queue'
    BY <1>4, <2>1 DEF Renumbering
  <2>3. active[r].mission.attempts + 1 < MaxAttempts
    BY <1>4 DEF Retried
  <2> QED
    BY <2>2, <2>3
<1> QED
  BY <1>1, <1>2, <1>3, <1>4

\* An accepted mission is the queued one of its id, if that is still queued.
LEMMA AcceptedEffect ==
  ASSUME Books, NEW c \in calls, AcceptedResponse(c)
  PROVE  /\ queue' = {m \in queue : m.id # c.mission.id}
         /\ DOMAIN active' = DOMAIN active \cup {c.robot}
         /\ active'[c.robot].mission = c.mission
         /\ \A r \in DOMAIN active : r # c.robot => active'[r] = active[r]
         /\ closed' = closed /\ submitted' = submitted /\ calls' = calls \ {c}
         /\ \A m \in queue : m.id = c.mission.id => m = c.mission
         /\ c.mission.job \notin JobsOf(Running)
         /\ \A m \in queue : m.job = c.mission.job => m = c.mission
         /\ \A e \in closed : e.job = c.mission.job => e.how = "canceled"
         /\ c.mission.job <= submitted
<1>1. c \in CurrentCalls
  BY DEF AcceptedResponse, CurrentCalls
<1>2. /\ \A m \in queue : m.id = c.mission.id => m = c.mission
      /\ c.mission.job \notin JobsOf(Running)
      /\ \A m \in queue : m.job = c.mission.job <=> m.id = c.mission.id
      /\ \A e \in closed : e.job = c.mission.job => e.how = "canceled"
      /\ c.mission.job <= submitted
  BY <1>1 DEF Books, CallsAreQueued, JobsAccounted, InFlight, IdsFresh
<1> QED
  BY <1>2 DEF AcceptedResponse, Assign

-----------------------------------------------------------------------------
(***************************************************************************)
(* The action properties.                                                  *)
(***************************************************************************)
LEMMA LossStep ==
  ASSUME Books, [Next]_vars, NEW m \in Tracked, m.job \notin JobsOf(Tracked')
  PROVE  \/ \E e \in closed' : e.job = m.job
         \/ \E c \in calls \ calls' : c.robot \in DOMAIN active /\
                                     active[c.robot].mission = m
<1> USE DEF Books
<1>1. \A n \in Tracked' : n.job # m.job
  BY DEF JobsOf
<1>2. CASE Quiet
  BY <1>1, <1>2 DEF Quiet, Tracked, Running
<1>3. ASSUME NEW p \in Int32, Enqueue(p)
      PROVE  FALSE
  BY <1>1, <1>3 DEF Enqueue, Tracked, Running
<1>4. ASSUME NEW n \in queue, CancelMission(n)
      PROVE  \E e \in closed' : e.job = m.job
  <2>1. queue' = queue \ {n} /\ active' = active
        /\ [job |-> n.job, how |-> "canceled"] \in closed'
    BY <1>4 DEF CancelMission
  <2>2. m = n
    BY <1>1, <2>1 DEF Tracked, Running
  <2> QED
    BY <2>1, <2>2
<1>5. ASSUME NEW s, FleetState(s)
      PROVE  \E e \in closed' : e.job = m.job
  <2>1. m \notin queue
    BY <1>1, <1>5 DEF FleetState, Tracked
  <2>2. PICK r \in DOMAIN active : active[r].mission = m
    BY <2>1 DEF Tracked, Running
  <2>3. \A id : Retry(m, id).job = m.job
    BY DEF Retry
  <2> QED
    BY <1>1, <1>5, <2>2, <2>3, SnapshotFates DEF Tracked, Running
<1>6. ASSUME NEW c \in calls, AcceptedResponse(c)
      PROVE  /\ c \in calls \ calls' /\ c.robot \in DOMAIN active
             /\ active[c.robot].mission = m
  <2>1. c.mission \in Tracked'
    BY <1>6, AcceptedEffect DEF Tracked, Running
  <2>2. m.job # c.mission.job
    BY <1>1, <2>1
  <2>3. m \notin queue
    BY <1>1, <1>6, <2>2, AcceptedEffect DEF Tracked
  <2>4. PICK r \in DOMAIN active : active[r].mission = m
    BY <2>3 DEF Tracked, Running
  <2>5. r = c.robot
    BY <1>1, <1>6, <2>4, AcceptedEffect DEF Tracked, Running
  <2> QED
    BY <1>6, <2>4, <2>5, AcceptedEffect
<1> QED
  BY <1>2, <1>3, <1>4, <1>5, <1>6, StepKinds

LEMMA FailureStep ==
  ASSUME Books, [Next]_vars, NEW m \in Tracked, NEW n \in Tracked', m.job = n.job, m # n
  PROVE  /\ m \in Running /\ n \in queue'
         /\ n.priority = m.priority /\ n.id > missionCounter
         /\ n.attempts = m.attempts + 1
<1> USE DEF Books
<1>1. n \notin Tracked
  BY TrackedOnce DEF JobsAccounted
<1>2. ~Quiet
  BY <1>1 DEF Quiet, Tracked, Running
<1>3. ASSUME NEW p \in Int32, Enqueue(p)
      PROVE  FALSE
  <2>1. n.job = submitted + 1
    BY <1>1, <1>3 DEF Enqueue, Tracked, Running
  <2>2. m.job <= submitted
    BY DEF JobsAccounted, IdsFresh
  <2>3. submitted \in Int
    BY SchedulerAssumption DEF TypeOK, SchedulerAssumption
  <2> QED
    BY <2>1, <2>2, <2>3
<1>4. ASSUME NEW q \in queue, CancelMission(q)
      PROVE  FALSE
  BY <1>1, <1>4 DEF CancelMission, Tracked, Running
<1>5. ASSUME NEW c \in calls, AcceptedResponse(c)
      PROVE  FALSE
  <2>1. n = c.mission
    <3>1. n \notin queue' /\ n \notin Running
      BY <1>1, <1>5, AcceptedEffect DEF Tracked
    <3>2. PICK r \in DOMAIN active' : n = active'[r].mission
      BY <3>1 DEF Tracked, Running
    <3>3. /\ DOMAIN active' = DOMAIN active \cup {c.robot}
          /\ active'[c.robot].mission = c.mission
          /\ \A t \in DOMAIN active : t # c.robot => active'[t] = active[t]
      BY <1>5, AcceptedEffect
    <3>4. r # c.robot => n \in Running
      BY <3>2, <3>3 DEF Running
    <3> QED
      BY <3>1, <3>2, <3>3, <3>4
  <2>2. m \in queue => m = c.mission
    BY <1>5, <2>1, AcceptedEffect
  <2>3. m \notin Running
    BY <1>5, <2>1, AcceptedEffect DEF JobsOf
  <2> QED
    BY <2>1, <2>2, <2>3 DEF Tracked
<1>6. PICK s : FleetState(s)
  BY <1>2, <1>3, <1>4, <1>5, StepKinds
<1>7. n \in queue' /\ n \notin queue
  BY <1>1, <1>6, SnapshotEffect DEF Tracked, Running
<1>8. PICK id : Renumbering(s, id)
  BY <1>6, SnapshotEffect
<1>9. PICK r \in Retried(s) : n = Retry(active[r].mission, id[r])
  BY <1>7, <1>8 DEF Renumbering
<1>10. r \in DOMAIN active /\ active[r].mission \in Running
  BY <1>9 DEF Retried, Failed, Running
<1>11. /\ n.job = active[r].mission.job /\ n.priority = active[r].mission.priority
       /\ n.attempts = active[r].mission.attempts + 1 /\ n.id = id[r]
  BY <1>9 DEF Retry
<1>12. m = active[r].mission
  BY <1>10, <1>11, TrackedOnce DEF JobsAccounted, Tracked
<1> QED
  BY <1>7, <1>8, <1>9, <1>10, <1>11, <1>12 DEF Renumbering

\* A mission is lost from sight only when the scheduler says how it ended, or
\* when another one is accepted for its robot.
THEOREM LossesAreOverwrites == Spec => LostOnlyByOverwrite
<1>1. Books /\ [Next]_vars =>
        [\A m \in Tracked : m.job \notin JobsOf(Tracked') =>
           \/ \E e \in closed' : e.job = m.job
           \/ \E c \in calls \ calls' : c.robot \in DOMAIN active /\
                                       active[c.robot].mission = m]_vars
  BY LossStep
<1> QED
  BY BooksHold, <1>1, PTL DEF Spec, LostOnlyByOverwrite

\* The only thing that changes a job's mission is a failure, and each one
\* counts once, whatever ends, answers and cancellations come in between.
THEOREM AttemptsAreFailures == Spec => AttemptsCountFailures
<1>1. Books /\ [Next]_vars =>
        [\A m \in Tracked, n \in Tracked' : m.job = n.job /\ m # n =>
           /\ m \in Running /\ n \in queue'
           /\ n.priority = m.priority /\ n.id > missionCounter
           /\ n.attempts = m.attempts + 1]_vars
  BY FailureStep
<1> QED
  BY BooksHold, <1>1, PTL DEF Spec, AttemptsCountFailures

-----------------------------------------------------------------------------
(***************************************************************************)
(* Jobs that are gone.                                                     *)
(***************************************************************************)
\* The calls that are current after a step were so before, or are for a mission
\* that is queued.
LEMMA CurrentOrQueued ==
  ASSUME TypeOK, JobsAccounted, [Next]_vars
  PROVE  \A c \in CurrentCalls' : c \in CurrentCalls \/ c.mission \in queue
<1>1. /\ \A c \in calls : c.generation \in Nat /\ c.generation <= generation
      /\ generation \in Nat
  BY DEF TypeOK, Call, JobsAccounted, DispatchSlot
<1>2. ASSUME NEW r \in Robot, Dispatch(r)
      PROVE  \A c \in CurrentCalls' : c.mission \in queue
  <2>1. Front(queue) \in queue
    BY <1>2, FrontIsQueued DEF Dispatch, JobsAccounted, IdsFresh, TypeOK
  <2>2. generation' > generation
    BY <1>1, <1>2 DEF Dispatch, GenerationNow
  <2> QED
    BY <1>1, <1>2, <2>1, <2>2 DEF Dispatch, CurrentCalls
<1>3. CASE ReclaimSlot
  BY <1>1, <1>3 DEF ReclaimSlot, GenerationNow, CurrentCalls
<1>4. ASSUME generation' = generation, calls' \subseteq calls
      PROVE  CurrentCalls' \subseteq CurrentCalls
  BY <1>4 DEF CurrentCalls
<1>5. CASE UNCHANGED vars
  BY <1>4, <1>5 DEF vars, dispatchVars
<1> QED
  BY <1>2, <1>3, <1>4, <1>5
  DEF Next, QueueMission, DispatchPatrol, EnqueueRecurringPatrol, Enqueue,
      SystemReady, CancelMission, FleetState, StaleResponse, AcceptedResponse,
      RejectedResponse, Tick, dispatchVars

\* What a snapshot keeps: queued missions stay queued, and the missions it
\* queues and the ends it records are those of missions on robots.
LEMMA SnapshotKeeps ==
  ASSUME TypeOK, NEW s, FleetState(s)
  PROVE  /\ queue \subseteq queue' /\ closed \subseteq closed'
         /\ submitted' = submitted
         /\ \A m \in Tracked' : m \in Tracked \/ m.job \in JobsOf(Running)
         /\ \A e \in closed' : e \in closed \/ e.job \in JobsOf(Running)
<1>1. PICK id : Renumbering(s, id)
  BY SnapshotEffect
<1>2. \A r \in DOMAIN active : active[r].mission.job \in JobsOf(Running)
  BY DEF JobsOf, Running
<1>3. /\ Retried(s) \subseteq DOMAIN active /\ Failed(s) \subseteq DOMAIN active
      /\ Completed(s) \subseteq DOMAIN active
  BY DEF Retried, Failed, Completed
<1>4. \A m \in queue' : m \in queue \/ m.job \in JobsOf(Running)
  BY <1>1, <1>2, <1>3 DEF Renumbering, Retry
<1>5. Running' \subseteq Running
  BY SnapshotEffect DEF Running
<1>6. \A e \in closed' : e \in closed \/ e.job \in JobsOf(Running)
  BY <1>2, <1>3 DEF FleetState
<1>7. queue \subseteq queue' /\ closed \subseteq closed' /\ submitted' = submitted
  BY DEF FleetState
<1> QED
  BY <1>4, <1>5, <1>6, <1>7 DEF Tracked

LEMMA GoneStep ==
  ASSUME Books, [Next]_vars, NEW j \in 1 .. submitted, OutOfReach(j)
  PROVE  OutOfReach(j)'
<1> USE DEF Books
<1>1. \A c \in CurrentCalls' : c.mission.job # j
  BY CurrentOrQueued DEF OutOfReach, Tracked, JobsOf
<1>2. \A m \in Tracked : m.job # j
  BY DEF OutOfReach, JobsOf
<1>3. ASSUME queue' \subseteq queue, Running' \subseteq Running
      PROVE  \A m \in Tracked' : m.job # j
  BY <1>2, <1>3 DEF Tracked
<1>4. ASSUME Quiet
      PROVE  \A m \in Tracked' : m.job # j
  <2>1. Running' = Running
    BY <1>4 DEF Quiet, Running
  <2> QED
    BY <1>3, <1>4, <2>1 DEF Quiet
<1>5. ASSUME NEW p \in Int32, Enqueue(p)
      PROVE  \A m \in Tracked' : m.job # j
  <2>1. submitted \in Nat /\ Running' = Running
    BY <1>5 DEF TypeOK, Enqueue, Running
  <2>2. \A m \in queue' : m \in queue \/ m.job = submitted + 1
    BY <1>5 DEF Enqueue
  <2> QED
    BY <1>2, <2>1, <2>2 DEF Tracked
<1>6. ASSUME NEW m \in queue, CancelMission(m)
      PROVE  \A n \in Tracked' : n.job # j
  BY <1>3, <1>6 DEF CancelMission, Running
<1>7. ASSUME NEW s, FleetState(s)
      PROVE  \A m \in Tracked' : m.job # j
  BY <1>2, <1>7, SnapshotKeeps DEF Tracked, JobsOf
<1>8. ASSUME NEW c \in calls, AcceptedResponse(c)
      PROVE  \A m \in Tracked' : m.job # j
  <2>1. c.mission.job # j
    BY <1>8 DEF OutOfReach, AcceptedResponse, CurrentCalls
  <2>2. queue' \subseteq queue
    BY <1>8 DEF AcceptedResponse
  <2>3. ASSUME NEW r \in DOMAIN active'
        PROVE  active'[r].mission = c.mission \/ active'[r].mission \in Running
    <3>1. /\ DOMAIN active' = DOMAIN active \cup {c.robot}
          /\ active'[c.robot].mission = c.mission
          /\ \A q \in DOMAIN active : q # c.robot => active'[q] = active[q]
      BY <1>8, AcceptedEffect
    <3> QED
      BY <3>1 DEF Running
  <2> QED
    BY <1>2, <2>1, <2>2, <2>3 DEF Tracked, Running
<1>9. \A m \in Tracked' : m.job # j
  <2>1. CASE Quiet
    BY <1>4, <2>1
  <2>2. CASE \E p \in Int32 : Enqueue(p)
    BY <1>5, <2>2
  <2>3. CASE \E m \in queue : CancelMission(m)
    BY <1>6, <2>3
  <2>4. CASE \E s : FleetState(s)
    BY <1>7, <2>4
  <2>5. CASE \E c \in calls : AcceptedResponse(c)
    BY <1>8, <2>5
  <2> QED
    BY <2>1, <2>2, <2>3, <2>4, <2>5, StepKinds
<1> QED
  BY <1>1, <1>9 DEF OutOfReach, JobsOf

\* A mission that was canceled while no dispatch of it was under way does not run
\* any more, and no mission that is over comes back: of the answers that are late
\* none can bring back a job but the one its own dispatch still waits for.
THEOREM GoneIsGone == Spec => GoneForGood
<1>1. Books /\ [Next]_vars =>
        [\A j \in 1 .. submitted : OutOfReach(j) => OutOfReach(j)']_vars
  BY GoneStep
<1> QED
  BY BooksHold, <1>1, PTL DEF Spec, GoneForGood

-----------------------------------------------------------------------------
(***************************************************************************)
(* The refinement.  StagesKnown reads the stage of a job off its mission,  *)
(* if it has one, and off its end otherwise.                               *)
(***************************************************************************)
In(where, n) == [at |-> where, attempts |-> n]

EndedAs(j, how) == [job |-> j, how |-> how] \in closed

\* Where a job is that has no mission.
Gone(j) == CASE EndedAs(j, "completed") -> "completed"
             [] ~EndedAs(j, "completed") /\ EndedAs(j, "dropped") -> "dropped"
             [] ~EndedAs(j, "completed") /\ ~EndedAs(j, "dropped") ->
                  IF j <= submitted THEN "withdrawn" ELSE "new"

StagesKnown ==
  \A j \in 1 .. MaxJobs :
    /\ \A m \in Running : m.job = j => Stage(j) = In("active", m.attempts)
    /\ \A m \in queue : m.job = j => Stage(j) = In("queued", m.attempts)
    /\ j \notin JobsOf(Tracked) => Stage(j) = In(Gone(j), 0)

\* A job that was completed or dropped has no mission, and only one end.
EndsExclude ==
  \A j : /\ EndedAs(j, "completed") \/ EndedAs(j, "dropped") => j \notin JobsOf(Tracked)
         /\ ~(EndedAs(j, "completed") /\ EndedAs(j, "dropped"))

LEMMA EndedNowhere == JobsAccounted => EndsExclude
<1> SUFFICES ASSUME JobsAccounted, NEW j
             PROVE  /\ EndedAs(j, "completed") \/ EndedAs(j, "dropped") =>
                         j \notin JobsOf(Tracked)
                    /\ ~(EndedAs(j, "completed") /\ EndedAs(j, "dropped"))
  BY DEF EndsExclude
<1> DEFINE end(how) == [job |-> j, how |-> how]
<1>1. end("completed").how # "canceled" /\ end("dropped").how # "canceled"
      /\ end("completed") # end("dropped")
      /\ end("completed").job = j /\ end("dropped").job = j
  OBVIOUS
<1>2. /\ end("completed") \in closed => j \notin JobsOf(Tracked)
      /\ end("dropped") \in closed => j \notin JobsOf(Tracked)
      /\ ~(end("completed") \in closed /\ end("dropped") \in closed)
  BY <1>1 DEF JobsAccounted, EndedIsFinal
<1> QED
  BY <1>2 DEF EndedAs

\* The stage of a job is what StagesKnown says, once the jobs are accounted for.
LEMMA StageKnown == TypeOK /\ JobsAccounted => StagesKnown
<1> SUFFICES ASSUME TypeOK, JobsAccounted, NEW j \in 1 .. MaxJobs
             PROVE  /\ \A m \in Running : m.job = j =>
                         Stage(j) = In("active", m.attempts)
                    /\ \A m \in queue : m.job = j =>
                         Stage(j) = In("queued", m.attempts)
                    /\ j \notin JobsOf(Tracked) => Stage(j) = In(Gone(j), 0)
  BY DEF StagesKnown
<1>1. ASSUME NEW m \in Running, m.job = j
      PROVE  Stage(j) = In("active", m.attempts)
  <2>1. \A n \in Running : n.job = j => n = m
    BY <1>1, TrackedOnce DEF JobsAccounted, Tracked
  <2>2. j \in JobsOf(Running) /\ j \in JobsOf(Tracked)
    BY <1>1 DEF JobsOf, Tracked
  <2> QED
    BY <1>1, <2>1, <2>2 DEF Stage, In
<1>2. ASSUME NEW m \in queue, m.job = j
      PROVE  Stage(j) = In("queued", m.attempts)
  <2>1. \A n \in Tracked : n.job = j => n = m
    BY <1>2, TrackedOnce DEF JobsAccounted, Tracked
  <2>2. j \notin JobsOf(Running) /\ j \in JobsOf(Tracked)
    BY <1>2 DEF JobsAccounted, OneIncarnation, JobsOf, Tracked
  <2>3. \A n \in queue : n.job = j => n = m
    BY <2>1 DEF Tracked
  <2>4. ~ \E n \in Running : n.job = j
    BY <2>2 DEF JobsOf
  <2> QED
    BY <1>2, <2>2, <2>3, <2>4 DEF Stage, In
<1>3. ASSUME j \notin JobsOf(Tracked)
      PROVE  Stage(j) = In(Gone(j), 0)
  <2>1. /\ j \notin JobsOf(Running)
        /\ ~ \E n \in Running : n.job = j
        /\ ~ \E n \in queue : n.job = j
    BY <1>3 DEF JobsOf, Tracked
  <2>2. \A how : how \in EndsOf(j) <=> EndedAs(j, how)
    <3>1. \A e \in closed : e = [job |-> e.job, how |-> e.how]
      BY DEF TypeOK
    <3> QED
      BY <3>1 DEF EndsOf, EndedAs
  <2>3. EndsOf(j) \subseteq Outcome
    BY DEF EndsOf, TypeOK
  <2>4. ~("completed" \in EndsOf(j) /\ "dropped" \in EndsOf(j))
    BY <2>2, EndedNowhere DEF EndsExclude
  <2>5. EndsOf(j) \subseteq {"canceled"} <=>
          ~EndedAs(j, "completed") /\ ~EndedAs(j, "dropped")
    BY <2>2, <2>3 DEF Outcome
  <2> QED
    BY <1>3, <2>1, <2>2, <2>4, <2>5 DEF Stage, In, Gone
<1> QED
  BY <1>1, <1>2, <1>3

\* The same of the next state.
LEMMA KnownNext == TypeOK' /\ JobsAccounted' => StagesKnown' /\ EndsExclude'
<1>1. TypeOK /\ JobsAccounted => StagesKnown /\ EndsExclude
  BY StageKnown, EndedNowhere
<1> QED
  BY <1>1, PTL

LEMMA QuietStage ==
  ASSUME Quiet, NEW j \in 1 .. MaxJobs
  PROVE  Stage(j)' = Stage(j)
<1>1. Running' = Running
  BY DEF Quiet, Running
<1> QED
  BY <1>1 DEF Quiet, Stage, Tracked, JobsOf, EndsOf

LEMMA EnqueueStage ==
  ASSUME Books, StagesKnown, StagesKnown', NEW p \in Int32, Enqueue(p),
         NEW j \in 1 .. MaxJobs
  PROVE  Stage(j)' = Stage(j) \/ Lifecycle!Submit(Stage(j), Stage(j)')
<1>1. /\ submitted \in Nat /\ submitted' = submitted + 1 /\ closed' = closed
      /\ Running' = Running
      /\ \A m \in Tracked : m.job \in Nat /\ m.job <= submitted
      /\ \A e \in closed : e.job \in Nat /\ e.job <= submitted
  BY MissionTypes
  DEF Books, TypeOK, JobsAccounted, IdsFresh, Enqueue, Running, Tracked
<1>2. PICK new \in queue' : /\ new.job = submitted + 1 /\ new.attempts = 0
                            /\ queue' = queue \cup {new}
  BY DEF Enqueue
<1>3. CASE j = submitted + 1
  <2>1. Stage(j)' = In("queued", 0)
    BY <1>2, <1>3 DEF StagesKnown
  <2>2. j \notin JobsOf(Tracked) /\ ~EndedAs(j, "completed") /\ ~EndedAs(j, "dropped")
    BY <1>1, <1>3 DEF JobsOf, EndedAs
  <2>3. Stage(j) = In("new", 0)
    BY <1>1, <1>3, <2>2 DEF StagesKnown, Gone
  <2> QED
    BY <2>1, <2>3 DEF Lifecycle!Submit, Lifecycle!At, In
<1>4. ASSUME j # submitted + 1, NEW m \in Running, m.job = j
      PROVE  Stage(j)' = Stage(j)
  BY <1>1, <1>4 DEF StagesKnown
<1>5. ASSUME j # submitted + 1, NEW m \in queue, m.job = j
      PROVE  Stage(j)' = Stage(j)
  BY <1>2, <1>5 DEF StagesKnown
<1>6. ASSUME j # submitted + 1, j \notin JobsOf(Tracked)
      PROVE  Stage(j)' = Stage(j)
  <2>1. j \notin JobsOf(Tracked)'
    BY <1>1, <1>2, <1>6 DEF JobsOf, Tracked
  <2>2. Gone(j)' = Gone(j)
    BY <1>1, <1>6 DEF Gone, EndedAs
  <2> QED
    BY <1>6, <2>1, <2>2 DEF StagesKnown, In
<1> QED
  BY <1>3, <1>4, <1>5, <1>6 DEF JobsOf, Tracked

LEMMA CancelStage ==
  ASSUME Books, Books', StagesKnown, StagesKnown', NEW m \in queue, CancelMission(m),
         NEW j \in 1 .. MaxJobs
  PROVE  Stage(j)' = Stage(j) \/ Lifecycle!Cancel(Stage(j), Stage(j)')
<1>1. /\ queue' = queue \ {m} /\ Running' = Running /\ submitted' = submitted
      /\ closed' = closed \cup {[job |-> m.job, how |-> "canceled"]}
  BY DEF CancelMission, Running
<1>2. \A how : how # "canceled" => (EndedAs(j, how)' <=> EndedAs(j, how))
  BY <1>1 DEF EndedAs
<1>3. Gone(j)' = Gone(j)
  BY <1>1, <1>2 DEF Gone
<1>4. CASE m.job = j
  <2>1. \A n \in Tracked : n.job = j => n = m
    BY <1>4, TrackedOnce DEF Books, JobsAccounted, Tracked
  <2>2. m \notin Running
    BY DEF Books, JobsAccounted, OneIncarnation, JobsOf
  <2>3. j \notin JobsOf(Tracked)'
    BY <1>1, <2>1, <2>2 DEF JobsOf, Tracked
  <2>4. ~EndedAs(j, "completed") /\ ~EndedAs(j, "dropped")
    BY <1>4, EndedNowhere DEF EndsExclude, Books, Tracked, JobsOf
  <2>5. j <= submitted
    BY <1>4 DEF Books, JobsAccounted, IdsFresh, Tracked
  <2>6. Stage(j)' = In("withdrawn", 0)
    BY <1>3, <2>3, <2>4, <2>5 DEF StagesKnown, Gone, In
  <2>7. Stage(j) = In("queued", m.attempts)
    BY <1>4 DEF StagesKnown
  <2> QED
    BY <2>6, <2>7 DEF Lifecycle!Cancel, Lifecycle!At, In
<1>5. ASSUME m.job # j, NEW n \in Running, n.job = j
      PROVE  Stage(j)' = Stage(j)
  BY <1>1, <1>5 DEF StagesKnown
<1>6. ASSUME m.job # j, NEW n \in queue, n.job = j
      PROVE  Stage(j)' = Stage(j)
  BY <1>1, <1>6 DEF StagesKnown
<1>7. ASSUME m.job # j, j \notin JobsOf(Tracked)
      PROVE  Stage(j)' = Stage(j)
  <2>1. j \notin JobsOf(Tracked)'
    BY <1>1, <1>7 DEF JobsOf, Tracked
  <2> QED
    BY <1>3, <1>7, <2>1 DEF StagesKnown, In
<1> QED
  BY <1>4, <1>5, <1>6, <1>7 DEF JobsOf, Tracked

LEMMA SnapshotStage ==
  ASSUME Books, Books', StagesKnown, StagesKnown', NEW s, FleetState(s),
         NEW j \in 1 .. MaxJobs
  PROVE  Stage(j)' = Stage(j) \/ Lifecycle!Step(Stage(j), Stage(j)')
<1>1. TypeOK
  BY DEF Books
<1>2. /\ queue \subseteq queue' /\ closed \subseteq closed'
      /\ submitted' = submitted
      /\ \A m \in Tracked' : m \in Tracked \/ m.job \in JobsOf(Running)
      /\ \A e \in closed' : e \in closed \/ e.job \in JobsOf(Running)
  BY <1>1, SnapshotKeeps
<1>3. ASSUME NEW r \in DOMAIN active, active[r].mission.job = j
      PROVE  Stage(j)' = Stage(j) \/ Lifecycle!Step(Stage(j), Stage(j)')
  <2> DEFINE m == active[r].mission
  <2>1. Stage(j) = In("active", m.attempts)
    BY <1>3 DEF StagesKnown, Running
  <2>2. CASE r \in DOMAIN active' /\ active'[r].mission = m
    <3>1. m \in Running'
      BY <2>2 DEF Running
    <3> QED
      BY <1>3, <2>1, <3>1 DEF StagesKnown, In
  <2>3. CASE [job |-> m.job, how |-> "completed"] \in closed'
    <3>1. EndedAs(j, "completed")'
      BY <1>3, <2>3 DEF EndedAs
    <3>2. j \notin JobsOf(Tracked)'
      BY <3>1, KnownNext DEF EndsExclude, Books
    <3>3. Stage(j)' = In("completed", 0)
      BY <3>1, <3>2 DEF StagesKnown, Gone, In
    <3> QED
      BY <2>1, <3>3 DEF Lifecycle!Step, Lifecycle!Finish, Lifecycle!At, In
  <2>4. CASE /\ m.attempts + 1 >= MaxAttempts
             /\ [job |-> m.job, how |-> "dropped"] \in closed'
    <3>1. EndedAs(j, "dropped")'
      BY <1>3, <2>4 DEF EndedAs
    <3>2. j \notin JobsOf(Tracked)' /\ ~EndedAs(j, "completed")'
      BY <3>1, KnownNext DEF EndsExclude, Books
    <3>3. Stage(j)' = In("dropped", 0)
      BY <3>1, <3>2 DEF StagesKnown, Gone, In
    <3> QED
      BY <2>1, <2>4, <3>3 DEF Lifecycle!Step, Lifecycle!Drop, Lifecycle!At, In
  <2>5. CASE m.attempts + 1 < MaxAttempts /\ \E id : Retry(m, id) \in queue'
    <3>1. PICK n \in queue' : n.job = j /\ n.attempts = m.attempts + 1
      BY <1>3, <2>5 DEF Retry
    <3>2. Stage(j)' = In("queued", m.attempts + 1)
      BY <3>1 DEF StagesKnown, In
    <3> QED
      BY <2>1, <2>5, <3>2 DEF Lifecycle!Step, Lifecycle!Retry, Lifecycle!At, In
  <2> QED
    BY <1>1, <2>2, <2>3, <2>4, <2>5, SnapshotFates
<1>4. ASSUME NEW m \in queue, m.job = j
      PROVE  Stage(j)' = Stage(j)
  BY <1>2, <1>4 DEF StagesKnown, In
<1>5. ASSUME j \notin JobsOf(Tracked)
      PROVE  Stage(j)' = Stage(j)
  <2>1. j \notin JobsOf(Running) /\ \A m \in Tracked : m.job # j
    BY <1>5 DEF JobsOf, Tracked
  <2>2. j \notin JobsOf(Tracked)'
    BY <1>2, <2>1 DEF JobsOf
  <2>3. \A how : EndedAs(j, how)' <=> EndedAs(j, how)
    BY <1>2, <2>1 DEF EndedAs
  <2> QED
    BY <1>2, <1>5, <2>2, <2>3 DEF StagesKnown, Gone, In
<1> QED
  BY <1>3, <1>4, <1>5 DEF JobsOf, Tracked, Running

LEMMA AcceptStage ==
  ASSUME Books, Books', StagesKnown, StagesKnown', NEW c \in calls, AcceptedResponse(c),
         NEW j \in 1 .. MaxJobs
  PROVE  Stage(j)' = Stage(j) \/ Lifecycle!Step(Stage(j), Stage(j)')
<1> DEFINE m == c.mission
<1>1. /\ queue' = {n \in queue : n.id # m.id}
      /\ DOMAIN active' = DOMAIN active \cup {c.robot}
      /\ active'[c.robot].mission = m
      /\ \A r \in DOMAIN active : r # c.robot => active'[r] = active[r]
      /\ closed' = closed /\ submitted' = submitted
  BY AcceptedEffect
<1>2. /\ \A n \in queue : n.id = m.id => n = m
      /\ m.job \notin JobsOf(Running)
      /\ \A n \in queue : n.job = m.job => n = m
      /\ \A e \in closed : e.job = m.job => e.how = "canceled"
      /\ m.job <= submitted
  BY AcceptedEffect
<1>3. Gone(j)' = Gone(j)
  BY <1>1 DEF Gone, EndedAs
<1>4. CASE j = m.job
  <2>1. m \in Running'
    BY <1>1 DEF Running
  <2>2. Stage(j)' = In("active", m.attempts)
    BY <1>4, <2>1 DEF StagesKnown
  <2>3. ASSUME NEW n \in queue, n.job = j
        PROVE  Lifecycle!Step(Stage(j), Stage(j)')
    <3>1. Stage(j) = In("queued", m.attempts)
      BY <1>2, <1>4, <2>3 DEF StagesKnown
    <3> QED
      BY <2>2, <3>1 DEF Lifecycle!Step, Lifecycle!Start, Lifecycle!At, In
  <2>4. ASSUME ~ \E n \in queue : n.job = j
        PROVE  Lifecycle!Step(Stage(j), Stage(j)')
    <3>1. j \notin JobsOf(Tracked)
      BY <1>2, <1>4, <2>4 DEF JobsOf, Tracked
    <3>2. ~EndedAs(j, "completed") /\ ~EndedAs(j, "dropped")
      BY <1>2, <1>4 DEF EndedAs
    <3>3. Stage(j) = In("withdrawn", 0)
      BY <1>2, <1>4, <3>1, <3>2 DEF StagesKnown, Gone, In
    <3>4. m.attempts = 0 \/ m.attempts < MaxAttempts
      BY DEF Books, AttemptsBounded
    <3> QED
      BY <2>2, <3>3, <3>4 DEF Lifecycle!Step, Lifecycle!Revive, Lifecycle!At, In
  <2> QED
    BY <2>3, <2>4
<1>5. ASSUME j # m.job, NEW n \in queue, n.job = j
      PROVE  Stage(j)' = Stage(j)
  <2>1. n \in queue'
    BY <1>1, <1>2, <1>5
  <2> QED
    BY <1>5, <2>1 DEF StagesKnown, In
<1>6. ASSUME j # m.job, NEW r \in DOMAIN active, active[r].mission.job = j
      PROVE  Stage(j)' = Stage(j) \/ Lifecycle!Step(Stage(j), Stage(j)')
  <2> DEFINE n == active[r].mission
  <2>1. Stage(j) = In("active", n.attempts) /\ n \in Running
    BY <1>6 DEF StagesKnown, Running
  <2>2. CASE r # c.robot
    <3>1. n \in Running'
      BY <1>1, <1>6, <2>2 DEF Running
    <3> QED
      BY <1>6, <2>1, <3>1 DEF StagesKnown, In
  <2>3. CASE r = c.robot
    <3>1. \A t \in DOMAIN active : active[t].mission.job = j => t = r
      BY <1>6 DEF Books, JobsAccounted, OneIncarnation
    <3>2. \A k \in Running' : k.job # j
      <4>1. \A t \in DOMAIN active' : active'[t].mission.job # j
        BY <1>1, <1>6, <2>3, <3>1
      <4> QED
        BY <4>1 DEF Running
    <3>3. j \in JobsOf(Running) /\ \A k \in queue : k.job # j
      BY <1>6, <2>1 DEF Books, JobsAccounted, OneIncarnation, JobsOf
    <3>4. j \notin JobsOf(Tracked)'
      BY <1>1, <3>2, <3>3 DEF JobsOf, Tracked
    <3>5. ~EndedAs(j, "completed") /\ ~EndedAs(j, "dropped")
      BY <3>3, EndedNowhere DEF EndsExclude, Books, JobsOf, Tracked
    <3>6. j <= submitted
      BY <1>6, <2>1 DEF Books, JobsAccounted, IdsFresh, Tracked
    <3>7. Stage(j)' = In("withdrawn", 0)
      BY <1>3, <3>4, <3>5, <3>6 DEF StagesKnown, Gone, In
    <3> QED
      BY <2>1, <3>7 DEF Lifecycle!Step, Lifecycle!Forget, Lifecycle!At, In
  <2> QED
    BY <2>2, <2>3
<1>7. ASSUME j # m.job, j \notin JobsOf(Tracked)
      PROVE  Stage(j)' = Stage(j)
  <2>1. \A k \in Tracked' : k = m \/ k \in Tracked
    BY <1>1 DEF Tracked, Running
  <2>2. j \notin JobsOf(Tracked)'
    BY <1>7, <2>1 DEF JobsOf
  <2> QED
    BY <1>3, <1>7, <2>2 DEF StagesKnown, In
<1> QED
  BY <1>4, <1>5, <1>6, <1>7 DEF JobsOf, Tracked, Running

\* Initially no job was submitted.
LEMMA LifecycleInit == Init => Lifecycle!Init
<1> SUFFICES ASSUME Init, NEW j \in 1 .. MaxJobs
             PROVE  Stage(j) = In("new", 0)
  BY DEF Lifecycle!Init, Lifecycle!At, In
<1>1. Books /\ StagesKnown
  BY BooksInit, StageKnown DEF Books
<1>2. j \notin JobsOf(Tracked) /\ ~EndedAs(j, "completed") /\ ~EndedAs(j, "dropped")
  BY DEF Init, JobsOf, Tracked, Running, EndedAs
<1>3. ~(j <= submitted)
  BY DEF Init
<1> QED
  BY <1>1, <1>2, <1>3 DEF StagesKnown, Gone

LEMMA LifecycleStep ==
  ASSUME Books, Books', [Next]_vars
  PROVE  Lifecycle!Next
<1>1. StagesKnown /\ StagesKnown'
  BY StageKnown, KnownNext DEF Books
<1>2. ASSUME NEW j \in 1 .. MaxJobs
      PROVE  Stage(j)' = Stage(j) \/ Lifecycle!Step(Stage(j), Stage(j)')
  <2>1. CASE Quiet
    BY <2>1, QuietStage
  <2>2. ASSUME NEW p \in Int32, Enqueue(p)
        PROVE  Stage(j)' = Stage(j) \/ Lifecycle!Step(Stage(j), Stage(j)')
    BY <1>1, <2>2, EnqueueStage DEF Lifecycle!Step
  <2>3. ASSUME NEW m \in queue, CancelMission(m)
        PROVE  Stage(j)' = Stage(j) \/ Lifecycle!Step(Stage(j), Stage(j)')
    BY <1>1, <2>3, CancelStage DEF Lifecycle!Step
  <2>4. ASSUME NEW s, FleetState(s)
        PROVE  Stage(j)' = Stage(j) \/ Lifecycle!Step(Stage(j), Stage(j)')
    BY <1>1, <2>4, SnapshotStage
  <2>5. ASSUME NEW c \in calls, AcceptedResponse(c)
        PROVE  Stage(j)' = Stage(j) \/ Lifecycle!Step(Stage(j), Stage(j)')
    BY <1>1, <2>5, AcceptStage
  <2> QED
    BY <2>1, <2>2, <2>3, <2>4, <2>5, StepKinds DEF Books
<1> QED
  BY <1>2 DEF Lifecycle!Next

\* The scheduler implements the life cycle: whatever its callers, the robots
\* and the network do, each job goes from the queue to done, retry or drop,
\* or through one of the two gaps, one step at a time.
THEOREM SchedulerImplementsLifecycle == Spec => ImplementsLifecycle
<1>1. Books /\ Books' /\ [Next]_vars => Lifecycle!Next
  BY LifecycleStep
<1> QED
  BY BooksHold, LifecycleInit, <1>1, PTL DEF Spec, ImplementsLifecycle, Lifecycle!Spec

=============================================================================
