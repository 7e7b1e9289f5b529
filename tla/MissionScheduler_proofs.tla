----------------------- MODULE MissionScheduler_proofs -----------------------
(***************************************************************************)
(* Proofs about MissionScheduler, for every number of robots, every fleet  *)
(* snapshot, every timeout and every attempt limit.                        *)
(***************************************************************************)
EXTENDS MissionScheduler, FiniteSetTheorems, WellFoundedInduction, TLAPS

(***************************************************************************)
(* mission_queue_.front() is one of the queued missions.                   *)
(***************************************************************************)

\* A set of numbers has a least one.
LEMMA LeastOfSet ==
  ASSUME NEW T \in SUBSET Nat, T # {}
  PROVE  \E x \in T : \A y \in T : x <= y
<1>. DEFINE Upto(x) == 0 .. x
            Chain == {Upto(x) : x \in T}
<1>1. Chain \subseteq FiniteSubsetsOf(Nat) /\ Chain # {}
  <2>1. ASSUME NEW x \in T PROVE Upto(x) \in FiniteSubsetsOf(Nat)
    <3>1. IsFiniteSet(Upto(x))
      BY FS_Interval
    <3>2. Upto(x) \subseteq Nat
      OBVIOUS
    <3>. QED BY <3>1, <3>2 DEF FiniteSubsetsOf
  <2>. HIDE DEF Upto
  <2>. QED BY <2>1
<1>2. PICK U \in Chain : \A V \in Chain : <<V, U>> \notin StrictSubsetOrdering(Nat)
  BY <1>1, FS_StrictSubsetOrderingWellFounded, WFMin
<1>3. PICK x \in T : U = Upto(x)
  OBVIOUS
<1>4. ASSUME NEW y \in T, ~(x <= y) PROVE FALSE
  <2>1. Upto(y) \subseteq U /\ x \in U /\ x \notin Upto(y)
    BY <1>3, <1>4
  <2>2. Upto(y) \in Chain /\ Upto(y) \subseteq Nat /\ U \subseteq Nat /\ Upto(y) # U
    BY <1>3, <2>1
  <2>3. <<Upto(y), U>> \in StrictSubsetOrdering(Nat)
    <3>. HIDE DEF Upto, Chain
    <3>. QED BY <2>1, <2>2 DEF StrictSubsetOrdering
  <2>. HIDE DEF Upto, Chain
  <2>. QED BY <1>2, <2>2, <2>3
<1>. QED BY <1>4

\* In a queue whose missions have ids of their own there is one that
\* precedes all others, so Front is that one.
LEMMA FrontIsQueued ==
  ASSUME queue \subseteq Mission, queue # {},
         \A m, n \in queue : m.id = n.id => m = n
  PROVE  Front(queue) \in queue
<1>. DEFINE Rank(m) == MaxInt32 - m.priority
            Ranks == {Rank(m) : m \in queue}
<1>1. \A m \in queue : m.priority \in Int /\ m.id \in Nat /\ Rank(m) \in Nat
  BY SchedulerAssumption DEF Mission, Int32, SchedulerAssumption
<1>2. PICK p \in Ranks : \A y \in Ranks : p <= y
  <2>1. Ranks \in SUBSET Nat /\ Ranks # {}
    BY <1>1
  <2>. HIDE DEF Ranks
  <2>. QED BY <2>1, LeastOfSet
<1>. DEFINE Ids == {m.id : m \in {n \in queue : Rank(n) = p}}
<1>3. PICK i \in Ids : \A y \in Ids : i <= y
  <2>1. Ids \in SUBSET Nat /\ Ids # {}
    BY <1>1
  <2>. HIDE DEF Ids
  <2>. QED BY <2>1, LeastOfSet
<1>4. PICK m \in queue : Rank(m) = p /\ m.id = i
  OBVIOUS
<1>5. ASSUME NEW n \in queue \ {m} PROVE Precedes(m, n)
  <2>1. p <= Rank(n) /\ m.id # n.id
    BY <1>2, <1>4, <1>5
  <2>2. /\ m.priority \in Int /\ n.priority \in Int
        /\ m.id \in Nat /\ n.id \in Nat
    BY <1>1
  <2>3. Rank(n) = p => i <= n.id
    BY <1>3
  <2>4. /\ MaxInt32 - m.priority <= MaxInt32 - n.priority
        /\ MaxInt32 - n.priority = MaxInt32 - m.priority => m.id <= n.id
    BY <1>4, <2>1, <2>3
  <2>5. MaxInt32 \in Nat
    BY SchedulerAssumption DEF SchedulerAssumption
  <2>. QED BY <2>1, <2>2, <2>4, <2>5 DEF Precedes
<1>. QED BY <1>5 DEF Front

-----------------------------------------------------------------------------
(***************************************************************************)
(* Type correctness.                                                       *)
(***************************************************************************)

\* What Dispatch sends is a mission.
LEMMA FrontType ==
  ASSUME queue \subseteq Mission, queue # {},
         \A m, n \in queue : m.id = n.id => m = n
  PROVE  Front(queue) \in Mission
BY FrontIsQueued

\* The missions a snapshot fails are finitely many.
LEMMA RetriedFinite ==
  ASSUME TypeOK, NEW s
  PROVE  /\ IsFiniteSet(Retried(s)) /\ Cardinality(Retried(s)) \in Nat
         /\ Retried(s) \subseteq Failed(s) /\ Failed(s) \subseteq DOMAIN active
         /\ DOMAIN active \subseteq Robot
<1>1. /\ Retried(s) \subseteq Failed(s) /\ Failed(s) \subseteq DOMAIN active
      /\ DOMAIN active \subseteq Robot
  BY DEF Retried, Failed, TypeOK
<1>2. IsFiniteSet(Robot)
  BY SchedulerAssumption DEF SchedulerAssumption
<1>. QED BY <1>1, <1>2, FS_Subset, FS_CardinalityType

\* A failed mission is queued again as a mission.
LEMMA RetryType ==
  ASSUME NEW m \in Mission, NEW id \in Nat
  PROVE  /\ Retry(m, id) \in Mission
         /\ Retry(m, id).id = id /\ Retry(m, id).job = m.job
         /\ Retry(m, id).attempts = m.attempts + 1
         /\ Retry(m, id).priority = m.priority
BY DEF Retry, Mission

\* No step breaks the types; ids name the queued missions, so the front of
\* the queue is one of them.
LEMMA TypeStep ==
  ASSUME TypeOK, IdsFresh, [Next]_vars
  PROVE  TypeOK'
<1>. USE SchedulerAssumption DEF SchedulerAssumption
<1>0. CASE UNCHANGED vars
  BY <1>0 DEF TypeOK, vars, queueVars, dispatchVars
<1>1. ASSUME NEW ready \in BOOLEAN, SystemReady(ready) PROVE TypeOK'
  BY <1>1 DEF TypeOK, SystemReady, queueVars, dispatchVars
<1>2. ASSUME NEW p \in Int32, Enqueue(p) PROVE TypeOK'
  <2>1. /\ submitted' \in 0 .. MaxJobs /\ missionCounter' \in Nat
    BY <1>2 DEF TypeOK, Enqueue
  <2>2. queue' \subseteq Mission
    BY <1>2, <2>1 DEF TypeOK, Enqueue, Mission
  <2>. QED BY <1>2, <2>1, <2>2 DEF TypeOK, Enqueue, dispatchVars
<1>3. ASSUME NEW m \in queue, CancelMission(m) PROVE TypeOK'
  <2>1. closed' \subseteq [job : Nat, how : Outcome]
    BY <1>3 DEF TypeOK, CancelMission, Mission, Outcome
  <2>. QED BY <1>3, <2>1 DEF TypeOK, CancelMission, dispatchVars
<1>4. ASSUME NEW s \in [Robot -> Statuses], FleetState(s) PROVE TypeOK'
  <2>1. fleet' \in [Robot -> RobotStatus]
    BY <1>4 DEF FleetState
  <2>2. missionCounter' \in Nat
    BY <1>4, RetriedFinite DEF FleetState, TypeOK
  <2>3. queue' \subseteq Mission
    <3>1. PICK place \in Bijection(Retried(s), 1 .. Cardinality(Retried(s))) :
            queue' = queue \cup {Retry(active[r].mission, missionCounter + place[r]) :
                                   r \in Retried(s)}
      BY <1>4 DEF FleetState
    <3>2. ASSUME NEW r \in Retried(s)
          PROVE  Retry(active[r].mission, missionCounter + place[r]) \in Mission
      <4>1. place[r] \in Nat
        BY RetriedFinite, <3>1 DEF Bijection, Injection
      <4>2. active[r].mission \in Mission
        BY RetriedFinite DEF TypeOK, ActiveMission
      <4>3. missionCounter + place[r] \in Nat
        BY <4>1 DEF TypeOK
      <4>. QED BY <4>2, <4>3, RetryType
    <3>. QED BY <3>1, <3>2 DEF TypeOK
  <2>4. /\ DOMAIN active' \subseteq Robot
        /\ \A r \in DOMAIN active' : active'[r] \in ActiveMission
    BY <1>4 DEF FleetState, TypeOK, ActiveMission
  <2>5. /\ DOMAIN reservations' \subseteq Robot
        /\ \A r \in DOMAIN reservations' :
              reservations'[r] \in 0 .. ReservationTimeout + 1
    BY <1>4 DEF FleetState, TypeOK, Erase, Restrict
  <2>6. closed' \subseteq [job : Nat, how : Outcome]
    <3>1. \A r \in DOMAIN active : active[r].mission.job \in Nat
      BY DEF TypeOK, ActiveMission, Mission
    <3>2. Completed(s) \subseteq DOMAIN active /\ Failed(s) \subseteq DOMAIN active
      BY DEF Completed, Failed
    <3>. QED BY <1>4, <3>1, <3>2 DEF FleetState, TypeOK, Outcome
  <2>. QED
    BY <1>4, <2>1, <2>2, <2>3, <2>4, <2>5, <2>6
    DEF FleetState, TypeOK, dispatchVars
<1>5. ASSUME ReclaimSlot PROVE TypeOK'
  <2>1. /\ DOMAIN reservations' \subseteq Robot
        /\ \A r \in DOMAIN reservations' :
              reservations'[r] \in 0 .. ReservationTimeout + 1
    BY <1>5 DEF ReclaimSlot, ReservationsNow, TypeOK, Erase, Restrict
  <2>2. generation' \in Nat /\ dispatchAge' \in 0 .. DispatchTimeout
    BY <1>5 DEF ReclaimSlot, GenerationNow, TypeOK
  <2>. QED BY <1>5, <2>1, <2>2 DEF TypeOK, ReclaimSlot, queueVars
<1>6. ASSUME NEW r \in Robot, Dispatch(r) PROVE TypeOK'
  <2>1. /\ DOMAIN ReservationsNow \subseteq Robot
        /\ \A x \in DOMAIN ReservationsNow :
              ReservationsNow[x] \in 0 .. ReservationTimeout + 1
    BY DEF ReservationsNow, TypeOK, Erase, Restrict
  <2>2. /\ DOMAIN reservations' \subseteq Robot
        /\ \A x \in DOMAIN reservations' :
              reservations'[x] \in 0 .. ReservationTimeout + 1
    BY <1>6, <2>1 DEF Dispatch, Assign
  <2>3. generation' \in Nat
    BY <1>6 DEF Dispatch, GenerationNow, TypeOK
  <2>4. Front(queue) \in Mission
    BY <1>6, FrontType DEF Dispatch, TypeOK, IdsFresh
  <2>5. calls' \subseteq Call
    BY <1>6, <2>3, <2>4 DEF Dispatch, TypeOK, Call
  <2>. QED BY <1>6, <2>2, <2>3, <2>5 DEF TypeOK, Dispatch, queueVars
<1>7. ASSUME NEW c \in calls, StaleResponse(c) PROVE TypeOK'
  BY <1>7 DEF TypeOK, StaleResponse, queueVars
<1>8. ASSUME NEW c \in calls, AcceptedResponse(c) PROVE TypeOK'
  <2>1. c.robot \in Robot /\ c.mission \in Mission
    BY DEF TypeOK, Call
  <2>2. [mission |-> c.mission, confirmed |-> FALSE, age |-> 0] \in ActiveMission
    BY <2>1 DEF ActiveMission
  <2>3. /\ DOMAIN active' \subseteq Robot
        /\ \A r \in DOMAIN active' : active'[r] \in ActiveMission
    BY <1>8, <2>1, <2>2 DEF AcceptedResponse, TypeOK, Assign
  <2>4. queue' \subseteq Mission /\ calls' \subseteq Call
    BY <1>8 DEF AcceptedResponse, TypeOK
  <2>5. inProgress' \in BOOLEAN
    BY <1>8 DEF AcceptedResponse
  <2>6. dispatchAge' \in 0 .. DispatchTimeout
    BY <1>8 DEF AcceptedResponse
  <2>. QED BY <1>8, <2>3, <2>4, <2>5, <2>6 DEF TypeOK, AcceptedResponse
<1>9. ASSUME NEW c \in calls, RejectedResponse(c) PROVE TypeOK'
  <2>1. /\ DOMAIN reservations' \subseteq Robot
        /\ \A r \in DOMAIN reservations' :
              reservations'[r] \in 0 .. ReservationTimeout + 1
    BY <1>9 DEF RejectedResponse, TypeOK, Erase, Restrict
  <2>2. inProgress' \in BOOLEAN
    BY <1>9 DEF RejectedResponse
  <2>3. dispatchAge' \in 0 .. DispatchTimeout
    BY <1>9 DEF RejectedResponse
  <2>. QED BY <1>9, <2>1, <2>2, <2>3 DEF TypeOK, RejectedResponse, queueVars
<1>10. ASSUME Tick PROVE TypeOK'
  <2>1. /\ DOMAIN active' \subseteq Robot
        /\ \A r \in DOMAIN active' : active'[r] \in ActiveMission
    BY <1>10 DEF Tick, TypeOK, ActiveMission, Older
  <2>2. /\ DOMAIN reservations' \subseteq Robot
        /\ \A r \in DOMAIN reservations' :
              reservations'[r] \in 0 .. ReservationTimeout + 1
    BY <1>10 DEF Tick, TypeOK, Older
  <2>3. dispatchAge' \in 0 .. DispatchTimeout
    BY <1>10 DEF Tick, TypeOK, Older
  <2>. QED BY <1>10, <2>1, <2>2, <2>3 DEF TypeOK, Tick, queueVars
<1>11. 0 \in Int32
  BY DEF Int32
<1>. QED
  BY <1>0, <1>1, <1>2, <1>3, <1>4, <1>5, <1>6, <1>7, <1>8, <1>9, <1>10, <1>11
  DEF Next, QueueMission, DispatchPatrol, EnqueueRecurringPatrol

-----------------------------------------------------------------------------
(***************************************************************************)
(* The dispatch slot.                                                      *)
(***************************************************************************)

\* No step breaks DispatchSlot: only Dispatch and the three responses touch
\* the calls, and a generation is used for one call only.
LEMMA SlotStep ==
  ASSUME TypeOK, DispatchSlot, [Next]_vars
  PROVE  DispatchSlot'
<1>. USE DEF CurrentCalls
<1>1. ASSUME UNCHANGED dispatchVars PROVE DispatchSlot'
  BY <1>1 DEF DispatchSlot, dispatchVars
<1>2. ASSUME ReclaimSlot PROVE DispatchSlot'
  <2>1. generation' = generation + 1 /\ calls' = calls /\ ~inProgress'
    BY <1>2 DEF ReclaimSlot, GenerationNow
  <2>2. \A c \in calls : c.generation \in Nat
    BY DEF TypeOK, Call
  <2>. QED BY <2>1, <2>2 DEF DispatchSlot, TypeOK
<1>3. ASSUME NEW r \in Robot, Dispatch(r) PROVE DispatchSlot'
  <2>. DEFINE new == [generation |-> generation', robot |-> r,
                      mission |-> Front(queue)]
  <2>1. generation' > generation /\ generation' \in Nat
    BY <1>3 DEF Dispatch, GenerationNow, TypeOK
  <2>2. calls' = calls \cup {new} /\ inProgress' = TRUE /\ dispatchRobot' = r
    BY <1>3 DEF Dispatch
  <2>3. \A c \in calls : c.generation \in Nat /\ c.generation < generation'
    BY <2>1 DEF TypeOK, Call, DispatchSlot
  <2>4. {c \in calls' : c.generation = generation'} = {new}
    BY <2>2, <2>3
  <2>5. \A c \in calls' : c.generation <= generation'
    BY <2>1, <2>2, <2>3
  <2>6. \A c, d \in calls' : c.generation = d.generation => c = d
    BY <2>1, <2>2, <2>3 DEF DispatchSlot
  <2>7. CurrentCalls' = {new}
    BY <2>4
  <2>. HIDE DEF CurrentCalls
  <2>8. inProgress' <=> CurrentCalls' # {}
    BY <2>2, <2>7
  <2>9. \A c \in CurrentCalls' : c.robot = dispatchRobot'
    BY <2>2, <2>7
  <2>. QED BY <2>5, <2>6, <2>8, <2>9 DEF DispatchSlot
<1>4. ASSUME NEW c \in calls, StaleResponse(c) PROVE DispatchSlot'
  BY <1>4 DEF StaleResponse, DispatchSlot
<1>5. ASSUME NEW c \in calls, AcceptedResponse(c) PROVE DispatchSlot'
  BY <1>5 DEF AcceptedResponse, DispatchSlot
<1>6. ASSUME NEW c \in calls, RejectedResponse(c) PROVE DispatchSlot'
  BY <1>6 DEF RejectedResponse, DispatchSlot
<1>7. ASSUME Tick PROVE DispatchSlot'
  BY <1>7 DEF Tick, DispatchSlot
<1>. QED
  BY <1>1, <1>2, <1>3, <1>4, <1>5, <1>6, <1>7
  DEF Next, vars, QueueMission, DispatchPatrol, EnqueueRecurringPatrol,
      SystemReady, Enqueue, CancelMission, FleetState

-----------------------------------------------------------------------------
(***************************************************************************)
(* Where each job is.                                                      *)
(***************************************************************************)

\* What the type invariant says of the missions the node holds.
LEMMA MissionTypes ==
  ASSUME TypeOK
  PROVE  /\ \A m \in queue : m \in Mission
         /\ \A r \in DOMAIN active : r \in Robot /\ active[r].mission \in Mission
         /\ \A c \in calls : c.mission \in Mission
         /\ \A m \in Mission : m.id \in Nat /\ m.job \in Nat /\ m.attempts \in Nat
                              /\ m.priority \in Int
BY DEF TypeOK, ActiveMission, Call, Mission, Int32

\* What a snapshot does to the missions: those of Completed and Failed robots
\* leave, the others stay as they are, and the retries of the failed ones are
\* queued under ids of their own that no mission had.
Renumbering(s, id) ==
  /\ id \in [Retried(s) -> Nat]
  /\ \A r, t \in Retried(s) : id[r] = id[t] => r = t
  /\ \A r \in Retried(s) : id[r] > missionCounter /\ id[r] <= missionCounter'
  /\ queue' = queue \cup {Retry(active[r].mission, id[r]) : r \in Retried(s)}

\* The numbering a snapshot chooses is a Renumbering, and robots it leaves
\* alone keep their missions.
LEMMA SnapshotEffect ==
  ASSUME TypeOK, NEW s, FleetState(s)
  PROVE  /\ DOMAIN active' = DOMAIN active \ (Failed(s) \cup Completed(s))
         /\ \A r \in DOMAIN active' : active'[r].mission = active[r].mission
         /\ missionCounter' \in Nat /\ missionCounter' >= missionCounter
         /\ \E id : Renumbering(s, id)
<1>. DEFINE k == Cardinality(Retried(s))
<1>1. k \in Nat /\ missionCounter \in Nat
  BY RetriedFinite DEF TypeOK
<1>2. PICK place \in Bijection(Retried(s), 1 .. k) :
        queue' = queue \cup {Retry(active[r].mission, missionCounter + place[r]) :
                               r \in Retried(s)}
  BY DEF FleetState
<1>3. missionCounter' = missionCounter + k
  BY DEF FleetState
<1>4. /\ DOMAIN active' = DOMAIN active \ (Failed(s) \cup Completed(s))
      /\ \A r \in DOMAIN active' : active'[r].mission = active[r].mission
  BY DEF FleetState, TypeOK, ActiveMission
<1>5. /\ \A r \in Retried(s) : place[r] \in 1 .. k
      /\ \A r, t \in Retried(s) : place[r] = place[t] => r = t
  BY <1>2 DEF Bijection, Injection, IsInjective
<1>. HIDE DEF k
<1>. DEFINE id == [r \in Retried(s) |-> missionCounter + place[r]]
<1>6. Renumbering(s, id)
  BY <1>1, <1>2, <1>3, <1>5 DEF Renumbering
<1>. QED BY <1>1, <1>3, <1>4, <1>6

\* Where jobs are, robot by robot and mission by mission.
LEMMA JobsPointwise ==
  /\ \A j : j \in JobsOf(queue) <=> \E m \in queue : m.job = j
  /\ \A j : j \in JobsOf(Running) <=>
           \E r \in DOMAIN active : active[r].mission.job = j
  /\ \A j : j \in JobsOf(Tracked) <=> j \in JobsOf(queue) \/ j \in JobsOf(Running)
BY DEF JobsOf, Running, Tracked

\* A step that leaves the missions and the ends alone, starts no call and
\* makes no old call current again keeps the books.
LEMMA JobsFrame ==
  ASSUME JobsAccounted,
         queue' = queue, missionCounter' = missionCounter,
         submitted' = submitted, closed' = closed, DOMAIN active' = DOMAIN active,
         \A r \in DOMAIN active : active'[r].mission = active[r].mission,
         calls' \subseteq calls, CurrentCalls' \subseteq CurrentCalls
  PROVE  (IdsFresh /\ InFlight /\ OneIncarnation /\ EndedIsFinal)'
<1>1. Running' = Running /\ Tracked' = Tracked
  BY DEF Running, Tracked
<1>2. JobsOf(queue)' = JobsOf(queue) /\ JobsOf(Running)' = JobsOf(Running)
      /\ JobsOf(Tracked)' = JobsOf(Tracked)
  BY <1>1 DEF JobsOf
<1>3. IdsFresh'
  BY <1>1 DEF JobsAccounted, IdsFresh
<1>4. InFlight'
  BY <1>2 DEF JobsAccounted, InFlight
<1>5. OneIncarnation'
  BY <1>2 DEF JobsAccounted, OneIncarnation
<1>6. EndedIsFinal'
  BY <1>2 DEF JobsAccounted, EndedIsFinal
<1>. QED BY <1>3, <1>4, <1>5, <1>6

\* A new job is nowhere yet.
LEMMA JobsEnqueue ==
  ASSUME TypeOK, JobsAccounted, NEW p \in Int32, Enqueue(p)
  PROVE  (IdsFresh /\ InFlight /\ OneIncarnation /\ EndedIsFinal)'
<1>. DEFINE new == [id |-> missionCounter', job |-> submitted', priority |-> p,
                    attempts |-> 0]
<1>1. /\ queue' = queue \cup {new} /\ active' = active /\ closed' = closed
      /\ calls' = calls /\ CurrentCalls' = CurrentCalls
      /\ missionCounter' = missionCounter + 1 /\ submitted' = submitted + 1
  BY DEF Enqueue, dispatchVars, CurrentCalls
<1>2. Running' = Running /\ Tracked' = Tracked \cup {new}
  BY <1>1 DEF Running, Tracked
<1>3. missionCounter \in Nat /\ submitted \in Nat
  BY DEF TypeOK
<1>4. /\ \A m \in Tracked \cup {c.mission : c \in calls} :
            m.id \in Nat /\ m.job \in Nat /\ m.id < new.id /\ m.job < new.job
      /\ \A e \in closed : e.job \in Nat /\ e.job < new.job
  BY <1>1, <1>3, MissionTypes DEF JobsAccounted, IdsFresh, Tracked, Running, TypeOK
<1>5. IdsFresh'
  <2>1. \A m \in (Tracked \cup {c.mission : c \in calls})' :
           m.id <= missionCounter' /\ m.job <= submitted'
    BY <1>1, <1>2, <1>3, <1>4
  <2>2. \A e \in closed' : e.job <= submitted'
    BY <1>1, <1>3, <1>4
  <2>3. \A m, n \in queue' : m.id = n.id => m = n
    BY <1>1, <1>4 DEF JobsAccounted, IdsFresh, Tracked
  <2>. QED BY <2>1, <2>2, <2>3 DEF IdsFresh
<1>6. InFlight'
  <2>1. ASSUME NEW c \in CurrentCalls
        PROVE  c.mission.job < new.job /\ c.mission.id < new.id
               /\ c.mission.id \in Nat /\ c.mission.job \in Nat
    BY <1>4 DEF CurrentCalls
  <2>. HIDE DEF new
  <2>2. \A c \in CurrentCalls' : \A m \in queue' :
           m.job = c.mission.job <=> m.id = c.mission.id
    BY <1>1, <1>4, <2>1 DEF JobsAccounted, InFlight
  <2>. QED BY <1>1, <1>2, <2>2 DEF JobsAccounted, InFlight, JobsOf
<1>7. OneIncarnation'
  <2>1. new.job \notin JobsOf(Running) /\ \A m \in queue : m.job # new.job
    BY <1>4 DEF JobsOf, Tracked
  <2>2. JobsOf(queue)' = JobsOf(queue) \cup {new.job}
    BY <1>1 DEF JobsOf
  <2>. HIDE DEF new
  <2>. QED BY <1>1, <1>2, <2>1, <2>2 DEF JobsAccounted, OneIncarnation, JobsOf
<1>8. EndedIsFinal'
  <2>1. JobsOf(Tracked)' = JobsOf(Tracked) \cup {new.job}
    BY <1>2 DEF JobsOf
  <2>2. \A e \in closed : e.job # new.job
    BY <1>4
  <2>. HIDE DEF new
  <2>. QED BY <1>1, <2>1, <2>2 DEF JobsAccounted, EndedIsFinal
<1>. QED BY <1>5, <1>6, <1>7, <1>8

\* Cancellation only takes a mission away.
LEMMA JobsCancel ==
  ASSUME TypeOK, JobsAccounted, NEW m \in queue, CancelMission(m)
  PROVE  (IdsFresh /\ InFlight /\ OneIncarnation /\ EndedIsFinal)'
<1>. DEFINE end == [job |-> m.job, how |-> "canceled"]
<1>1. /\ queue' = queue \ {m} /\ active' = active /\ calls' = calls
      /\ closed' = closed \cup {end} /\ CurrentCalls' = CurrentCalls
      /\ missionCounter' = missionCounter /\ submitted' = submitted
  BY DEF CancelMission, dispatchVars, CurrentCalls
<1>2. Running' = Running /\ Tracked' \subseteq Tracked
  BY <1>1 DEF Running, Tracked
<1>3. end.job = m.job /\ end.how = "canceled"
  OBVIOUS
<1>. HIDE DEF end
<1>4. m \in Tracked
  BY DEF Tracked
<1>5. IdsFresh'
  BY <1>1, <1>2, <1>3, <1>4 DEF JobsAccounted, IdsFresh
<1>6. InFlight'
  BY <1>1, <1>2, <1>3 DEF JobsAccounted, InFlight, JobsOf
<1>7. OneIncarnation'
  BY <1>1, <1>2 DEF JobsAccounted, OneIncarnation, JobsOf
<1>8. EndedIsFinal'
  BY <1>1, <1>2, <1>3 DEF JobsAccounted, EndedIsFinal, JobsOf
<1>. QED BY <1>5, <1>6, <1>7, <1>8

\* A dispatch sends a mission that is queued, hence on no robot and not over.
LEMMA JobsDispatch ==
  ASSUME TypeOK, JobsAccounted, NEW r \in Robot, Dispatch(r)
  PROVE  (IdsFresh /\ InFlight /\ OneIncarnation /\ EndedIsFinal)'
<1>. DEFINE m == Front(queue)
            new == [generation |-> generation', robot |-> r, mission |-> m]
<1>1. m \in queue
  BY FrontIsQueued DEF Dispatch, JobsAccounted, IdsFresh, TypeOK
<1>2. /\ queue' = queue /\ active' = active /\ closed' = closed
      /\ missionCounter' = missionCounter /\ submitted' = submitted
      /\ calls' = calls \cup {new} /\ new.mission = m
      /\ generation' > generation /\ generation' \in Nat
  BY DEF Dispatch, queueVars, GenerationNow, TypeOK
<1>3. \A c \in calls : c.generation # generation'
  BY <1>2 DEF JobsAccounted, DispatchSlot, TypeOK, Call
<1>4. \A c \in CurrentCalls' : c.mission = m
  BY <1>2, <1>3 DEF CurrentCalls
<1>. HIDE DEF m, new
<1>5. Running' = Running /\ Tracked' = Tracked /\ m \in Tracked
  BY <1>1, <1>2 DEF Running, Tracked
<1>6. IdsFresh'
  BY <1>2, <1>5 DEF JobsAccounted, IdsFresh
<1>7. InFlight'
  <2>1. m.job \notin JobsOf(Running)
    BY <1>1 DEF JobsAccounted, OneIncarnation, JobsOf
  <2>2. \A n \in queue : n.job = m.job <=> n.id = m.id
    BY <1>1 DEF JobsAccounted, OneIncarnation, IdsFresh
  <2>3. \A e \in closed : e.job = m.job => e.how = "canceled"
    BY <1>5 DEF JobsAccounted, EndedIsFinal, JobsOf
  <2>. QED BY <1>2, <1>4, <1>5, <2>1, <2>2, <2>3 DEF InFlight, JobsOf
<1>8. OneIncarnation' /\ EndedIsFinal'
  BY <1>2, <1>5 DEF JobsAccounted, OneIncarnation, EndedIsFinal, JobsOf
<1>. QED BY <1>6, <1>7, <1>8

\* An accepted dispatch moves its mission from the queue, if it is still
\* there, to the robot; what the robot had is gone.
LEMMA JobsAccepted ==
  ASSUME TypeOK, JobsAccounted, NEW c \in calls, AcceptedResponse(c)
  PROVE  (IdsFresh /\ InFlight /\ OneIncarnation /\ EndedIsFinal)'
<1>. DEFINE m == c.mission
<1>1. /\ queue' = {n \in queue : n.id # m.id} /\ closed' = closed
      /\ missionCounter' = missionCounter /\ submitted' = submitted
      /\ calls' = calls \ {c} /\ generation' = generation
      /\ c.generation = generation
  BY DEF AcceptedResponse
<1>2. /\ DOMAIN active' = DOMAIN active \cup {c.robot}
      /\ active'[c.robot].mission = m
      /\ \A r \in DOMAIN active \ {c.robot} : active'[r] = active[r]
  BY DEF AcceptedResponse, Assign
<1>3. CurrentCalls' = {}
  BY <1>1 DEF CurrentCalls, JobsAccounted, DispatchSlot
<1>4. /\ m.job \notin JobsOf(Running)
      /\ \A n \in queue : n.job = m.job <=> n.id = m.id
      /\ \A e \in closed : e.job = m.job => e.how = "canceled"
  BY <1>1 DEF JobsAccounted, InFlight, CurrentCalls
<1>5. m.id <= missionCounter /\ m.job <= submitted
  BY DEF JobsAccounted, IdsFresh
<1>6. m \in {d.mission : d \in calls}
  OBVIOUS
<1>. HIDE DEF m
<1>7. Running' \subseteq Running \cup {m} /\ Tracked' \subseteq Tracked \cup {m}
  BY <1>1, <1>2 DEF Running, Tracked
<1>8. \A r \in DOMAIN active : active[r].mission.job # m.job
  BY <1>4 DEF JobsOf, Running
<1>9. IdsFresh'
  BY <1>1, <1>5, <1>7 DEF JobsAccounted, IdsFresh
<1>10. InFlight'
  BY <1>3 DEF InFlight
<1>11. OneIncarnation'
  <2>1. \A n, o \in queue' : n.job = o.job => n = o
    BY <1>1 DEF JobsAccounted, OneIncarnation
  <2>2. ASSUME NEW r \in DOMAIN active', NEW t \in DOMAIN active',
               active'[r].mission.job = active'[t].mission.job
        PROVE  r = t
    BY <1>2, <1>8, <2>2 DEF JobsAccounted, OneIncarnation
  <2>3. JobsOf(queue') \cap JobsOf(Running') = {}
    BY <1>1, <1>4, <1>7 DEF JobsAccounted, OneIncarnation, JobsOf
  <2>. QED BY <2>1, <2>2, <2>3 DEF OneIncarnation, JobsOf
<1>12. EndedIsFinal'
  BY <1>1, <1>4, <1>7 DEF JobsAccounted, EndedIsFinal, JobsOf
<1>. QED BY <1>9, <1>10, <1>11, <1>12

\* A snapshot ends or re-queues the missions of robots, each of its own job.
LEMMA JobsSnapshot ==
  ASSUME TypeOK, JobsAccounted, NEW s, FleetState(s)
  PROVE  (IdsFresh /\ InFlight /\ OneIncarnation /\ EndedIsFinal)'
<1>. DEFINE over == {[job |-> active[r].mission.job, how |-> "completed"] :
                       r \in Completed(s)} \cup
                    {[job |-> active[r].mission.job, how |-> "dropped"] :
                       r \in Failed(s) \ Retried(s)}
<1>1. /\ closed' = closed \cup over /\ submitted' = submitted
      /\ calls' = calls /\ CurrentCalls' = CurrentCalls
  BY DEF FleetState, dispatchVars, CurrentCalls
<1>2. IdsFresh /\ InFlight /\ OneIncarnation /\ EndedIsFinal
  BY DEF JobsAccounted
<1>3. /\ DOMAIN active' \subseteq DOMAIN active
      /\ DOMAIN active' \cap (Failed(s) \cup Completed(s)) = {}
      /\ \A r \in DOMAIN active' : active'[r].mission = active[r].mission
      /\ missionCounter' \in Nat /\ missionCounter' >= missionCounter
  BY SnapshotEffect
<1>0. PICK id : Renumbering(s, id)
  BY SnapshotEffect
<1>4. /\ Retried(s) \subseteq Failed(s) /\ Failed(s) \subseteq DOMAIN active
      /\ Completed(s) \subseteq DOMAIN active
      /\ Failed(s) \cap Completed(s) = {}
  BY DEF Retried, Failed, Completed
<1>5. \A e \in over : \E r \in (Failed(s) \cup Completed(s)) \ Retried(s) :
         e.job = active[r].mission.job
  BY <1>4
<1>6. \A e, f \in over : e.job = f.job => e = f
  <2>1. \A r, t \in DOMAIN active :
           active[r].mission.job = active[t].mission.job => r = t
    BY <1>2 DEF OneIncarnation
  <2>. QED BY <1>4, <2>1
<1>. HIDE DEF over
<1>7. \A r \in Retried(s) : /\ r \in DOMAIN active
                             /\ Retry(active[r].mission, id[r]).job = active[r].mission.job
                             /\ Retry(active[r].mission, id[r]).id = id[r]
                             /\ id[r] \in Nat
                             /\ id[r] > missionCounter /\ id[r] <= missionCounter'
  BY <1>0, <1>4, MissionTypes, RetryType DEF Renumbering
<1>8. \A n \in queue' : \/ n \in queue
                        \/ \E r \in Retried(s) : n = Retry(active[r].mission, id[r])
  BY <1>0 DEF Renumbering
<1>9. /\ \A m \in Tracked \cup {c.mission : c \in calls} :
            m.id \in Nat /\ m.id <= missionCounter /\ m.job <= submitted
      /\ missionCounter \in Nat
  BY <1>2, MissionTypes DEF IdsFresh, Tracked, Running, TypeOK
<1>10. \A r, t \in DOMAIN active :
          active[r].mission.job = active[t].mission.job => r = t
  BY <1>2 DEF OneIncarnation
<1>11. \A m \in queue, r \in DOMAIN active : m.job # active[r].mission.job
  BY <1>2 DEF OneIncarnation, JobsOf, Running
<1>12. Running' \subseteq Running
  BY <1>3 DEF Running
<1>13. IdsFresh'
  <2>1. \A m \in Running' : m.id <= missionCounter' /\ m.job <= submitted'
    BY <1>1, <1>3, <1>9, <1>12 DEF Tracked
  <2>2. \A m \in queue' : m.id <= missionCounter' /\ m.job <= submitted'
    BY <1>1, <1>3, <1>7, <1>8, <1>9 DEF Tracked, Running
  <2>3. \A c \in calls' :
           c.mission.id <= missionCounter' /\ c.mission.job <= submitted'
    BY <1>1, <1>3, <1>9
  <2>4. \A e \in closed' : e.job <= submitted'
    BY <1>1, <1>4, <1>5, <1>9, <1>2 DEF IdsFresh, Tracked, Running
  <2>5. ASSUME NEW m \in queue', NEW n \in queue', m.id = n.id PROVE m = n
    <3>1. \A o \in queue : o.id \in Nat /\ o.id <= missionCounter
      BY <1>9 DEF Tracked
    <3>2. CASE m \in queue /\ n \in queue
      BY <1>2, <2>5, <3>2 DEF IdsFresh
    <3>3. CASE m \notin queue /\ n \notin queue
      BY <1>0, <1>7, <1>8, <2>5, <3>3 DEF Renumbering
    <3>. QED BY <1>7, <1>8, <1>9, <2>5, <3>1, <3>2, <3>3
  <2>6. \A m \in (Tracked \cup {c.mission : c \in calls})' :
           m.id <= missionCounter' /\ m.job <= submitted'
    BY <2>1, <2>2, <2>3 DEF Tracked
  <2>. QED BY <2>4, <2>5, <2>6 DEF IdsFresh
<1>14. InFlight'
  <2>. SUFFICES ASSUME NEW c \in CurrentCalls
                PROVE  /\ c.mission.job \notin JobsOf(Running')
                       /\ \A m \in queue' : m.job = c.mission.job <=> m.id = c.mission.id
                       /\ \A e \in closed' : e.job = c.mission.job => e.how = "canceled"
    BY <1>1 DEF InFlight, JobsOf
  <2>1. /\ \A r \in DOMAIN active : c.mission.job # active[r].mission.job
        /\ \A m \in queue : m.job = c.mission.job <=> m.id = c.mission.id
        /\ \A e \in closed : e.job = c.mission.job => e.how = "canceled"
    BY <1>2 DEF InFlight, JobsOf, Running
  <2>2. c.mission.id \in Nat /\ c.mission.id <= missionCounter
    BY <1>9 DEF CurrentCalls
  <2>3. c.mission.job \notin JobsOf(Running')
    BY <1>12, <2>1 DEF JobsOf, Running
  <2>4. ASSUME NEW r \in Retried(s), NEW m, m = Retry(active[r].mission, id[r])
        PROVE  m.job # c.mission.job /\ m.id # c.mission.id
    BY <1>7, <1>9, <2>1, <2>2, <2>4
  <2>5. \A m \in queue' : m.job = c.mission.job <=> m.id = c.mission.id
    BY <1>8, <2>1, <2>4
  <2>6. \A e \in closed' : e.job = c.mission.job => e.how = "canceled"
    BY <1>1, <1>4, <1>5, <2>1
  <2>. QED BY <2>3, <2>5, <2>6
<1>15. OneIncarnation'
  <2>1. ASSUME NEW m \in queue', NEW n \in queue', m.job = n.job PROVE m = n
    <3>1. CASE m \in queue /\ n \in queue
      BY <1>2, <2>1, <3>1 DEF OneIncarnation
    <3>2. CASE m \notin queue /\ n \notin queue
      BY <1>7, <1>8, <1>10, <2>1, <3>2
    <3>. QED BY <1>7, <1>8, <1>11, <2>1, <3>1, <3>2
  <2>2. \A r, t \in DOMAIN active' :
           active'[r].mission.job = active'[t].mission.job => r = t
    BY <1>3, <1>10
  <2>3. ASSUME NEW m \in queue', NEW r \in DOMAIN active' PROVE m.job # active'[r].mission.job
    <3>1. r \in DOMAIN active /\ r \notin Retried(s)
      BY <1>3, <1>4
    <3>. QED BY <1>3, <1>7, <1>8, <1>10, <1>11, <3>1
  <2>4. JobsOf(queue') \cap JobsOf(Running') = {}
    BY <2>3 DEF JobsOf, Running
  <2>. QED BY <2>1, <2>2, <2>4 DEF OneIncarnation, JobsOf
<1>16. EndedIsFinal'
  <2>1. ASSUME NEW r \in (Failed(s) \cup Completed(s)) \ Retried(s)
        PROVE  /\ \A m \in queue' : m.job # active[r].mission.job
               /\ \A t \in DOMAIN active' : active'[t].mission.job # active[r].mission.job
    <3>1. r \in DOMAIN active /\ r \notin DOMAIN active'
      BY <1>3, <1>4
    <3>. QED BY <1>3, <1>7, <1>8, <1>10, <1>11, <3>1
  <2>2. ASSUME NEW e \in closed, e.how # "canceled"
        PROVE  /\ \A m \in queue : m.job # e.job
               /\ \A t \in DOMAIN active : active[t].mission.job # e.job
               /\ \A f \in closed : f.job = e.job /\ f.how # "canceled" => f = e
    BY <1>2, <2>2 DEF EndedIsFinal, JobsOf, Tracked, Running
  <2>3. ASSUME NEW e \in closed', e.how # "canceled"
        PROVE  \A m \in queue' : m.job # e.job
    BY <1>1, <1>5, <1>7, <1>8, <2>1, <2>2, <2>3
  <2>4. ASSUME NEW e \in closed', e.how # "canceled"
        PROVE  \A t \in DOMAIN active' : active'[t].mission.job # e.job
    BY <1>1, <1>3, <1>5, <2>1, <2>2, <2>4
  <2>5. ASSUME NEW e \in closed', NEW f \in closed', e.how # "canceled",
               f.how # "canceled", e.job = f.job
        PROVE  f = e
    BY <1>1, <1>4, <1>5, <1>6, <2>2, <2>5
  <2>6. \A e \in closed' : e.how # "canceled" => e.job \notin JobsOf(Tracked')
    BY <2>3, <2>4 DEF JobsOf, Tracked, Running
  <2>. QED BY <2>5, <2>6 DEF EndedIsFinal, JobsOf
<1>. QED BY <1>13, <1>14, <1>15, <1>16

-----------------------------------------------------------------------------
(***************************************************************************)
(* The theorems.                                                           *)
(***************************************************************************)

\* Attempts stay below the limit: a mission is queued again only while they do.
LEMMA AttemptsStep ==
  ASSUME TypeOK, JobsAccounted, AttemptsBounded, [Next]_vars
  PROVE  AttemptsBounded'
<1>. DEFINE Fine(m) == m.attempts = 0 \/ m.attempts < MaxAttempts
<1>1. /\ \A m \in queue : Fine(m)
      /\ \A r \in DOMAIN active : Fine(active[r].mission)
      /\ \A c \in calls : Fine(c.mission)
  BY DEF AttemptsBounded, Tracked, Running
<1>. SUFFICES /\ \A m \in queue' : Fine(m)
              /\ \A r \in DOMAIN active' : Fine(active'[r].mission)
              /\ \A c \in calls' : Fine(c.mission)
  BY DEF AttemptsBounded, Tracked, Running
<1>. DEFINE Goal == /\ \A m \in queue' : Fine(m)
                    /\ \A r \in DOMAIN active' : Fine(active'[r].mission)
                    /\ \A c \in calls' : Fine(c.mission)
<1>2. ASSUME queue' \subseteq queue, DOMAIN active' = DOMAIN active,
             \A r \in DOMAIN active : active'[r].mission = active[r].mission,
             calls' \subseteq calls
      PROVE  Goal
  BY <1>1, <1>2
<1>. HIDE DEF Fine
<1>3. ASSUME NEW p \in Int32, Enqueue(p) PROVE Goal
  <2>1. Fine([id |-> missionCounter', job |-> submitted', priority |-> p,
              attempts |-> 0])
    BY DEF Fine
  <2>. QED BY <1>1, <1>3, <2>1 DEF Enqueue, dispatchVars
<1>4. ASSUME NEW s, FleetState(s) PROVE Goal
  <2>1. PICK id : Renumbering(s, id)
    BY <1>4, SnapshotEffect
  <2>2. ASSUME NEW r \in Retried(s) PROVE Fine(Retry(active[r].mission, id[r]))
    <3>1. active[r].mission \in Mission /\ id[r] \in Nat
      BY <2>1, RetriedFinite, MissionTypes DEF Renumbering
    <3>2. Retry(active[r].mission, id[r]).attempts = active[r].mission.attempts + 1
      BY <3>1, RetryType
    <3>. QED BY <3>2 DEF Retried, Fine
  <2>3. \A m \in queue' : Fine(m)
    BY <1>1, <2>1, <2>2 DEF Renumbering
  <2>4. \A r \in DOMAIN active' : Fine(active'[r].mission)
    BY <1>1, <1>4, SnapshotEffect
  <2>. QED BY <1>1, <1>4, <2>3, <2>4 DEF FleetState, dispatchVars
<1>5. ASSUME NEW r \in Robot, Dispatch(r) PROVE Goal
  <2>1. Front(queue) \in queue
    BY <1>5, FrontIsQueued DEF Dispatch, JobsAccounted, IdsFresh, TypeOK
  <2>2. /\ queue' = queue /\ active' = active
        /\ \A c \in calls' : c \in calls \/ c.mission = Front(queue)
    BY <1>5 DEF Dispatch, queueVars
  <2>. QED BY <1>1, <2>1, <2>2
<1>6. ASSUME NEW c \in calls, AcceptedResponse(c) PROVE Goal
  <2>1. /\ queue' \subseteq queue /\ calls' \subseteq calls
        /\ DOMAIN active' = DOMAIN active \cup {c.robot}
        /\ active'[c.robot].mission = c.mission
        /\ \A r \in DOMAIN active \ {c.robot} : active'[r] = active[r]
    BY <1>6 DEF AcceptedResponse, Assign
  <2>. QED BY <1>1, <2>1
<1>. HIDE DEF Goal
<1>7. ASSUME NEW m \in queue, CancelMission(m) PROVE Goal
  BY <1>2, <1>7 DEF CancelMission, dispatchVars
<1>8. ASSUME NEW c \in calls, StaleResponse(c) \/ RejectedResponse(c) PROVE Goal
  BY <1>2, <1>8 DEF StaleResponse, RejectedResponse, queueVars
<1>9. ASSUME Tick PROVE Goal
  BY <1>2, <1>9 DEF Tick, queueVars, TypeOK, ActiveMission
<1>10. ASSUME NEW ready, SystemReady(ready) PROVE Goal
  BY <1>2, <1>10 DEF SystemReady, queueVars, dispatchVars
<1>11. ASSUME ReclaimSlot PROVE Goal
  BY <1>2, <1>11 DEF ReclaimSlot, queueVars
<1>12. ASSUME UNCHANGED vars PROVE Goal
  BY <1>2, <1>12 DEF vars, queueVars, dispatchVars
<1>13. 0 \in Int32 /\ Priorities \subseteq Int32 /\ RecurringPriority \in Int32
  BY SchedulerAssumption DEF SchedulerAssumption, Int32
<1>14. Goal
  BY <1>3, <1>4, <1>5, <1>6, <1>7, <1>8, <1>9, <1>10, <1>11, <1>12, <1>13
  DEF Next, QueueMission, DispatchPatrol, EnqueueRecurringPatrol
<1>. QED BY <1>14 DEF Goal

\* The books are kept by every step.
LEMMA JobsStep ==
  ASSUME TypeOK, JobsAccounted, [Next]_vars
  PROVE  JobsAccounted'
<1>. DEFINE Goal == (IdsFresh /\ InFlight /\ OneIncarnation /\ EndedIsFinal)'
<1>1. DispatchSlot'
  BY SlotStep DEF JobsAccounted
<1>2. \A c \in calls : c.generation <= generation /\ c.generation \in Nat
  BY DEF JobsAccounted, DispatchSlot, TypeOK, Call
<1>3. ASSUME NEW ready, SystemReady(ready) PROVE Goal
  BY <1>3, JobsFrame DEF SystemReady, queueVars, dispatchVars, CurrentCalls
<1>4. ASSUME ReclaimSlot PROVE Goal
  <2>1. CurrentCalls' = {}
    BY <1>2, <1>4 DEF ReclaimSlot, GenerationNow, CurrentCalls, TypeOK
  <2>. QED BY <1>4, <2>1, JobsFrame DEF ReclaimSlot, queueVars
<1>5. ASSUME NEW c \in calls, StaleResponse(c) \/ RejectedResponse(c) PROVE Goal
  BY <1>5, JobsFrame DEF StaleResponse, RejectedResponse, queueVars, CurrentCalls
<1>6. ASSUME Tick PROVE Goal
  BY <1>6, JobsFrame DEF Tick, queueVars, CurrentCalls, TypeOK, ActiveMission
<1>7. ASSUME UNCHANGED vars PROVE Goal
  BY <1>7, JobsFrame DEF vars, queueVars, dispatchVars, CurrentCalls
<1>8. 0 \in Int32 /\ Priorities \subseteq Int32 /\ RecurringPriority \in Int32
  BY SchedulerAssumption DEF SchedulerAssumption, Int32
<1>. HIDE DEF Goal
<1>9. ASSUME NEW p \in Int32, Enqueue(p) PROVE Goal
  BY <1>9, JobsEnqueue DEF Goal
<1>10. ASSUME NEW m \in queue, CancelMission(m) PROVE Goal
  BY <1>10, JobsCancel DEF Goal
<1>11. ASSUME NEW s, FleetState(s) PROVE Goal
  BY <1>11, JobsSnapshot DEF Goal
<1>12. ASSUME NEW r \in Robot, Dispatch(r) PROVE Goal
  BY <1>12, JobsDispatch DEF Goal
<1>13. ASSUME NEW c \in calls, AcceptedResponse(c) PROVE Goal
  BY <1>13, JobsAccepted DEF Goal
<1>14. Goal
  BY <1>3, <1>4, <1>5, <1>6, <1>7, <1>8, <1>9, <1>10, <1>11, <1>12, <1>13
  DEF Next, QueueMission, DispatchPatrol, EnqueueRecurringPatrol
<1>. QED BY <1>1, <1>14 DEF Goal, JobsAccounted

\* A node that has just started satisfies all three invariants: it holds no
\* mission, no robot and no call.
LEMMA InitOK == Init => TypeOK /\ JobsAccounted /\ AttemptsBounded
<1>. SUFFICES ASSUME Init PROVE TypeOK /\ JobsAccounted /\ AttemptsBounded
  OBVIOUS
<1>1. /\ queue = {} /\ calls = {} /\ closed = {} /\ DOMAIN active = {}
      /\ DOMAIN reservations = {} /\ inProgress = FALSE
  BY DEF Init
<1>2. Running = {} /\ Tracked = {} /\ CurrentCalls = {}
  BY <1>1 DEF Running, Tracked, CurrentCalls
<1>3. TypeOK
  <2>1. fleet \in [Robot -> RobotStatus]
    BY DEF Init, RobotStatus, Unseen
  <2>2. dispatchAge \in 0 .. DispatchTimeout /\ submitted \in 0 .. MaxJobs
    BY SchedulerAssumption DEF Init, SchedulerAssumption
  <2>3. systemReady \in BOOLEAN
    BY DEF Init
  <2>4. inProgress \in BOOLEAN
    BY DEF Init
  <2>. QED BY <1>1, <2>1, <2>2, <2>3, <2>4 DEF Init, TypeOK
<1>4. JobsAccounted
  BY <1>1, <1>2 DEF JobsAccounted, DispatchSlot, IdsFresh, InFlight,
                    OneIncarnation, EndedIsFinal, JobsOf
<1>5. AttemptsBounded
  BY <1>1, <1>2 DEF AttemptsBounded
<1>. QED BY <1>3, <1>4, <1>5

\* Every variable always has its type.
THEOREM TypeCorrect == Spec => []TypeOK
<1>1. TypeOK /\ JobsAccounted /\ [Next]_vars => (TypeOK /\ JobsAccounted)'
  BY TypeStep, JobsStep DEF JobsAccounted
<1>. QED BY InitOK, <1>1, PTL DEF Spec

\* The inductive invariant: the dispatch slot matches the calls, ids are
\* never reused, the mission in flight is nowhere else, a job is in one
\* place, and an ended job stays ended.
THEOREM JobsAlwaysAccounted == Spec => []JobsAccounted
<1>1. TypeOK /\ JobsAccounted /\ [Next]_vars => (TypeOK /\ JobsAccounted)'
  BY TypeStep, JobsStep DEF JobsAccounted
<1>. QED BY InitOK, <1>1, PTL DEF Spec

\* The dispatch slot is held exactly by the one call whose response can still
\* change anything.
THEOREM SlotIsSound == Spec => []DispatchSlot
<1>1. JobsAccounted => DispatchSlot
  BY DEF JobsAccounted
<1>. QED BY JobsAlwaysAccounted, <1>1, PTL

\* No interleaving of timeouts, late responses and re-queues makes two
\* missions of one job.
THEOREM NoDuplicateJobs == Spec => []OneIncarnation
<1>1. JobsAccounted => OneIncarnation
  BY DEF JobsAccounted
<1>. QED BY JobsAlwaysAccounted, <1>1, PTL

\* A job that completed or was dropped is never worked on again.
THEOREM EndsAreFinal == Spec => []EndedIsFinal
<1>1. JobsAccounted => EndedIsFinal
  BY DEF JobsAccounted
<1>. QED BY JobsAlwaysAccounted, <1>1, PTL

\* No mission is tried more often than max_mission_attempts allows.
THEOREM RetriesAreBounded == Spec => []AttemptsBounded
<1>1. TypeOK /\ JobsAccounted /\ AttemptsBounded /\ [Next]_vars
        => (TypeOK /\ JobsAccounted /\ AttemptsBounded)'
  BY TypeStep, JobsStep, AttemptsStep DEF JobsAccounted
<1>. QED BY InitOK, <1>1, PTL DEF Spec
=============================================================================
