---------------------------- MODULE MissionQueue ----------------------------
(***************************************************************************)
(* mission_queue_ as the code keeps it: a vector sorted again after every  *)
(* push_back, with two counters - mission_counter_ for the ids and         *)
(* next_sequence_ for the order of arrival - and /scheduler/queue_state,   *)
(* the latched copy of it.  MissionScheduler keeps the same queue as a set *)
(* ordered by Precedes; HeadIsFront is what entitles it to.                *)
(*                                                                         *)
(* The node runs on a single-threaded executor, so no callback starts      *)
(* before another has ended.  But a callback changes the queue and         *)
(* publishes it by calls of their own, and one that makes several missions *)
(* fail queues them one by one: these calls are the steps here.            *)
(***************************************************************************)
EXTENDS Integers, Sequences, FiniteSets, Functions, QueueOrder

CONSTANTS
  Priorities,   \* the priorities missions are queued with
  MaxMissions,  \* bound: missions queued, re-queued ones included
  MaxBatch      \* bound: missions one snapshot makes fail

\* The priority of a mission is an int32.
ASSUME QueueAssumption ==
  Priorities \subseteq Int /\ MaxMissions \in Nat /\ MaxBatch \in Nat

VARIABLES
  mission_queue,    \* mission_queue_
  mission_counter,  \* mission_counter_
  next_sequence,    \* next_sequence_
  queue_state,      \* the last message on /scheduler/queue_state
  busy,             \* a callback that is to publish the queue is under way
  failed            \* the priorities of the failed missions it has yet to queue

vars == <<mission_queue, mission_counter, next_sequence, queue_state, busy, failed>>

Mission == [id : 1 .. MaxMissions, priority : Priorities,
            sequence : 0 .. MaxMissions - 1]

TypeOK ==
  /\ mission_queue \in Seq(Mission) /\ Len(mission_queue) <= MaxMissions
  /\ mission_counter \in 0 .. MaxMissions
  /\ next_sequence = mission_counter
  /\ queue_state \in Seq((1 .. MaxMissions) \X Priorities)
  /\ busy \in BOOLEAN
  /\ failed \in Seq(Priorities)
  /\ mission_counter + Len(failed) <= MaxMissions
  /\ failed # <<>> => busy

\* The constructor has published the empty queue (line 210).
Init ==
  /\ mission_queue = <<>> /\ queue_state = <<>>
  /\ mission_counter = 0 /\ next_sequence = 0
  /\ busy = FALSE /\ failed = <<>>

\* Mutant of Before: only the priority counts; what came last goes first.
LastComeFirst(m, n) ==
  \/ m.priority > n.priority
  \/ m.priority = n.priority /\ m.sequence > n.sequence

\* The comparison of sort_queue_locked.
Before(m, n) ==
  \/ m.priority > n.priority
  \/ m.priority = n.priority /\ m.sequence < n.sequence

\* Mutant of Arrival: the counter is advanced before it is read.
ArrivalAdvanced == next_sequence + 1

\* The sequence number of the mission queued now (next_sequence_++).
Arrival == next_sequence

\* The missions of q at the positions I, in the order ahead of these positions:
\* the i-th is the one with i - 1 positions ahead of it.
Arranged(q, I, ahead) ==
  [i \in 1 .. Cardinality(I) |->
     q[CHOOSE j \in I : Cardinality({k \in I : <<k, j>> \in ahead}) = i - 1]]

\* sort_queue_locked: missions the comparison does not tell apart keep the
\* order they had (std::stable_sort).
Ahead(q) ==
  {p \in (DOMAIN q) \X (DOMAIN q) :
     \/ Before(q[p[1]], q[p[2]])
     \/ ~Before(q[p[2]], q[p[1]]) /\ p[1] < p[2]}

Sorted(q) == Arranged(q, DOMAIN q, Ahead(q))

\* create_mission_id, and the record pushed back.
NewMission(priority) ==
  [id |-> mission_counter + 1, priority |-> priority, sequence |-> Arrival]

\* enqueue_mission.
Enqueue(priority) ==
  /\ mission_counter < MaxMissions
  /\ mission_queue' = Sorted(Append(mission_queue, NewMission(priority)))
  /\ mission_counter' = mission_counter + 1
  /\ next_sequence' = next_sequence + 1

\* Mutant of Without: the last mission fills the place of the removed one.
WithoutBySwapping(id) ==
  LET last == Len(mission_queue) IN
  [i \in 1 .. IF id \in {m.id : m \in Range(mission_queue)} THEN last - 1 ELSE last |->
     IF mission_queue[i].id = id THEN mission_queue[last] ELSE mission_queue[i]]

\* mission_queue_ after an erase: the missions that stay keep their order.
Without(id) ==
  LET at == DOMAIN mission_queue IN
  Arranged(mission_queue, {i \in at : mission_queue[i].id # id},
           {p \in at \X at : p[1] < p[2]})

(***************************************************************************)
(* The callbacks, up to their call of publish_queue_state.                 *)
(***************************************************************************)
\* handle_queue_mission, handle_dispatch_patrol and enqueue_recurring_patrol.
QueueMission(priority) ==
  /\ ~busy /\ busy' = TRUE
  /\ Enqueue(priority)
  /\ UNCHANGED <<queue_state, failed>>

\* Mutant of CancelMission: the call of publish_queue_state is forgotten.
CancelSilently(id) ==
  /\ ~busy
  /\ \E m \in Range(mission_queue) : m.id = id
  /\ mission_queue' = Without(id)
  /\ UNCHANGED <<busy, mission_counter, next_sequence, queue_state, failed>>

\* handle_cancel_mission of a queued mission; of another it publishes nothing.
CancelMission(id) ==
  /\ ~busy /\ busy' = TRUE
  /\ \E m \in Range(mission_queue) : m.id = id
  /\ mission_queue' = Without(id)
  /\ UNCHANGED <<mission_counter, next_sequence, queue_state, failed>>

\* fleet_state_callback, when some active missions failed: those of priorities
\* ps are to be queued again, others, and perhaps all, are dropped.
MissionsFail(ps) ==
  /\ ~busy /\ busy' = TRUE
  /\ mission_counter + Len(ps) <= MaxMissions
  /\ failed' = ps
  /\ UNCHANGED <<mission_queue, mission_counter, next_sequence, queue_state>>

\* One turn of its loop over the failed missions.
Requeue ==
  /\ failed # <<>> /\ failed' = Tail(failed)
  /\ Enqueue(Head(failed))
  /\ UNCHANGED <<queue_state, busy>>

\* The response callback: remove_mission if the dispatch was accepted, which may
\* find the mission canceled.
AcceptedResponse(id) ==
  /\ ~busy /\ busy' = TRUE
  /\ mission_queue' = Without(id)
  /\ UNCHANGED <<mission_counter, next_sequence, queue_state, failed>>

RejectedResponse ==
  /\ ~busy /\ busy' = TRUE
  /\ UNCHANGED <<mission_queue, mission_counter, next_sequence, queue_state, failed>>

\* What publish_queue_state says of queue q.
Listed(q) == [i \in DOMAIN q |-> <<q[i].id, q[i].priority>>]

\* publish_queue_state, the end of each of these callbacks.
PublishQueueState ==
  /\ busy /\ failed = <<>> /\ busy' = FALSE
  /\ queue_state' = Listed(mission_queue)
  /\ UNCHANGED <<mission_queue, mission_counter, next_sequence, failed>>

Next ==
  \/ \E p \in Priorities : QueueMission(p)
  \/ \E id \in 1 .. mission_counter : CancelMission(id)
  \/ \E n \in 0 .. MaxBatch : \E ps \in [1 .. n -> Priorities] : MissionsFail(ps)
  \/ Requeue
  \/ \E id \in 1 .. mission_counter : AcceptedResponse(id)
  \/ RejectedResponse
  \/ PublishQueueState

Spec == Init /\ [][Next]_vars

-----------------------------------------------------------------------------
\* The vector stands for its set of missions: the mission get_next_mission
\* takes is the one Precedes puts first, and no mission is there twice.
HeadIsFront ==
  /\ mission_queue # <<>> => Head(mission_queue) = Front(Range(mission_queue))
  /\ \A i, j \in DOMAIN mission_queue :
        mission_queue[i].id = mission_queue[j].id => i = j

\* "Latched snapshot of the pending queue" (README.md, topics): whenever no
\* callback is running, the last queue_state lists exactly the queue, in its
\* order.  Five callbacks change the queue, each publishes it by a call of its
\* own, and one that forgets it leaves late subscribers with a wrong queue.
SnapshotIsCurrent == ~busy => queue_state = Listed(mission_queue)

Precede(q, id, other) ==
  \E i, j \in DOMAIN q : i < j /\ q[i].id = id /\ q[j].id = other

\* Missions that wait are never overtaken by one of no higher priority, and
\* two that wait never change places: a re-queued mission, which has a new
\* sequence number, lines up behind those of its priority.
NoOvertaking ==
  [][\A id, other \in 1 .. mission_counter' :
       Precede(mission_queue, id, other) => ~Precede(mission_queue', other, id)]_vars
=============================================================================
