------------------------ MODULE SchedulerRefinement ------------------------
(***************************************************************************)
(* MissionScheduler implements MissionLifecycle, with both of its gaps.    *)
(***************************************************************************)
EXTENDS MissionScheduler

EndsOf(j) == {e.how : e \in {f \in closed : f.job = j}}

Stage(j) ==
  CASE \E m \in Running : m.job = j ->
         [at |-> "active", attempts |-> (CHOOSE m \in Running : m.job = j).attempts]
    [] j \notin JobsOf(Running) /\ \E m \in queue : m.job = j ->
         [at |-> "queued", attempts |-> (CHOOSE m \in queue : m.job = j).attempts]
    [] j \notin JobsOf(Tracked) /\ "completed" \in EndsOf(j) ->
         [at |-> "completed", attempts |-> 0]
    [] j \notin JobsOf(Tracked) /\ "dropped" \in EndsOf(j) ->
         [at |-> "dropped", attempts |-> 0]
    [] j \notin JobsOf(Tracked) /\ EndsOf(j) \subseteq {"canceled"} ->
         [at |-> IF j <= submitted THEN "withdrawn" ELSE "new", attempts |-> 0]

Lifecycle == INSTANCE MissionLifecycle WITH
  Jobs <- 1 .. MaxJobs,
  Gaps <- {"overwritten", "late start"},
  stage <- [j \in 1 .. MaxJobs |-> Stage(j)]

\* Each job goes from the queue to done, retry or drop as Figure 4 draws it,
\* or takes one of the two steps the figure does not show; in particular it
\* fails at most max_mission_attempts times before it is dropped, and is
\* never dropped earlier.
ImplementsLifecycle == Lifecycle!Spec
=============================================================================
