-------------------------- MODULE MissionLifecycle --------------------------
(***************************************************************************)
(* What the scheduler promises of one job, from queue to done, retry or    *)
(* drop (Figure 4 of the repository's README), seen by whoever submitted   *)
(* it: no robots, no calls, no reservations, no clocks.                    *)
(*                                                                         *)
(* The figure's life cycle is Gaps = {}.  The scheduler has two more steps *)
(* that the figure does not show; a set of Gaps names the ones allowed:    *)
(*   "overwritten"  another mission is accepted for the job's robot and    *)
(*                  takes its entry, and nobody looks after the job again; *)
(*   "late start"   the job is canceled while its dispatch is in flight    *)
(*                  and runs all the same.                                 *)
(***************************************************************************)
EXTENDS Integers

CONSTANTS Jobs, MaxAttempts, Gaps

VARIABLE stage   \* where each job is, and how often it failed so far

At(where, n) == [at |-> where, attempts |-> n]

Init == stage = [j \in Jobs |-> At("new", 0)]

\* The steps one job may take.
Submit(s, t)  == s.at = "new" /\ t = At("queued", 0)
Start(s, t)   == s.at = "queued" /\ t = At("active", s.attempts)
Cancel(s, t)  == s.at = "queued" /\ t = At("withdrawn", 0)
Finish(s, t)  == s.at = "active" /\ t = At("completed", 0)
Retry(s, t)   == /\ s.at = "active" /\ s.attempts + 1 < MaxAttempts
                 /\ t = At("queued", s.attempts + 1)
Drop(s, t)    == /\ s.at = "active" /\ s.attempts + 1 >= MaxAttempts
                 /\ t = At("dropped", 0)
Forget(s, t)  == /\ "overwritten" \in Gaps
                 /\ s.at = "active" /\ t = At("withdrawn", 0)
Revive(s, t)  == /\ "late start" \in Gaps
                 /\ s.at = "withdrawn" /\ t.at = "active"
                 /\ t = At("active", t.attempts)
                 /\ t.attempts = 0 \/ t.attempts < MaxAttempts

Step(s, t) ==
  \/ Submit(s, t) \/ Start(s, t) \/ Cancel(s, t) \/ Finish(s, t)
  \/ Retry(s, t) \/ Drop(s, t) \/ Forget(s, t) \/ Revive(s, t)

\* One fleet snapshot may end or re-queue the jobs of several robots.
Next == /\ DOMAIN stage' = Jobs
        /\ \A j \in Jobs : stage'[j] = stage[j] \/ Step(stage[j], stage'[j])

Spec == Init /\ [][Next]_stage
=============================================================================
