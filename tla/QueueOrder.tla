----------------------------- MODULE QueueOrder -----------------------------
(***************************************************************************)
(* The order in which the scheduler serves queued missions.  A mission is  *)
(* a record with an id, a number that grows with every mission queued, and *)
(* a priority.                                                             *)
(***************************************************************************)
EXTENDS Integers

\* sort_queue_locked: higher priority first, then first come first served.
Precedes(m, n) == \/ m.priority > n.priority
                  \/ m.priority = n.priority /\ m.id < n.id

\* mission_queue_.front().
Front(q) == CHOOSE m \in q : \A n \in q \ {m} : Precedes(m, n)
=============================================================================
