--------------------------- MODULE PatrolManager ---------------------------
(***************************************************************************)
(* One robot's patrol_manager: it turns a /patrol/start request into a     *)
(* FollowWaypoints goal, follows the goal through its callbacks and        *)
(* publishes a status that robot_heartbeat turns into the state the fleet  *)
(* sees.                                                                   *)
(*                                                                         *)
(* patrol_manager runs on a single-threaded executor, and waits inside     *)
(* send_goal for the action server: no other callback of it runs then.     *)
(* The FollowWaypoints server is not in this repository; it is modelled    *)
(* from what the callbacks rely on: it accepts or rejects a goal, runs one *)
(* goal at a time (accepting another aborts the one that runs) and ends a  *)
(* goal with a result.  What a mission does - its type, its poses - is     *)
(* left out; a request that execute_mission refuses for its content        *)
(* changes nothing.                                                        *)
(***************************************************************************)
EXTENDS Integers, FiniteSets

CONSTANTS
  Autostart,   \* the autostart parameter
  MaxGoals     \* bound: goals sent

ASSUME PatrolAssumption ==
  Autostart \in BOOLEAN /\ MaxGoals \in Nat

VARIABLES
  autostart,      \* whether the one-shot start_timer_ is still to fire
  waiting,        \* send_goal is inside wait_for_action_server
  patrol_active,  \* patrol_active_
  handle,         \* active_goal_handle_, 0 for none
  goals,          \* each goal: where Nav2 and where the client are with it
  cancels,        \* goals whose cancel request Nav2 has not seen
  status,         \* the last message on patrol/status
  state,          \* state_ of robot_heartbeat
  overlapped      \* history: a goal was sent while another was unanswered

managerVars == <<autostart, waiting, patrol_active, handle, status>>
vars == <<managerVars, goals, cancels, state, overlapped>>

Status == {"idle", "waiting_for_nav2", "sending_goal", "active", "canceling",
           "completed", "canceled", "aborted", "rejected", "error"}

\* What Nav2 made of a goal; "missed" is a success with missed waypoints.
Outcome == {"succeeded", "missed", "aborted", "canceled", "unknown"}
Goal == [server : {"unseen", "rejected", "executing"} \cup Outcome,
         client : {"sent", "known", "done"}]

TypeOK ==
  /\ autostart \in BOOLEAN /\ waiting \in BOOLEAN /\ patrol_active \in BOOLEAN
  /\ DOMAIN goals \subseteq 1 .. MaxGoals
  /\ \A g \in DOMAIN goals : goals[g] \in Goal
  /\ handle \in {0} \cup DOMAIN goals
  /\ cancels \subseteq DOMAIN goals
  /\ status \in Status
  /\ state \in {"IDLE", "PATROLLING", "ERROR"}
  /\ overlapped \in BOOLEAN

Sent == DOMAIN goals

Init ==
  /\ autostart = Autostart /\ waiting = FALSE
  /\ patrol_active = FALSE /\ handle = 0
  /\ goals = [g \in {} |-> 0] /\ cancels = {}
  /\ status = "idle" /\ state = "IDLE" /\ overlapped = FALSE

(***************************************************************************)
(* Starting.                                                               *)
(***************************************************************************)
Unanswered == {g \in Sent : goals[g].client = "sent"}

\* execute_mission up to the wait in send_goal.
ExecuteMission ==
  /\ ~waiting /\ ~patrol_active
  /\ waiting' = TRUE /\ status' = "waiting_for_nav2"
  /\ UNCHANGED <<patrol_active, handle, goals, cancels, state, overlapped>>

\* handle_start, for a request it does not refuse.
HandleStart ==
  /\ Cardinality(Sent) < MaxGoals
  /\ ExecuteMission
  /\ UNCHANGED autostart

\* The one-shot timer: start_patrol; a refusal is only logged.
AutostartTimer ==
  /\ autostart /\ autostart' = FALSE
  /\ Cardinality(Sent) < MaxGoals
  /\ ~waiting
  /\ IF patrol_active
     THEN UNCHANGED <<waiting, status, patrol_active, handle, goals, cancels, state, overlapped>>
     ELSE ExecuteMission

\* wait_for_action_server returns: without a server ...
ServerMissing ==
  /\ waiting /\ waiting' = FALSE
  /\ status' = "error"
  /\ UNCHANGED <<autostart, patrol_active, handle, goals, cancels, state, overlapped>>

\* ... or with one, and the goal goes out.
SendGoal ==
  /\ waiting /\ waiting' = FALSE
  /\ status' = "sending_goal"
  /\ goals' = [g \in Sent \cup {Cardinality(Sent) + 1} |->
                 IF g \in Sent THEN goals[g]
                 ELSE [server |-> "unseen", client |-> "sent"]]
  /\ overlapped' = (overlapped \/ Unanswered # {})
  /\ UNCHANGED <<autostart, patrol_active, handle, cancels, state>>

(***************************************************************************)
(* The goal's callbacks.                                                   *)
(***************************************************************************)
\* Mutant of GoalResponse: the handle is not kept.
ResponseWithoutHandle(g) ==
  /\ ~waiting
  /\ goals[g].client = "sent" /\ goals[g].server # "unseen"
  /\ IF goals[g].server = "rejected"
     THEN /\ goals' = [goals EXCEPT ![g].client = "done"]
          /\ patrol_active' = FALSE /\ status' = "rejected"
          /\ UNCHANGED handle
     ELSE /\ goals' = [goals EXCEPT ![g].client = "known"]
          /\ patrol_active' = TRUE /\ status' = "active"
          /\ UNCHANGED handle
  /\ UNCHANGED <<autostart, waiting, cancels, state, overlapped>>

\* goal_response_callback.
GoalResponse(g) ==
  /\ ~waiting
  /\ goals[g].client = "sent" /\ goals[g].server # "unseen"
  /\ IF goals[g].server = "rejected"
     THEN /\ goals' = [goals EXCEPT ![g].client = "done"]
          /\ patrol_active' = FALSE /\ status' = "rejected"
          /\ UNCHANGED handle
     ELSE /\ goals' = [goals EXCEPT ![g].client = "known"]
          /\ handle' = g
          /\ patrol_active' = TRUE /\ status' = "active"
  /\ UNCHANGED <<autostart, waiting, cancels, state, overlapped>>

\* Mutant of StatusOf: a missed waypoint goes unnoticed.
StatusOfCode(outcome) ==
  CASE outcome \in {"succeeded", "missed"} -> "completed"
    [] outcome = "aborted" -> "aborted"
    [] outcome = "canceled" -> "canceled"
    [] outcome = "unknown" -> "error"

StatusOf(outcome) ==
  CASE outcome = "succeeded" -> "completed"
    [] outcome \in {"missed", "aborted"} -> "aborted"
    [] outcome = "canceled" -> "canceled"
    [] outcome = "unknown" -> "error"

\* Mutant of Result: an unknown result code falls through without a word.
ResultUnreported(g) ==
  /\ ~waiting
  /\ goals[g].client = "known" /\ goals[g].server \in Outcome
  /\ goals' = [goals EXCEPT ![g].client = "done"]
  /\ patrol_active' = FALSE /\ handle' = 0
  /\ status' = IF goals[g].server = "unknown" THEN status ELSE StatusOf(goals[g].server)
  /\ UNCHANGED <<autostart, waiting, cancels, state, overlapped>>

\* result_callback.
Result(g) ==
  /\ ~waiting
  /\ goals[g].client = "known" /\ goals[g].server \in Outcome
  /\ goals' = [goals EXCEPT ![g].client = "done"]
  /\ patrol_active' = FALSE /\ handle' = 0
  /\ status' = StatusOf(goals[g].server)
  /\ UNCHANGED <<autostart, waiting, cancels, state, overlapped>>

\* Mutant of HandleStop: whether there is a handle is not checked.
StopUnchecked ==
  /\ ~waiting
  /\ status' = "canceling"
  /\ cancels' = cancels \cup {handle}
  /\ UNCHANGED <<autostart, waiting, patrol_active, handle, goals, state, overlapped>>

\* handle_stop; without an active goal it refuses and changes nothing.
HandleStop ==
  /\ ~waiting
  /\ patrol_active /\ handle # 0
  /\ status' = "canceling"
  /\ cancels' = cancels \cup {handle}
  /\ UNCHANGED <<autostart, waiting, patrol_active, handle, goals, state, overlapped>>

(***************************************************************************)
(* The FollowWaypoints server (external).                                  *)
(***************************************************************************)
Executing == {g \in Sent : goals[g].server = "executing"}

Accept(g) ==
  /\ goals[g].server = "unseen"
  /\ goals' = [h \in Sent |->
       IF h = g THEN [goals[h] EXCEPT !.server = "executing"]
       ELSE IF h \in Executing THEN [goals[h] EXCEPT !.server = "aborted"]
       ELSE goals[h]]
  /\ UNCHANGED <<managerVars, cancels, state, overlapped>>

Reject(g) ==
  /\ goals[g].server = "unseen"
  /\ goals' = [goals EXCEPT ![g].server = "rejected"]
  /\ UNCHANGED <<managerVars, cancels, state, overlapped>>

End(g, outcome) ==
  /\ goals[g].server = "executing"
  /\ goals' = [goals EXCEPT ![g].server = outcome]
  /\ UNCHANGED <<managerVars, cancels, state, overlapped>>

\* A cancel request reaches the server, before or after the goal ended.
Cancel(g) ==
  /\ g \in cancels /\ cancels' = cancels \ {g}
  /\ goals' = [goals EXCEPT ![g].server = IF @ = "executing" THEN "canceled" ELSE @]
  /\ UNCHANGED <<managerVars, state, overlapped>>

(***************************************************************************)
(* robot_heartbeat: patrol_status_callback.  The topic keeps one message,  *)
(* so a callback sees the last status and may never see earlier ones.      *)
(***************************************************************************)
Busy == {"waiting_for_nav2", "sending_goal", "active", "canceling"}
Free == {"idle", "completed", "canceled"}

StateOf(s) ==
  CASE s \in Busy -> "PATROLLING"
    [] s \in Free -> "IDLE"
    [] s \in {"aborted", "rejected", "error"} -> "ERROR"

PatrolStatusCallback ==
  /\ state' = StateOf(status)
  /\ UNCHANGED <<managerVars, goals, cancels, overlapped>>

-----------------------------------------------------------------------------
Next ==
  \/ HandleStart \/ AutostartTimer
  \/ ServerMissing \/ SendGoal
  \/ \E g \in Sent : GoalResponse(g)
  \/ \E g \in Sent : Result(g)
  \/ HandleStop
  \/ \E g \in Sent : Accept(g)
  \/ \E g \in Sent : Reject(g)
  \/ \E g \in Sent, outcome \in Outcome \ {"canceled"} : End(g, outcome)
  \/ \E g \in Sent : Cancel(g)
  \/ PatrolStatusCallback

Spec == Init /\ [][Next]_vars

Served(g) == g \in Sent /\
  \/ GoalResponse(g) \/ Result(g) \/ Accept(g) \/ Reject(g)
  \/ \E outcome \in Outcome : End(g, outcome)

\* The wait is bounded, callbacks are run, topics deliver, and Nav2 answers
\* every goal and ends it.  Nobody has to start or stop anything.
FairSpec ==
  /\ Spec
  /\ WF_vars(ServerMissing \/ SendGoal) /\ WF_vars(PatrolStatusCallback)
  /\ \A g \in 1 .. MaxGoals : WF_vars(Served(g))

-----------------------------------------------------------------------------
\* Of a goal Nav2 runs, /patrol/stop reaches exactly the ones that were
\* answered: from its goal response until Nav2 is done with it, whatever
\* requests, cancels and other goals' callbacks come between, patrol_active_
\* and active_goal_handle_ stand for it.  Before its response the goal is out
\* of reach: the robot may be moving, and handle_stop answers "No active
\* patrol mission" (line 214; the handle is set at line 460 only).  Goals
\* that overlap are excluded: patrol_active_ is set when a goal is answered,
\* not when it is sent, so a start in between sends a second goal, and the
\* result of the first then clears the handle of the second (lines 482-483).
GoalIsStoppable ==
  ~overlapped => \A g \in Executing :
    patrol_active /\ handle = g <=> goals[g].client # "sent"

\* When nothing is under way, the status says how the last thing ended: no
\* order of responses, results and stops leaves "active" or "canceling" as
\* the last word.
QuietStatusIsFinal ==
  ~waiting /\ (\A g \in Sent : goals[g].client = "done") => status \notin Busy

\* A mission that missed a waypoint or was rejected never shows as a robot
\* that finished its work: the state the fleet sees goes from PATROLLING to
\* IDLE only when the goal sent last succeeded or was canceled, whatever
\* statuses the heartbeat node did not get to see (comment at lines 487-492),
\* unless goals overlapped.
IdleMeansDone ==
  [][state = "PATROLLING" /\ state' = "IDLE" /\ ~overlapped' =>
       goals[Cardinality(Sent)].server \in {"succeeded", "canceled"}]_vars

\* The fleet sees in the end that a robot is not working any more: once no
\* mission is started, its state is IDLE or ERROR for good.
HeartbeatSettles == <>[]~waiting => <>[](state # "PATROLLING")
=============================================================================
