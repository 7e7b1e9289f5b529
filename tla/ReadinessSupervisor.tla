------------------------ MODULE ReadinessSupervisor ------------------------
(***************************************************************************)
(* The system_readiness_supervisor node: it polls the lifecycle state of   *)
(* each robot's Nav2 nodes, sends STARTUP or RESET to the robot's          *)
(* lifecycle manager when a poll asks for it, and publishes /system/ready. *)
(*                                                                         *)
(* The node runs on a single-threaded executor: the readiness timer, the   *)
(* map subscriptions and the service responses are atomic actions.  Its    *)
(* environment - the inputs, the Nav2 nodes, the lifecycle managers - is   *)
(* free to change at any time; a GetState or ManageLifecycleNodes call may *)
(* be answered late or never.                                              *)
(*                                                                         *)
(* Abstractions:                                                           *)
(*  - poll_generation is only compared for equality, to tell the poll      *)
(*    under way from abandoned ones: the model keeps the current poll in   *)
(*    sup[r].poll and the last abandoned one in stale[r] (the responses of *)
(*    earlier ones are lost), so that the model is finite without a bound  *)
(*    on the number of polls.                                              *)
(*  - a time stamp is the age it has, in ticks, which stops growing where  *)
(*    the code stops telling ages apart.  A retry period that has never    *)
(*    started counts as over, as in the code.                              *)
(***************************************************************************)
EXTENDS Integers

CONSTANTS
  Robot,         \* robot_ids
  Node,          \* nav2_node_names_
  PollTimeout,   \* poll_timeout_seconds, in ticks
  StartupRetry,  \* startup_retry_period_seconds, in ticks
  ResetRetry,    \* reset_retry_period_seconds, in ticks
  MaxInFlight    \* bound: unanswered commands of a kind that are told apart

ASSUME SupervisorAssumption ==
  /\ Node # {}
  /\ PollTimeout \in Nat /\ StartupRetry \in Nat /\ ResetRetry \in Nat
  /\ MaxInFlight \in Nat \ {0}

VARIABLES
  clock,      \* whether now() is past zero
  up,         \* what of Input is there, for each robot
  nav,        \* the lifecycle state of each Nav2 node of each robot
  sup,        \* robots_: the RobotSupervisor of each robot
  stale,      \* the last abandoned poll of each robot, or NoPoll
  commands,   \* how many STARTUP and RESET calls are unanswered
  published   \* last_published_ready_

vars == <<clock, up, nav, sup, stale, commands, published>>

\* A valid map was received; odom -> base_link is known to tf; the service
\* manage_nodes is ready; the get_state services of all nodes are ready.
Input == {"map", "tf", "manager", "queries"}

\* "other" is any lifecycle state but these two; a "dead" node answers not.
LifecycleState == {"active", "unconfigured", "other", "dead"}

Command == {"STARTUP", "RESET"}

Phase == {"WaitingForInputs", "Idle", "Polling", "StartupPending", "ResetPending"}

\* The counters shared by the callbacks of one poll (remaining is waiting).
Poll == [waiting : SUBSET Node, all_active : BOOLEAN,
         all_unconfigured : BOOLEAN, query_failed : BOOLEAN]

NoPoll == [waiting |-> {}, all_active |-> FALSE, all_unconfigured |-> FALSE,
           query_failed |-> FALSE]

NewPoll == [waiting |-> Node, all_active |-> TRUE, all_unconfigured |-> TRUE,
            query_failed |-> FALSE]

RobotSupervisor ==
  [phase : Phase, confirmed_active : BOOLEAN, startupAge : 0 .. StartupRetry,
   resetAge : 0 .. ResetRetry, poll : Poll, pollAge : 0 .. PollTimeout + 1]

TypeOK ==
  /\ clock \in BOOLEAN
  /\ up \in [Robot -> SUBSET Input]
  /\ nav \in [Robot -> [Node -> LifecycleState]]
  /\ sup \in [Robot -> RobotSupervisor]
  /\ stale \in [Robot -> Poll]
  /\ commands \in [Robot -> [Command -> 0 .. MaxInFlight]]
  /\ published \in BOOLEAN

Init ==
  /\ clock = FALSE
  /\ up = [r \in Robot |-> {}]
  /\ nav \in [Robot -> [Node -> {"unconfigured"}]]
  /\ sup = [r \in Robot |->
       [phase |-> "WaitingForInputs", confirmed_active |-> FALSE,
        startupAge |-> StartupRetry, resetAge |-> ResetRetry,
        poll |-> NoPoll, pollAge |-> 0]]
  /\ stale = [r \in Robot |-> NoPoll]
  /\ commands = [r \in Robot |-> [c \in Command |-> 0]]
  /\ published = FALSE

(***************************************************************************)
(* The environment.                                                        *)
(***************************************************************************)
ClockStarts ==
  /\ ~clock /\ clock' = TRUE
  /\ UNCHANGED <<up, nav, sup, stale, commands, published>>

\* map_callback: an invalid map takes map_received back.
MapCallback(r, valid) ==
  /\ up' = [up EXCEPT ![r] = IF valid THEN @ \cup {"map"} ELSE @ \ {"map"}]
  /\ UNCHANGED <<clock, nav, sup, stale, commands, published>>

\* Frames and services come and go.
InputChanges(r, i) ==
  /\ up' = [up EXCEPT ![r] = IF i \in @ THEN @ \ {i} ELSE @ \cup {i}]
  /\ UNCHANGED <<clock, nav, sup, stale, commands, published>>

\* A node changes state: on a command of its lifecycle manager (which acts
\* on a STARTUP or RESET when and as far as it pleases), on its own, or it
\* dies.
NodeChanges(r, n, state) ==
  /\ nav' = [nav EXCEPT ![r][n] = state]
  /\ UNCHANGED <<clock, up, sup, stale, commands, published>>

(***************************************************************************)
(* The readiness timer: check_readiness.                                   *)
(***************************************************************************)
InputsReady(r) == {"map", "tf", "manager"} \subseteq up[r]

\* Mutant of TimedOut: there is no watchdog.
NeverTimedOut(s) == FALSE

\* The watchdog takes a poll back that waited too long.
TimedOut(s) == s.phase = "Polling" /\ s.pollAge > PollTimeout

\* Whether this tick polls the robot: it is idle, at the latest now.
Polls(r) == /\ InputsReady(r) /\ "queries" \in up[r]
            /\ sup[r].phase \in {"WaitingForInputs", "Idle"} \/ TimedOut(sup[r])

\* Whether this tick makes the responses of the last poll stale.
Abandons(r) == /\ sup[r].poll.waiting # {}
               /\ InputsReady(r)
               /\ Polls(r) \/ TimedOut(sup[r])

\* poll_lifecycle_states, once all its services are ready.
StartPoll(s) == [s EXCEPT !.phase = "Polling", !.poll = NewPoll, !.pollAge = 0]

\* What a tick makes of a robot.
Checked(r) ==
  LET s == sup[r] IN
  CASE ~InputsReady(r) -> [s EXCEPT !.phase = "WaitingForInputs", !.pollAge = 0]
    [] Polls(r) -> StartPoll(s)
    [] InputsReady(r) /\ ~Polls(r) /\ TimedOut(s) ->
         [s EXCEPT !.phase = "Idle", !.poll = NoPoll, !.pollAge = 0]
    [] InputsReady(r) /\ ~Polls(r) /\ ~TimedOut(s) ->
         [s EXCEPT !.phase = IF @ = "WaitingForInputs" THEN "Idle" ELSE @]

CheckReadiness ==
  /\ IF clock
     THEN /\ sup' = [r \in Robot |-> Checked(r)]
          /\ stale' = [r \in Robot |->
                         IF Abandons(r) THEN sup[r].poll ELSE stale[r]]
          /\ published' = \A r \in Robot :
                            InputsReady(r) /\ sup[r].confirmed_active
     ELSE published' = FALSE /\ UNCHANGED <<sup, stale>>
  /\ UNCHANGED <<clock, up, nav, commands>>

(***************************************************************************)
(* GetState responses.                                                     *)
(***************************************************************************)
\* The poll once node n answered state; "error" is a call that failed.
Answered(p, n, state) ==
  [waiting |-> p.waiting \ {n},
   all_active |-> p.all_active /\ state = "active",
   all_unconfigured |-> p.all_unconfigured /\ state = "unconfigured",
   query_failed |-> p.query_failed \/ state = "error"]

\* finish_poll, for a robot of state s whose poll came out as p: the command
\* to send, if any ...
Wanted(p) ==
  CASE p.query_failed \/ p.all_active -> {}
    [] ~p.query_failed /\ ~p.all_active /\ p.all_unconfigured -> {"STARTUP"}
    [] ~p.query_failed /\ ~p.all_active /\ ~p.all_unconfigured -> {"RESET"}

\* ... request_nav2_startup and request_nav2_reset send it only so often, and
\* to a manager that is there ...
Sent(r, s, p) ==
  {c \in Wanted(p) :
     /\ "manager" \in up[r]
     /\ c = "STARTUP" => s.startupAge >= StartupRetry
     /\ c = "RESET" => s.resetAge >= ResetRetry}

\* Mutant of Finished: a request that comes too early leaves the phase alone.
FinishedInPlace(r, s, p) ==
  [s EXCEPT !.poll = NoPoll, !.pollAge = 0,
            !.confirmed_active = p.all_active /\ ~p.query_failed,
            !.phase = CASE "STARTUP" \in Sent(r, s, p) -> "StartupPending"
                        [] "RESET" \in Sent(r, s, p) -> "ResetPending"
                        [] Wanted(p) = {} -> "Idle"
                        [] OTHER -> @,
            !.startupAge = IF "STARTUP" \in Sent(r, s, p) THEN 0 ELSE @,
            !.resetAge = IF "RESET" \in Sent(r, s, p) THEN 0 ELSE @]

\* Mutant of Finished: confirmed_active is set but never taken back.
FinishedSticky(r, s, p) ==
  [s EXCEPT !.poll = NoPoll, !.pollAge = 0,
            !.confirmed_active = @ \/ p.all_active,
            !.phase = CASE "STARTUP" \in Sent(r, s, p) -> "StartupPending"
                        [] "RESET" \in Sent(r, s, p) -> "ResetPending"
                        [] OTHER -> "Idle",
            !.startupAge = IF "STARTUP" \in Sent(r, s, p) THEN 0 ELSE @,
            !.resetAge = IF "RESET" \in Sent(r, s, p) THEN 0 ELSE @]

\* ... and what becomes of the robot.
Finished(r, s, p) ==
  [s EXCEPT !.poll = NoPoll, !.pollAge = 0,
            !.confirmed_active = p.all_active /\ ~p.query_failed,
            !.phase = CASE "STARTUP" \in Sent(r, s, p) -> "StartupPending"
                        [] "RESET" \in Sent(r, s, p) -> "ResetPending"
                        [] OTHER -> "Idle",
            !.startupAge = IF "STARTUP" \in Sent(r, s, p) THEN 0 ELSE @,
            !.resetAge = IF "RESET" \in Sent(r, s, p) THEN 0 ELSE @]

\* The commands in flight after those in new were sent.
InFlight(r, new) ==
  [commands EXCEPT ![r] = [c \in Command |->
     IF c \in new /\ @[c] < MaxInFlight THEN @[c] + 1 ELSE @[c]]]

\* handle_get_state_response, for the current poll.
GetStateResponse(r, n, state) ==
  /\ n \in sup[r].poll.waiting
  /\ LET p == Answered(sup[r].poll, n, state)
         done == p.waiting = {}
     IN  /\ sup' = [sup EXCEPT ![r] = IF done THEN Finished(r, @, p)
                                      ELSE [@ EXCEPT !.poll = p]]
         /\ commands' = IF done THEN InFlight(r, Sent(r, sup[r], p))
                        ELSE commands
  /\ UNCHANGED <<clock, up, nav, stale, published>>

\* Mutant of StaleResponse: a response is counted whatever its generation.
StaleCounted(r, n, state) ==
  /\ n \in stale[r].waiting
  /\ LET p == Answered(stale[r], n, state)
     IN  /\ stale' = [stale EXCEPT ![r] = p]
         /\ sup' = [sup EXCEPT ![r] = IF p.waiting = {} THEN
                      [Finished(r, @, p) EXCEPT !.poll = sup[r].poll] ELSE @]
         /\ commands' = IF p.waiting = {}
                        THEN InFlight(r, Sent(r, sup[r], p)) ELSE commands
  /\ UNCHANGED <<clock, up, nav, published>>

\* ... and for an abandoned one, whose responses are dropped.
StaleResponse(r, n, state) ==
  /\ n \in stale[r].waiting
  /\ stale' = [stale EXCEPT ![r].waiting = @ \ {n}]
  /\ UNCHANGED <<clock, up, nav, sup, commands, published>>

\* A live node answers its state; a call to a dead one may fail.
Answer(r, n) == IF nav[r][n] = "dead" THEN "error" ELSE nav[r][n]

NodeAnswers(r, n) == /\ nav[r][n] # "dead"
                     /\ GetStateResponse(r, n, Answer(r, n))

QueryFails(r, n) == nav[r][n] = "dead" /\ GetStateResponse(r, n, Answer(r, n))

(***************************************************************************)
(* ManageLifecycleNodes responses: success, refusal and failure of the     *)
(* call all end the same way.                                              *)
(***************************************************************************)
\* Mutant of CommandResponse: the callback leaves the phase alone.
ResponseLeavesPhase(r, c) ==
  /\ commands[r][c] > 0
  /\ commands' = [commands EXCEPT ![r][c] = @ - 1]
  /\ UNCHANGED <<clock, up, nav, sup, stale, published>>

\* The callbacks of request_nav2_startup and request_nav2_reset.
CommandResponse(r, c) ==
  /\ commands[r][c] > 0
  /\ commands' = [commands EXCEPT ![r][c] = @ - 1]
  /\ sup' = [sup EXCEPT ![r].phase = "Idle", ![r].pollAge = 0]
  /\ UNCHANGED <<clock, up, nav, stale, published>>

\* Time passes.  Only the age of the poll of a robot in phase Polling is ever
\* looked at.
Tick ==
  /\ clock
  /\ sup' = [r \in Robot |-> [sup[r] EXCEPT
       !.startupAge = IF @ < StartupRetry THEN @ + 1 ELSE @,
       !.resetAge = IF @ < ResetRetry THEN @ + 1 ELSE @,
       !.pollAge = IF sup[r].phase = "Polling" /\ @ <= PollTimeout
                   THEN @ + 1 ELSE @]]
  /\ UNCHANGED <<clock, up, nav, stale, commands, published>>

-----------------------------------------------------------------------------
Next ==
  \/ ClockStarts
  \/ \E r \in Robot, valid \in BOOLEAN : MapCallback(r, valid)
  \/ \E r \in Robot, i \in Input \ {"map"} : InputChanges(r, i)
  \/ \E r \in Robot, n \in Node, state \in LifecycleState : NodeChanges(r, n, state)
  \/ CheckReadiness
  \/ \E r \in Robot, n \in Node : NodeAnswers(r, n)
  \/ \E r \in Robot, n \in Node : QueryFails(r, n)
  \/ \E r \in Robot, n \in Node : StaleResponse(r, n, Answer(r, n))
  \/ \E r \in Robot, c \in Command : CommandResponse(r, c)
  \/ Tick

Spec == Init /\ [][Next]_vars

\* The timer fires and time passes; nobody has to answer anything.
FairSpec == Spec /\ WF_vars(CheckReadiness) /\ WF_vars(Tick)

\* Moreover live nodes and lifecycle managers answer what is asked of them.
LiveSpec ==
  /\ FairSpec
  /\ \A r \in Robot, n \in Node : WF_vars(NodeAnswers(r, n))
  /\ \A r \in Robot, c \in Command : WF_vars(CommandResponse(r, c))

-----------------------------------------------------------------------------
(***************************************************************************)
(* Safety.                                                                 *)
(***************************************************************************)
\* A robot waiting for something waits for something that can still happen:
\* a robot in phase kPolling has an unanswered query of the current poll, a
\* robot in a pending phase an unanswered call of that command.  A lost
\* reset of the phase would leave it there forever.
PhaseHasACause ==
  \A r \in Robot :
    /\ sup[r].phase = "Polling" => sup[r].poll.waiting # {}
    /\ sup[r].phase = "StartupPending" => commands[r]["STARTUP"] > 0
    /\ sup[r].phase = "ResetPending" => commands[r]["RESET"] > 0

\* A robot that is being started or reset does not count as active, however
\* the command came about and whatever was confirmed before.
PendingIsNotActive ==
  \A r \in Robot : sup[r].phase \in {"StartupPending", "ResetPending"} =>
                     ~sup[r].confirmed_active

\* Only the last answer to the current poll changes confirmed_active or sends
\* a command; answers to a poll that the watchdog or a newer poll replaced
\* never do (comments at lines 193-200 and 420-425).
OnlyTheCurrentPollDecides ==
  [][\A r \in Robot :
       \/ sup'[r].confirmed_active # sup[r].confirmed_active
       \/ \E c \in Command : commands'[r][c] > commands[r][c]
       => sup[r].poll.waiting # {} /\ sup'[r].poll.waiting = {}]_vars

(***************************************************************************)
(* Liveness.                                                               *)
(***************************************************************************)
AllActive(r) == \A n \in Node : nav[r][n] = "active"

\* Answers come before the watchdog gives up on the poll.
Prompt == \A r \in Robot : sup[r].pollAge <= PollTimeout

Connected == clock /\ \A r \in Robot : up[r] = Input

\* No poll stays the current one forever, even if nobody answers: the
\* watchdog replaces it (comment at lines 193-200).
PollsEnd == \A r \in Robot :
  []<>(sup[r].phase # "Polling" \/ sup[r].pollAge = 0)

\* If in the end all inputs are there, all nodes are active and answer in
\* time, /system/ready becomes true and stays true, whatever happened before.
EventuallyReady ==
  /\ <>[](Connected /\ \A r \in Robot : AllActive(r))
  /\ <>[]Prompt
  => <>[]published

\* "regression detection" (lines 174-180): if in the end some node is not
\* active any more, and all nodes are there to say so, /system/ready becomes
\* false and stays false.
RegressionCaught ==
  \A r \in Robot, n \in Node :
    /\ <>[](nav[r][n] \in {"unconfigured", "other"})
    /\ <>[](Connected /\ \A m \in Node : nav[r][m] # "dead")
    /\ <>[]Prompt
    => <>[]~published

(***************************************************************************)
(* What the documents say that the code does not do.                       *)
(***************************************************************************)
\* "a Nav2 node that dies later still gets caught, and /system/ready can
\* drop back to false" (README.md:38-39).
DeathCaught ==
  \A r \in Robot, n \in Node : <>[](nav[r][n] = "dead") => <>[]~published
=============================================================================
