---------------------------- MODULE FleetMonitor ----------------------------
(***************************************************************************)
(* The fleet manager's view of which robots are there, and what it does    *)
(* about those that are not: heartbeats, the once-a-second fleet state with *)
(* online and confirmed_offline, the e-stop services, the automatic e-stop *)
(* of a robot that is offline for long - and each robot's safety gate,     *)
(* which stands between Nav2 and the base and obeys the e-stop topic.      *)
(*                                                                         *)
(* fleet_manager and every safety gate are single-threaded: their          *)
(* callbacks are atomic actions.  /robotN/estop is reliable, keeps one     *)
(* message and hands it to a gate that starts late, so a gate sees the     *)
(* last message on it and may never see earlier ones.                      *)
(*                                                                         *)
(* A time stamp is the age it has, in ticks, up to Cap.  fleet_manager     *)
(* runs on wall time, whose zero is in the past: offline_since is never    *)
(* zero once it is set.                                                    *)
(***************************************************************************)
EXTENDS Integers

CONSTANTS
  Robot,      \* robot_ids
  Timeout,    \* heartbeat_timeout_seconds, in ticks
  Grace,      \* offline_grace_seconds, in ticks
  AutoEstop,  \* auto_estop_after_offline_seconds, in ticks; 0 disables it
  Slack,      \* the most ticks between two runs of the 1 s publish timer
  Cap         \* bound: ages from here on are not told apart

\* The timer runs every second and a heartbeat may be three seconds old.
ASSUME MonitorAssumption ==
  /\ Timeout \in Nat /\ Grace \in Nat /\ AutoEstop \in Nat /\ Slack \in Nat
  /\ Slack <= Timeout
  /\ Cap \in Nat /\ Timeout < Cap /\ Grace <= Cap /\ AutoEstop <= Cap

VARIABLES
  heard,          \* received_heartbeat
  age,            \* age of last_heartbeat
  outage,         \* age of offline_since, or Unset
  auto_estopped,  \* auto_estopped
  late,           \* ticks since the publish timer ran
  fleet,          \* what the last /fleet/state says of each robot
  estop,          \* the last message on each /robotN/estop
  estop_active,   \* each gate's estop_active_
  cmd             \* the last cmd_vel each gate published

recordVars == <<heard, age, outage, auto_estopped, late, fleet>>
gateVars == <<estop_active, cmd>>
vars == <<recordVars, estop, gateVars>>

Unset == -1

TypeOK ==
  /\ heard \in [Robot -> BOOLEAN]
  /\ age \in [Robot -> 0 .. Cap]
  /\ outage \in [Robot -> {Unset} \cup 0 .. Cap]
  /\ auto_estopped \in [Robot -> BOOLEAN]
  /\ late \in 0 .. Slack
  /\ fleet \in [Robot -> [online : BOOLEAN, confirmed_offline : BOOLEAN]]
  /\ estop \in [Robot -> {"none", "engage", "release"}]
  /\ estop_active \in [Robot -> BOOLEAN]
  /\ cmd \in [Robot -> {"zero", "moving"}]

Init ==
  /\ heard = [r \in Robot |-> FALSE] /\ age = [r \in Robot |-> Cap]
  /\ outage = [r \in Robot |-> Unset]
  /\ auto_estopped = [r \in Robot |-> FALSE]
  /\ late = 0
  /\ fleet = [r \in Robot |-> [online |-> FALSE, confirmed_offline |-> FALSE]]
  /\ estop = [r \in Robot |-> "none"]
  /\ estop_active = [r \in Robot |-> FALSE] /\ cmd = [r \in Robot |-> "zero"]

(***************************************************************************)
(* Heartbeats and time.                                                    *)
(***************************************************************************)
\* Mutant of HeartbeatCallback: the robot's own stamp is kept, and its clock
\* is ahead.
HeartbeatStamped(r) ==
  /\ heard' = [heard EXCEPT ![r] = TRUE] /\ age' = [age EXCEPT ![r] = -1]
  /\ UNCHANGED <<outage, auto_estopped, late, fleet, estop, gateVars>>

\* heartbeat_callback: last_heartbeat is when it was received.
HeartbeatCallback(r) ==
  /\ heard' = [heard EXCEPT ![r] = TRUE] /\ age' = [age EXCEPT ![r] = 0]
  /\ UNCHANGED <<outage, auto_estopped, late, fleet, estop, gateVars>>

Older(a) == IF a = Cap THEN Cap ELSE a + 1

Tick ==
  /\ late < Slack /\ late' = late + 1
  /\ age' = [r \in Robot |-> Older(age[r])]
  /\ outage' = [r \in Robot |->
                  IF outage[r] = Unset THEN Unset ELSE Older(outage[r])]
  /\ UNCHANGED <<heard, auto_estopped, fleet, estop, gateVars>>

(***************************************************************************)
(* The publish timer: publish_fleet_state.                                 *)
(***************************************************************************)
Online(r) == heard[r] /\ age[r] <= Timeout

\* Mutant of Mark: offline_since is not cleared when the robot is back.
MarkKept(r) == IF ~Online(r) /\ outage[r] = Unset THEN 0 ELSE outage[r]

\* Mutant of Mark: offline_since is set anew every time.
MarkRestarted(r) == IF Online(r) THEN Unset ELSE 0

\* offline_since, set when the robot is first seen offline.
Mark(r) ==
  IF Online(r) THEN Unset ELSE IF outage[r] = Unset THEN 0 ELSE outage[r]

ConfirmedOffline(r) == ~Online(r) /\ Mark(r) >= Grace

AutoStops(r) == /\ ~Online(r) /\ ~auto_estopped[r]
                /\ AutoEstop > 0 /\ Mark(r) >= AutoEstop

PublishFleetState ==
  /\ late' = 0
  /\ outage' = [r \in Robot |-> Mark(r)]
  /\ fleet' = [r \in Robot |-> [online |-> Online(r),
                                confirmed_offline |-> ConfirmedOffline(r)]]
  /\ auto_estopped' = [r \in Robot |->
                         ~Online(r) /\ (auto_estopped[r] \/ AutoStops(r))]
  /\ estop' = [r \in Robot |-> IF AutoStops(r) THEN "engage" ELSE estop[r]]
  /\ UNCHANGED <<heard, age, gateVars>>

(***************************************************************************)
(* The e-stop services and the gates.                                      *)
(***************************************************************************)
\* handle_estop_all.
EstopAll ==
  /\ estop' = [r \in Robot |-> "engage"]
  /\ UNCHANGED <<recordVars, gateVars>>

\* Mutant of ReleaseAll: the records are not told.
ReleaseKeepsFlag ==
  /\ estop' = [r \in Robot |-> "release"]
  /\ UNCHANGED <<recordVars, gateVars>>

\* handle_estop_release_all: a robot still offline will be stopped again.
ReleaseAll ==
  /\ estop' = [r \in Robot |-> "release"]
  /\ auto_estopped' = [r \in Robot |-> FALSE]
  /\ UNCHANGED <<heard, age, outage, late, fleet, gateVars>>

\* Mutant of EstopCallback: engaging does not stop the base by itself.
EngageSilently(r) ==
  /\ estop[r] # "none"
  /\ estop_active' = [estop_active EXCEPT ![r] = (estop[r] = "engage")]
  /\ UNCHANGED <<recordVars, estop, cmd>>

\* estop_callback of the robot's gate.
EstopCallback(r) ==
  /\ estop[r] # "none"
  /\ estop_active' = [estop_active EXCEPT ![r] = (estop[r] = "engage")]
  /\ cmd' = [cmd EXCEPT ![r] =
               IF estop[r] = "engage" /\ ~estop_active[r] THEN "zero" ELSE @]
  /\ UNCHANGED <<recordVars, estop>>

\* nav_cmd_vel_callback, for a velocity that may or may not be zero.
NavCmdVelCallback(r, velocity) ==
  /\ cmd' = [cmd EXCEPT ![r] = IF estop_active[r] THEN "zero" ELSE velocity]
  /\ UNCHANGED <<recordVars, estop, estop_active>>

\* A gate starts, or starts again: it has seen no e-stop message yet.
GateStarts(r) ==
  /\ estop_active' = [estop_active EXCEPT ![r] = FALSE]
  /\ UNCHANGED <<recordVars, estop, cmd>>

-----------------------------------------------------------------------------
Next ==
  \/ \E r \in Robot : HeartbeatCallback(r)
  \/ Tick
  \/ PublishFleetState
  \/ EstopAll
  \/ ReleaseAll
  \/ \E r \in Robot : EstopCallback(r)
  \/ \E r \in Robot, velocity \in {"zero", "moving"} : NavCmdVelCallback(r, velocity)
  \/ \E r \in Robot : GateStarts(r)

Spec == Init /\ [][Next]_vars

\* Time passes, the timer fires and the e-stop topic delivers.  Robots need
\* not send heartbeats, nor operators call anything.
FairSpec ==
  /\ Spec
  /\ WF_vars(Tick) /\ WF_vars(PublishFleetState)
  /\ \A r \in Robot : WF_vars(EstopCallback(r))

-----------------------------------------------------------------------------
\* While a gate holds the e-stop, the last velocity the base got is zero:
\* "forces cmd_vel to zero on e-stop" (README.md, table of packages).  It
\* must hold from the moment the gate engages, even if Nav2 sends nothing.
StoppedMeansStill == \A r \in Robot : estop_active[r] => cmd[r] = "zero"

\* A robot reported confirmed_offline was silent for the whole grace period:
\* "so confirmed_offline can require a sustained dropout instead of reacting
\* to a single missed heartbeat" (comment at lines 194-196).  The scheduler
\* gives up the missions of such a robot.  It is not obvious: offline_since
\* is only cleared by a timer run that sees the robot online, so heartbeats
\* that go stale between two runs would not count.
ConfirmedIsSustained ==
  [][\A r \in Robot :
       fleet'[r].confirmed_offline /\ ~fleet[r].confirmed_offline
       => ~heard[r] \/ age[r] >= Grace]_vars

\* fleet_manager holds an automatic e-stop for done only while the e-stop it
\* published is in force: no order of outages, recoveries, engagements and
\* releases leaves the flag set behind a released robot, which would never
\* be stopped again in this outage.
AutoStopInForce == \A r \in Robot : auto_estopped[r] => estop[r] = "engage"

\* With the automatic e-stop enabled, a robot that is never heard of again is
\* stopped in the end, whatever was released before, if its gate stays up.
LostRobotStops ==
  \A r \in Robot :
    /\ <>[](~heard[r] \/ age[r] > Timeout)
    /\ <>[][~(ReleaseAll \/ GateStarts(r))]_vars
    => <>[](estop_active[r])
=============================================================================
