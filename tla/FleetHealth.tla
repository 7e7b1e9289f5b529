----------------------------- MODULE FleetHealth -----------------------------
(***************************************************************************)
(* How localization health reaches the fleet: each robot's                 *)
(* pose_jump_watchdog watches map -> base_link for jumps, its              *)
(* robot_heartbeat passes the verdict on with every heartbeat, and         *)
(* fleet_manager (module FleetMonitor) publishes it with /fleet/state,     *)
(* where the scheduler reads whether a robot may be sent.                  *)
(*                                                                         *)
(* Abstractions:                                                           *)
(*  - A position is a point of a line; what counts is whether two of them  *)
(*    are further apart than max_linear_jump_meters.                       *)
(*  - The pose moves as it likes between two checks, so that it is an      *)
(*    input of the check.  Missing stands for a transform tf cannot give.  *)
(*  - A tick is at least a check period, and at most Slack ticks pass      *)
(*    between two checks, as between two runs of the publish timer.        *)
(*  - A heartbeat is sent and received in one step.  What it carries was   *)
(*    delivered to robot_heartbeat before, at any time: the delay of one   *)
(*    stands for the delay of both.                                        *)
(***************************************************************************)
EXTENDS FleetMonitor

CONSTANTS
  Length,   \* positions are 0 .. Length
  MaxJump,  \* max_linear_jump_meters, in steps of the line
  Hold      \* hold_seconds, in ticks

ASSUME HealthAssumption ==
  Length \in Nat /\ MaxJump \in Nat /\ Hold \in Nat \ {0}

VARIABLES
  last_position,    \* last_position_ of each watchdog, or None
  last_jump,        \* age of its last_jump_at_, or Unset
  localization_ok,  \* its localization_ok_, the message its topic holds
  unchecked,        \* ticks since its check timer ran
  told,             \* localization_ok_ of each robot_heartbeat
  record_ok,        \* localization_ok in fleet_manager's record
  fleet_ok,         \* localization_ok in the last /fleet/state
  shown,            \* history: the last position a check was shown, or None
  sinceJump         \* history: ticks since that position jumped, or Unset

watchdogVars == <<last_position, last_jump, localization_ok, unchecked>>
reportVars == <<record_ok, fleet_ok>>
healthVars == <<watchdogVars, told, reportVars, shown, sinceJump>>
allVars == <<vars, healthVars>>

Position == 0 .. Length
None == -1
Missing == -2

\* Ages of jumps from here on are not told apart.
JumpCap == Hold + Slack

HealthTypeOK ==
  /\ TypeOK
  /\ last_position \in [Robot -> Position \cup {None}]
  /\ last_jump \in [Robot -> {Unset} \cup 0 .. JumpCap]
  /\ localization_ok \in [Robot -> BOOLEAN]
  /\ unchecked \in [Robot -> 0 .. Slack]
  /\ told \in [Robot -> BOOLEAN]
  /\ record_ok \in [Robot -> BOOLEAN] /\ fleet_ok \in [Robot -> BOOLEAN]
  /\ shown \in [Robot -> Position \cup {None}]
  /\ sinceJump \in [Robot -> {Unset} \cup 0 .. JumpCap]

HealthInit ==
  /\ Init
  /\ last_position = [r \in Robot |-> None]
  /\ last_jump = [r \in Robot |-> Unset]
  /\ localization_ok = [r \in Robot |-> TRUE]
  /\ unchecked = [r \in Robot |-> 0]
  /\ told = [r \in Robot |-> TRUE]
  /\ record_ok = [r \in Robot |-> TRUE] /\ fleet_ok = [r \in Robot |-> TRUE]
  /\ shown = [r \in Robot |-> None]
  /\ sinceJump = [r \in Robot |-> Unset]

(***************************************************************************)
(* The watchdog: check.                                                    *)
(***************************************************************************)
Far(p, q) == p - q > MaxJump \/ q - p > MaxJump

\* The position p is a jump from q, if there was one.
Jumps(p, q) == p # Missing /\ q # None /\ Far(p, q)

\* The hold after the last jump is over.
Expired(r) == /\ ~localization_ok[r]
              /\ last_jump[r] # Unset /\ last_jump[r] >= Hold

\* Mutant of JumpAge: a jump during the hold does not restart it.
JumpAgeOfFirst(r, p) ==
  IF Jumps(p, last_position[r]) /\ localization_ok[r] THEN 0 ELSE last_jump[r]

\* The age of last_jump_at_ after a check that finds the robot at p.
JumpAge(r, p) == IF Jumps(p, last_position[r]) THEN 0 ELSE last_jump[r]

\* The position the next check compares with.
Remembered(r, p) == IF p = Missing THEN last_position[r] ELSE p

\* A check that finds the robot at p.  One that ends the hold of one jump and
\* finds the next publishes both verdicts; robot_heartbeat may see the first.
Check(r, p) ==
  /\ last_position' = [last_position EXCEPT ![r] = Remembered(r, p)]
  /\ last_jump' = [last_jump EXCEPT ![r] = JumpAge(r, p)]
  /\ localization_ok' = [localization_ok EXCEPT ![r] =
       ~Jumps(p, last_position[r]) /\ (@ \/ Expired(r))]
  /\ unchecked' = [unchecked EXCEPT ![r] = 0]
  /\ \/ told' = told
     \/ Expired(r) /\ told' = [told EXCEPT ![r] = TRUE]
  /\ shown' = [shown EXCEPT ![r] = IF p = Missing THEN @ ELSE p]
  /\ sinceJump' = [sinceJump EXCEPT ![r] = IF Jumps(p, shown[r]) THEN 0 ELSE @]
  /\ UNCHANGED <<vars, reportVars>>

(***************************************************************************)
(* The way to /fleet/state.                                                *)
(***************************************************************************)
\* robot_heartbeat's localization_ok subscription.
LocalizationOkCallback(r) ==
  /\ told' = [told EXCEPT ![r] = localization_ok[r]]
  /\ UNCHANGED <<vars, watchdogVars, reportVars, shown, sinceJump>>

\* Mutant of Heartbeat: the record keeps a verdict that was not ok.
HeartbeatSticky(r) ==
  /\ HeartbeatCallback(r)
  /\ record_ok' = [record_ok EXCEPT ![r] = @ /\ told[r]]
  /\ UNCHANGED <<watchdogVars, told, fleet_ok, shown, sinceJump>>

\* publish_heartbeat, received by heartbeat_callback.
Heartbeat(r) ==
  /\ HeartbeatCallback(r)
  /\ record_ok' = [record_ok EXCEPT ![r] = told[r]]
  /\ UNCHANGED <<watchdogVars, told, fleet_ok, shown, sinceJump>>

Publish ==
  /\ PublishFleetState
  /\ fleet_ok' = record_ok
  /\ UNCHANGED <<watchdogVars, told, record_ok, shown, sinceJump>>

OlderJump(a) == IF a = Unset \/ a = JumpCap THEN a ELSE a + 1

TimePasses ==
  /\ Tick
  /\ \A r \in Robot : unchecked[r] < Slack
  /\ unchecked' = [r \in Robot |-> unchecked[r] + 1]
  /\ last_jump' = [r \in Robot |-> OlderJump(last_jump[r])]
  /\ sinceJump' = [r \in Robot |-> OlderJump(sinceJump[r])]
  /\ UNCHANGED <<last_position, localization_ok, told, reportVars, shown>>

\* The e-stops and the gates do not look at localization.
Stops ==
  /\ \/ EstopAll \/ ReleaseAll
     \/ \E r \in Robot : EstopCallback(r) \/ GateStarts(r)
     \/ \E r \in Robot, velocity \in {"zero", "moving"} :
          NavCmdVelCallback(r, velocity)
  /\ UNCHANGED healthVars

-----------------------------------------------------------------------------
HealthNext ==
  \/ \E r \in Robot, p \in Position \cup {Missing} : Check(r, p)
  \/ \E r \in Robot : LocalizationOkCallback(r)
  \/ \E r \in Robot : Heartbeat(r)
  \/ Publish
  \/ TimePasses
  \/ Stops

HealthSpec == HealthInit /\ [][HealthNext]_allVars

\* Timers fire and reliable topics deliver.  Heartbeats may stay away.
FairHealthSpec ==
  /\ HealthSpec
  /\ WF_allVars(TimePasses) /\ WF_allVars(Publish)
  /\ \A r \in Robot :
       /\ WF_allVars(\E p \in Position \cup {Missing} : Check(r, p))
       /\ WF_allVars(LocalizationOkCallback(r))
       /\ WF_allVars(EstopCallback(r) /\ UNCHANGED healthVars)

-----------------------------------------------------------------------------
\* The watchdog's verdict is that of the jumps the transforms have shown,
\* also of one across a gap or during the hold of another: not ok from the
\* jump until the first check that comes Hold after the last one.
StatusFollowsJumps ==
  \A r \in Robot :
    IF localization_ok[r]
    THEN sinceJump[r] = Unset \/ sinceJump[r] >= Hold
    ELSE sinceJump[r] # Unset /\ sinceJump[r] - unchecked[r] < Hold

\* While heartbeats keep coming, what /fleet/state says of localization
\* follows: a robot that does not jump any more is offered again, and one
\* that goes on jumping within the hold is not.
LocalizationReported ==
  \A r \in Robot : []<>(heard[r] /\ age[r] = 0) =>
    /\ <>[](sinceJump[r] = Unset \/ sinceJump[r] >= Hold) => <>[]fleet_ok[r]
    /\ <>[](sinceJump[r] \in 0 .. Hold - 1) => <>[]~fleet_ok[r]
=============================================================================
