------------------------- MODULE FleetHealth_proofs -------------------------
(***************************************************************************)
(* Proofs about the fleet monitor and about localization health on its way *)
(* to the fleet, for any robots, positions, limits, holds and any timing   *)
(* parameters that satisfy MonitorAssumption.  The first part is about     *)
(* FleetMonitor alone: its types, the two e-stop invariants and            *)
(* ConfirmedIsSustained.  The second shows that the composition with the   *)
(* watchdogs keeps every behaviour of FleetMonitor, so that what is proved *)
(* of the monitor holds in it, and that the watchdog's verdict follows the *)
(* jumps.                                                                  *)
(***************************************************************************)
EXTENDS FleetHealth, TLAPS

\* An age grows by one a tick until Cap, where it stays.
LEMMA OlderBounds ==
  ASSUME NEW a \in 0 .. Cap
  PROVE  /\ Older(a) \in 0 .. Cap
         /\ Older(a) = a \/ Older(a) = a + 1
         /\ a < Cap => Older(a) = a + 1
  BY MonitorAssumption DEF Older

\* What publish_fleet_state writes to offline_since is unset or an age.
LEMMA MarkBounds ==
  ASSUME TypeOK, NEW r \in Robot
  PROVE  Mark(r) \in {Unset} \cup 0 .. Cap
  BY MonitorAssumption DEF TypeOK, Mark, Unset

\* The variables keep their types: ages stay below Cap, and the timer is
\* never later than Slack.
THEOREM TypeCorrect == Spec => []TypeOK
<1>1. Init => TypeOK
  BY MonitorAssumption DEF Init, TypeOK, Unset
<1>2. TypeOK /\ [Next]_vars => TypeOK'
  <2> SUFFICES ASSUME TypeOK, [Next]_vars
               PROVE  TypeOK'
    OBVIOUS
  <2> USE MonitorAssumption DEF TypeOK, recordVars, gateVars
  <2>1. CASE \E r \in Robot : HeartbeatCallback(r)
    BY <2>1 DEF HeartbeatCallback
  <2>2. CASE Tick
    <3>1. age' \in [Robot -> 0 .. Cap]
      BY <2>2, OlderBounds DEF Tick
    <3>2. outage' \in [Robot -> {Unset} \cup 0 .. Cap]
      <4>1. \A r \in Robot : outage[r] # Unset => Older(outage[r]) \in 0 .. Cap
        BY OlderBounds
      <4> QED
        BY <2>2, <4>1 DEF Tick
    <3>3. late' \in 0 .. Slack
      BY <2>2 DEF Tick
    <3> QED
      BY <2>2, <3>1, <3>2, <3>3 DEF Tick
  <2>3. CASE PublishFleetState
    <3>1. outage' \in [Robot -> {Unset} \cup 0 .. Cap]
      BY <2>3, MarkBounds DEF PublishFleetState
    <3>2. fleet' \in [Robot -> [online : BOOLEAN, confirmed_offline : BOOLEAN]]
      <4>1. \A r \in Robot : Online(r) \in BOOLEAN /\ ConfirmedOffline(r) \in BOOLEAN
        BY DEF Online, ConfirmedOffline
      <4> QED
        BY <2>3, <4>1 DEF PublishFleetState
    <3>3. auto_estopped' \in [Robot -> BOOLEAN]
      BY <2>3, Zenon DEF PublishFleetState
    <3> QED
      BY <2>3, <3>1, <3>2, <3>3 DEF PublishFleetState
  <2>4. CASE EstopAll
    BY <2>4 DEF EstopAll
  <2>5. CASE ReleaseAll
    BY <2>5 DEF ReleaseAll
  <2>6. CASE \E r \in Robot : EstopCallback(r)
    BY <2>6 DEF EstopCallback
  <2>7. CASE \E r \in Robot, velocity \in {"zero", "moving"} : NavCmdVelCallback(r, velocity)
    BY <2>7 DEF NavCmdVelCallback
  <2>8. CASE \E r \in Robot : GateStarts(r)
    BY <2>8 DEF GateStarts
  <2>9. CASE UNCHANGED vars
    BY <2>9 DEF vars
  <2> QED
    BY <2>1, <2>2, <2>3, <2>4, <2>5, <2>6, <2>7, <2>8, <2>9 DEF Next
<1> QED
  BY <1>1, <1>2, PTL DEF Spec

\* While a gate holds the e-stop, the last velocity the base got is zero.
THEOREM StoppedIsStill == Spec => []StoppedMeansStill
<1>1. Init => StoppedMeansStill
  BY DEF Init, StoppedMeansStill
<1>2. TypeOK /\ StoppedMeansStill /\ [Next]_vars => StoppedMeansStill'
  <2> SUFFICES ASSUME TypeOK, StoppedMeansStill, [Next]_vars
               PROVE  StoppedMeansStill'
    OBVIOUS
  <2> USE DEF TypeOK, StoppedMeansStill, recordVars, gateVars
  <2>1. CASE \E r \in Robot : EstopCallback(r)
    BY <2>1 DEF EstopCallback
  <2>2. CASE \E r \in Robot, velocity \in {"zero", "moving"} : NavCmdVelCallback(r, velocity)
    BY <2>2 DEF NavCmdVelCallback
  <2>3. CASE \E r \in Robot : GateStarts(r)
    BY <2>3 DEF GateStarts
  <2>4. CASE UNCHANGED gateVars
    BY <2>4
  <2> QED
    BY <2>1, <2>2, <2>3, <2>4
    DEF Next, vars, HeartbeatCallback, Tick, PublishFleetState, EstopAll, ReleaseAll
<1> QED
  BY <1>1, <1>2, TypeCorrect, PTL DEF Spec

\* An automatic e-stop that fleet_manager holds for done is in force.
THEOREM AutoStopHolds == Spec => []AutoStopInForce
<1>1. Init => AutoStopInForce
  BY DEF Init, AutoStopInForce
<1>2. TypeOK /\ AutoStopInForce /\ [Next]_vars => AutoStopInForce'
  <2> SUFFICES ASSUME TypeOK, AutoStopInForce, [Next]_vars
               PROVE  AutoStopInForce'
    OBVIOUS
  <2> USE DEF TypeOK, AutoStopInForce, recordVars
  <2>1. CASE PublishFleetState
    BY <2>1, Zenon DEF PublishFleetState
  <2>2. CASE EstopAll
    BY <2>2 DEF EstopAll
  <2>3. CASE ReleaseAll
    BY <2>3 DEF ReleaseAll
  <2>4. CASE UNCHANGED <<auto_estopped, estop>>
    BY <2>4
  <2> QED
    BY <2>1, <2>2, <2>3, <2>4
    DEF Next, vars, HeartbeatCallback, Tick, EstopCallback, NavCmdVelCallback,
        GateStarts
<1> QED
  BY <1>1, <1>2, TypeCorrect, PTL DEF Spec

-----------------------------------------------------------------------------
\* The invariant behind ConfirmedIsSustained.  offline_since is not newer
\* than the silence it stands for - unless a heartbeat came since the timer
\* ran, and then the robot is still online when the timer runs next, which is
\* what Slack <= Timeout is needed for.
SilenceIsOlder ==
  \A r \in Robot : outage[r] # Unset /\ heard[r] =>
                     age[r] >= outage[r] \/ age[r] <= late

\* It is inductive given the types: only heartbeats, ticks and the timer
\* touch what it speaks of.
LEMMA SilenceInvariant == Spec => []SilenceIsOlder
<1>1. Init => SilenceIsOlder
  BY DEF Init, SilenceIsOlder
<1>2. TypeOK /\ SilenceIsOlder /\ [Next]_vars => SilenceIsOlder'
  <2> SUFFICES ASSUME TypeOK, SilenceIsOlder, [Next]_vars,
                      NEW r \in Robot, outage'[r] # Unset, heard'[r]
               PROVE  age'[r] >= outage'[r] \/ age'[r] <= late'
    BY DEF SilenceIsOlder
  <2> USE MonitorAssumption DEF TypeOK, SilenceIsOlder, Unset
  <2>1. CASE \E s \in Robot : HeartbeatCallback(s)
    BY <2>1 DEF HeartbeatCallback
  <2>2. CASE Tick
    <3>1. outage[r] # Unset /\ heard[r]
      BY <2>2 DEF Tick
    <3>2. outage[r] \in 0 .. Cap /\ age[r] \in 0 .. Cap /\ late \in Nat
      BY <3>1
    <3>3. /\ age'[r] = Older(age[r]) /\ outage'[r] = Older(outage[r])
          /\ late' = late + 1
      BY <2>2, <3>1 DEF Tick
    <3> QED
      BY <3>1, <3>2, <3>3 DEF Older
  <2>3. CASE PublishFleetState
    <3>1. ~Online(r) /\ heard[r] /\ age'[r] = age[r] /\ outage'[r] = Mark(r)
      BY <2>3 DEF PublishFleetState, Mark
    <3>2. age[r] \in 0 .. Cap /\ age[r] > Timeout /\ late <= Timeout
      BY <3>1 DEF Online
    <3>3. CASE outage[r] = Unset
      BY <3>1, <3>2, <3>3 DEF Mark
    <3>4. CASE outage[r] # Unset
      BY <3>1, <3>2, <3>4 DEF Mark
    <3> QED
      BY <3>3, <3>4
  <2>4. CASE UNCHANGED <<heard, age, outage, late>>
    BY <2>4
  <2> QED
    BY <2>1, <2>2, <2>3, <2>4
    DEF Next, vars, recordVars, EstopAll, ReleaseAll, EstopCallback,
        NavCmdVelCallback, GateStarts
<1> QED
  BY <1>1, <1>2, TypeCorrect, PTL DEF Spec

\* A robot newly reported confirmed_offline has been silent for the whole
\* grace period.
THEOREM ConfirmationIsSustained == Spec => ConfirmedIsSustained
<1> DEFINE Sustained(r) ==
      fleet'[r].confirmed_offline /\ ~fleet[r].confirmed_offline
      => ~heard[r] \/ age[r] >= Grace
<1>1. TypeOK /\ SilenceIsOlder /\ [Next]_vars => [\A r \in Robot : Sustained(r)]_vars
  <2> SUFFICES ASSUME TypeOK, SilenceIsOlder, Next, NEW r \in Robot,
                      fleet'[r].confirmed_offline, ~fleet[r].confirmed_offline,
                      heard[r]
               PROVE  age[r] >= Grace
    BY Zenon
  <2>1. PublishFleetState
    <3>1. fleet' # fleet
      OBVIOUS
    <3> QED
      BY <3>1
      DEF Next, recordVars, HeartbeatCallback, Tick, EstopAll, ReleaseAll,
          EstopCallback, NavCmdVelCallback, GateStarts
  <2>2. ConfirmedOffline(r)
    BY <2>1 DEF PublishFleetState
  <2>3. ~Online(r) /\ Mark(r) >= Grace
    BY <2>2 DEF ConfirmedOffline
  <2>4. age[r] \in 0 .. Cap /\ age[r] > Timeout /\ late <= Timeout /\ late \in Nat
    BY <2>3, MonitorAssumption DEF Online, TypeOK
  <2>5. CASE outage[r] = Unset
    BY <2>3, <2>4, <2>5, MonitorAssumption DEF Mark, Unset
  <2>6. CASE outage[r] # Unset
    <3>1. outage[r] \in 0 .. Cap
      BY <2>6 DEF TypeOK
    <3>2. age[r] >= outage[r]
      BY <2>4, <2>6, <3>1, MonitorAssumption DEF SilenceIsOlder
    <3> QED
      BY <2>3, <2>4, <2>6, <3>1, <3>2, MonitorAssumption DEF Mark
  <2> QED
    BY <2>5, <2>6
<1> QED
  BY <1>1, TypeCorrect, SilenceInvariant, PTL DEF Spec, ConfirmedIsSustained

-----------------------------------------------------------------------------
\* Every step of the composition is a step of the monitor or leaves it alone.
LEMMA MonitorStep ==
  ASSUME [HealthNext]_allVars
  PROVE  [Next]_vars
<1>1. CASE \E r \in Robot, p \in Position \cup {Missing} : Check(r, p)
  BY <1>1 DEF Check
<1>2. CASE \E r \in Robot : LocalizationOkCallback(r)
  BY <1>2 DEF LocalizationOkCallback
<1>3. CASE \E r \in Robot : Heartbeat(r)
  BY <1>3 DEF Heartbeat, Next
<1>4. CASE Publish
  BY <1>4 DEF Publish, Next
<1>5. CASE TimePasses
  BY <1>5 DEF TimePasses, Next
<1>6. CASE Stops
  BY <1>6 DEF Stops, Next
<1>7. CASE UNCHANGED allVars
  BY <1>7 DEF allVars
<1> QED
  BY <1>1, <1>2, <1>3, <1>4, <1>5, <1>6, <1>7 DEF HealthNext

\* The composition implements FleetMonitor: localization adds nothing to and
\* takes nothing from heartbeats, outages, e-stops and gates.
THEOREM HealthIsAMonitor == HealthSpec => Spec
<1>1. HealthInit => Init
  BY DEF HealthInit
<1>2. [HealthNext]_allVars => [Next]_vars
  BY MonitorStep
<1> QED
  BY <1>1, <1>2, PTL DEF HealthSpec, Spec

\* The age of a jump grows by one a tick until JumpCap, where it stays.
LEMMA OlderJumpBounds ==
  ASSUME NEW a \in {Unset} \cup 0 .. JumpCap
  PROVE  /\ OlderJump(a) \in {Unset} \cup 0 .. JumpCap
         /\ a = Unset <=> OlderJump(a) = Unset
         /\ a # Unset => OlderJump(a) >= a /\ OlderJump(a) <= a + 1
  BY MonitorAssumption, HealthAssumption DEF OlderJump, JumpCap, Unset

\* The variables this module adds keep their types.
HealthTypes ==
  /\ last_position \in [Robot -> Position \cup {None}]
  /\ last_jump \in [Robot -> {Unset} \cup 0 .. JumpCap]
  /\ localization_ok \in [Robot -> BOOLEAN]
  /\ unchecked \in [Robot -> 0 .. Slack]
  /\ told \in [Robot -> BOOLEAN]
  /\ record_ok \in [Robot -> BOOLEAN] /\ fleet_ok \in [Robot -> BOOLEAN]
  /\ shown \in [Robot -> Position \cup {None}]
  /\ sinceJump \in [Robot -> {Unset} \cup 0 .. JumpCap]

LEMMA HealthTypesStep ==
  ASSUME HealthTypes, [HealthNext]_allVars
  PROVE  HealthTypes'
<1> USE MonitorAssumption, HealthAssumption DEF HealthTypes
<1>1. ASSUME NEW r \in Robot, NEW p \in Position \cup {Missing}, Check(r, p)
      PROVE  HealthTypes'
  <2> USE <1>1 DEF Check
  <2>1. last_position' \in [Robot -> Position \cup {None}]
    BY DEF Remembered
  <2>2. 0 \in 0 .. JumpCap
    BY DEF JumpCap
  <2>3. last_jump' \in [Robot -> {Unset} \cup 0 .. JumpCap]
    BY <2>2 DEF JumpAge
  <2>4. localization_ok' \in [Robot -> BOOLEAN]
    BY Zenon
  <2>5. unchecked' \in [Robot -> 0 .. Slack]
    OBVIOUS
  <2>6. told' \in [Robot -> BOOLEAN]
    BY Zenon
  <2>7. shown' \in [Robot -> Position \cup {None}]
    OBVIOUS
  <2>8. sinceJump' \in [Robot -> {Unset} \cup 0 .. JumpCap]
    BY <2>2
  <2> QED
    BY <2>1, <2>3, <2>4, <2>5, <2>6, <2>7, <2>8 DEF reportVars
<1>2. CASE \E r \in Robot : LocalizationOkCallback(r)
  BY <1>2 DEF LocalizationOkCallback, watchdogVars, reportVars
<1>3. CASE \E r \in Robot : Heartbeat(r)
  BY <1>3 DEF Heartbeat, watchdogVars
<1>4. CASE Publish
  BY <1>4 DEF Publish, watchdogVars
<1>5. CASE TimePasses
  <2>1. /\ last_jump' \in [Robot -> {Unset} \cup 0 .. JumpCap]
        /\ sinceJump' \in [Robot -> {Unset} \cup 0 .. JumpCap]
    BY <1>5, OlderJumpBounds DEF TimePasses
  <2>2. unchecked' \in [Robot -> 0 .. Slack]
    BY <1>5 DEF TimePasses
  <2> QED
    BY <1>5, <2>1, <2>2 DEF TimePasses, reportVars
<1>6. CASE Stops \/ UNCHANGED allVars
  BY <1>6 DEF Stops, allVars, healthVars, watchdogVars, reportVars
<1> QED
  BY <1>1, <1>2, <1>3, <1>4, <1>5, <1>6 DEF HealthNext

LEMMA HealthTypesInit == HealthInit => HealthTypes
  BY MonitorAssumption, HealthAssumption DEF HealthInit, HealthTypes

\* The type invariant of the composition.
THEOREM HealthTypeCorrect == HealthSpec => []HealthTypeOK
<1>1. HealthTypes /\ TypeOK => HealthTypeOK
  BY DEF HealthTypes, HealthTypeOK
<1>2. HealthSpec => []HealthTypes
  BY HealthTypesInit, HealthTypesStep, PTL DEF HealthSpec
<1> QED
  BY <1>1, <1>2, HealthIsAMonitor, TypeCorrect, PTL

-----------------------------------------------------------------------------
\* The watchdog's memory is that of the jumps shown to it; with this the
\* verdict is inductive.
MemoryIsTrue == last_position = shown /\ last_jump = sinceJump

LEMMA VerdictStep ==
  ASSUME HealthTypes, MemoryIsTrue, StatusFollowsJumps, [HealthNext]_allVars
  PROVE  MemoryIsTrue' /\ StatusFollowsJumps'
<1> USE MonitorAssumption, HealthAssumption DEF HealthTypes, MemoryIsTrue
<1>1. ASSUME NEW s \in Robot, NEW p \in Position \cup {Missing}, Check(s, p)
      PROVE  MemoryIsTrue' /\ StatusFollowsJumps'
  <2>1. MemoryIsTrue'
    BY <1>1 DEF Check, Remembered, JumpAge
  <2>2. ASSUME NEW r \in Robot, r # s
        PROVE  /\ localization_ok'[r] = localization_ok[r]
               /\ sinceJump'[r] = sinceJump[r] /\ unchecked'[r] = unchecked[r]
    BY <1>1, <2>2 DEF Check
  <2>3. unchecked'[s] = 0
    BY <1>1 DEF Check
  <2>4. CASE Jumps(p, last_position[s])
    <3>1. localization_ok'[s] = FALSE /\ sinceJump'[s] = 0
      BY <1>1, <2>4 DEF Check
    <3>2. \A r \in Robot : r # s => IF localization_ok'[r]
                    THEN sinceJump'[r] = Unset \/ sinceJump'[r] >= Hold
                    ELSE sinceJump'[r] # Unset /\ sinceJump'[r] - unchecked'[r] < Hold
      BY <2>2 DEF StatusFollowsJumps
    <3> QED
      BY <2>1, <2>3, <3>1, <3>2 DEF StatusFollowsJumps, Unset
  <2>5. CASE ~Jumps(p, last_position[s])
    <3>1. /\ localization_ok'[s] = (localization_ok[s] \/ Expired(s))
          /\ sinceJump'[s] = sinceJump[s]
      BY <1>1, <2>5 DEF Check
    <3>2. IF localization_ok'[s]
          THEN sinceJump'[s] = Unset \/ sinceJump'[s] >= Hold
          ELSE sinceJump'[s] # Unset /\ sinceJump'[s] - unchecked'[s] < Hold
      <4>1. CASE localization_ok[s]
        BY <3>1, <4>1 DEF StatusFollowsJumps
      <4>2. CASE ~localization_ok[s] /\ Expired(s)
        BY <3>1, <4>2 DEF Expired
      <4>3. CASE ~localization_ok[s] /\ ~Expired(s)
        <5>1. sinceJump[s] # Unset
          BY <4>3 DEF StatusFollowsJumps
        <5>2. sinceJump[s] \in 0 .. JumpCap /\ ~(sinceJump[s] >= Hold)
          BY <4>3, <5>1 DEF Expired
        <5>3. sinceJump[s] < Hold
          BY <5>2 DEF JumpCap
        <5>4. localization_ok'[s] = FALSE
          BY <3>1, <4>3
        <5> QED
          BY <2>3, <3>1, <5>1, <5>2, <5>3, <5>4
      <4> QED
        BY <4>1, <4>2, <4>3
    <3>3. \A r \in Robot : r # s => IF localization_ok'[r]
                    THEN sinceJump'[r] = Unset \/ sinceJump'[r] >= Hold
                    ELSE sinceJump'[r] # Unset /\ sinceJump'[r] - unchecked'[r] < Hold
      BY <2>2 DEF StatusFollowsJumps
    <3> QED
      BY <2>1, <3>2, <3>3 DEF StatusFollowsJumps
  <2> QED
    BY <2>4, <2>5
<1>2. CASE TimePasses
  <2>1. MemoryIsTrue'
    BY <1>2 DEF TimePasses
  <2>2. SUFFICES ASSUME NEW r \in Robot
                 PROVE  IF localization_ok'[r]
                        THEN sinceJump'[r] = Unset \/ sinceJump'[r] >= Hold
                        ELSE /\ sinceJump'[r] # Unset
                             /\ sinceJump'[r] - unchecked'[r] < Hold
    BY <2>1 DEF StatusFollowsJumps
  <2>3. /\ localization_ok'[r] = localization_ok[r]
        /\ unchecked'[r] = unchecked[r] + 1
        /\ sinceJump'[r] = OlderJump(sinceJump[r])
    BY <1>2 DEF TimePasses
  <2>4. /\ sinceJump[r] = Unset <=> sinceJump'[r] = Unset
        /\ sinceJump[r] # Unset => /\ sinceJump'[r] >= sinceJump[r]
                                   /\ sinceJump'[r] <= sinceJump[r] + 1
        /\ sinceJump'[r] \in {Unset} \cup 0 .. JumpCap
    BY <2>3, OlderJumpBounds
  <2>5. sinceJump[r] # Unset => sinceJump[r] \in Int /\ sinceJump'[r] \in Int
    BY <2>4 DEF JumpCap
  <2>6. unchecked[r] \in Int /\ Hold \in Int
    OBVIOUS
  <2>7. CASE localization_ok[r]
    <3>1. sinceJump[r] = Unset \/ sinceJump[r] >= Hold
      BY <2>7 DEF StatusFollowsJumps
    <3> QED
      BY <2>3, <2>4, <2>5, <2>6, <2>7, <3>1
  <2>8. CASE ~localization_ok[r]
    <3>1. sinceJump[r] # Unset /\ sinceJump[r] - unchecked[r] < Hold
      BY <2>8 DEF StatusFollowsJumps
    <3>2. sinceJump'[r] # Unset /\ sinceJump'[r] - unchecked'[r] < Hold
      BY <2>3, <2>4, <2>5, <2>6, <3>1
    <3> QED
      BY <2>3, <2>8, <3>2
  <2> QED
    BY <2>7, <2>8
<1>3. CASE UNCHANGED <<watchdogVars, shown, sinceJump>>
  BY <1>3 DEF StatusFollowsJumps, watchdogVars
<1> QED
  BY <1>1, <1>2, <1>3
  DEF HealthNext, LocalizationOkCallback, Heartbeat, Publish, Stops, allVars, healthVars

\* The verdict follows the jumps, across gaps and overlapping holds.
THEOREM VerdictFollowsJumps == HealthSpec => []StatusFollowsJumps
<1>1. HealthInit => MemoryIsTrue /\ StatusFollowsJumps
  BY DEF HealthInit, MemoryIsTrue, StatusFollowsJumps
<1> QED
  BY <1>1, HealthTypesInit, HealthTypesStep, VerdictStep, PTL DEF HealthSpec

\* The monitor's promises in the composition.
THEOREM HealthKeepsStops ==
  HealthSpec => [](StoppedMeansStill /\ AutoStopInForce)
  BY HealthIsAMonitor, StoppedIsStill, AutoStopHolds, PTL
=============================================================================
