--------------------------- MODULE FleetDispatch ---------------------------
(***************************************************************************)
(* The fleet manager as a go-between: it forwards missions to the robots'  *)
(* patrol managers, asks the scheduler for an inspection when a severe     *)
(* incident is reported, and writes what it did to the mission store.      *)
(*                                                                         *)
(* The node is single-threaded: a service request and each response to a   *)
(* call of its own are atomic.  A response may come late, in any order or  *)
(* never, and the process may end and start again between two callbacks:   *)
(* it has then forgotten what it asked for, while the store's rows remain  *)
(* and the scheduler, another process, still serves the requests sent.     *)
(*                                                                         *)
(* Abstractions: the tables of the store are bags, given by how many rows  *)
(* of each kind there are (no property is about the order of rows, which   *)
(* are only ever added).  A row the store fails to write is not modelled:  *)
(* the bags hold what was handed to it.  A refused request that leaves no  *)
(* row changes nothing and is left out.                                    *)
(***************************************************************************)
EXTENDS Integers, FiniteSets

CONSTANTS
  Robot,        \* robot_ids
  PatrolRobot,  \* patrol_robot
  Mission,      \* the mission ids the scheduler hands out
  Manual,       \* "manual-dispatch"
  MaxRequests   \* bound: requests handled

ASSUME DispatchAssumption ==
  /\ PatrolRobot \in Robot /\ Manual \notin Mission /\ MaxRequests \in Nat

VARIABLES
  ready,             \* system_ready_
  online,            \* the robots that is_robot_online says are there
  served,            \* the robots whose patrol/start service is ready
  missions,          \* what the scheduler's missions ask for (external)
  calls,             \* StartMission and Trigger calls not answered yet
  log,               \* the mission_events rows about starts and stops
  incident_counter,  \* incident_counter_
  incidents,         \* the incidents rows of a severity that calls for it
  queries,           \* QueueMission requests not served yet, by incident
  strays,            \* those of them that a former process sent
  answers,           \* QueueMission answers whose callback has not run
  inspected,         \* the AUTO_QUEUED_FROM_INCIDENT rows
  orphans,           \* history: calls whose answer a restart made us miss
  unasked,           \* history: incidents whose inspection was not queued
  purpose,           \* history: the incident a mission was queued for, or 0
  missed,            \* history: missions whose answer no callback will see
  handled            \* history: requests handled, for the bound

storeVars    == <<log, incidents, inspected>>
inspectVars  == <<queries, strays, answers, inspected, unasked, purpose, missed>>
incidentVars == <<incident_counter, incidents, inspectVars>>
callVars     == <<calls, log, orphans>>
worldVars    == <<ready, online, served, missions>>
vars == <<worldVars, callVars, incidentVars, handled>>

Incident == 1 .. MaxRequests

\* An incident and the mission queued for its inspection.
Inspection == Incident \X Mission

Call == [command : {"START", "STOP"}, mission : Mission \cup {Manual},
         robot : Robot]

Verdict == {"ACCEPTED_BY_ROBOT", "REJECTED_BY_ROBOT", "FAILED"}

Row == [call : Call, status : Verdict \cup {"DISPATCHED", "REJECTED_BY_FLEET"}]

\* A mission is not there yet; has a target or needs none; lacks a target it
\* needs; or is the inspection of an incident, which lacks it too.
Request == {"none", "complete", "targetless", "inspection"}

TypeOK ==
  /\ ready \in BOOLEAN /\ online \subseteq Robot /\ served \subseteq Robot
  /\ missions \in [Mission -> Request]
  /\ calls \in [Call -> Nat] /\ orphans \in [Call -> Nat]
  /\ log \in [Row -> Nat]
  /\ handled \in 0 .. MaxRequests
  /\ incident_counter \in 0 .. handled
  /\ incidents \in [Incident -> Nat] /\ unasked \in [Incident -> Nat]
  /\ queries \in [Incident -> Nat] /\ strays \in [Incident -> Nat]
  /\ answers \subseteq Inspection /\ inspected \in [Inspection -> Nat]
  /\ purpose \in [Mission -> {0} \cup Incident] /\ missed \subseteq Mission

\* A bag with one more, and one less, of k.
Plus(bag, k) == [bag EXCEPT ![k] = @ + 1]
Minus(bag, k) == [bag EXCEPT ![k] = @ - 1]

Init ==
  /\ ready = FALSE /\ online = {} /\ served = {}
  /\ missions = [m \in Mission |-> "none"]
  /\ calls = [c \in Call |-> 0] /\ orphans = [c \in Call |-> 0]
  /\ log = [e \in Row |-> 0]
  /\ incident_counter = 0 /\ handled = 0
  /\ incidents = [i \in Incident |-> 0] /\ unasked = [i \in Incident |-> 0]
  /\ queries = [i \in Incident |-> 0] /\ strays = [i \in Incident |-> 0]
  /\ answers = {} /\ inspected = [q \in Inspection |-> 0]
  /\ purpose = [m \in Mission |-> 0] /\ missed = {}

(***************************************************************************)
(* What the node learns from others.                                       *)
(***************************************************************************)
SystemReady(value) ==
  /\ ready' = value
  /\ UNCHANGED <<online, served, missions, callVars, incidentVars, handled>>

\* Heartbeats come or go stale (module FleetMonitor); services come and go.
RobotChanges(onlineNow, servedNow) ==
  /\ online' = onlineNow /\ served' = servedNow
  /\ UNCHANGED <<ready, missions, callVars, incidentVars, handled>>

\* Somebody queues a mission at the scheduler, which does not look at the
\* target.
MissionQueued(m, request) ==
  /\ missions[m] = "none"
  /\ missions' = [missions EXCEPT ![m] = request]
  /\ UNCHANGED <<ready, online, served, callVars, incidentVars, handled>>

(***************************************************************************)
(* Starting and stopping missions.                                         *)
(***************************************************************************)
Start(m, r) == [command |-> "START", mission |-> m, robot |-> r]
Stop(m, r) == [command |-> "STOP", mission |-> m, robot |-> r]
RowOf(c, status) == [call |-> c, status |-> status]

Handle == handled < MaxRequests /\ handled' = handled + 1

\* What handle_assign_mission checks before it forwards a start.
Forwards(m, r) ==
  ready /\ r \in online /\ missions[m] = "complete" /\ r \in served

\* handle_assign_mission, COMMAND_START: reject_assign_mission ...
RejectMission(m, r) ==
  /\ Handle
  /\ missions[m] # "none" /\ ~Forwards(m, r)
  /\ log' = Plus(log, RowOf(Start(m, r), "REJECTED_BY_FLEET"))
  /\ UNCHANGED <<worldVars, calls, orphans, incidentVars>>

\* Mutant of AssignMission: DISPATCHED is recorded before the service is
\* known to be there.
RecordEarly(m, r) ==
  /\ Handle
  /\ ready /\ r \in online /\ missions[m] = "complete"
  /\ log' = Plus(log, RowOf(Start(m, r), "DISPATCHED"))
  /\ calls' = IF r \in served THEN Plus(calls, Start(m, r)) ELSE calls
  /\ UNCHANGED <<worldVars, orphans, incidentVars>>

\* ... or call_patrol_start_service and the DISPATCHED row.
AssignMission(m, r) ==
  /\ Handle
  /\ Forwards(m, r)
  /\ calls' = Plus(calls, Start(m, r))
  /\ log' = Plus(log, RowOf(Start(m, r), "DISPATCHED"))
  /\ UNCHANGED <<worldVars, orphans, incidentVars>>

\* COMMAND_STOP leaves no row before it is answered.
StopMission(m, r) ==
  /\ Handle
  /\ calls' = Plus(calls, Stop(m, r))
  /\ UNCHANGED <<worldVars, log, orphans, incidentVars>>

\* handle_dispatch_patrol leaves no row either.
DispatchPatrol ==
  /\ Handle
  /\ ready /\ PatrolRobot \in online /\ PatrolRobot \in served
  /\ calls' = Plus(calls, Start(Manual, PatrolRobot))
  /\ UNCHANGED <<worldVars, log, orphans, incidentVars>>

StopPatrol ==
  /\ Handle
  /\ calls' = Plus(calls, Stop(Manual, PatrolRobot))
  /\ UNCHANGED <<worldVars, log, orphans, incidentVars>>

\* The response callbacks of call_patrol_start_service and
\* call_patrol_stop_service.
Response(c, verdict) ==
  /\ calls[c] > 0
  /\ calls' = Minus(calls, c)
  /\ log' = Plus(log, RowOf(c, verdict))
  /\ UNCHANGED <<worldVars, orphans, incidentVars, handled>>

(***************************************************************************)
(* Incidents.                                                              *)
(***************************************************************************)
\* Mutant of ReportIncident: an id is generated for the row and another one
\* for the rest.
ReportNumberedTwice(severe, reachable) ==
  /\ Handle
  /\ incident_counter' = incident_counter + 2
  /\ LET id == incident_counter + 1 IN
     /\ incidents' = IF severe THEN Plus(incidents, id) ELSE incidents
     /\ queries' = IF severe /\ reachable THEN Plus(queries, id) ELSE queries
     /\ unasked' = IF severe /\ ~reachable THEN Plus(unasked, id) ELSE unasked
  /\ UNCHANGED <<worldVars, callVars, strays, answers, inspected, purpose, missed>>

\* handle_report_incident and dispatch_incident_inspection, for an incident
\* that is or is not severe enough, with the scheduler reachable or not.
ReportIncident(severe, reachable) ==
  /\ Handle
  /\ incident_counter' = incident_counter + 1
  /\ LET id == incident_counter + 1 IN
     /\ incidents' = IF severe THEN Plus(incidents, id) ELSE incidents
     /\ queries' = IF severe /\ reachable THEN Plus(queries, id) ELSE queries
     /\ unasked' = IF severe /\ ~reachable THEN Plus(unasked, id) ELSE unasked
  /\ UNCHANGED <<worldVars, callVars, strays, answers, inspected, purpose, missed>>

\* The scheduler's handle_queue_mission serves a request (external): mission m
\* is queued, without a target, before anybody here knows.
Queue(m, i) ==
  /\ missions[m] = "none"
  /\ missions' = [missions EXCEPT ![m] = "inspection"]
  /\ purpose' = [purpose EXCEPT ![m] = i]

\* The request is this process's: the answer is on its way to the callback.
InspectionQueued(i, m) ==
  /\ queries[i] > 0 /\ queries' = Minus(queries, i)
  /\ Queue(m, i)
  /\ answers' = answers \cup {<<i, m>>}
  /\ UNCHANGED <<ready, online, served, callVars, incident_counter, incidents,
                 strays, inspected, unasked, missed, handled>>

\* The request is a former process's: nobody waits for the answer.
StrayQueued(i, m) ==
  /\ strays[i] > 0 /\ strays' = Minus(strays, i)
  /\ Queue(m, i)
  /\ missed' = missed \cup {m}
  /\ UNCHANGED <<ready, online, served, callVars, incident_counter, incidents,
                 queries, answers, inspected, unasked, handled>>

\* Mutant of InspectionAnswered: the row names the incident reported last.
InspectionOfLatest(i, m) ==
  /\ <<i, m>> \in answers /\ answers' = answers \ {<<i, m>>}
  /\ inspected' = Plus(inspected, <<incident_counter, m>>)
  /\ UNCHANGED <<worldVars, callVars, incident_counter, incidents, queries, strays,
                 unasked, purpose, missed, handled>>

\* The response callback of dispatch_incident_inspection: the mission was
\* queued ...
InspectionAnswered(i, m) ==
  /\ <<i, m>> \in answers /\ answers' = answers \ {<<i, m>>}
  /\ inspected' = Plus(inspected, <<i, m>>)
  /\ UNCHANGED <<worldVars, callVars, incident_counter, incidents, queries, strays,
                 unasked, purpose, missed, handled>>

\* ... or was refused, or the call failed; the scheduler then queued nothing.
InspectionFails(i) ==
  /\ queries[i] > 0 /\ queries' = Minus(queries, i)
  /\ unasked' = Plus(unasked, i)
  /\ UNCHANGED <<worldVars, callVars, incident_counter, incidents, strays, answers,
                 inspected, purpose, missed, handled>>

(***************************************************************************)
(* The process ends and starts again: only the store remains.  Requests    *)
(* sent to the scheduler are still served by it; answers are not heard.    *)
(***************************************************************************)
Restart ==
  /\ ready' = FALSE /\ online' = {} /\ incident_counter' = 0
  /\ calls' = [c \in Call |-> 0]
  /\ orphans' = [c \in Call |-> orphans[c] + calls[c]]
  /\ queries' = [i \in Incident |-> 0]
  /\ strays' = [i \in Incident |-> strays[i] + queries[i]]
  /\ answers' = {}
  /\ missed' = missed \cup {m \in Mission : \E i \in Incident : <<i, m>> \in answers}
  /\ UNCHANGED <<served, missions, storeVars, unasked, purpose, handled>>

-----------------------------------------------------------------------------
Next ==
  \/ \E value \in BOOLEAN : SystemReady(value)
  \/ \E on, up \in SUBSET Robot : RobotChanges(on, up)
  \/ \E m \in Mission, request \in {"complete", "targetless"} :
       MissionQueued(m, request)
  \/ \E m \in Mission, r \in Robot : RejectMission(m, r)
  \/ \E m \in Mission, r \in Robot : AssignMission(m, r)
  \/ \E m \in Mission, r \in Robot : StopMission(m, r)
  \/ DispatchPatrol
  \/ StopPatrol
  \/ \E c \in Call, verdict \in Verdict : Response(c, verdict)
  \/ \E severe, reachable \in BOOLEAN : ReportIncident(severe, reachable)
  \/ \E i \in Incident, m \in Mission : InspectionQueued(i, m)
  \/ \E i \in Incident, m \in Mission : StrayQueued(i, m)
  \/ \E i \in Incident, m \in Mission : InspectionAnswered(i, m)
  \/ \E i \in Incident : InspectionFails(i)
  \/ Restart

Spec == Init /\ [][Next]_vars

-----------------------------------------------------------------------------
\* "What did the fleet do" (mission_store.hpp:12-20): of every start of a
\* scheduler's mission that was forwarded to a robot there is one DISPATCHED
\* row, and it has exactly one verdict, unless the answer is still to come or
\* was missed in a restart.  Answers come in any order, the same mission may
\* be under way to one robot several times, and rows outlive the process.
LogBalances ==
  \A m \in Mission, r \in Robot :
    log[RowOf(Start(m, r), "DISPATCHED")] =
      log[RowOf(Start(m, r), "ACCEPTED_BY_ROBOT")]
      + log[RowOf(Start(m, r), "REJECTED_BY_ROBOT")]
      + log[RowOf(Start(m, r), "FAILED")]
      + calls[Start(m, r)] + orphans[Start(m, r)]

\* Severe incidents, the scheduler's missions and the store's rows agree
\* across the two processes.  Each incident's inspection is still asked for,
\* also by a process that ended, or was not queued, or is one mission.  A
\* mission queued for an incident has one row, under that incident's id,
\* except while its answer is on the way and when a restart lost it (the
\* mission is then queued with nothing to say why); no other mission has one.
\* Several incidents may wait at once and be answered in any order.  A restart
\* gives ids out again (line 1040), so what is counted is incidents of an id.
InspectionsAccounted ==
  /\ \A i \in Incident :
       incidents[i] = queries[i] + strays[i] + unasked[i]
                      + Cardinality({m \in Mission : purpose[m] = i})
  /\ \A i \in Incident, m \in Mission :
       inspected[<<i, m>>] =
         IF purpose[m] = i /\ <<i, m>> \notin answers /\ m \notin missed THEN 1 ELSE 0

(***************************************************************************)
(* What the documents say that the code does not do.                       *)
(***************************************************************************)
\* "auto-dispatches a mission above a configurable severity" (README.md:91):
\* the inspection of an incident is not turned down while the system is
\* ready, the robot is online and its service is there.
InspectionsAreForwarded ==
  [][\A m \in Mission, r \in Robot :
       /\ missions[m] = "inspection"
       /\ log'[RowOf(Start(m, r), "REJECTED_BY_FLEET")] #
            log[RowOf(Start(m, r), "REJECTED_BY_FLEET")]
       => ~(ready /\ r \in online /\ r \in served)]_vars
=============================================================================
