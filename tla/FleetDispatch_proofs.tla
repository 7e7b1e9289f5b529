------------------------ MODULE FleetDispatch_proofs ------------------------
(***************************************************************************)
(* Proofs about the fleet manager's books: for any robots, missions and    *)
(* number of requests, starts and incidents are accounted for.             *)
(***************************************************************************)
EXTENDS FleetDispatch, FiniteSetTheorems, TLAPS

\* One more and one less of k, in a bag.
LEMMA BagUpdates ==
  ASSUME NEW K, NEW bag \in [K -> Nat], NEW k \in K
  PROVE  /\ Plus(bag, k) \in [K -> Nat]
         /\ Plus(bag, k)[k] = bag[k] + 1
         /\ bag[k] > 0 => /\ Minus(bag, k) \in [K -> Nat]
                          /\ Minus(bag, k)[k] = bag[k] - 1
         /\ \A j \in K \ {k} : Plus(bag, k)[j] = bag[j] /\ Minus(bag, k)[j] = bag[j]
  BY DEF Plus, Minus

\* Starts and rows of missions are members of the bags' domains.
LEMMA CallTypes ==
  /\ \A m \in Mission \cup {Manual}, r \in Robot :
        Start(m, r) \in Call /\ Stop(m, r) \in Call
  /\ \A c \in Call, s \in Verdict \cup {"DISPATCHED", "REJECTED_BY_FLEET"} :
        RowOf(c, s) \in Row
BY DEF Start, Stop, Call, RowOf, Row

\* The variables keep their types: no call is answered twice, and no incident
\* has an id beyond the requests handled.
THEOREM TypeCorrect == Spec => []TypeOK
<1>1. Init => TypeOK
  <2> SUFFICES ASSUME Init PROVE TypeOK
    OBVIOUS
  <2>1. missions \in [Mission -> Request]
    BY DEF Init, Request
  <2>2. /\ calls \in [Call -> Nat] /\ orphans \in [Call -> Nat]
        /\ log \in [Row -> Nat]
    BY DEF Init
  <2>3. /\ incidents \in [Incident -> Nat] /\ unasked \in [Incident -> Nat]
        /\ queries \in [Incident -> Nat] /\ strays \in [Incident -> Nat]
        /\ answers \subseteq Inspection /\ inspected \in [Inspection -> Nat]
        /\ purpose \in [Mission -> {0} \cup Incident] /\ missed \subseteq Mission
    BY DEF Init
  <2>4. handled \in 0 .. MaxRequests /\ incident_counter \in 0 .. handled
    BY DispatchAssumption DEF DispatchAssumption, Init
  <2> QED
    BY <2>1, <2>2, <2>3, <2>4 DEF Init, TypeOK
<1>2. TypeOK /\ [Next]_vars => TypeOK'
  <2> SUFFICES ASSUME TypeOK, [Next]_vars
               PROVE  TypeOK'
    OBVIOUS
  <2> USE DispatchAssumption
      DEF DispatchAssumption, TypeOK, worldVars, callVars, incidentVars, inspectVars,
          storeVars, Handle
  <2>1. ASSUME NEW value \in BOOLEAN, SystemReady(value)
        PROVE  TypeOK'
    BY <2>1 DEF SystemReady
  <2>2. ASSUME NEW on \in SUBSET Robot, NEW there \in SUBSET Robot,
               RobotChanges(on, there)
        PROVE  TypeOK'
    BY <2>2 DEF RobotChanges
  <2>3. ASSUME NEW m \in Mission, NEW request \in {"complete", "targetless"},
               MissionQueued(m, request)
        PROVE  TypeOK'
    BY <2>3 DEF MissionQueued, Request
  <2>4. ASSUME NEW m \in Mission, NEW r \in Robot, RejectMission(m, r)
        PROVE  TypeOK'
    <3>1. log' \in [Row -> Nat]
      BY CallTypes, <2>4, BagUpdates DEF RejectMission
    <3> QED
      BY <2>4, <3>1 DEF RejectMission
  <2>5. ASSUME NEW m \in Mission, NEW r \in Robot, AssignMission(m, r)
        PROVE  TypeOK'
    <3>1. log' \in [Row -> Nat]
      BY CallTypes, <2>5, BagUpdates DEF AssignMission
    <3>2. calls' \in [Call -> Nat]
      BY CallTypes, <2>5, BagUpdates DEF AssignMission
    <3> QED
      BY <2>5, <3>1, <3>2 DEF AssignMission
  <2>6. ASSUME NEW m \in Mission, NEW r \in Robot, StopMission(m, r)
        PROVE  TypeOK'
    <3>1. calls' \in [Call -> Nat]
      BY CallTypes, <2>6, BagUpdates DEF StopMission
    <3> QED
      BY <2>6, <3>1 DEF StopMission
  <2>7. CASE DispatchPatrol \/ StopPatrol
    <3>1. calls' \in [Call -> Nat]
      <4>1. PICK c \in Call : calls' = Plus(calls, c)
        BY CallTypes, <2>7 DEF DispatchPatrol, StopPatrol
      <4> QED
        BY <4>1, BagUpdates
    <3> QED
      BY <2>7, <3>1 DEF DispatchPatrol, StopPatrol
  <2>8. ASSUME NEW c \in Call, NEW verdict \in Verdict, Response(c, verdict)
         PROVE  TypeOK'
    <3>1. calls' \in [Call -> Nat]
      BY <2>8, BagUpdates DEF Response
    <3>2. log' \in [Row -> Nat]
      BY CallTypes, <2>8, BagUpdates DEF Response
    <3> QED
      BY <2>8, <3>1, <3>2 DEF Response
  <2>9. ASSUME NEW severe \in BOOLEAN, NEW reachable \in BOOLEAN,
                ReportIncident(severe, reachable)
         PROVE  TypeOK'
    <3>1. incident_counter + 1 \in Incident /\ incident_counter' \in 0 .. handled'
      BY <2>9 DEF ReportIncident, Incident
    <3>2. /\ incidents' \in [Incident -> Nat]
          /\ queries' \in [Incident -> Nat]
          /\ unasked' \in [Incident -> Nat]
      BY <2>9, <3>1, BagUpdates DEF ReportIncident
    <3>3. handled' \in 0 .. MaxRequests
      BY <2>9 DEF ReportIncident
    <3> QED
      BY <2>9, <3>1, <3>2, <3>3 DEF ReportIncident
  <2>10. ASSUME NEW i \in Incident, NEW m \in Mission,
                InspectionQueued(i, m) \/ StrayQueued(i, m)
         PROVE  TypeOK'
    <3>1. queries' \in [Incident -> Nat] /\ strays' \in [Incident -> Nat]
      <4>1. CASE InspectionQueued(i, m)
        BY <4>1, BagUpdates DEF InspectionQueued
      <4>2. CASE StrayQueued(i, m)
        BY <4>2, BagUpdates DEF StrayQueued
      <4> QED
        BY <2>10, <4>1, <4>2
    <3>2. /\ missions' \in [Mission -> Request]
          /\ purpose' \in [Mission -> {0} \cup Incident]
      BY <2>10 DEF InspectionQueued, StrayQueued, Queue, Request
    <3>3. answers' \subseteq Inspection /\ missed' \subseteq Mission
      BY <2>10 DEF InspectionQueued, StrayQueued, Inspection
    <3> QED
      BY <2>10, <3>1, <3>2, <3>3 DEF InspectionQueued, StrayQueued
  <2>11. ASSUME NEW i \in Incident, NEW m \in Mission, InspectionAnswered(i, m)
         PROVE  TypeOK'
    <3>1. answers' \subseteq Inspection /\ inspected' \in [Inspection -> Nat]
      BY <2>11, BagUpdates DEF InspectionAnswered
    <3> QED
      BY <2>11, <3>1 DEF InspectionAnswered
  <2>12. ASSUME NEW i \in Incident, InspectionFails(i)
         PROVE  TypeOK'
    <3>1. queries' \in [Incident -> Nat] /\ unasked' \in [Incident -> Nat]
      BY <2>12, BagUpdates DEF InspectionFails
    <3> QED
      BY <2>12, <3>1 DEF InspectionFails
  <2>13. CASE Restart
    <3>1. calls' \in [Call -> Nat] /\ orphans' \in [Call -> Nat]
      BY <2>13 DEF Restart
    <3>2. /\ queries' \in [Incident -> Nat] /\ strays' \in [Incident -> Nat]
          /\ answers' \subseteq Inspection /\ missed' \subseteq Mission
      BY <2>13 DEF Restart
    <3>3. /\ ready' \in BOOLEAN /\ online' \subseteq Robot /\ served' \subseteq Robot
          /\ missions' \in [Mission -> Request] /\ log' \in [Row -> Nat]
          /\ incidents' \in [Incident -> Nat] /\ inspected' \in [Inspection -> Nat]
          /\ unasked' \in [Incident -> Nat]
          /\ purpose' \in [Mission -> {0} \cup Incident]
      BY <2>13 DEF Restart
    <3>4. handled' \in 0 .. MaxRequests /\ incident_counter' \in 0 .. handled'
      BY <2>13 DEF Restart
    <3> QED
      BY <3>1, <3>2, <3>3, <3>4
  <2>14. CASE UNCHANGED vars
    BY <2>14 DEF vars
  <2> QED
    BY <2>1, <2>2, <2>3, <2>4, <2>5, <2>6, <2>7, <2>8, <2>9, <2>10, <2>11,
       <2>12, <2>13, <2>14 DEF Next
<1> QED
  BY <1>1, <1>2, PTL DEF Spec

-----------------------------------------------------------------------------
\* Calls and rows are told apart by their fields.
LEMMA CallsApart ==
  /\ \A m, n, r, s : Start(m, r) = Start(n, s) => m = n /\ r = s
  /\ \A m, n, r, s : Start(m, r) # Stop(n, s)
  /\ \A c, d, x, y : RowOf(c, x) = RowOf(d, y) => c = d /\ x = y
<1>1. \A m, n, r, s : Start(m, r) = Start(n, s) => m = n /\ r = s
  <2> SUFFICES ASSUME NEW m, NEW n, NEW r, NEW s, Start(m, r) = Start(n, s)
               PROVE  m = n /\ r = s
    OBVIOUS
  <2>1. /\ Start(m, r).mission = m /\ Start(m, r).robot = r
        /\ Start(n, s).mission = n /\ Start(n, s).robot = s
    BY DEF Start
  <2> QED
    BY <2>1
<1>2. \A m, n, r, s : Start(m, r) # Stop(n, s)
  <2> SUFFICES ASSUME NEW m, NEW n, NEW r, NEW s PROVE Start(m, r) # Stop(n, s)
    OBVIOUS
  <2>1. Start(m, r).command = "START" /\ Stop(n, s).command = "STOP"
    BY DEF Start, Stop
  <2> QED
    BY <2>1
<1>3. \A c, d, x, y : RowOf(c, x) = RowOf(d, y) => c = d /\ x = y
  <2> SUFFICES ASSUME NEW c, NEW d, NEW x, NEW y, RowOf(c, x) = RowOf(d, y)
               PROVE  c = d /\ x = y
    OBVIOUS
  <2>1. /\ RowOf(c, x).call = c /\ RowOf(c, x).status = x
        /\ RowOf(d, y).call = d /\ RowOf(d, y).status = y
    BY DEF RowOf
  <2> QED
    BY <2>1
<1> QED
  BY <1>1, <1>2, <1>3

\* The books of one mission on one robot.
Balance(m, r) ==
  log[RowOf(Start(m, r), "DISPATCHED")] =
    log[RowOf(Start(m, r), "ACCEPTED_BY_ROBOT")]
    + log[RowOf(Start(m, r), "REJECTED_BY_ROBOT")]
    + log[RowOf(Start(m, r), "FAILED")]
    + calls[Start(m, r)] + orphans[Start(m, r)]

\* Every forwarded start of a mission has one DISPATCHED row and one verdict,
\* unless the answer is outstanding or was missed in a restart.
THEOREM LogAlwaysBalances == Spec => []LogBalances
<1>1. Init => LogBalances
  <2> SUFFICES ASSUME Init, NEW m \in Mission, NEW r \in Robot
               PROVE  Balance(m, r)
    BY DEF LogBalances, Balance
  <2>1. /\ Start(m, r) \in Call
        /\ \A s \in Verdict \cup {"DISPATCHED"} : RowOf(Start(m, r), s) \in Row
    BY CallTypes
  <2> QED
    BY <2>1 DEF Init, Balance, Verdict
<1>2. TypeOK /\ LogBalances /\ [Next]_vars => LogBalances'
  <2> SUFFICES ASSUME TypeOK, LogBalances, [Next]_vars,
                      NEW m \in Mission, NEW r \in Robot
               PROVE  Balance(m, r)'
    BY DEF LogBalances, Balance
  <2> DEFINE s == Start(m, r)
  <2>1. Balance(m, r)
    BY DEF LogBalances, Balance
  <2>2. /\ s \in Call
        /\ \A x \in Verdict \cup {"DISPATCHED"} : RowOf(s, x) \in Row
        /\ calls \in [Call -> Nat] /\ orphans \in [Call -> Nat]
        /\ log \in [Row -> Nat]
    BY CallTypes DEF TypeOK
  <2>3. /\ calls[s] \in Nat /\ orphans[s] \in Nat
        /\ \A x \in Verdict \cup {"DISPATCHED"} : log[RowOf(s, x)] \in Nat
    BY <2>2
  <2>4. CASE UNCHANGED callVars
    BY <2>1, <2>4 DEF Balance, callVars
  <2>5. ASSUME NEW n \in Mission, NEW t \in Robot, RejectMission(n, t)
        PROVE  Balance(m, r)'
    <3>1. \A x \in Verdict \cup {"DISPATCHED"} :
            RowOf(s, x) # RowOf(Start(n, t), "REJECTED_BY_FLEET")
      BY CallsApart DEF Verdict
    <3>2. RowOf(Start(n, t), "REJECTED_BY_FLEET") \in Row
      BY CallTypes
    <3>3. \A x \in Verdict \cup {"DISPATCHED"} :
            log'[RowOf(s, x)] = log[RowOf(s, x)]
      BY <2>2, <2>5, <3>1, <3>2, BagUpdates DEF RejectMission
    <3>4. calls' = calls /\ orphans' = orphans
      BY <2>5 DEF RejectMission
    <3> QED
      BY <2>1, <3>3, <3>4 DEF Balance, Verdict
  <2>6. ASSUME NEW n \in Mission, NEW t \in Robot, AssignMission(n, t)
        PROVE  Balance(m, r)'
    <3> DEFINE c == Start(n, t)
    <3>1. c \in Call /\ RowOf(c, "DISPATCHED") \in Row
      BY CallTypes
    <3>2. /\ calls' = Plus(calls, c) /\ log' = Plus(log, RowOf(c, "DISPATCHED"))
          /\ orphans' = orphans
      BY <2>6 DEF AssignMission
    <3> HIDE DEF c, s
    <3>3. \A x \in Verdict : log'[RowOf(s, x)] = log[RowOf(s, x)]
      <4>1. \A x \in Verdict : RowOf(s, x) # RowOf(c, "DISPATCHED")
        BY CallsApart DEF Verdict
      <4> QED
        BY <2>2, <3>1, <3>2, <4>1, BagUpdates
    <3>4. CASE s = c
      <4>1. /\ calls'[s] = calls[s] + 1
            /\ log'[RowOf(s, "DISPATCHED")] = log[RowOf(s, "DISPATCHED")] + 1
        BY <2>2, <3>1, <3>2, <3>4, BagUpdates
      <4> QED
        <5>1. orphans'[s] = orphans[s]
          BY <3>2
        <5>2. /\ log[RowOf(s, "DISPATCHED")] \in Nat
              /\ log[RowOf(s, "ACCEPTED_BY_ROBOT")] \in Nat
              /\ log[RowOf(s, "REJECTED_BY_ROBOT")] \in Nat
              /\ log[RowOf(s, "FAILED")] \in Nat
          BY <2>3 DEF Verdict
        <5>3. /\ log'[RowOf(s, "ACCEPTED_BY_ROBOT")] = log[RowOf(s, "ACCEPTED_BY_ROBOT")]
              /\ log'[RowOf(s, "REJECTED_BY_ROBOT")] = log[RowOf(s, "REJECTED_BY_ROBOT")]
              /\ log'[RowOf(s, "FAILED")] = log[RowOf(s, "FAILED")]
          BY <3>3 DEF Verdict
        <5> QED
          BY <2>1, <2>3, <4>1, <5>1, <5>2, <5>3 DEF Balance, s
    <3>5. CASE s # c
      <4>1. RowOf(s, "DISPATCHED") # RowOf(c, "DISPATCHED")
        BY <3>5, CallsApart
      <4>2. /\ calls'[s] = calls[s]
            /\ log'[RowOf(s, "DISPATCHED")] = log[RowOf(s, "DISPATCHED")]
        BY <2>2, <3>1, <3>2, <3>5, <4>1, BagUpdates
      <4> QED
        BY <2>1, <3>2, <3>3, <4>2 DEF Balance, Verdict, s
    <3> QED
      BY <3>4, <3>5
  <2>7. ASSUME NEW c \in Call, c # s, calls' = Plus(calls, c),
               UNCHANGED <<log, orphans>>
        PROVE  Balance(m, r)'
    <3>1. calls'[s] = calls[s]
      BY <2>2, <2>7, BagUpdates
    <3> QED
      BY <2>1, <2>7, <3>1 DEF Balance
  <2>8. ASSUME NEW n \in Mission, NEW t \in Robot, StopMission(n, t)
        PROVE  Balance(m, r)'
    <3>1. Stop(n, t) \in Call /\ Stop(n, t) # s
      BY CallTypes, CallsApart
    <3> QED
      BY <2>7, <2>8, <3>1 DEF StopMission
  <2>9. CASE DispatchPatrol
    <3>1. Start(Manual, PatrolRobot) \in Call /\ Start(Manual, PatrolRobot) # s
      BY DispatchAssumption, CallTypes, CallsApart DEF DispatchAssumption
    <3> QED
      BY <2>7, <2>9, <3>1 DEF DispatchPatrol
  <2>10. CASE StopPatrol
    <3>1. Stop(Manual, PatrolRobot) \in Call /\ Stop(Manual, PatrolRobot) # s
      BY DispatchAssumption, CallTypes, CallsApart DEF DispatchAssumption
    <3> QED
      BY <2>7, <2>10, <3>1 DEF StopPatrol
  <2>11. ASSUME NEW c \in Call, NEW verdict \in Verdict, Response(c, verdict)
         PROVE  Balance(m, r)'
    <3>1. /\ calls[c] > 0 /\ calls' = Minus(calls, c)
          /\ log' = Plus(log, RowOf(c, verdict)) /\ orphans' = orphans
          /\ RowOf(c, verdict) \in Row
      BY <2>11, CallTypes DEF Response
    <3> HIDE DEF s
    <3>2. CASE c = s
      <4>1. /\ calls'[s] = calls[s] - 1
            /\ log'[RowOf(s, verdict)] = log[RowOf(s, verdict)] + 1
        BY <2>2, <3>1, <3>2, BagUpdates
      <4>2. \A x \in Verdict \cup {"DISPATCHED"} : x # verdict =>
              log'[RowOf(s, x)] = log[RowOf(s, x)]
        <5>1. \A x \in Verdict \cup {"DISPATCHED"} : x # verdict =>
                RowOf(s, x) # RowOf(c, verdict)
          BY CallsApart
        <5> QED
          BY <2>2, <3>1, <5>1, BagUpdates
      <4>3. "DISPATCHED" # verdict
        BY DEF Verdict
      <4> DEFINE N(x) == log[RowOf(s, x)]
      <4>4. /\ N("DISPATCHED") = N("ACCEPTED_BY_ROBOT") + N("REJECTED_BY_ROBOT")
                                 + N("FAILED") + calls[s] + orphans[s]
            /\ N("DISPATCHED") \in Nat /\ N("ACCEPTED_BY_ROBOT") \in Nat
            /\ N("REJECTED_BY_ROBOT") \in Nat /\ N("FAILED") \in Nat
            /\ calls[s] \in Nat /\ orphans[s] \in Nat
        BY <2>1, <2>3 DEF Balance, Verdict, s
      <4>5. \A x \in Verdict \cup {"DISPATCHED"} :
              N(x)' = IF x = verdict THEN N(x) + 1 ELSE N(x)
        BY <3>1, <4>1, <4>2
      <4>6. N("DISPATCHED")' = N("ACCEPTED_BY_ROBOT")' + N("REJECTED_BY_ROBOT")'
                               + N("FAILED")' + calls'[s] + orphans'[s]
        BY <3>1, <4>1, <4>3, <4>4, <4>5 DEF Verdict
      <4> QED
        BY <4>6 DEF Balance, s
    <3>3. CASE c # s
      <4>1. \A x \in Verdict \cup {"DISPATCHED"} : RowOf(s, x) # RowOf(c, verdict)
        BY <3>3, CallsApart
      <4>2. /\ calls'[s] = calls[s]
            /\ \A x \in Verdict \cup {"DISPATCHED"} :
                 log'[RowOf(s, x)] = log[RowOf(s, x)]
        BY <2>2, <3>1, <3>3, <4>1, BagUpdates
      <4> QED
        BY <2>1, <3>1, <4>2 DEF Balance, Verdict, s
    <3> QED
      BY <3>2, <3>3
  <2>12. CASE Restart
    <3>1. /\ calls'[s] = 0 /\ orphans'[s] = orphans[s] + calls[s]
          /\ log' = log
      BY <2>2, <2>12 DEF Restart, storeVars
    <3> QED
      BY <2>1, <2>3, <3>1 DEF Balance, Verdict
  <2> QED
    BY <2>4, <2>5, <2>6, <2>8, <2>9, <2>10, <2>11, <2>12
    DEF Next, vars, SystemReady, RobotChanges, MissionQueued, ReportIncident,
        InspectionQueued, StrayQueued, InspectionAnswered, InspectionFails
<1> QED
  BY <1>1, <1>2, TypeCorrect, PTL DEF Spec

-----------------------------------------------------------------------------
\* The missions the scheduler queued for incident i.
Inspections(i) == {m \in Mission : purpose[m] = i}

\* A mission id that was not handed out stands for nothing; an answer on its
\* way is about the mission queued for its incident; the missions of an
\* incident can be counted.
Queued ==
  /\ \A m \in Mission : missions[m] = "none" => purpose[m] = 0 /\ m \notin missed
  /\ \A i \in Incident, m \in Mission :
       <<i, m>> \in answers => purpose[m] = i /\ m \notin missed
  /\ \A i \in Incident : IsFiniteSet(Inspections(i))

\* The two parts of InspectionsAccounted.
Books(i) ==
  incidents[i] = queries[i] + strays[i] + unasked[i] + Cardinality(Inspections(i))

Rows(i, m) ==
  inspected[<<i, m>>] =
    IF purpose[m] = i /\ <<i, m>> \notin answers /\ m \notin missed THEN 1 ELSE 0

Accounts == /\ Queued
            /\ \A i \in Incident : Books(i)
            /\ \A i \in Incident, m \in Mission : Rows(i, m)

\* A mission queued for incident i is one more of its inspections.
LEMMA OneMoreInspection ==
  ASSUME TypeOK, Queued, NEW i \in Incident, NEW m \in Mission, Queue(m, i)
  PROVE  /\ purpose[m] = 0 /\ m \notin missed
         /\ purpose'[m] = i /\ missions'[m] # "none"
         /\ \A n \in Mission \ {m} : purpose'[n] = purpose[n]
                                    /\ missions'[n] = missions[n]
         /\ \A j \in Incident : IsFiniteSet(Inspections(j)')
         /\ \A j \in Incident : Cardinality(Inspections(j)) \in Nat
         /\ Cardinality(Inspections(i)') = Cardinality(Inspections(i)) + 1
         /\ \A j \in Incident \ {i} : Inspections(j)' = Inspections(j)
<1>1. /\ missions[m] = "none" /\ purpose[m] = 0 /\ m \notin missed
      /\ missions' = [missions EXCEPT ![m] = "inspection"]
      /\ purpose' = [purpose EXCEPT ![m] = i]
      /\ purpose \in [Mission -> {0} \cup Incident]
      /\ missions \in [Mission -> Request]
  BY DEF Queue, Queued, TypeOK
<1>2. \A j \in Incident : j # 0
  BY DispatchAssumption DEF Incident, DispatchAssumption
<1>3. /\ purpose'[m] = i /\ missions'[m] # "none"
      /\ \A n \in Mission \ {m} : purpose'[n] = purpose[n] /\ missions'[n] = missions[n]
  BY <1>1
<1>4. m \notin Inspections(i)
  BY <1>1, <1>2 DEF Inspections
<1>5. Inspections(i)' = Inspections(i) \cup {m}
  BY <1>3 DEF Inspections
<1>6. \A j \in Incident \ {i} : Inspections(j)' = Inspections(j)
  BY <1>1, <1>2, <1>3 DEF Inspections
<1>7. \A j \in Incident : /\ IsFiniteSet(Inspections(j))
                          /\ Cardinality(Inspections(j)) \in Nat
  BY FS_CardinalityType DEF Queued
<1>8. /\ IsFiniteSet(Inspections(i)')
      /\ Cardinality(Inspections(i)') = Cardinality(Inspections(i)) + 1
  BY <1>4, <1>5, <1>7, FS_AddElement
<1> QED
  BY <1>1, <1>3, <1>4, <1>6, <1>7, <1>8

\* Steps that queue no inspection, answer none and forget none.
LEMMA SameInspections ==
  ASSUME Queued, UNCHANGED <<purpose, answers, missed>>,
         \A m \in Mission : missions'[m] = "none" => missions[m] = "none"
  PROVE  Queued' /\ \A i \in Incident : Inspections(i)' = Inspections(i)
<1>1. \A i \in Incident : Inspections(i)' = Inspections(i)
  BY DEF Inspections
<1> QED
  BY <1>1 DEF Queued

\* A request that reaches the scheduler becomes a mission without a row.
LEMMA ServedStep ==
  ASSUME TypeOK, Accounts, NEW i \in Incident, NEW m \in Mission,
         InspectionQueued(i, m) \/ StrayQueued(i, m)
  PROVE  Accounts'
<1>1. Queued /\ Queue(m, i)
  BY DEF Accounts, InspectionQueued, StrayQueued
<1>2. /\ incidents' = incidents /\ unasked' = unasked /\ inspected' = inspected
      /\ \/ /\ queries' = Minus(queries, i) /\ queries[i] > 0
            /\ strays' = strays
            /\ answers' = answers \cup {<<i, m>>} /\ missed' = missed
         \/ /\ strays' = Minus(strays, i) /\ strays[i] > 0
            /\ queries' = queries
            /\ answers' = answers /\ missed' = missed \cup {m}
  BY DEF InspectionQueued, StrayQueued
<1>3. /\ purpose[m] = 0 /\ m \notin missed
      /\ purpose'[m] = i /\ missions'[m] # "none"
      /\ \A n \in Mission \ {m} : purpose'[n] = purpose[n] /\ missions'[n] = missions[n]
  BY <1>1, OneMoreInspection
<1>4. \A j \in Incident : j # 0
  BY DispatchAssumption DEF Incident, DispatchAssumption
<1>5. \A j \in Incident : <<j, m>> \notin answers
  BY <1>1, <1>3, <1>4 DEF Queued
<1>6. ASSUME NEW j \in Incident, NEW n \in Mission
      PROVE  Rows(j, n)'
  <2>1. Rows(j, n)
    BY DEF Accounts
  <2>2. CASE n = m
    BY <1>2, <1>3, <1>4, <1>5, <2>1, <2>2 DEF Rows
  <2>3. CASE n # m
    BY <1>2, <1>3, <2>1, <2>3 DEF Rows
  <2> QED
    BY <2>2, <2>3
<1>7. ASSUME NEW j \in Incident
      PROVE  Books(j)'
  <2>1. Books(j)
    BY DEF Accounts
  <2>2. /\ queries \in [Incident -> Nat] /\ strays \in [Incident -> Nat]
        /\ unasked[j] \in Nat /\ incidents[j] \in Nat
        /\ Cardinality(Inspections(j)) \in Nat
    BY <1>1, OneMoreInspection DEF TypeOK
  <2>3. CASE j = i
    <3>1. /\ Cardinality(Inspections(j)') = Cardinality(Inspections(j)) + 1
      BY <1>1, <2>3, OneMoreInspection
    <3>2. queries'[j] + strays'[j] = queries[j] + strays[j] - 1
      BY <1>2, <2>2, <2>3, BagUpdates
    <3>3. queries'[j] \in Nat /\ strays'[j] \in Nat
      BY <1>2, <2>2, <2>3, BagUpdates
    <3> QED
      BY <1>2, <2>1, <2>2, <3>1, <3>2, <3>3 DEF Books
  <2>4. CASE j # i
    <3>1. Inspections(j)' = Inspections(j)
      BY <1>1, <2>4, OneMoreInspection
    <3>2. queries'[j] = queries[j] /\ strays'[j] = strays[j]
      BY <1>2, <2>2, <2>4, BagUpdates
    <3> QED
      BY <1>2, <2>1, <3>1, <3>2 DEF Books
  <2> QED
    BY <2>3, <2>4
<1>8. Queued'
  <2>1. \A j \in Incident : IsFiniteSet(Inspections(j)')
    BY <1>1, OneMoreInspection
  <2>2. \A n \in Mission : missions'[n] = "none" => purpose'[n] = 0 /\ n \notin missed'
    BY <1>1, <1>2, <1>3 DEF Queued
  <2>3. ASSUME NEW j \in Incident, NEW n \in Mission, <<j, n>> \in answers'
        PROVE  purpose'[n] = j /\ n \notin missed'
    <3>1. CASE n = m
      BY <1>2, <1>3, <1>5, <2>3, <3>1
    <3>2. CASE n # m
      BY <1>1, <1>2, <1>3, <2>3, <3>2 DEF Queued
    <3> QED
      BY <3>1, <3>2
  <2> QED
    BY <2>1, <2>2, <2>3 DEF Queued
<1> QED
  BY <1>6, <1>7, <1>8 DEF Accounts

\* Across two processes that lose and repeat each other's words, every severe
\* incident's inspection is asked for, not queued, or one mission, and the
\* store's rows are those of the missions whose answers were heard.
THEOREM InspectionsAlwaysAccounted == Spec => []InspectionsAccounted
<1>1. Init => Accounts
  <2> SUFFICES ASSUME Init PROVE Accounts
    OBVIOUS
  <2>1. /\ \A m \in Mission : purpose[m] = 0 /\ missed = {} /\ answers = {}
        /\ \A i \in Incident : i # 0
    BY DispatchAssumption DEF Init, Incident, DispatchAssumption
  <2>2. \A i \in Incident : Inspections(i) = {}
    BY <2>1 DEF Inspections
  <2>3. Queued
    BY <2>1, <2>2, FS_EmptySet DEF Queued, Init
  <2>4. \A i \in Incident : Books(i)
    BY <2>2, FS_EmptySet DEF Books, Init
  <2>5. \A i \in Incident, m \in Mission : Rows(i, m)
    BY <2>1 DEF Rows, Init, Inspection
  <2> QED
    BY <2>3, <2>4, <2>5 DEF Accounts
<1>2. TypeOK /\ Accounts /\ [Next]_vars => Accounts'
  <2> SUFFICES ASSUME TypeOK, Accounts, [Next]_vars
               PROVE  Accounts'
    OBVIOUS
  <2>1. /\ incidents \in [Incident -> Nat] /\ unasked \in [Incident -> Nat]
        /\ queries \in [Incident -> Nat] /\ strays \in [Incident -> Nat]
        /\ inspected \in [Inspection -> Nat] /\ Queued
        /\ \A i \in Incident : Books(i)
        /\ \A i \in Incident, m \in Mission : Rows(i, m)
        /\ \A i \in Incident : Cardinality(Inspections(i)) \in Nat
    BY FS_CardinalityType DEF TypeOK, Accounts, Queued
  <2>2. CASE /\ UNCHANGED incidentVars
             /\ \A m \in Mission : missions'[m] = "none" => missions[m] = "none"
    <3>1. Queued' /\ \A i \in Incident : Inspections(i)' = Inspections(i)
      BY <2>1, <2>2, SameInspections DEF incidentVars, inspectVars
    <3> QED
      BY <2>1, <2>2, <3>1 DEF incidentVars, inspectVars, Accounts, Books, Rows
  <2>3. ASSUME NEW m \in Mission, NEW request \in {"complete", "targetless"},
               MissionQueued(m, request)
        PROVE  Accounts'
    BY <2>2, <2>3 DEF MissionQueued, TypeOK
  <2>4. ASSUME UNCHANGED <<missions, strays, answers, inspected, purpose, missed>>,
               \A j \in Incident : incidents'[j] - queries'[j] - unasked'[j] =
                                  incidents[j] - queries[j] - unasked[j],
               /\ incidents' \in [Incident -> Nat] /\ queries' \in [Incident -> Nat]
               /\ unasked' \in [Incident -> Nat]
        PROVE  Accounts'
    <3>1. Queued' /\ \A j \in Incident : Inspections(j)' = Inspections(j)
      BY <2>1, <2>4, SameInspections
    <3>2. ASSUME NEW j \in Incident
          PROVE  Books(j)'
      <4>1. /\ incidents'[j] - queries'[j] - unasked'[j] =
                 incidents[j] - queries[j] - unasked[j]
            /\ Books(j) /\ Inspections(j)' = Inspections(j) /\ strays' = strays
        BY <2>1, <2>4, <3>1
      <4>2. /\ incidents[j] \in Nat /\ queries[j] \in Nat /\ unasked[j] \in Nat
            /\ incidents'[j] \in Nat /\ queries'[j] \in Nat /\ unasked'[j] \in Nat
            /\ strays[j] \in Nat /\ Cardinality(Inspections(j)) \in Nat
        BY <2>1, <2>4
      <4> QED
        BY <4>1, <4>2 DEF Books
    <3> QED
      BY <2>1, <2>4, <3>1, <3>2 DEF Accounts, Rows
  <2>5. ASSUME NEW severe \in BOOLEAN, NEW reachable \in BOOLEAN,
               ReportIncident(severe, reachable)
        PROVE  Accounts'
    <3> DEFINE id == incident_counter + 1
    <3>1. id \in Incident
      BY <2>5, DispatchAssumption
      DEF TypeOK, ReportIncident, Handle, Incident, DispatchAssumption
    <3>2. /\ incidents' = IF severe THEN Plus(incidents, id) ELSE incidents
          /\ queries' = IF severe /\ reachable THEN Plus(queries, id) ELSE queries
          /\ unasked' = IF severe /\ ~reachable THEN Plus(unasked, id) ELSE unasked
          /\ UNCHANGED <<missions, strays, answers, inspected, purpose, missed>>
      BY <2>5 DEF ReportIncident, worldVars
    <3> HIDE DEF id
    <3>3. /\ incidents' \in [Incident -> Nat] /\ queries' \in [Incident -> Nat]
          /\ unasked' \in [Incident -> Nat]
      BY <2>1, <3>1, <3>2, BagUpdates
    <3>4. ASSUME NEW j \in Incident
          PROVE  incidents'[j] - queries'[j] - unasked'[j] =
                   incidents[j] - queries[j] - unasked[j]
      <4>1. CASE ~severe
        BY <2>1, <3>2, <4>1
      <4>2. CASE severe /\ reachable
        <5>1. /\ incidents' = Plus(incidents, id) /\ queries' = Plus(queries, id)
              /\ unasked' = unasked
          BY <3>2, <4>2
        <5> QED
          BY <2>1, <3>1, <5>1 DEF Plus
      <4>3. CASE severe /\ ~reachable
        <5>1. /\ incidents' = Plus(incidents, id) /\ unasked' = Plus(unasked, id)
              /\ queries' = queries
          BY <3>2, <4>3
        <5> QED
          BY <2>1, <3>1, <5>1 DEF Plus
      <4> QED
        BY <4>1, <4>2, <4>3
    <3> QED
      BY <2>4, <3>2, <3>3, <3>4
  <2>6. ASSUME NEW i \in Incident, InspectionFails(i)
        PROVE  Accounts'
    <3>1. /\ queries[i] > 0 /\ queries' = Minus(queries, i)
          /\ unasked' = Plus(unasked, i) /\ incidents' = incidents
          /\ UNCHANGED <<missions, strays, answers, inspected, purpose, missed>>
      BY <2>6 DEF InspectionFails, worldVars
    <3>2. queries' \in [Incident -> Nat] /\ unasked' \in [Incident -> Nat]
      BY <2>1, <3>1, BagUpdates
    <3>3. \A j \in Incident : incidents'[j] - queries'[j] - unasked'[j] =
                              incidents[j] - queries[j] - unasked[j]
      BY <2>1, <3>1 DEF Plus, Minus
    <3> QED
      BY <2>1, <2>4, <3>1, <3>2, <3>3
  <2>7. ASSUME NEW i \in Incident, NEW m \in Mission, InspectionAnswered(i, m)
        PROVE  Accounts'
    <3>1. /\ <<i, m>> \in answers /\ answers' = answers \ {<<i, m>>}
          /\ inspected' = Plus(inspected, <<i, m>>) /\ <<i, m>> \in Inspection
          /\ UNCHANGED <<missions, incidents, queries, strays, unasked, purpose, missed>>
      BY <2>7 DEF InspectionAnswered, worldVars, Inspection
    <3>2. purpose[m] = i /\ m \notin missed
      BY <2>1, <3>1 DEF Queued
    <3>3. Queued' /\ \A j \in Incident : Inspections(j)' = Inspections(j)
      <4>1. \A j \in Incident : Inspections(j)' = Inspections(j)
        BY <3>1 DEF Inspections
      <4> QED
        BY <2>1, <3>1, <4>1 DEF Queued
    <3>4. ASSUME NEW j \in Incident, NEW n \in Mission
          PROVE  Rows(j, n)'
      <4>1. <<j, n>> \in Inspection /\ Rows(j, n)
        BY <2>1 DEF Inspection
      <4>2. CASE <<j, n>> = <<i, m>>
        <5>1. j = i /\ n = m
          BY <4>2
        <5>2. inspected[<<i, m>>] = 0
          BY <3>1, <4>1, <5>1 DEF Rows
        <5>3. inspected'[<<i, m>>] = 1
          BY <2>1, <3>1, <5>2, BagUpdates
        <5> QED
          BY <3>1, <3>2, <5>1, <5>3 DEF Rows
      <4>3. CASE <<j, n>> # <<i, m>>
        <5>1. inspected'[<<j, n>>] = inspected[<<j, n>>]
          BY <2>1, <3>1, <4>1, <4>3, BagUpdates
        <5> QED
          BY <3>1, <4>1, <4>3, <5>1 DEF Rows
      <4> QED
        BY <4>2, <4>3
    <3> QED
      BY <2>1, <3>1, <3>3, <3>4 DEF Accounts, Books
  <2>8. CASE Restart
    <3>1. /\ queries' = [i \in Incident |-> 0]
          /\ strays' = [i \in Incident |-> strays[i] + queries[i]]
          /\ answers' = {}
          /\ missed' = missed \cup {m \in Mission : \E i \in Incident : <<i, m>> \in answers}
          /\ UNCHANGED <<missions, incidents, inspected, unasked, purpose>>
      BY <2>8 DEF Restart, storeVars
    <3>2. \A i \in Incident : Inspections(i)' = Inspections(i)
      BY <3>1 DEF Inspections
    <3>3. \A i \in Incident : Books(i)'
      BY <2>1, <3>1, <3>2 DEF Books
    <3>4. ASSUME NEW i \in Incident, NEW m \in Mission
          PROVE  Rows(i, m)'
      BY <2>1, <3>1 DEF Rows, Queued
    <3>5. Queued'
      <4>1. ASSUME NEW m \in Mission, missions'[m] = "none"
            PROVE  purpose'[m] = 0 /\ m \notin missed'
        <5>1. purpose[m] = 0 /\ m \notin missed
          BY <2>1, <3>1, <4>1 DEF Queued
        <5>2. \A i \in Incident : i # 0
          BY DispatchAssumption DEF Incident, DispatchAssumption
        <5>3. \A i \in Incident : <<i, m>> \notin answers
          BY <2>1, <5>1, <5>2 DEF Queued
        <5> QED
          BY <3>1, <5>1, <5>3
      <4> QED
        BY <2>1, <3>1, <3>2, <4>1 DEF Queued
    <3> QED
      BY <3>3, <3>4, <3>5 DEF Accounts
  <2> QED
    BY <2>2, <2>3, <2>5, <2>6, <2>7, <2>8, ServedStep
    DEF Next, vars, worldVars, SystemReady, RobotChanges, RejectMission,
        AssignMission, StopMission, DispatchPatrol, StopPatrol, Response
<1>3. Accounts => InspectionsAccounted
  BY DEF Accounts, Books, Rows, Inspections, InspectionsAccounted
<1> QED
  BY <1>1, <1>2, <1>3, TypeCorrect, PTL DEF Spec
=============================================================================
