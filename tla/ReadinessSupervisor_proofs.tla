---------------------- MODULE ReadinessSupervisor_proofs ----------------------
(***************************************************************************)
(* Proofs about the readiness supervisor, for any number of robots and of  *)
(* Nav2 nodes and whatever the nodes and lifecycle managers do.            *)
(***************************************************************************)
EXTENDS ReadinessSupervisor, TLAPS

SupervisorInv == TypeOK /\ PhaseHasACause /\ PendingIsNotActive

\* What PhaseHasACause and PendingIsNotActive ask of one robot of state s
\* whose unanswered commands are k.
Sound(s, k) ==
  /\ s.phase = "Polling" => s.poll.waiting # {}
  /\ s.phase = "StartupPending" => k["STARTUP"] > 0
  /\ s.phase = "ResetPending" => k["RESET"] > 0
  /\ s.phase \in {"StartupPending", "ResetPending"} => ~s.confirmed_active

LEMMA SoundRobots ==
  PhaseHasACause /\ PendingIsNotActive <=> \A r \in Robot : Sound(sup[r], commands[r])
BY DEF PhaseHasACause, PendingIsNotActive, Sound

LEMMA SoundRobotsNext ==
  (\A r \in Robot : Sound(sup'[r], commands'[r])) =>
    PhaseHasACause' /\ PendingIsNotActive'
BY DEF PhaseHasACause, PendingIsNotActive, Sound

-----------------------------------------------------------------------------
(***************************************************************************)
(* The operators.                                                          *)
(***************************************************************************)
LEMMA PollTypes ==
  /\ NoPoll \in Poll /\ NewPoll \in Poll /\ NewPoll.waiting = Node
  /\ \A p \in Poll : \A n, state : Answered(p, n, state) \in Poll
<1>1. NoPoll \in Poll /\ NewPoll \in Poll /\ NewPoll.waiting = Node
  BY DEF NoPoll, NewPoll, Poll
<1>2. ASSUME NEW p \in Poll, NEW n, NEW state
      PROVE  Answered(p, n, state) \in Poll
  <2>1. /\ (p.all_active /\ state = "active") \in BOOLEAN
        /\ (p.all_unconfigured /\ state = "unconfigured") \in BOOLEAN
        /\ (p.query_failed \/ state = "error") \in BOOLEAN
    OBVIOUS
  <2>2. p.waiting \ {n} \in SUBSET Node
    BY DEF Poll
  <2> QED
    BY <2>1, <2>2 DEF Answered, Poll
<1> QED
  BY <1>1, <1>2

\* A poll that came out wanting a command found a node that is not active.
LEMMA WantedIsInactive ==
  ASSUME NEW p \in Poll
  PROVE  /\ Wanted(p) \in SUBSET Command
         /\ \A c, d \in Wanted(p) : c = d
         /\ Wanted(p) # {} => ~p.all_active
BY DEF Wanted, Command

\* A robot whose poll is finished is sound, with the commands just sent.
LEMMA FinishedSound ==
  ASSUME TypeOK, NEW r \in Robot, NEW p \in Poll, NEW k \in [Command -> Nat],
         \A c \in Sent(r, sup[r], p) : k[c] > 0
  PROVE  /\ Finished(r, sup[r], p) \in RobotSupervisor
         /\ Finished(r, sup[r], p).poll = NoPoll
         /\ Sound(Finished(r, sup[r], p), k)
<1> DEFINE s == sup[r]
           f == Finished(r, s, p)
<1>1. s \in RobotSupervisor
  BY DEF TypeOK
<1>2. Sent(r, s, p) \subseteq Wanted(p) /\ Wanted(p) \subseteq Command
  BY WantedIsInactive DEF Sent
<1>3. f.phase = CASE "STARTUP" \in Sent(r, s, p) -> "StartupPending"
                  [] "RESET" \in Sent(r, s, p) -> "ResetPending"
                  [] OTHER -> "Idle"
  BY <1>1 DEF Finished, RobotSupervisor
<1>4. /\ f.phase \in {"StartupPending", "ResetPending", "Idle"}
      /\ f.phase = "StartupPending" => "STARTUP" \in Sent(r, s, p)
      /\ f.phase = "ResetPending" => "RESET" \in Sent(r, s, p)
  BY <1>3
<1>5. f.confirmed_active = (p.all_active /\ ~p.query_failed) /\ f.poll = NoPoll
  BY <1>1 DEF Finished, RobotSupervisor
<1>6. f.phase # "Idle" => ~f.confirmed_active
  BY <1>2, <1>4, <1>5, WantedIsInactive
<1>7. f \in RobotSupervisor
  <2>1. /\ 0 \in 0 .. PollTimeout + 1 /\ 0 \in 0 .. StartupRetry
        /\ 0 \in 0 .. ResetRetry
    BY SupervisorAssumption DEF SupervisorAssumption
  <2>2. (p.all_active /\ ~p.query_failed) \in BOOLEAN
    OBVIOUS
  <2> QED
    BY <1>1, <1>3, <1>4, <2>1, <2>2, PollTypes DEF Finished, RobotSupervisor, Phase
<1> QED
  BY <1>4, <1>5, <1>6, <1>7 DEF Sound

\* A tick of the readiness timer keeps a robot sound, and never confirms it.
LEMMA CheckedSound ==
  ASSUME TypeOK, NEW r \in Robot, Sound(sup[r], commands[r])
  PROVE  /\ Checked(r) \in RobotSupervisor
         /\ Sound(Checked(r), commands[r])
         /\ Checked(r).confirmed_active = sup[r].confirmed_active
<1> DEFINE s == sup[r]
<1>1. s \in RobotSupervisor /\ 0 \in 0 .. PollTimeout + 1
  BY SupervisorAssumption DEF TypeOK, SupervisorAssumption
<1>2. CASE ~InputsReady(r)
  <2>1. Checked(r) = [s EXCEPT !.phase = "WaitingForInputs", !.pollAge = 0]
    BY <1>2 DEF Checked, Polls
  <2> QED
    BY <1>1, <2>1 DEF Sound, RobotSupervisor, Phase
<1>3. CASE InputsReady(r) /\ Polls(r)
  <2>1. Checked(r) = StartPoll(s)
    BY <1>3 DEF Checked
  <2> QED
    BY <1>1, <2>1, PollTypes, SupervisorAssumption
    DEF StartPoll, Sound, RobotSupervisor, Phase, SupervisorAssumption
<1>4. CASE InputsReady(r) /\ ~Polls(r) /\ TimedOut(s)
  BY <1>1, <1>4, PollTypes DEF Checked, Sound, RobotSupervisor, Phase
<1>5. CASE InputsReady(r) /\ ~Polls(r) /\ ~TimedOut(s)
  BY <1>1, <1>5 DEF Checked, Sound, RobotSupervisor, Phase
<1> QED
  BY <1>2, <1>3, <1>4, <1>5

-----------------------------------------------------------------------------
(***************************************************************************)
(* The steps.                                                              *)
(***************************************************************************)
LEMMA SupervisorInit == Init => SupervisorInv
<1> SUFFICES ASSUME Init
             PROVE  SupervisorInv
  OBVIOUS
<1>1. sup \in [Robot -> RobotSupervisor]
  BY PollTypes, SupervisorAssumption
  DEF Init, RobotSupervisor, Phase, SupervisorAssumption
<1>2. /\ up \in [Robot -> SUBSET Input] /\ nav \in [Robot -> [Node -> LifecycleState]]
      /\ stale \in [Robot -> Poll]
      /\ commands \in [Robot -> [Command -> 0 .. MaxInFlight]]
  BY PollTypes, SupervisorAssumption
  DEF Init, Input, LifecycleState, SupervisorAssumption
<1>3. \A r \in Robot : sup[r].phase = "WaitingForInputs"
  BY DEF Init
<1> QED
  BY <1>1, <1>2, <1>3
  DEF SupervisorInv, TypeOK, PhaseHasACause, PendingIsNotActive, Init

\* Steps of the environment.
LEMMA OutsideStep ==
  ASSUME SupervisorInv, sup' = sup, commands' = commands, TypeOK'
  PROVE  SupervisorInv'
BY DEF SupervisorInv, PhaseHasACause, PendingIsNotActive

LEMMA CheckStep ==
  ASSUME SupervisorInv, CheckReadiness
  PROVE  /\ SupervisorInv' /\ commands' = commands
         /\ \A r \in Robot : sup'[r].confirmed_active = sup[r].confirmed_active
<1> USE DEF SupervisorInv
<1>1. \A r \in Robot : Sound(sup[r], commands[r])
  BY SoundRobots
<1>2. CASE clock
  <2>1. /\ sup' = [r \in Robot |-> Checked(r)] /\ commands' = commands
        /\ stale' = [r \in Robot |-> IF Abandons(r) THEN sup[r].poll ELSE stale[r]]
        /\ published' = \A r \in Robot : InputsReady(r) /\ sup[r].confirmed_active
        /\ clock' = clock /\ up' = up /\ nav' = nav
    BY <1>2 DEF CheckReadiness
  <2>2. \A r \in Robot : /\ Checked(r) \in RobotSupervisor
                         /\ Sound(Checked(r), commands[r])
                         /\ Checked(r).confirmed_active = sup[r].confirmed_active
    BY <1>1, CheckedSound
  <2>3. stale' \in [Robot -> Poll]
    BY <2>1 DEF TypeOK, RobotSupervisor
  <2>4. published' \in BOOLEAN
    BY <2>1
  <2>5. sup' \in [Robot -> RobotSupervisor]
    BY <2>1, <2>2
  <2>6. TypeOK'
    BY <2>1, <2>3, <2>4, <2>5 DEF TypeOK
  <2>7. PhaseHasACause' /\ PendingIsNotActive'
    BY <2>1, <2>2, SoundRobotsNext
  <2> QED
    BY <2>1, <2>2, <2>6, <2>7
<1>3. CASE ~clock
  BY <1>3, OutsideStep DEF CheckReadiness, TypeOK
<1> QED
  BY <1>2, <1>3

\* What an answer to the current poll does to the robots.
LEMMA AnswerEffect ==
  ASSUME SupervisorInv, NEW r \in Robot, NEW n, NEW state, GetStateResponse(r, n, state)
  PROVE  /\ sup' \in [Robot -> RobotSupervisor]
         /\ commands' \in [Robot -> [Command -> 0 .. MaxInFlight]]
         /\ Sound(sup'[r], commands'[r])
         /\ \A q \in Robot : q # r => sup'[q] = sup[q] /\ commands'[q] = commands[q]
         /\ n \in sup[r].poll.waiting
         /\ \/ sup'[r].poll.waiting = {}
            \/ /\ commands' = commands
               /\ sup'[r].confirmed_active = sup[r].confirmed_active
<1> USE DEF SupervisorInv
<1> DEFINE p == Answered(sup[r].poll, n, state)
<1>1. /\ sup[r] \in RobotSupervisor /\ p \in Poll
      /\ commands[r] \in [Command -> 0 .. MaxInFlight]
      /\ Sound(sup[r], commands[r]) /\ n \in sup[r].poll.waiting
  BY PollTypes, SoundRobots DEF TypeOK, RobotSupervisor, GetStateResponse
<1>2. CASE p.waiting = {}
  <2>1. /\ sup' = [sup EXCEPT ![r] = Finished(r, sup[r], p)]
        /\ commands' = InFlight(r, Sent(r, sup[r], p))
    BY <1>2 DEF GetStateResponse
  <2> DEFINE k == [c \in Command |->
                     IF c \in Sent(r, sup[r], p) /\ commands[r][c] < MaxInFlight
                     THEN commands[r][c] + 1 ELSE commands[r][c]]
  <2>2. commands' = [commands EXCEPT ![r] = k]
    BY <2>1 DEF InFlight
  <2>3. /\ k \in [Command -> 0 .. MaxInFlight]
        /\ \A c \in Sent(r, sup[r], p) : k[c] > 0
    <3>1. /\ MaxInFlight \in Nat /\ MaxInFlight > 0
          /\ \A c \in Command : commands[r][c] \in 0 .. MaxInFlight
      BY <1>1, SupervisorAssumption DEF SupervisorAssumption
    <3>2. Sent(r, sup[r], p) \subseteq Command
      BY <1>1, WantedIsInactive DEF Sent
    <3> QED
      BY <3>1, <3>2
  <2>4. k \in [Command -> Nat]
    BY <2>3, SupervisorAssumption DEF SupervisorAssumption
  <2>5. /\ Finished(r, sup[r], p) \in RobotSupervisor
        /\ Finished(r, sup[r], p).poll = NoPoll
        /\ Sound(Finished(r, sup[r], p), k)
    BY <1>1, <2>3, <2>4, FinishedSound
  <2> HIDE DEF k
  <2>6. sup'[r] = Finished(r, sup[r], p) /\ commands'[r] = k
    BY <2>1, <2>2 DEF TypeOK
  <2>7. sup' \in [Robot -> RobotSupervisor]
    BY <2>1, <2>5 DEF TypeOK
  <2>8. commands' \in [Robot -> [Command -> 0 .. MaxInFlight]]
    BY <2>2, <2>3 DEF TypeOK
  <2>9. \A q \in Robot : q # r => sup'[q] = sup[q] /\ commands'[q] = commands[q]
    BY <2>1, <2>2 DEF TypeOK
  <2> QED
    BY <1>1, <2>5, <2>6, <2>7, <2>8, <2>9 DEF NoPoll
<1>3. CASE p.waiting # {}
  <2>1. /\ sup' = [sup EXCEPT ![r] = [sup[r] EXCEPT !.poll = p]]
        /\ commands' = commands
    BY <1>3 DEF GetStateResponse
  <2>2. [sup[r] EXCEPT !.poll = p] \in RobotSupervisor
    BY <1>1 DEF RobotSupervisor
  <2>3. Sound([sup[r] EXCEPT !.poll = p], commands[r])
    BY <1>1, <1>3 DEF Sound, RobotSupervisor
  <2>4. sup'[r] = [sup[r] EXCEPT !.poll = p]
    BY <2>1 DEF TypeOK
  <2>5. sup'[r].confirmed_active = sup[r].confirmed_active
    BY <1>1, <2>4 DEF RobotSupervisor
  <2> QED
    BY <1>1, <2>1, <2>2, <2>3, <2>4, <2>5 DEF TypeOK
<1> QED
  BY <1>2, <1>3

LEMMA AnswerStep ==
  ASSUME SupervisorInv, NEW r \in Robot, NEW n, NEW state, GetStateResponse(r, n, state)
  PROVE  SupervisorInv'
<1> USE DEF SupervisorInv
<1>1. TypeOK'
  BY AnswerEffect DEF GetStateResponse, TypeOK
<1>2. \A q \in Robot : Sound(sup[q], commands[q])
  BY SoundRobots
<1>3. \A q \in Robot : Sound(sup'[q], commands'[q])
  BY <1>2, AnswerEffect
<1> QED
  BY <1>1, <1>3, SoundRobotsNext

LEMMA CommandStep ==
  ASSUME SupervisorInv, NEW r \in Robot, NEW c \in Command, CommandResponse(r, c)
  PROVE  /\ SupervisorInv'
         /\ \A q \in Robot : sup'[q].confirmed_active = sup[q].confirmed_active
         /\ \A q \in Robot, d \in Command : commands'[q][d] <= commands[q][d]
<1> USE DEF SupervisorInv
<1>1. /\ sup \in [Robot -> RobotSupervisor]
      /\ commands \in [Robot -> [Command -> 0 .. MaxInFlight]]
      /\ commands' = [commands EXCEPT ![r][c] = @ - 1] /\ commands[r][c] > 0
      /\ sup' = [sup EXCEPT ![r].phase = "Idle", ![r].pollAge = 0]
  BY DEF TypeOK, CommandResponse
<1>2. MaxInFlight \in Nat /\ 0 \in 0 .. PollTimeout + 1
  BY SupervisorAssumption DEF SupervisorAssumption
<1>3. /\ commands' \in [Robot -> [Command -> 0 .. MaxInFlight]]
      /\ \A q \in Robot, d \in Command : commands'[q][d] <= commands[q][d]
      /\ \A q \in Robot : q # r => commands'[q] = commands[q]
  BY <1>1, <1>2
<1>4. /\ sup' \in [Robot -> RobotSupervisor]
      /\ \A q \in Robot : sup'[q].confirmed_active = sup[q].confirmed_active
      /\ \A q \in Robot : q # r => sup'[q] = sup[q]
      /\ sup'[r].phase = "Idle"
  BY <1>1, <1>2 DEF RobotSupervisor, Phase
<1>5. TypeOK'
  BY <1>3, <1>4 DEF TypeOK, CommandResponse
<1>6. \A q \in Robot : Sound(sup[q], commands[q])
  BY SoundRobots
<1>7. \A q \in Robot : Sound(sup'[q], commands'[q])
  BY <1>3, <1>4, <1>6 DEF Sound
<1> QED
  BY <1>3, <1>4, <1>5, <1>7, SoundRobotsNext

LEMMA TimeStep ==
  ASSUME SupervisorInv, Tick
  PROVE  /\ SupervisorInv' /\ commands' = commands
         /\ \A r \in Robot : sup'[r].confirmed_active = sup[r].confirmed_active
<1> USE DEF SupervisorInv
<1>1. /\ sup \in [Robot -> RobotSupervisor] /\ commands' = commands
      /\ StartupRetry \in Nat /\ ResetRetry \in Nat /\ PollTimeout \in Nat
  BY SupervisorAssumption DEF TypeOK, SupervisorAssumption, Tick
<1>2. /\ sup' \in [Robot -> RobotSupervisor]
      /\ \A r \in Robot : /\ sup'[r].phase = sup[r].phase /\ sup'[r].poll = sup[r].poll
                          /\ sup'[r].confirmed_active = sup[r].confirmed_active
  <2> DEFINE Grown(age, cap) == IF age < cap THEN age + 1 ELSE age
             old(r) == IF sup[r].phase = "Polling" /\ sup[r].pollAge <= PollTimeout
                       THEN sup[r].pollAge + 1 ELSE sup[r].pollAge
             aged(r) == [sup[r] EXCEPT !.startupAge = Grown(@, StartupRetry),
                                       !.resetAge = Grown(@, ResetRetry),
                                       !.pollAge = old(r)]
  <2>1. sup' = [r \in Robot |-> aged(r)]
    BY DEF Tick
  <2>2. ASSUME NEW r \in Robot
        PROVE  /\ aged(r) \in RobotSupervisor /\ aged(r).phase = sup[r].phase
               /\ aged(r).poll = sup[r].poll
               /\ aged(r).confirmed_active = sup[r].confirmed_active
    <3>1. sup[r] \in RobotSupervisor
      BY <1>1
    <3>2. /\ Grown(sup[r].startupAge, StartupRetry) \in 0 .. StartupRetry
          /\ Grown(sup[r].resetAge, ResetRetry) \in 0 .. ResetRetry
          /\ old(r) \in 0 .. PollTimeout + 1
      BY <1>1, <3>1 DEF RobotSupervisor
    <3> HIDE DEF Grown, old
    <3> QED
      BY <3>1, <3>2 DEF RobotSupervisor
  <2> QED
    BY <2>1, <2>2
<1>3. TypeOK'
  BY <1>2 DEF TypeOK, Tick
<1> QED
  BY <1>1, <1>2, <1>3 DEF PhaseHasACause, PendingIsNotActive

LEMMA StaleStep ==
  ASSUME SupervisorInv, NEW r \in Robot, NEW n, NEW state, StaleResponse(r, n, state)
  PROVE  TypeOK'
<1>1. stale' = [stale EXCEPT ![r].waiting = @ \ {n}] /\ stale \in [Robot -> Poll]
  BY DEF SupervisorInv, TypeOK, StaleResponse
<1>2. stale' \in [Robot -> Poll]
  BY <1>1 DEF Poll
<1> QED
  BY <1>2 DEF SupervisorInv, TypeOK, StaleResponse

\* Steps that touch neither sup nor commands.
Outside ==
  \/ ClockStarts
  \/ \E r \in Robot, valid \in BOOLEAN : MapCallback(r, valid)
  \/ \E r \in Robot, i \in Input \ {"map"} : InputChanges(r, i)
  \/ \E r \in Robot, n \in Node, state \in LifecycleState : NodeChanges(r, n, state)
  \/ \E r \in Robot, n \in Node : StaleResponse(r, n, Answer(r, n))
  \/ UNCHANGED vars

LEMMA OutsideTypes ==
  ASSUME SupervisorInv, Outside
  PROVE  TypeOK' /\ sup' = sup /\ commands' = commands
<1> USE DEF SupervisorInv
<1>1. CASE ClockStarts
  BY <1>1 DEF ClockStarts, TypeOK
<1>2. ASSUME NEW r \in Robot, NEW valid \in BOOLEAN, MapCallback(r, valid)
      PROVE  TypeOK' /\ sup' = sup /\ commands' = commands
  BY <1>2 DEF MapCallback, TypeOK, Input
<1>3. ASSUME NEW r \in Robot, NEW i \in Input, InputChanges(r, i)
      PROVE  TypeOK' /\ sup' = sup /\ commands' = commands
  BY <1>3 DEF InputChanges, TypeOK
<1>4. ASSUME NEW r \in Robot, NEW n \in Node, NEW state \in LifecycleState,
             NodeChanges(r, n, state)
      PROVE  TypeOK' /\ sup' = sup /\ commands' = commands
  BY <1>4 DEF NodeChanges, TypeOK
<1>5. ASSUME NEW r \in Robot, NEW n \in Node, StaleResponse(r, n, Answer(r, n))
      PROVE  TypeOK' /\ sup' = sup /\ commands' = commands
  BY <1>5, StaleStep DEF StaleResponse
<1>6. CASE UNCHANGED vars
  BY <1>6 DEF vars, TypeOK
<1> QED
  BY <1>1, <1>2, <1>3, <1>4, <1>5, <1>6 DEF Outside

LEMMA SupervisorStep ==
  ASSUME SupervisorInv, [Next]_vars
  PROVE  SupervisorInv'
<1>1. CASE Outside
  BY <1>1, OutsideTypes, OutsideStep
<1>2. ASSUME NEW r \in Robot, NEW n \in Node, NodeAnswers(r, n) \/ QueryFails(r, n)
      PROVE  SupervisorInv'
  BY <1>2, AnswerStep DEF NodeAnswers, QueryFails
<1>3. CASE CheckReadiness
  BY <1>3, CheckStep
<1>4. ASSUME NEW r \in Robot, NEW c \in Command, CommandResponse(r, c)
      PROVE  SupervisorInv'
  BY <1>4, CommandStep
<1>5. CASE Tick
  BY <1>5, TimeStep
<1> QED
  BY <1>1, <1>2, <1>3, <1>4, <1>5 DEF Next, Outside

\* The supervisor's invariant, in every state.
THEOREM SupervisorInvHolds == Spec => []SupervisorInv
<1>1. SupervisorInv /\ [Next]_vars => SupervisorInv'
  BY SupervisorStep
<1> QED
  BY SupervisorInit, <1>1, PTL DEF Spec

\* The types of the supervisor's state.
THEOREM SupervisorTypeCorrect == Spec => []TypeOK
<1>1. SupervisorInv => TypeOK
  BY DEF SupervisorInv
<1> QED
  BY SupervisorInvHolds, <1>1, PTL

\* A robot that waits for a poll or a command has one that is unanswered.
THEOREM PhasesHaveCauses == Spec => []PhaseHasACause
<1>1. SupervisorInv => PhaseHasACause
  BY DEF SupervisorInv
<1> QED
  BY SupervisorInvHolds, <1>1, PTL

\* A robot that is being started or reset does not count as active.
THEOREM PendingRobotsAreInactive == Spec => []PendingIsNotActive
<1>1. SupervisorInv => PendingIsNotActive
  BY DEF SupervisorInv
<1> QED
  BY SupervisorInvHolds, <1>1, PTL

LEMMA DecisionStep ==
  ASSUME SupervisorInv, [Next]_vars, NEW r \in Robot,
         \/ sup'[r].confirmed_active # sup[r].confirmed_active
         \/ \E c \in Command : commands'[r][c] > commands[r][c]
  PROVE  sup[r].poll.waiting # {} /\ sup'[r].poll.waiting = {}
<1>1. \A c \in Command : commands[r][c] \in Int
  BY SupervisorAssumption DEF SupervisorInv, TypeOK, SupervisorAssumption
<1>2. CASE Outside
  BY <1>1, <1>2, OutsideTypes
<1>3. ASSUME NEW q \in Robot, NEW n \in Node, NodeAnswers(q, n) \/ QueryFails(q, n)
      PROVE  sup[r].poll.waiting # {} /\ sup'[r].poll.waiting = {}
  <2>1. GetStateResponse(q, n, Answer(q, n))
    BY <1>3 DEF NodeAnswers, QueryFails
  <2>2. /\ \A t \in Robot : t # q => sup'[t] = sup[t] /\ commands'[t] = commands[t]
        /\ n \in sup[q].poll.waiting
        /\ \/ sup'[q].poll.waiting = {}
           \/ /\ commands' = commands
              /\ sup'[q].confirmed_active = sup[q].confirmed_active
    BY <2>1, AnswerEffect
  <2> QED
    BY <1>1, <2>2
<1>4. CASE CheckReadiness
  BY <1>1, <1>4, CheckStep
<1>5. ASSUME NEW q \in Robot, NEW c \in Command, CommandResponse(q, c)
      PROVE  FALSE
  <2>1. \A d \in Command : commands'[r][d] <= commands[r][d]
    BY <1>5, CommandStep
  <2>2. \A d \in Command : commands'[r][d] \in Int
    BY <1>5, CommandStep, SupervisorAssumption
    DEF SupervisorInv, TypeOK, SupervisorAssumption
  <2> QED
    BY <1>1, <1>5, <2>1, <2>2, CommandStep
<1>6. CASE Tick
  BY <1>1, <1>6, TimeStep
<1> QED
  BY <1>2, <1>3, <1>4, <1>5, <1>6 DEF Next, Outside

\* No answer to an abandoned poll, and nothing else but the last answer to
\* the current one, confirms a robot or has it started or reset.
THEOREM TheCurrentPollDecides == Spec => OnlyTheCurrentPollDecides
<1>1. SupervisorInv /\ [Next]_vars =>
        [\A r \in Robot :
           \/ sup'[r].confirmed_active # sup[r].confirmed_active
           \/ \E c \in Command : commands'[r][c] > commands[r][c]
           => sup[r].poll.waiting # {} /\ sup'[r].poll.waiting = {}]_vars
  BY DecisionStep
<1> QED
  BY SupervisorInvHolds, <1>1, PTL DEF Spec, OnlyTheCurrentPollDecides

=============================================================================
