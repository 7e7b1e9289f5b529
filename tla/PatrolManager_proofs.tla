------------------------- MODULE PatrolManager_proofs -------------------------
(***************************************************************************)
(* Proofs about one robot's patrol: which goal /patrol/stop reaches, what  *)
(* the last status says, and that it is one of the fleet's robots, for any *)
(* number of goals.                                                        *)
(***************************************************************************)
EXTENDS PatrolRefinement, FiniteSetTheorems, TLAPS

(***************************************************************************)
(* The inductive invariant.                                                *)
(***************************************************************************)
\* Goals are numbered as they are sent, and a start that is waiting for the
\* server has a number left for its goal.
Numbered == /\ Last \in 0 .. MaxGoals
            /\ Sent = 1 .. Last
            /\ waiting => Last < MaxGoals

\* A start that waits for the server found no active patrol, and none of the
\* callbacks that would make one runs meanwhile.
WaitsAlone == waiting => ~patrol_active

\* active_goal_handle_ is a goal whose result is not in.
HandleIsLive == handle # 0 => goals[handle].client = "known"

\* Until goals overlap only the last one may be open: an active patrol once
\* it was answered, and none before.
OneAtATime ==
  ~overlapped => \A g \in Sent :
    /\ goals[g].client = "known" => patrol_active /\ handle = g
    /\ goals[g].client = "sent" => ~patrol_active
    /\ goals[g].client # "done" => g = Last

\* A goal whose answer or result ended it is none that Nav2 runs.
DoneIsOver ==
  \A g \in Sent : goals[g].client = "done" => goals[g].server \in Outcome \cup {"rejected"}

\* "idle" is the first status only, and "completed" and "canceled" are said
\* of the last goal.
FreeIsDone ==
  /\ status = "idle" => state = "IDLE"
  /\ ~overlapped /\ status \in {"completed", "canceled"} =>
       Last \in Sent /\ goals[Last].server \in {"succeeded", "canceled"}

PatrolInv == /\ TypeOK /\ Numbered /\ WaitsAlone /\ HandleIsLive
             /\ OneAtATime /\ DoneIsOver /\ FreeIsDone /\ QuietStatusIsFinal

-----------------------------------------------------------------------------
LEMMA PatrolInit == Init => PatrolInv
<1> SUFFICES ASSUME Init
             PROVE  PatrolInv
  OBVIOUS
<1>1. Sent = {}
  BY DEF Init, Sent
<1>2. Last = 0
  BY <1>1, FS_EmptySet DEF Last
<1>3. TypeOK
  BY <1>1, PatrolAssumption DEF Init, TypeOK, Sent, PatrolAssumption, Status
<1>4. Numbered
  BY <1>1, <1>2, PatrolAssumption DEF Init, Numbered, PatrolAssumption
<1>5. WaitsAlone /\ HandleIsLive /\ OneAtATime /\ DoneIsOver /\ FreeIsDone
  BY <1>1 DEF Init, WaitsAlone, HandleIsLive, OneAtATime, DoneIsOver, FreeIsDone
<1>6. QuietStatusIsFinal
  BY DEF Init, QuietStatusIsFinal, Busy
<1> QED
  BY <1>3, <1>4, <1>5, <1>6 DEF PatrolInv

\* Steps that send no goal keep the numbers.
LEMMA SameNumbers ==
  ASSUME Sent' = Sent, Numbered, waiting' => waiting \/ Last < MaxGoals
  PROVE  Last' = Last /\ Numbered'
BY DEF Last, Numbered

LEMMA StartStep ==
  ASSUME PatrolInv, HandleStart \/ AutostartTimer
  PROVE  PatrolInv'
<1> USE DEF PatrolInv
<1>1. CASE ExecuteMission /\ autostart' \in BOOLEAN /\ Last < MaxGoals
  <2>1. Sent' = Sent
    BY <1>1 DEF ExecuteMission, Sent
  <2>2. TypeOK'
    BY <1>1 DEF ExecuteMission, TypeOK, Status
  <2>3. Numbered' /\ Last' = Last
    BY <1>1, <2>1, SameNumbers
  <2>4. WaitsAlone' /\ HandleIsLive' /\ QuietStatusIsFinal'
    BY <1>1 DEF ExecuteMission, WaitsAlone, HandleIsLive, QuietStatusIsFinal
  <2>5. OneAtATime' /\ DoneIsOver' /\ FreeIsDone'
    BY <1>1, <2>1, <2>3 DEF ExecuteMission, OneAtATime, DoneIsOver, FreeIsDone
  <2> QED
    BY <2>2, <2>3, <2>4, <2>5
<1>2. CASE UNCHANGED <<waiting, status, patrol_active, handle, goals, cancels,
                       state, overlapped>> /\ autostart' \in BOOLEAN
  <2>1. Sent' = Sent
    BY <1>2 DEF Sent
  <2>2. Last' = Last /\ Numbered'
    BY <1>2, <2>1, SameNumbers
  <2> QED
    BY <1>2, <2>1, <2>2
    DEF TypeOK, WaitsAlone, HandleIsLive, OneAtATime, DoneIsOver, FreeIsDone,
        QuietStatusIsFinal
<1> QED
  BY <1>1, <1>2 DEF HandleStart, AutostartTimer, TypeOK, Last

LEMMA WaitOverStep ==
  ASSUME PatrolInv, ServerMissing \/ SendGoal
  PROVE  PatrolInv'
<1> USE DEF PatrolInv
<1>1. CASE ServerMissing
  <2>1. Sent' = Sent
    BY <1>1 DEF ServerMissing, Sent
  <2>2. Last' = Last /\ Numbered'
    BY <1>1, <2>1, SameNumbers DEF ServerMissing
  <2>3. TypeOK'
    BY <1>1 DEF ServerMissing, TypeOK, Status
  <2> QED
    BY <1>1, <2>1, <2>2, <2>3
    DEF ServerMissing, WaitsAlone, HandleIsLive, OneAtATime, DoneIsOver,
        FreeIsDone, QuietStatusIsFinal, Busy
<1>2. CASE SendGoal
  <2>1. /\ Last \in Nat /\ Last < MaxGoals /\ Sent = 1 .. Last /\ MaxGoals \in Nat
        /\ Last + 1 \notin Sent
    BY <1>2, PatrolAssumption DEF SendGoal, Numbered, PatrolAssumption
  <2>2. Sent' = Sent \cup {Last + 1}
    BY <1>2 DEF SendGoal, Sent, Last
  <2>3. Sent' = 1 .. Last + 1
    BY <2>1, <2>2
  <2>4. Last' = Last + 1
    BY <2>1, <2>3, FS_Interval DEF Last
  <2>5. \A g \in Sent' : goals'[g] = IF g \in Sent THEN goals[g]
                                     ELSE [server |-> "unseen", client |-> "sent"]
    BY <1>2, <2>2 DEF SendGoal, Last, Sent
  <2>6. /\ waiting' = FALSE /\ status' = "sending_goal" /\ patrol_active' = patrol_active
        /\ handle' = handle /\ cancels' = cancels /\ state' = state
        /\ autostart' = autostart /\ waiting
        /\ overlapped' = (overlapped \/ Unanswered # {})
    BY <1>2 DEF SendGoal
  <2>7. TypeOK'
    <3>1. /\ DOMAIN goals' \subseteq 1 .. MaxGoals
          /\ \A g \in DOMAIN goals' : goals'[g] \in Goal
      BY <2>1, <2>2, <2>3, <2>5 DEF TypeOK, Sent, Goal
    <3> QED
      BY <2>2, <2>6, <3>1 DEF TypeOK, Sent, Status
  <2>8. Numbered'
    BY <2>1, <2>3, <2>4, <2>6 DEF Numbered
  <2>9. WaitsAlone' /\ FreeIsDone'
    BY <2>6 DEF WaitsAlone, FreeIsDone
  <2>10. HandleIsLive'
    BY <2>2, <2>5, <2>6 DEF HandleIsLive, TypeOK, Sent
  <2>11. OneAtATime'
    <3> SUFFICES ASSUME ~overlapped'
                 PROVE  \A g \in Sent' :
                          /\ goals'[g].client = "known" => patrol_active' /\ handle' = g
                          /\ goals'[g].client = "sent" => ~patrol_active'
                          /\ goals'[g].client # "done" => g = Last'
      BY DEF OneAtATime
    <3>1. ~patrol_active /\ \A g \in Sent : goals[g].client \notin {"sent", "known"}
      BY <2>6 DEF OneAtATime, WaitsAlone, Unanswered
    <3>2. \A g \in Sent : goals[g].client = "done"
      BY <3>1 DEF TypeOK, Goal, Sent
    <3> QED
      BY <2>2, <2>4, <2>5, <2>6, <3>1, <3>2
  <2>12. QuietStatusIsFinal'
    <3>1. Last + 1 \in Sent' /\ goals'[Last + 1].client = "sent"
      BY <2>1, <2>2, <2>5
    <3> QED
      BY <3>1 DEF QuietStatusIsFinal
  <2>13. DoneIsOver'
    BY <2>2, <2>5 DEF DoneIsOver
  <2> QED
    BY <2>7, <2>8, <2>9, <2>10, <2>11, <2>12, <2>13
<1> QED
  BY <1>1, <1>2

LEMMA GoalResponseStep ==
  ASSUME PatrolInv, NEW g \in Sent, GoalResponse(g)
  PROVE  PatrolInv'
<1> USE DEF PatrolInv
<1>1. /\ ~waiting /\ waiting' = waiting /\ goals[g].client = "sent"
      /\ autostart' = autostart /\ cancels' = cancels /\ state' = state
      /\ overlapped' = overlapped
  BY DEF GoalResponse
<1>2. \E c \in {"known", "done"} :
        /\ goals' = [goals EXCEPT ![g].client = c]
        /\ c = "done" => patrol_active' = FALSE /\ status' = "rejected"
                         /\ handle' = handle
        /\ c = "known" => patrol_active' = TRUE /\ status' = "active"
                          /\ handle' = g
  BY DEF GoalResponse
<1>3. PICK c \in {"known", "done"} :
        /\ goals' = [goals EXCEPT ![g].client = c]
        /\ c = "done" => patrol_active' = FALSE /\ status' = "rejected"
                         /\ handle' = handle
        /\ c = "known" => patrol_active' = TRUE /\ status' = "active"
                          /\ handle' = g
  BY <1>2
<1>4. /\ Sent' = Sent
      /\ \A h \in Sent : h # g => goals'[h] = goals[h]
      /\ goals'[g].client = c /\ goals'[g] \in Goal
  BY <1>3 DEF Sent, TypeOK, Goal
<1>5. Last' = Last /\ Numbered'
  BY <1>1, <1>4, SameNumbers
<1>6. TypeOK'
  BY <1>1, <1>3, <1>4 DEF TypeOK, Sent, Status
<1>7. WaitsAlone' /\ FreeIsDone'
  BY <1>1, <1>3 DEF WaitsAlone, FreeIsDone
<1>8. HandleIsLive'
  BY <1>1, <1>3, <1>4 DEF HandleIsLive, TypeOK, Sent
<1>9. OneAtATime'
  BY <1>1, <1>3, <1>4, <1>5 DEF OneAtATime, TypeOK, Goal, Sent
<1>10. QuietStatusIsFinal'
  BY <1>3, <1>4 DEF QuietStatusIsFinal, Busy
<1>11. DoneIsOver'
  <2>1. goals'[g].server = goals[g].server
    BY <1>3 DEF Sent, TypeOK, Goal
  <2>2. c = "done" => goals[g].server = "rejected"
    BY <1>4 DEF GoalResponse, Sent, TypeOK, Goal
  <2> QED
    BY <1>4, <2>1, <2>2 DEF DoneIsOver
<1> QED
  BY <1>5, <1>6, <1>7, <1>8, <1>9, <1>10, <1>11

LEMMA ResultStep ==
  ASSUME PatrolInv, NEW g \in Sent, Result(g)
  PROVE  PatrolInv'
<1> USE DEF PatrolInv
<1>1. /\ ~waiting /\ waiting' = waiting /\ goals[g].client = "known"
      /\ autostart' = autostart /\ cancels' = cancels /\ state' = state
      /\ overlapped' = overlapped /\ patrol_active' = FALSE /\ handle' = 0
      /\ goals[g].server \in Outcome /\ status' = StatusOf(goals[g].server)
      /\ goals' = [goals EXCEPT ![g].client = "done"]
  BY DEF Result
<1>2. /\ status' \in {"completed", "aborted", "canceled", "error"}
      /\ status' \in {"completed", "canceled"} =>
           goals[g].server \in {"succeeded", "canceled"}
  BY <1>1 DEF StatusOf, Outcome
<1>3. /\ Sent' = Sent
      /\ \A h \in Sent : h # g => goals'[h] = goals[h]
      /\ goals'[g].client = "done" /\ goals'[g] \in Goal
      /\ goals'[g].server = goals[g].server
  BY <1>1 DEF Sent, TypeOK, Goal
<1>4. Last' = Last /\ Numbered'
  BY <1>1, <1>3, SameNumbers
<1>5. TypeOK'
  BY <1>1, <1>2, <1>3 DEF TypeOK, Sent, Status
<1>6. WaitsAlone' /\ HandleIsLive'
  BY <1>1 DEF WaitsAlone, HandleIsLive
<1>7. OneAtATime'
  BY <1>1, <1>3, <1>4 DEF OneAtATime, TypeOK, Goal, Sent
<1>8. FreeIsDone'
  BY <1>1, <1>2, <1>3, <1>4 DEF FreeIsDone, OneAtATime
<1>9. QuietStatusIsFinal'
  BY <1>2 DEF QuietStatusIsFinal, Busy
<1>10. DoneIsOver'
  BY <1>1, <1>3 DEF DoneIsOver
<1> QED
  BY <1>4, <1>5, <1>6, <1>7, <1>8, <1>9, <1>10

LEMMA StopStep ==
  ASSUME PatrolInv, HandleStop
  PROVE  PatrolInv'
<1> USE DEF PatrolInv
<1>1. Sent' = Sent /\ handle \in Sent /\ goals[handle].client = "known"
  BY DEF HandleStop, HandleIsLive, Sent, TypeOK
<1>2. Last' = Last /\ Numbered'
  BY <1>1, SameNumbers DEF HandleStop
<1>3. TypeOK'
  BY <1>1 DEF HandleStop, TypeOK, Status, Sent
<1>4. QuietStatusIsFinal'
  BY <1>1 DEF HandleStop, QuietStatusIsFinal
<1> QED
  BY <1>1, <1>2, <1>3, <1>4
  DEF HandleStop, WaitsAlone, HandleIsLive, OneAtATime, DoneIsOver, FreeIsDone

\* Nav2 tells the client nothing: no goal is open or closed by it, and a goal
\* that is over stays as it ended.
LEMMA ServerStep ==
  ASSUME PatrolInv, NEW g \in Sent,
         \/ Accept(g) \/ Reject(g) \/ Cancel(g)
         \/ \E outcome \in Outcome : End(g, outcome)
  PROVE  PatrolInv'
<1> USE DEF PatrolInv
<1>1. UNCHANGED managerVars /\ state' = state /\ overlapped' = overlapped
      /\ cancels' \subseteq cancels
  BY DEF Accept, Reject, Cancel, End
<1>2. /\ Sent' = Sent
      /\ \A h \in Sent : /\ goals'[h] \in Goal /\ goals'[h].client = goals[h].client
                         /\ goals[h].server \in Outcome \cup {"rejected"} =>
                              goals'[h].server = goals[h].server
  <2>1. \A h \in Sent : goals[h] \in Goal
    BY DEF TypeOK, Sent
  <2>2. CASE Accept(g)
    BY <2>1, <2>2 DEF Accept, Sent, Goal, Outcome, Executing
  <2>3. CASE Reject(g)
    BY <2>1, <2>3 DEF Reject, Sent, Goal, Outcome
  <2>4. CASE Cancel(g)
    BY <2>1, <2>4 DEF Cancel, Sent, Goal, Outcome
  <2>5. ASSUME NEW outcome \in Outcome, End(g, outcome)
        PROVE  /\ Sent' = Sent
               /\ \A h \in Sent :
                    /\ goals'[h] \in Goal /\ goals'[h].client = goals[h].client
                    /\ goals[h].server \in Outcome \cup {"rejected"} =>
                         goals'[h].server = goals[h].server
    BY <2>1, <2>5 DEF End, Sent, Goal, Outcome
  <2> QED
    BY <2>2, <2>3, <2>4, <2>5
<1>3. Last' = Last /\ Numbered'
  BY <1>1, <1>2, SameNumbers DEF managerVars
<1>4. TypeOK'
  BY <1>1, <1>2 DEF TypeOK, Sent, managerVars
<1>5. WaitsAlone' /\ HandleIsLive'
  BY <1>1, <1>2 DEF WaitsAlone, HandleIsLive, managerVars, TypeOK, Sent
<1>6. OneAtATime' /\ DoneIsOver' /\ FreeIsDone' /\ QuietStatusIsFinal'
  BY <1>1, <1>2, <1>3
  DEF OneAtATime, DoneIsOver, FreeIsDone, QuietStatusIsFinal, managerVars, Outcome
<1> QED
  BY <1>3, <1>4, <1>5, <1>6

LEMMA PatrolStep ==
  ASSUME PatrolInv, [Next]_vars
  PROVE  PatrolInv'
<1> USE DEF PatrolInv
<1>1. CASE PatrolStatusCallback
  <2>1. Sent' = Sent
    BY <1>1 DEF PatrolStatusCallback, Sent
  <2>2. Last' = Last /\ Numbered'
    BY <1>1, <2>1, SameNumbers DEF PatrolStatusCallback, managerVars
  <2>3. TypeOK' /\ FreeIsDone'
    BY <1>1, <2>1, <2>2
    DEF PatrolStatusCallback, managerVars, TypeOK, FreeIsDone, StateOf, Status, Busy, Free
  <2> QED
    BY <1>1, <2>1, <2>2, <2>3
    DEF PatrolStatusCallback, managerVars, WaitsAlone, HandleIsLive, OneAtATime,
        DoneIsOver, QuietStatusIsFinal
<1>2. CASE UNCHANGED vars
  <2>1. Sent' = Sent
    BY <1>2 DEF vars, Sent
  <2>2. Last' = Last /\ Numbered'
    BY <1>2, <2>1, SameNumbers DEF vars, managerVars
  <2> QED
    BY <1>2, <2>1, <2>2
    DEF vars, managerVars, TypeOK, WaitsAlone, HandleIsLive, OneAtATime,
        DoneIsOver, FreeIsDone, QuietStatusIsFinal
<1> QED
  BY <1>1, <1>2, StartStep, WaitOverStep, GoalResponseStep, ResultStep, StopStep,
     ServerStep DEF Next

\* Everything the manager's callbacks rely on, in every state.
THEOREM PatrolInvHolds == Spec => []PatrolInv
<1>1. PatrolInv /\ [Next]_vars => PatrolInv'
  BY PatrolStep
<1> QED
  BY PatrolInit, <1>1, PTL DEF Spec

\* The types of patrol_manager's state.
THEOREM PatrolTypeCorrect == Spec => []TypeOK
<1>1. PatrolInv => TypeOK
  BY DEF PatrolInv
<1> QED
  BY PatrolInvHolds, <1>1, PTL

\* Of the goals Nav2 runs, /patrol/stop reaches exactly those whose goal
\* response was handled, unless goals overlapped, however many goals are sent.
THEOREM GoalsAreStoppable == Spec => []GoalIsStoppable
<1>1. PatrolInv => GoalIsStoppable
  <2> SUFFICES ASSUME PatrolInv, ~overlapped, NEW g \in Executing
               PROVE  patrol_active /\ handle = g <=> goals[g].client # "sent"
    BY DEF GoalIsStoppable
  <2>1. g \in Sent /\ goals[g].server = "executing" /\ goals[g] \in Goal
    BY DEF Executing, PatrolInv, TypeOK, Sent
  <2>2. goals[g].client \in {"sent", "known"}
    BY <2>1 DEF PatrolInv, DoneIsOver, Outcome, Goal
  <2>3. goals[g].client = "known" => patrol_active /\ handle = g
    BY <2>1 DEF PatrolInv, OneAtATime
  <2>4. g # 0
    BY <2>1 DEF PatrolInv, Numbered
  <2>5. handle = g => goals[g].client = "known"
    BY <2>4 DEF PatrolInv, HandleIsLive
  <2> QED
    BY <2>2, <2>3, <2>5
<1> QED
  BY PatrolInvHolds, <1>1, PTL

\* No order of answers, results, stops and restarts leaves a busy status as
\* the last word.
THEOREM StatusSettles == Spec => []QuietStatusIsFinal
<1>1. PatrolInv => QuietStatusIsFinal
  BY DEF PatrolInv
<1> QED
  BY PatrolInvHolds, <1>1, PTL

LEMMA IdleStep ==
  ASSUME PatrolInv, [Next]_vars, state = "PATROLLING", state' = "IDLE", ~overlapped'
  PROVE  goals[Cardinality(Sent)].server \in {"succeeded", "canceled"}
<1>1. PatrolStatusCallback
  BY DEF Next, HandleStart, AutostartTimer, ExecuteMission, ServerMissing, SendGoal,
         GoalResponse, Result, HandleStop, Accept, Reject, End, Cancel, vars
<1>2. status \in Free /\ ~overlapped
  BY <1>1 DEF PatrolStatusCallback, StateOf, PatrolInv, TypeOK, Status, Busy, Free
<1> QED
  BY <1>2 DEF PatrolInv, FreeIsDone, Free, Last

\* A robot's state goes from PATROLLING to IDLE only when its last goal
\* succeeded or was canceled, unless goals overlapped.
THEOREM IdleIsDone == Spec => IdleMeansDone
<1>1. PatrolInv /\ [Next]_vars =>
        [state = "PATROLLING" /\ state' = "IDLE" /\ ~overlapped' =>
           goals[Cardinality(Sent)].server \in {"succeeded", "canceled"}]_vars
  BY IdleStep
<1> QED
  BY PatrolInvHolds, <1>1, PTL DEF Spec, IdleMeansDone

-----------------------------------------------------------------------------
(***************************************************************************)
(* The refinement.                                                         *)
(***************************************************************************)
\* What the status can be while a patrol is active or a start is waiting: the
\* fleet sees the same of it.
StatusFits == /\ patrol_active => status \in {"active", "canceling"}
              /\ waiting => status = "waiting_for_nav2"

RefInv == PatrolInv /\ StatusFits

LEMMA StatusFitsStep ==
  ASSUME RefInv, [Next]_vars
  PROVE  StatusFits'
<1> USE DEF RefInv, PatrolInv, WaitsAlone, StatusFits
<1>1. CASE HandleStart \/ AutostartTimer \/ ServerMissing \/ SendGoal \/ HandleStop
  BY <1>1 DEF HandleStart, AutostartTimer, ExecuteMission, ServerMissing, SendGoal,
              HandleStop
<1>2. ASSUME NEW g \in Sent, GoalResponse(g) \/ Result(g)
      PROVE  StatusFits'
  BY <1>2 DEF GoalResponse, Result
<1>3. CASE UNCHANGED managerVars
  BY <1>3 DEF managerVars
<1> QED
  BY <1>1, <1>2, <1>3
  DEF Next, Accept, Reject, End, Cancel, PatrolStatusCallback, vars

\* There are finitely many goals with a result to come.
LEMMA OpenFinite ==
  ASSUME PatrolInv
  PROVE  /\ Last \in Nat
         /\ IsFiniteSet(Open) /\ Cardinality(Open) \in Nat
         /\ IsFiniteSet(Older) /\ Cardinality(Older) \in Nat
<1>1. Last \in Nat /\ IsFiniteSet(Sent)
  BY PatrolAssumption, FS_Interval DEF PatrolInv, Numbered, PatrolAssumption
<1>2. Open \subseteq Sent /\ Older \subseteq Sent
  BY DEF Open, Older
<1>3. IsFiniteSet(Open) /\ IsFiniteSet(Older)
  BY <1>1, <1>2, FS_Subset
<1> QED
  BY <1>1, <1>3, FS_CardinalityType

\* What the fleet sees is the same when these are.
LEMMA SameWork ==
  ASSUME Open' = Open, Last' = Last, waiting' = waiting,
         patrol_active' = patrol_active, StatusNow' = StatusNow
  PROVE  Work' = Work
BY DEF Work, Older

\* A busy status shows as "OTHER", all others as what StateOf says.
LEMMA StatusShows ==
  /\ status \in Busy => StatusNow = "OTHER"
  /\ status \in Free => StatusNow = "IDLE"
  /\ status \in {"aborted", "rejected", "error"} => StatusNow = "ERROR"
BY DEF StatusNow, StateOf, Busy, Free

\* The same of the next state.
LEMMA StatusShowsNext ==
  /\ status' \in Busy => StatusNow' = "OTHER"
  /\ status' \in Free => StatusNow' = "IDLE"
  /\ status' \in {"aborted", "rejected", "error"} => StatusNow' = "ERROR"
BY DEF StatusNow, StateOf, Busy, Free

\* What happens to a robot's work, part by part.
Works == [goal : BOOLEAN, preempted : Int, active : BOOLEAN, state : Robot!State]

WorkParts(w, goal, n, busy, shown) ==
  w \in Works /\ w.goal = goal /\ w.preempted = n /\ w.active = busy /\ w.state = shown

\* Two works are the same when their parts are.
LEMMA SameParts ==
  ASSUME NEW v, NEW w, NEW goal, NEW n, NEW busy, NEW shown,
         WorkParts(v, goal, n, busy, shown), WorkParts(w, goal, n, busy, shown)
  PROVE  v = w
BY DEF WorkParts, Works

LEMMA PartsTaken ==
  ASSUME NEW w \in Works, NEW v,
         WorkParts(v, w.goal, w.preempted, TRUE, "OTHER")
  PROVE  v = Robot!Taken(w)
<1>1. WorkParts(Robot!Taken(w), w.goal, w.preempted, TRUE, "OTHER")
  BY DEF WorkParts, Works, Robot!State, Robot!Taken
<1> QED
  BY <1>1, SameParts

LEMMA PartsEnded ==
  ASSUME NEW w \in Works, NEW s \in Robot!State, NEW v,
         WorkParts(v, FALSE, w.preempted, FALSE, s)
  PROVE  v = Robot!Ended(w, s)
<1>1. WorkParts(Robot!Ended(w, s), FALSE, w.preempted, FALSE, s)
  BY DEF WorkParts, Works, Robot!Ended
<1> QED
  BY <1>1, SameParts

LEMMA PartsOlderEnded ==
  ASSUME NEW w \in Works, NEW s \in Robot!State, NEW v,
         WorkParts(v, w.goal, w.preempted - 1, FALSE, s)
  PROVE  v = Robot!OlderEnded(w, s)
<1>1. PICK m \in Int : m = w.preempted - 1
  BY DEF Works
<1>2. Robot!OlderEnded(w, s) = [w EXCEPT !.preempted = m, !.active = FALSE, !.state = s]
  BY <1>1 DEF Robot!OlderEnded
<1>3. WorkParts([w EXCEPT !.preempted = m, !.active = FALSE, !.state = s],
                w.goal, m, FALSE, s)
  BY DEF WorkParts, Works
<1>4. WorkParts(v, w.goal, m, FALSE, s)
  BY <1>1
<1> QED
  BY <1>2, <1>3, <1>4, SameParts

\* The parts of this robot's work, now ...
WorkReads ==
  /\ Work \in Works
  /\ Work.goal <=> waiting \/ Last \in Open
  /\ Work.preempted = Cardinality(Older)
  /\ Work.active = patrol_active /\ Work.state = StatusNow

LEMMA WorkRead ==
  ASSUME PatrolInv
  PROVE  WorkReads
<1>1. /\ Cardinality(Older) \in Int /\ patrol_active \in BOOLEAN
      /\ StatusNow \in Robot!State
  BY OpenFinite, StatusShows
  DEF PatrolInv, TypeOK, Status, Busy, Free, Robot!State
<1>2. PICK goal \in BOOLEAN : goal = (waiting \/ Last \in Open)
  OBVIOUS
<1>3. Work = [goal |-> goal, preempted |-> Cardinality(Older),
              active |-> patrol_active, state |-> StatusNow]
  BY <1>2, Zenon DEF Work
<1>4. /\ Work \in Works /\ Work.goal = goal /\ Work.preempted = Cardinality(Older)
      /\ Work.active = patrol_active /\ Work.state = StatusNow
  BY <1>1, <1>3 DEF Works
<1> QED
  BY <1>2, <1>4 DEF WorkReads

\* ... and in the next state.
LEMMA WorkReadNext == PatrolInv' => WorkReads'
<1>1. PatrolInv => WorkReads
  BY WorkRead
<1> QED
  BY <1>1, PTL

\* A start leaves the goals there are to older ones: the goal it is about to
\* send preempts one that is open.
LEMMA WorkBegins ==
  ASSUME RefInv, RefInv', ExecuteMission
  PROVE  Robot!Begin
<1>1. /\ waiting = FALSE /\ patrol_active = FALSE
      /\ waiting' = TRUE /\ patrol_active' = FALSE
      /\ goals' = goals /\ status' = "waiting_for_nav2"
  BY DEF ExecuteMission, RefInv, PatrolInv, TypeOK
<1>2. Open' = Open /\ Last' = Last
  BY <1>1 DEF Open, Last, Sent
<1>3. StatusNow' = "OTHER"
  BY <1>1, StatusShowsNext DEF Busy
<1>4. Older' = Open /\ Older = Open \ {Last}
  BY <1>1, <1>2 DEF Older
<1>5. Cardinality(Older') = IF Last \in Open THEN Cardinality(Older) + 1
                                             ELSE Cardinality(Older)
  <2>1. Cardinality(Open \ {Last}) =
          IF Last \in Open THEN Cardinality(Open) - 1 ELSE Cardinality(Open)
    BY OpenFinite, FS_RemoveElement DEF RefInv
  <2> QED
    BY <1>4, <2>1, OpenFinite DEF RefInv
<1>6. WorkReads /\ WorkReads'
  BY WorkRead, WorkReadNext DEF RefInv
<1>7. /\ Robot!Begun(Work) \in Works
      /\ Robot!Begun(Work).goal = TRUE
      /\ Robot!Begun(Work).preempted = Cardinality(Older')
      /\ Robot!Begun(Work).active = FALSE /\ Robot!Begun(Work).state = "OTHER"
  <2>1. PICK m \in Int : m = Cardinality(Older')
    BY <1>4, OpenFinite DEF RefInv
  <2>2. (IF Work.goal THEN Work.preempted + 1 ELSE Work.preempted) = m
    BY <1>1, <1>5, <1>6, <2>1 DEF WorkReads
  <2>3. Robot!Begun(Work) = [goal |-> TRUE, preempted |-> m,
                             active |-> FALSE, state |-> "OTHER"]
    BY <2>2 DEF Robot!Begun
  <2> QED
    BY <2>1, <2>3 DEF Works, Robot!State
<1>8. Work' = Robot!Begun(Work)
  BY <1>1, <1>3, <1>6, <1>7, SameParts DEF WorkReads, WorkParts, Works
<1> QED
  BY <1>1, <1>6, <1>8 DEF WorkReads, Robot!Begin, Robot!CanBegin

\* One goal less is the end of the last one or of an older one.
LEMMA WorkEnds ==
  ASSUME RefInv, RefInv', NEW s \in {"IDLE", "ERROR"},
         ~waiting, ~waiting', patrol_active' = FALSE, StatusNow' = s,
         NEW g \in Open, Open' = Open \ {g}, Last' = Last
  PROVE  Robot!End(s) \/ Robot!EndOlder(s)
<1>1. /\ Cardinality(Older) \in Nat
      /\ Older = Open \ {Last} /\ Older' = (Open \ {g}) \ {Last}
  BY OpenFinite DEF RefInv, Older
<1>2. WorkReads /\ WorkReads' /\ s \in Robot!State
  BY WorkRead, WorkReadNext DEF RefInv, Robot!State
<1>3. CASE g = Last
  <2>1. Older' = Older
    BY <1>1, <1>3
  <2>2. Work' = Robot!Ended(Work, s)
    <3>1. WorkParts(Work', FALSE, Work.preempted, FALSE, s) /\ Work \in Works
      BY <1>2, <1>3, <2>1 DEF WorkReads, WorkParts, Works
    <3> QED
      BY <1>2, <3>1, PartsEnded
  <2> QED
    BY <1>2, <1>3, <2>2 DEF WorkReads, Robot!End, Robot!CanEnd
<1>4. CASE g # Last
  <2>1. g \in Older /\ Older' = Older \ {g}
    BY <1>1, <1>4
  <2>2. Cardinality(Older') = Cardinality(Older) - 1
    BY <2>1, OpenFinite, FS_RemoveElement DEF RefInv
  <2>3. Cardinality(Older) > 0
    BY <1>1, <2>1, OpenFinite, FS_EmptySet DEF RefInv
  <2>4. Work' = Robot!OlderEnded(Work, s)
    <3>1. /\ Work \in Works
          /\ WorkParts(Work', Work.goal, Work.preempted - 1, FALSE, s)
      BY <1>2, <1>4, <2>2 DEF WorkReads, WorkParts, Works
    <3> QED
      BY <1>2, <3>1, PartsOlderEnded
  <2> QED
    BY <1>2, <2>3, <2>4 DEF WorkReads, Robot!EndOlder, Robot!CanEndOlder
<1> QED
  BY <1>3, <1>4

\* Without a server the goal that was to be sent is done with.
LEMMA WorkNotSent ==
  ASSUME RefInv, RefInv', ServerMissing
  PROVE  Robot!End("ERROR") \/ Robot!EndOlder("ERROR")
<1>1. /\ waiting = TRUE /\ patrol_active = FALSE
      /\ waiting' = FALSE /\ patrol_active' = FALSE
      /\ goals' = goals /\ status' = "error"
  BY DEF ServerMissing, RefInv, PatrolInv, TypeOK, WaitsAlone
<1>2. Open' = Open /\ Last' = Last
  BY <1>1 DEF Open, Last, Sent
<1>3. StatusNow' = "ERROR"
  BY <1>1, StatusShowsNext
<1>4. Older = Open /\ Older' = Open \ {Last} /\ Cardinality(Open) \in Nat
  BY <1>1, <1>2, OpenFinite DEF Older, RefInv
<1>5. Cardinality(Older') = IF Last \in Open THEN Cardinality(Open) - 1
                                             ELSE Cardinality(Open)
  BY <1>4, OpenFinite, FS_RemoveElement DEF RefInv
<1>6. WorkReads /\ WorkReads' /\ "ERROR" \in Robot!State
  BY WorkRead, WorkReadNext DEF RefInv, Robot!State
<1>7. CASE Last \in Open
  <2>1. Cardinality(Open) > 0
    BY <1>4, <1>7, OpenFinite, FS_EmptySet DEF RefInv
  <2>2. Work' = Robot!OlderEnded(Work, "ERROR")
    <3>1. /\ Work \in Works
          /\ WorkParts(Work', Work.goal, Work.preempted - 1, FALSE, "ERROR")
      BY <1>1, <1>2, <1>3, <1>4, <1>5, <1>6, <1>7 DEF WorkReads, WorkParts, Works
    <3> QED
      BY <1>6, <3>1, PartsOlderEnded
  <2> QED
    BY <1>4, <1>6, <2>1, <2>2
    DEF WorkReads, Robot!EndOlder, Robot!CanEndOlder
<1>8. CASE Last \notin Open
  <2>1. Work' = Robot!Ended(Work, "ERROR")
    <3>1. WorkParts(Work', FALSE, Work.preempted, FALSE, "ERROR") /\ Work \in Works
      BY <1>1, <1>2, <1>3, <1>4, <1>5, <1>6, <1>8 DEF WorkReads, WorkParts, Works
    <3> QED
      BY <1>6, <3>1, PartsEnded
  <2> QED
    BY <1>1, <1>6, <2>1 DEF WorkReads, Robot!End, Robot!CanEnd
<1> QED
  BY <1>7, <1>8

\* The goal that was to come is the one sent.
LEMMA WorkSent ==
  ASSUME RefInv, RefInv', SendGoal
  PROVE  Work' = Work
<1>1. /\ waiting = TRUE /\ waiting' = FALSE /\ patrol_active' = patrol_active
      /\ status = "waiting_for_nav2" /\ status' = "sending_goal"
  BY DEF SendGoal, RefInv, PatrolInv, TypeOK, StatusFits
<1>2. StatusNow = "OTHER" /\ StatusNow' = "OTHER"
  BY <1>1, StatusShows, StatusShowsNext DEF Busy
<1>3. Last \in Nat /\ Sent = 1 .. Last /\ Last + 1 \notin Sent
  BY OpenFinite DEF RefInv, PatrolInv, Numbered
<1>4. Sent' = Sent \cup {Last + 1}
  BY DEF SendGoal, Sent, Last
<1>5. Sent' = 1 .. Last + 1
  BY <1>3, <1>4
<1>6. Last' = Last + 1
  BY <1>3, <1>5, FS_Interval DEF Last
<1>7. \A g \in Sent' : goals'[g] = IF g \in Sent THEN goals[g]
                                   ELSE [server |-> "unseen", client |-> "sent"]
  BY <1>4 DEF SendGoal, Last, Sent
<1>8. Open' = Open \cup {Last'}
  BY <1>3, <1>4, <1>6, <1>7 DEF Open
<1>9. Older' = Open /\ Older = Open /\ Last' \in Open'
  BY <1>1, <1>3, <1>6, <1>8 DEF Older, Open
<1>10. WorkReads /\ WorkReads'
  BY WorkRead, WorkReadNext DEF RefInv
<1> QED
  BY <1>1, <1>2, <1>9, <1>10 DEF WorkReads, Works

\* A goal that was accepted is taken, unless another one was and is active.
LEMMA WorkAnswered ==
  ASSUME RefInv, RefInv', NEW g \in Sent, GoalResponse(g)
  PROVE  Robot!Next \/ Work' = Work
<1>1. /\ ~waiting /\ ~waiting'
      /\ goals[g].client = "sent" /\ goals[g] \in Goal
  BY DEF GoalResponse, RefInv, PatrolInv, TypeOK, Sent
<1>2. g \in Open /\ Last' = Last
  <2>1. Sent' = Sent
    BY DEF GoalResponse, Sent
  <2> QED
    BY <1>1, <2>1 DEF Open, Last
<1>3. CASE goals[g].server = "rejected"
  <2>1. /\ goals' = [goals EXCEPT ![g].client = "done"]
        /\ patrol_active' = FALSE /\ status' = "rejected"
    BY <1>3 DEF GoalResponse
  <2>2. Open' = Open \ {g}
    BY <1>1, <2>1 DEF Open, Sent, Goal
  <2>3. StatusNow' = "ERROR"
    BY <2>1, StatusShowsNext
  <2>4. Robot!End("ERROR") \/ Robot!EndOlder("ERROR")
    BY <1>1, <1>2, <2>1, <2>2, <2>3, WorkEnds
  <2> QED
    BY <2>4 DEF Robot!Next, Robot!EndStates
<1>4. CASE goals[g].server # "rejected"
  <2>1. /\ goals' = [goals EXCEPT ![g].client = "known"]
        /\ patrol_active' = TRUE /\ status' = "active"
    BY <1>4 DEF GoalResponse
  <2>2. Open' = Open
    BY <1>1, <2>1 DEF Open, Sent, Goal
  <2>3. StatusNow' = "OTHER"
    BY <2>1, StatusShowsNext DEF Busy
  <2>4. Older = Open \ {Last} /\ Older' = Older
    BY <1>1, <1>2, <2>2 DEF Older
  <2>5. WorkReads /\ WorkReads' /\ "OTHER" \in Robot!State
    BY WorkRead, WorkReadNext DEF RefInv, Robot!State
  <2>6. CASE patrol_active
    <3>1. patrol_active = TRUE /\ StatusNow = "OTHER"
      BY <2>6, StatusShows DEF RefInv, StatusFits, PatrolInv, TypeOK, Busy
    <3>2. WorkParts(Work', Work.goal, Work.preempted, TRUE, "OTHER")
      BY <1>1, <1>2, <2>1, <2>2, <2>3, <2>4, <2>5 DEF WorkReads, WorkParts, Works
    <3>3. WorkParts(Work, Work.goal, Work.preempted, TRUE, "OTHER")
      BY <2>5, <3>1 DEF WorkReads, WorkParts
    <3> QED
      BY <3>2, <3>3, SameParts
  <2>7. CASE ~patrol_active
    <3>1. Last \in Open \/ Cardinality(Older) > 0
      <4>1. Last \in Open \/ g \in Older
        BY <1>2, <2>4
      <4> QED
        BY <4>1, OpenFinite, FS_EmptySet DEF RefInv
    <3>2. Work' = Robot!Taken(Work)
      <4>1. WorkParts(Work', Work.goal, Work.preempted, TRUE, "OTHER") /\ Work \in Works
        BY <1>1, <1>2, <2>1, <2>2, <2>3, <2>4, <2>5 DEF WorkReads, WorkParts, Works
      <4> QED
        BY <2>5, <4>1, PartsTaken
    <3>3. Robot!Take
      BY <2>5, <2>7, <3>1, <3>2 DEF WorkReads, Robot!Take, Robot!CanBeTaken
    <3> QED
      BY <3>3 DEF Robot!Next
  <2> QED
    BY <2>6, <2>7
<1> QED
  BY <1>3, <1>4

\* A result ends its goal, well or badly.
LEMMA WorkDone ==
  ASSUME RefInv, RefInv', NEW g \in Sent, Result(g)
  PROVE  Robot!Next
<1>1. /\ ~waiting /\ ~waiting' /\ patrol_active' = FALSE
      /\ goals[g].client = "known" /\ goals[g].server \in Outcome
      /\ goals' = [goals EXCEPT ![g].client = "done"] /\ goals[g] \in Goal
      /\ status' = StatusOf(goals[g].server)
  BY DEF Result, RefInv, PatrolInv, TypeOK, Sent
<1>2. g \in Open /\ Last' = Last /\ Open' = Open \ {g}
  <2>1. Sent' = Sent
    BY <1>1 DEF Sent
  <2>2. Open' = Open \ {g}
    BY <1>1 DEF Open, Sent, Goal
  <2> QED
    BY <1>1, <2>1, <2>2 DEF Open, Last
<1>3. status' \in {"completed", "aborted", "canceled", "error"}
  BY <1>1 DEF StatusOf, Outcome
<1>4. PICK s \in {"IDLE", "ERROR"} : StatusNow' = s
  BY <1>3, StatusShowsNext DEF Free
<1>5. Robot!End(s) \/ Robot!EndOlder(s)
  BY <1>1, <1>2, <1>4, WorkEnds
<1> QED
  BY <1>5 DEF Robot!Next, Robot!EndStates

\* Nav2's own steps, stops and heartbeats change nothing the fleet can see.
LEMMA WorkUntouched ==
  ASSUME RefInv,
         \/ HandleStop \/ PatrolStatusCallback \/ UNCHANGED vars
         \/ (AutostartTimer /\ patrol_active)
         \/ \E g \in Sent : Accept(g) \/ Reject(g) \/ Cancel(g)
         \/ \E g \in Sent, outcome \in Outcome : End(g, outcome)
  PROVE  Work' = Work
<1>1. /\ waiting' = waiting /\ patrol_active' = patrol_active
      /\ status' = status \/ (patrol_active /\ status' = "canceling")
  BY DEF HandleStop, PatrolStatusCallback, vars, managerVars, AutostartTimer,
         Accept, Reject, Cancel, End
<1>2. Sent' = Sent /\ \A h \in Sent : goals'[h].client = goals[h].client
  <2>1. \A h \in Sent : goals[h] \in Goal
    BY DEF RefInv, PatrolInv, TypeOK, Sent
  <2>2. CASE goals' = goals
    BY <2>2 DEF Sent
  <2>3. ASSUME NEW g \in Sent, Accept(g)
        PROVE  Sent' = Sent /\ \A h \in Sent : goals'[h].client = goals[h].client
    BY <2>1, <2>3 DEF Accept, Sent, Goal, Outcome
  <2>4. ASSUME NEW g \in Sent, NEW outcome,
               \/ goals' = [goals EXCEPT ![g].server = outcome]
        PROVE  Sent' = Sent /\ \A h \in Sent : goals'[h].client = goals[h].client
    BY <2>1, <2>4 DEF Sent, Goal
  <2> QED
    BY <2>2, <2>3, <2>4
    DEF HandleStop, PatrolStatusCallback, vars, AutostartTimer, Reject, Cancel, End
<1>3. Open' = Open /\ Last' = Last
  BY <1>2 DEF Open, Last
<1>4. StatusNow' = StatusNow
  <2>1. CASE status' = status
    BY <2>1 DEF StatusNow
  <2>2. CASE patrol_active /\ status' = "canceling"
    BY <2>2, StatusShows, StatusShowsNext DEF RefInv, StatusFits, Busy
  <2> QED
    BY <1>1, <2>1, <2>2
<1> QED
  BY <1>1, <1>3, <1>4, SameWork

LEMMA RobotStep ==
  ASSUME RefInv, RefInv', [Next]_vars
  PROVE  [Robot!Next]_Work
<1>1. CASE HandleStart \/ (AutostartTimer /\ ~patrol_active)
  <2>1. ExecuteMission
    BY <1>1 DEF HandleStart, AutostartTimer
  <2> QED
    BY <2>1, WorkBegins DEF Robot!Next
<1>2. CASE ServerMissing
  BY <1>2, WorkNotSent DEF Robot!Next, Robot!EndStates
<1>3. CASE SendGoal
  BY <1>3, WorkSent
<1>4. CASE \E g \in Sent : GoalResponse(g)
  BY <1>4, WorkAnswered
<1>5. CASE \E g \in Sent : Result(g)
  BY <1>5, WorkDone
<1>6. CASE \/ HandleStop \/ PatrolStatusCallback \/ UNCHANGED vars
           \/ (AutostartTimer /\ patrol_active)
           \/ \E g \in Sent : Accept(g) \/ Reject(g) \/ Cancel(g)
           \/ \E g \in Sent, outcome \in Outcome : End(g, outcome)
  BY <1>6, WorkUntouched
<1> QED
  BY <1>1, <1>2, <1>3, <1>4, <1>5, <1>6 DEF Next

LEMMA RobotInit == Init => Robot!Init
<1> SUFFICES ASSUME Init PROVE Robot!Init
  OBVIOUS
<1>1. Sent = {} /\ waiting = FALSE /\ patrol_active = FALSE /\ status = "idle"
  BY DEF Init, Sent
<1>2. Open = {} /\ Older = {}
  BY <1>1 DEF Open, Older
<1>3. StatusNow = "IDLE"
  BY <1>1, StatusShows DEF Free
<1>4. Cardinality(Older) = 0 /\ (waiting \/ Last \in Open) = FALSE
  BY <1>1, <1>2, FS_EmptySet
<1> QED
  BY <1>1, <1>3, <1>4 DEF Robot!Init, Robot!NoWork, Work

\* Whatever order starts, stops, answers and results come in, also when goals
\* overlap, patrol_manager with its Nav2 and its heartbeat node is one of the
\* robots PatrolFleet is made of, for any number of goals.
THEOREM PatrolIsARobot == Spec => ImplementsRobot
<1>1. Init => StatusFits
  BY DEF Init, StatusFits
<1>2. PatrolInv /\ PatrolInv' /\ StatusFits /\ [Next]_vars => StatusFits'
  BY StatusFitsStep DEF RefInv
<1>3. PatrolInv /\ StatusFits /\ PatrolInv' /\ StatusFits' /\ [Next]_vars
        => [Robot!Next]_Work
  BY RobotStep DEF RefInv
<1> QED
  BY PatrolInvHolds, RobotInit, <1>1, <1>2, <1>3, PTL
  DEF Spec, ImplementsRobot, Robot!Spec

=============================================================================
