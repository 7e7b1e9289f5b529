------------------------------ MODULE RobotWork ------------------------------
(***************************************************************************)
(* What a robot makes of its missions, in the few fields the fleet can     *)
(* tell apart, and what a start, an answer of Nav2 and a result do to      *)
(* them.  The robots of PatrolFleet are made of this; PatrolRefinement     *)
(* shows that it is what PatrolManager does.                               *)
(***************************************************************************)
EXTENDS Naturals

State == {"IDLE", "OTHER", "ERROR"}

\* goal is whether the mission begun last has a goal without a result yet, or
\* one that is being sent; preempted is how many older goals have no result
\* yet; active is patrol_active_; state is what the status says to the fleet.
RobotState == [goal : BOOLEAN, preempted : Nat, active : BOOLEAN, state : State]

NoWork == [goal |-> FALSE, preempted |-> 0, active |-> FALSE, state |-> "IDLE"]

\* A start is refused while patrol_active_, which a goal that was sent and not
\* answered yet does not set: begun over such a goal, a mission preempts it.
CanBegin(w) == ~w.active

Begun(w) == [goal |-> TRUE,
             preempted |-> IF w.goal THEN w.preempted + 1 ELSE w.preempted,
             active |-> FALSE, state |-> "OTHER"]

\* Nav2 takes a goal: the callback does not look which one.
CanBeTaken(w) == ~w.active /\ (w.goal \/ w.preempted > 0)
Taken(w) == [w EXCEPT !.active = TRUE, !.state = "OTHER"]

\* A goal is rejected, cannot be sent, or ends well or badly: the one sent last,
\* or an older one, whichever runs now.
EndStates == {"IDLE", "ERROR"}

CanEnd(w) == w.goal
Ended(w, s) == [w EXCEPT !.goal = FALSE, !.active = FALSE, !.state = s]

CanEndOlder(w) == w.preempted > 0
OlderEnded(w, s) == [w EXCEPT !.preempted = @ - 1, !.active = FALSE, !.state = s]
=============================================================================
