SPECIFICATION FairSpec
CONSTANTS
  Autostart = TRUE
  MaxGoals = 3
INVARIANTS
  TypeOK
  GoalIsStoppable
  QuietStatusIsFinal
PROPERTIES
  IdleMeansDone
  HeartbeatSettles
  ImplementsRobot
