SPECIFICATION FairHealthSpec
CONSTANTS
  r1 = r1
  Robot = {r1}
  Timeout = 1
  Grace = 4
  AutoEstop = 2
  Slack = 1
  Cap = 4
  Length = 2
  MaxJump = 1
  Hold = 2
INVARIANTS
  HealthTypeOK
  StoppedMeansStill
  AutoStopInForce
  StatusFollowsJumps
PROPERTIES
  ConfirmedIsSustained
  LostRobotStops
  LocalizationReported
