SPECIFICATION FairFleetSpec
CONSTANTS
  r1 = r1
  r2 = r2
  Robot = {r1, r2}
  NoRobot = NoRobot
  Priorities = {0}
  RecurringPriority = 0
  MaxInt32 = 2147483647
  Battery <- UnequalBattery
  MinimumBattery = 20
  Statuses <- RobotStatus
  ReservationTimeout = 0
  DispatchTimeout = 0
  MissionStartTimeout = 0
  MaxAttempts = 2
  MaxJobs = 1
  MaxGeneration = 2
  MaxLost = 1
INVARIANTS
  FleetTypeOK
  BeliefsAgree
PROPERTIES
  CompletionIsTrue
  MissionsLeaveTheRobots
