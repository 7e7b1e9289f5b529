SPECIFICATION FairSpec
CONSTANTS
  r1 = r1
  r2 = r2
  Robot <- TwoRobots
  NoRobot = NoRobot
  Priorities = {0}
  RecurringPriority = 0
  MaxInt32 = 2147483647
  Battery <- FullBattery
  MinimumBattery = 20
  Statuses <- MovingStatuses
  ReservationTimeout = 0
  DispatchTimeout = 1
  MissionStartTimeout = 1
  MaxAttempts = 2
  MaxJobs = 2
  MaxGeneration = 3
INVARIANTS
  TypeOK
  AttemptsBounded
  JobsAccounted
  WorkingRobotNotOffered
PROPERTIES
  LostOnlyByOverwrite
  AttemptsCountFailures
  GoneForGood
  SlotRecovers
  ImplementsLifecycle
