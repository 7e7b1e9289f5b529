SPECIFICATION Spec
CONSTANTS
  r1 = r1
  r2 = r2
  Robot <- OneRobot
  NoRobot = NoRobot
  Priorities = {100}
  RecurringPriority = 50
  MaxInt32 = 2147483647
  Battery <- FullBattery
  MinimumBattery = 20
  Statuses <- SlotStatuses
  ReservationTimeout = 2
  DispatchTimeout = 3
  MissionStartTimeout = 3
  MaxAttempts = 3
  MaxJobs = 1
  MaxGeneration = 1
INVARIANTS
  CanceledNeverRuns
