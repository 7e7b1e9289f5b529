SPECIFICATION Spec
CONSTANTS
  Priorities <- Levels
  MaxMissions = 5
  MaxBatch = 2
INVARIANTS
  TypeOK
  HeadIsFront
  SnapshotIsCurrent
PROPERTIES
  NoOvertaking
