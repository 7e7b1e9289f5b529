SPECIFICATION Spec
CONSTANTS
  r1 = r1
  n1 = n1
  n2 = n2
  Robot = {r1}
  Node = {n1, n2}
  PollTimeout = 0
  StartupRetry = 1
  ResetRetry = 0
  MaxInFlight = 1
SYMMETRY Nodes
INVARIANTS
  PhaseHasACause
  PendingIsNotActive
PROPERTIES
  OnlyTheCurrentPollDecides
