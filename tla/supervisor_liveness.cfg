SPECIFICATION LiveSpec
CONSTANTS
  r1 = r1
  n1 = n1
  n2 = n2
  Robot = {r1}
  Node = {n1}
  PollTimeout = 1
  StartupRetry = 1
  ResetRetry = 1
  MaxInFlight = 1
PROPERTIES
  PollsEnd
  EventuallyReady
  RegressionCaught
