SPECIFICATION Spec
CONSTANTS
  r1 = r1
  r2 = r2
  m1 = m1
  m2 = m2
  Robot = {r1}
  PatrolRobot = r1
  Mission = {m1}
  Manual = Manual
  MaxRequests = 3
PROPERTIES
  InspectionsAreForwarded
