CONSTANTS
  q1 = q1  q2 = q2  q3 = q3  q4 = q4  q5 = q5  r1 = r1  r2 = r2
  Nil = Nil
  Requests <- ThreeRequests
  RPs <- TwoRPs
  N = 2
  MaxInFlight = 3
  MaxLogins = 2
  Faults <- FaultKinds
  MaxFaults = 1
SPECIFICATION Spec
INVARIANT MessageKeysDistinct
PROPERTY ServiceSpec
SYMMETRY Symmetric
CHECK_DEADLOCK FALSE
