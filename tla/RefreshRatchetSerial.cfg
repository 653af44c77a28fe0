CONSTANTS
  q1 = q1  q2 = q2  q3 = q3  q4 = q4  q5 = q5  r1 = r1  r2 = r2
  Nil = Nil
  Requests <- FiveRequests
  RPs <- OneRP
  N = 4
  MaxInFlight = 1
  MaxLogins = 2
  Faults <- LinkFaults
  MaxFaults = 3
SPECIFICATION Spec
INVARIANTS TypeOK RootsAgree DamageBounded
SYMMETRY Symmetric
CHECK_DEADLOCK FALSE
