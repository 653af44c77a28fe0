CONSTANTS
  q1 = q1  q2 = q2  q3 = q3  q4 = q4  q5 = q5  r1 = r1  r2 = r2
  Nil = Nil
  Requests <- TwoRequests
  RPs <- OneRP
  N = 1
  MaxInFlight = 2
  MaxLogins = 1
  Faults <- FaultKinds
  MaxFaults = 1
SPECIFICATION FairSpec
PROPERTY EveryClickAnswered
CHECK_DEADLOCK FALSE
