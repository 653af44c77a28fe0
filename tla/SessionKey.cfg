CONSTANTS
  s1 = s1  s2 = s2  s3 = s3
  Sessions <- ThreeSessions
  PoolSize = 2
  MaxRestarts = 1
SPECIFICATION Spec
SYMMETRY Symmetric
INVARIANTS TypeOK ConfirmedSameKey RefusedOnlyIfShaken LoneRequestServed
CHECK_DEADLOCK FALSE
