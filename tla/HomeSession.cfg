CONSTANTS
  l1 = l1  l2 = l2  r1 = r1  u1 = u1  u2 = u2  Nil = Nil
  Logins <- TwoLogins
  Refreshes <- OneRefresh
  Users <- TwoUsers
  IdLife = 2
  RefreshLife = 3
  CodeLife = 4
  MaxTime = 5
  MaxFaults = 1
SPECIFICATION Spec
SYMMETRY Symmetric
INVARIANTS TypeOK LoginFailsForCause SignInSticks TokenOfItsUser IdentityFresh
CHECK_DEADLOCK FALSE
