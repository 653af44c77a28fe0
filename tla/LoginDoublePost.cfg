CONSTANTS
  t1 = t1  t2 = t2  p1 = p1  p2 = p2  alice = alice  bob = bob
  Nil = Nil
  Tabs <- OneTab
  Posts <- TwoPosts
  Users <- OneUser
  Faults <- NoFaults
  MaxFaults = 0
SPECIFICATION Spec
INVARIANT OneRecordPerConsent
CHECK_DEADLOCK FALSE
