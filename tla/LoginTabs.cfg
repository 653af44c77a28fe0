CONSTANTS
  t1 = t1  t2 = t2  p1 = p1  p2 = p2  alice = alice  bob = bob
  Nil = Nil
  Tabs <- TwoTabs
  Posts <- TwoPosts
  Users <- TwoUsers
  Faults <- Reuse
  MaxFaults = 1
SPECIFICATION Spec
INVARIANTS TypeOK RecordFaithful
PROPERTY TicketSpec
SYMMETRY Symmetric
CHECK_DEADLOCK FALSE
