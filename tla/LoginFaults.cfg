CONSTANTS
  t1 = t1  t2 = t2  p1 = p1  p2 = p2  alice = alice  bob = bob
  Nil = Nil
  Tabs <- OneTab
  Posts <- TwoPosts
  Users <- TwoUsers
  Faults <- FaultKinds
  MaxFaults = 2
SPECIFICATION FairSpec
PROPERTIES TicketSpec ConsentResolves ConsentLogsIn
CHECK_DEADLOCK FALSE
