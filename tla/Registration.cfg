CONSTANTS
  w1 = w1  w2 = w2  a1 = a1  l1 = l1
  Manual <- OnePage
  Attempts <- OneTry
  Logins <- OneLogin
  Tears = TRUE
  MaxFaults = 2
SPECIFICATION Spec
INVARIANTS TypeOK UndisturbedRegistrationWorks QuietLoginsAccepted
