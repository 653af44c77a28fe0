CONSTANTS
  w1 = w1  w2 = w2  a1 = a1  l1 = l1
  Manual <- TwoPages
  Attempts <- Nobody
  Logins <- Nobody
  Tears = FALSE
  MaxFaults = 0
SPECIFICATION Spec
PROPERTY ReregistrationSafe
