SPECIFICATION FairSpec
CONSTANTS
  Jobs = {j1}
  Calls = {c1, c2}
  NSteps = 1
  MaxWorkers = 1
  MaxCrashes = 1
  Stalls = TRUE
  Free = Free
  j1 = j1
  c1 = c1
  c2 = c2
CHECK_DEADLOCK FALSE
INVARIANT LockIsRecoverable
PROPERTY CallsReturn
PROPERTY JobsEnd
