SPECIFICATION Spec
CONSTANTS
  Jobs = {j1, j2}
  Calls = {c1, c2}
  NSteps = 1
  MaxWorkers = 2
  MaxCrashes = 0
  Stalls = FALSE
  Free = Free
  j1 = j1
  j2 = j2
  c1 = c1
  c2 = c2
SYMMETRY Symmetry
CHECK_DEADLOCK FALSE
INVARIANTS OneActive SucceededMeansPassed
