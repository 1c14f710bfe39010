SPECIFICATION Spec
CONSTANTS
  Sessions = {s1}
  Subs = {c1, c2}
  MaxRuns = 2
  MaxEvents = 2
SYMMETRY Symmetry
CHECK_DEADLOCK FALSE
INVARIANTS
  DeliveredIsPrefix
  NobodyLeftWaiting
  FinishedRunIsEvictable
PROPERTY
  ImplementsRunLog
