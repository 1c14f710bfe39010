SPECIFICATION FairSpec
CONSTANTS
  Sessions = {s1}
  Subs = {c1}
  MaxRuns = 3
  MaxEvents = 1
CHECK_DEADLOCK FALSE
INVARIANTS
  RunningIsRegistered
  BarrierUnlessCut
PROPERTIES
  WaitingEnds
  ResponsesClose
