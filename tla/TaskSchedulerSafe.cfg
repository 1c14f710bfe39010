SPECIFICATION Spec
CONSTANTS
  t1 = t1 t2 = t2
  Tasks = {t1, t2} Execs = {e1, e2}
  NoTask = NoTask NoExec = NoExec
  EventTasks = {t1} OnceTasks = {t2} ModelTasks = {t1} Forbidden = {t2}
  Then <- ChainThen
  Threshold = 1 MaxRequests = 1 MaxUses = 1 MaxCrashes = 1
VIEW Readable
SYMMETRY ExecSymmetry
INVARIANTS NoPhantomRuns MembershipIsReleased SlotIsOwned SingleFlightUnlessStopped TriggerSurvives
CHECK_DEADLOCK FALSE
