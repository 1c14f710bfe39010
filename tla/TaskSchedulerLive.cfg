SPECIFICATION FairSpec
CONSTANTS
  t1 = t1 t2 = t2
  Tasks = {t1} Execs = {e1, e2}
  NoTask = NoTask NoExec = NoExec
  EventTasks = {} OnceTasks = {} ModelTasks = {t1} Forbidden = {}
  Then <- SoloThen
  Threshold = 1 MaxRequests = 1 MaxUses = 1 MaxCrashes = 1
PROPERTIES WaitingEnds DueTasksRun
CHECK_DEADLOCK FALSE
