SPECIFICATION FairSpec
CONSTANTS
  Callers = {c1, c2}
  MaxTasks = 4
  EventFdMax = 2
INVARIANTS NoMissedWakeup
PROPERTIES ImplementsFifo TaskRuns QuitEndsLoop
CHECK_DEADLOCK FALSE
