SPECIFICATION FairSpec
CONSTANTS
  Callers = {c1, c2, c3}
  MaxThreads = 2
  MaxTasks = 4
  MaxStarts = 2
  Throwing <- MCThrowing
INVARIANTS NoLostWakeup NoStrandedCaller
PROPERTIES ImplementsFifo UnderflowOnlyInStop AcceptedTaskRuns RunReturns StopTerminates
CHECK_DEADLOCK FALSE
