SPECIFICATION FairSpec
CONSTANTS
  Messages = 5
  Capacity = 3
  Size <- MCSize
INVARIANTS Conserved CrashLosesATail NeverWithoutBuffer StopDrains
PROPERTIES ImplementsDurableLog ReachesDisk DestructorReturns
CHECK_DEADLOCK FALSE
