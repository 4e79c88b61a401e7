SPECIFICATION FairSpec
CONSTANTS
  MaxThreads = 2
INVARIANTS HandsOutLoops FindsLoopAlive
PROPERTIES StartAndDestructorReturn
CHECK_DEADLOCK FALSE
