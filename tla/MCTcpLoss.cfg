SPECIFICATION FairSpec
CONSTANTS
  MaxSends = 2
  MaxLen = 3
INVARIANTS NothingLost
CHECK_DEADLOCK FALSE
