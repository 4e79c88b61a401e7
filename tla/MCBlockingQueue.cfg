SPECIFICATION BQFairSpec
CONSTANTS
  Takers = {c1, c2, c3}
  MaxItems = 5
PROPERTIES ImplementsFifo SleepersAreServed
