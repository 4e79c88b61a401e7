SPECIFICATION CDSpec
CONSTANTS
  Waiters = {w1, w2, w3}
  Counts <- MCCounts
INVARIANTS OpensAtZero
