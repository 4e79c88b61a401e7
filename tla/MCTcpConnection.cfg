SPECIFICATION FairSpec
CONSTANTS
  MaxSends = 2
  MaxLen = 3
INVARIANTS WholeInOrder WriteInterest EndIsReportedOnce
PROPERTIES PendingIsWritten PeerCloseIsReported
CHECK_DEADLOCK FALSE
