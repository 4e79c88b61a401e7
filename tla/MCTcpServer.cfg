SPECIFICATION FairSpec
CONSTANTS
  Fds = {3, 4}
  ThreadNums = {0, 1, 2}
  MaxConns = 2
  MaxReports = 3
INVARIANTS SoundOnOneThread EntriesAreOwn
PROPERTIES ClosedIsReleased ClientsAreAccepted
CHECK_DEADLOCK FALSE
