SPECIFICATION Spec
CONSTANTS
  Base = 2
  Widths = {1, 2}
  CR = 1
  LF = 0
  kInitialSize = 2
  kPrependSize = 2
  ExtraSize = 2
  MaxChunk = 3
  MaxSize = 7
INVARIANTS PeeksAtQueue
PROPERTIES ImplementsQueue
