SPECIFICATION LogSpec
CONSTANTS
  Thread = {t1, t2}
  SIZE = 16
  Header <- MCHeader
  Pieces <- MCPieces
  FATAL = 1
  MaxLines = 2
  MaxNest = 2
  MaxPieces = 2
SYMMETRY Symmetry
INVARIANTS LinesAreWhole FatalIsFlushed
CHECK_DEADLOCK FALSE
