SPECIFICATION Spec
CONSTANTS
  Games <- MCGames
  VALUE_INFINITE = 45
  VALUE_MATE = 44
  MAX_PLY = 7
  MaxDepth = 4
  MaxTricks = 2
  Margin = 2
  CaptureWorth = 3
  NullReduction = 2
  From <- MCFrom
  FiftyMoves = 12
  MayStop = TRUE
INVARIANTS DecisiveIsReal PvIsALine UnwindsClean
CHECK_DEADLOCK FALSE
