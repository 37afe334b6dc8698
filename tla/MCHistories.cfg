SPECIFICATION Spec
CONSTANTS
  w1 = w1
  w2 = w2
  p1 = p1
  m1 = m1
  NoMove = NoMove
  Workers = {w1, w2}
  Pages <- MCPages
  Moves <- MCMoves
  Nodes <- MCNodes
  Pieces <- MCPieces
  MaxNodes = 2
SYMMETRY Alike
INVARIANTS WithinLimits NoProductOverflows RewardsNeverPunish
CHECK_DEADLOCK FALSE
