SPECIFICATION Spec
CONSTANTS
    Games <- MCGames
    Starts <- MCStarts
    LineBound = 7
    MaxPast = 8
    NULL = NULL
INVARIANTS ProbesExact RootHolds LineIsWon
CHECK_DEADLOCK FALSE
