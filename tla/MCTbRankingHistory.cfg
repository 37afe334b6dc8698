SPECIFICATION Spec
CONSTANTS
    Games <- MCGames
    Starts <- MCHistories
    LineBound = 0
    MaxPast = 8
    NULL = NULL
INVARIANTS WonIsWon
CHECK_DEADLOCK FALSE
