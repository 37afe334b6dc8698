SPECIFICATION Spec
CONSTANTS
  Searches <- MCSearches
  VALUE_INFINITE = 41
  VALUE_MATE = 40
  MAX_PLY = 4
  Guesses <- MCGuesses
  Averages <- MCAverages
  Delta = 28
INVARIANTS ExactLossIsProven ReportedIsPlayed
CHECK_DEADLOCK FALSE
PROPERTIES MateIsKept DeepeningEnds
