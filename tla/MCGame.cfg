SPECIFICATION Spec
CONSTANTS
  Lines <- MCLines
  MaxStack = 8
  MinHybrid = 6
  SorterMax = 4
  Score <- MCScore
INVARIANTS BoardIsExact MovesAreExact CycleIsExact AccumulatorIsRefreshed OrderingIsExact
CHECK_DEADLOCK FALSE
