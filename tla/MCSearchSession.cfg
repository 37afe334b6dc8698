SPECIFICATION FairSpec
CONSTANTS
    SiblingCount = 1
    MAX_PLY = 3
    Limits <- MCLimits
    BenchLimits <- MCBench
    Failures = {"worker", "root_list", "main_setup", "sibling_setup"}
    MaxGos = 2
    MaxBoards = 1
INVARIANTS NobodyInTheWay StopIsFresh
PROPERTIES ProtocolSafety SearchesEnd CommandsReturn
