SPECIFICATION Spec
CONSTANTS
    KQK = KQK
    KRK = KRK
    a = a
    b = b
    s1 = s1
    NULL = NULL
    Tables = {KQK, KRK}
    Dirs = {a, b}
    Siblings = {s1}
    Disks <- MCDisks
    Paths <- MCPaths
    MaxPaths = 2
    MaxRefusals = 1
INVARIANTS NothingHalfRead MappedOnce
CHECK_DEADLOCK FALSE
