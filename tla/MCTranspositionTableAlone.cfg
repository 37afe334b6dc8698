SPECIFICATION Spec
CONSTANTS
    k1 = k1
    k2 = k2
    k3 = k3
    w1 = w1
    w2 = w2
    w3 = w3
    m1 = m1
    m2 = m2
    MOVE_NONE = MOVE_NONE
    Workers = {w1}
    Keys = {k1, k2, k3}
    key16 <- MCThreeKeys
    Moves = {m1, m2}
    Results <- MCResults
    Earlier = {}
    TT_CLUSTER_SIZE = 3
    TT_GENERATION_MASK = 1
    MaxOpen = 2
    MaxProbes = 4
    MaxSaves = 3
    MaxSearches = 2
INVARIANTS HitIsOneSave
PROPERTIES VictimIsWorthLeast
CHECK_DEADLOCK FALSE
