SPECIFICATION Spec
CONSTANTS
    k1 = k1
    k2 = k2
    k3 = k3
    w1 = w1
    w2 = w2
    w3 = w3
    m1 = m1
    m2 = m2
    MOVE_NONE = MOVE_NONE
    Workers = {w1, w2, w3}
    Keys = {k1, k2}
    key16 <- MCTwoKeys
    Moves = {m1, m2}
    Results <- MCDeepOrNot
    Earlier <- MCEarlier
    TT_CLUSTER_SIZE = 1
    TT_GENERATION_MASK = 1
    MaxOpen = 1
    MaxProbes = 3
    MaxSaves = 2
    MaxSearches = 2
INVARIANTS WholeUnlessRaced AgeIsExact DepthNeverInvented
PROPERTIES SaveSticks
SYMMETRY AnyWorker
VIEW LiveState
CHECK_DEADLOCK FALSE
