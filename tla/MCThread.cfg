SPECIFICATION FairSpec
CONSTANTS
    uci = uci
    worker0 = worker0
    self = self
    j1 = j1
    j2 = j2
    j3 = j3
    NoJob = NoJob
    Clients = {uci, worker0}
    Owner = uci
    Self = self
    Jobs = {j1, j2, j3}
INVARIANTS NoLostJob NoMissedWakeup
PROPERTIES WaitDrains JoinRunsEverything Progress SlotSpec
