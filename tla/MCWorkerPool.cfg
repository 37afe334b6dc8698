SPECIFICATION Spec
CONSTANTS
    Counts <- MCCounts
    SEARCH_THREADS_MAX = 4
    Topologies <- MCTopologies
    BankPages = 3
    Refusals = {"slots", "distribution", "plan", "bank", "list", "thread", "worker", "footprint", "affinity", "topology"}
    MaxCommands = 3
INVARIANTS SetIsWhole BanksOutliveWorkers BanksCleared
