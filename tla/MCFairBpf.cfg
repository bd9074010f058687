SPECIFICATION FairSpec
CONSTANTS
    p1 = p1
    p2 = p2
    p3 = p3
    c1 = c1
    c2 = c2
    NoTask = NoTask
    Tasks <- MCTasks
    Cpus <- MCCpus
    Affinity <- MCAffinity
    Weight <- MCWeight
    NICE_0_WEIGHT = 1
    AllocFails = TRUE
    SLICE = 2
    Overrun = 0
    TimeMod = 3
INVARIANTS
    TypeOK
    ChargesTheWait
    BoundedWait
PROPERTY NoStarvation
