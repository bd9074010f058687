SPECIFICATION FairSpec
CONSTANTS
    p1 = p1
    p2 = p2
    p3 = p3
    c1 = c1
    c2 = c2
    NoTask = NoTask
    Tasks <- TwoTasks
    Cpus <- MCCpus
    Affinity <- TwoAffinity
    SLICE = 2
    Overrun = 1
    TimeMod = 4
    CounterMod = 1
INVARIANTS
    TypeOK
    OnePlace
    AffinityRespected
    RemainingWithinSlice
PROPERTY HandsOver
    NoStarvation
