SPECIFICATION Spec
CONSTANTS
    p1 = p1
    p2 = p2
    p3 = p3
    c1 = c1
    c2 = c2
    NoTask = NoTask
    Tasks <- MCThree
    Cpus <- MCCpus
    Affinity <- MCThreeAffinity
    Weight <- MCThreeWeight
    NICE_0_WEIGHT = 1
    AllocFails = FALSE
    SLICE = 1
    Overrun = 0
    TimeMod = 8
PROPERTY LowestVruntimeFirst
