SPECIFICATION Spec
CONSTANTS
    p1 = p1
    p2 = p2
    p3 = p3
    c1 = c1
    c2 = c2
    NoTask = NoTask
    Tasks <- TwoTasks
    Cpus <- MCCpus
    Affinity <- TwoAffinity
    SLICE = 1
    Overrun = 0
    TimeMod = 8
    CounterMod = 1
INVARIANTS
    EarliestEnqueuedFirst
