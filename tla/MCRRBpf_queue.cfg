SPECIFICATION Spec
CONSTANTS
    p1 = p1
    p2 = p2
    p3 = p3
    c1 = c1
    c2 = c2
    NoTask = NoTask
    Tasks <- ThreeTasks
    Cpus <- MCCpus
    Affinity <- ThreeAffinity
    SLICE = 1
    Overrun = 0
    TimeMod = 2
    CounterMod = 3
INVARIANTS
    BoundedWait
    WaiterHasACpu
    CountersMatchQueue
PROPERTY InInsertionOrder
