SPECIFICATION Spec
CONSTANTS
    NUM_CPUS = 2
    TIME_QUANTUM = 1
    Cpus <- MCCpus
    Wakeable <- MCWakeable
    None = None
    MaxClock = 8
INVARIANTS
    TypeOK
    FIFOInvariant
    CallsAreLegal
    OnePlace
    HeldAreRegistered
PROPERTIES
    RefinesAbstract
    NeverOvertaken
    AffinityKept
CHECK_DEADLOCK FALSE
