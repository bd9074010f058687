SPECIFICATION Spec
CONSTANTS
    NUM_CPUS = 2
    MAX_WEIGHT = 1
    Cpus <- MCCpus
    Wakeable <- MCWakeable
    Charges <- MCCharges
    None = None
    MaxClock = 8
INVARIANTS
    TypeOK
    StableOrder
    CallsAreLegal
    OnePlace
    HeldAreNewest
PROPERTY OvertakenOnlyByLess
CHECK_DEADLOCK FALSE
