CONSTANTS
    Starts = {s1, s2}
    NoStart = NoStart
    Faults <- RecoverableFaults
    Overlap = FALSE
SPECIFICATION FairSpec
INVARIANTS
    TypeOK
    EffectsMatchMode
    ServingWhenRunning
PROPERTIES
    ReleasedAfterStop
    StartsReturn
CHECK_DEADLOCK FALSE
