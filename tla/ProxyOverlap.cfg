CONSTANTS
    Starts = {s1, s2}
    NoStart = NoStart
    Faults <- FaultKind
    Overlap = TRUE
SPECIFICATION Spec
SYMMETRY AnyStart
INVARIANTS
    RuntimeOutlivesCall
PROPERTIES
    FailedStartReleases
CHECK_DEADLOCK FALSE
