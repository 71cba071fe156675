SPECIFICATION Spec
CONSTANTS
    MaxRoots = 2
    MaxFaults = 1
    MaxCrashes = 1
INVARIANTS
    PairFits
    DecryptsTrusted
    GateAgrees
