SPECIFICATION Spec
CONSTANTS
    MaxPieces = 2
    Requests = 2
    Room = 2
INVARIANTS
    Aligned
    CompleteIsWhole
    PooledIsEmpty
PROPERTIES
    ClientServed
    RelayEnds
