SPECIFICATION FairSpec
CONSTANTS
    d1 = d1
    d2 = d2
    d3 = d3
    p1 = p1
    a4 = a4
    a6 = a6
    Doh <- MCDoh
    Configured = d1
    Server <- MCServer
    OS = OS
    V4 <- MCV4
    V6 <- MCV6
INVARIANTS SingleFamily GivesUpLast
PROPERTIES ResolveEnds
