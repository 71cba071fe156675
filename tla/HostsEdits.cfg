CONSTANTS
    d1 = d1
    d2 = d2
    one = one
    both = both
    comment = comment
    Domain <- MCDomain
    UserLine <- MCUserLine
    DomainsOf <- MCDomainsOf
    MaxLines = 2
    MaxLength = 9
    Faults = {"read", "open", "write", "kill"}
SPECIFICATION HostsSpec
INVARIANTS
    NothingPilesUp
    EntriesDecide
PROPERTIES
    UserLinesKept
