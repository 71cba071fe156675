SPECIFICATION Spec
CONSTANTS
    r1 = r1
    r2 = r2
    Req <- MCReq
    Kinds <- MCKinds
    Past = past
    Manifest <- MCManifest
    Dns <- MCDns
    HostDns <- MCHostDns
    Published <- MCPublished
    AliasAlts <- MCAliasAlts
    HostAlts <- MCHostAlts
    Site <- MCSite
    e1 = e1
    e2 = e2
    e3 = e3
    AgentAddr = agent_addr
    Unspecified = unspecified
    PoolMax = 2
    None = None
INVARIANTS
    NoBlindReplay
    OneAtATime
    PoolIsIdle
    GivesUpAfterAll
PROPERTIES
    RequestsEnd
