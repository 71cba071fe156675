SPECIFICATION Spec
CONSTANTS
    Client = client
    Upstream = upstream
    Room = 1
    Loopback = loopback
    i1 = i1
    i2 = i2
    i3 = i3
    i4 = i4
    g1 = g1
    g2 = g2
    Payload <- MCPayload
    Upload <- MCUpload
    Configured <- MCConfigured
    AliasIps <- MCAliasIps
    HostIps <- MCHostIps
    SystemIps <- MCSystemIps
    AgentIps <- MCAgentIps
    Seen <- MCSeen
INVARIANTS
    
    JudgedIsDialled
PROPERTIES
    GivesUpAfterAll
    TunnelIsDuplex
    TunnelEnds
