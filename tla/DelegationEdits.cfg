SPECIFICATION FairSpec
CONSTANTS
    W = 4
    Slaac = 2
    TransportPool <- MCTransportPool
    Form <- MCEdits
    Legacy = {}
    LegacyTunnels <- NoTunnels
    MaxUpstream = 1
    MaxTunnel = 2
    MaxFaults = 2
INVARIANTS
    AllocationsInside
    ServerKeepsAddress
    PeersAreRecorded
PROPERTY
    UpstreamIsServed
