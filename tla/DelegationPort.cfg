SPECIFICATION FairSpec
CONSTANTS
    W = 4
    Slaac = 2
    TransportPool <- MCTransportPool
    Form <- MCSamePort
    Legacy = {}
    LegacyTunnels <- NoTunnels
    MaxUpstream = 2
    MaxTunnel = 1
    MaxFaults = 0
PROPERTY
    UpstreamIsServed
