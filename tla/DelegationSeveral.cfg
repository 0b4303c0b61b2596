SPECIFICATION Spec
CONSTANTS
    W = 4
    Slaac = 2
    TransportPool <- MCTransportPool
    Form <- MCSeveral
    Legacy <- MCLegacy
    LegacyTunnels <- MCLegacyTunnels
    MaxUpstream = 3
    MaxTunnel = 3
    MaxFaults = 2
INVARIANTS
    NoOverlap
    UpstreamsIndependent
    NoDeviceLeft
