SPECIFICATION FairSpec
CONSTANTS
    W = 4
    Slaac = 2
    TransportPool <- MCTransportPool
    Form <- MCSeveral
    Legacy <- MCLegacy
    LegacyTunnels <- NoTunnels
    MaxUpstream = 1
    MaxTunnel = 1
    MaxFaults = 1
PROPERTY
    DeletedStaysDeleted
