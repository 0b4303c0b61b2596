CONSTANTS
    Tunnel = {1, 2, 3}
    Upstream = {1, 2}
    UpstreamOf <- MCUpstreamOf
    ClientAddress <- MCClientAddress
    Group = {"g"}
    Preferred = 1
    ModeInput = {"off", "native", "warp"}
    PolicyInput = {"isolated", "groups", "any"}
    PoolInput = {1, 2}
    Start <- MCStart
    MaxChanges = 1

SPECIFICATION Spec

INVARIANT
    AnyTunnel
