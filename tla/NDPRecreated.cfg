CONSTANTS
    Interface = {"e"}
    Upstream = {"a"}
    Tunnel = {"ta"}
    UpstreamOf <- MCUpstreamOf
    Address = {1, 2}
    PrefixOf <- MCPrefixOf
    BlockOf <- MCBlockOf
    LinkAtStart <- MCLink
    HostsAtStart <- MCHosts
    FirstIndex = 3
    Fd = {1}
    MaxFaults = 0
    MaxChanges = 2
SPECIFICATION Spec
INVARIANTS ListenerIsAttached
