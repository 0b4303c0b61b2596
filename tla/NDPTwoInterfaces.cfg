CONSTANTS
    Interface = {"e", "f"}
    Upstream = {"a", "b"}
    Tunnel = {"ta", "tb"}
    UpstreamOf <- MCUpstreamOf
    Address = {1, 2, 3}
    PrefixOf <- MCPrefixOf
    BlockOf <- MCBlockOf
    LinkAtStart <- MCLink
    HostsAtStart <- MCHosts
    FirstIndex = 3
    Fd = {1, 2}
    MaxFaults = 1
    MaxChanges = 1
SPECIFICATION Spec
INVARIANTS LoopOwnsItsSocket NoSocketLeft AnswersAreWanted ListenersMatch
