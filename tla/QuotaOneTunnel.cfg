CONSTANTS
    t1 = t1
    t2 = t2
    u1 = u1
    u2 = u2
    Tunnel = {t1}
    Upstream = {u1}
    UpstreamOf <- OneDevice
    Quota = {1, 2}
    GiB = 1
    MaxMonth = 1
    MaxCarried = 2
    MaxFaults = 2
    MaxRequests = 1
SPECIFICATION FairSpec
INVARIANTS
    NoOrphanPeer
    NeverOvercharged
    QuotaFlagIsEarned
    AppliedIsAuthorised
    SettledIsEnforced
PROPERTIES
    DisabledIsCut
    OverQuotaIsCut
    QuotaIsReleased
    ImplementsPromise
