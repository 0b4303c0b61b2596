CONSTANTS
    t1 = t1
    t2 = t2
    u1 = u1
    u2 = u2
    Tunnel = {t1, t2}
    Upstream = {u1, u2}
    UpstreamOf <- TwoDevices
    Quota = {1}
    GiB = 1
    MaxMonth = 0
    MaxCarried = 2
    MaxFaults = 1
    MaxRequests = 1
SPECIFICATION Spec
INVARIANTS
    NeverOvercharged
    AppliedIsAuthorised
    SettledIsEnforced
