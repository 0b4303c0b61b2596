CONSTANTS
    t1 = t1
    t2 = t2
    u1 = u1
    u2 = u2
    Tunnel = {t1}
    Upstream = {u1}
    UpstreamOf <- OneDevice
    Quota = {1, 2}
    GiB = 1
    MaxMonth = 1
    MaxCarried = 3
    MaxFaults = 0
    MaxRequests = 1
SPECIFICATION Spec
PROPERTIES
    ManualDisableSurvivesReset
