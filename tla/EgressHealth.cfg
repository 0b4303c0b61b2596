CONSTANTS
    Tunnel = {1, 2}
    Upstream = {1, 2}
    UpstreamOf <- MCUpstreamOf
    Text = {"p", "q", "6", "?"}
    AddressesOf <- MCAddressesOf
    IPv4Pool = {"p", "q"}
    DefaultPool = "p"
    Form <- MCForm
    ModeInput = {"inherit", "native", "warp"}
    Handler = {"h1", "h2"}
    Ticker = "ticker"
    Free = "free"
    MaxChanges = 2
SPECIFICATION Spec
INVARIANT HealthShowsRefusal
