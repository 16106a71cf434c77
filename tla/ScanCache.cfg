SPECIFICATION Spec
CONSTANTS
    d1 = d1
    d2 = d2
    d3 = d3
    Addrs <- MCAddrs
    TypeOf <- MCTypeOf
    Adverts <- MCAdverts
    Prefixes <- MCPrefixes
    Slots = 2
    NameMax = 2
    StartResults = {"ok", "error"}
    StopResults = {"ok", "error"}
    MaxErrors = 1
    MaxCuts = 1
INVARIANTS
    CacheExact
    ResultsExact
SYMMETRY Devices
