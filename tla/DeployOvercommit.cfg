SPECIFICATION Spec
CONSTANTS
    h1 = h1
    h2 = h2
    r1 = r1
    r2 = r2
    Cores <- TwoCores
    CoreShare = 2
    MaxShareCore = 1
    Hosts = {h1}
    CoresOf <- AllCores
    Requests <- TwoRequests
    Removers = {}
    Asks <- FewAsks
    MaxInFlight = 2
    Overlapping = FALSE
    Faults = {}
    Crashable = {}
    MaxCrashes = 0
    AnyHost = AnyHost
    Nobody = Nobody
    NoBox = NoBox
INVARIANT CoresNotOvercommitted
