SPECIFICATION FairSpec
CONSTANTS
    h1 = h1
    h2 = h2
    r1 = r1
    r2 = r2
    Cores <- TwoCores
    CoreShare = 2
    MaxShareCore = 1
    Hosts = {h1, h2}
    CoresOf <- UnequalHosts
    Requests <- OneRequest
    Removers = {r1}
    Asks <- WholeCoreAsks
    MaxInFlight = 1
    Overlapping = FALSE
    Faults <- CleanableFaults
    Crashable <- AllTasks
    MaxCrashes = 1
    AnyHost = AnyHost
    Nobody = Nobody
    NoBox = NoBox
INVARIANT StoresAgree
INVARIANT TypeOK
INVARIANT PlannedInFull
PROPERTY RequestsAnswered
PROPERTY TasksEnd
PROPERTY KeepsCoreBook
