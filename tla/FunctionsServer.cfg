CONSTANTS
    a = a
    b = b
    r1 = r1
    r2 = r2
    None = None
    Workspaces = {a, b}
    Requests = {r1, r2}
    Scenarios <- AllScenarios
    MaxWorkers = 2
    MaxCalls = 1
    Ttl = 2
    ClientTimeout = 1
    UdfTimeout = 1
    MaxFaults = 1
    MayStop = TRUE
SPECIFICATION FairSpec
INVARIANTS NoStrayWorkers NoLostWork EvictsOnlyAbandoned
CHECK_DEADLOCK FALSE
PROPERTIES Heals
