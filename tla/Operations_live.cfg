\* Standalone servers with timely heartbeats, restarted after crashes.
CONSTANTS
    Ids = {i1}
    Keys = {k1}
    Inputs = {x1}
    Resources = {r1}
    Hosts = {h1, h2}
    Standalone = {h1, h2}
    Callers = {h1}
    NoId = NoId
    TTL = 2
    Skew = 0
    MaxRevision = 3
    MaxClaims = 5
    MaxFaults = 2
    Resubmits = FALSE
    StoreFaults = FALSE
    Timely = TRUE
SPECIFICATION FairSpec
INVARIANT SingleExecutor
PROPERTIES
    EveryOperationFinishes
    ShutdownCompletes
