\* One operation, two hosts with unreliable timing and clocks, and a server
\* that may restart with another resource revision.
CONSTANTS
    Ids = {i1}
    Keys = {k1}
    Inputs = {x1}
    Resources = {r1, r2}
    Hosts = {h1, h2}
    Standalone = {h2}
    Callers = {h1}
    NoId = NoId
    TTL = 2
    Skew = 1
    MaxRevision = 3
    MaxClaims = 2
    MaxFaults = 1
    Resubmits = TRUE
    StoreFaults = TRUE
    Timely = FALSE
SPECIFICATION Spec
INVARIANTS
    ResultFenced
    LeaseExclusive
    ObservationsProgress
    KeyIndexExact
    ExecutesOwnRevision
PROPERTIES RefinesLifecycle 
