SPECIFICATION FairSpec
CONSTANTS
    d1 = d1
    d2 = d2
    d3 = d3
    p1 = p1
    p2 = p2
    r1 = r1
    r2 = r2
    Unmounted = Unmounted
    h1 = h1
    h2 = h2
    k1 = k1
    Ids = {d1, d2}
    Revisions = {r1, r2}
    Hosts = {h1, h2}
    Servers = {}
    Slots = {k1}
    LeaseTime = 2
    Timeout = 1
    Poll = 1
    MaxRetryDelay = 1
    MaxAttempts = 2
    Timely = TRUE
    StoreFaults = TRUE
    Crashes = TRUE
    MaxSequence = 2
    MaxLeases = 5
    MaxFaults = 1
    PartitionOf <- MCPartitionOf
    RevisionOf <- MCRevisionOf
INVARIANTS SerialPartition
PROPERTIES NoLeaseAbandoned EverySettles DrainReturns
CHECK_DEADLOCK FALSE
