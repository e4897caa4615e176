SPECIFICATION Spec
CONSTANTS
    d1 = d1
    d2 = d2
    p1 = p1
    r1 = r1
    Unmounted = Unmounted
    h1 = h1
    k1 = k1
    s1 = s1
    Ids = {d1, d2}
    Revisions = {r1}
    Runtimes = {h1}
    PluginServers = {s1}
    Slots = {k1}
    LeaseTime = 1
    Timeout = 0
    Poll = 1
    MaxRetryDelay = 1
    MaxAttempts = 2
    Timely = TRUE
    StoreFaults = FALSE
    Crashes = TRUE
    MaxSequence = 2
    MaxLeases = 2
    MaxFaults = 1
    PartitionOf <- MCPartitionOf
    RevisionOf <- MCRevisionOf
SYMMETRY Symmetry
INVARIANTS NothingLost EndToEndOrder
CHECK_DEADLOCK FALSE
