SPECIFICATION FairSpec
CONSTANTS
    i1 = i1
    i2 = i2
    Ids = {i1, i2}
    MaxDirects = 0
    MaxPauses = 0
    MaxFaults = 1
    Cancels = TRUE
    HostFailures = {"submit", "recover", "unwind"}
INVARIANTS ResultIsOwn
PROPERTIES InputsSettle
CHECK_DEADLOCK FALSE
