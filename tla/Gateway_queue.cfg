SPECIFICATION Spec
CONSTANTS
    i1 = i1
    i2 = i2
    Ids = {i1, i2}
    MaxDirects = 1
    MaxPauses = 1
    MaxFaults = 1
    Cancels = FALSE
    HostFailures = {"submit", "recover", "unwind"}
SYMMETRY IdSymmetry
INVARIANTS InputsInOrder SubmittedOnce PauseHolds
CHECK_DEADLOCK FALSE
