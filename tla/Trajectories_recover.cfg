SPECIFICATION Spec
CONSTANTS
    Hosts = {h1, h2}
    LeaseTicks = 1
    MaxTurns = 2
    Timely = FALSE
    Drains = TRUE
    Closes = FALSE
    UnwindFaults = TRUE
    Cancels = {}
    Rollbacks = TRUE
    MaxExecutions = 2
    MaxEntries = 7
    MaxClaims = 3
    MaxFaults = 1
SYMMETRY HostSymmetry
INVARIANTS SettledOnce ActiveBranchOwned NoTurnRedone
PROPERTIES ConversationSpec NothingAfterSettled
CHECK_DEADLOCK FALSE
