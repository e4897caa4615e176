SPECIFICATION Spec
CONSTANTS
    Hosts = {h1, h2}
    LeaseTicks = 1
    MaxTurns = 1
    Timely = TRUE
    Drains = FALSE
    Closes = FALSE
    UnwindFaults = FALSE
    Cancels = {h1}
    Rollbacks = FALSE
    MaxExecutions = 2
    MaxEntries = 7
    MaxClaims = 2
    MaxFaults = 1
PROPERTIES ConversationSpec CancelSettles
CHECK_DEADLOCK FALSE
