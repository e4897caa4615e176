SPECIFICATION LiveSpec
CONSTANTS
    Hosts = {h1, h2}
    LeaseTicks = 1
    MaxTurns = 2
    Timely = FALSE
    Drains = TRUE
    Closes = TRUE
    UnwindFaults = TRUE
    Cancels = {}
    Rollbacks = FALSE
    MaxExecutions = 1
    MaxEntries = 20
    MaxClaims = 4
    MaxFaults = 2
PROPERTIES PromptsSettle
CHECK_DEADLOCK FALSE
