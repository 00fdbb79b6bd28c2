SPECIFICATION Spec
CONSTANTS
    ReconnectCount = 2
    Environments <- IdleCloseOnly
    MaxCommands = 3
    MaxCancels = 0
    MaxRequests = 1
INVARIANT
    IdleEngineRunsNothing
CHECK_DEADLOCK FALSE
