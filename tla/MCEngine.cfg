SPECIFICATION FairSpec
CONSTANTS
    ReconnectCount = 2
    Environments <- MCEnvironments
    MaxCommands = 3
    MaxCancels = 1
    MaxRequests = 2
INVARIANTS
    OneReplyEach
    NeverStuck
    RetriesAreOrderly
    RunsOnceAndEnds
PROPERTIES
    ReplyReachesAsker
    EveryCommandEnds
CHECK_DEADLOCK FALSE
