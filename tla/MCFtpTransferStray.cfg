SPECIFICATION FairSpec
CONSTANTS
    Modes = {TRUE}
    Fallback = FALSE
    MaxOps = 2
    MaxKeepalives = 1
    MaxStray = 1
INVARIANTS
    RepliesAreCounted
PROPERTIES
    EndIsOfThisTransfer
    OperationsEnd
CHECK_DEADLOCK FALSE
