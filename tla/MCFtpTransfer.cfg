SPECIFICATION Spec
CONSTANTS
    Modes = {TRUE, FALSE}
    Fallback = TRUE
    MaxOps = 3
    MaxKeepalives = 1
    MaxStray = 0
INVARIANTS
    RepliesMatch
    RightTypeAndOffset
    SuccessIsReal
CHECK_DEADLOCK FALSE
