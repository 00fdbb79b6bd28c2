SPECIFICATION LoggerFairSpec
CONSTANTS
    Recorders = {r1, r2}
    MaxRecords = 7
INVARIANTS
    ActivityIsNoticed
PROPERTY
    LedsGoOut
CHECK_DEADLOCK FALSE
