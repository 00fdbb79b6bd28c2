SPECIFICATION FairSpec
CONSTANTS
    MaxBytes = 5
    MaxTransfers = 3
INVARIANTS
    NoByteLost
PROPERTY
    DisplayCatchesUp
