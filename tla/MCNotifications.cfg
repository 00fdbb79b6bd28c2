SPECIFICATION ListFairSpec
CONSTANTS
    MaxMessages = 4
    MaxChanges = 2
INVARIANTS
    NoNotificationLost
    DetailedLogsShown
    LogsInOrder
PROPERTY
    EverythingArrives
CHECK_DEADLOCK FALSE
