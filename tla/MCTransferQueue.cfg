SPECIFICATION FairSpec
CONSTANTS
    Sites = {"s", "t"}
    Items = {"a", "b", "d", "e"}
    SiteOf <- MCSiteOf
    Kind <- MCKind
    Limit <- MCLimit
    MaxTransfers = 3
    MaxDownloads = 2
    MaxUploads = 0
    Retries = 1
    Loaded <- MCLoaded
    TabSites = {"s", "none"}
    Environments <- MCEnvironments
    MaxEvents = 2
INVARIANTS
    CountsMatch
    RightServer
    TransferredOnce
    ReplyIsDue
    LimitKept
PROPERTIES
    StopMissesOne
    ImmediateEnds
CHECK_DEADLOCK FALSE
