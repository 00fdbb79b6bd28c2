SPECIFICATION Spec
CONSTANTS
    Sites = {"s", "t"}
    Items = {"a", "b", "d"}
    SiteOf <- MCSiteOf
    Kind <- MCKind
    Limit <- MCLimit
    MaxTransfers = 2
    MaxDownloads = 1
    MaxUploads = 0
    Retries = 1
    Loaded <- FewLoaded
    TabSites = {"s", "none"}
    Environments <- WithdrawOnly
    MaxEvents = 3
INVARIANT
    NeverBusy
CHECK_DEADLOCK FALSE
