SPECIFICATION Spec
CONSTANTS
    Sockets <- MCSockets
    Servers <- MCServers
    ServerOf <- MCServerOf
    Reasons <- MCReasons
    Paths <- MCPaths
    Parent <- MCParent
    Inclusive = {TRUE, FALSE}
    NoSocket = NoSocket
    MaxCalls = 4
INVARIANTS
    MutualExclusion
    NoOrphanLock
    NoLostWakeup
PROPERTY
    ImplementsLocks
CHECK_DEADLOCK FALSE
