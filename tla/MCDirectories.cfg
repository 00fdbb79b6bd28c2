SPECIFICATION Spec
CONSTANTS
    DirNames = {"a", "b"}
    Limits <- MCLimits
    Engines = {1, 2}
    Nodes <- MCNodes
    InitialTrees <- MCInitialTrees
    Environments <- MCEnvironments
    MaxOps <- MCMaxOps
    NoPath = NoPath
    NoEngine = NoEngine
INVARIANTS
    CacheConsistent
    SureIsRight
    RefreshIsRecent
    CreationSucceeds
    NobodyStuck
CHECK_DEADLOCK FALSE
