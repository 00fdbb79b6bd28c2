SPECIFICATION FairSpec
CONSTANTS
    DirNames = {"a", "b", "c"}
    LinkNames = {"l"}
    Tree <- MCTree
    Targets <- MCTargets
    Environments <- MCEnvironments
    MaxUser = 3
INVARIANTS
    DeletesOnlyChosen
    NothingMissed
    ReplyIsForHead
PROPERTIES
    EverythingEnds
CHECK_DEADLOCK FALSE
