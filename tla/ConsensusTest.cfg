SPECIFICATION FairSpec
CONSTANTS
    N = 2
    Faulty = {}
    Nullifiers = {x, y}
    MaxPending = 1
    MaxHeight = 2
    MaxView = 1
CHECK_DEADLOCK FALSE
INVARIANTS
    ChainLinked
PROPERTIES
    Progress
