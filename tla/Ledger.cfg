SPECIFICATION LedgerSpec
CONSTANTS
    N = 4
    Faulty = {1}
    Nullifiers = {x}
    MaxPending = 0
    MaxHeight = 1
    MaxView = 0
    Owners = {o1, o2}
    BondIds = {1, 2, 3}
    None = None
    MaxU64 = 5
    LockPeriod = 1
    MaxTime = 3
CHECK_DEADLOCK FALSE
SYMMETRY Symmetry
INVARIANTS
    Agreement
    OneActiveBond
    FundsConserved
    CoverageIsReal
    WithdrawnSettled
