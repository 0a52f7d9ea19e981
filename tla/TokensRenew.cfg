SPECIFICATION Spec
CONSTANTS
    Bound = 1
    MaxValue = 1
    MaxFresh = 4
    Env = {"signers"}
CHECK_DEADLOCK FALSE
INVARIANTS
    NothingLost
