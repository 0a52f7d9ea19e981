SPECIFICATION Spec
CONSTANTS
    N = 4
    Faulty = {}
    Nullifiers = {}
    MaxPending = 0
    MaxHeight = 1
    MaxView = 1
CHECK_DEADLOCK FALSE
INVARIANTS
    Agreement
CONSTRAINT SlowFirst
