SPECIFICATION Spec
CONSTANTS
    N = 5
    Faulty = {1}
    Nullifiers = {x}
    MaxPending = 0
    MaxHeight = 1
    MaxView = 0
CHECK_DEADLOCK FALSE
INVARIANTS
    Agreement
CONSTRAINT Observers
