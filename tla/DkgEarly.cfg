SPECIFICATION DkgSpec
CONSTANTS
    P = 5
    Ids = {1, 2, 3}
    Faulty = {}
    threshold = 2
    Scalars = {1, 3}
    Early = TRUE
CHECK_DEADLOCK FALSE
INVARIANT
    FinalShareIsSum
