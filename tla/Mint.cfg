SPECIFICATION MintSpec
CONSTANTS
    P = 5
    Ids = {1, 2, 3}
    Faulty = {3}
    threshold = 2
    Scalars = {1, 3}
    Early = FALSE
    g = g
    h = h
    k = k
    l = l
    Guests <- Machines
    LineOf <- Lines
    Firmwares <- Levels
    Verifiers <- Checkers
    Sessions = {1, 2}
    MaxMade = 2
CHECK_DEADLOCK FALSE
INVARIANTS
    AnyThresholdHasKey
    SignatureVerifies
    HonestNotBlamed
    AcceptedMeetsPolicy
    AcceptedIsFresh
PROPERTIES
    KeyIsKept
