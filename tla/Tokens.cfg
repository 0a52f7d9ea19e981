SPECIFICATION TokensSpec
CONSTANTS
    Bound = 2
    MaxValue = 2
    MaxFresh = 5
    Env = {"signers", "io", "expire", "careless", "backup"}
    Issuers = {1, 2}
    Profiles <- People
    Requests <- Asked
    MaxGranted = 2
    MaxShown = 2
    P = 7
    Trustees = {1, 2, 3, 4}
    Rogue = {4}
    SbtThreshold = 2
    Coefficients = {3}
    Openings = {1, 2}
    Alphas = {1, 3}
    Nonces = {1}
    Mints = {m1, m2}
CHECK_DEADLOCK FALSE
SYMMETRY Symmetry
INVARIANTS
    NoInflation
    OneOwner
    ProducedVerifies
    
    DisclosedIsIssued
    PresentationVerifies
    
    
    
PROPERTIES
    ValueCarriedOver
