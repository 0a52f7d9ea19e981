SPECIFICATION DeviceSpec
CONSTANTS
    i1 = i1
    i2 = i2
    r1 = r1
    r2 = r2
    r3 = r3
    Sessions = {i1, i2, r1, r2, r3}
    Initiators = {i1, i2}
    Identity <- Identities
    Expected <- Expecting
    Anyone = Anyone
    Users = {u1, u2}
    Processes = {p1, p2}
    Passphrases = {"set", "dev"}
    Commands = {"setup", "mint", "balance", "transfer", "send", "receive", "save", "load"}
    Persistent = {TRUE, FALSE}
    MaxTransfers = 1
    MaxRuns = 3
    Faults = {"crash", "peer"}
    MaxChain = 3
    MaxPool = 2
    LenMod = 3
    Places <- Codes
    Devices = {1, 2, 3}
    Cheaters = {2}
    Coins <- FirstOwners
    MaxWitnesses = 3
    MaxCopies = 6
CHECK_DEADLOCK FALSE
SYMMETRY Symmetry
INVARIANTS
    
    TokenFromPeer
    SameTranscript
    
    
    ShownIsSaved
    
    
