SPECIFICATION AllSpec
CONSTANTS
    a = a
    b = b
    c = c
    x = x
    y = y
    z = z
    Nodes = {a, b, c}
    Links <- Line
    Nobody = Nobody
    Nullifiers = {x, y, z}
    MaxOutbox = 1
    MaxKnown = 2
    Env = {"lose", "duplicate"}
    Submissions <- Spends
    Forgeries <- ForgedFirst
    Order <- Rotation
    Transfers <- Copies
    MaxPending = 1
    MaxTransfers = 2
INVARIANTS
    SignedAtOrigin
PROPERTIES
    Dissemination
    Quiescence
    
