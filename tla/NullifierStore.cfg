SPECIFICATION FairSpec
CONSTANTS
    Nullifiers = {n1, n2}
    Procs = {p1, p2}
    Threads = {t1, t2}
    MaxFileLen = 6
    MaxWritten = 6
    Env = {"io", "kill", "power", "operator"}
INVARIANTS
    SpentOnce
    AcceptedIsDurable
    OneOpener

    
    
