SPECIFICATION Spec
CONSTANTS
    Nullifiers = {n1, n2}
    Procs = {p1}
    Threads = {t1, t2}
    MaxFileLen = 8
    MaxWritten = 6
    Env = {"short", "operator"}
INVARIANTS
    SpentOnce
