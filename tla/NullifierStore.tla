--------------------------- MODULE NullifierStore ---------------------------
(***************************************************************************)
(* The file-backed nullifier set of specter-core/src/nullifier.rs, shared  *)
(* by the threads of a process through ConcurrentNullifierSet and by the   *)
(* processes of a machine through the file and its companion lock file.    *)
(*                                                                         *)
(* A 32-byte entry of the file is two pieces, <<n, 1>> and <<n, 2>>: a     *)
(* file may hold a part of an entry, and an entry read at the wrong offset *)
(* is not the entry that was written.  The operating system keeps a        *)
(* written piece in memory until it is synced; a power loss may cut the    *)
(* file anywhere behind its synced prefix.                                 *)
(***************************************************************************)
EXTENDS Integers, Sequences, FiniteSets

CONSTANTS
    Nullifiers,   \* the nullifiers that are spent
    Procs,        \* processes that open the file
    Threads,      \* threads of each process that share the set
    MaxFileLen,   \* MAX_NULLIFIER_FILE_SIZE, in pieces
    MaxWritten,   \* bound: no call of insert once the file is this long
    Env           \* what the environment does: "io" errors, "short" writes
                  \* (that fail after a part of the entry), the "kill" of a
                  \* process, "power" loss, an "operator" (see below)

ASSUME StoreAssumption ==
    /\ MaxFileLen \in Nat
    /\ MaxWritten \in Nat
    /\ Env \subseteq {"io", "short", "kill", "power", "operator"}

VARIABLES
    file,         \* content of the file, a sequence of pieces
    synced,       \* length of its prefix that survives a power loss
    locked,       \* whether the .lock file exists
    handle,       \* handle[p]: "closed", "opening" (lock taken) or "open"
    nullifiers,   \* nullifiers[p]: the in-memory HashSet
    mutex,        \* mutex[p]: the threads that hold the Mutex of p
    pc,           \* pc[<<p, t>>]: where thread t is in insert
    arg,          \* arg[<<p, t>>]: the nullifier it inserts
    accepted      \* history: how many inserts of n returned true

vars == <<file, synced, locked, handle, nullifiers, mutex, pc, arg,
          accepted>>

Workers == Procs \X Threads

\* The two pieces of an entry.
Entry(n) == << <<n, 1>>, <<n, 2>> >>

\* The entries that the 32-byte chunks of the first len pieces of f decode to.
EntriesUpTo(f, len) ==
    {n \in Nullifiers : \E k \in 1..(len \div 2) :
        f[2 * k - 1] = <<n, 1>> /\ f[2 * k] = <<n, 2>>}

Init ==
    /\ file = <<>> /\ synced = 0
    /\ locked = FALSE
    /\ handle = [p \in Procs |-> "closed"]
    /\ nullifiers = [p \in Procs |-> {}]
    /\ mutex = [p \in Procs |-> {}]
    /\ pc = [w \in Workers |-> "idle"]
    /\ arg \in [Workers -> Nullifiers]
    /\ accepted = [n \in Nullifiers |-> 0]

-----------------------------------------------------------------------------
(* NullifierSet::with_file and Drop *)

\* Mutant: the lock file is opened, not created exclusively.
TakeLockFileShared(p) ==
    /\ handle[p] = "closed"
    /\ locked' = TRUE
    /\ handle' = [handle EXCEPT ![p] = "opening"]
    /\ UNCHANGED <<file, synced, nullifiers, mutex, pc, arg, accepted>>

\* create_new of the lock file; if it exists, with_file returns WouldBlock.
TakeLockFile(p) ==
    /\ handle[p] = "closed"
    /\ ~locked
    /\ locked' = TRUE
    /\ handle' = [handle EXCEPT ![p] = "opening"]
    /\ UNCHANGED <<file, synced, nullifiers, mutex, pc, arg, accepted>>

\* The file has an acceptable size and its chunks become the set.
Load(p) ==
    /\ handle[p] = "opening"
    /\ Len(file) <= MaxFileLen
    /\ Len(file) % 2 = 0
    /\ handle' = [handle EXCEPT ![p] = "open"]
    /\ nullifiers' = [nullifiers EXCEPT ![p] = EntriesUpTo(file, Len(file))]
    /\ UNCHANGED <<file, synced, locked, mutex, pc, arg, accepted>>

\* The file is too large, its size is not a multiple of an entry, or it
\* cannot be opened or read.  The value that would remove the lock file when
\* dropped does not exist yet, so the lock file stays.
LoadFails(p) ==
    /\ handle[p] = "opening"
    /\ \/ Len(file) > MaxFileLen
       \/ Len(file) % 2 # 0
       \/ "io" \in Env
    /\ handle' = [handle EXCEPT ![p] = "closed"]
    /\ UNCHANGED <<file, synced, locked, nullifiers, mutex, pc, arg,
                   accepted>>

\* Drop: the last reference to the set goes away and the lock file with it.
Close(p) ==
    /\ handle[p] = "open"
    /\ \A t \in Threads : pc[<<p, t>>] = "idle"
    /\ handle' = [handle EXCEPT ![p] = "closed"]
    /\ nullifiers' = [nullifiers EXCEPT ![p] = {}]
    /\ locked' = FALSE
    /\ UNCHANGED <<file, synced, mutex, pc, arg, accepted>>

-----------------------------------------------------------------------------
(* insert *)

\* A thread calls insert(n) and waits for the Mutex.
Call(p, t, n) ==
    /\ handle[p] = "open"
    /\ pc[<<p, t>>] = "idle"
    /\ Len(file) < MaxWritten
    /\ pc' = [pc EXCEPT ![<<p, t>>] = "wait"]
    /\ arg' = [arg EXCEPT ![<<p, t>>] = n]
    /\ UNCHANGED <<file, synced, locked, handle, nullifiers, mutex,
                   accepted>>

\* Mutant: insert does not wait for the Mutex.
EnterUnlocked(p, t) ==
    /\ pc[<<p, t>>] = "wait"
    /\ arg[<<p, t>>] \notin nullifiers[p]
    /\ mutex' = [mutex EXCEPT ![p] = @ \cup {t}]
    /\ pc' = [pc EXCEPT ![<<p, t>>] = "write"]
    /\ UNCHANGED <<file, synced, locked, handle, nullifiers, arg,
                   accepted>>

\* Mutant: insert does not look the nullifier up.
EnterUnchecked(p, t) ==
    /\ pc[<<p, t>>] = "wait"
    /\ mutex[p] = {}
    /\ mutex' = [mutex EXCEPT ![p] = @ \cup {t}]
    /\ pc' = [pc EXCEPT ![<<p, t>>] = "write"]
    /\ UNCHANGED <<file, synced, locked, handle, nullifiers, arg,
                   accepted>>

\* The Mutex is locked (a poisoned one is recovered) and the membership test
\* lets the nullifier through.
Enter(p, t) ==
    /\ pc[<<p, t>>] = "wait"
    /\ mutex[p] = {}
    /\ arg[<<p, t>>] \notin nullifiers[p]
    /\ mutex' = [mutex EXCEPT ![p] = @ \cup {t}]
    /\ pc' = [pc EXCEPT ![<<p, t>>] = "write"]
    /\ UNCHANGED <<file, synced, locked, handle, nullifiers, arg,
                   accepted>>

\* The membership test finds the nullifier: insert returns false.
Known(p, t) ==
    /\ pc[<<p, t>>] = "wait"
    /\ mutex[p] = {}
    /\ arg[<<p, t>>] \in nullifiers[p]
    /\ pc' = [pc EXCEPT ![<<p, t>>] = "idle"]
    /\ UNCHANGED <<file, synced, locked, handle, nullifiers, mutex, arg,
                   accepted>>

\* Mutant: the write is not followed by sync_all.
WriteUnsynced(p, t) ==
    /\ pc[<<p, t>>] = "write"
    /\ file' = file \o Entry(arg[<<p, t>>])
    /\ pc' = [pc EXCEPT ![<<p, t>>] = "insert"]
    /\ UNCHANGED <<synced, locked, handle, nullifiers, mutex, arg,
                   accepted>>

\* write_all and flush succeed.
Write(p, t) ==
    /\ pc[<<p, t>>] = "write"
    /\ file' = file \o Entry(arg[<<p, t>>])
    /\ pc' = [pc EXCEPT ![<<p, t>>] = "sync"]
    /\ UNCHANGED <<synced, locked, handle, nullifiers, mutex, arg,
                   accepted>>

\* write_all fails (a full disk, an I/O error): nothing of the entry was
\* written or, where short writes happen, its first part.
WriteFails(p, t) ==
    /\ pc[<<p, t>>] = "write"
    /\ \/ /\ "io" \in Env
          /\ file' = file
       \/ /\ "short" \in Env
          /\ file' = Append(file, <<arg[<<p, t>>], 1>>)
    /\ pc' = [pc EXCEPT ![<<p, t>>] = "failed"]
    /\ UNCHANGED <<synced, locked, handle, nullifiers, mutex, arg,
                   accepted>>

\* sync_all succeeds: all that was written is durable.
Sync(p, t) ==
    /\ pc[<<p, t>>] = "sync"
    /\ synced' = Len(file)
    /\ pc' = [pc EXCEPT ![<<p, t>>] = "insert"]
    /\ UNCHANGED <<file, locked, handle, nullifiers, mutex, arg, accepted>>

\* sync_all fails: the entry is in the file, durable or not.
SyncFails(p, t) ==
    /\ pc[<<p, t>>] = "sync"
    /\ "io" \in Env
    /\ pc' = [pc EXCEPT ![<<p, t>>] = "failed"]
    /\ UNCHANGED <<file, synced, locked, handle, nullifiers, mutex, arg,
                   accepted>>

\* Mutant: the error path keeps the Mutex.
RefuseLocked(p, t) ==
    /\ pc[<<p, t>>] = "failed"
    /\ pc' = [pc EXCEPT ![<<p, t>>] = "idle"]
    /\ UNCHANGED <<file, synced, locked, handle, nullifiers, mutex, arg, accepted>>

\* The error is reported, insert returns false and the Mutex is released.
Refuse(p, t) ==
    /\ pc[<<p, t>>] = "failed"
    /\ mutex' = [mutex EXCEPT ![p] = @ \ {t}]
    /\ pc' = [pc EXCEPT ![<<p, t>>] = "idle"]
    /\ UNCHANGED <<file, synced, locked, handle, nullifiers, arg, accepted>>

\* The in-memory insert; insert returns true and the Mutex is released.
Accept(p, t) ==
    /\ pc[<<p, t>>] = "insert"
    /\ nullifiers' = [nullifiers EXCEPT ![p] = @ \cup {arg[<<p, t>>]}]
    /\ accepted' = [accepted EXCEPT ![arg[<<p, t>>]] = @ + 1]
    /\ mutex' = [mutex EXCEPT ![p] = @ \ {t}]
    /\ pc' = [pc EXCEPT ![<<p, t>>] = "idle"]
    /\ UNCHANGED <<file, synced, locked, handle, arg>>

-----------------------------------------------------------------------------
(* The environment *)

\* The end of the processes of S, without Drop.
Die(S) ==
    /\ handle' = [p \in Procs |-> IF p \in S THEN "closed" ELSE handle[p]]
    /\ nullifiers' = [p \in Procs |-> IF p \in S THEN {} ELSE nullifiers[p]]
    /\ mutex' = [p \in Procs |-> IF p \in S THEN {} ELSE mutex[p]]
    /\ pc' = [w \in Workers |-> IF w[1] \in S THEN "idle" ELSE pc[w]]
    /\ UNCHANGED <<arg, accepted>>

\* A process is killed; what it wrote stays in the file, and so does the lock
\* file.
Kill(p) ==
    /\ "kill" \in Env
    /\ handle[p] # "closed"
    /\ Die({p})
    /\ UNCHANGED <<file, synced, locked>>

\* The machine stops: the file keeps its synced prefix and any part of what
\* was written behind it; the lock file was never synced and may be gone.
PowerLoss ==
    /\ "power" \in Env
    /\ \E p \in Procs : handle[p] # "closed"
    /\ Die(Procs)
    /\ locked' \in {locked, FALSE}
    /\ \E len \in synced..Len(file) :
        /\ file' = SubSeq(file, 1, len)
        /\ synced' = len

\* An operator who sees that no process runs deletes the lock file by hand.
RemoveLockFile ==
    /\ "operator" \in Env
    /\ locked
    /\ \A p \in Procs : handle[p] = "closed"
    /\ locked' = FALSE
    /\ UNCHANGED <<file, synced, handle, nullifiers, mutex, pc, arg,
                   accepted>>

Insert(p, t) ==
    \/ Enter(p, t) \/ Known(p, t)
    \/ Write(p, t) \/ WriteFails(p, t)
    \/ Sync(p, t) \/ SyncFails(p, t)
    \/ Refuse(p, t) \/ Accept(p, t)

Next ==
    \/ \E p \in Procs :
        \/ TakeLockFile(p) \/ Load(p) \/ LoadFails(p) \/ Close(p) \/ Kill(p)
        \/ \E t \in Threads :
            \/ \E n \in Nullifiers : Call(p, t, n)
            \/ Insert(p, t)
    \/ PowerLoss
    \/ RemoveLockFile

Spec == Init /\ [][Next]_vars

\* A running process schedules its threads and finishes opening the file, and
\* it keeps trying to open it.  Calls, failures and the operator are not fair.
Fairness ==
    \A p \in Procs :
        /\ WF_vars(TakeLockFile(p))
        /\ WF_vars(Load(p) \/ LoadFails(p))
        /\ \A t \in Threads : WF_vars(Insert(p, t))

FairSpec == Spec /\ Fairness

-----------------------------------------------------------------------------
(* Properties *)

\* Type correctness of the state.
TypeOK ==
    /\ file \in Seq(Nullifiers \X {1, 2})
    /\ synced \in 0..Len(file)
    /\ locked \in BOOLEAN
    /\ handle \in [Procs -> {"closed", "opening", "open"}]
    /\ nullifiers \in [Procs -> SUBSET Nullifiers]
    /\ mutex \in [Procs -> SUBSET Threads]
    /\ pc \in [Workers -> {"idle", "wait", "write", "sync", "insert", "failed"}]
    /\ arg \in [Workers -> Nullifiers]
    /\ accepted \in [Nullifiers -> Nat]

\* insert returns true at most once for a nullifier, over all threads and
\* processes and across crashes and restarts: the write-before-accept pattern
\* of NullifierSet::insert under the lock of ConcurrentNullifierSet::insert.
SpentOnce == \A n \in Nullifiers : accepted[n] <= 1

\* A spend that insert has accepted is in the part of the file that survives a
\* power loss, where the next with_file will read it back.
AcceptedIsDurable ==
    \A n \in Nullifiers : accepted[n] > 0 => n \in EntriesUpTo(file, synced)

\* The lock file keeps two processes from having the file open at once.
OneOpener ==
    \A p, q \in Procs :
        handle[p] # "closed" /\ handle[q] # "closed" => p = q

\* The abstract set: an insert that returns true wins.
Abstract == INSTANCE SpendOnce WITH wins <- accepted

\* Every step of the store is a step of SpendOnce or leaves it alone.
ImplementsSpendOnce == Abstract!Spec

\* An insert that holds the Mutex always gives it back: no error path of insert
\* leaves the other threads of the process waiting.
MutexReleased == \A p \in Procs : mutex[p] # {} ~> mutex[p] = {}
=============================================================================
