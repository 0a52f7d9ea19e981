---------------------------- MODULE SpendProofs -----------------------------
(***************************************************************************)
(* What keeps a token from being spent twice.  The file of nullifiers: for *)
(* every number of nullifiers, processes and threads, every size of the    *)
(* file and every sequence of I/O errors, kills and power losses.  The     *)
(* tokens that a quorum of trustees evaluates: for any number of trustees, *)
(* rogue ones included, any field of prime order and any number of tokens. *)
(*                                                                         *)
(* The second argument rests on the proofs that evaluations come with: the *)
(* challenge binds the trustee, the point and the session, so that what is *)
(* combined is made with the shares of the key.  ShamirProofs does the     *)
(* rest.                                                                   *)
(***************************************************************************)
EXTENDS NullifierStore, Sbt, ShamirProofs, TLAPS

\* Sequences: lengths, one element more, and two in a row.
LEMMA Lengths ==
    ASSUME NEW S, NEW s \in Seq(S) PROVE Len(s) \in Nat /\ DOMAIN s = 1..Len(s)
OBVIOUS

\* Append.
LEMMA Appending ==
    ASSUME NEW S, NEW s \in Seq(S), NEW e \in S
    PROVE  /\ Append(s, e) \in Seq(S) /\ Len(Append(s, e)) = Len(s) + 1
           /\ \A i \in 1..Len(s) : Append(s, e)[i] = s[i]
           /\ Append(s, e)[Len(s) + 1] = e
OBVIOUS

\* Concatenation.
LEMMA Joining ==
    ASSUME NEW S, NEW s \in Seq(S), NEW t \in Seq(S)
    PROVE  s \o t \in Seq(S) /\ Len(s \o t) = Len(s) + Len(t)
OBVIOUS

-----------------------------------------------------------------------------
(* Nullifiers *)

\* Where the lock file, the handles and the Mutexes stand.
LockInv ==
    /\ OneOpener
    /\ \A p \in Procs : handle[p] # "closed" => locked
    /\ \A p \in Procs, t \in Threads : pc[<<p, t>>] # "idle" => handle[p] = "open"
    /\ \A p \in Procs, t \in Threads :
        pc[<<p, t>>] \in {"write", "sync", "insert", "failed"} <=> t \in mutex[p]
    /\ \A p \in Procs : \A t, u \in mutex[p] : t = u

\* Where the file and the sets stand.
FileInv ==
    /\ \A p \in Procs : handle[p] = "open" => Len(file) % 2 = 0
    /\ \A p \in Procs, t \in Threads :
        pc[<<p, t>>] \in {"write", "sync", "insert"} => arg[<<p, t>>] \notin nullifiers[p]
    /\ \A p \in Procs, t \in Threads :
        pc[<<p, t>>] = "sync" => arg[<<p, t>>] \in EntriesUpTo(file, Len(file))
    /\ \A p \in Procs, t \in Threads :
        pc[<<p, t>>] = "insert" => arg[<<p, t>>] \in EntriesUpTo(file, synced)
    /\ \A p \in Procs, n \in Nullifiers :
        handle[p] = "open" /\ accepted[n] > 0 => n \in nullifiers[p]

IInv == TypeOK /\ LockInv /\ FileInv /\ AcceptedIsDurable /\ SpentOnce

-----------------------------------------------------------------------------
(* The entries of a file *)

\* Writing behind the first len pieces of a file does not change its entries
\* up to there: an append-only file keeps what was read from it.
LEMMA EntriesAppend ==
    ASSUME NEW f \in Seq(Nullifiers \X {1, 2}), NEW e \in Seq(Nullifiers \X {1, 2}),
           NEW len \in 0..Len(f)
    PROVE  EntriesUpTo(f \o e, len) = EntriesUpTo(f, len)
<1>1. \A i \in 1..len : (f \o e)[i] = f[i]
    OBVIOUS
<1>2. \A k \in 1..(len \div 2) : 2 * k - 1 \in 1..len /\ 2 * k \in 1..len
    OBVIOUS
<1> QED BY <1>1, <1>2, ZenonT(40) DEF EntriesUpTo

\* Cutting a file behind its first len pieces does not change them.
LEMMA EntriesCut ==
    ASSUME NEW f \in Seq(Nullifiers \X {1, 2}), NEW cut \in 0..Len(f),
           NEW len \in 0..cut
    PROVE  EntriesUpTo(SubSeq(f, 1, cut), len) = EntriesUpTo(f, len)
<1>1. \A i \in 1..len : SubSeq(f, 1, cut)[i] = f[i]
    OBVIOUS
<1>2. \A k \in 1..(len \div 2) : 2 * k - 1 \in 1..len /\ 2 * k \in 1..len
    OBVIOUS
<1> QED BY <1>1, <1>2, Zenon DEF EntriesUpTo

\* A longer prefix has more entries.
LEMMA EntriesMonotone ==
    ASSUME NEW f, NEW len \in Nat, NEW more \in Nat, len <= more
    PROVE  EntriesUpTo(f, len) \subseteq EntriesUpTo(f, more)
<1>1. \A k \in 1..(len \div 2) : k \in 1..(more \div 2)
    OBVIOUS
<1> QED BY <1>1 DEF EntriesUpTo

\* Where the elements of the second of two sequences end up.
LEMMA ConcatIndex ==
    ASSUME NEW S, NEW f \in Seq(S), NEW e \in Seq(S), NEW i \in 1..Len(e)
    PROVE  (f \o e)[Len(f) + i] = e[i]
OBVIOUS

\* The two pieces of an entry are pieces.
LEMMA EntryPieces ==
    ASSUME NEW n \in Nullifiers
    PROVE  /\ Entry(n) \in Seq(Nullifiers \X {1, 2})
           /\ Len(Entry(n)) = 2
           /\ Entry(n)[1] = <<n, 1>>
           /\ Entry(n)[2] = <<n, 2>>
<1>1. <<n, 1>> \in Nullifiers \X {1, 2} /\ <<n, 2>> \in Nullifiers \X {1, 2}
    OBVIOUS
<1>2. ASSUME NEW S, NEW a \in S, NEW b \in S
      PROVE  /\ <<a, b>> \in Seq(S) /\ Len(<<a, b>>) = 2
             /\ <<a, b>>[1] = a /\ <<a, b>>[2] = b
    OBVIOUS
<1> QED BY <1>1, <1>2 DEF Entry

\* Writing an entry makes the file two pieces longer.
LEMMA EntryAppended ==
    ASSUME NEW f \in Seq(Nullifiers \X {1, 2}), NEW n \in Nullifiers
    PROVE  /\ f \o Entry(n) \in Seq(Nullifiers \X {1, 2})
           /\ Len(f \o Entry(n)) = Len(f) + 2
<1> DEFINE S == Nullifiers \X {1, 2}
<1>1. Entry(n) \in Seq(S) /\ Len(Entry(n)) = 2
    BY EntryPieces
<1> HIDE DEF S
<1>2. f \o Entry(n) \in Seq(S) /\ Len(f \o Entry(n)) = Len(f) + Len(Entry(n))
    BY <1>1, Joining, ZenonT(40) DEF S
<1> QED BY <1>1, <1>2 DEF S

\* An entry written at the end of a file of whole entries is an entry of it.
LEMMA EntriesWritten ==
    ASSUME NEW f \in Seq(Nullifiers \X {1, 2}), NEW n \in Nullifiers,
           Len(f) % 2 = 0
    PROVE  n \in EntriesUpTo(f \o Entry(n), Len(f) + 2)
<1> DEFINE S == Nullifiers \X {1, 2}
<1>1. PICK k \in Nat : Len(f) = 2 * k
    BY Z3
<1>2. PICK e \in Seq(S) :
        e = Entry(n) /\ Len(e) = 2 /\ e[1] = <<n, 1>> /\ e[2] = <<n, 2>>
    BY EntryPieces
<1>3. 1 \in 1..Len(e) /\ 2 \in 1..Len(e)
    BY <1>2
<1>4. (f \o e)[Len(f) + 1] = e[1] /\ (f \o e)[Len(f) + 2] = e[2]
  <2> HIDE DEF S
  <2> QED BY <1>3, ConcatIndex
<1>5. k + 1 \in 1..((Len(f) + 2) \div 2) /\ 2 * (k + 1) - 1 = Len(f) + 1
        /\ 2 * (k + 1) = Len(f) + 2
    BY <1>1
<1> QED BY <1>2, <1>4, <1>5, ZenonT(40) DEF EntriesUpTo

\* A power loss leaves a file of the length it was cut to.
LEMMA CutLength ==
    ASSUME NEW S, NEW f \in Seq(S), NEW cut \in 0..Len(f)
    PROVE  SubSeq(f, 1, cut) \in Seq(S) /\ Len(SubSeq(f, 1, cut)) = cut
OBVIOUS

-----------------------------------------------------------------------------
(* Types *)

\* The initial state has the types.
LEMMA TypeInit == Init => TypeOK
<1> SUFFICES ASSUME Init PROVE TypeOK
    OBVIOUS
<1>1. file \in Seq(Nullifiers \X {1, 2}) /\ synced \in 0..Len(file)
    BY DEF Init
<1>2. pc \in [Workers -> {"idle", "wait", "write", "sync", "insert", "failed"}]
    BY DEF Init
<1>3. nullifiers \in [Procs -> SUBSET Nullifiers] /\ mutex \in [Procs -> SUBSET Threads]
    BY DEF Init
<1>4. accepted \in [Nullifiers -> Nat]
    BY DEF Init
<1> QED BY <1>1, <1>2, <1>3, <1>4, ZenonT(40) DEF Init, TypeOK

\* Every step keeps the types.
LEMMA TypeStep == TypeOK /\ [Next]_vars => TypeOK'
<1> SUFFICES ASSUME TypeOK, [Next]_vars PROVE TypeOK'
    OBVIOUS
<1> USE DEF TypeOK, Workers
<1>1. ASSUME NEW p \in Procs, TakeLockFile(p) PROVE TypeOK'
    BY <1>1 DEF TakeLockFile
<1>2. ASSUME NEW p \in Procs, Load(p) PROVE TypeOK'
    BY <1>2 DEF Load, EntriesUpTo
<1>3. ASSUME NEW p \in Procs, LoadFails(p) PROVE TypeOK'
    BY <1>3 DEF LoadFails
<1>4. ASSUME NEW p \in Procs, Close(p) PROVE TypeOK'
    BY <1>4, ZenonT(40) DEF Close
<1>5. ASSUME NEW p \in Procs, Kill(p) PROVE TypeOK'
    BY <1>5 DEF Kill, Die
<1>6. ASSUME NEW p \in Procs, NEW t \in Threads, NEW n \in Nullifiers, Call(p, t, n)
      PROVE  TypeOK'
    BY <1>6 DEF Call
<1>7. ASSUME NEW p \in Procs, NEW t \in Threads, Enter(p, t) PROVE TypeOK'
    BY <1>7 DEF Enter
<1>8. ASSUME NEW p \in Procs, NEW t \in Threads, Known(p, t) PROVE TypeOK'
    BY <1>8 DEF Known
<1>9. ASSUME NEW p \in Procs, NEW t \in Threads, Write(p, t) PROVE TypeOK'
  <2>1. arg[<<p, t>>] \in Nullifiers
      OBVIOUS
  <2>2. file' \in Seq(Nullifiers \X {1, 2}) /\ Len(file') = Len(file) + 2
      BY <1>9, <2>1, EntryAppended, ZenonT(40) DEF Write
  <2>3. synced' \in 0..Len(file')
      BY <1>9, <2>2, SMTT(30) DEF Write
  <2> QED BY <1>9, <2>2, <2>3, Zenon DEF Write
<1>10. ASSUME NEW p \in Procs, NEW t \in Threads, WriteFails(p, t) PROVE TypeOK'
  <2>1. <<arg[<<p, t>>], 1>> \in Nullifiers \X {1, 2}
      OBVIOUS
  <2>2. /\ file' \in Seq(Nullifiers \X {1, 2})
        /\ Len(file') \in {Len(file), Len(file) + 1}
    <3>1. file' = file \/ file' = Append(file, <<arg[<<p, t>>], 1>>)
        BY <1>10 DEF WriteFails
    <3> DEFINE S == Nullifiers \X {1, 2}
               x == <<arg[<<p, t>>], 1>>
    <3>2. file \in Seq(S) /\ x \in S
        BY <2>1
    <3> HIDE DEF S, x
    <3>3. Append(file, x) \in Seq(S) /\ Len(Append(file, x)) = Len(file) + 1
        BY <3>2, Appending
    <3> QED BY <3>1, <3>3, ZenonT(40) DEF S, x
  <2>3. synced' \in 0..Len(file')
      BY <1>10, <2>2 DEF WriteFails
  <2> QED BY <1>10, <2>2, <2>3, Zenon DEF WriteFails
<1>11. ASSUME NEW p \in Procs, NEW t \in Threads, Sync(p, t) PROVE TypeOK'
    BY <1>11 DEF Sync
<1>12. ASSUME NEW p \in Procs, NEW t \in Threads, SyncFails(p, t) PROVE TypeOK'
    BY <1>12 DEF SyncFails
<1>13. ASSUME NEW p \in Procs, NEW t \in Threads, Refuse(p, t) PROVE TypeOK'
    BY <1>13 DEF Refuse
<1>14. ASSUME NEW p \in Procs, NEW t \in Threads, Accept(p, t) PROVE TypeOK'
    BY <1>14 DEF Accept
<1>15. CASE PowerLoss
  <2>1. PICK len \in synced..Len(file) :
          file' = SubSeq(file, 1, len) /\ synced' = len
      BY <1>15 DEF PowerLoss
  <2>2. file' \in Seq(Nullifiers \X {1, 2}) /\ Len(file') = len
      BY <2>1, CutLength
  <2>3. synced' \in 0..Len(file')
      BY <2>1, <2>2
  <2>4. /\ handle' \in [Procs -> {"closed", "opening", "open"}]
        /\ nullifiers' \in [Procs -> SUBSET Nullifiers]
        /\ mutex' \in [Procs -> SUBSET Threads]
        /\ UNCHANGED <<arg, accepted>>
        /\ locked' \in BOOLEAN
      BY <1>15, ZenonT(40) DEF PowerLoss, Die
  <2>5. pc' \in [Workers -> {"idle", "wait", "write", "sync", "insert", "failed"}]
      BY <1>15 DEF PowerLoss, Die
  <2> QED BY <2>2, <2>3, <2>4, <2>5, SMTT(30)
<1>16. CASE RemoveLockFile
    BY <1>16, ZenonT(40) DEF RemoveLockFile
<1>17. CASE UNCHANGED vars
    BY <1>17 DEF vars
<1> HIDE DEF TypeOK, Workers
<1> QED
    BY SMTT(30), <1>1, <1>2, <1>3, <1>4, <1>5, <1>6, <1>7, <1>8, <1>9, <1>10, <1>11,
       <1>12, <1>13, <1>14, <1>15, <1>16, <1>17 DEF Next, Insert

\* The variables always have their types.
THEOREM TypeCorrect == Spec => []TypeOK
BY TypeInit, TypeStep, PTL DEF Spec

-----------------------------------------------------------------------------
(* The lock file and the Mutexes *)

\* Nothing is open or locked at first.
LEMMA LockInit == Init => LockInv
BY DEF Init, LockInv, OneOpener, Workers

\* Every step keeps the locks in order.
LEMMA LockStep == TypeOK /\ LockInv /\ [Next]_vars => LockInv'
<1> SUFFICES ASSUME TypeOK, LockInv, [Next]_vars PROVE LockInv'
    OBVIOUS
<1> USE DEF TypeOK, Workers, LockInv, OneOpener
<1>1. ASSUME NEW p \in Procs, TakeLockFile(p) PROVE LockInv'
    BY <1>1 DEF TakeLockFile
<1>2. ASSUME NEW p \in Procs, Load(p) PROVE LockInv'
    BY <1>2 DEF Load
<1>3. ASSUME NEW p \in Procs, LoadFails(p) PROVE LockInv'
    BY <1>3 DEF LoadFails
<1>4. ASSUME NEW p \in Procs, Close(p) PROVE LockInv'
    BY <1>4 DEF Close
<1>5. ASSUME NEW p \in Procs, Kill(p) PROVE LockInv'
    BY <1>5 DEF Kill, Die
<1>6. ASSUME NEW p \in Procs, NEW t \in Threads, NEW n \in Nullifiers, Call(p, t, n)
      PROVE  LockInv'
  <2>1. /\ pc' = [pc EXCEPT ![<<p, t>>] = "wait"]
        /\ pc[<<p, t>>] = "idle" /\ handle[p] = "open"
        /\ UNCHANGED <<handle, mutex, locked>>
      BY <1>6 DEF Call
  <2>2. pc[<<p, t>>] \notin {"write", "sync", "insert", "failed"}
      BY <2>1
  <2>3. ASSUME NEW q \in Procs, NEW u \in Threads
        PROVE  IF q = p /\ u = t THEN pc'[<<q, u>>] = "wait"
                                ELSE pc'[<<q, u>>] = pc[<<q, u>>]
    <3>1. <<q, u>> \in DOMAIN pc /\ <<p, t>> \in DOMAIN pc
        OBVIOUS
    <3>2. <<q, u>> = <<p, t>> <=> q = p /\ u = t
        OBVIOUS
    <3> HIDE DEF TypeOK, LockInv
    <3> QED BY <2>1, <3>1, <3>2
  <2>4. t \notin mutex[p]
      BY <2>2
  <2> QED BY <2>1, <2>3, <2>4
<1>7. ASSUME NEW p \in Procs, NEW t \in Threads, Enter(p, t) PROVE LockInv'
    BY <1>7 DEF Enter
<1>8. ASSUME NEW p \in Procs, NEW t \in Threads, Known(p, t) PROVE LockInv'
    BY <1>8 DEF Known
<1>9. ASSUME NEW p \in Procs, NEW t \in Threads, Write(p, t) PROVE LockInv'
    BY <1>9 DEF Write
<1>10. ASSUME NEW p \in Procs, NEW t \in Threads, WriteFails(p, t) PROVE LockInv'
    BY <1>10 DEF WriteFails
<1>11. ASSUME NEW p \in Procs, NEW t \in Threads, Sync(p, t) PROVE LockInv'
    BY <1>11 DEF Sync
<1>12. ASSUME NEW p \in Procs, NEW t \in Threads, SyncFails(p, t) PROVE LockInv'
    BY <1>12 DEF SyncFails
<1>13. ASSUME NEW p \in Procs, NEW t \in Threads, Refuse(p, t) PROVE LockInv'
    BY <1>13 DEF Refuse
<1>14. ASSUME NEW p \in Procs, NEW t \in Threads, Accept(p, t) PROVE LockInv'
    BY <1>14, SMTT(30) DEF Accept
<1>15. CASE PowerLoss
    BY <1>15 DEF PowerLoss, Die
<1>16. CASE RemoveLockFile
    BY <1>16 DEF RemoveLockFile
<1>17. CASE UNCHANGED vars
    BY <1>17 DEF vars
<1> HIDE DEF TypeOK, Workers, LockInv, OneOpener
<1> QED
    BY SMTT(30), <1>1, <1>2, <1>3, <1>4, <1>5, <1>6, <1>7, <1>8, <1>9, <1>10, <1>11,
       <1>12, <1>13, <1>14, <1>15, <1>16, <1>17 DEF Next, Insert

\* The lock file works: two processes never have the file open at once,
\* whatever fails and whoever is killed.
THEOREM OneOpenerHolds == Spec => []OneOpener
<1>1. LockInv => OneOpener
    BY DEF LockInv
<1> QED BY <1>1, TypeInit, TypeStep, LockInit, LockStep, PTL DEF Spec

-----------------------------------------------------------------------------
(* The file and the sets *)

\* Of all threads of all processes, one at most is between the membership test
\* and the return of insert.
LEMMA AloneInside ==
    ASSUME TypeOK, LockInv,
           NEW p \in Procs, NEW t \in Threads, NEW q \in Procs, NEW u \in Threads,
           pc[<<p, t>>] \in {"write", "sync", "insert", "failed"},
           pc[<<q, u>>] \in {"write", "sync", "insert", "failed"}
    PROVE  p = q /\ t = u
<1>1. handle[p] = "open" /\ handle[q] = "open"
    BY DEF LockInv
<1>2. t \in mutex[p] /\ u \in mutex[q]
    BY DEF LockInv
<1>3. p = q
    BY <1>1 DEF LockInv, OneOpener
<1> QED BY <1>2, <1>3 DEF LockInv

\* At first nothing has been written or accepted.
LEMMA FileInit == Init => FileInv /\ AcceptedIsDurable /\ SpentOnce
BY SMTT(30) DEF Init, FileInv, AcceptedIsDurable, SpentOnce, Workers

\* Where writes fail before they begin, every step keeps the file and the sets
\* in order.
LEMMA FileStep ==
    ASSUME "short" \notin Env, IInv, [Next]_vars
    PROVE  FileInv' /\ AcceptedIsDurable' /\ SpentOnce'
<1> DEFINE Goal == FileInv' /\ AcceptedIsDurable' /\ SpentOnce'
<1> USE DEF IInv
<1>a. TypeOK' /\ LockInv'
    BY TypeStep, LockStep
<1>b. /\ EntriesUpTo(file, synced) \subseteq EntriesUpTo(file, Len(file))
      /\ Len(file) \in Nat /\ synced \in Nat
    BY EntriesMonotone, SMTT(30) DEF TypeOK
<1> USE DEF TypeOK, Workers, FileInv, AcceptedIsDurable, SpentOnce
<1>1. ASSUME NEW p \in Procs, TakeLockFile(p) PROVE Goal
    BY <1>1, Zenon DEF TakeLockFile
<1>2. ASSUME NEW p \in Procs, Load(p) PROVE Goal
  <2>1. \A t \in Threads : pc[<<p, t>>] = "idle"
      BY <1>2, Zenon DEF Load, LockInv
  <2> QED BY <1>2, <1>b, <2>1, ZenonT(40) DEF Load
<1>3. ASSUME NEW p \in Procs, LoadFails(p) PROVE Goal
    BY <1>3, Zenon DEF LoadFails
<1>4. ASSUME NEW p \in Procs, Close(p) PROVE Goal
    BY <1>4, SMTT(30) DEF Close
<1>5. ASSUME NEW p \in Procs, Kill(p) PROVE Goal
    BY <1>5, ZenonT(40) DEF Kill, Die
<1>6. ASSUME NEW p \in Procs, NEW t \in Threads, NEW n \in Nullifiers, Call(p, t, n)
      PROVE  Goal
    BY <1>6, ZenonT(40) DEF Call
<1>7. ASSUME NEW p \in Procs, NEW t \in Threads, Enter(p, t) PROVE Goal
    BY <1>7, ZenonT(40) DEF Enter
<1>8. ASSUME NEW p \in Procs, NEW t \in Threads, Known(p, t) PROVE Goal
    BY <1>8, ZenonT(40) DEF Known
<1>9. ASSUME NEW p \in Procs, NEW t \in Threads, Write(p, t) PROVE Goal
  <2>1. arg[<<p, t>>] \in Nullifiers /\ handle[p] = "open"
      BY <1>9 DEF Write, LockInv
  <2>2. Len(file) % 2 = 0
      BY <2>1
  <2>3. Len(file') = Len(file) + 2
      BY <1>9, <2>1, EntryAppended, ZenonT(40) DEF Write
  <2>4. arg[<<p, t>>] \in EntriesUpTo(file', Len(file'))
      BY <1>9, <2>1, <2>2, <2>3, EntriesWritten, ZenonT(40) DEF Write
  <2>5. EntriesUpTo(file', synced) = EntriesUpTo(file, synced)
    <3>1. Entry(arg[<<p, t>>]) \in Seq(Nullifiers \X {1, 2})
        BY <2>1, EntryPieces, Zenon
    <3>2. synced \in 0..Len(file) /\ file \in Seq(Nullifiers \X {1, 2})
        OBVIOUS
    <3>3. file' = file \o Entry(arg[<<p, t>>])
        BY <1>9 DEF Write
    <3> HIDE DEF IInv, TypeOK, FileInv, AcceptedIsDurable
    <3> QED BY <3>1, <3>2, <3>3, EntriesAppend, ZenonT(40)
  <2>6. Len(file') % 2 = 0
      BY <1>b, <2>2, <2>3
  <2>7. ASSUME NEW q \in Procs, NEW u \in Threads, pc[<<q, u>>] = "sync"
        PROVE  FALSE
      BY <1>9, <2>7, AloneInside, ZenonT(40) DEF Write
  <2> QED BY <1>9, <2>4, <2>5, <2>6, <2>7, ZenonT(40) DEF Write
<1>10. ASSUME NEW p \in Procs, NEW t \in Threads, WriteFails(p, t) PROVE Goal
    BY <1>10, ZenonT(40) DEF WriteFails
<1>11. ASSUME NEW p \in Procs, NEW t \in Threads, Sync(p, t) PROVE Goal
  <2>1. ASSUME NEW q \in Procs, NEW u \in Threads, pc[<<q, u>>] = "insert"
        PROVE  FALSE
      BY <1>11, <2>1, AloneInside, ZenonT(40) DEF Sync
  <2> QED BY <1>11, <1>b, <2>1, ZenonT(40) DEF Sync
<1>12. ASSUME NEW p \in Procs, NEW t \in Threads, SyncFails(p, t) PROVE Goal
    BY <1>12, ZenonT(40) DEF SyncFails
<1>13. ASSUME NEW p \in Procs, NEW t \in Threads, Refuse(p, t) PROVE Goal
    BY <1>13, ZenonT(40) DEF Refuse
<1>14. ASSUME NEW p \in Procs, NEW t \in Threads, Accept(p, t) PROVE Goal
  <2> DEFINE n == arg[<<p, t>>]
  <2>1. n \in Nullifiers /\ handle[p] = "open" /\ n \in EntriesUpTo(file, synced)
      BY <1>14, SMTT(30) DEF Accept, LockInv
  <2>2. accepted[n] = 0
      BY <1>14, <2>1, SMTT(30) DEF Accept
  <2>3. \A m \in Nullifiers : accepted'[m] = IF m = n THEN 1 ELSE accepted[m]
      BY <1>14, <2>1, <2>2, SMTT(30) DEF Accept
  <2>4. ASSUME NEW q \in Procs, NEW u \in Threads, pc'[<<q, u>>] \in {"write", "sync", "insert"}
        PROVE  pc[<<q, u>>] \in {"write", "sync", "insert"} /\ q # p
      BY <1>14, <2>4, AloneInside, SMTT(30) DEF Accept
  <2>5. \A q \in Procs : handle[q] = "open" => q = p
      BY <2>1, ZenonT(40) DEF LockInv, OneOpener
  <2>6. FileInv'
    <3>1. ASSUME NEW q \in Procs, NEW u \in Threads,
                 pc'[<<q, u>>] \in {"write", "sync", "insert"}
          PROVE  FALSE
      <4>1. pc[<<q, u>>] # "idle" /\ q # p
          BY <2>4, <3>1, Zenon
      <4>2. handle[q] = "open"
          BY <4>1, Zenon DEF LockInv
      <4> QED BY <2>5, <4>1, <4>2, Zenon
    <3>2. \A q \in Procs, m \in Nullifiers :
            handle'[q] = "open" /\ accepted'[m] > 0 => m \in nullifiers'[q]
        BY <1>14, <2>1, <2>3, <2>5, SMTT(30) DEF Accept
    <3>3. \A q \in Procs : handle'[q] = "open" => Len(file') % 2 = 0
        BY <1>14, Zenon DEF Accept
    <3> QED BY <3>1, <3>2, <3>3, Zenon
  <2>7. UNCHANGED <<file, synced>>
      BY <1>14, Zenon DEF Accept
  <2>8. AcceptedIsDurable' /\ SpentOnce'
    <3>1. \A m \in Nullifiers : accepted[m] <= 1
        BY DEF SpentOnce
    <3>2. \A m \in Nullifiers : accepted[m] > 0 => m \in EntriesUpTo(file, synced)
        BY DEF AcceptedIsDurable
    <3> HIDE DEF n, IInv, TypeOK, FileInv
    <3>3. SpentOnce'
        BY <2>3, <3>1, SMTT(30)
    <3>4. AcceptedIsDurable'
        BY <2>1, <2>3, <2>7, <3>2, SMTT(30)
    <3> QED BY <3>3, <3>4, SMTT(30)
  <2> QED BY <2>6, <2>8, Zenon
<1>15. CASE PowerLoss
  <2>1. PICK len \in synced..Len(file) :
          file' = SubSeq(file, 1, len) /\ synced' = len
      BY <1>15, Zenon DEF PowerLoss
  <2>2. EntriesUpTo(file', synced') = EntriesUpTo(file, len)
    <3>1. len \in 0..Len(file) /\ len \in 0..len /\ file \in Seq(Nullifiers \X {1, 2})
        BY <1>b, SMTT(30)
    <3> HIDE DEF IInv, TypeOK, FileInv, AcceptedIsDurable
    <3> QED BY <2>1, <3>1, EntriesCut, SMTT(30)
  <2>3. EntriesUpTo(file, synced) \subseteq EntriesUpTo(file, len)
      BY <1>b, <2>1, EntriesMonotone, SMTT(30)
  <2> QED BY <1>15, <2>2, <2>3, ZenonT(40) DEF PowerLoss, Die
<1>16. CASE RemoveLockFile
    BY <1>16, Zenon DEF RemoveLockFile
<1>17. CASE UNCHANGED vars
    BY <1>17, Zenon DEF vars
<1> HIDE DEF TypeOK, Workers, FileInv, AcceptedIsDurable, SpentOnce
<1> QED
    BY Zenon, <1>1, <1>2, <1>3, <1>4, <1>5, <1>6, <1>7, <1>8, <1>9, <1>10, <1>11,
       <1>12, <1>13, <1>14, <1>15, <1>16, <1>17 DEF Next, Insert

-----------------------------------------------------------------------------
(* What the store promises *)

\* IInv is inductive where writes fail before they begin.
LEMMA Inductive ==
    ASSUME "short" \notin Env
    PROVE  (Init => IInv) /\ (IInv /\ [Next]_vars => IInv')
<1>1. Init => IInv
    BY TypeInit, LockInit, FileInit, SMTT(30) DEF IInv
<1>2. IInv /\ [Next]_vars => IInv'
    BY TypeStep, LockStep, FileStep, SMTT(30) DEF IInv
<1> QED BY <1>1, <1>2

\* No nullifier is accepted twice by insert, over all the threads and processes
\* that share the file, whatever I/O errors, kills and power losses happen, as
\* long as a write that fails has written nothing.
THEOREM SpentOnceHolds ==
    ASSUME "short" \notin Env
    PROVE  Spec => []SpentOnce
<1>1. IInv => SpentOnce
    BY SMTT(30) DEF IInv
<1> QED BY <1>1, Inductive, PTL DEF Spec

\* Under the same assumption, what insert has accepted is read back by the next
\* with_file, even after a power loss.
THEOREM AcceptedIsDurableHolds ==
    ASSUME "short" \notin Env
    PROVE  Spec => []AcceptedIsDurable
<1>1. IInv => AcceptedIsDurable
    BY DEF IInv
<1> QED BY <1>1, Inductive, PTL DEF Spec

\* A step of the store is a win of SpendOnce or leaves its counters alone.
LEMMA StepRefines ==
    ASSUME IInv, [Next]_vars
    PROVE  [Abstract!Next]_accepted
<1>1. CASE \E p \in Procs, t \in Threads : Accept(p, t)
  <2>1. PICK p \in Procs, t \in Threads : Accept(p, t)
      BY <1>1, SMTT(30)
  <2> DEFINE n == arg[<<p, t>>]
  <2>2. n \in Nullifiers /\ handle[p] = "open" /\ n \notin nullifiers[p]
      BY <2>1, SMTT(30) DEF Accept, IInv, TypeOK, LockInv, FileInv, Workers
  <2>3. accepted[n] = 0
      BY <2>2, SMTT(30) DEF IInv, TypeOK, FileInv
  <2>4. accepted' = [accepted EXCEPT ![n] = 1]
      BY <2>1, <2>2, <2>3, SMTT(30) DEF Accept, IInv, TypeOK
  <2>5. Abstract!Win(n)
      BY <2>3, <2>4, SMTT(30) DEF Abstract!Win
  <2> QED BY <2>2, <2>5, SMTT(30) DEF Abstract!Next
<1>2. CASE ~ \E p \in Procs, t \in Threads : Accept(p, t)
  <2>1. ASSUME NEW p \in Procs,
               TakeLockFile(p) \/ Load(p) \/ LoadFails(p) \/ Close(p) \/ Kill(p)
        PROVE  UNCHANGED accepted
      BY <2>1, Zenon DEF TakeLockFile, Load, LoadFails, Close, Kill, Die
  <2>2. ASSUME NEW p \in Procs, NEW t \in Threads, NEW n \in Nullifiers, Call(p, t, n)
        PROVE  UNCHANGED accepted
      BY <2>2, SMTT(30) DEF Call
  <2>3. ASSUME NEW p \in Procs, NEW t \in Threads, Insert(p, t)
        PROVE  UNCHANGED accepted
      BY <1>2, <2>3, Zenon DEF Insert, Enter, Known, Write, WriteFails, Sync, SyncFails, Refuse
  <2>4. PowerLoss \/ RemoveLockFile \/ UNCHANGED vars => UNCHANGED accepted
      BY Zenon DEF PowerLoss, Die, RemoveLockFile, vars
  <2> QED BY <2>1, <2>2, <2>3, <2>4, SMTT(30) DEF Next
<1> QED BY <1>1, <1>2, SMTT(30)

\* The file-backed, shared set implements SpendOnce: of all the attempts to
\* spend a nullifier the first that succeeds is the only one.
THEOREM StoreImplementsSpendOnce ==
    ASSUME "short" \notin Env
    PROVE  Spec => ImplementsSpendOnce
<1>1. Init => Abstract!Init
    BY DEF Init, Abstract!Init
<1>2. IInv /\ [Next]_vars => [Abstract!Next]_accepted
    BY StepRefines
<1> QED BY <1>1, <1>2, Inductive, PTL DEF Spec, ImplementsSpendOnce, Abstract!Spec

-----------------------------------------------------------------------------
(* Tokens that trustees evaluate *)

(* ---------------------------- the trustees ---------------------------- *)

\* What is assumed of the constants.
LEMMA TrusteesArePoints ==
    /\ P \in Nat /\ P > 1 /\ SbtThreshold \in Nat \ {0}
    /\ Cardinality(Trustees) \in Nat /\ SbtThreshold <= Cardinality(Trustees)
    /\ Trustees = 1..Cardinality(Trustees) /\ Trustees \in Points
    /\ Rogue \subseteq Trustees /\ Coefficients \subseteq Field /\ Field \subseteq Int
    /\ \A x \in Openings \cup Alphas \cup Nonces : x \in Field /\ x \in Int /\ x % P = x /\ ~Same(x, 0)
<1>1. P \in Nat /\ P > 1
    BY PrimeOrder
<1>2. Trustees \in Points
    BY SbtAssumption DEF Points
<1>3. Cardinality(Trustees) \in Nat
    BY <1>2, PointsFinite
<1>4. SbtThreshold \in Nat \ {0} /\ SbtThreshold <= Cardinality(Trustees)
    BY <1>3, SbtAssumption
<1>5. Field \subseteq Int
    BY <1>1 DEF Field
<1>6. ASSUME NEW x \in Openings \cup Alphas \cup Nonces
      PROVE  x \in Field /\ x \in Int /\ x % P = x /\ ~Same(x, 0)
    <2>1. x \in 1..(P - 1)
        BY SbtAssumption
    <2>2. x \in Field /\ 0 \in Field /\ x # 0 /\ x \in Int
        BY <1>1, <2>1 DEF Field
    <2> QED BY <2>2, ModOfField, SameField
<1> QED BY <1>1, <1>2, <1>3, <1>4, <1>5, <1>6, SbtAssumption, SMTT(30)

\* The dealer has shared the key.
KeyShared ==
    \E poly \in [1..SbtThreshold -> Field] :
        oprf_key = [secret |-> poly[1], shares |-> [i \in Trustees |-> evaluate_poly(poly, i)]]

\* Enough shares give the key.
LEMMA QuorumHasKey ==
    ASSUME KeyShared, NEW S \in SUBSET Trustees, SbtThreshold <= Cardinality(S),
           NEW y, \A i \in S : y[i] = share(i)
    PROVE  /\ S \in Points /\ \A i \in S : y[i] \in Int /\ y[i] \in Field
           /\ oprf_key.secret \in Field /\ oprf_key.secret \in Int
           /\ Same(Interpolated(y, S), oprf_key.secret)
           /\ reconstruct_secret(y, S) = oprf_key.secret
<1>1. PICK poly \in [1..SbtThreshold -> Field] :
        oprf_key = [secret |-> poly[1], shares |-> [i \in Trustees |-> evaluate_poly(poly, i)]]
    BY Zenon DEF KeyShared
<1>2. S \in Points /\ \A i \in S : i \in Int
    <2>1. S \in Points
        BY TrusteesArePoints DEF Points
    <2> QED BY <2>1, PointsFinite, ZenonT(40)
<1>3. /\ poly \in [1..SbtThreshold -> Int] /\ SbtThreshold \in Nat \ {0}
      /\ 1 \in 1..SbtThreshold /\ poly[1] \in Field /\ poly[1] \in Int
    <2>1. SbtThreshold \in Nat \ {0} /\ Field \subseteq Int
        BY TrusteesArePoints
    <2>2. 1 \in 1..SbtThreshold /\ poly[1] \in Field
        BY <2>1
    <2> QED BY <2>1, <2>2, ZenonT(40)
<1>4. \A i \in S : y[i] = evaluate_poly(poly, i)
    BY <1>1 DEF share
<1>5. \A i \in S : y[i] \in Field /\ y[i] \in Int
    BY <1>2, <1>3, <1>4, PolynomialIs, ZenonT(40)
<1>6. Same(Interpolated(y, S), poly[1])
    BY <1>2, <1>3, <1>4, SharesOfPolynomial
<1>7. reconstruct_secret(y, S) = Interpolated(y, S) % P
    BY <1>2, <1>5, InterpolatedIsInt
<1>8. reconstruct_secret(y, S) = poly[1]
    BY <1>3, <1>6, <1>7, ModOfField, SMTT(30) DEF Same
<1>9. oprf_key.secret = poly[1]
    BY <1>1
<1> QED BY <1>2, <1>3, <1>5, <1>6, <1>8, <1>9, SMTT(30)

\* A challenge is not zero.
LEMMA ChallengeNotZero ==
    ASSUME NEW a \in Int, NEW b \in Int, NEW t \in Int
    PROVE  challenge_scalar(a, b, t) \in Int /\ ~Same(challenge_scalar(a, b, t), 0)
<1>1. P \in Nat /\ P > 1
    BY PrimeOrder
<1>2. PICK n \in Int : n = a + b + t
    OBVIOUS
<1>3. PICK q \in Int : q = P - 1 /\ q > 0
    BY <1>1
<1>4. n % q \in Int /\ 0 <= n % q /\ n % q < q
    BY <1>3
<1>5. PICK c \in Int : c = 1 + (n % q)
    BY <1>4
<1>6. c \in Field /\ c # 0 /\ 0 \in Field
    BY <1>1, <1>3, <1>4, <1>5, SMTT(30) DEF Field
<1>7. ~Same(c, 0)
    BY <1>6, SameField
<1>8. challenge_scalar(a, b, t) = c
    BY <1>2, <1>3, <1>5 DEF challenge_scalar
<1> QED BY <1>7, <1>8

\* The content of a transcript.
Content(s, i, h, a, b, t, u) ==
    [session |-> s, trustee |-> i, h |-> h, a |-> a, b |-> b, t |-> t, t_h |-> u]

\* The content of a transcript, with the statement replaced.
Restated(r, session, index, base, a, b) ==
    [r EXCEPT !.session = session, !.trustee = index, !.h = base, !.a = a, !.b = b]

\* What is replaced, and what is kept.
LEMMA RestatedContent ==
    ASSUME NEW s0, NEW i0, NEW h0, NEW a0, NEW b0, NEW t0, NEW u0,
           NEW s, NEW i, NEW h, NEW a, NEW b
    PROVE  Restated(Content(s0, i0, h0, a0, b0, t0, u0), s, i, h, a, b)
             = Content(s, i, h, a, b, t0, u0)
<1>0. PICK r : r = [session |-> s0, trustee |-> i0, h |-> h0, a |-> a0, b |-> b0,
                    t |-> t0, t_h |-> u0]
    BY Zenon
<1>1. PICK r1 : r1 = [r EXCEPT !.session = s]
    BY Zenon
<1>2. r1 = [session |-> s, trustee |-> i0, h |-> h0, a |-> a0, b |-> b0, t |-> t0, t_h |-> u0]
    BY <1>0, <1>1
<1>3. PICK r2 : r2 = [r1 EXCEPT !.trustee = i]
    BY Zenon
<1>4. r2 = [session |-> s, trustee |-> i, h |-> h0, a |-> a0, b |-> b0, t |-> t0, t_h |-> u0]
    BY <1>2, <1>3
<1>5. PICK r3 : r3 = [r2 EXCEPT !.h = h]
    BY Zenon
<1>6. r3 = [session |-> s, trustee |-> i, h |-> h, a |-> a0, b |-> b0, t |-> t0, t_h |-> u0]
    BY <1>4, <1>5
<1>7. PICK r4 : r4 = [r3 EXCEPT !.a = a]
    BY Zenon
<1>8. r4 = [session |-> s, trustee |-> i, h |-> h, a |-> a, b |-> b0, t |-> t0, t_h |-> u0]
    BY <1>6, <1>7
<1>9. PICK r5 : r5 = [r4 EXCEPT !.b = b]
    BY ZenonT(40)
<1>10. r5 = [session |-> s, trustee |-> i, h |-> h, a |-> a, b |-> b, t |-> t0, t_h |-> u0]
    BY <1>8, <1>9
<1>11. Restated(r, s, i, h, a, b) = r5
    BY <1>1, <1>3, <1>5, <1>7, <1>9, Zenon DEF Restated
<1> QED BY <1>0, <1>10, <1>11, ZenonT(40) DEF Content

\* A proof that verifies is one of the statement that it is verified for, and
\* the statement is true.
LEMMA DdhSound ==
    ASSUME NEW x \in Int, NEW w \in Nonces, NEW base0, NEW a0 \in Int, NEW b0 \in Int,
           NEW s0, NEW i0, NEW base, NEW a, NEW b, NEW s, NEW i, NEW pf,
           pf = ddh_prove(x, base0, a0, b0, s0, i0, w), ddh_verify(pf, base, a, b, s, i)
    PROVE  s0 = s /\ i0 = i /\ base0 = base /\ a0 = a /\ b0 = b /\ Same(x, a)
<1>1. PICK t0, u0, r : /\ t0 = w % P /\ u0 = (base0 * w) % P
                       /\ r = [session |-> s0, trustee |-> i0, h |-> base0, a |-> a0, b |-> b0,
                               t |-> t0, t_h |-> u0]
    BY Zenon
<1>2. PICK z0 : z0 = (w + challenge_scalar(a0, b0, w) * x) % P
    BY Zenon
<1>3. pf = [content |-> r, z |-> z0]
    BY <1>1, <1>2, ZenonT(40) DEF ddh_prove
<1>4. pf.content = r /\ pf.z = z0 /\ r.t = t0
    BY <1>1, <1>3
<1>5. PICK n : n = Restated(r, s, i, base, a, b)
    BY ZenonT(40)
<1>6. n = [session |-> s, trustee |-> i, h |-> base, a |-> a, b |-> b, t |-> t0, t_h |-> u0]
    <2>1. r = Content(s0, i0, base0, a0, b0, t0, u0)
        BY <1>1, Zenon DEF Content
    <2>2. n = Content(s, i, base, a, b, t0, u0)
        BY <1>5, <2>1, RestatedContent
    <2> QED BY <2>2, Zenon DEF Content
<1>7. n = r /\ z0 = (n.t + a * challenge_scalar(a, b, n.t)) % P
    BY <1>4, <1>5, Zenon DEF ddh_verify, Restated
<1>8. s0 = s /\ i0 = i /\ base0 = base /\ a0 = a /\ b0 = b
    BY <1>1, <1>6, <1>7
<1>9. w \in Int /\ w % P = w
    BY TrusteesArePoints
<1>10. PICK c \in Int : c = challenge_scalar(a, b, w) /\ ~Same(c, 0)
    BY <1>8, <1>9, ChallengeNotZero, ZenonT(40)
<1>11. (w + c * x) % P = (w + a * c) % P
    BY <1>1, <1>2, <1>4, <1>7, <1>8, <1>9, <1>10, Zenon
<1>12. a \in Int
    BY <1>8
<1>13. PICK e \in Int : e = x - a
    BY <1>12, SMTT(30)
<1>14. Same(c * e, 0)
    <2>1. w + c * x \in Int /\ w + a * c \in Int
        BY <1>9, <1>12, TimesInt, ZenonT(40)
    <2>2. PICK q \in Int : w + c * x = (w + a * c) + q * P
        BY <1>11, <2>1, SameIff, SMTT(30) DEF Same
    <2>3. c * e = c * x - a * c
        BY <1>12, <1>13
    <2>4. c * x \in Int /\ a * c \in Int /\ c * e \in Int /\ q * P \in Int /\ P \in Int
        BY <1>12, PrimeOrder, TimesInt, SMTT(30)
    <2>5. c * e = 0 + q * P
        BY <1>9, <2>2, <2>3, <2>4, SMTT(30)
    <2> QED BY <2>4, <2>5, SameIff, SMTT(30)
<1>15. Same(e, 0)
    BY <1>10, <1>14, NoZeroDivisors, SMTT(30)
<1>16. Same(e + a, 0 + a)
    BY <1>12, <1>15, SameAdd, SMTT(30) DEF Same
<1>17. e + a = x /\ 0 + a = a
    BY <1>12, <1>13
<1> QED BY <1>8, <1>16, <1>17, SMTT(30)

\* An honest trustee's proof verifies.
LEMMA DdhComplete ==
    ASSUME NEW x \in Field, x # 0, NEW w \in Nonces, NEW base \in Field, base # 0,
           NEW s, NEW i, NEW b, b = (base * x) % P
    PROVE  /\ b \in Field /\ b # 0
           /\ ddh_verify(ddh_prove(x, base, x, b, s, i, w), base, x, b, s, i)
<1>0. /\ P \in Nat /\ P > 1 /\ 0 \in Field /\ 0 \in Int
      /\ w \in Int /\ w % P = w /\ ~Same(w, 0) /\ x \in Int /\ base \in Int
    <2>1. 0 \in Field
        BY PrimeOrder DEF Field
    <2> QED BY <2>1, TrusteesArePoints
<1>1. ~Same(x, 0) /\ ~Same(base, 0)
    BY <1>0, SameField
<1>2. ASSUME NEW y \in Int, ~Same(y, 0)
      PROVE  (base * y) % P \in Field /\ (base * y) % P # 0
    <2>1. base * y \in Int /\ (base * y) % P \in Field
        BY <1>0, TimesInt, ModType, ZenonT(40)
    <2>2. ~Same(base * y, 0)
        BY <1>0, <1>1, <1>2, NoZeroDivisors, SMTT(30)
    <2>3. 0 % P = 0
        BY <1>0
    <2> QED BY <2>1, <2>2, <2>3 DEF Same
<1>3. b \in Field /\ b # 0 /\ b \in Int
    BY <1>0, <1>1, <1>2, TrusteesArePoints, SMTT(30)
<1>4. PICK u : u = (base * w) % P /\ u \in Field /\ u # 0 /\ u \in Int
    BY <1>0, <1>2, TrusteesArePoints, Zenon
<1>5. PICK c \in Int : c = challenge_scalar(x, b, w)
    BY <1>0, <1>3, ChallengeNotZero, ZenonT(40)
<1>6. PICK z \in Int : z = (w + c * x) % P /\ Same(z, w + c * x)
    <2>1. w + c * x \in Int
        BY <1>0, TimesInt, ZenonT(40)
    <2> QED BY <2>1, ModType, SameMod
<1>7. PICK r : r = [session |-> s, trustee |-> i, h |-> base, a |-> x, b |-> b, t |-> w, t_h |-> u]
    BY Zenon
<1>8. PICK pf : pf = ddh_prove(x, base, x, b, s, i, w)
    BY Zenon
<1>9. pf = [content |-> r, z |-> z]
    BY <1>0, <1>4, <1>5, <1>6, <1>7, <1>8, ZenonT(40) DEF ddh_prove
<1>10. pf.content = r /\ pf.z = z /\ r.t = w /\ r.t_h = u
    BY <1>7, <1>9, Zenon
<1>11. Restated(r, s, i, base, x, b) = r
    <2>1. r = Content(s, i, base, x, b, w, u)
        BY <1>7, Zenon DEF Content
    <2> QED BY <2>1, RestatedContent
<1>12. 0 \notin {base, x, b, w, u}
    BY <1>0, <1>3, <1>4, SMTT(30) DEF Same
<1>13. z = (w + x * c) % P
    <2>1. c * x = x * c
        BY <1>0
    <2> QED BY <1>6, <2>1
<1>14. (base * z) % P = (u + b * c) % P
    <2>1. PICK v, y, d \in Int : v = base * w /\ y = base * x /\ d = w + c * x
        BY <1>0, TimesInt, ZenonT(40)
    <2>2. Same(base * z, base * d)
        <3>1. Same(base, base) /\ Same(z, d)
            BY <1>6, <2>1, SMTT(30) DEF Same
        <3> QED BY <1>0, <3>1, SameTimes, SMTT(30)
    <2>3. base * d = v + y * c
        BY <1>0, <2>1
    <2>4. Same(u, v) /\ Same(b, y) /\ Same(c, c)
        BY <1>4, <2>1, SameMod, SMTT(30) DEF Same
    <2>5. Same(b * c, y * c) /\ b * c \in Int /\ y * c \in Int
        BY <1>3, <2>4, SameTimes, TimesInt, ZenonT(40)
    <2>6. Same(u + b * c, v + y * c)
        BY <1>4, <2>4, <2>5, SameAdd
    <2> QED BY <2>2, <2>3, <2>6 DEF Same
<1>15. ddh_verify(pf, base, x, b, s, i)
    <2>1. PICK n : n = Restated(r, s, i, base, x, b)
        BY Zenon
    <2>2. n = r /\ n.t = w /\ n.t_h = u
        BY <1>10, <1>11, <2>1, SMTT(30)
    <2>3. /\ 0 \notin {base, x, b, n.t, n.t_h} /\ n = pf.content
          /\ pf.z = (n.t + x * challenge_scalar(x, b, n.t)) % P
          /\ (base * pf.z) % P = (n.t_h + b * challenge_scalar(x, b, n.t)) % P
        BY <1>5, <1>10, <1>12, <1>13, <1>14, <2>2, Zenon
    <2> QED BY <1>10, <2>1, <2>3, ZenonT(40) DEF ddh_verify, Restated
<1> QED BY <1>3, <1>8, <1>15

\* The trustees that evaluations claim to come from.
Indices(evals) == {evals[k].index : k \in DOMAIN evals}

\* What combine_evaluations returns for as many evaluations as the threshold
\* asks for, of different trustees.
LEMMA Combination ==
    ASSUME KeyShared, NEW evals, DOMAIN evals = 1..SbtThreshold, NEW base \in Int,
           \A k \in DOMAIN evals : /\ evals[k].index \in Trustees /\ evals[k].point \in Int
                                   /\ Same(evals[k].point, base * share(evals[k].index)),
           Cardinality(Indices(evals)) = SbtThreshold
    PROVE  SumOver([k \in DOMAIN evals |->
                        lambda(evals[k].index, Indices(evals)) * evals[k].point])
             = (base * oprf_key.secret) % P
<1> DEFINE D == 1..SbtThreshold
           S == Indices(evals)
           r == [k \in D |-> evals[k].index]
           h == [k \in D |-> lambda(evals[k].index, S) * evals[k].point]
           y == [i \in S |-> evals[CHOOSE k \in D : evals[k].index = i].point]
           v == [i \in S |-> share(i)]
<1>1. PICK n \in Nat \ {0} : n = SbtThreshold
    BY TrusteesArePoints, Zenon
<1>2. IsFiniteSet(D) /\ Cardinality(D) = SbtThreshold
    <2>1. 1 \in Int /\ n \in Int
        OBVIOUS
    <2>2. IsFiniteSet(1..n) /\ Cardinality(1..n) = IF 1 > n THEN 0 ELSE n - 1 + 1
        BY <2>1, FS_Interval, Zenon
    <2> QED BY <1>1, <2>2, SMTT(30)
<1>3. S = Image(r, D)
    BY Zenon DEF Image, Indices
<1>4. \A a, b \in D : evals[a].index = evals[b].index => a = b
    <2>1. \A a, b \in D : r[a] = r[b] => a = b
        <3> HIDE DEF r, D, S
        <3> QED BY <1>2, <1>3, Renaming, Zenon DEF S
    <2> QED BY <2>1, Zenon
<1>5. S \in SUBSET Trustees /\ S \in Points /\ SbtThreshold <= Cardinality(S)
    <2>1. S \in SUBSET Trustees
        BY Zenon DEF Indices
    <2>2. S \in Points
        BY <2>1, TrusteesArePoints, Zenon DEF Points
    <2> QED BY <1>1, <2>1, <2>2, SMTT(30)
<1>6. ASSUME NEW k \in D PROVE y[evals[k].index] = evals[k].point /\ evals[k].index \in S
    <2>1. evals[k].index \in S
        BY Zenon DEF Indices
    <2>2. (CHOOSE j \in D : evals[j].index = evals[k].index) = k
        <3> HIDE DEF D
        <3> QED BY <1>4, Zenon
    <2> QED BY <2>1, <2>2, ZenonT(40)
<1>7. ASSUME NEW i \in S PROVE y[i] \in Int /\ v[i] \in Int /\ Same(y[i], base * v[i])
    <2>1. PICK k \in D : evals[k].index = i
        BY SMTT(30) DEF Indices
    <2>2. y[i] = evals[k].point /\ v[i] = share(i)
        BY <1>6, <2>1, ZenonT(40)
    <2>3. v[i] \in Int
        <3>1. \A j \in S : v[j] = share(j)
            BY Zenon
        <3> HIDE DEF v, S
        <3> QED BY <1>5, <3>1, QuorumHasKey, Zenon
    <2> HIDE DEF y, v
    <2> QED BY <2>1, <2>2, <2>3, Zenon
<1>8. /\ Same(Interpolated(v, S), oprf_key.secret) /\ oprf_key.secret \in Int
    <2>1. \A j \in S : v[j] = share(j)
        BY Zenon
    <2> HIDE DEF v, S
    <2> QED BY <1>5, <2>1, QuorumHasKey, Zenon
<1>9. DOMAIN h = D /\ \A k \in D : h[k] = Weighted(y, S)[r[k]]
    <2>1. ASSUME NEW k \in D PROVE h[k] = Weighted(y, S)[r[k]]
        <3>1. r[k] = evals[k].index /\ h[k] = lambda(evals[k].index, S) * evals[k].point
            BY ZenonT(40)
        <3>2. PICK p, i : p = evals[k].point /\ i = evals[k].index
            BY ZenonT(40)
        <3>3. y[i] = p /\ i \in S
            BY <1>6, <3>2, ZenonT(40)
        <3> HIDE DEF y, S, h, r
        <3> QED BY <3>1, <3>2, <3>3, ZenonT(40) DEF Weighted
    <2> QED BY <2>1, ZenonT(40)
<1>10. SumOver([k \in DOMAIN evals |-> lambda(evals[k].index, Indices(evals)) * evals[k].point]) = SumOver(h)
    BY ZenonT(40)
<1> HIDE DEF y, v, h
<1>11. Summable(Weighted(y, S), S) /\ Interpolated(y, S) \in Int
    <2> HIDE DEF S, D, r
    <2> QED BY <1>5, <1>7, InterpolatedIsInt, Zenon
<1>12. ASSUME NEW k \in D PROVE h[k] \in Int
    <2>1. r[k] \in S
        BY <1>6, Zenon
    <2> HIDE DEF S, D, r
    <2> QED BY <1>9, <1>11, <2>1, Zenon DEF Summable
<1>13. SumOver(h) = Interpolated(y, S) % P
    <2>1. \A a, b \in D : r[a] = r[b] => a = b
        BY <1>4, Zenon
    <2> HIDE DEF D, S, r
    <2>2. SumOf(h, D) = SumOf(Weighted(y, S), S)
        <3>1. PICK f : f = Weighted(y, S)
            BY Zenon
        <3>2. \A k \in D : h[k] = f[r[k]] /\ h[k] \in Int
            BY <1>9, <1>12, <3>1, ZenonT(40)
        <3>3. SumOf(h, D) = SumOf(f, Image(r, D))
            BY <1>2, <2>1, <3>2, SumRenamed, ZenonT(40)
        <3> QED BY <1>3, <3>1, <3>3, ZenonT(40)
    <2> QED BY <1>9, <2>2, SumOverFunction, Zenon DEF Interpolated
<1>14. Same(Interpolated(y, S), base * Interpolated(v, S))
    <2> HIDE DEF S
    <2> QED BY <1>5, <1>7, Multiples, Zenon
<1>15. Same(base * Interpolated(v, S), base * oprf_key.secret)
    <2>1. Interpolated(v, S) \in Int
        <3> HIDE DEF S
        <3> QED BY <1>5, <1>7, InterpolatedIsInt, Zenon
    <2>2. Same(base, base)
        BY DEF Same
    <2> QED BY <1>8, <2>1, <2>2, SameTimes, ZenonT(40)
<1> QED BY <1>10, <1>13, <1>14, <1>15, ZenonT(40) DEF Same

\* An evaluation as it is sent under index idx, made with share x by or for the
\* trustee i.
Sent(idx, i, x, q, w) ==
    [index |-> idx, point |-> (q[1] * x) % P,
     proof |-> ddh_prove(x, q[1], share(i), (q[1] * x) % P, q[2], i, w)]

\* What trustees are asked about.
AskedInv == \A q \in asked : q[1] \in Int

\* Shares are scalars.
LEMMA SharesInField ==
    ASSUME KeyShared, NEW i \in Trustees PROVE share(i) \in Field /\ share(i) \in Int
<1>1. PICK poly \in [1..SbtThreshold -> Field] :
        oprf_key = [secret |-> poly[1], shares |-> [j \in Trustees |-> evaluate_poly(poly, j)]]
    BY Zenon DEF KeyShared
<1>2. SbtThreshold \in Nat /\ Field \subseteq Int /\ i \in Int
    BY TrusteesArePoints
<1>3. poly \in [1..SbtThreshold -> Int]
    BY <1>2, Zenon
<1> QED BY <1>1, <1>2, <1>3, PolynomialIs, Zenon DEF share

\* The one evaluation of evaluate_server.
LEMMA ServerSends ==
    ASSUME NEW i, NEW x, NEW q, NEW w, NEW e \in evaluate_server(i, x, share(i), q[1], q[2], w)
    PROVE  e = Sent(i, i, x, q, w)
<1>1. CASE 0 \in {q[1] % P, share(i) % P}
    BY <1>1, ZenonT(40) DEF evaluate_server
<1>2. CASE ~(0 \in {q[1] % P, share(i) % P})
    BY <1>2, ZenonT(40) DEF evaluate_server, Sent
<1> QED BY <1>1, <1>2

\* Whatever trustees send is made with some share, about something that was asked.
LEMMA EvaluationIs ==
    ASSUME KeyShared, NEW e \in Evaluations
    PROVE  \E idx, i \in Trustees, x \in Field, q \in asked, w \in Nonces :
                e = Sent(idx, i, x, q, w)
<1> DEFINE honest == UNION {evaluate_server(i, share(i), share(i), q[1], q[2], w) :
                                i \in Trustees, q \in asked, w \in Nonces}
           rogue == UNION {evaluate_server(f, x, share(f), q[1], q[2], w) :
                                f \in Rogue, x \in Coefficients, q \in asked, w \in Nonces}
<1>1. ASSUME NEW d \in honest
      PROVE  \E i \in Trustees, q \in asked, w \in Nonces : d = Sent(i, i, share(i), q, w)
    <2>1. PICK i \in Trustees, q \in asked, w \in Nonces :
            d \in evaluate_server(i, share(i), share(i), q[1], q[2], w)
        OBVIOUS
    <2> QED BY <2>1, ServerSends, SMTT(30)
<1>2. ASSUME NEW d \in rogue
      PROVE  \E f \in Rogue, x \in Coefficients, q \in asked, w \in Nonces : d = Sent(f, f, x, q, w)
    <2>1. PICK f \in Rogue, x \in Coefficients, q \in asked, w \in Nonces :
            d \in evaluate_server(f, x, share(f), q[1], q[2], w)
        OBVIOUS
    <2> QED BY <2>1, ServerSends, SMTT(30)
<1>3. \/ e \in honest \/ e \in rogue
      \/ \E d \in honest, f \in Rogue : e = [d EXCEPT !.index = f]
    <2>1. Evaluations = honest \cup rogue \cup {[d EXCEPT !.index = f] : d \in honest, f \in Rogue}
        BY DEF Evaluations
    <2> HIDE DEF honest, rogue
    <2> QED BY <2>1
<1>4. Rogue \subseteq Trustees /\ Coefficients \subseteq Field
    BY TrusteesArePoints, Zenon
<1> HIDE DEF honest, rogue
<1>5. CASE e \in honest
    <2>1. PICK i \in Trustees, q \in asked, w \in Nonces : e = Sent(i, i, share(i), q, w)
        BY <1>1, <1>5, ZenonT(40)
    <2>2. share(i) \in Field
        BY SharesInField
    <2> QED BY <2>1, <2>2, ZenonT(40)
<1>6. CASE e \in rogue
    <2>1. PICK f \in Rogue, x \in Coefficients, q \in asked, w \in Nonces : e = Sent(f, f, x, q, w)
        BY <1>2, <1>6, ZenonT(40)
    <2>2. f \in Trustees /\ x \in Field
        BY <1>4
    <2> QED BY <2>1, <2>2, ZenonT(40)
<1>7. ASSUME NEW d \in honest, NEW f \in Rogue, e = [d EXCEPT !.index = f]
      PROVE  \E idx, i \in Trustees, x \in Field, q \in asked, w \in Nonces :
                e = Sent(idx, i, x, q, w)
    <2>1. PICK i \in Trustees, q \in asked, w \in Nonces : d = Sent(i, i, share(i), q, w)
        BY <1>1, ZenonT(40)
    <2>2. share(i) \in Field /\ f \in Trustees
        BY <1>4, SharesInField, SMTT(30)
    <2>3. PICK p, pf : /\ p = (q[1] * share(i)) % P
                       /\ pf = ddh_prove(share(i), q[1], share(i), (q[1] * share(i)) % P, q[2], i, w)
        BY Zenon
    <2>4. d = [index |-> i, point |-> p, proof |-> pf]
        BY <2>1, <2>3, ZenonT(40) DEF Sent
    <2>5. e = [index |-> f, point |-> p, proof |-> pf]
        BY <1>7, <2>4
    <2>6. e = Sent(f, i, share(i), q, w)
        BY <2>3, <2>5, ZenonT(40) DEF Sent
    <2> QED BY <2>2, <2>6, ZenonT(40)
<1> QED BY <1>3, <1>5, <1>6, <1>7, ZenonT(40)

\* The proof of an evaluation that is accepted holds it to the trustee's share,
\* whoever has sent it.
LEMMA AcceptedEvaluation ==
    ASSUME KeyShared, AskedInv, NEW e \in Evaluations, NEW a, NEW base, NEW session,
           ddh_verify(e.proof, base, a, e.point, session, e.index)
    PROVE  /\ e.index \in Trustees /\ e.point \in Int /\ base \in Int
           /\ Same(e.point, base * share(e.index))
<1>1. PICK idx \in Trustees, i \in Trustees, x \in Field, q \in asked, w \in Nonces :
        e = Sent(idx, i, x, q, w)
    BY EvaluationIs, ZenonT(40)
<1>2. PICK p, pf : /\ p = (q[1] * x) % P
                   /\ pf = ddh_prove(x, q[1], share(i), (q[1] * x) % P, q[2], i, w)
    BY Zenon
<1>3. e = [index |-> idx, point |-> p, proof |-> pf]
    BY <1>1, <1>2, ZenonT(40) DEF Sent
<1>4. e.index = idx /\ e.point = p /\ e.proof = pf
    BY <1>3, SMTT(30)
<1>5. q[1] \in Int /\ x \in Int /\ share(i) \in Int
    BY TrusteesArePoints, SharesInField DEF AskedInv
<1>6. PICK m \in Int : m = q[1] * x
    BY <1>5, TimesInt, ZenonT(40)
<1>7. p \in Int /\ Same(p, m)
    BY <1>2, <1>6, ModType, SameMod, Zenon
<1>8. i = idx /\ q[1] = base /\ share(i) = a /\ Same(x, a)
    <2>1. ddh_verify(pf, base, a, p, session, idx) /\ pf = ddh_prove(x, q[1], share(i), p, q[2], i, w)
        BY <1>2, <1>4, ZenonT(40)
    <2> QED BY <1>5, <1>7, <2>1, DdhSound, SMTT(30)
<1>9. Same(q[1] * x, q[1] * share(i))
    <2>1. Same(q[1], q[1])
        BY SMTT(30) DEF Same
    <2> QED BY <1>5, <1>8, <2>1, SameTimes, Zenon
<1> QED BY <1>4, <1>5, <1>6, <1>7, <1>8, <1>9, ZenonT(40) DEF Same

\* Whatever rogue trustees send, combine_evaluations fails or returns the
\* evaluation under the shared key.
LEMMA CombineSound ==
    ASSUME KeyShared, AskedInv, NEW evals \in Responses, NEW commits, NEW base, NEW session,
           NEW bk, bk = combine_evaluations(commits, evals, base, session), bk # 0
    PROVE  base \in Int /\ bk = (base * oprf_key.secret) % P
<1>1. DOMAIN evals = 1..SbtThreshold /\ \A k \in DOMAIN evals : evals[k] \in Evaluations
    BY DEF Responses
<1>2. /\ Len(evals) = SbtThreshold /\ Cardinality(Indices(evals)) = Len(evals)
      /\ \A k \in DOMAIN evals : ddh_verify(evals[k].proof, base, commits[evals[k].index],
                                            evals[k].point, session, evals[k].index)
      /\ bk = SumOver([k \in DOMAIN evals |->
                        lambda(evals[k].index, Indices(evals)) * evals[k].point])
    BY ZenonT(40) DEF combine_evaluations, Indices
<1>3. \A k \in DOMAIN evals : /\ evals[k].index \in Trustees /\ evals[k].point \in Int /\ base \in Int
                              /\ Same(evals[k].point, base * share(evals[k].index))
    BY <1>1, <1>2, AcceptedEvaluation, ZenonT(40)
<1>4. base \in Int
    <2>1. 1 \in 1..SbtThreshold
        BY TrusteesArePoints, SMTT(30)
    <2> QED BY <1>1, <1>3, <2>1, Zenon
<1> QED BY <1>1, <1>2, <1>3, <1>4, Combination, ZenonT(40)

\* What honest trustees with these commits answer about base under the session
\* made.
Honestly(evals, ids, base, made, w) ==
    evals = [k \in 1..SbtThreshold |->
        CHOOSE e \in evaluate_server(ids[k], share(ids[k]), share(ids[k]), base, made, w) : TRUE]

\* As many trustees as the threshold asks for, ids, each of which committed to
\* its share of the key, and a point that they can evaluate.
Answering(commits, S, ids, base) ==
    /\ commits \in [Trustees -> Field] /\ \A i \in Trustees : commits[i] # 0
    /\ S \in SUBSET Trustees /\ \A i \in S : commits[i] = share(i)
    /\ ids \in Injection(1..SbtThreshold, S) /\ base \in Field /\ base # 0

\* evals are what as many such trustees answer about base under the session made.
Answered(commits, evals, base, made) ==
    \E S, ids : \E w \in Nonces :
        Answering(commits, S, ids, base) /\ Honestly(evals, ids, base, made, w)

\* combine_evaluations accepts it under that session alone.
LEMMA CombineComplete ==
    ASSUME KeyShared, NEW commits, NEW evals, NEW base, NEW made,
           Answered(commits, evals, base, made), NEW session
    PROVE  combine_evaluations(commits, evals, base, session)
             = IF session = made THEN (base * oprf_key.secret) % P ELSE 0
<1>a. PICK S, ids, w : /\ w \in Nonces /\ Answering(commits, S, ids, base)
                       /\ Honestly(evals, ids, base, made, w)
    BY Zenon DEF Answered
<1>0. /\ commits \in [Trustees -> Field] /\ \A i \in Trustees : commits[i] # 0
      /\ S \in SUBSET Trustees /\ \A i \in S : commits[i] = share(i)
      /\ ids \in Injection(1..SbtThreshold, S) /\ base \in Field /\ base # 0
      /\ w \in Nonces /\ Honestly(evals, ids, base, made, w)
    BY <1>a, Zenon DEF Answering
<1> USE <1>0
<1> DEFINE D == 1..SbtThreshold
<1>1. PICK n \in Nat \ {0} : n = SbtThreshold
    BY TrusteesArePoints, Zenon
<1>2. IsFiniteSet(D) /\ Cardinality(D) = SbtThreshold
    <2>1. 1 \in Int /\ n \in Int
        OBVIOUS
    <2>2. IsFiniteSet(1..n) /\ Cardinality(1..n) = IF 1 > n THEN 0 ELSE n - 1 + 1
        BY <2>1, FS_Interval, Zenon
    <2> QED BY <1>1, <2>2, SMTT(30)
<1>3. ids \in [D -> S] /\ \A a, b \in D : ids[a] = ids[b] => a = b
    BY Zenon DEF Injection, IsInjective
<1>4. base \in Int /\ base % P = base
    BY ModOfField
<1>5. ASSUME NEW k \in D
      PROVE  /\ evals[k].index = ids[k] /\ evals[k].point = (base * share(ids[k])) % P
             /\ evals[k].proof = ddh_prove(share(ids[k]), base, share(ids[k]),
                                           (base * share(ids[k])) % P, made, ids[k], w)
             /\ ids[k] \in Trustees /\ ids[k] # 0
             /\ commits[ids[k]] = share(ids[k])
             /\ share(ids[k]) \in Field /\ share(ids[k]) \in Int /\ share(ids[k]) # 0
    <2>1. PICK i \in Trustees : i = ids[k] /\ commits[i] = share(i) /\ i # 0
        <3>1. ids[k] \in S
            BY <1>3, Zenon
        <3>2. ids[k] \in Trustees /\ commits[ids[k]] = share(ids[k])
            BY <3>1, Zenon
        <3>3. \A j \in Trustees : j # 0
            BY TrusteesArePoints
        <3> QED BY <3>2, <3>3, Zenon
    <2>2. PICK x \in Field : x = share(i) /\ x # 0 /\ x % P = x /\ x \in Int
        BY <2>1, SharesInField, ModOfField, Zenon
    <2>3. PICK p, pf : p = (base * x) % P /\ pf = ddh_prove(x, base, x, (base * x) % P, made, i, w)
        BY Zenon
    <2>4. evaluate_server(i, x, x, base, made, w) = {[index |-> i, point |-> p, proof |-> pf]}
        <3>1. ~(0 \in {base % P, x % P})
            BY <1>4, <2>2, Zenon
        <3> QED BY <2>3, <3>1, ZenonT(40) DEF evaluate_server
    <2>5. evals[k] = CHOOSE e \in {[index |-> i, point |-> p, proof |-> pf]} : TRUE
        BY <2>1, <2>2, <2>4, ZenonT(40) DEF Honestly
    <2>6. evals[k] = [index |-> i, point |-> p, proof |-> pf]
        BY <2>5, Zenon
    <2>7. evals[k].index = i /\ evals[k].point = p /\ evals[k].proof = pf
        <3>1. PICK e : e = evals[k] /\ e = [index |-> i, point |-> p, proof |-> pf]
            BY <2>6, Zenon
        <3>2. e.index = i /\ e.point = p /\ e.proof = pf
            <4> HIDE <1>0
            <4> QED BY <3>1
        <3> QED BY <3>1, <3>2, Zenon
    <2> QED BY <2>1, <2>2, <2>3, <2>7, ZenonT(40)
<1>6. DOMAIN evals = D
    BY ZenonT(40) DEF Honestly
<1>7. Len(evals) = SbtThreshold
    <2>1. evals \in Seq({evals[k] : k \in D})
        <3>1. evals = [k \in 1..n |-> evals[k]]
            <4> DEFINE c(k) == CHOOSE e \in evaluate_server(ids[k], share(ids[k]),
                                        share(ids[k]), base, made, w) : TRUE
            <4>1. evals = [k \in 1..n |-> c(k)]
                BY <1>1, ZenonT(40) DEF Honestly
            <4> HIDE DEF c
            <4> QED BY <4>1, Zenon
        <3> QED BY <1>1, <3>1
    <2> QED BY <1>1, <1>6, <2>1, Lengths, SMTT(30)
<1>8. Indices(evals) = Image(ids, D)
    <2> HIDE DEF D
    <2>1. \A k \in D : evals[k].index = ids[k]
        BY <1>5, Zenon
    <2> QED BY <1>6, <2>1, Zenon DEF Indices, Image
<1>9. Cardinality(Indices(evals)) = SbtThreshold
    <2> HIDE DEF D
    <2> QED BY <1>2, <1>3, <1>8, Names, Zenon
<1>10. ASSUME NEW k \in D
       PROVE  /\ evals[k].point # 0 /\ evals[k].point \in Int
              /\ Same(evals[k].point, base * share(ids[k]))
              /\ ddh_verify(evals[k].proof, base, commits[evals[k].index],
                            evals[k].point, made, evals[k].index)
    <2>1. PICK i, x : i = ids[k] /\ x = share(ids[k])
        BY Zenon
    <2>2. PICK b : b = (base * x) % P
        BY ZenonT(40)
    <2>3. x \in Field /\ x # 0 /\ x \in Int
        BY <1>5, <2>1, Zenon
    <2>4. b \in Field /\ b # 0 /\ ddh_verify(ddh_prove(x, base, x, b, made, i, w), base, x, b, made, i)
        BY <2>2, <2>3, DdhComplete, Zenon
    <2>5. /\ evals[k].index = i /\ evals[k].point = b /\ commits[i] = x
          /\ evals[k].proof = ddh_prove(x, base, x, b, made, i, w)
        BY <1>5, <2>1, <2>2, ZenonT(40)
    <2>6. b \in Int /\ Same(b, base * x)
        <3>1. base * x \in Int
            BY <1>4, <2>3, TimesInt, ZenonT(40)
        <3> QED BY <2>2, <3>1, ModType, SameMod, Zenon
    <2> QED BY <2>1, <2>4, <2>5, <2>6, ZenonT(40)
<1>11. CASE session = made
    <2>1. SumOver([k \in DOMAIN evals |->
                        lambda(evals[k].index, Indices(evals)) * evals[k].point])
             = (base * oprf_key.secret) % P
        <3>1. \A k \in DOMAIN evals : /\ evals[k].index \in Trustees /\ evals[k].point \in Int
                                      /\ Same(evals[k].point, base * share(evals[k].index))
            <4> HIDE DEF D
            <4> QED BY <1>5, <1>6, <1>10, ZenonT(40)
        <3> QED BY <1>4, <1>6, <1>9, <3>1, Combination, ZenonT(40)
    <2>2. \A k \in DOMAIN evals :
            /\ Valid(evals[k]) /\ evals[k].index \in DOMAIN commits
            /\ ddh_verify(evals[k].proof, base, commits[evals[k].index],
                          evals[k].point, session, evals[k].index)
        <3>1. DOMAIN commits = Trustees
            OBVIOUS
        <3> HIDE DEF D
        <3> QED BY <1>5, <1>6, <1>10, <1>11, <3>1, ZenonT(40) DEF Valid
    <2> QED BY <1>7, <1>9, <1>11, <2>1, <2>2, ZenonT(40) DEF combine_evaluations, Indices
<1>12. CASE session # made
    <2>1. 1 \in D
        BY <1>1, SMTT(30)
    <2>2. ASSUME ddh_verify(evals[1].proof, base, commits[evals[1].index],
                            evals[1].point, session, evals[1].index)
          PROVE  FALSE
        <3>1. PICK i, x, b : i = ids[1] /\ x = share(ids[1]) /\ b = evals[1].point
            BY Zenon
        <3>2. /\ x \in Int /\ b \in Int /\ b = (base * x) % P
              /\ evals[1].proof = ddh_prove(x, base, x, b, made, i, w)
            BY <1>5, <1>10, <2>1, <3>1, ZenonT(40)
        <3>3. PICK pf, a, m : pf = evals[1].proof /\ a = commits[evals[1].index] /\ m = evals[1].index
            BY Zenon
        <3>4. /\ pf = ddh_prove(x, base, x, b, made, i, w)
              /\ ddh_verify(pf, base, a, b, session, m)
            BY <2>2, <3>1, <3>2, <3>3, Zenon
        <3>5. base \in Int
            BY <1>4
        <3>6. made = session
            BY <3>2, <3>4, <3>5, DdhSound
        <3> QED BY <1>12, <3>6, Zenon
    <2> QED BY <1>6, <1>12, <2>1, <2>2, ZenonT(40) DEF combine_evaluations
<1> QED BY <1>11, <1>12, Zenon

(* ---------------------------- the invariant ---------------------------- *)

\* The scheme has the key, whichever commit was wrong.
SchemeInv ==
    scheme = NoScheme \/
        /\ scheme.built = TRUE /\ scheme.session = "mint"
        /\ scheme.commits \in [Trustees -> Field] /\ \A i \in Trustees : scheme.commits[i] # 0
        /\ scheme.public_key = oprf_key.secret /\ oprf_key.secret # 0
        /\ scheme.secret_key \in {-1, oprf_key.secret}

\* A client that waits for evaluations has asked about the blinded point of its
\* commitment.
Prepared(st) ==
    \E o \in Openings, alpha \in Alphas :
        st = [phase |-> "prepared", opening |-> o, alpha |-> alpha, commitment |-> commitment(o),
              blinded |-> (o * alpha) % P]

\* Clients.
MintingInv ==
    /\ DOMAIN minting = Mints
    /\ \A m \in Mints : minting[m].phase = "prepared" => scheme.built /\ Prepared(minting[m])

\* The tokens that finalize has returned carry the evaluation of their commitment.
Minted(tk) ==
    \E w \in Nonces : tk = SpendToken(tk.commitment, TrueTag(tk.commitment), w, TRUE)

\* Tokens commit to an opening.
TokensInv ==
    \A tk \in tokens :
        /\ scheme.built /\ \E o \in Openings : tk.commitment = commitment(o)
        /\ tk.finalized => Minted(tk)

\* What was redeemed has a tag of its own, the evaluation of its commitment.
RedeemedInv ==
    /\ redeemed \in Seq(tokens)
    /\ \A k \in DOMAIN redeemed : redeemed[k].tag = TrueTag(redeemed[k].commitment)
    /\ \A j, k \in DOMAIN redeemed : redeemed[j].tag = redeemed[k].tag => j = k

SbtInv == KeyShared /\ AskedInv /\ SchemeInv /\ MintingInv /\ TokensInv /\ RedeemedInv

\* The invariant holds at the start.
LEMMA SbtInitInv == ASSUME SbtInit PROVE SbtInv
<1>1. KeyShared
    <2>1. PICK poly \in [1..SbtThreshold -> Coefficients] :
            oprf_key = [secret |-> poly[1], shares |-> [i \in Trustees |-> evaluate_poly(poly, i)]]
        BY Zenon DEF SbtInit
    <2>2. poly \in [1..SbtThreshold -> Field]
        BY TrusteesArePoints, ZenonT(40)
    <2> QED BY <2>1, <2>2, ZenonT(40) DEF KeyShared
<1>2. AskedInv /\ TokensInv /\ RedeemedInv
    BY DEF SbtInit, AskedInv, TokensInv, RedeemedInv
<1>3. SchemeInv
    BY DEF SbtInit, SchemeInv
<1>4. MintingInv
    BY DEF SbtInit, MintingInv, Idle
<1> QED BY <1>1, <1>2, <1>3, <1>4, Zenon DEF SbtInv

\* SbtScheme::new: one of two disjoint quorums has the right commits.
LEMMA AggregateIsKey ==
    ASSUME 2 * SbtThreshold <= Cardinality(Trustees), KeyShared,
           NEW i \in Trustees, NEW y \in Field, NEW expected, NEW secret, NEW session, NEW commits,
           commits = [j \in Trustees |-> IF j = i THEN y ELSE share(j)],
           ConfigAccepted(commits, expected, secret, session)
    PROVE  /\ aggregate_over_quorum(commits, 1..SbtThreshold) = oprf_key.secret
           /\ oprf_key.secret # 0 /\ secret \in {-1, oprf_key.secret} /\ Long(session)
           /\ commits \in [Trustees -> Field] /\ \A j \in Trustees : commits[j] # 0
<1> DEFINE A == 1..SbtThreshold
           B == (SbtThreshold + 1)..(2 * SbtThreshold)
<1>1. PICK t \in Nat \ {0}, n \in Nat : t = SbtThreshold /\ n = Cardinality(Trustees) /\ 2 * t <= n
    BY TrusteesArePoints, Zenon
<1>2. Trustees = 1..n
    BY <1>1, TrusteesArePoints, Zenon
<1>3. A \in SUBSET Trustees /\ B \in SUBSET Trustees /\ A \cap B = {}
    <2>1. PICK l, u \in Int : l = t + 1 /\ u = 2 * t /\ u <= n
        BY <1>1
    <2>2. A = 1..t /\ B = l..u
        BY <1>1, <2>1, SMTT(30)
    <2>3. t <= n /\ t < l
        BY <1>1, <2>1
    <2>4. (\A x \in 1..t : x \in 1..n) /\ (\A x \in l..u : x \in 1..n /\ x \notin 1..t)
        BY <2>1, <2>3, SMTT(30)
    <2> HIDE DEF A, B
    <2> QED BY <1>2, <2>2, <2>4, Zenon
<1>4. Cardinality(A) = SbtThreshold /\ Cardinality(B) = SbtThreshold
    <2>1. PICK l, u \in Int : l = t + 1 /\ u = 2 * t
        BY <1>1
    <2>2. 1 \in Int /\ t \in Int
        BY <1>1
    <2>3. Cardinality(1..t) = IF 1 > t THEN 0 ELSE t - 1 + 1
        BY <2>2, FS_Interval
    <2>4. Cardinality(l..u) = IF l > u THEN 0 ELSE u - l + 1
        BY <2>1, FS_Interval, SMTT(30)
    <2>5. Cardinality(1..t) = t /\ Cardinality(l..u) = t
        BY <1>1, <2>1, <2>3, <2>4, SMTT(30)
    <2> QED BY <1>1, <2>1, <2>5, Zenon
<1>5. ASSUME NEW S \in SUBSET Trustees, i \notin S, Cardinality(S) = SbtThreshold
      PROVE  aggregate_over_quorum(commits, S) = oprf_key.secret
    <2>1. \A j \in S : commits[j] = share(j)
        BY <1>5
    <2>2. SbtThreshold <= Cardinality(S)
        BY <1>1, <1>5, SMTT(30)
    <2> QED BY <2>1, <2>2, QuorumHasKey, Zenon DEF aggregate_over_quorum
<1>6. DOMAIN commits = Trustees /\ n >= 2 * SbtThreshold
    BY <1>1
<1>7. /\ aggregate_over_quorum(commits, A) = aggregate_over_quorum(commits, B)
      /\ \A j \in Trustees : commits[j] # 0
      /\ aggregate_over_quorum(commits, A) # 0
      /\ secret \in {-1, aggregate_over_quorum(commits, A)} /\ Long(session)
    <2>1. Cardinality(DOMAIN commits) >= 2 * SbtThreshold
        BY <1>1, <1>6
    <2> QED BY <1>6, <2>1, ZenonT(40) DEF ConfigAccepted
<1>8. aggregate_over_quorum(commits, A) = oprf_key.secret
    <2> HIDE DEF A, B
    <2>1. CASE i \notin A
        BY <1>3, <1>4, <1>5, <2>1, Zenon
    <2>2. CASE i \notin B
        BY <1>3, <1>4, <1>5, <1>7, <2>2, Zenon
    <2> QED BY <1>3, <2>1, <2>2, SMTT(30)
<1>9. commits \in [Trustees -> Field]
    BY SharesInField, Zenon
<1> QED BY <1>7, <1>8, <1>9, Zenon

\* What is not built, and what is not waiting.
LEMMA Nothings == NoScheme.built = FALSE /\ Idle.phase # "prepared" /\ Finished.phase # "prepared"
BY DEF NoScheme, Idle, Finished

\* What is known about a scheme that was built.
LEMMA Built == ASSUME SchemeInv, scheme.built PROVE
        /\ scheme # NoScheme /\ scheme.session = "mint"
        /\ scheme.commits \in [Trustees -> Field] /\ \A i \in Trustees : scheme.commits[i] # 0
        /\ scheme.public_key = oprf_key.secret /\ oprf_key.secret # 0
        /\ scheme.secret_key \in {-1, oprf_key.secret}
BY Nothings, Zenon DEF SchemeInv

\* SbtScheme::new keeps the invariant.
LEMMA NewInv ==
    ASSUME 2 * SbtThreshold <= Cardinality(Trustees), SbtInv, SbtNew PROVE SbtInv'
<1>1. PICK i \in Trustees, y \in Field, expected, secret \in Field \cup {-1}, session \in {"mint", "short"} :
        /\ ConfigAccepted([j \in Trustees |-> IF j = i THEN y ELSE share(j)], expected, secret, session)
        /\ scheme' = [built |-> TRUE, commits |-> [j \in Trustees |-> IF j = i THEN y ELSE share(j)],
                      session |-> session, secret_key |-> secret,
                      public_key |-> aggregate_over_quorum(
                            [j \in Trustees |-> IF j = i THEN y ELSE share(j)], 1..SbtThreshold)]
    BY ZenonT(40) DEF SbtNew
<1>2. /\ scheme = NoScheme /\ oprf_key' = oprf_key /\ minting' = minting /\ tokens' = tokens
      /\ asked' = asked /\ redeemed' = redeemed
    BY Zenon DEF SbtNew
<1>3. PICK commits : commits = [j \in Trustees |-> IF j = i THEN y ELSE share(j)]
    BY Zenon
<1>4. PICK agg : agg = aggregate_over_quorum(commits, 1..SbtThreshold)
    BY ZenonT(40)
<1>5. /\ agg = oprf_key.secret
      /\ oprf_key.secret # 0 /\ secret \in {-1, oprf_key.secret} /\ Long(session)
      /\ commits \in [Trustees -> Field] /\ \A j \in Trustees : commits[j] # 0
    BY <1>1, <1>3, <1>4, AggregateIsKey, SMTT(30) DEF SbtInv
<1>6. scheme' = [built |-> TRUE, commits |-> commits, session |-> session, secret_key |-> secret,
                 public_key |-> agg]
    BY <1>1, <1>3, <1>4, ZenonT(40)
<1>7. PICK s : s = scheme'
    OBVIOUS
<1>8. /\ s.built = TRUE /\ s.commits = commits /\ s.session = session /\ s.secret_key = secret
      /\ s.public_key = agg
    BY <1>6, <1>7, Zenon
<1>9. session = "mint"
    BY <1>5, Zenon DEF Long
<1>10. SchemeInv'
    BY <1>2, <1>5, <1>7, <1>8, <1>9, ZenonT(40) DEF SchemeInv
<1>11. tokens = {} /\ \A m \in Mints : minting[m].phase # "prepared"
    BY <1>2, Nothings, ZenonT(40) DEF SbtInv, TokensInv, MintingInv
<1>12. MintingInv' /\ TokensInv'
    BY <1>2, <1>11, ZenonT(40) DEF SbtInv, MintingInv, TokensInv
<1>13. KeyShared' /\ AskedInv' /\ RedeemedInv'
    BY <1>2, ZenonT(40) DEF SbtInv, KeyShared, AskedInv, RedeemedInv, TrueTag
<1> QED BY <1>10, <1>12, <1>13 DEF SbtInv

\* What does not change keeps its part of the invariant.
LEMMA SbtKept ==
    ASSUME SbtInv, oprf_key' = oprf_key, scheme' = scheme
    PROVE  /\ KeyShared' /\ SchemeInv'
           /\ asked' = asked => AskedInv'
           /\ minting' = minting => MintingInv'
           /\ tokens' = tokens => TokensInv'
           /\ redeemed' = redeemed /\ tokens \subseteq tokens' => RedeemedInv'
           /\ \A tk : Minted(tk) => Minted(tk)'
           /\ \A c : TrueTag(c)' = TrueTag(c)
<1>1. KeyShared' /\ SchemeInv' /\ (asked' = asked => AskedInv')
    BY ZenonT(40) DEF SbtInv, KeyShared, SchemeInv, AskedInv
<1>2. minting' = minting => MintingInv'
    BY Zenon DEF SbtInv, MintingInv
<1>3. (\A tk : Minted(tk) => Minted(tk)') /\ \A c : TrueTag(c)' = TrueTag(c)
    BY Zenon DEF Minted, SpendToken, TrueTag
<1>4. tokens' = tokens => TokensInv'
    BY <1>3, Zenon DEF SbtInv, TokensInv
<1>5. redeemed' = redeemed /\ tokens \subseteq tokens' => RedeemedInv'
    BY DEF SbtInv, RedeemedInv, TrueTag
<1> QED BY <1>1, <1>2, <1>3, <1>4, <1>5, Zenon

\* A commitment to an opening, and the point that it hashes to.
LEMMA CommitmentIs ==
    ASSUME NEW o \in Openings
    PROVE  /\ hash_to_curve(commitment(o)) = o /\ o \in Int /\ o \in Field /\ o # 0
           /\ ~Same(o, 0) /\ commitment(o)[2] \in Int /\ commitment(o)[1] = o
<1>1. o \in Int /\ o \in Field /\ ~Same(o, 0)
    BY TrusteesArePoints, Zenon
<1>2. o # 0 /\ (o + 1) % P \in Int
    BY <1>1, ModType, SMTT(30) DEF Same
<1> QED BY <1>1, <1>2 DEF commitment, hash_to_curve

\* prepare keeps the invariant.
LEMMA PrepareInv == ASSUME SbtInv, NEW m \in Mints, prepare(m) PROVE SbtInv'
<1>1. PICK o \in Openings, alpha \in Alphas :
        /\ minting' = [minting EXCEPT ![m] =
              [phase |-> "prepared", opening |-> o, alpha |-> alpha, commitment |-> commitment(o),
               blinded |-> (hash_to_curve(commitment(o)) * alpha) % P]]
        /\ asked' = asked \cup {<<(hash_to_curve(commitment(o)) * alpha) % P, scheme.session>>}
    BY ZenonT(40) DEF prepare
<1>2. /\ scheme.built /\ oprf_key' = oprf_key /\ scheme' = scheme /\ tokens' = tokens
      /\ redeemed' = redeemed
    BY Zenon DEF prepare
<1>3. PICK b \in Int : b = (hash_to_curve(commitment(o)) * alpha) % P /\ b = (o * alpha) % P
    <2>1. hash_to_curve(commitment(o)) = o /\ o \in Int /\ alpha \in Int
        BY CommitmentIs, TrusteesArePoints, Zenon
    <2>2. o * alpha \in Int
        BY <2>1, TimesInt, ZenonT(40)
    <2> QED BY <2>1, <2>2, ModType, SMTT(30)
<1>4. AskedInv'
    BY <1>1, <1>3 DEF SbtInv, AskedInv
<1>5. PICK st : st = [phase |-> "prepared", opening |-> o, alpha |-> alpha,
                      commitment |-> commitment(o), blinded |-> b]
    BY Zenon
<1>6. Prepared(st)
    BY <1>3, <1>5, ZenonT(40) DEF Prepared
<1>7. minting' = [minting EXCEPT ![m] = st]
    BY <1>1, <1>3, <1>5, ZenonT(40)
<1>8. MintingInv'
    <2>1. DOMAIN minting' = Mints /\ \A k \in Mints : minting'[k] = IF k = m THEN st ELSE minting[k]
        BY <1>7, SMTT(30) DEF SbtInv, MintingInv
    <2>2. ASSUME NEW k \in Mints, minting'[k].phase = "prepared" PROVE Prepared(minting'[k])
        BY <1>6, <2>1, <2>2, Zenon DEF SbtInv, MintingInv
    <2>3. \A k \in Mints : Prepared(minting[k])' <=> Prepared(minting'[k])
        BY Zenon DEF Prepared
    <2> QED BY <1>2, <2>1, <2>2, <2>3, Zenon DEF MintingInv
<1> QED BY <1>2, <1>4, <1>8, SbtKept, Zenon DEF SbtInv

\* unblind takes the blinding factor out again.
LEMMA Unblinding ==
    ASSUME KeyShared, NEW o \in Openings, NEW alpha \in Alphas, NEW b, b = (o * alpha) % P,
           NEW bk, bk = (b * oprf_key.secret) % P
    PROVE  unblind(alpha, bk) = TrueTag(commitment(o))
<1>1. /\ o \in Int /\ hash_to_curve(commitment(o)) = o
      /\ alpha \in Int /\ ~Same(alpha, 0)
    BY CommitmentIs, TrusteesArePoints, Zenon
<1>2. oprf_key.secret \in Int
    <2>1. SbtThreshold <= Cardinality(Trustees) /\ Trustees \in SUBSET Trustees
        BY TrusteesArePoints, Zenon
    <2>2. PICK y : y = [i \in Trustees |-> share(i)]
        BY ZenonT(40)
    <2> QED BY <2>1, <2>2, QuorumHasKey, SMTT(30)
<1>3. PICK s, c, v \in Int : /\ s = oprf_key.secret /\ c = invert(alpha) /\ v = o * alpha
                             /\ Same(alpha * c, 1)
    <2>1. o * alpha \in Int
        BY <1>1, TimesInt, ZenonT(40)
    <2> QED BY <1>1, <1>2, <2>1, InverseTimes, Zenon
<1>4. b \in Int /\ Same(b, v)
    BY <1>3, ModType, SameMod, Zenon
<1>5. PICK d, g, u \in Int : d = b * s /\ g = v * s /\ u = o * s
    BY <1>1, <1>4, TimesInt, ZenonT(40)
<1>6. bk \in Int /\ Same(bk, d)
    BY <1>3, <1>5, ModType, SameMod, Zenon
<1>7. Same(d, g)
    <2>1. Same(s, s)
        BY DEF Same
    <2> QED BY <1>4, <1>5, <2>1, SameTimes, Zenon
<1>8. Same(c * bk, c * g)
    <2>1. Same(c, c) /\ Same(bk, g)
        BY <1>6, <1>7, Zenon DEF Same
    <2> QED BY <1>6, <2>1, SameTimes, Zenon
<1>9. PICK k \in Int : k = alpha * c
    BY <1>1, TimesInt, ZenonT(40)
<1>10. c * g = k * u
    BY <1>1, <1>3, <1>5, <1>9, SMTT(30)
<1>11. Same(k * u, 1 * u)
    <2>1. Same(u, u) /\ Same(k, 1) /\ 1 \in Int
        BY <1>3, <1>9, SMTT(30) DEF Same
    <2> QED BY <2>1, SameTimes, Zenon
<1>12. 1 * u = u
    OBVIOUS
<1>13. (c * bk) % P = u % P
    BY <1>8, <1>10, <1>11, <1>12, ZenonT(40) DEF Same
<1> QED BY <1>1, <1>3, <1>5, <1>13, ZenonT(40) DEF unblind, TrueTag

\* The fields of a token.
LEMMA TokenFields ==
    ASSUME NEW c, NEW tag, NEW w, NEW f, NEW tk, tk = SpendToken(c, tag, w, f)
    PROVE  /\ tk.commitment = c /\ tk.tag = tag /\ tk.session = scheme.session
           /\ tk.finalized = f /\ DOMAIN tk = {"commitment", "tag", "session", "proof", "finalized"}
           /\ tk.proof = token_prove(c, tag, scheme.session, scheme.public_key, w)
<1>1. PICK s, pf : s = scheme.session /\ pf = token_prove(c, tag, scheme.session, scheme.public_key, w)
    BY Zenon
<1>2. tk = [commitment |-> c, tag |-> tag, session |-> s, proof |-> pf, finalized |-> f]
    BY <1>1, ZenonT(40) DEF SpendToken
<1>3. /\ tk.commitment = c /\ tk.tag = tag /\ tk.session = s
      /\ tk.finalized = f /\ tk.proof = pf
    BY <1>2
<1>4. DOMAIN tk = {"commitment", "tag", "session", "proof", "finalized"}
    BY <1>2
<1> QED BY <1>1, <1>3, <1>4, Zenon

\* A token is added.
LEMMA TokenAdded ==
    ASSUME SbtInv, oprf_key' = oprf_key, scheme' = scheme, redeemed' = redeemed,
           NEW tk, tokens' = tokens \cup {tk}, scheme.built,
           NEW o \in Openings, tk.commitment = commitment(o), tk.finalized => Minted(tk)
    PROVE  TokensInv' /\ RedeemedInv'
<1>1. RedeemedInv'
    BY SbtKept, Zenon
<1>2. \A t : Minted(t) => Minted(t)'
    BY SbtKept, Zenon
<1> QED BY <1>1, <1>2, Zenon DEF SbtInv, TokensInv

\* finalize keeps the invariant.
LEMMA FinalizeInv == ASSUME SbtInv, NEW m \in Mints, finalize(m) PROVE SbtInv'
<1>1. /\ minting[m].phase = "prepared" /\ minting' = [minting EXCEPT ![m] = Finished]
      /\ oprf_key' = oprf_key /\ scheme' = scheme /\ asked' = asked /\ redeemed' = redeemed
    BY Zenon DEF finalize
<1>2. KeyShared /\ AskedInv /\ scheme.built /\ Prepared(minting[m])
    BY <1>1, Zenon DEF SbtInv, MintingInv
<1>3. MintingInv'
    <2>1. DOMAIN minting' = Mints /\ \A k \in Mints : minting'[k] = IF k = m THEN Finished ELSE minting[k]
        BY <1>1, SMTT(30) DEF SbtInv, MintingInv
    <2>2. ASSUME NEW k \in Mints, minting'[k].phase = "prepared" PROVE Prepared(minting'[k])
        BY <2>1, <2>2, Nothings, Zenon DEF SbtInv, MintingInv
    <2>3. \A k \in Mints : Prepared(minting[k])' <=> Prepared(minting'[k])
        BY Zenon DEF Prepared
    <2> QED BY <1>1, <1>2, <2>1, <2>2, <2>3, Zenon DEF MintingInv
<1> DEFINE Outcome(n, bk) ==
        \/ /\ minting[n].blinded = minting[m].blinded
           /\ unblind(minting[m].alpha, bk) # 0
           /\ \E w \in Nonces : tokens' = tokens \cup
                {SpendToken(minting[m].commitment, unblind(minting[m].alpha, bk), w, TRUE)}
        \/ tokens' = tokens
<1>4. PICK n \in Mints, evals \in Responses :
        Outcome(n, combine_evaluations(scheme.commits, evals, minting[n].blinded, scheme.session))
    BY Zenon DEF finalize
<1>5. PICK bk :
        /\ bk = combine_evaluations(scheme.commits, evals, minting[n].blinded, scheme.session)
        /\ Outcome(n, bk)
    <2> HIDE DEF Outcome
    <2> QED BY <1>4, ZenonT(40)
<1>6. CASE tokens' = tokens
    BY <1>1, <1>3, <1>6, SbtKept, Zenon DEF SbtInv
<1>7. ASSUME minting[n].blinded = minting[m].blinded,
             unblind(minting[m].alpha, bk) # 0,
             NEW w \in Nonces, tokens' = tokens \cup
                    {SpendToken(minting[m].commitment, unblind(minting[m].alpha, bk), w, TRUE)}
      PROVE  SbtInv'
    <2>1. PICK o \in Openings, alpha \in Alphas :
            minting[m] = [phase |-> "prepared", opening |-> o, alpha |-> alpha,
                          commitment |-> commitment(o), blinded |-> (o * alpha) % P]
        BY <1>2, ZenonT(40) DEF Prepared
    <2>2. PICK c, b : c = commitment(o) /\ b = (o * alpha) % P
        BY ZenonT(40)
    <2>3. minting[m].alpha = alpha /\ minting[m].commitment = c /\ minting[m].blinded = b
        <3>1. minting[m] = [phase |-> "prepared", opening |-> o, alpha |-> alpha,
                            commitment |-> c, blinded |-> b]
            BY <2>1, <2>2, ZenonT(40)
        <3>2. PICK st : /\ st = minting[m]
                        /\ st = [phase |-> "prepared", opening |-> o, alpha |-> alpha,
                                 commitment |-> c, blinded |-> b]
            BY <3>1, Zenon
        <3>3. st.alpha = alpha /\ st.commitment = c /\ st.blinded = b
            BY <3>2
        <3> QED BY <3>2, <3>3, Zenon
    <2>4. bk # 0
        <3>1. SUFFICES ASSUME bk = 0 PROVE unblind(alpha, bk) = 0
            BY <1>7, <2>3, ZenonT(40)
        <3>2. PICK v \in Int : v = invert(alpha)
            BY TrusteesArePoints, InverseTimes, ZenonT(40)
        <3>3. v * 0 = 0 /\ 0 % P = 0
            BY PrimeOrder
        <3> QED BY <3>1, <3>2, <3>3, ZenonT(40) DEF unblind
    <2>5. bk = (b * oprf_key.secret) % P
        <3>1. bk = combine_evaluations(scheme.commits, evals, b, scheme.session)
            BY <1>5, <1>7, <2>3, ZenonT(40)
        <3> QED BY <1>2, <2>4, <3>1, CombineSound, Zenon
    <2>6. unblind(alpha, bk) = TrueTag(c)
        BY <1>2, <2>2, <2>5, Unblinding, Zenon
    <2>7. PICK tk : tk = SpendToken(c, TrueTag(c), w, TRUE) /\ tokens' = tokens \cup {tk}
        BY <1>7, <2>3, <2>6, ZenonT(40)
    <2>8. tk.commitment = c
        <3>1. PICK f, tag : f = TRUE /\ tag = TrueTag(c)
            BY ZenonT(40)
        <3>2. tk = SpendToken(c, tag, w, f)
            BY <2>7, <3>1, ZenonT(40)
        <3> QED BY <3>2, TokenFields
    <2>9. Minted(tk)
        BY <2>7, <2>8, ZenonT(40) DEF Minted
    <2>10. TokensInv' /\ RedeemedInv'
        BY <1>1, <1>2, <2>2, <2>7, <2>8, <2>9, TokenAdded, ZenonT(40)
    <2> QED BY <1>1, <1>3, <2>10, SbtKept, Zenon DEF SbtInv
<1> QED BY <1>5, <1>6, <1>7, ZenonT(40)

\* A token that is put together without the trustees keeps the invariant.
LEMMA AssembleInv == ASSUME SbtInv, Assemble PROVE SbtInv'
<1>1. PICK o \in Openings, tag, claimed \in Openings \cup Coefficients, w \in Nonces :
        tokens' = tokens \cup {[SpendToken(commitment(o), tag, w, FALSE) EXCEPT !.tag = claimed]}
    BY Zenon DEF Assemble
<1>2. /\ scheme.built /\ oprf_key' = oprf_key /\ scheme' = scheme /\ minting' = minting
      /\ asked' = asked /\ redeemed' = redeemed
    BY DEF Assemble
<1>3. PICK t0 : t0 = SpendToken(commitment(o), tag, w, FALSE)
    BY Zenon
<1>4. PICK tk : tk = [t0 EXCEPT !.tag = claimed]
    BY Zenon
<1>5. tokens' = tokens \cup {tk}
    BY <1>1, <1>3, <1>4, ZenonT(40)
<1>6. PICK f, c : f = FALSE /\ c = commitment(o)
    BY ZenonT(40)
<1>7. t0 = SpendToken(c, tag, w, f)
    BY <1>3, <1>6, ZenonT(40)
<1>8. /\ t0.commitment = c /\ t0.finalized = f
      /\ DOMAIN t0 = {"commitment", "tag", "session", "proof", "finalized"}
    BY <1>7, TokenFields
<1>9. tk.commitment = c /\ tk.finalized = f
    BY <1>4, <1>8, SMTT(30)
<1>10. TokensInv' /\ RedeemedInv'
    BY <1>2, <1>5, <1>6, <1>9, TokenAdded, Zenon
<1> QED BY <1>2, <1>10, SbtKept, Zenon DEF SbtInv

\* evaluate_for_spend keeps the invariant.
LEMMA SpendAsked == ASSUME SbtInv, NEW tk \in tokens, evaluate_for_spend(tk) PROVE SbtInv'
<1>1. /\ asked' = asked \cup {<<hash_to_curve(tk.commitment), "spend">>}
      /\ oprf_key' = oprf_key /\ scheme' = scheme /\ minting' = minting
      /\ tokens' = tokens /\ redeemed' = redeemed
    BY DEF evaluate_for_spend
<1>2. PICK o \in Openings : tk.commitment = commitment(o)
    BY DEF SbtInv, TokensInv
<1>3. hash_to_curve(tk.commitment) \in Int
    BY <1>2, CommitmentIs, Zenon
<1>4. AskedInv'
    BY <1>1, <1>3, SMTT(30) DEF SbtInv, AskedInv
<1> QED BY <1>1, <1>4, SbtKept, Zenon DEF SbtInv

\* verify_and_redeem keeps the invariant, whatever the trustees have sent.
LEMMA RedeemInv == ASSUME SbtInv, NEW tk \in tokens, Redeem(tk) PROVE SbtInv'
<1>1. /\ \A k \in DOMAIN redeemed : redeemed[k].tag # tk.tag
      /\ redeemed' = Append(redeemed, tk)
      /\ oprf_key' = oprf_key /\ scheme' = scheme /\ minting' = minting
      /\ tokens' = tokens /\ asked' = asked
    BY Zenon DEF Redeem, sbt_nullifier
<1>2. scheme.built /\ KeyShared /\ AskedInv /\ SchemeInv
    BY DEF SbtInv, TokensInv
<1>3. tk.tag = TrueTag(tk.commitment)
    <2>1. CASE verify_token(tk)
        <3>1. scheme.secret_key = oprf_key.secret
            BY <1>2, <2>1, Built, Zenon DEF verify_token
        <3> QED BY <2>1, <3>1, ZenonT(40) DEF verify_token, verify_tag_with_secret_key, TrueTag
    <2>2. ASSUME NEW session, NEW evals \in Responses, verify_tag_threshold(tk, evals, session)
          PROVE  tk.tag = TrueTag(tk.commitment)
        <3>1. tk.tag # 0 /\ tk.tag = combine_evaluations(scheme.commits, evals,
                                        hash_to_curve(tk.commitment), session)
            BY <2>2, Zenon DEF verify_tag_threshold, Structural
        <3> QED BY <1>2, <3>1, CombineSound, SMTT(30) DEF TrueTag
    <2>3. \/ verify_token(tk)
          \/ \E session \in Sessions, evals \in Responses : verify_tag_threshold(tk, evals, session)
        BY ZenonT(40) DEF Redeem
    <2> QED BY <2>1, <2>2, <2>3, SMTT(30)
<1>4. PICK n \in Nat : n = Len(redeemed) /\ DOMAIN redeemed = 1..n
    BY Lengths DEF SbtInv, RedeemedInv
<1>5. /\ redeemed' \in Seq(tokens') /\ DOMAIN redeemed' = 1..(n + 1)
      /\ \A k \in 1..n : redeemed'[k] = redeemed[k]
      /\ redeemed'[n + 1] = tk
    <2>1. redeemed \in Seq(tokens)
        BY DEF SbtInv, RedeemedInv
    <2> QED BY <1>1, <1>4, <2>1, Appending
<1>6. \A k \in 1..(n + 1) : k \in 1..n \/ k = n + 1
    BY SMTT(30)
<1>7. \A k \in DOMAIN redeemed' : redeemed'[k].tag = TrueTag(redeemed'[k].commitment)
    BY <1>3, <1>4, <1>5, <1>6, Zenon DEF SbtInv, RedeemedInv
<1>8. \A j, k \in DOMAIN redeemed' : redeemed'[j].tag = redeemed'[k].tag => j = k
    BY <1>1, <1>4, <1>5, <1>6, SMTT(30) DEF SbtInv, RedeemedInv
<1>9. RedeemedInv'
    BY <1>1, <1>5, <1>7, <1>8, Zenon DEF RedeemedInv, TrueTag
<1> QED BY <1>1, <1>9, SbtKept, Zenon DEF SbtInv

(* ------------------------------ spending ------------------------------ *)

\* The content of a token's transcript, with the statement replaced.
RestatedToken(r, ctx, y, c, tag) ==
    [r EXCEPT !.ctx = ctx, !.y = y, !.c = c, !.p = hash_to_curve(c), !.tag = tag]

\* The proof of the client that knows the opening verifies.
LEMMA TokenVerifies ==
    ASSUME NEW o \in Openings, NEW c, c = commitment(o), NEW tag, tag # 0, NEW y, y # 0,
           NEW w \in Nonces, NEW ctx
    PROVE  c # <<0, 0>> /\ token_verify(token_prove(c, tag, ctx, y, w), c, tag, ctx, y)
<1>1. PICK p : p = hash_to_curve(c) /\ p # 0 /\ c # <<0, 0>>
    BY CommitmentIs, Zenon DEF commitment, hash_to_curve
<1>2. w # 0
    BY TrusteesArePoints, Zenon DEF Same
<1>3. PICK e : e = challenge_scalar(y, tag, w)
    BY ZenonT(40)
<1>4. PICK r, z : /\ r = [ctx |-> ctx, y |-> y, c |-> c, p |-> p, tag |-> tag, t |-> w]
                  /\ z = <<(w + e * c[1]) % P, (w + e * c[2]) % P>>
    BY ZenonT(40)
<1>5. PICK pf : pf = token_prove(c, tag, ctx, y, w) /\ pf = [content |-> r, z |-> z]
    BY <1>1, <1>3, <1>4, ZenonT(40) DEF token_prove
<1>6. pf.content = r /\ pf.z = z
    BY <1>5
<1>7. RestatedToken(r, ctx, y, c, tag) = r
    <2>1. /\ [r EXCEPT !.ctx = ctx] = r /\ [r EXCEPT !.y = y] = r /\ [r EXCEPT !.c = c] = r
          /\ [r EXCEPT !.p = p] = r /\ [r EXCEPT !.tag = tag] = r
        BY <1>4, SMTT(30)
    <2> QED BY <1>1, <2>1, ZenonT(40) DEF RestatedToken
<1>8. r.t = w
    BY <1>4, Zenon
<1>9. \A k \in 1..2 : z[k] = (w + e * c[k]) % P
    <2>1. z[1] = (w + e * c[1]) % P /\ z[2] = (w + e * c[2]) % P
        BY <1>4, Zenon
    <2>2. \A k \in 1..2 : k = 1 \/ k = 2
        OBVIOUS
    <2> QED BY <2>1, <2>2, ZenonT(40)
<1>10. PICK n : n = RestatedToken(r, ctx, y, c, tag) /\ n = r
    BY <1>7, Zenon
<1>11. 0 \notin {hash_to_curve(c), tag, y, n.t}
    BY <1>1, <1>2, <1>8, <1>10, Zenon
<1>12. token_verify(pf, c, tag, ctx, y)
    <2>1. /\ n = pf.content
          /\ \A k \in 1..2 : pf.z[k] = (n.t + challenge_scalar(y, tag, n.t) * c[k]) % P
        BY <1>3, <1>6, <1>8, <1>9, <1>10, ZenonT(40)
    <2>2. n = RestatedToken(pf.content, ctx, y, c, tag)
        BY <1>6, <1>10, ZenonT(40)
    <2> QED BY <1>1, <1>11, <2>1, <2>2, ZenonT(40) DEF token_verify, RestatedToken
<1> QED BY <1>1, <1>5, <1>12, Zenon

\* What is known about a finalized token.
LEMMA FinalizedToken ==
    ASSUME SbtInv, NEW tk \in tokens, tk.finalized
    PROVE  /\ scheme.built /\ tk.tag = TrueTag(tk.commitment) /\ tk.session = "mint"
           /\ hash_to_curve(tk.commitment) \in Field /\ hash_to_curve(tk.commitment) # 0
           /\ Structural(tk) /\ verify_client_proof(tk)
<1>1. PICK o \in Openings : tk.commitment = commitment(o)
    BY Zenon DEF SbtInv, TokensInv
<1>2. PICK w \in Nonces : tk = SpendToken(tk.commitment, TrueTag(tk.commitment), w, TRUE)
    BY Zenon DEF SbtInv, TokensInv, Minted
<1>3. PICK c, tag, f : c = tk.commitment /\ tag = TrueTag(tk.commitment) /\ f = TRUE
    BY Zenon
<1>4. tk = SpendToken(c, tag, w, f)
    BY <1>2, <1>3, Zenon
<1>5. /\ tk.tag = tag /\ tk.session = scheme.session
      /\ tk.proof = token_prove(c, tag, scheme.session, scheme.public_key, w)
    BY <1>4, TokenFields
<1>6. scheme.built /\ scheme.session = "mint" /\ scheme.public_key = oprf_key.secret
      /\ oprf_key.secret # 0 /\ KeyShared
    BY Built, Zenon DEF SbtInv, TokensInv
<1>7. hash_to_curve(c) = o /\ o \in Field /\ o \in Int /\ o # 0 /\ ~Same(o, 0)
    BY <1>1, <1>3, CommitmentIs, ZenonT(40)
<1>8. tag # 0
    <2>1. oprf_key.secret \in Field /\ oprf_key.secret \in Int
        <3>1. SbtThreshold <= Cardinality(Trustees) /\ Trustees \in SUBSET Trustees
            BY TrusteesArePoints, Zenon
        <3>2. PICK y : y = [i \in Trustees |-> share(i)]
            BY ZenonT(40)
        <3> QED BY <1>6, <3>1, <3>2, QuorumHasKey, SMTT(30)
    <2>2. 0 \in Field /\ 0 \in Int /\ 0 % P = 0
        BY PrimeOrder DEF Field
    <2>3. ~Same(oprf_key.secret, 0)
        BY <1>6, <2>1, <2>2, SameField, Zenon
    <2>4. ~Same(o * oprf_key.secret, 0)
        BY <1>7, <2>1, <2>3, NoZeroDivisors, Zenon
    <2>5. tag = (o * oprf_key.secret) % P
        BY <1>3, <1>7, Zenon DEF TrueTag
    <2> QED BY <2>2, <2>4, <2>5, SMTT(30) DEF Same
<1>9. /\ c # <<0, 0>>
      /\ token_verify(tk.proof, c, tag, scheme.session, scheme.public_key)
    <2>1. PICK ctx, y : ctx = scheme.session /\ y = scheme.public_key
        BY ZenonT(40)
    <2>2. c # <<0, 0>> /\ token_verify(token_prove(c, tag, ctx, y, w), c, tag, ctx, y)
        BY <1>1, <1>3, <1>6, <1>8, <2>1, TokenVerifies, Zenon
    <2> QED BY <1>5, <2>1, <2>2, ZenonT(40)
<1>10. Structural(tk)
    BY <1>3, <1>5, <1>6, <1>8, <1>9, ZenonT(40) DEF Structural, Long
<1>11. verify_client_proof(tk)
    BY <1>3, <1>5, <1>9, <1>10, ZenonT(40) DEF verify_client_proof
<1> QED BY <1>3, <1>5, <1>6, <1>7, <1>10, <1>11, Zenon

\* What is needed to spend a token that was finalized is in the invariant.
LEMMA SpendableInv == ASSUME SbtInv PROVE FinalizedIsSpendable
<1> SUFFICES ASSUME NEW tk \in tokens, tk.finalized
             PROVE  /\ verify_token(tk) <=> scheme.secret_key # -1
                    /\ \A ids \in Injection(1..SbtThreshold,
                                   {i \in Trustees \ Rogue : scheme.commits[i] = share(i)}),
                          w \in Nonces, made, session \in Sessions :
                         verify_tag_threshold(tk, [k \in 1..SbtThreshold |->
                             CHOOSE e \in evaluate_server(ids[k], share(ids[k]), share(ids[k]),
                                 hash_to_curve(tk.commitment), made, w) : TRUE], session)
                           <=> made = session /\ session = "spend"
    BY ZenonT(40) DEF FinalizedIsSpendable
<1>1. /\ scheme.built /\ tk.tag = TrueTag(tk.commitment) /\ tk.session = "mint"
      /\ hash_to_curve(tk.commitment) \in Field /\ hash_to_curve(tk.commitment) # 0
      /\ Structural(tk) /\ verify_client_proof(tk)
    BY FinalizedToken, Zenon
<1>2. /\ scheme.session = "mint" /\ KeyShared
      /\ scheme.commits \in [Trustees -> Field] /\ \A i \in Trustees : scheme.commits[i] # 0
      /\ scheme.secret_key \in {-1, oprf_key.secret}
    BY <1>1, Built, Zenon DEF SbtInv
<1>3. verify_token(tk) <=> scheme.secret_key # -1
    BY <1>1, <1>2, ZenonT(40) DEF verify_token, verify_tag_with_secret_key, TrueTag
<1>4. ASSUME NEW ids \in Injection(1..SbtThreshold,
                     {i \in Trustees \ Rogue : scheme.commits[i] = share(i)}),
             NEW w \in Nonces, NEW made \in Sessions, NEW session \in Sessions, NEW evals,
             Honestly(evals, ids, hash_to_curve(tk.commitment), made, w)
      PROVE  verify_tag_threshold(tk, evals, session) <=> made = session /\ session = "spend"
    <2>1. PICK commits, base, S :
            /\ commits = scheme.commits /\ base = hash_to_curve(tk.commitment)
            /\ S = {i \in Trustees \ Rogue : scheme.commits[i] = share(i)}
        BY ZenonT(40)
    <2>2. /\ S \in SUBSET Trustees /\ \A i \in S : commits[i] = share(i)
          /\ ids \in Injection(1..SbtThreshold, S) /\ base \in Field /\ base # 0
          /\ commits \in [Trustees -> Field] /\ \A i \in Trustees : commits[i] # 0
          /\ Honestly(evals, ids, base, made, w)
        BY <1>1, <1>2, <1>4, <2>1, ZenonT(40)
    <2>3. Answering(commits, S, ids, base)
        BY <2>2, Zenon DEF Answering
    <2>4. Answered(commits, evals, base, made)
        BY <2>2, <2>3, Zenon DEF Answered
    <2>5. combine_evaluations(commits, evals, base, session)
            = IF session = made THEN (base * oprf_key.secret) % P ELSE 0
        <3>1. KeyShared
            BY <1>2, Zenon
        <3> QED BY <2>4, <3>1, CombineComplete, Zenon
    <2>6. combine_evaluations(commits, evals, base, session) = tk.tag <=> session = made
        <3>1. tk.tag = (base * oprf_key.secret) % P /\ tk.tag # 0
            BY <1>1, <2>1, Zenon DEF TrueTag, Structural
        <3> QED BY <2>5, <3>1, Zenon
    <2>7. Long(session) /\ session # scheme.session <=> session = "spend"
        BY <1>2, Zenon DEF Sessions, Long
    <2> QED BY <1>1, <2>1, <2>6, <2>7, ZenonT(40) DEF verify_tag_threshold
<1>5. ASSUME NEW ids \in Injection(1..SbtThreshold,
                     {i \in Trustees \ Rogue : scheme.commits[i] = share(i)}),
             NEW w \in Nonces, NEW made \in Sessions, NEW session \in Sessions
      PROVE  verify_tag_threshold(tk, [k \in 1..SbtThreshold |->
                 CHOOSE e \in evaluate_server(ids[k], share(ids[k]), share(ids[k]),
                     hash_to_curve(tk.commitment), made, w) : TRUE], session)
               <=> made = session /\ session = "spend"
    <2>1. PICK evals : evals = [k \in 1..SbtThreshold |->
                 CHOOSE e \in evaluate_server(ids[k], share(ids[k]), share(ids[k]),
                     hash_to_curve(tk.commitment), made, w) : TRUE]
        BY Zenon
    <2>2. Honestly(evals, ids, hash_to_curve(tk.commitment), made, w)
        BY <2>1, ZenonT(40) DEF Honestly
    <2>3. verify_tag_threshold(tk, evals, session) <=> made = session /\ session = "spend"
        BY <1>4, <2>2, ZenonT(40)
    <2> QED BY <2>1, <2>3, ZenonT(40)
<1> QED BY <1>3, <1>5, ZenonT(40)

\* Every step keeps the invariant.
LEMMA SbtNextInv ==
    ASSUME 2 * SbtThreshold <= Cardinality(Trustees), SbtInv, [SbtNext]_sbtVars PROVE SbtInv'
<1>1. CASE UNCHANGED sbtVars
    BY <1>1, SbtKept, Zenon DEF sbtVars, SbtInv
<1> QED BY <1>1, NewInv, PrepareInv, FinalizeInv, AssembleInv, SpendAsked, RedeemInv, Zenon DEF SbtNext

\* It always holds, once SbtScheme::new has two disjoint quorums to compare.
LEMMA SbtInvariant ==
    ASSUME 2 * SbtThreshold <= Cardinality(Trustees) PROVE SbtSpec => []SbtInv
BY SbtInitInv, SbtNextInv, PTL DEF SbtSpec

\* The public key of an SbtScheme is that of the shared key, although one commit in
\* its configuration may be wrong, and the tag of a token that finalize returns is
\* the evaluation of its commitment under that key, whatever rogue trustees send.
\* For every number of trustees that has room for two disjoint quorums: only then
\* SbtScheme::new finds a wrong commit by itself.
THEOREM TagIsEvaluationHolds ==
    ASSUME 2 * SbtThreshold <= Cardinality(Trustees) PROVE SbtSpec => []TagIsEvaluation
<1>1. ASSUME SbtInv PROVE TagIsEvaluation
    <2>1. scheme.built => scheme.public_key = oprf_key.secret
        BY <1>1, Built, Zenon DEF SbtInv
    <2>2. \A tk \in tokens : tk.finalized => tk.tag = TrueTag(tk.commitment)
        BY <1>1, FinalizedToken, Zenon
    <2> QED BY <2>1, <2>2, Zenon DEF TagIsEvaluation
<1> QED BY <1>1, SbtInvariant, PTL

\* A verifier with a spent set redeems at most one token for a tag, and so for a
\* payload, however often tokens are finalized or put together.
THEOREM RedeemedOncePerPayloadHolds ==
    ASSUME 2 * SbtThreshold <= Cardinality(Trustees) PROVE SbtSpec => []RedeemedOncePerPayload
<1>1. SbtInv => RedeemedOncePerPayload
    BY Zenon DEF SbtInv, RedeemedInv, RedeemedOncePerPayload
<1> QED BY <1>1, SbtInvariant, PTL

\* A token that finalize returned passes verify_and_redeem with the evaluations of
\* any quorum of trustees that are honest and whose commit is right, in any order,
\* under the session of the spend alone.
THEOREM FinalizedIsSpendableHolds ==
    ASSUME 2 * SbtThreshold <= Cardinality(Trustees) PROVE SbtSpec => []FinalizedIsSpendable
BY SpendableInv, SbtInvariant, PTL
=============================================================================
