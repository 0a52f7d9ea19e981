---------------------------- MODULE DeviceProofs ----------------------------
(***************************************************************************)
(* What two devices and their wallets keep.  Handshake: for any number of  *)
(* sessions of any identities, classical and hybrid, whose reads may       *)
(* return what any session wrote.  The wallet files of specter-cli: for    *)
(* every number of users, processes and invocations.                       *)
(***************************************************************************)
EXTENDS Handshake, Cli, FiniteSums, SequenceTheorems, TLAPS

-----------------------------------------------------------------------------
(* Wallets *)

Token == [id : Nat, mint : Int, value : Nat, count : Nat, secret : BOOLEAN,
          expired : BOOLEAN]

\* A token that is added to a wallet.
LEMMA TokensAppend ==
    ASSUME NEW s \in Seq(Token), NEW t \in Token
    PROVE  /\ Append(s, t) \in Seq(Token)
           /\ TokensIn(Append(s, t)) = TokensIn(s) \cup {t.id}
<1> DEFINE r == Append(s, t)
<1> HIDE DEF Token
<1>1. /\ r \in Seq(Token) /\ Len(r) = Len(s) + 1
      /\ \A i \in 1..Len(s) : r[i] = s[i]
      /\ r[Len(s) + 1] = t
    BY AppendProperties
<1>2. DOMAIN s = 1..Len(s) /\ DOMAIN r = 1..(Len(s) + 1) /\ Len(s) \in Nat
    BY <1>1, LenProperties
<1> HIDE DEF r
<1>3. TokensIn(r) \subseteq TokensIn(s) \cup {t.id}
    <2> SUFFICES ASSUME NEW i \in DOMAIN r PROVE r[i].id \in TokensIn(s) \cup {t.id}
        BY DEF TokensIn
    <2>1. i \in 1..Len(s) \/ i = Len(s) + 1
        BY <1>2
    <2> QED BY <1>1, <1>2, <2>1 DEF TokensIn
<1>4. TokensIn(s) \subseteq TokensIn(r)
    <2> SUFFICES ASSUME NEW i \in DOMAIN s PROVE s[i].id \in TokensIn(r)
        BY DEF TokensIn
    <2>1. i \in DOMAIN r /\ r[i] = s[i]
        BY <1>1, <1>2
    <2> QED BY <2>1 DEF TokensIn
<1>5. t.id \in TokensIn(r)
    <2>1. Len(s) + 1 \in DOMAIN r
        BY <1>2
    <2> QED BY <1>1, <2>1 DEF TokensIn
<1> QED BY <1>1, <1>3, <1>4, <1>5 DEF r

\* Removing a token leaves all the others.
LEMMA TokensRemove ==
    ASSUME NEW s \in Seq(Token), NEW i \in DOMAIN s
    PROVE  /\ Without(s, i) \in Seq(Token)
           /\ TokensIn(s) \subseteq TokensIn(Without(s, i)) \cup {s[i].id}
<1> DEFINE n == Len(s)
           a == SubSeq(s, 1, i - 1)
           b == SubSeq(s, i + 1, n)
           r == Without(s, i)
<1> HIDE DEF Token
<1>1. n \in Nat /\ DOMAIN s = 1..n /\ i \in 1..n
    BY LenProperties
<1>2. /\ a \in Seq(Token) /\ Len(a) = i - 1
      /\ \A j \in 1..(i - 1) : a[j] = s[j]
    <2>1. 1 \in 1..(n + 1) /\ i - 1 \in (1 - 1)..n
        BY <1>1
    <2> QED BY <1>1, <2>1, SubSeqProperties
<1>3. /\ b \in Seq(Token) /\ Len(b) = n - i
      /\ \A j \in 1..(n - i) : b[j] = s[i + j]
    <2>1. PICK m \in Int : m = i + 1 /\ m \in 1..(n + 1) /\ n \in (m - 1)..n
        BY <1>1
    <2>2. /\ SubSeq(s, m, n) \in Seq(Token) /\ Len(SubSeq(s, m, n)) = n - m + 1
          /\ \A j \in 1..(n - m + 1) : SubSeq(s, m, n)[j] = s[m + j - 1]
        BY <2>1, SubSeqProperties
    <2>3. n - m + 1 = n - i /\ \A j \in 1..(n - i) : m + j - 1 = i + j
        BY <1>1, <2>1
    <2> QED BY <2>1, <2>2, <2>3, Zenon
<1>4. r = a \o b
    BY DEF Without
<1> HIDE DEF n, a, b, r
<1>5. /\ r \in Seq(Token) /\ Len(r) = Len(a) + Len(b)
      /\ \A j \in 1..Len(r) : r[j] = IF j <= Len(a) THEN a[j] ELSE b[j - Len(a)]
    <2>1. /\ a \o b \in Seq(Token) /\ Len(a \o b) = Len(a) + Len(b)
          /\ \A j \in 1..(Len(a) + Len(b)) :
                (a \o b)[j] = IF j <= Len(a) THEN a[j] ELSE b[j - Len(a)]
        BY <1>2, <1>3, ConcatProperties, ZenonT(40)
    <2> QED BY <1>4, <2>1
<1>6. DOMAIN r = 1..(n - 1) /\ Len(r) = n - 1
    BY <1>1, <1>2, <1>3, <1>5, LenProperties
<1>7. ASSUME NEW j \in DOMAIN s, j # i PROVE s[j].id \in TokensIn(r)
    <2>1. CASE j < i
        <3>1. j \in DOMAIN r /\ j <= Len(a)
            BY <1>1, <1>2, <1>6, <2>1
        <3>2. r[j] = s[j]
            BY <1>1, <1>2, <1>5, <1>6, <2>1, <3>1, SMTT(30)
        <3> QED BY <3>1, <3>2 DEF TokensIn
    <2>2. CASE j > i
        <3>1. j - 1 \in DOMAIN r /\ ~(j - 1 <= Len(a)) /\ j - i \in 1..(n - i)
            BY <1>1, <1>2, <1>6, <2>2, SMTT(30)
        <3>2. r[j - 1] = b[(j - 1) - Len(a)]
            BY <1>5, <1>6, <3>1, Zenon
        <3>3. (j - 1) - Len(a) = j - i /\ i + (j - i) = j
            BY <1>1, <1>2
        <3>4. r[j - 1] = s[j]
            BY <1>3, <3>1, <3>2, <3>3
        <3> QED BY <3>1, <3>4 DEF TokensIn
    <2> QED BY <1>1, <1>7, <2>1, <2>2
<1>8. TokensIn(s) \subseteq TokensIn(r) \cup {s[i].id}
    BY <1>7 DEF TokensIn
<1> QED BY <1>5, <1>8 DEF r

\* take_token finds one of the tokens.
LEMMA TakeIndexIn ==
    ASSUME NEW s \in Seq(Token), TakeIndex(s) # 0
    PROVE  TakeIndex(s) \in DOMAIN s
<1> DEFINE ok == {i \in DOMAIN s : s[i].value >= 1 /\ ~needs_renewal(s[i])}
           best == {i \in ok : \A j \in ok : s[i].value <= s[j].value}
           V == {s[i].value : i \in ok}
<1>1. TakeIndex(s) = Min(best) /\ ok # {}
    BY DEF TakeIndex
<1>2. DOMAIN s \subseteq Nat /\ \A i \in DOMAIN s : s[i].value \in Nat
    <2> DEFINE T == Token
    <2>1. s \in Seq(T) /\ \A t \in T : t.value \in Nat
        BY DEF Token
    <2> HIDE DEF T
    <2>2. DOMAIN s = 1..Len(s) /\ \A i \in DOMAIN s : s[i] \in T
        BY <2>1, LenProperties
    <2> QED BY <2>1, <2>2
<1>3. V \subseteq Nat /\ V # {}
    BY <1>1, <1>2
<1>4. PICK m \in V : \A n \in V : m <= n
    <2> HIDE DEF V
    <2> QED BY <1>3, Smallest, ZenonT(40)
<1>5. best # {} /\ best \subseteq Nat /\ best \subseteq DOMAIN s
    BY <1>2, <1>4
<1> HIDE DEF best
<1>6. \E x \in best : \A y \in best : x <= y
    BY <1>5, Smallest, Zenon
<1>7. Min(best) \in best
    BY <1>6, SMTT(30) DEF Min
<1> QED BY <1>1, <1>5, <1>7, ZenonT(40)

-----------------------------------------------------------------------------
(* The files and the processes *)

SavedWallet == [is : {"saved"}, pass : Passphrases, tokens : Seq(Token)]

CommandNames ==
    {"setup", "mint", "balance", "transfer", "send", "receive", "save", "load"}

Running == [phase : {"saving", "writing", "shown", "sending", "listening"},
            user : Users, cmd : CommandNames, pass : Passphrases, tokens : Seq(Token),
            taken : Seq(Token), stale : BOOLEAN]

CliType ==
    /\ persistent \in BOOLEAN /\ runs \in Nat
    /\ DOMAIN wallet_file = Users /\ DOMAIN process = Processes
    /\ \A u \in Users : wallet_file[u] \in {Missing, Torn} \cup SavedWallet
    /\ \A p \in Processes : process[p] \in {Ended} \cup Running
    /\ stream \subseteq Token

\* What is on file was completely written.
FileIsSaved ==
    \A u \in Users : wallet_file[u].is = "saved" => <<u, wallet_file[u]>> \in saves

\* The process p will empty the file of u, and nobody has written it since p
\* loaded it.
Emptying(p, u) ==
    process[p].phase = "saving" /\ process[p].user = u /\ ~process[p].stale

\* The token k has a loss with a cause, is on its way, in a process that will
\* write it, or in a file that no process is going to empty before it notices
\* that others have written it.  What a process that sends or shows has loaded
\* does not count: it may end.
Kept(k) ==
    \/ k \in excused
    \/ \E t \in stream : t.id = k
    \/ \E p \in Processes :
        process[p].phase \in {"saving", "writing"} /\ k \in TokensIn(process[p].tokens)
    \/ \E u \in Users : k \in OnFile(u) /\ \A p \in Processes : ~Emptying(p, u)

SavedIsKept == \A s \in saves : \A k \in TokensIn(s[2].tokens) : Kept(k)

\* A process that sends has taken one token out of the wallet on file.
Sending ==
    \A p \in Processes : process[p].phase = "sending" =>
        /\ Len(process[p].taken) = 1
        /\ ~process[p].stale => OnFile(process[p].user) \subseteq
            TokensIn(process[p].tokens) \cup {process[p].taken[1].id}

\* A process that writes has emptied the file, and nobody has filled it since.
Writing ==
    \A p \in Processes : process[p].phase = "writing" /\ ~process[p].stale =>
        OnFile(process[p].user) = {}

CliInv == CliType /\ FileIsSaved /\ ShownIsSaved /\ SavedIsKept /\ Sending /\ Writing

-----------------------------------------------------------------------------
(* Steps of one process that leave the files alone *)

\* The process p goes on or ends.  Tokens that leave the stream, or that p had to
\* write, are with p now or have an excuse, and if p is going to empty a file
\* then so are those on file.
Advances(p) ==
    LET r == process'[p]
        covered == excused' \cup {t.id : t \in stream'} \cup
                   (IF r.phase = "saving" THEN TokensIn(r.tokens) ELSE {})
    IN  /\ UNCHANGED <<persistent, wallet_file, saves>> /\ runs' \in Nat
        /\ DOMAIN process' = Processes
        /\ \A q \in Processes \ {p} : process'[q] = process[q]
        /\ r \in {Ended} \cup Running
        /\ stream' \subseteq Token
        /\ excused \subseteq excused'
        /\ \A t \in stream : t.id \in covered
        /\ process[p].phase \in {"saving", "writing"} =>
            TokensIn(process[p].tokens) \subseteq excused'
        /\ r.phase = "saving" /\ ~r.stale => OnFile(r.user) \subseteq covered
        /\ r.phase = "shown" /\ r.tokens # <<>> =>
            \E s \in saves : s[1] = r.user /\ s[2].pass = r.pass /\ s[2].tokens = r.tokens
        /\ r.phase = "sending" =>
            /\ Len(r.taken) = 1
            /\ ~r.stale => OnFile(r.user) \subseteq TokensIn(r.tokens) \cup {r.taken[1].id}
        /\ r.phase # "writing"

\* A token that had a place has one after p has advanced.
LEMMA AdvancesKeeps ==
    ASSUME CliInv, NEW p \in Processes, Advances(p), NEW k, Kept(k)
    PROVE  Kept(k)'
<1> DEFINE r == process'[p]
           covered == excused' \cup {t.id : t \in stream'} \cup
                      (IF r.phase = "saving" THEN TokensIn(r.tokens) ELSE {})
<1>1. /\ wallet_file' = wallet_file
      /\ \A q \in Processes \ {p} : process'[q] = process[q]
      /\ excused \subseteq excused'
      /\ \A t \in stream : t.id \in covered
      /\ process[p].phase \in {"saving", "writing"} =>
            TokensIn(process[p].tokens) \subseteq excused'
      /\ r.phase = "saving" /\ ~r.stale => OnFile(r.user) \subseteq covered
    BY DEF Advances
<1>2. ASSUME k \in covered PROVE Kept(k)'
    BY <1>2, SMTT(30) DEF Kept
<1> HIDE DEF r, covered
<1>3. CASE k \in excused
    BY <1>1, <1>3, SMTT(30) DEF Kept
<1>4. CASE \E t \in stream : t.id = k
    BY <1>1, <1>2, <1>4
<1>5. CASE \E q \in Processes :
            process[q].phase \in {"saving", "writing"} /\ k \in TokensIn(process[q].tokens)
    <2> PICK q \in Processes :
            process[q].phase \in {"saving", "writing"} /\ k \in TokensIn(process[q].tokens)
        BY <1>5, SMTT(30)
    <2>1. CASE q = p
        BY <1>1, <2>1, SMTT(30) DEF Kept
    <2>2. CASE q # p
        <3>1. process'[q] = process[q]
            BY <1>1, <2>2
        <3> QED BY <3>1, SMTT(30) DEF Kept
    <2> QED BY <2>1, <2>2
<1>6. CASE \E u \in Users : k \in OnFile(u) /\ \A q \in Processes : ~Emptying(q, u)
    <2> PICK u \in Users : k \in OnFile(u) /\ \A q \in Processes : ~Emptying(q, u)
        BY <1>6, SMTT(30)
    <2>1. CASE r.phase = "saving" /\ r.user = u /\ ~r.stale
        BY <1>1, <1>2, <2>1
    <2>2. CASE ~(r.phase = "saving" /\ r.user = u /\ ~r.stale)
        <3>1. \A q \in Processes : ~Emptying(q, u)'
            BY <1>1, <2>2, SMTT(30) DEF Emptying, r
        <3>2. OnFile(u)' = OnFile(u)
            BY <1>1 DEF OnFile
        <3> QED BY <3>1, <3>2, SMTT(30) DEF Kept
    <2> QED BY <2>1, <2>2
<1> QED BY <1>3, <1>4, <1>5, <1>6, SMTT(30) DEF Kept

\* So every command that only works in memory keeps the invariant.
LEMMA AdvancesInv ==
    ASSUME CliInv, NEW p \in Processes, Advances(p)
    PROVE  CliInv'
<1>1. /\ UNCHANGED <<persistent, wallet_file, saves>>
      /\ \A q \in Processes \ {p} : process'[q] = process[q]
      /\ \A u : OnFile(u)' = OnFile(u)
    BY SMTT(30) DEF Advances, OnFile
<1>2. CliType'
    BY <1>1 DEF CliInv, CliType, Advances
<1>3. FileIsSaved'
    BY <1>1, SMTT(30) DEF CliInv, FileIsSaved
<1>4. ShownIsSaved'
    <2> SUFFICES ASSUME NEW q \in Processes, process'[q].phase = "shown",
                        process'[q].tokens # <<>>
                 PROVE  \E s \in saves : /\ s[1] = process'[q].user
                                         /\ s[2].pass = process'[q].pass
                                         /\ s[2].tokens = process'[q].tokens
        BY <1>1, SMTT(30) DEF ShownIsSaved
    <2>1. CASE q = p
        BY <2>1 DEF Advances
    <2>2. CASE q # p
        BY <1>1, <2>2, SMTT(30) DEF CliInv, ShownIsSaved
    <2> QED BY <2>1, <2>2, SMTT(30)
<1>5. SavedIsKept'
    <2>1. \A k : Kept(k) => Kept(k)'
        BY AdvancesKeeps
    <2> QED BY <1>1, <2>1 DEF CliInv, SavedIsKept
<1>6. Sending'
    <2> SUFFICES ASSUME NEW q \in Processes, process'[q].phase = "sending"
                 PROVE  /\ Len(process'[q].taken) = 1
                        /\ ~process'[q].stale => OnFile(process'[q].user) \subseteq
                             TokensIn(process'[q].tokens) \cup {process'[q].taken[1].id}
        BY <1>1, SMTT(30) DEF Sending, OnFile
    <2>1. CASE q = p
        BY <2>1, SMTT(30) DEF Advances
    <2>2. CASE q # p
        BY <1>1, <2>2, SMTT(30) DEF CliInv, Sending
    <2> QED BY <2>1, <2>2, SMTT(30)
<1>7. Writing'
    <2> SUFFICES ASSUME NEW q \in Processes, process'[q].phase = "writing",
                        ~process'[q].stale
                 PROVE  OnFile(process'[q].user) = {}
        BY <1>1, SMTT(30) DEF Writing, OnFile
    <2>1. q # p
        BY DEF Advances
    <2> QED BY <1>1, <2>1, SMTT(30) DEF CliInv, Writing
<1> QED BY <1>2, <1>3, <1>4, <1>5, <1>6, <1>7, SMTT(30) DEF CliInv

\* load_or_create_wallet returns a wallet whatever is on file.
LEMMA LoadedIsWallet ==
    ASSUME CliInv, NEW u \in Users, NEW pass, NEW mint
    PROVE  load_or_create_wallet(wallet_file[u], pass, mint) \in Seq(Token)
<1> DEFINE f == wallet_file[u]
<1>1. f \in {Missing, Torn} \cup SavedWallet
    BY DEF CliInv, CliType
<1>2. f.is = "saved" => f.tokens \in Seq(Token)
    BY <1>1 DEF Missing, Torn, SavedWallet
<1>3. <<>> \in Seq(Token)
    OBVIOUS
<1> QED BY <1>2, <1>3, ZenonT(40) DEF load_or_create_wallet, wallet_load, decrypt

\* A wallet that is not empty is the one on file.
LEMMA LoadedIsOnFile ==
    ASSUME CliInv, NEW u \in Users, NEW pass, NEW mint,
           load_or_create_wallet(wallet_file[u], pass, mint) # <<>>
    PROVE  /\ wallet_file[u].is = "saved" /\ wallet_file[u].pass = pass
           /\ load_or_create_wallet(wallet_file[u], pass, mint) = wallet_file[u].tokens
           /\ OnFile(u) = TokensIn(load_or_create_wallet(wallet_file[u], pass, mint))
           /\ <<u, wallet_file[u]>> \in saves
BY ZenonT(40) DEF load_or_create_wallet, wallet_load, decrypt, OnFile, CliInv, FileIsSaved

\* A command that goes on after it has loaded its files.
LEMMA GoesOn ==
    ASSUME CliInv, NEW p \in Processes, NEW u \in Users, NEW cmd \in CommandNames,
           NEW pass \in Passphrases, NEW tokens \in Seq(Token), NEW taken \in Seq(Token),
           NEW phase \in {"saving", "shown", "sending", "listening"},
           Goes(p, u, cmd, pass, phase, tokens, taken)
    PROVE  /\ DOMAIN process' = Processes
           /\ \A q \in Processes \ {p} : process'[q] = process[q]
           /\ process'[p] \in Running
           /\ process'[p].phase = phase /\ process'[p].user = u
           /\ process'[p].pass = pass /\ process'[p].tokens = tokens
           /\ process'[p].taken = taken /\ process'[p].stale = FALSE
<1> DEFINE r == [phase |-> phase, user |-> u, cmd |-> cmd, pass |-> pass,
                 tokens |-> tokens, taken |-> taken, stale |-> FALSE]
<1>1. DOMAIN process = Processes
    BY SMTT(30) DEF CliInv, CliType
<1>2. r \in Running
    BY ZenonT(40) DEF Running
<1>3. /\ r.phase = phase /\ r.user = u /\ r.pass = pass /\ r.tokens = tokens
      /\ r.taken = taken /\ r.stale = FALSE
    OBVIOUS
<1>4. process' = [process EXCEPT ![p] = r]
    BY DEF Goes
<1> HIDE DEF r
<1>5. DOMAIN process' = Processes /\ process'[p] = r /\
      \A q \in Processes \ {p} : process'[q] = process[q]
    BY <1>1, <1>4
<1> QED BY <1>2, <1>3, <1>5

\* A command that has loaded a wallet, to save it with changes.
SavesChanged(p, u, cmd, pass, tokens) ==
    /\ cmd \in CommandNames /\ tokens \in Seq(Token)
    /\ Goes(p, u, cmd, pass, "saving", tokens, <<>>)
    /\ process[p].phase \notin {"saving", "writing"}
    /\ UNCHANGED <<persistent, wallet_file, saves>> /\ runs' \in Nat
    /\ stream' \subseteq stream /\ excused \subseteq excused'
    /\ OnFile(u) \subseteq excused' \cup TokensIn(tokens)
    /\ \A t \in stream : t \in stream' \/ t.id \in TokensIn(tokens)

\* A command that is about to save has all that is on file, but for what has a
\* cause to be lost.
LEMMA SavesChangedInv ==
    ASSUME CliInv, NEW p \in Processes, NEW u \in Users, NEW cmd,
           NEW pass \in Passphrases, NEW tokens, SavesChanged(p, u, cmd, pass, tokens)
    PROVE  CliInv'
<1> DEFINE r == process'[p]
<1>1. <<>> \in Seq(Token)
    OBVIOUS
<1>2. /\ DOMAIN process' = Processes
      /\ \A q \in Processes \ {p} : process'[q] = process[q]
      /\ r \in Running
      /\ r.phase = "saving" /\ r.user = u /\ r.tokens = tokens
    BY <1>1, GoesOn, ZenonT(40) DEF SavesChanged
<1>3. stream' \subseteq Token
    BY SMTT(30) DEF CliInv, CliType, SavesChanged
<1>4. Advances(p)
    BY <1>2, <1>3, Zenon DEF Advances, SavesChanged
<1> QED BY <1>4, AdvancesInv

\* A process ends, and what only it had has an excuse.
LEMMA EndsInv ==
    ASSUME CliInv, NEW p \in Processes, process' = [process EXCEPT ![p] = Ended],
           UNCHANGED <<persistent, wallet_file, saves, runs>>, stream' \subseteq Token,
           excused \subseteq excused',
           \A t \in stream : t \in stream' \/ t.id \in excused',
           process[p].phase \in {"saving", "writing"} =>
                TokensIn(process[p].tokens) \subseteq excused'
    PROVE  CliInv'
<1>1. /\ DOMAIN process' = Processes
      /\ \A q \in Processes \ {p} : process'[q] = process[q]
      /\ process'[p] = Ended
      /\ runs' \in Nat
    BY DEF CliInv, CliType
<1>2. process'[p].phase = "ended"
    BY <1>1, SMTT(30) DEF Ended
<1>3. Advances(p)
    BY <1>1, <1>2 DEF Advances
<1> QED BY <1>3, AdvancesInv

\* setup does not look at the wallet on file, whose loss has that cause.
LEMMA CliSetup ==
    ASSUME CliInv, NEW p \in Processes, NEW u \in Users, NEW pass \in Passphrases,
           cmd_setup(p, u, pass)
    PROVE  CliInv'
<1>1. runs' \in Nat
    BY DEF cmd_setup, Invoke, CliInv, CliType
<1>2. <<>> \in Seq(Token)
    OBVIOUS
<1>3. SavesChanged(p, u, "setup", pass, <<>>)
    BY <1>1, <1>2 DEF cmd_setup, Invoke, Ended, SavesChanged, CommandNames
<1> QED BY <1>3, SavesChangedInv

\* save writes what it loaded.
LEMMA CliSave ==
    ASSUME CliInv, NEW p \in Processes, NEW u \in Users, NEW pass \in Passphrases,
           cmd_save(p, u, pass)
    PROVE  CliInv'
<1> DEFINE w == load_or_create_wallet(wallet_file[u], pass, default_mint)
<1>1. runs' \in Nat
    BY DEF cmd_save, Invoke, CliInv, CliType
<1>2. w \in Seq(Token)
    BY LoadedIsWallet, SMTT(30)
<1>3. SavesChanged(p, u, "save", pass, w)
    BY <1>1, <1>2 DEF cmd_save, Invoke, Ended, Unloaded, SavesChanged, CommandNames
<1> HIDE DEF w
<1> QED BY <1>3, SavesChangedInv

\* mint adds a token to the wallet that it loaded.
LEMMA CliMint ==
    ASSUME CliInv, NEW p \in Processes, NEW u \in Users, NEW pass \in Passphrases,
           cmd_mint(p, u, pass)
    PROVE  CliInv'
<1> DEFINE w == load_or_create_wallet(wallet_file[u], pass, default_mint)
<1>1. PICK value \in 1..2 :
        Goes(p, u, "mint", pass, "saving",
             Append(w, Issued(runs + 1, default_mint, value)), <<>>)
    BY DEF cmd_mint
<1> DEFINE t == Issued(runs + 1, default_mint, value)
           v == Append(w, t)
<1>2. runs' \in Nat /\ runs \in Nat
    BY DEF cmd_mint, Invoke, CliInv, CliType
<1>3. w \in Seq(Token)
    BY LoadedIsWallet, SMTT(30)
<1>4. t \in Token
    BY <1>2 DEF Issued, default_mint, Token
<1>5. v \in Seq(Token) /\ TokensIn(v) = TokensIn(w) \cup {t.id}
    <2> HIDE DEF w, t
    <2> QED BY <1>3, <1>4, TokensAppend, SMTT(30)
<1>6. SavesChanged(p, u, "mint", pass, v)
    <2>1. /\ process[p].phase = "ended"
          /\ UNCHANGED <<persistent, wallet_file, saves>> /\ stream' = stream
          /\ excused' = excused \cup (OnFile(u) \ TokensIn(w))
        BY DEF cmd_mint, Invoke, Ended, Unloaded
    <2> HIDE DEF w, t
    <2>2. Goes(p, u, "mint", pass, "saving", v, <<>>)
        BY <1>1 DEF t
    <2> HIDE DEF v
    <2> QED BY <1>2, <1>5, <2>1, <2>2, SMTT(30) DEF SavesChanged, CommandNames
<1> HIDE DEF v
<1> QED BY <1>6, SavesChangedInv

\* transfer puts the new version of a token in the place of the old one.
LEMMA CliTransfer ==
    ASSUME CliInv, NEW p \in Processes, NEW u \in Users, NEW pass \in Passphrases,
           cmd_transfer(p, u, pass)
    PROVE  CliInv'
<1> DEFINE w == load_or_create_wallet(wallet_file[u], pass, default_mint)
           i == TakeIndex(w)
           t == [w[i] EXCEPT !.count = @ + 1]
           v == Append(Without(w, i), t)
<1>1. /\ process[p].phase = "ended"
      /\ UNCHANGED <<persistent, wallet_file, saves>> /\ stream' = stream
      /\ excused' = excused \cup (OnFile(u) \ TokensIn(w))
      /\ Goes(p, u, "transfer", pass, "saving", v, <<>>)
      /\ i # 0
    BY DEF cmd_transfer, Invoke, Ended, Unloaded
<1>2. runs' \in Nat
    BY SMTT(30) DEF cmd_transfer, Invoke, CliInv, CliType
<1>3. w \in Seq(Token)
    BY LoadedIsWallet
<1> HIDE DEF w
<1>4. i \in DOMAIN w
    BY <1>1, <1>3, TakeIndexIn
<1> HIDE DEF i
<1>5. w[i] \in Token
    BY <1>3, <1>4
<1>6. t \in Token /\ t.id = w[i].id
    BY <1>5 DEF Token
<1> HIDE DEF t
<1>7. /\ Without(w, i) \in Seq(Token)
      /\ TokensIn(w) \subseteq TokensIn(Without(w, i)) \cup {w[i].id}
    BY <1>3, <1>4, TokensRemove, SMTT(30)
<1>8. v \in Seq(Token) /\ TokensIn(v) = TokensIn(Without(w, i)) \cup {t.id}
    BY <1>6, <1>7, TokensAppend, SMTT(30)
<1> HIDE DEF v
<1>9. TokensIn(w) \subseteq TokensIn(v)
    BY <1>6, <1>7, <1>8, SMTT(30)
<1>10. SavesChanged(p, u, "transfer", pass, v)
    BY <1>1, <1>2, <1>8, <1>9 DEF SavesChanged, CommandNames
<1> QED BY <1>10, SavesChangedInv, SMTT(30)

\* balance and load only show a wallet.
LEMMA CliShow ==
    ASSUME CliInv, NEW p \in Processes, NEW u \in Users, NEW pass \in Passphrases,
           NEW cmd \in CommandNames, ShowWallet(p, u, pass, cmd)
    PROVE  CliInv'
<1> DEFINE w == load_or_create_wallet(wallet_file[u], pass, default_mint)
           r == process'[p]
<1>1. /\ process[p].phase = "ended"
      /\ UNCHANGED <<persistent, wallet_file, saves, excused>> /\ stream' = stream
      /\ Goes(p, u, cmd, pass, "shown", w, <<>>)
    BY DEF ShowWallet, Invoke, Ended
<1>2. runs' \in Nat /\ stream \subseteq Token
    BY DEF ShowWallet, Invoke, CliInv, CliType
<1>3. w \in Seq(Token) /\ <<>> \in Seq(Token)
    BY LoadedIsWallet, SMTT(30)
<1>4. w # <<>> => \E s \in saves : s[1] = u /\ s[2].pass = pass /\ s[2].tokens = w
    <2> HAVE w # <<>>
    <2>1. /\ wallet_file[u].pass = pass /\ w = wallet_file[u].tokens
          /\ <<u, wallet_file[u]>> \in saves
        BY LoadedIsOnFile, SMTT(30)
    <2> QED BY <2>1, SMTT(30)
<1> HIDE DEF w
<1>5. /\ DOMAIN process' = Processes
      /\ \A q \in Processes \ {p} : process'[q] = process[q]
      /\ r \in Running /\ r.phase = "shown" /\ r.user = u /\ r.pass = pass /\ r.tokens = w
    BY <1>1, <1>3, GoesOn, ZenonT(40)
<1>6. Advances(p)
    BY <1>1, <1>2, <1>4, <1>5, ZenonT(40) DEF Advances
<1> QED BY <1>6, AdvancesInv, SMTT(30)

\* send takes a token out of the wallet and holds it until it is sent.
LEMMA CliSend ==
    ASSUME CliInv, NEW p \in Processes, NEW u \in Users, NEW pass \in Passphrases,
           cmd_send(p, u, pass)
    PROVE  CliInv'
<1> DEFINE w == load_or_create_wallet(wallet_file[u], pass, default_mint)
           i == TakeIndex(w)
           r == process'[p]
<1>1. /\ process[p].phase = "ended" /\ process[p] = Ended
      /\ UNCHANGED <<persistent, wallet_file, saves, excused>> /\ stream' = stream
      /\ IF i = 0 THEN process' = process
         ELSE Goes(p, u, "send", pass, "sending", Without(w, i), <<w[i]>>)
    BY DEF cmd_send, Invoke, Ended
<1>2. runs' \in Nat /\ stream \subseteq Token
    BY DEF cmd_send, Invoke, CliInv, CliType
<1>3. w \in Seq(Token)
    BY LoadedIsWallet
<1>4. CASE i = 0
    <2>1. process' = process /\ DOMAIN process' = Processes
        BY <1>1, <1>4, Zenon DEF CliInv, CliType
    <2> HIDE DEF w, i
    <2>2. Advances(p)
        BY <1>1, <1>2, <2>1, ZenonT(40) DEF Advances
    <2> QED BY <2>2, AdvancesInv, SMTT(30)
<1>5. CASE i # 0
    <2>1. i \in DOMAIN w
        <3> HIDE DEF w
        <3> QED BY <1>3, <1>5, TakeIndexIn
    <2>2. w # <<>>
        <3> HIDE DEF w, i
        <3> QED BY <2>1
    <2>3. OnFile(u) = TokensIn(w)
        BY <2>2, LoadedIsOnFile, ZenonT(40)
    <2> HIDE DEF w, i
    <2>4. w[i] \in Token
        BY <1>3, <2>1
    <2> DEFINE v == Without(w, i)
               one == <<w[i]>>
    <2>5. v \in Seq(Token) /\ TokensIn(w) \subseteq TokensIn(v) \cup {w[i].id}
        BY <1>3, <2>1, TokensRemove
    <2>6. one \in Seq(Token) /\ Len(one) = 1 /\ one[1] = w[i]
        <3> HIDE DEF Token
        <3> QED BY <2>4, SMTT(30)
    <2>7. Goes(p, u, "send", pass, "sending", v, one) /\ "send" \in CommandNames
        BY <1>1, <1>5, Zenon DEF CommandNames
    <2> HIDE DEF v, one
    <2>8. /\ DOMAIN process' = Processes
          /\ \A q \in Processes \ {p} : process'[q] = process[q]
          /\ r \in Running /\ r.phase = "sending" /\ r.user = u
          /\ r.tokens = v /\ r.taken = one
        BY <2>5, <2>6, <2>7, GoesOn, ZenonT(40)
    <2>9. Advances(p)
        BY <1>1, <1>2, <2>3, <2>5, <2>6, <2>8, ZenonT(40) DEF Advances
    <2> QED BY <2>9, AdvancesInv
<1> QED BY <1>4, <1>5, SMTT(30)

\* receive listens before it loads the wallet.
LEMMA CliReceive ==
    ASSUME CliInv, NEW p \in Processes, NEW u \in Users, NEW pass \in Passphrases,
           cmd_receive(p, u, pass)
    PROVE  CliInv'
<1> DEFINE r == process'[p]
<1>1. /\ process[p].phase = "ended"
      /\ UNCHANGED <<persistent, wallet_file, saves, excused>> /\ stream' = stream
      /\ Goes(p, u, "receive", pass, "listening", <<>>, <<>>)
      /\ "receive" \in CommandNames
    BY DEF cmd_receive, Invoke, Ended, CommandNames
<1>2. runs' \in Nat /\ stream \subseteq Token
    BY DEF cmd_receive, Invoke, CliInv, CliType
<1>3. <<>> \in Seq(Token)
    OBVIOUS
<1>4. /\ DOMAIN process' = Processes
      /\ \A q \in Processes \ {p} : process'[q] = process[q]
      /\ r \in Running /\ r.phase = "listening"
    BY <1>1, <1>3, GoesOn, ZenonT(40)
<1>5. Advances(p)
    BY <1>1, <1>2, <1>4, Zenon DEF Advances
<1> QED BY <1>5, AdvancesInv

\* The token that was taken is on its way when the process is to save the rest.
LEMMA CliSent ==
    ASSUME CliInv, NEW p \in Processes, Send(p)
    PROVE  CliInv'
<1> DEFINE o == process[p]
           r == process'[p]
           t == [o.taken[1] EXCEPT !.secret = FALSE]
<1>1. /\ UNCHANGED <<persistent, wallet_file, runs, saves, excused>>
      /\ o.phase = "sending"
      /\ stream' = stream \cup {t}
    BY DEF Send
<1>2. o \in Running
    BY <1>1 DEF CliInv, CliType, Ended
<1>3. o.taken[1] \in Token
    <2>1. o.taken \in Seq(Token) /\ Len(o.taken) = 1
        BY <1>1, <1>2 DEF Running, CliInv, Sending
    <2> HIDE DEF Token, o
    <2> QED BY <2>1, LenProperties
<1>4. t \in Token /\ t.id = o.taken[1].id
    BY <1>3, Zenon DEF Token
<1> DEFINE a == [o EXCEPT !.phase = "saving"]
           b == [a EXCEPT !.taken = <<>>]
<1>5. DOMAIN process = Processes /\ runs' \in Nat /\ stream \subseteq Token
    BY <1>1 DEF CliInv, CliType
<1>6. /\ DOMAIN process' = Processes
      /\ \A q \in Processes \ {p} : process'[q] = process[q]
      /\ r = b
    BY <1>5 DEF Send
<1>7. /\ a \in Running /\ a.phase = "saving" /\ a.user = o.user
      /\ a.tokens = o.tokens /\ a.stale = o.stale
    BY <1>2, Zenon DEF Running
<1>8. <<>> \in Seq(Token)
    OBVIOUS
<1>9. /\ b \in Running /\ b.phase = "saving" /\ b.user = o.user
      /\ b.tokens = o.tokens /\ b.stale = o.stale
    <2> HIDE DEF a
    <2> QED BY <1>7, <1>8, ZenonT(40) DEF Running
<1>10. ~o.stale => OnFile(o.user) \subseteq TokensIn(o.tokens) \cup {o.taken[1].id}
    BY <1>1, Zenon DEF CliInv, Sending
<1> HIDE DEF a, b, t
<1>11. Advances(p)
    BY <1>1, <1>4, <1>5, <1>6, <1>9, <1>10, ZenonT(40) DEF Advances
<1> QED BY <1>11, AdvancesInv

\* A send that fails has not changed the file: the token is still on it.
LEMMA CliSendFails ==
    ASSUME CliInv, NEW p \in Processes, SendFails(p)
    PROVE  CliInv'
<1> DEFINE o == process[p]
           t == [o.taken[1] EXCEPT !.secret = FALSE]
<1>1. /\ UNCHANGED <<persistent, wallet_file, runs, saves, excused>>
      /\ o.phase = "sending" /\ process' = [process EXCEPT ![p] = Ended]
      /\ stream' = stream \/ stream' = stream \cup {t}
    BY DEF SendFails
<1>2. o \in Running /\ stream \subseteq Token
    BY <1>1 DEF CliInv, CliType, Ended
<1>3. o.taken[1] \in Token
    <2>1. o.taken \in Seq(Token) /\ Len(o.taken) = 1
        BY <1>1, <1>2 DEF Running, CliInv, Sending
    <2> HIDE DEF Token, o
    <2> QED BY <2>1, LenProperties
<1>4. t \in Token
    BY <1>3, Zenon DEF Token
<1> HIDE DEF t
<1>5. stream' \subseteq Token /\ \A s \in stream : s \in stream'
    BY <1>1, <1>2, <1>4
<1> QED BY <1>1, <1>5, EndsInv, ZenonT(40)

\* What is received is in the wallet that is saved next.
LEMMA CliReceived ==
    ASSUME CliInv, NEW p \in Processes, NEW t \in stream, Receive(p, t)
    PROVE  CliInv'
<1> DEFINE u == process[p].user
           pass == process[p].pass
           mint == IF persistent THEN 0 ELSE -1
           w == load_or_create_wallet(wallet_file[u], pass, mint)
           v == Append(w, t)
<1>1. /\ process[p].phase = "listening" /\ stream' = stream \ {t}
      /\ UNCHANGED <<persistent, wallet_file, runs, saves>>
    BY DEF Receive
<1>2. process[p] \in Running /\ stream \subseteq Token /\ runs' \in Nat
    BY <1>1 DEF CliInv, CliType, Ended
<1>3. u \in Users /\ pass \in Passphrases
    BY <1>2 DEF Running
<1>4. CASE all_valid(t, mint, FALSE)
    <2>1. /\ Goes(p, u, "receive", pass, "saving", v, <<>>)
          /\ excused' = excused \cup (OnFile(u) \ TokensIn(w))
        BY <1>4, Zenon DEF Receive, Unloaded
    <2>2. w \in Seq(Token)
        <3> HIDE DEF u, pass, mint
        <3> QED BY <1>3, LoadedIsWallet
    <2> HIDE DEF w, u, pass, mint
    <2>3. v \in Seq(Token) /\ TokensIn(v) = TokensIn(w) \cup {t.id}
        BY <1>2, <2>2, TokensAppend, SMTT(30)
    <2> HIDE DEF v
    <2>4. SavesChanged(p, u, "receive", pass, v)
        BY <1>1, <1>2, <2>1, <2>3, Zenon DEF SavesChanged, CommandNames
    <2> QED BY <1>3, <2>4, SavesChangedInv, SMTT(30)
<1>5. CASE ~all_valid(t, mint, FALSE)
    <2>1. process' = [process EXCEPT ![p] = Ended] /\ excused' = excused \cup {t.id}
        BY <1>5 DEF Receive
    <2>2. stream' \subseteq Token /\ \A s \in stream : s \in stream' \/ s.id \in excused'
        BY <1>1, <1>2, <2>1
    <2> QED BY <1>1, <2>1, <2>2, EndsInv, ZenonT(40)
<1> QED BY <1>4, <1>5, ZenonT(40)

\* Another program sends a token, that no file had before.
LEMMA CliPeerSends ==
    ASSUME CliInv, PeerSends
    PROVE  CliInv'
<1>1. /\ stream = {}
      /\ UNCHANGED <<persistent, wallet_file, process, runs, saves, excused>>
    BY DEF PeerSends
<1>2. PICK p \in Processes : process[p].phase = "listening"
    BY DEF PeerSends, Listening
<1>3. PICK late \in BOOLEAN :
        stream' = {[Issued(0, default_mint, 1) EXCEPT !.expired = late]}
    BY DEF PeerSends
<1>4. /\ runs \in Nat /\ DOMAIN process = Processes
      /\ process[p] \in {Ended} \cup Running
    BY DEF CliInv, CliType
<1>5. stream' \subseteq Token
    <2> DEFINE t == Issued(0, default_mint, 1)
    <2>1. default_mint \in Int
        BY <1>4 DEF default_mint
    <2>2. t \in Token
        BY <2>1 DEF Issued, Token
    <2> HIDE DEF t
    <2>3. [t EXCEPT !.expired = late] \in Token
        BY <2>2, SMTT(30) DEF Token
    <2> QED BY <1>3, <2>3 DEF t
<1>6. Advances(p)
    BY <1>1, <1>2, <1>4, <1>5, Zenon DEF Advances
<1> QED BY <1>6, AdvancesInv

\* A process that crashes, or has shown what it had to, ends.
LEMMA CliEnds ==
    ASSUME CliInv, NEW p \in Processes, Crash(p) \/ Shown(p)
    PROVE  CliInv'
<1>1. /\ process' = [process EXCEPT ![p] = Ended]
      /\ UNCHANGED <<persistent, wallet_file, saves, runs>> /\ stream' = stream
      /\ excused \subseteq excused'
      /\ process[p].phase \in {"saving", "writing"} =>
            TokensIn(process[p].tokens) \subseteq excused'
    BY Zenon DEF Crash, Shown
<1>2. stream' \subseteq Token
    BY <1>1 DEF CliInv, CliType
<1> QED BY <1>1, <1>2, EndsInv, ZenonT(40)

\* Nothing happens.
LEMMA CliStutter ==
    ASSUME CliInv, UNCHANGED cliVars
    PROVE  CliInv'
<1>1. UNCHANGED <<persistent, wallet_file, process, stream, runs, saves, excused>>
    BY SMTT(30) DEF cliVars
<1>2. CliType' /\ FileIsSaved' /\ ShownIsSaved'
    BY <1>1, Zenon DEF CliInv, CliType, FileIsSaved, ShownIsSaved
<1>3. \A u : OnFile(u)' = OnFile(u)
    BY <1>1 DEF OnFile
<1>4. \A k : Kept(k)' = Kept(k)
    BY <1>1, <1>3 DEF Kept, Emptying
<1>5. SavedIsKept'
    BY <1>1, <1>4, SMTT(30) DEF CliInv, SavedIsKept
<1>6. Sending' /\ Writing'
    BY <1>1, Zenon DEF CliInv, Sending, Writing, OnFile
<1> QED BY <1>2, <1>5, <1>6 DEF CliInv

-----------------------------------------------------------------------------
(* fs::write *)

\* The wallet is with the process while the file is empty.
LEMMA TruncateKeeps ==
    ASSUME CliInv, NEW p \in Processes, Truncate(p), NEW k, Kept(k)
    PROVE  Kept(k)'
<1> DEFINE u == process[p].user
<1>1. /\ stream' = stream /\ excused \subseteq excused'
      /\ process[p].phase = "saving"
      /\ process[p].stale => OnFile(u) \subseteq excused'
    BY DEF Truncate
<1>2. /\ \A q \in Processes \ {p} : process'[q] = process[q]
      /\ process'[p] = [process[p] EXCEPT !.phase = "writing"]
      /\ \A w \in Users \ {u} : wallet_file'[w] = wallet_file[w]
    BY DEF Truncate, CliInv, CliType
<1>3. process[p] \in Running
    BY <1>1 DEF CliInv, CliType, Ended
<1>4. process'[p].phase = "writing" /\ process'[p].tokens = process[p].tokens
    BY <1>2, <1>3, SMTT(30) DEF Running
<1>5. CASE k \in excused \/ \E t \in stream : t.id = k
    BY <1>1, <1>5, Zenon DEF Kept
<1>6. CASE \E q \in Processes :
            process[q].phase \in {"saving", "writing"} /\ k \in TokensIn(process[q].tokens)
    <2> PICK q \in Processes :
            process[q].phase \in {"saving", "writing"} /\ k \in TokensIn(process[q].tokens)
        BY <1>6
    <2>1. process'[q].phase \in {"saving", "writing"} /\ k \in TokensIn(process'[q].tokens)
        BY <1>2, <1>4, ZenonT(40)
    <2> QED BY <2>1, Zenon DEF Kept
<1>7. CASE \E w \in Users : k \in OnFile(w) /\ \A q \in Processes : ~Emptying(q, w)
    <2> PICK w \in Users : k \in OnFile(w) /\ \A q \in Processes : ~Emptying(q, w)
        BY <1>7, SMTT(30)
    <2>1. CASE w = u
        <3>1. process[p].stale
            BY <1>1, <2>1, SMTT(30) DEF Emptying
        <3> QED BY <1>1, <2>1, <3>1, Zenon DEF Kept
    <2>2. CASE w # u
        <3>1. OnFile(w)' = OnFile(w)
            BY <1>2, <2>2 DEF OnFile
        <3>2. \A q \in Processes : ~Emptying(q, w)'
            BY <1>2, <1>4, ZenonT(40) DEF Emptying
        <3> QED BY <3>1, <3>2, Zenon DEF Kept
    <2> QED BY <2>1, <2>2
<1> QED BY <1>5, <1>6, <1>7, Zenon DEF Kept

\* fs::write empties the file first.
LEMMA CliTruncate ==
    ASSUME CliInv, NEW p \in Processes, Truncate(p)
    PROVE  CliInv'
<1> DEFINE u == process[p].user
<1>1. UNCHANGED <<persistent, stream, runs, saves>> /\ process[p].phase = "saving"
    BY SMTT(30) DEF Truncate
<1>2. process[p] \in Running /\ u \in Users
    BY <1>1 DEF CliInv, CliType, Ended, Running
<1>3. /\ DOMAIN process' = Processes /\ DOMAIN wallet_file' = Users
      /\ \A q \in Processes \ {p} : process'[q] = process[q]
      /\ process'[p] = [process[p] EXCEPT !.phase = "writing"]
      /\ \A w \in Users \ {u} : wallet_file'[w] = wallet_file[w]
      /\ wallet_file'[u] = Torn
    BY <1>2 DEF Truncate, CliInv, CliType
<1>4. /\ process'[p] \in Running /\ process'[p].phase = "writing"
      /\ process'[p].user = u
    BY <1>2, <1>3 DEF Running
<1>5. \A w \in Users : OnFile(w)' = IF w = u THEN {} ELSE OnFile(w)
    BY <1>3 DEF OnFile, Torn
<1>6. CliType'
    BY <1>1, <1>3, <1>4 DEF CliInv, CliType
<1>7. FileIsSaved'
    BY <1>1, <1>3, SMTT(30) DEF CliInv, FileIsSaved, Torn
<1>8. ShownIsSaved'
    <2> SUFFICES ASSUME NEW q \in Processes, process'[q].phase = "shown",
                        process'[q].tokens # <<>>
                 PROVE  \E s \in saves : /\ s[1] = process'[q].user
                                         /\ s[2].pass = process'[q].pass
                                         /\ s[2].tokens = process'[q].tokens
        BY <1>1, SMTT(30) DEF ShownIsSaved
    <2>1. q # p
        BY <1>4
    <2>2. process'[q] = process[q]
        BY <1>3, <2>1, SMTT(30)
    <2> QED BY <2>2, SMTT(30) DEF CliInv, ShownIsSaved
<1>9. SavedIsKept'
    BY <1>1, TruncateKeeps, Zenon DEF CliInv, SavedIsKept
<1>10. \A q \in Processes : process[q] # Ended => process[q].user \in Users
    BY SMTT(30) DEF CliInv, CliType, Running
<1>11. Sending'
    <2> SUFFICES ASSUME NEW q \in Processes, process'[q].phase = "sending"
                 PROVE  /\ Len(process'[q].taken) = 1
                        /\ ~process'[q].stale => OnFile(process[q].user)' \subseteq
                             TokensIn(process'[q].tokens) \cup {process'[q].taken[1].id}
        BY SMTT(30) DEF Sending
    <2>1. q # p
        BY <1>4
    <2>2. process'[q] = process[q] /\ process[q] # Ended
        BY <1>3, <2>1, SMTT(30) DEF Ended
    <2>3. OnFile(process[q].user)' \subseteq OnFile(process[q].user)
        BY <1>5, <1>10, <2>2 DEF OnFile
    <2> QED BY <2>2, <2>3, Zenon DEF CliInv, Sending
<1>12. Writing'
    <2> SUFFICES ASSUME NEW q \in Processes, process'[q].phase = "writing",
                        ~process'[q].stale
                 PROVE  OnFile(process[q].user)' = {}
        BY DEF Writing
    <2>1. CASE q = p
        <3>1. wallet_file'[process'[q].user] = Torn
            BY <1>3, <1>4, <2>1, ZenonT(40)
        <3>2. Torn.is # "saved"
            BY DEF Torn
        <3> QED BY <3>1, <3>2 DEF OnFile
    <2>2. CASE q # p
        <3>1. process'[q] = process[q] /\ process[q] # Ended
            BY <1>3, <2>2, SMTT(30) DEF Ended
        <3>2. OnFile(process[q].user)' \subseteq OnFile(process[q].user)
            BY <1>5, <1>10, <3>1 DEF OnFile
        <3> QED BY <3>1, <3>2 DEF CliInv, Writing
    <2> QED BY <2>1, <2>2, Zenon
<1> QED BY <1>6, <1>7, <1>8, <1>9, <1>11, <1>12, SMTT(30) DEF CliInv

\* What write leaves of the processes: p has ended, and the others of the user
\* work with an old wallet.
LEMMA WriteMarks ==
    ASSUME CliInv, NEW p \in Processes, Write(p)
    PROVE  /\ process[p] \in Running /\ process[p].user \in Users
           /\ DOMAIN process' = Processes /\ process'[p] = Ended
           /\ \A q \in Processes \ {p} :
                \/ /\ process[q] = Ended \/ process[q].user # process[p].user
                   /\ process'[q] = process[q]
                \/ /\ process[q].user = process[p].user
                   /\ process[q] \in Running /\ process'[q] \in Running
                   /\ process'[q].stale
                   /\ process'[q].phase = process[q].phase
                   /\ process'[q].user = process[q].user
                   /\ process'[q].pass = process[q].pass
                   /\ process'[q].tokens = process[q].tokens
                   /\ process'[q].taken = process[q].taken
<1>1. process[p].phase = "writing"
    BY SMTT(30) DEF Write
<1>2. process[p] \in Running /\ process[p].user \in Users
    BY <1>1 DEF CliInv, CliType, Ended, Running
<1>3. DOMAIN process' = Processes /\ process'[p] = Ended
    BY DEF Write
<1>4. ASSUME NEW q \in Processes \ {p}
      PROVE  \/ /\ process[q] = Ended \/ process[q].user # process[p].user
                /\ process'[q] = process[q]
             \/ /\ process[q].user = process[p].user
                /\ process[q] # Ended
                /\ process'[q] = [process[q] EXCEPT !.stale = TRUE]
    BY DEF Write
<1>5. \A r \in Running : LET x == [r EXCEPT !.stale = TRUE] IN
        /\ x \in Running /\ x.stale /\ x.phase = r.phase /\ x.user = r.user
        /\ x.pass = r.pass /\ x.tokens = r.tokens /\ x.taken = r.taken
    BY ZenonT(40) DEF Running
<1>6. \A q \in Processes : process[q] # Ended => process[q] \in Running
    BY DEF CliInv, CliType
<1>7. ASSUME NEW q \in Processes \ {p}, process[q].user = process[p].user,
             process[q] # Ended, process'[q] = [process[q] EXCEPT !.stale = TRUE]
      PROVE  /\ process[q] \in Running /\ process'[q] \in Running
             /\ process'[q].stale
             /\ process'[q].phase = process[q].phase
             /\ process'[q].user = process[q].user
             /\ process'[q].pass = process[q].pass
             /\ process'[q].tokens = process[q].tokens
             /\ process'[q].taken = process[q].taken
    BY <1>5, <1>6, <1>7, SMTT(30)
<1> QED BY <1>2, <1>3, <1>4, <1>7, SMTT(30)

\* What was on file, or was to be written, has a place after the write.
LEMMA WriteKeeps ==
    ASSUME CliInv, NEW p \in Processes, Write(p), NEW k,
           Kept(k) \/ k \in TokensIn(process[p].tokens)
    PROVE  Kept(k)'
<1> DEFINE f == encrypt(process[p].tokens, process[p].pass)
<1>1. PICK u \in Users : u = process[p].user
    BY WriteMarks, ZenonT(40)
<1>2. /\ stream' = stream /\ excused \subseteq excused'
      /\ process[p].phase = "writing"
      /\ process[p].stale => OnFile(u) \subseteq excused'
      /\ wallet_file' = [wallet_file EXCEPT ![u] = f]
    BY <1>1, SMTT(30) DEF Write
<1>3. /\ \A w \in Users \ {u} : wallet_file'[w] = wallet_file[w]
      /\ wallet_file'[u] = f
    <2>1. DOMAIN wallet_file = Users
        BY SMTT(30) DEF CliInv, CliType
    <2> HIDE DEF f
    <2> QED BY <1>2, <2>1, Zenon
<1>4. OnFile(u)' = TokensIn(process[p].tokens)
    <2>1. f.is = "saved" /\ f.tokens = process[p].tokens
        BY SMTT(30) DEF encrypt
    <2> HIDE DEF f
    <2> QED BY <1>3, <2>1 DEF OnFile
<1>5. \A w \in Users \ {u} : OnFile(w)' = OnFile(w)
    BY <1>3, Zenon DEF OnFile
<1>6. \A q \in Processes : ~Emptying(q, u)'
    <2> SUFFICES ASSUME NEW q \in Processes, process'[q].phase = "saving", process'[q].user = u
                 PROVE  process'[q].stale
        BY Zenon DEF Emptying
    <2>1. q # p /\ process'[q] # Ended
        BY WriteMarks, SMTT(30) DEF Ended
    <2> QED BY <1>1, <2>1, WriteMarks, ZenonT(40)
<1>7. CASE k \in TokensIn(process[p].tokens)
    BY <1>4, <1>6, <1>7, Zenon DEF Kept
<1>8. CASE k \in excused \/ \E t \in stream : t.id = k
    BY <1>2, <1>8, ZenonT(40) DEF Kept
<1>9. CASE \E q \in Processes :
            process[q].phase \in {"saving", "writing"} /\ k \in TokensIn(process[q].tokens)
    <2> PICK q \in Processes :
            process[q].phase \in {"saving", "writing"} /\ k \in TokensIn(process[q].tokens)
        BY <1>9
    <2>1. CASE q = p
        BY <1>7, <2>1, SMTT(30)
    <2>2. CASE q # p
        <3>1. process'[q].phase = process[q].phase /\ process'[q].tokens = process[q].tokens
            BY <2>2, WriteMarks, ZenonT(40)
        <3> QED BY <3>1, Zenon DEF Kept
    <2> QED BY <2>1, <2>2, SMTT(30)
<1>10. CASE \E w \in Users : k \in OnFile(w) /\ \A q \in Processes : ~Emptying(q, w)
    <2> PICK w \in Users : k \in OnFile(w) /\ \A q \in Processes : ~Emptying(q, w)
        BY <1>10, SMTT(30)
    <2>1. CASE w = u
        <3>1. process[p].stale
            BY <1>1, <1>2, <2>1, Zenon DEF CliInv, Writing
        <3> QED BY <1>2, <2>1, <3>1, Zenon DEF Kept
    <2>2. CASE w # u
        <3>1. \A q \in Processes : ~Emptying(q, w)'
            <4> SUFFICES ASSUME NEW q \in Processes, Emptying(q, w)' PROVE FALSE
                BY SMTT(30)
            <4>1. q # p
                BY WriteMarks, SMTT(30) DEF Emptying, Ended
            <4>2. process'[q] = process[q]
                BY <1>1, <2>2, <4>1, WriteMarks, Zenon DEF Emptying
            <4> QED BY <4>2, ZenonT(40) DEF Emptying
        <3> QED BY <1>5, <2>2, <3>1, Zenon DEF Kept
    <2> QED BY <2>1, <2>2
<1> QED BY <1>7, <1>8, <1>9, <1>10, Zenon DEF Kept

\* fs::write, then, leaves the wallet of the process on file.
LEMMA CliWrite ==
    ASSUME CliInv, NEW p \in Processes, Write(p)
    PROVE  CliInv'
<1> DEFINE f == encrypt(process[p].tokens, process[p].pass)
<1>1. PICK u \in Users : u = process[p].user
    BY WriteMarks, ZenonT(40)
<1>2. /\ UNCHANGED <<persistent, stream, runs>>
      /\ wallet_file' = [wallet_file EXCEPT ![u] = f]
      /\ saves' = saves \cup {<<u, f>>}
    BY <1>1, SMTT(30) DEF Write
<1>3. /\ f \in SavedWallet /\ f.tokens = process[p].tokens
    BY WriteMarks, ZenonT(40) DEF encrypt, SavedWallet, Running
<1> HIDE DEF f
<1>4. /\ DOMAIN wallet_file' = Users /\ wallet_file'[u] = f
      /\ \A w \in Users \ {u} : wallet_file'[w] = wallet_file[w]
    BY <1>2, SMTT(30) DEF CliInv, CliType
<1>5. \A w \in Users \ {u} : OnFile(w)' = OnFile(w)
    BY <1>4, SMTT(30) DEF OnFile
<1>6. CliType'
    <2>1. \A q \in Processes : process'[q] \in {Ended} \cup Running
        <3> SUFFICES ASSUME NEW q \in Processes, q # p
                     PROVE  process'[q] \in {Ended} \cup Running
            BY WriteMarks
        <3>1. process[q] \in {Ended} \cup Running
            BY SMTT(30) DEF CliInv, CliType
        <3> QED BY <3>1, WriteMarks, Zenon
    <2>2. DOMAIN process' = Processes
        BY WriteMarks, Zenon
    <2> QED BY <1>2, <1>3, <1>4, <2>1, <2>2, Zenon DEF CliInv, CliType
<1>7. FileIsSaved'
    BY <1>2, <1>4, SMTT(30) DEF CliInv, FileIsSaved
<1>8. ShownIsSaved'
    <2> SUFFICES ASSUME NEW q \in Processes, process'[q].phase = "shown",
                        process'[q].tokens # <<>>
                 PROVE  \E s \in saves : /\ s[1] = process'[q].user
                                         /\ s[2].pass = process'[q].pass
                                         /\ s[2].tokens = process'[q].tokens
        BY <1>2, Zenon DEF ShownIsSaved
    <2>1. q # p
        BY WriteMarks, SMTT(30) DEF Ended
    <2>2. /\ process'[q].phase = process[q].phase /\ process'[q].user = process[q].user
          /\ process'[q].pass = process[q].pass /\ process'[q].tokens = process[q].tokens
        BY <2>1, WriteMarks, ZenonT(40)
    <2> QED BY <2>2, SMTT(30) DEF CliInv, ShownIsSaved
<1>9. SavedIsKept'
    <2> SUFFICES ASSUME NEW s \in saves', NEW k \in TokensIn(s[2].tokens) PROVE Kept(k)'
        BY DEF SavedIsKept
    <2>1. CASE s \in saves
        BY <2>1, WriteKeeps, Zenon DEF CliInv, SavedIsKept
    <2>2. CASE s = <<u, f>>
        BY <1>3, <2>2, WriteKeeps, Zenon
    <2> QED BY <1>2, <2>1, <2>2
<1>10. ASSUME NEW q \in Processes, process'[q].phase \in {"sending", "writing"}
       PROVE  /\ q # p /\ process'[q].phase = process[q].phase
              /\ process'[q].taken = process[q].taken
              /\ ~process'[q].stale => /\ process'[q] = process[q]
                                       /\ OnFile(process[q].user)' = OnFile(process[q].user)
    <2>1. q # p
        BY <1>10, WriteMarks, SMTT(30) DEF Ended
    <2>2. /\ process'[q].phase = process[q].phase /\ process'[q].taken = process[q].taken
          /\ ~process'[q].stale =>
                process'[q] = process[q] /\ (process[q] = Ended \/ process[q].user # u)
        BY <1>1, <2>1, WriteMarks, Zenon
    <2>3. process[q] # Ended
        BY <1>10, <2>2, SMTT(30) DEF Ended
    <2>4. process[q].user \in Users
        BY <2>3, Zenon DEF CliInv, CliType, Running
    <2>5. ASSUME ~process'[q].stale
          PROVE  OnFile(process[q].user)' = OnFile(process[q].user)
        BY <1>4, <2>2, <2>3, <2>4, <2>5, Zenon DEF OnFile
    <2> QED BY <2>1, <2>2, <2>5, Zenon
<1>11. Sending'
    <2> SUFFICES ASSUME NEW q \in Processes, process'[q].phase = "sending"
                 PROVE  /\ Len(process'[q].taken) = 1
                        /\ ~process'[q].stale => OnFile(process[q].user)' \subseteq
                             TokensIn(process'[q].tokens) \cup {process'[q].taken[1].id}
        BY Zenon DEF Sending
    <2>1. process[q].phase = "sending" /\ process'[q].taken = process[q].taken
        BY <1>10, Zenon
    <2>2. Len(process[q].taken) = 1
        BY <2>1, SMTT(30) DEF CliInv, Sending
    <2>3. ASSUME ~process'[q].stale
          PROVE  OnFile(process[q].user)' \subseteq
                    TokensIn(process'[q].tokens) \cup {process'[q].taken[1].id}
        <3>1. process'[q] = process[q] /\ OnFile(process[q].user)' = OnFile(process[q].user)
            BY <1>10, <2>3, Zenon
        <3> QED BY <2>1, <2>3, <3>1, Zenon DEF CliInv, Sending
    <2> QED BY <2>1, <2>2, <2>3, Zenon
<1>12. Writing'
    <2> SUFFICES ASSUME NEW q \in Processes, process'[q].phase = "writing",
                        ~process'[q].stale
                 PROVE  OnFile(process[q].user)' = {}
        BY Zenon DEF Writing
    <2>1. process'[q] = process[q] /\ OnFile(process[q].user)' = OnFile(process[q].user)
        BY <1>10, Zenon
    <2> QED BY <2>1, Zenon DEF CliInv, Writing
<1> QED BY <1>6, <1>7, <1>8, <1>9, <1>11, <1>12, SMTT(30) DEF CliInv

\* It holds before the first command.
LEMMA CliInitInv == CliInit => CliInv
<1> SUFFICES ASSUME CliInit PROVE CliInv
    OBVIOUS
<1>1. /\ \A u \in Users : wallet_file[u] = Missing
      /\ \A p \in Processes : process[p] = Ended
      /\ saves = {} /\ stream = {}
    BY DEF CliInit
<1>2. CliType
    BY <1>1, CliAssumption DEF CliInit, CliType
<1>3. FileIsSaved
    BY <1>1 DEF FileIsSaved, Missing
<1>4. ShownIsSaved /\ Sending /\ Writing
    BY <1>1 DEF ShownIsSaved, Sending, Writing, Ended
<1>5. SavedIsKept
    BY <1>1, SMTT(30) DEF SavedIsKept
<1> QED BY <1>2, <1>3, <1>4, <1>5, SMTT(30) DEF CliInv

\* Every step keeps it.
LEMMA CliNextInv == ASSUME CliInv, [CliNext]_cliVars PROVE CliInv'
<1>1. ASSUME NEW p \in Processes, NEW u \in Users, NEW pass \in Passphrases,
             \/ cmd_setup(p, u, pass) \/ cmd_mint(p, u, pass)
             \/ cmd_balance(p, u, pass) \/ cmd_load(p, u, pass) \/ cmd_save(p, u, pass)
             \/ cmd_transfer(p, u, pass) \/ cmd_send(p, u, pass) \/ cmd_receive(p, u, pass)
      PROVE  CliInv'
    <2>1. "balance" \in CommandNames /\ "load" \in CommandNames
        BY DEF CommandNames
    <2>2. CASE cmd_balance(p, u, pass) \/ cmd_load(p, u, pass)
        BY <2>1, <2>2, CliShow DEF cmd_balance, cmd_load
    <2> QED BY <1>1, <2>2, CliSetup, CliMint, CliSave, CliTransfer, CliSend, CliReceive, SMTT(30)
<1>2. ASSUME NEW p \in Processes,
             \/ Send(p) \/ SendFails(p) \/ \E t \in stream : Receive(p, t)
             \/ Truncate(p) \/ Write(p) \/ Crash(p) \/ Shown(p)
      PROVE  CliInv'
    BY <1>2, CliSent, CliSendFails, CliReceived, CliTruncate, CliWrite, CliEnds, SMTT(30)
<1> QED BY <1>1, <1>2, CliPeerSends, CliStutter, ZenonT(40) DEF CliNext

\* A wallet that balance or load shows is empty, or it was completely written
\* for that user under that passphrase: fs::write is not atomic, but what is
\* only partly written does not decrypt, for any number of processes.
THEOREM ShownIsSavedHolds == CliSpec => []ShownIsSaved
<1>1. CliInit => CliInv
    BY CliInitInv
<1>2. CliInv /\ [CliNext]_cliVars => CliInv'
    BY CliNextInv
<1>3. CliInv => ShownIsSaved
    BY SMTT(30) DEF CliInv
<1> QED BY <1>1, <1>2, <1>3, PTL DEF CliSpec

\* A token that was saved once is on file, in a process or on its way, or its
\* loss has one of the causes that the actions name.  No order in which the
\* processes of the users load, send, receive, empty and write their files
\* loses one otherwise; in particular cmd_send, which saves the wallet after
\* the token was written to the stream, does not.
THEOREM EveryLossHasACauseHolds == CliSpec => []EveryLossHasACause
<1>1. CliInit => CliInv
    BY CliInitInv
<1>2. CliInv /\ [CliNext]_cliVars => CliInv'
    BY CliNextInv
<1>3. CliInv => EveryLossHasACause
    <2> SUFFICES ASSUME CliInv, NEW s \in saves, NEW k \in TokensIn(s[2].tokens)
                 PROVE  k \in Somewhere \cup excused
        BY DEF EveryLossHasACause
    <2>1. Kept(k)
        BY DEF CliInv, SavedIsKept
    <2>2. \A p \in Processes : process[p].phase \in {"saving", "writing"} => process[p] # Ended
        BY DEF Ended
    <2>3. \A u \in Users : OnFile(u) \subseteq Somewhere
        BY DEF Somewhere
    <2>4. \A t \in stream : t.id \in Somewhere
        BY Zenon DEF Somewhere
    <2>5. \A p \in Processes : process[p] # Ended => TokensIn(process[p].tokens) \subseteq Somewhere
        BY DEF Somewhere
    <2> HIDE DEF Ended
    <2> QED BY <2>1, <2>2, <2>3, <2>4, <2>5, Zenon DEF Kept
<1> QED BY <1>1, <1>2, <1>3, PTL DEF CliSpec

-----------------------------------------------------------------------------
(* Handshake *)

\* s has not read a hello yet.
Before(s) == pc[s] \in {"start", "hello"}

TypeInv ==
    /\ pc \in [Sessions -> {"start", "hello", "sig", "done", "sent", "received", "failed"}]
    /\ heard \in [Sessions -> Sessions]
    /\ DOMAIN kem = Sessions
    /\ \A h \in hellos : h[1] \in Sessions

\* A session goes on with the hello of another one, and the expected one.
HeardInv ==
    \A s \in Sessions :
        Completed(s) \/ pc[s] = "sig" => heard[s] # s /\ IsExpected(s, heard[s])

\* A session signs its own transcript, after which it reads no more hellos.
SigInv ==
    \A g \in sigs : /\ g[1] \in Sessions
                    /\ ~Before(g[1])
                    /\ g = <<g[1], Transcript(g[1])>>

\* Who completes has read the hello of a session that has read its own, and has
\* the same transcript.
PeerInv ==
    \A s \in Sessions : Completed(s) =>
        /\ ~Before(heard[s])
        /\ heard[heard[s]] = s
        /\ Transcript(heard[s]) = Transcript(s)

\* A token is encrypted by an initiator that has completed, under its key.
FrameInv ==
    \A f \in frames : /\ f[1] \in Initiators
                      /\ pc[f[1]] = "sent"
                      /\ f = <<f[1], session_key(f[1])>>

\* A token is decrypted by the responder that has its key.
ReceivedInv ==
    \A s \in Sessions : pc[s] = "received" =>
        s \notin Initiators /\ <<heard[s], session_key(s)>> \in frames

IInv == TypeInv /\ HeardInv /\ SigInv /\ PeerInv /\ FrameInv /\ ReceivedInv

-----------------------------------------------------------------------------

\* Two sessions with the same transcript have read each other's hello.
LEMMA SameTranscriptPeers ==
    ASSUME NEW s, NEW t, s # t, Transcript(s) = Transcript(t)
    PROVE  t = heard[s] /\ s = heard[t]
<1>1. {s, heard[s]} = {t, heard[t]}
    BY DEF Transcript, transcript_msg
<1> QED BY <1>1

\* The key is made of the transcript and of what the transcript contains.
LEMMA SameKey ==
    ASSUME NEW s, NEW t, Transcript(s) = Transcript(t)
    PROVE  session_key(s) = session_key(t)
<1>1. {s, heard[s]} = {t, heard[t]} /\ kem[s] = kem[t]
    BY DEF Transcript, transcript_msg
<1> QED BY <1>1 DEF session_key

\* It holds before anything is written.
LEMMA InitInv == Init => IInv
<1> SUFFICES ASSUME Init PROVE IInv
    OBVIOUS
<1>1. \A s \in Sessions : pc[s] \in {"start", "hello"}
    BY DEF Init
<1>2. TypeInv
    BY DEF Init, TypeInv
<1>3. HeardInv /\ PeerInv /\ ReceivedInv
    BY <1>1, Zenon DEF HeardInv, PeerInv, ReceivedInv, Completed
<1>4. SigInv /\ FrameInv
    BY DEF Init, SigInv, FrameInv
<1> QED BY <1>2, <1>3, <1>4 DEF IInv

\* What a session has heard decides its transcript and its key.
LEMMA HandshakeKept ==
    ASSUME UNCHANGED <<heard, kem>>, NEW s
    PROVE  Transcript(s)' = Transcript(s) /\ session_key(s)' = session_key(s)
BY Zenon DEF Transcript, session_key

\* The initiator writes first.
LEMMA WriteHelloInv ==
    ASSUME IInv, NEW s \in Sessions, WriteHello(s)
    PROVE  IInv'
<1> USE DEF IInv
<1>1. /\ pc[s] = "start" /\ pc' = [pc EXCEPT ![s] = "hello"]
      /\ UNCHANGED <<heard, kem, sigs, frames>>
    BY DEF WriteHello
<1>2. \A x \in Sessions : /\ Before(x)' = Before(x) /\ Completed(x)' = Completed(x)
                          /\ x # s => pc'[x] = pc[x]
    BY <1>1 DEF TypeInv, Before, Completed
<1>3. pc'[s] = "hello"
    BY <1>1 DEF TypeInv
<1>4. TypeInv'
    BY <1>1 DEF TypeInv, WriteHello
<1>5. HeardInv'
    BY <1>1, <1>2, <1>3, Zenon DEF HeardInv, IsExpected
<1>6. SigInv'
    BY <1>1, <1>2, HandshakeKept DEF SigInv
<1>7. PeerInv'
    BY <1>1, <1>2, HandshakeKept DEF PeerInv, TypeInv
<1>8. FrameInv'
    BY <1>1, <1>2, HandshakeKept, HandshakeAssumption DEF FrameInv
<1>9. ReceivedInv'
    BY <1>1, <1>2, <1>3, HandshakeKept, Zenon DEF ReceivedInv
<1> QED BY <1>4, <1>5, <1>6, <1>7, <1>8, <1>9

\* A session gives up: a timeout, or a frame that does not decrypt.
LEMMA FailInv ==
    ASSUME IInv, NEW s \in Sessions, pc[s] \notin {"sent", "received"},
           pc' = [pc EXCEPT ![s] = "failed"],
           UNCHANGED <<heard, kem, hellos, sigs, frames>>
    PROVE  IInv'
<1> USE DEF IInv
<1>1. pc'[s] = "failed" /\ \A x \in Sessions : x # s => pc'[x] = pc[x]
    BY DEF TypeInv
<1>2. \A x \in Sessions : (Before(x)' => Before(x)) /\ (Completed(x)' => Completed(x))
    BY <1>1 DEF Before, Completed
<1>3. TypeInv'
    BY DEF TypeInv
<1>4. HeardInv'
    BY <1>1, <1>2, ZenonT(40) DEF HeardInv, IsExpected
<1>5. SigInv'
    BY <1>2, HandshakeKept DEF SigInv
<1>6. PeerInv'
    BY <1>2, HandshakeKept, Zenon DEF PeerInv, TypeInv
<1>7. FrameInv'
    BY <1>1, HandshakeKept, HandshakeAssumption, ZenonT(40) DEF FrameInv
<1>8. ReceivedInv'
    BY <1>1, HandshakeKept, Zenon DEF ReceivedInv
<1> QED BY <1>3, <1>4, <1>5, <1>6, <1>7, <1>8

\* A hello is read, by either side: nobody has relied on s yet.
LEMMA ReadsInv ==
    ASSUME IInv, NEW s \in Sessions, NEW t \in Sessions, s # t, pc[s] = "hello",
           heard' = [heard EXCEPT ![s] = t],
           DOMAIN kem' = Sessions, \A x \in Sessions : x # s => kem'[x] = kem[x],
           NEW new \in {"sig", "failed"}, pc' = [pc EXCEPT ![s] = new],
           new = "sig" => IsExpected(s, t),
           \A h \in hellos' : h[1] \in Sessions,
           sigs' = sigs \/ sigs' = sigs \cup {<<s, Transcript(s)'>>},
           frames' = frames
    PROVE  IInv'
<1> USE DEF IInv
<1>1. pc'[s] = new /\ \A x \in Sessions : x # s => pc'[x] = pc[x]
    BY Zenon DEF TypeInv
<1>2. heard'[s] = t /\ \A x \in Sessions : x # s => heard'[x] = heard[x]
    BY Zenon DEF TypeInv
<1>3. /\ ~Completed(s) /\ ~Completed(s)' /\ Before(s) /\ ~Before(s)'
      /\ \A x \in Sessions : x # s => /\ Completed(x)' = Completed(x)
                                     /\ Before(x)' = Before(x)
    BY <1>1, Zenon DEF Completed, Before
<1>4. \A x \in Sessions : x # s => /\ Transcript(x)' = Transcript(x)
                                  /\ session_key(x)' = session_key(x)
    BY <1>2, Zenon DEF Transcript, session_key
<1>5. TypeInv'
    BY Zenon DEF TypeInv
<1>6. HeardInv'
    <2>1. ASSUME NEW x \in Sessions, Completed(x)' \/ pc'[x] = "sig"
          PROVE  heard'[x] # x /\ IsExpected(x, heard'[x])
        <3>1. CASE x = s
            BY <1>1, <1>2, <1>3, <2>1, <3>1, Zenon
        <3>2. CASE x # s
            BY <1>1, <1>2, <1>3, <2>1, <3>2, Zenon DEF HeardInv
        <3> QED BY <3>1, <3>2, Zenon
    <2>2. \A x \in Sessions : IsExpected(x, heard[x])' <=> IsExpected(x, heard'[x])
        BY Zenon DEF IsExpected
    <2> QED BY <2>1, <2>2, Zenon DEF HeardInv
<1>7. SigInv'
    <2>1. \A g \in sigs : g[1] \in Sessions /\ ~Before(g[1])' /\ g = <<g[1], Transcript(g[1])'>>
        BY <1>3, <1>4 DEF SigInv
    <2> QED BY <1>3, <2>1 DEF SigInv
<1>8. PeerInv'
    <2> SUFFICES ASSUME NEW x \in Sessions, Completed(x)'
                 PROVE  (~Before(heard[x]) /\ heard[heard[x]] = x
                            /\ Transcript(heard[x]) = Transcript(x))'
        BY Zenon DEF PeerInv
    <2>1. x # s /\ heard'[x] = heard[x] /\ heard[x] \in Sessions
        BY <1>2, <1>3, ZenonT(40) DEF TypeInv
    <2>2. ~Before(heard[x]) /\ heard[heard[x]] = x /\ Transcript(heard[x]) = Transcript(x)
        BY <1>3, <2>1, Zenon DEF PeerInv
    <2>3. heard[x] # s
        BY <1>3, <2>2, Zenon
    <2> QED BY <1>2, <1>3, <1>4, <2>1, <2>2, <2>3, ZenonT(40)
<1>9. FrameInv'
    BY <1>1, <1>4, HandshakeAssumption DEF FrameInv
<1>10. ReceivedInv'
    <2>1. \A x \in Sessions : pc'[x] = "received" =>
            x # s /\ pc[x] = "received" /\ heard'[x] = heard[x] /\ session_key(x)' = session_key(x)
        BY <1>1, <1>2, <1>4, Zenon
    <2>2. ReceivedInv
        BY Zenon
    <2> HIDE DEF IInv
    <2> QED BY <2>1, <2>2 DEF ReceivedInv
<1> QED BY <1>5, <1>6, <1>7, <1>8, <1>9, <1>10, Zenon

\* The signature that is read is the peer's, on the same transcript.
LEMMA ReadSigInv ==
    ASSUME IInv, NEW s \in Sessions, NEW g \in sigs, ReadSig(s, g)
    PROVE  IInv'
<1> USE DEF IInv
<1> DEFINE new == IF Verifies(s, g) THEN "done" ELSE "failed"
<1>1. /\ pc[s] = "sig" /\ g[1] # s /\ pc' = [pc EXCEPT ![s] = new]
      /\ UNCHANGED <<heard, kem, hellos, frames>>
    BY DEF ReadSig
<1>2. sigs' = sigs \/ sigs' = sigs \cup {<<s, Transcript(s)>>}
    BY DEF ReadSig, sign
<1>3. pc'[s] = new /\ \A x \in Sessions : x # s => pc'[x] = pc[x]
    BY <1>1, Zenon DEF TypeInv
<1>4. \A x \in Sessions : /\ Before(x)' = Before(x)
                          /\ x # s => Completed(x)' = Completed(x)
    BY <1>1, <1>3 DEF Before, Completed
<1>5. ASSUME Verifies(s, g)
      PROVE  /\ ~Before(heard[s]) /\ heard[heard[s]] = s
             /\ Transcript(heard[s]) = Transcript(s)
    <2>1. g[1] \in Sessions /\ ~Before(g[1]) /\ Transcript(g[1]) = Transcript(s)
        BY <1>5 DEF SigInv, Verifies
    <2>2. g[1] = heard[s] /\ s = heard[g[1]]
        BY <1>1, <2>1, SameTranscriptPeers, Zenon
    <2> QED BY <2>1, <2>2, Zenon
<1>6. Completed(s)' => Verifies(s, g)
    BY <1>3 DEF Completed
<1>7. TypeInv'
    BY <1>1, Zenon DEF TypeInv
<1>8. HeardInv'
    BY <1>1, <1>3, <1>4, ZenonT(40) DEF HeardInv, IsExpected
<1>9. SigInv'
    <2>1. ~Before(s)
        BY <1>1 DEF Before
    <2> QED BY <1>1, <1>2, <1>4, <2>1, HandshakeKept DEF SigInv
<1>10. PeerInv'
    <2> SUFFICES ASSUME NEW x \in Sessions, Completed(x)'
                 PROVE  (~Before(heard[x]) /\ heard[heard[x]] = x
                            /\ Transcript(heard[x]) = Transcript(x))'
        BY Zenon DEF PeerInv
    <2>1. /\ ~Before(heard[x]) /\ heard[heard[x]] = x
          /\ Transcript(heard[x]) = Transcript(x)
        BY <1>4, <1>5, <1>6, Zenon DEF PeerInv
    <2>2. heard[x] \in Sessions
        BY Zenon DEF TypeInv
    <2>3. \A y \in Sessions : Transcript(y)' = Transcript(y)
        BY <1>1, HandshakeKept, Zenon
    <2> HIDE DEF IInv
    <2>4. PICK y \in Sessions : y = heard[x]
        BY <2>2, Zenon
    <2> QED BY <1>1, <1>4, <2>1, <2>3, <2>4, Zenon
<1>11. FrameInv'
    BY <1>1, <1>3, HandshakeKept, HandshakeAssumption DEF FrameInv
<1>12. ReceivedInv'
    BY <1>1, <1>3, HandshakeKept DEF ReceivedInv
<1> QED BY <1>7, <1>8, <1>9, <1>10, <1>11, <1>12

\* A token is sent or decrypted.
LEMMA TokenInv ==
    ASSUME IInv, NEW s \in Sessions, pc[s] = "done",
           NEW new \in {"sent", "received"}, pc' = [pc EXCEPT ![s] = new],
           UNCHANGED <<heard, kem, hellos, sigs>>,
           \/ /\ new = "sent" /\ s \in Initiators
              /\ frames' = frames \cup {<<s, session_key(s)>>}
           \/ /\ new = "received" /\ s \notin Initiators /\ frames' = frames
              /\ <<heard[s], session_key(s)>> \in frames
    PROVE  IInv'
<1> USE DEF IInv
<1>1. pc'[s] = new /\ \A x \in Sessions : x # s => pc'[x] = pc[x]
    BY Zenon DEF TypeInv
<1>2. \A x \in Sessions : Before(x)' = Before(x) /\ Completed(x)' = Completed(x)
    BY <1>1 DEF Before, Completed
<1>3. TypeInv'
    BY Zenon DEF TypeInv
<1>4. HeardInv'
    BY <1>1, <1>2, ZenonT(40) DEF HeardInv, IsExpected
<1>5. SigInv'
    BY <1>2, HandshakeKept DEF SigInv
<1>6. PeerInv'
    BY <1>2, HandshakeKept, Zenon DEF PeerInv, TypeInv
<1>7. FrameInv'
    BY <1>1, HandshakeKept, HandshakeAssumption DEF FrameInv
<1>8. ReceivedInv'
    BY <1>1, HandshakeKept, Zenon DEF ReceivedInv
<1> QED BY <1>3, <1>4, <1>5, <1>6, <1>7, <1>8, Zenon

\* Every step of a session keeps the invariant.
LEMMA NextInv == IInv /\ [Next]_vars => IInv'
<1> SUFFICES ASSUME IInv, [Next]_vars PROVE IInv'
    OBVIOUS
<1>1. ASSUME NEW s \in Sessions, NEW h \in hellos, InitiatorReads(s, h[1], h[2])
      PROVE  IInv'
    <2> DEFINE t == h[1]
               new == IF IsExpected(s, t) THEN "sig" ELSE "failed"
    <2>1. t \in Sessions /\ s # t /\ pc[s] = "hello" /\ heard' = [heard EXCEPT ![s] = t]
        BY <1>1, Zenon DEF InitiatorReads, IInv, TypeInv
    <2>2. DOMAIN kem' = Sessions /\ \A x \in Sessions : x # s => kem'[x] = kem[x]
        BY <1>1, Zenon DEF InitiatorReads, IInv, TypeInv
    <2>3. pc' = [pc EXCEPT ![s] = new]
        BY <1>1, Zenon DEF InitiatorReads
    <2>4. \A k \in hellos' : k[1] \in Sessions
        BY <1>1 DEF InitiatorReads, IInv, TypeInv
    <2>5. Transcript(s)' = transcript_msg(s, t, kem'[s])
        BY <2>1, Zenon DEF Transcript, transcript_msg, IInv, TypeInv
    <2>6. frames' = frames /\ (sigs' = sigs \/ sigs' = sigs \cup {<<s, Transcript(s)'>>})
        BY <1>1, <2>5, Zenon DEF InitiatorReads, sign
    <2> QED BY <2>1, <2>2, <2>3, <2>4, <2>6, ReadsInv, ZenonT(40)
<1>2. ASSUME NEW s \in Sessions, NEW h \in hellos, ResponderReads(s, h[1], h[2])
      PROVE  IInv'
    <2> DEFINE t == h[1]
    <2>1. /\ t \in Sessions /\ s # t /\ pc[s] = "hello" /\ heard' = [heard EXCEPT ![s] = t]
          /\ pc' = [pc EXCEPT ![s] = "sig"] /\ frames' = frames /\ sigs' = sigs
        BY <1>2, Zenon DEF ResponderReads, IInv, TypeInv
    <2>2. DOMAIN kem' = Sessions /\ \A x \in Sessions : x # s => kem'[x] = kem[x]
        BY <1>2, Zenon DEF ResponderReads, IInv, TypeInv
    <2>3. \A k \in hellos' : k[1] \in Sessions
        BY <1>2 DEF ResponderReads, IInv, TypeInv
    <2>4. IsExpected(s, t)
        BY <1>2 DEF ResponderReads, IsExpected
    <2> QED BY <2>1, <2>2, <2>3, <2>4, ReadsInv, ZenonT(40)
<1>3. ASSUME NEW s \in Sessions, SendToken(s) PROVE IInv'
    BY <1>3, TokenInv, Zenon DEF SendToken, encrypt_with_key
<1>4. ASSUME NEW s \in Sessions, NEW f \in frames, ReceiveToken(s, f) PROVE IInv'
    <2>1. s \notin Initiators /\ pc[s] = "done" /\ UNCHANGED <<heard, kem, hellos, sigs, frames>>
        BY <1>4 DEF ReceiveToken
    <2>2. CASE decrypt_with_key(f, session_key(s))
        <3>1. /\ f[1] \in Initiators /\ f = <<f[1], session_key(f[1])>>
              /\ session_key(f[1]) = session_key(s)
            BY <2>2 DEF IInv, FrameInv, decrypt_with_key
        <3>2. Transcript(f[1]) = Transcript(s) /\ f[1] # s
            BY <2>1, <3>1, Zenon DEF session_key
        <3>3. f[1] = heard[s]
            BY <3>2, SameTranscriptPeers, Zenon
        <3> QED BY <1>4, <2>1, <2>2, <3>1, <3>3, TokenInv, ZenonT(40) DEF ReceiveToken
    <2>3. CASE ~decrypt_with_key(f, session_key(s))
        BY <1>4, <2>1, <2>3, FailInv, Zenon DEF ReceiveToken
    <2> QED BY <2>2, <2>3
<1>5. ASSUME NEW s \in Sessions, Timeout(s) PROVE IInv'
    BY <1>5, FailInv, Zenon DEF Timeout
<1>6. CASE UNCHANGED vars
    <2>1. \A s : Before(s)' = Before(s) /\ Completed(s)' = Completed(s)
        BY <1>6 DEF vars, Before, Completed
    <2>2. UNCHANGED <<heard, kem>>
        BY <1>6 DEF vars
    <2>3. TypeInv' /\ HeardInv'
        BY <1>6, <2>1, Zenon DEF vars, IInv, TypeInv, HeardInv, IsExpected
    <2>4. SigInv' /\ PeerInv'
        BY <1>6, <2>1, <2>2, HandshakeKept, Zenon DEF vars, IInv, SigInv, PeerInv
    <2>5. FrameInv' /\ ReceivedInv'
        BY <1>6, <2>2, HandshakeKept, Zenon DEF vars, IInv, FrameInv, ReceivedInv
    <2> QED BY <2>3, <2>4, <2>5 DEF IInv
<1> QED BY <1>1, <1>2, <1>3, <1>4, <1>5, <1>6, WriteHelloInv, ReadSigInv, Zenon DEF Next

-----------------------------------------------------------------------------

\* A session that completes the handshake has the peer it was shown, and the
\* expected one: that peer has read its hello and has the same key, among any
\* number of sessions at once.
THEOREM MatchingPeerHolds == Spec => []MatchingPeer
<1>1. IInv => MatchingPeer
    <2> SUFFICES ASSUME IInv, NEW s \in Sessions, Completed(s)
                 PROVE  /\ s \in Initiators => Expected[s] \in {Anyone, Identity[heard[s]]}
                        /\ heard[heard[s]] = s
                        /\ session_key(heard[s]) = session_key(s)
        BY Zenon DEF MatchingPeer
    <2>1. IsExpected(s, heard[s])
        BY Zenon DEF IInv, HeardInv
    <2>2. heard[heard[s]] = s /\ Transcript(heard[s]) = Transcript(s)
        BY Zenon DEF IInv, PeerInv
    <2> QED BY <2>1, <2>2, SameKey, Zenon DEF IsExpected
<1> QED BY <1>1, InitInv, NextInv, PTL DEF Spec

\* A token that cmd_receive decrypts was encrypted by the session whose hello it
\* has read, and no other session decrypts it.
THEOREM TokenFromPeerHolds == Spec => []TokenFromPeer
<1>1. IInv => TokenFromPeer
    BY Zenon DEF IInv, TokenFromPeer, ReceivedInv, PeerInv, Completed
<1> QED BY <1>1, InitInv, NextInv, PTL DEF Spec

-----------------------------------------------------------------------------
(* The post-quantum leg *)

\* The hello of an initiator has its encapsulation key, that of a responder what
\* it has encapsulated to the key that it has read.
HelloInv ==
    \A h \in hellos :
        /\ h[1] \in Initiators => h[2] = IF hybrid THEN <<h[1]>> ELSE <<>>
        /\ h[1] \notin Initiators =>
            /\ ~Before(h[1])
            /\ h[2] = IF hybrid THEN <<heard[h[1]], h[1]>> ELSE <<>>

\* The secret of a responder is the one that it has encapsulated, that of an
\* initiator is what it makes of its responder's; each has read the other role.
KemInv ==
    \A s \in Sessions :
        /\ Before(s) => heard[s] = s
        /\ pc[s] = "start" => s \in Initiators
        /\ ~hybrid => kem[s] = <<>>
        /\ hybrid /\ heard[s] # s => (s \in Initiators <=> heard[s] \notin Initiators)
        /\ hybrid /\ heard[s] # s /\ s \notin Initiators => kem[s] = <<heard[s], s>>
        /\ hybrid /\ heard[s] # s /\ s \in Initiators =>
            ~Before(heard[s]) /\ kem[s] = decapsulate(s, <<heard[heard[s]], heard[s]>>)

LegInv == hybrid \in BOOLEAN /\ HelloInv /\ KemInv

\* A ciphertext is told from an encapsulation key by its length.
LEMMA Lengths ==
    ASSUME NEW a, NEW b
    PROVE  Cardinality(DOMAIN <<a>>) = 1 /\ Cardinality(DOMAIN <<a, b>>) = 2
<1>1. DOMAIN <<a>> = {1} /\ DOMAIN <<a, b>> = {1} \cup {2}
    OBVIOUS
<1>2. Cardinality({1}) = 1 /\ IsFiniteSet({1})
    BY FS_Singleton, Zenon
<1>3. Cardinality({1} \cup {2}) = Cardinality({1}) + 1
    <2>1. \A S, x : IsFiniteSet(S) /\ x \notin S => Cardinality(S \cup {x}) = Cardinality(S) + 1
        BY FS_AddElement
    <2>2. 2 \notin {1}
        OBVIOUS
    <2> QED BY <1>2, <2>1, <2>2
<1> QED BY <1>1, <1>2, <1>3

\* Steps that neither read nor write a hello.
LEMMA LegKept ==
    ASSUME LegInv, UNCHANGED <<hybrid, heard, kem, hellos>>,
           \A x \in Sessions : (Before(x)' => Before(x)) /\ (pc'[x] = "start" => pc[x] = "start"),
           TypeInv
    PROVE  LegInv'
<1>1. HelloInv'
    BY Zenon DEF LegInv, HelloInv, TypeInv
<1>2. KemInv'
    BY Zenon DEF LegInv, KemInv, TypeInv
<1> QED BY <1>1, <1>2, Zenon DEF LegInv

\* The initiator has not read anything when it writes its hello.
LEMMA LegWrites ==
    ASSUME LegInv, TypeInv, NEW s \in Sessions, WriteHello(s)
    PROVE  LegInv'
<1>1. /\ hellos' = hellos \cup {<<s, IF hybrid THEN <<s>> ELSE <<>>>>}
      /\ UNCHANGED <<hybrid, heard, kem>>
      /\ \A x \in Sessions : /\ Before(x)' = Before(x)
                             /\ pc'[x] = "start" => pc[x] = "start"
      /\ s \in Initiators
    <2>1. s \in Initiators
        BY Zenon DEF WriteHello, LegInv, KemInv
    <2>2. \A x \in Sessions : pc'[x] = IF x = s THEN "hello" ELSE pc[x]
        BY Zenon DEF WriteHello, TypeInv
    <2>3. \A x \in Sessions : /\ Before(x)' = Before(x)
                              /\ pc'[x] = "start" => pc[x] = "start"
        BY <2>2 DEF WriteHello, Before
    <2> QED BY <2>1, <2>3, Zenon DEF WriteHello
<1>2. HelloInv'
    <2> SUFFICES ASSUME NEW h \in hellos'
                 PROVE  /\ h[1] \in Initiators => h[2] = IF hybrid THEN <<h[1]>> ELSE <<>>
                        /\ h[1] \notin Initiators =>
                            /\ ~Before(h[1])'
                            /\ h[2] = IF hybrid THEN <<heard[h[1]], h[1]>> ELSE <<>>
        BY <1>1, Zenon DEF HelloInv
    <2>1. CASE h \in hellos
        BY <1>1, <2>1, Zenon DEF LegInv, HelloInv, TypeInv
    <2>2. CASE h = <<s, IF hybrid THEN <<s>> ELSE <<>>>>
        BY <1>1, <2>2
    <2> QED BY <1>1, <2>1, <2>2, Zenon
<1>3. KemInv'
    BY <1>1, Zenon DEF LegInv, KemInv, TypeInv
<1> QED BY <1>1, <1>2, <1>3, Zenon DEF LegInv

\* A hello is read: whatever was made of s before stays out of it, since nobody
\* has read a hello of a responder that has read none.
LEMMA LegReads ==
    ASSUME LegInv, TypeInv, NEW s \in Sessions, NEW h \in hellos,
           InitiatorReads(s, h[1], h[2]) \/ ResponderReads(s, h[1], h[2])
    PROVE  LegInv'
<1> DEFINE t == h[1]
           c == h[2]
<1>1. /\ pc[s] = "hello" /\ s # t /\ t \in Sessions
      /\ heard' = [heard EXCEPT ![s] = t] /\ hybrid' = hybrid
    BY Zenon DEF InitiatorReads, ResponderReads, TypeInv
<1>2. /\ heard'[s] = t /\ heard[s] = s /\ Before(s)
      /\ \A x \in Sessions : x # s => heard'[x] = heard[x] /\ kem'[x] = kem[x]
      /\ DOMAIN kem' = Sessions
    BY <1>1, Zenon DEF InitiatorReads, ResponderReads, TypeInv, LegInv, KemInv, Before
<1>3. /\ ~Before(s)' /\ pc'[s] # "start"
      /\ \A x \in Sessions : x # s => Before(x)' = Before(x) /\ pc'[x] = pc[x]
    BY <1>1, ZenonT(40) DEF InitiatorReads, ResponderReads, TypeInv, Before
<1>4. \A x \in Sessions : ~Before(x) => ~Before(x)' /\ heard'[x] = heard[x] /\ x # s
    BY <1>2, <1>3, Zenon
<1>5. ASSUME hybrid PROVE s \in Initiators <=> t \notin Initiators
    <2>1. CASE s \in Initiators
        <3>1. Cardinality(DOMAIN c) = 2
            BY <1>5, <2>1, ZenonT(40) DEF InitiatorReads, ResponderReads
        <3>2. t \in Initiators => c = <<t>>
            BY <1>5, Zenon DEF LegInv, HelloInv
        <3>3. t \notin Initiators
            BY <3>1, <3>2, Lengths
        <3> QED BY <2>1, <3>3
    <2>2. CASE s \notin Initiators
        <3>1. Cardinality(DOMAIN c) = 1
            BY <1>5, <2>2, ZenonT(40) DEF InitiatorReads, ResponderReads
        <3>2. t \notin Initiators => c = <<heard[t], t>>
            BY <1>5, Zenon DEF LegInv, HelloInv
        <3>3. t \in Initiators
            BY <3>1, <3>2, Lengths
        <3> QED BY <2>2, <3>3
    <2> QED BY <2>1, <2>2
<1>6. HelloInv'
    <2> SUFFICES ASSUME NEW k \in hellos'
                 PROVE  /\ k[1] \in Initiators => k[2] = IF hybrid THEN <<k[1]>> ELSE <<>>
                        /\ k[1] \notin Initiators =>
                            /\ ~Before(k[1])'
                            /\ k[2] = IF hybrid THEN <<heard'[k[1]], k[1]>> ELSE <<>>
        BY <1>1, Zenon DEF HelloInv
    <2>1. CASE k \in hellos
        BY <1>4, <2>1, ZenonT(40) DEF LegInv, HelloInv, TypeInv
    <2>2. CASE k = <<s, IF hybrid THEN <<t, s>> ELSE <<>>>> /\ s \notin Initiators
        BY <1>2, <1>3, <2>2, Zenon
    <2> QED BY <2>1, <2>2, Zenon DEF InitiatorReads, ResponderReads
<1>7. ~hybrid => kem'[s] = <<>>
    BY Zenon DEF InitiatorReads, ResponderReads, TypeInv
<1>8. hybrid /\ s \notin Initiators => kem'[s] = <<t, s>>
    BY ZenonT(40) DEF InitiatorReads, ResponderReads, TypeInv
<1>9. ASSUME hybrid, s \in Initiators
      PROVE  ~Before(t) /\ kem'[s] = decapsulate(s, <<heard[t], t>>)
    <2>1. kem'[s] = decapsulate(s, c)
        BY <1>9, ZenonT(40) DEF InitiatorReads, ResponderReads, TypeInv
    <2>2. t \notin Initiators
        BY <1>5, <1>9
    <2>3. ~Before(t) /\ c = <<heard[t], t>>
        BY <1>9, <2>2, Zenon DEF LegInv, HelloInv
    <2> QED BY <2>1, <2>3, Zenon
<1>10. KemInv'
    <2> SUFFICES ASSUME NEW x \in Sessions
                 PROVE  /\ Before(x)' => heard'[x] = x
                        /\ pc'[x] = "start" => x \in Initiators
                        /\ ~hybrid => kem'[x] = <<>>
                        /\ hybrid /\ heard'[x] # x =>
                            (x \in Initiators <=> heard'[x] \notin Initiators)
                        /\ hybrid /\ heard'[x] # x /\ x \notin Initiators =>
                            kem'[x] = <<heard'[x], x>>
                        /\ hybrid /\ heard'[x] # x /\ x \in Initiators =>
                            /\ ~Before(heard[x])'
                            /\ kem'[x] = decapsulate(x, <<heard'[heard'[x]], heard'[x]>>)
        <3>1. hybrid' = hybrid
            BY <1>1, Zenon
        <3> QED BY <3>1, ZenonT(40) DEF KemInv, Before, decapsulate
    <2>1. CASE x = s
        <3>1. hybrid /\ s \in Initiators => ~Before(t)' /\ heard'[t] = heard[t]
            BY <1>1, <1>4, <1>9, Zenon
        <3>2. Before(heard[s])' <=> Before(t)'
            BY <1>2, Zenon DEF Before
        <3>3. hybrid /\ s \in Initiators =>
                ~Before(heard[s])' /\ kem'[s] = decapsulate(s, <<heard'[heard'[s]], heard'[s]>>)
            BY <1>2, <1>9, <3>1, <3>2, Zenon
        <3> QED BY <1>1, <1>2, <1>3, <1>5, <1>7, <1>8, <2>1, <3>3, ZenonT(40)
    <2>2. CASE x # s
        <3>1. /\ heard'[x] = heard[x] /\ kem'[x] = kem[x] /\ heard[x] \in Sessions
              /\ pc'[x] = pc[x] /\ Before(x)' = Before(x)
            BY <1>2, <1>3, <2>2, Zenon DEF TypeInv
        <3>2. hybrid /\ heard[x] # x /\ x \in Initiators =>
                /\ ~Before(heard[x])' /\ heard'[heard[x]] = heard[heard[x]]
            BY <1>4, <3>1, Zenon DEF LegInv, KemInv
        <3> QED BY <3>1, <3>2, ZenonT(40) DEF LegInv, KemInv
    <2> QED BY <2>1, <2>2, Zenon
<1> QED BY <1>1, <1>6, <1>10, Zenon DEF LegInv

\* It holds at all times.
LEMMA LegInvHolds == Spec => []LegInv
<1>1. Init => LegInv
    <2> SUFFICES ASSUME Init PROVE LegInv
        OBVIOUS
    <2>1. HelloInv
        BY DEF Init, HelloInv
    <2>2. KemInv
        BY DEF Init, KemInv, Before
    <2> QED BY <2>1, <2>2 DEF Init, LegInv
<1>2. ASSUME IInv, LegInv, [Next]_vars PROVE LegInv'
    <2>0. TypeInv
        BY <1>2 DEF IInv
    <2>1. ASSUME NEW s \in Sessions, WriteHello(s) PROVE LegInv'
        BY <1>2, <2>0, <2>1, LegWrites
    <2>2. ASSUME NEW s \in Sessions, SendToken(s) \/ Timeout(s) PROVE LegInv'
        <3>1. /\ UNCHANGED <<hybrid, heard, kem, hellos>>
              /\ \A x \in Sessions : (Before(x)' => Before(x)) /\ (pc'[x] = "start" => pc[x] = "start")
            BY <2>0, <2>2, Zenon DEF SendToken, Timeout, Before, TypeInv
        <3> QED BY <1>2, <2>0, <3>1, LegKept
    <2>3. ASSUME NEW s \in Sessions, NEW h \in hellos,
                 InitiatorReads(s, h[1], h[2]) \/ ResponderReads(s, h[1], h[2])
          PROVE  LegInv'
        BY <1>2, <2>0, <2>3, LegReads
    <2>4. ASSUME NEW s \in Sessions, NEW g \in sigs, ReadSig(s, g) PROVE LegInv'
        <3>1. /\ UNCHANGED <<hybrid, heard, kem, hellos>>
              /\ \A x \in Sessions : (Before(x)' => Before(x)) /\ (pc'[x] = "start" => pc[x] = "start")
            BY <2>0, <2>4, Zenon DEF ReadSig, Before, TypeInv
        <3> QED BY <1>2, <2>0, <3>1, LegKept, Zenon
    <2>5. ASSUME NEW s \in Sessions, NEW f \in frames, ReceiveToken(s, f) PROVE LegInv'
        <3>1. /\ UNCHANGED <<hybrid, heard, kem, hellos>>
              /\ \A x \in Sessions : (Before(x)' => Before(x)) /\ (pc'[x] = "start" => pc[x] = "start")
            BY <2>0, <2>5, Zenon DEF ReceiveToken, Before, TypeInv
        <3> QED BY <1>2, <2>0, <3>1, LegKept
    <2>6. CASE UNCHANGED vars
        <3>1. /\ UNCHANGED <<hybrid, heard, kem, hellos>>
              /\ \A x \in Sessions : (Before(x)' => Before(x)) /\ (pc'[x] = "start" => pc[x] = "start")
            BY <2>6 DEF vars, Before
        <3> QED BY <1>2, <2>0, <3>1, LegKept, Zenon
    <2> QED BY <1>2, <2>1, <2>2, <2>3, <2>4, <2>5, <2>6 DEF Next
<1> QED BY <1>1, <1>2, InitInv, NextInv, PTL DEF Spec

\* Two sessions of different identities that have read each other's hello have
\* the same transcript, classical or hybrid, whichever began and whatever else
\* either of them could have read: neither refuses the other's signature.
THEOREM SameTranscriptHolds == Spec => []SameTranscript
<1>1. LegInv => SameTranscript
    <2> SUFFICES ASSUME LegInv, NEW s \in Sessions, NEW t \in Sessions,
                        heard[s] = t, heard[t] = s, Identity[s] # Identity[t]
                 PROVE  Transcript(s) = Transcript(t)
        BY Zenon DEF SameTranscript
    <2>1. s # t
        BY Zenon
    <2>2. Ordered(s, t) = Ordered(t, s)
        <3>1. Identity[s] \in Nat /\ Identity[t] \in Nat
            BY HandshakeAssumption, Zenon
        <3>2. CASE Identity[s] < Identity[t]
            <4>1. ~(Identity[t] < Identity[s])
                BY <3>1, <3>2, SMTT(30)
            <4> QED BY <3>2, <4>1, Zenon DEF Ordered
        <3>3. CASE Identity[t] < Identity[s]
            <4>1. ~(Identity[s] < Identity[t])
                BY <3>1, <3>3
            <4> QED BY <3>3, <4>1, Zenon DEF Ordered
        <3> QED BY <3>1, <3>2, <3>3
    <2>3. ASSUME NEW x \in Sessions, NEW y \in Sessions, x # y, heard[x] = y, heard[y] = x,
                 hybrid, x \in Initiators
          PROVE  kem[x] = kem[y]
        <3>1. y \notin Initiators /\ kem[y] = <<x, y>>
            BY <2>3, ZenonT(40) DEF LegInv, KemInv
        <3>2. kem[x] = decapsulate(x, <<x, y>>)
            BY <2>3, Zenon DEF LegInv, KemInv
        <3> QED BY <3>1, <3>2, Zenon DEF decapsulate
    <2>4. ASSUME hybrid, s \notin Initiators PROVE t \in Initiators
        BY <2>1, <2>4, ZenonT(40) DEF LegInv, KemInv
    <2>5. kem[s] = kem[t]
        <3>1. CASE hybrid
            BY <2>1, <2>3, <2>4, <3>1, Zenon
        <3>2. CASE ~hybrid
            BY <3>2, Zenon DEF LegInv, KemInv
        <3> QED BY <3>1, <3>2, Zenon DEF LegInv
    <2> QED BY <2>2, <2>5, Zenon DEF Transcript, transcript_msg
<1> QED BY <1>1, LegInvHolds, PTL
=============================================================================
