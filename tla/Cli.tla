-------------------------------- MODULE Cli --------------------------------
(***************************************************************************)
(* The commands of specter-cli/src/main.rs over the files of their users:  *)
(* the wallet (specter-core: wallet.rs, secure_store.rs, verify.rs) and    *)
(* the node identity.  Every invocation of the program is a process.       *)
(* Processes of one user share the files without a lock; fs::write first   *)
(* empties a file and then fills it, and a process may stop in between.    *)
(*                                                                         *)
(* A file that is encrypted under another passphrase, or that is not       *)
(* complete, does not decrypt.  The connection of send and receive is that *)
(* of module Handshake: what is sent arrives at one receiver or nowhere.   *)
(***************************************************************************)
EXTENDS Integers, Sequences, FiniteSets, FiniteSetsExt

CONSTANTS
    Users,        \* each has a wallet file and an identity file
    Processes,    \* bound: processes that run at a time
    Passphrases,  \* what get_passphrase returns
    Commands,     \* the commands that are given
    Persistent,   \* whether all invocations have the same mint: no for the
                  \* code as it is, "in production" yes
    MaxTransfers, \* recursion_bound
    MaxRuns,      \* bound: invocations
    Faults        \* "crash": processes stop; "peer": other programs send tokens

ASSUME CliAssumption ==
    /\ Persistent \subseteq BOOLEAN
    /\ MaxTransfers \in Nat /\ MaxRuns \in Nat
    /\ Faults \subseteq {"crash", "peer"}
    /\ Commands \subseteq {"setup", "mint", "balance", "transfer", "send",
                           "receive", "save", "load"}

VARIABLES
    persistent,   \* an element of Persistent
    wallet_file,  \* wallet_file[u]: Missing, Torn or a saved wallet
    identity_file,\* identity_file[u]: Missing, Torn or the passphrase of it
    process,      \* process[p]: a running command, or Ended
    stream,       \* tokens on their way to a receiver
    runs,         \* invocations so far; also the source of fresh values
    saves,        \* history: the wallets that were completely written
    excused       \* history: tokens whose loss has one of the causes below

cliVars == <<persistent, wallet_file, identity_file, process, stream, runs,
             saves, excused>>

Missing == [is |-> "missing"]
Torn == [is |-> "torn"]
Ended == [phase |-> "ended"]

CliInit ==
    /\ persistent \in Persistent
    /\ wallet_file = [u \in Users |-> Missing]
    /\ identity_file = [u \in Users |-> Missing]
    /\ process = [p \in Processes |-> Ended]
    /\ stream = {}
    /\ runs = 0
    /\ saves = {}
    /\ excused = {}

\* default_mint: the key of the mint of this invocation.
default_mint == IF persistent THEN 0 ELSE runs + 1

TokensIn(s) == {s[i].id : i \in DOMAIN s}
OnFile(u) == IF wallet_file[u].is = "saved"
             THEN TokensIn(wallet_file[u].tokens) ELSE {}

-----------------------------------------------------------------------------

\* VerificationResult::all_valid of verify_token: the mint's signature, the
\* binding of owner_secret to the last owner's key, and a credential that has
\* not expired, unless the caller gives no time.
all_valid(t, mint, timed) ==
    /\ t.mint = mint
    /\ t.secret
    /\ t.count <= MaxTransfers
    /\ timed => ~t.expired

\* secure_store::encrypt, of a whole wallet.
encrypt(tokens, pass) == [is |-> "saved", pass |-> pass, tokens |-> tokens]

\* Mutant: the tag of the ciphertext is not checked.
decrypt_unchecked(f, pass) == f.is = "saved"

\* secure_store::decrypt: under the passphrase of encrypt, and all of it.
decrypt(f, pass) == f.is = "saved" /\ f.pass = pass

\* Wallet::load verifies every token, and refuses the wallet for one of them.
wallet_load(f, pass, mint) ==
    /\ decrypt(f, pass)
    /\ \A i \in DOMAIN f.tokens : all_valid(f.tokens[i], mint, TRUE)

\* A missing file, and every error of Wallet::load, gives an empty wallet.
load_or_create_wallet(f, pass, mint) ==
    IF wallet_load(f, pass, mint) THEN f.tokens ELSE <<>>

\* The tokens on file that a load does not return.
Unloaded(u, pass, mint) ==
    OnFile(u) \ TokensIn(load_or_create_wallet(wallet_file[u], pass, mint))

needs_renewal(t) == t.count >= MaxTransfers

\* The index of the token that Wallet::take_token(1) removes, or 0: the
\* smallest value, and the first one of that value.
TakeIndex(tokens) ==
    LET ok == {i \in DOMAIN tokens :
                  tokens[i].value >= 1 /\ ~needs_renewal(tokens[i])}
        best == {i \in ok : \A j \in ok : tokens[i].value <= tokens[j].value}
    IN  IF ok = {} THEN 0 ELSE Min(best)

\* The tokens after Vec::remove in take_token.
Without(tokens, i) == SubSeq(tokens, 1, i - 1) \o SubSeq(tokens, i + 1, Len(tokens))

\* Mint::issue of a token of the CLI, whose credential does not expire.
Issued(id, mint, value) ==
    [id |-> id, mint |-> mint, value |-> value, count |-> 0, secret |-> TRUE,
     expired |-> FALSE]

\* The process p of user u goes on with the wallet tokens, to save it.
Goes(p, u, cmd, pass, phase, tokens, taken) ==
    process' = [process EXCEPT ![p] =
        [phase |-> phase, user |-> u, cmd |-> cmd, pass |-> pass,
         tokens |-> tokens, taken |-> taken, stale |-> FALSE]]

-----------------------------------------------------------------------------

\* An invocation begins.
Invoke(p, cmd) ==
    /\ cmd \in Commands
    /\ process[p] = Ended
    /\ runs < MaxRuns
    /\ runs' = runs + 1

\* cmd_setup does not look at the wallet that is there.
cmd_setup(p, u, pass) ==
    /\ Invoke(p, "setup")
    /\ Goes(p, u, "setup", pass, "saving", <<>>, <<>>)
    /\ excused' = excused \cup OnFile(u)
    /\ UNCHANGED <<persistent, wallet_file, identity_file, stream, saves>>

\* cmd_mint; the result of add_token is not looked at.
cmd_mint(p, u, pass) ==
    /\ Invoke(p, "mint")
    /\ \E value \in 1..2 :
        Goes(p, u, "mint", pass, "saving",
             Append(load_or_create_wallet(wallet_file[u], pass, default_mint),
                    Issued(runs + 1, default_mint, value)), <<>>)
    /\ excused' = excused \cup Unloaded(u, pass, default_mint)
    /\ UNCHANGED <<persistent, wallet_file, identity_file, stream, saves>>

\* cmd_balance and cmd_load show the wallet.
ShowWallet(p, u, pass, cmd) ==
    /\ Invoke(p, cmd)
    /\ Goes(p, u, cmd, pass, "shown",
            load_or_create_wallet(wallet_file[u], pass, default_mint), <<>>)
    /\ UNCHANGED <<persistent, wallet_file, identity_file, stream, saves, excused>>

cmd_balance(p, u, pass) == ShowWallet(p, u, pass, "balance")
cmd_load(p, u, pass) == ShowWallet(p, u, pass, "load")

\* cmd_save writes back the wallet that was loaded.
cmd_save(p, u, pass) ==
    /\ Invoke(p, "save")
    /\ Goes(p, u, "save", pass, "saving",
            load_or_create_wallet(wallet_file[u], pass, default_mint), <<>>)
    /\ excused' = excused \cup Unloaded(u, pass, default_mint)
    /\ UNCHANGED <<persistent, wallet_file, identity_file, stream, saves>>

\* cmd_transfer, to a new owner key in the same wallet.
cmd_transfer(p, u, pass) ==
    LET tokens == load_or_create_wallet(wallet_file[u], pass, default_mint)
        i == TakeIndex(tokens)
    IN  /\ Invoke(p, "transfer")
        /\ i # 0
        /\ Goes(p, u, "transfer", pass, "saving",
                Append(Without(tokens, i),
                       [tokens[i] EXCEPT !.count = @ + 1]), <<>>)
        /\ excused' = excused \cup Unloaded(u, pass, default_mint)
        /\ UNCHANGED <<persistent, wallet_file, identity_file, stream, saves>>

\* NodeIdentity::load_or_create: an identity that cannot be decoded is replaced.
load_or_create_identity(u, pass) ==
    identity_file' = [identity_file EXCEPT ![u] = [is |-> "saved", pass |-> pass]]

\* cmd_send up to the connection.  The wallet file is not changed yet.
cmd_send(p, u, pass) ==
    LET tokens == load_or_create_wallet(wallet_file[u], pass, default_mint)
        i == TakeIndex(tokens)
    IN  /\ Invoke(p, "send")
        /\ load_or_create_identity(u, pass)
        /\ IF i = 0 THEN UNCHANGED process
           ELSE Goes(p, u, "send", pass, "sending", Without(tokens, i), <<tokens[i]>>)
        /\ UNCHANGED <<persistent, wallet_file, stream, saves, excused>>

\* A receiver waits for a connection.
Listening == \E p \in Processes : process[p].phase = "listening"

\* Mutant: the wallet is saved although nothing was sent.
SendNothing(p) ==
    /\ process[p].phase = "sending"
    /\ process' = [process EXCEPT ![p].phase = "saving", ![p].taken = <<>>]
    /\ UNCHANGED <<persistent, wallet_file, identity_file, stream, runs, saves,
                   excused>>

\* The handshake succeeds and the token is written, without its secret
\* (serialize_token_public); then the wallet is saved.
Send(p) ==
    /\ process[p].phase = "sending"
    /\ Listening
    /\ stream' = stream \cup {[process[p].taken[1] EXCEPT !.secret = FALSE]}
    /\ process' = [process EXCEPT ![p].phase = "saving", ![p].taken = <<>>]
    /\ UNCHANGED <<persistent, wallet_file, identity_file, runs, saves, excused>>

\* No connection, no handshake or a broken stream: send ends, and the token is
\* still on file.  If only the last write or flush fails the receiver has it too.
SendFails(p) ==
    /\ process[p].phase = "sending"
    /\ process' = [process EXCEPT ![p] = Ended]
    /\ \/ UNCHANGED stream
       \/ /\ Listening
          /\ stream' = stream \cup {[process[p].taken[1] EXCEPT !.secret = FALSE]}
    /\ UNCHANGED <<persistent, wallet_file, identity_file, runs, saves, excused>>

\* cmd_receive up to accept.
cmd_receive(p, u, pass) ==
    /\ Invoke(p, "receive")
    /\ load_or_create_identity(u, pass)
    /\ Goes(p, u, "receive", pass, "listening", <<>>, <<>>)
    /\ UNCHANGED <<persistent, wallet_file, stream, saves, excused>>

\* A token arrives.  It is checked without a time, against the mint of this
\* invocation; the wallet is loaded after that.
Receive(p, t) ==
    LET u == process[p].user
        pass == process[p].pass
        mint == IF persistent THEN 0 ELSE -1
    IN  /\ process[p].phase = "listening"
        /\ stream' = stream \ {t}
        /\ IF all_valid(t, mint, FALSE)
           THEN /\ Goes(p, u, "receive", pass, "saving",
                        Append(load_or_create_wallet(wallet_file[u], pass, mint), t),
                        <<>>)
                /\ excused' = excused \cup Unloaded(u, pass, mint)
           ELSE /\ process' = [process EXCEPT ![p] = Ended]
                /\ excused' = excused \cup {t.id}
        /\ UNCHANGED <<persistent, wallet_file, identity_file, runs, saves>>

\* Another program sends a whole token of this mint, once or again; its
\* credential may have expired.
PeerSends ==
    /\ "peer" \in Faults
    /\ stream = {} /\ Listening
    /\ \E late \in BOOLEAN :
        stream' = {[Issued(0, default_mint, 1) EXCEPT !.expired = late]}
    /\ UNCHANGED <<persistent, wallet_file, identity_file, process, runs, saves,
                   excused>>

\* fs::write empties the file.  What another process has written since the
\* wallet was loaded is gone.
Truncate(p) ==
    LET u == process[p].user
    IN  /\ process[p].phase = "saving"
        /\ wallet_file' = [wallet_file EXCEPT ![u] = Torn]
        /\ process' = [process EXCEPT ![p].phase = "writing"]
        /\ excused' = IF process[p].stale THEN excused \cup OnFile(u) ELSE excused
        /\ UNCHANGED <<persistent, identity_file, stream, runs, saves>>

\* fs::write fills it (Wallet::save).  Other processes that have loaded the
\* wallet do not notice.
Write(p) ==
    LET u == process[p].user
        w == encrypt(process[p].tokens, process[p].pass)
    IN  /\ process[p].phase = "writing"
        /\ wallet_file' = [wallet_file EXCEPT ![u] = w]
        /\ saves' = saves \cup {<<u, w>>}
        /\ process' = [q \in Processes |->
               IF q = p THEN Ended
               ELSE IF process[q] # Ended /\ process[q].user = u
                    THEN [process[q] EXCEPT !.stale = TRUE]
                    ELSE process[q]]
        /\ excused' = IF process[p].stale THEN excused \cup OnFile(u) ELSE excused
        /\ UNCHANGED <<persistent, identity_file, stream, runs>>

\* A process stops: what it had on its hands only is lost.
Crash(p) ==
    /\ "crash" \in Faults
    /\ process[p] # Ended
    /\ process' = [process EXCEPT ![p] = Ended]
    /\ excused' = IF process[p].phase \in {"saving", "writing"}
                  THEN excused \cup TokensIn(process[p].tokens) ELSE excused
    /\ UNCHANGED <<persistent, wallet_file, identity_file, stream, runs, saves>>

\* A command that only shows the wallet ends.
Shown(p) ==
    /\ process[p].phase = "shown"
    /\ process' = [process EXCEPT ![p] = Ended]
    /\ UNCHANGED <<persistent, wallet_file, identity_file, stream, runs, saves,
                   excused>>

CliNext ==
    \/ \E p \in Processes, u \in Users, pass \in Passphrases :
        \/ cmd_setup(p, u, pass)
        \/ cmd_mint(p, u, pass)
        \/ cmd_balance(p, u, pass) \/ cmd_load(p, u, pass) \/ cmd_save(p, u, pass)
        \/ cmd_transfer(p, u, pass)
        \/ cmd_send(p, u, pass)
        \/ cmd_receive(p, u, pass)
    \/ \E p \in Processes :
        \/ Send(p) \/ SendFails(p)
        \/ \E t \in stream : Receive(p, t)
        \/ Truncate(p) \/ Write(p) \/ Crash(p) \/ Shown(p)
    \/ PeerSends

CliSpec == CliInit /\ [][CliNext]_cliVars

-----------------------------------------------------------------------------

\* A wallet that a command shows, changes or sends from is one that was
\* completely written for that user under that passphrase, or empty: whatever
\* processes overlap, and wherever they stop, no load gives a part of a wallet
\* or a mixture of two.
ShownIsSaved ==
    \A p \in Processes :
        (process[p].phase = "shown" /\ process[p].tokens # <<>>) =>
            \E s \in saves : /\ s[1] = process[p].user
                             /\ s[2].pass = process[p].pass
                             /\ s[2].tokens = process[p].tokens

Somewhere ==
    (UNION {OnFile(u) : u \in Users})
    \cup {t.id : t \in stream}
    \cup (UNION {TokensIn(process[p].tokens) \cup TokensIn(process[p].taken) :
                     p \in {q \in Processes : process[q] # Ended}})

\* A token that was once saved is on file, in a process or on its way, unless
\* its loss has a cause: a setup, a wallet that could not be loaded, a process
\* that stopped while it had the token, another process that wrote the file
\* meanwhile, or a receiver that refused the token.  In particular send never
\* loses a token when there is no connection.
EveryLossHasACause ==
    UNION {TokensIn(s[2].tokens) : s \in saves} \subseteq Somewhere \cup excused
=============================================================================
