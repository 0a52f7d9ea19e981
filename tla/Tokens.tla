------------------------------- MODULE Tokens -------------------------------
(***************************************************************************)
(* The life of proof-carrying tokens: issued, transferred, split, renewed, *)
(* verified and kept in wallets (specter-core: mint.rs, transfer.rs,       *)
(* renewal.rs, verify.rs, token.rs, wallet.rs; specter-fold:               *)
(* accumulator.rs), over one nullifier set.                                *)
(*                                                                         *)
(* A random 32-byte value is a number that was never drawn before, and     *)
(* next is the first such number.  An owner's signing key is the owner's   *)
(* secret; a signature is what it signs and who made it.  A commitment is  *)
(* the value it commits to.  A credential is <<id, k>>, the k-th that was  *)
(* issued for the token id, or <<0, n>> if it was issued to refresh one.   *)
(***************************************************************************)
EXTENDS Integers, Sequences, FiniteSets, FiniteSetsExt

CONSTANTS
    Bound,        \* recursion_bound
    MaxValue,     \* bound: the largest value that is issued
    MaxFresh,     \* bound: random values that are drawn
    Env           \* what may happen: "signers" too few to sign, "io" errors of
                  \* the nullifier set, credentials that "expire", a "careless"
                  \* caller, who spends tokens that need renewal, and "backup"
                  \* of a wallet

ASSUME TokensAssumption ==
    /\ Bound \in Nat \ {0}
    /\ MaxValue \in Nat
    /\ MaxFresh \in Nat
    /\ Env \subseteq {"signers", "io", "expire", "careless", "backup"}

VARIABLES
    held,         \* tokens that are in a wallet or in a caller's hands
    saved,        \* tokens that are in the saved wallet
    spent,        \* the nullifier set
    expired,      \* whether the credentials are past expires_at
    next,         \* see above
    issued        \* history: the total value that was issued for money

vars == <<held, saved, spent, expired, next, issued>>

NoCredential == <<0, 0>>

Init ==
    /\ held = {} /\ saved = {} /\ spent = {}
    /\ expired = FALSE
    /\ next = 1
    /\ issued = 0

-----------------------------------------------------------------------------
(* Tokens and what is checked of them *)

\* Mint::issue_full, with random value n for the token id and for the owner's
\* secret: the mint signs the id, the commitment and the first owner's key.
Token(n, v, attributes) ==
    [id |-> n, value |-> v, commitment |-> v, signature |-> <<n, v, n>>,
     secret |-> n, count |-> 0,
     genesis |-> n, chain |-> <<>>, steps |-> 0,
     credential |-> IF attributes THEN <<n, 0>> ELSE NoCredential,
     pool |-> IF attributes THEN [k \in 1..Bound |-> <<n, k>>] ELSE <<>>]

compute_nullifier(t) == <<t.secret, t.id>>

needs_renewal(t) == t.count >= Bound

\* AccumulatedProof::current_owner_pk after the first i steps.
OwnerAfter(t, i) == IF i = 0 THEN t.genesis ELSE t.chain[i].owner

signature_valid(t) == t.signature = <<t.id, t.commitment, t.genesis>>
value_valid(t) == t.value # 0 /\ t.value = t.commitment
within_bound(t) == t.count <= Bound

\* verify_accumulated_proof: every step is signed by the owner before it.
accum_valid(t) ==
    /\ t.steps = Len(t.chain)
    /\ \A i \in 1..Len(t.chain) :
        t.chain[i].signed = <<OwnerAfter(t, i - 1), t.id, i, t.chain[i].owner>>

fold_valid(t) ==
    /\ t.secret = OwnerAfter(t, Len(t.chain))
    /\ accum_valid(t)

\* credential_valid; a caller who passes 0 for the time skips the expiry.
credential_valid(t, late) == t.credential = NoCredential \/ ~late

all_valid(t, late) ==
    /\ signature_valid(t) /\ value_valid(t) /\ within_bound(t) /\ fold_valid(t)
    /\ credential_valid(t, late)

-----------------------------------------------------------------------------
(* Operations *)

\* Issuing for money; an error changes nothing.
Issue(v, attributes) ==
    /\ next < MaxFresh
    /\ held' = held \cup {Token(next, v, attributes)}
    /\ next' = next + 1
    /\ issued' = issued + v
    /\ UNCHANGED <<saved, spent, expired>>

\* Mutant: the step signs the number of the step before it.
FoldedOffByOne(t, n) ==
    [t EXCEPT !.chain = Append(@, [owner |-> n, signed |-> <<t.secret, t.id,
                                                              t.steps, n>>]),
              !.steps = @ + 1]

\* fold_transfer_signed.
Folded(t, n) ==
    [t EXCEPT !.chain = Append(@, [owner |-> n, signed |-> <<t.secret, t.id,
                                                              t.steps + 1, n>>]),
              !.steps = @ + 1]

\* BoundExceeded and PrevOwnerMismatch of fold_transfer_signed.
FoldOk(t) == t.steps < Bound /\ t.secret = OwnerAfter(t, Len(t.chain))

\* Mutant: the pool keeps the credential that is taken from it.
NextCredentialKept(t) ==
    IF t.pool = <<>> THEN t ELSE [t EXCEPT !.credential = Head(t.pool)]

\* A transfer takes the first credential of the pool, if there is one.
NextCredential(t) ==
    IF t.pool = <<>> THEN t
    ELSE [t EXCEPT !.credential = Head(t.pool), !.pool = Tail(t.pool)]

\* refresh_credential, which an online transfer calls.
Refreshed(t, n) ==
    IF t.credential = NoCredential THEN t
    ELSE [t EXCEPT !.credential = <<0, n>>]

Received(t, n, online) ==
    LET u == [NextCredential(Folded(t, n)) EXCEPT !.secret = n, !.count = @ + 1]
    IN  IF online THEN Refreshed(u, n) ELSE u

\* Mutant: the nullifier is noted but its answer is not looked at.
TransferAgain(t, online) ==
    /\ t \in held
    /\ next < MaxFresh
    /\ ~needs_renewal(t)
    /\ spent' = spent \cup {compute_nullifier(t)}
    /\ held' = (held \ {t}) \cup
            (IF FoldOk(t) THEN {Received(t, next, online)} ELSE {})
    /\ next' = next + 1
    /\ UNCHANGED <<saved, expired, issued>>

\* transfer: the nullifier is noted, then the chain is extended.  An error
\* after the first leaves no token.
Transfer(t, online) ==
    /\ t \in held
    /\ next < MaxFresh
    /\ ~needs_renewal(t)
    /\ compute_nullifier(t) \notin spent
    /\ spent' = spent \cup {compute_nullifier(t)}
    /\ held' = (held \ {t}) \cup
            (IF FoldOk(t) THEN {Received(t, next, online)} ELSE {})
    /\ next' = next + 1
    /\ UNCHANGED <<saved, expired, issued>>

\* The errors of transfer before the nullifier is noted, and those of
\* transfer_checked.  The token was passed by value and is dropped.
TransferFails(t) ==
    /\ t \in held
    /\ \/ needs_renewal(t) /\ "careless" \in Env
       \/ compute_nullifier(t) \in spent
       \/ "io" \in Env
       \/ ~all_valid(t, expired) /\ "careless" \in Env
    /\ held' = held \ {t}
    /\ UNCHANGED <<saved, spent, expired, next, issued>>

\* Mutant: the values of the outputs may sum to less or more.
SplitUnbalanced(t, v, w) ==
    /\ t \in held
    /\ next + 1 < MaxFresh
    /\ signature_valid(t) /\ value_valid(t) /\ within_bound(t) /\ fold_valid(t)
    /\ v > 0 /\ w > 0
    /\ compute_nullifier(t) \notin spent
    /\ held' = held \cup {Token(next, v, FALSE), Token(next + 1, w, FALSE)}
    /\ next' = next + 2
    /\ spent' = spent \cup {compute_nullifier(t)}
    /\ UNCHANGED <<saved, expired, issued>>

\* Mint::split into two: the outputs are issued, without a credential, then the
\* nullifier is noted.  The input is borrowed and stays with the caller, and
\* any error leaves everything as it was.
Split(t, v, w) ==
    /\ t \in held
    /\ next + 1 < MaxFresh
    /\ signature_valid(t) /\ value_valid(t) /\ within_bound(t) /\ fold_valid(t)
    /\ v > 0 /\ w > 0
    /\ v + w = t.value
    /\ compute_nullifier(t) \notin spent
    /\ held' = held \cup {Token(next, v, FALSE), Token(next + 1, w, FALSE)}
    /\ next' = next + 2
    /\ spent' = spent \cup {compute_nullifier(t)}
    /\ UNCHANGED <<saved, expired, issued>>

\* Mutant: the old token is not marked as spent.
RenewUnspent(t) ==
    /\ t \in held
    /\ next < MaxFresh
    /\ signature_valid(t) /\ value_valid(t) /\ fold_valid(t)
    /\ credential_valid(t, FALSE)
    /\ compute_nullifier(t) \notin spent
    /\ held' = (held \ {t}) \cup
            {Token(next, t.value, t.credential # NoCredential)}
    /\ next' = next + 1
    /\ UNCHANGED <<saved, spent, expired, issued>>

\* renew_token: the old token is marked as spent, then the new one is issued.
\* At or below the bound, and with the expiry of the credential skipped.
Renew(t) ==
    /\ t \in held
    /\ next < MaxFresh
    /\ signature_valid(t) /\ value_valid(t) /\ fold_valid(t)
    /\ credential_valid(t, FALSE)
    /\ compute_nullifier(t) \notin spent
    /\ spent' = spent \cup {compute_nullifier(t)}
    /\ \/ held' = (held \ {t}) \cup
                {Token(next, t.value, t.credential # NoCredential)}
       \/ /\ "signers" \in Env
          /\ held' = held \ {t}
    /\ next' = next + 1
    /\ UNCHANGED <<saved, expired, issued>>

\* The errors of renew_token before the token is marked as spent; it is
\* dropped.
RenewFails(t) ==
    /\ t \in held
    /\ compute_nullifier(t) \in spent \/ "io" \in Env
    /\ held' = held \ {t}
    /\ UNCHANGED <<saved, spent, expired, next, issued>>

\* Wallet::save, over what was saved before.
Save ==
    /\ "backup" \in Env
    /\ saved # held
    /\ saved' = held
    /\ UNCHANGED <<held, spent, expired, next, issued>>

\* Wallet::load: the tokens are in hand again, whatever became of them since.
\* One token that does not verify is enough for nothing to be loaded.
Load ==
    /\ \A t \in saved : all_valid(t, expired)
    /\ ~ saved \subseteq held
    /\ held' = held \cup saved
    /\ UNCHANGED <<saved, spent, expired, next, issued>>

\* The time passes expires_at.
Expire ==
    /\ "expire" \in Env
    /\ ~expired
    /\ expired' = TRUE
    /\ UNCHANGED <<held, saved, spent, next, issued>>

Next ==
    \/ \E v \in 1..MaxValue, attributes \in BOOLEAN : Issue(v, attributes)
    \/ \E t \in held :
        \/ \E online \in BOOLEAN : Transfer(t, online)
        \/ TransferFails(t)
        \/ \E v, w \in 1..MaxValue : Split(t, v, w)
        \/ Renew(t) \/ RenewFails(t)
    \/ Save \/ Load
    \/ Expire

Spec == Init /\ [][Next]_vars

-----------------------------------------------------------------------------
(* Properties *)

\* The tokens, wherever they are kept, whose nullifier is not spent.
Live == {t \in held \cup saved : compute_nullifier(t) \notin spent}

LiveValue == MapThenSumSet(LAMBDA t : t.value, Live)

\* No sequence of transfers, splits and renewals, of copies from saved wallets
\* too, makes more spendable value than was issued for money.
NoInflation == LiveValue <= issued

\* A token has one owner: of all its versions and copies at most one can be
\* spent, since transfer notes the nullifier of the one before it.
OneOwner ==
    \A t, u \in Live : t.id = u.id => t = u

\* Every token that the operations produce passes verify_token: the chain that
\* fold_transfer_signed builds is the one verify_accumulated_proof accepts, and
\* the count never passes the bound.
ProducedVerifies == \A t \in held \cup saved : all_valid(t, FALSE)

\* "Each offline transfer consumes one entry": no two owners of a token present
\* the same credential, offline or online.
Unlinkable ==
    \A t, u \in held \cup saved :
        t.id = u.id /\ t.steps # u.steps /\ t.credential # NoCredential
            => t.credential # u.credential

\* A step that puts a token into somebody's hands carries the value over: what
\* issue, transfer, split, renewal and load return is worth what was paid or
\* spent for it, never more or less.
ValueCarriedOver ==
    [][~(held' \subseteq held) => LiveValue' - issued' = LiveValue - issued]_vars

\* "Renewal creates a fresh token with the same value", and an error of an
\* operation costs nobody the token: what was issued can still be spent.
NothingLost == LiveValue = issued
=============================================================================
