----------------------------- MODULE TokenWire -----------------------------
(***************************************************************************)
(* The binary form of a token: serialize_token, serialize_token_public and *)
(* deserialize_token of specter-core/src/serde_token.rs, and what becomes  *)
(* of the bytes in between.                                                *)
(*                                                                         *)
(* A buffer is a sequence of cells, each a field or a run of fields of     *)
(* fixed width that are read together, so that a buffer cut anywhere       *)
(* inside a cell is the buffer cut before it.  A cell has the kind it was  *)
(* written as and a value; the reader does not see kinds: a cell read as   *)
(* another kind gives "garbage", which may or may not be refused later.    *)
(***************************************************************************)
EXTENDS Integers, Sequences, FiniteSets, FiniteSetsExt, SequencesExt

CONSTANTS
    MaxChain,     \* bound: the transfers of a token
    MaxPool,      \* bound: the credentials in the pool
    LenMod,       \* 256: a length is written as u8
    Places        \* the jurisdictions, as sequences of characters

\* A character "-" is one of those that the reader allows, "/" is not.
ASSUME WireAssumption ==
    /\ MaxChain \in Nat /\ MaxPool \in Nat
    /\ LenMod \in Nat \ {0}
    /\ \A p \in Places : \A i \in 1..Len(p) : p[i] \in {"-", "/"}

VARIABLES
    original,     \* the token that is written
    written,      \* how: "no", "all", "public", "cut" or "longer"
    buffer,       \* the bytes
    decoded       \* what deserialize_token has returned, or Unread

wireVars == <<original, written, buffer, decoded>>

Absent == <<>>
Unread == [st |-> "unread"]
Refused == [st |-> "err"]
Garbage == [st |-> "garbage"]

\* Tokens as the mint and transfers make them.  Secrets are not zero, and a
\* credential comes with its presentation.
Credentials(place) == [blinding : {7}, jurisdiction : {place}]
Presentations == [disclosed : {<<>>, <<1, 2>>}, responses : {<<3>>, <<3, 4>>}]
WireTokens ==
    UNION {[value : {1}, secret : {9}, chain : {[i \in 1..n |-> i]},
            bound : {MaxChain}, credential : c, presentation : p,
            vdf : BOOLEAN, bond : BOOLEAN,
            pool : UNION {[1..m -> {<<cc, pp>> : cc \in c, pp \in p}] :
                              m \in 0..MaxPool}] :
        n \in 0..MaxChain, p \in {{q} : q \in Presentations},
        c \in {Credentials(place) : place \in Places}}
    \cup
    [value : {1}, secret : {9}, chain : {[i \in 1..n |-> i] : n \in 0..MaxChain},
     bound : {MaxChain}, credential : {Absent}, presentation : {Absent},
     vdf : BOOLEAN, bond : BOOLEAN, pool : {<<>>}]

WireInit ==
    /\ original \in WireTokens
    /\ written = "no"
    /\ buffer = <<>>
    /\ decoded = Unread

-----------------------------------------------------------------------------

cell(kind, v) == [kind |-> kind, v |-> v]
cells(kind, s) == [i \in 1..Len(s) |-> cell(kind, s[i])]

\* A credential without its flag, in the token and in the pool.
write_credential(c) ==
    <<cell("commitment", 0), cell("blinding", c.blinding), cell("flags", 0),
      cell("len", Len(c.jurisdiction) % LenMod)>>
    \o cells("char", c.jurisdiction)
    \o <<cell("signature", 0)>>

\* A presentation without its flag.
write_presentation(p) ==
    <<cell("head", 0), cell("len", Len(p.disclosed) % LenMod)>>
    \o cells("disclosed", p.disclosed)
    \o <<cell("proof", 0), cell("len", Len(p.responses) % LenMod)>>
    \o cells("response", p.responses)
    \o <<cell("challenge", 0)>>

\* An optional part, after its flag.
write_option(present, s) ==
    IF present THEN <<cell("flag", 1)>> \o s ELSE <<cell("flag", 0)>>

serialize_token(t) ==
    <<cell("header", 0), cell("id", 0), cell("value", t.value),
      cell("signatures", 0), cell("secret", t.secret), cell("head", 0),
      cell("count", Len(t.chain)), cell("bound", t.bound), cell("genesis", 0),
      cell("steps", Len(t.chain))>>
    \o cells("step", t.chain)
    \o <<cell("hash", 0)>>
    \o (IF t.credential = Absent THEN write_option(FALSE, <<>>)
        ELSE write_option(TRUE, write_credential(t.credential)))
    \o (IF t.presentation = Absent THEN write_option(FALSE, <<>>)
        ELSE write_option(TRUE, write_presentation(t.presentation)))
    \o write_option(t.vdf, <<cell("vdf", 0)>>)
    \o write_option(t.bond, <<cell("bond", 0)>>)
    \o <<cell("pool", Len(t.pool))>>
    \o FlattenSeq([i \in 1..Len(t.pool) |->
                      write_credential(t.pool[i][1])
                      \o write_presentation(t.pool[i][2])])

OwnerSecret == 5   \* OWNER_SECRET_OFFSET, in cells

\* Mutant: the offset is that of a token with one transfer.
cred_flag_offset_fixed(t) == OwnerSecret + 8

\* cred_flag_offset, in cells.
cred_flag_offset(t) == OwnerSecret + 5 + Len(t.chain) + 2

\* serialize_token_public overwrites the secret and, behind a flag that is set,
\* the blinding factor of the credential.
serialize_token_public(t) ==
    LET buf == serialize_token(t)
        flag == cred_flag_offset(t)
        zeroed == [buf EXCEPT ![OwnerSecret].v = 0]
    IN  IF flag <= Len(buf) /\ buf[flag].v = 1 /\ flag + 2 <= Len(buf)
        THEN [zeroed EXCEPT ![flag + 2].v = 0]
        ELSE zeroed

-----------------------------------------------------------------------------

\* A reader: the position after what was read, whether all went well, and the
\* value read last.
Start == [pos |-> 1, st |-> "ok", last |-> 0]

\* The read_ functions, one after the other.
Read(data, r, kinds) ==
    LET at(i) == r.pos + i - 1
        bad == {i \in 1..Len(kinds) : at(i) > Len(data) \/ data[at(i)].kind # kinds[i]}
    IN  IF r.st # "ok" THEN r
        ELSE IF bad # {}
        THEN [r EXCEPT !.last = 0,
                       !.st = IF at(Min(bad)) > Len(data) THEN "err" ELSE "garbage"]
        ELSE [r EXCEPT !.pos = at(Len(kinds) + 1),
                       !.last = IF kinds = <<>> THEN @ ELSE data[at(Len(kinds))].v]

\* n fields of one kind.
ReadMany(data, r, n, kind) == Read(data, r, [i \in 1..n |-> kind])

\* A check of the value read last.
Check(r, ok) == IF r.st = "ok" /\ ~ok THEN [r EXCEPT !.st = "err", !.last = 0] ELSE r

\* The values of the n cells before the reader's position.
ReadBack(data, r, n) == [i \in 1..n |-> data[r.pos - n + i - 1].v]

SafeChars(s) == \A i \in 1..Len(s) : s[i] # "/"

\* A credential at the position of r, with or without the check of its
\* jurisdiction, which is made for the credential of the token only.
read_credential(data, r, checked) ==
    LET len == Read(data, r, <<"commitment", "blinding", "flags", "len">>)
        jur == ReadMany(data, len, len.last, "char")
        place == IF jur.st = "ok" THEN ReadBack(data, jur, len.last) ELSE <<>>
    IN  [r |-> Read(data, Check(jur, checked => SafeChars(place)), <<"signature">>),
         v |-> [blinding |-> IF len.st = "ok" THEN data[len.pos - 3].v ELSE 0,
                jurisdiction |-> place]]

\* Mutant: as many responses as disclosed attributes are read.
read_presentation_same(data, r) ==
    LET n == Read(data, r, <<"head", "len">>)
        d == ReadMany(data, n, n.last, "disclosed")
        m == Read(data, d, <<"proof", "len">>)
        e == ReadMany(data, m, n.last, "response")
    IN  [r |-> Read(data, e, <<"challenge">>),
         v |-> [disclosed |-> IF d.st = "ok" THEN ReadBack(data, d, n.last) ELSE <<>>,
                responses |-> IF e.st = "ok" THEN ReadBack(data, e, n.last) ELSE <<>>]]

read_presentation(data, r) ==
    LET n == Read(data, r, <<"head", "len">>)
        d == ReadMany(data, n, n.last, "disclosed")
        m == Read(data, d, <<"proof", "len">>)
        e == ReadMany(data, m, m.last, "response")
    IN  [r |-> Read(data, e, <<"challenge">>),
         v |-> [disclosed |-> IF d.st = "ok" THEN ReadBack(data, d, n.last) ELSE <<>>,
                responses |-> IF e.st = "ok" THEN ReadBack(data, e, m.last) ELSE <<>>]]

\* The pool; a buffer that ends before its count is of the old format.
read_pool(data, r) ==
    LET count == Read(data, r, <<"pool">>)
        entry(acc, i) ==
            LET c == read_credential(data, acc.r, FALSE)
                p == read_presentation(data, c.r)
            IN  [r |-> p.r, v |-> Append(acc.v, <<c.v, p.v>>)]
    IN  IF r.st = "ok" /\ r.pos > Len(data) THEN [r |-> r, v |-> <<>>]
        ELSE FoldLeft(entry, [r |-> count, v |-> <<>>],
                      [i \in 1..count.last |-> i])

\* deserialize_token.  Bytes behind the pool are not looked at.
deserialize_token(data) ==
    LET fixed == Read(data, Start, <<"header", "id", "value", "signatures",
                    "secret", "head", "count", "bound", "genesis", "steps">>)
        head == Check(fixed, /\ data[3].v # 0
                             /\ data[7].v <= data[8].v)
        chain == ReadMany(data, head, head.last, "step")
        cflag == Read(data, chain, <<"hash", "flag">>)
        cred == IF cflag.last = 1 THEN read_credential(data, cflag, TRUE)
                ELSE [r |-> cflag, v |-> Absent]
        pflag == Read(data, cred.r, <<"flag">>)
        pres == IF pflag.last = 1 THEN read_presentation(data, pflag)
                ELSE [r |-> pflag, v |-> Absent]
        vflag == Read(data, pres.r, <<"flag">>)
        vdf == IF vflag.last = 1 THEN Read(data, vflag, <<"vdf">>) ELSE vflag
        bflag == Read(data, vdf, <<"flag">>)
        bond == IF bflag.last = 1 THEN Read(data, bflag, <<"bond">>) ELSE bflag
        pool == read_pool(data, bond)
    IN  CASE pool.r.st = "err" -> Refused
          [] pool.r.st = "garbage" -> Garbage
          [] pool.r.st = "ok" ->
               [st |-> "ok",
                token |-> [value |-> data[3].v, secret |-> data[5].v,
                           chain |-> ReadBack(data, chain, head.last),
                           bound |-> data[8].v,
                           credential |-> cred.v, presentation |-> pres.v,
                           vdf |-> vflag.last = 1, bond |-> bflag.last = 1,
                           pool |-> pool.v]]

-----------------------------------------------------------------------------

\* The token is written in one of the two forms.
WriteToken ==
    /\ written = "no"
    /\ \/ written' = "all" /\ buffer' = serialize_token(original)
       \/ written' = "public" /\ buffer' = serialize_token_public(original)
    /\ UNCHANGED <<original, decoded>>

\* The buffer loses its end, or gets more bytes.
Damage ==
    /\ written = "all" /\ decoded = Unread
    /\ \/ /\ written' = "cut"
          /\ \E n \in 0..(Len(buffer) - 1) : buffer' = SubSeq(buffer, 1, n)
       \/ /\ written' = "longer"
          /\ buffer' = Append(buffer, cell("header", 0))
    /\ UNCHANGED <<original, decoded>>

Parse ==
    /\ written # "no" /\ decoded = Unread
    /\ decoded' = deserialize_token(buffer)
    /\ UNCHANGED <<original, written, buffer>>

WireNext == WriteToken \/ Damage \/ Parse

WireSpec == WireInit /\ [][WireNext]_wireVars

-----------------------------------------------------------------------------

\* The jurisdictions whose length fits a u8.
Short(t) ==
    t.credential # Absent => Len(t.credential.jurisdiction) < LenMod

Readable(t) ==
    t.credential # Absent => SafeChars(t.credential.jurisdiction)

\* What was written is what is read, also with more bytes behind it; a token
\* whose jurisdiction has a character that deserialize_token does not allow is
\* written but refused.  A buffer that was cut is refused, and the only cut
\* that is not loses the pool and nothing else ("old format without credential
\* pool").
RoundTrip ==
    (decoded # Unread /\ Short(original)) =>
        CASE written \in {"all", "longer"} ->
                decoded = IF Readable(original)
                          THEN [st |-> "ok", token |-> original] ELSE Refused
          [] written = "cut" ->
                \/ decoded = Refused
                \/ decoded = [st |-> "ok", token |-> [original EXCEPT !.pool = <<>>]]
          [] written = "public" -> TRUE

\* serialize_token_public "zeros both the credential blinding factor AND the
\* owner_secret", for every length of the transfer chain, and nothing else.
PublicZeroesSecrets ==
    (decoded # Unread /\ written = "public" /\ Short(original)
         /\ Readable(original)) =>
        LET t == [original EXCEPT !.secret = 0]
        IN  decoded = [st |-> "ok",
                       token |-> IF t.credential = Absent THEN t
                                 ELSE [t EXCEPT !.credential.blinding = 0]]
=============================================================================
