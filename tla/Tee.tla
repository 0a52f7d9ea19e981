------------------------------- MODULE Tee -------------------------------
(***************************************************************************)
(* The specter-tee crate: a mint guest binds its public key into an        *)
(* attestation report, and a verifier accepts the report against a         *)
(* certificate chain and a TCB policy.                                     *)
(*                                                                         *)
(* A guest runs on a chip whose firmware differs from report to report (an *)
(* update, a rollback).  The platform signs what it is asked to sign.  The *)
(* channel between guest and verifier loses, repeats and damages           *)
(* envelopes: an envelope stays on the wire once sent, and what a verifier *)
(* reads is one of its damaged forms.  A session is one exchange of a      *)
(* verifier with the guest it believes holds a key; the crate leaves the   *)
(* session to its caller and says what the caller owes (a nonce per        *)
(* request), so sessions are external.                                     *)
(*                                                                         *)
(* Hashes of user data are injective constructors.  Every table on the     *)
(* wire holds vendor certificates: what the crate does with a root that is *)
(* not the vendor's is the sev crate's business and not modelled.          *)
(***************************************************************************)
EXTENDS Integers, FiniteSets

CONSTANTS
  Guests,    \* function: guest -> [pk, provider, chip, measurement, table]
  LineOf,    \* function: chip -> the product line whose ASK signs its VCEK
  Firmwares, \* the TcbVersions a chip may run, functions on Components
  Verifiers, \* [provider, policy]: what verifiers run
  Sessions,  \* positive numbers: the exchanges, each with its own nonce
  MaxMade    \* bound on the reports requested

VARIABLES
  session,   \* Sessions -> [state, pk, nonce, policy, verifier]
  envelopes, \* every attestation a guest has sent
  made       \* every signed report: who asked, and the body

teeVars == <<session, envelopes, made>>

Components == {"bootloader", "tee", "snp", "microcode"}

user_data_from_pubkey(pk) == <<"key", pk, 0>>

user_data_from_pubkey_and_nonce(pk, nonce) == <<"nonce", pk, nonce>>

permissive ==
  [min_tcb |-> [c \in Components |-> 0], allowed_measurements |-> {}, max_vmpl |-> 3]

\* Mutant: the four versions compared as one packed number.
check_packed(policy, body) ==
  LET packed(v) == 27 * v["bootloader"] + 9 * v["tee"] + 3 * v["snp"] + v["microcode"]
  IN  /\ packed(body.tcb) >= packed(policy.min_tcb)
      /\ body.vmpl <= policy.max_vmpl
      /\ policy.allowed_measurements # {} => body.measurement \in policy.allowed_measurements

check(policy, body) ==
  /\ \A c \in Components : body.tcb[c] >= policy.min_tcb[c]
  /\ body.vmpl <= policy.max_vmpl
  /\ policy.allowed_measurements # {} => body.measurement \in policy.allowed_measurements

(* -------------------------------- certificates ------------------------- *)

\* A certificate is its subject; an ASK and an ARK belong to a product line.
CertTables ==
  LET lines == {LineOf[chip] : chip \in DOMAIN LineOf}
  IN  [ark : lines, ask : lines, vcek : DOMAIN LineOf]

\* The table a platform keeps: complete, or with a VLEK where the VCEK is looked
\* for, or (no extended report) none at all.
serialize_cert_table(kind, chip) ==
  CASE kind = "full" -> [ark |-> LineOf[chip], ask |-> LineOf[chip], vcek |-> chip]
    [] kind = "vlek" -> [ark |-> LineOf[chip], ask |-> LineOf[chip], vlek |-> chip]
    [] kind = "none" -> <<>>

chain_from_cert_table(table) == {"ark", "ask", "vcek"} \subseteq DOMAIN table

\* chain.verify(): the ARK signs the ASK, the ASK signs the VCEK.
chain_verify(table) ==
  /\ table["ark"] = table["ask"]
  /\ LineOf[table["vcek"]] = table["ask"]

\* (chain, report).verify(): the VCEK signed exactly this body.
report_verify(table, report) ==
  /\ report.signature.body = report.body
  /\ report.signature.chip = table["vcek"]

(* --------------------------------- providers --------------------------- *)

\* Mutant: the signed bytes are compared on the key only, the nonce only in the
\* envelope's own copy of the user data.
verify_snp_report_outer(attestation, expected, policy) ==
  /\ attestation.platform = "SevSnp"
  /\ attestation.user_data = expected
  /\ attestation.report.kind = "snp"
  /\ attestation.report.body.report_data[2] = expected[2]
  /\ chain_from_cert_table(attestation.report.cert_table)
  /\ chain_verify(attestation.report.cert_table)
  /\ report_verify(attestation.report.cert_table, attestation.report)
  /\ check(policy, attestation.report.body)

\* The size caps, the envelope parse and the report parse fail alike: an
\* envelope is "snp" when all of them succeed.
verify_snp_report(attestation, expected, policy) ==
  /\ attestation.platform = "SevSnp"
  /\ attestation.user_data = expected
  /\ attestation.report.kind = "snp"
  /\ attestation.report.body.report_data = expected
  /\ chain_from_cert_table(attestation.report.cert_table)
  /\ chain_verify(attestation.report.cert_table)
  /\ report_verify(attestation.report.cert_table, attestation.report)
  /\ check(policy, attestation.report.body)

mock_verify_report(attestation, expected) ==
  /\ attestation.platform = "None"
  /\ attestation.user_data = expected
  /\ attestation.report = [kind |-> "mock", user_data |-> expected]

\* The providers of AttestationProvider: the SEV-SNP one and the portable one
\* delegate to the same function, the null one refuses everything.
verify_report(provider, attestation, expected, policy) ==
  \/ provider \in {"snp", "portable"} /\ verify_snp_report(attestation, expected, policy)
  \/ provider = "mock" /\ mock_verify_report(attestation, expected)

\* The signed report the firmware answers with: get_ext_report.
get_ext_report(g, tcb, vmpl, user_data) ==
  LET body == [report_data |-> user_data, tcb |-> tcb, vmpl |-> vmpl,
               measurement |-> Guests[g].measurement]
  IN  [kind |-> "snp", body |-> body,
       signature |-> [body |-> body, chip |-> Guests[g].chip],
       cert_table |-> serialize_cert_table(Guests[g].table, Guests[g].chip)]

Open == {s \in Sessions : session[s].state = "open"}

Sent(g, report) ==
  /\ envelopes' = envelopes \cup {[platform |-> "SevSnp", report |-> report,
                         user_data |-> report.body.report_data]}
  /\ made' = made \cup {[guest |-> g, body |-> report.body]}

\* The mock's envelope is of its own making, with no platform behind it.
mock_request_report(user_data) ==
  [platform |-> "None", user_data |-> user_data,
   report |-> [kind |-> "mock", user_data |-> user_data]]

\* request_report of the provider the guest runs: SEV-SNP asks at VMPL 0, null
\* and portable answer with an error.
request_report(g, user_data) ==
  \/ /\ Guests[g].provider = "snp"
     /\ \E tcb \in Firmwares : Sent(g, get_ext_report(g, tcb, 0, user_data))
  \/ /\ Guests[g].provider = "mock"
     /\ envelopes' = envelopes \cup {mock_request_report(user_data)}
     /\ UNCHANGED made
  \/ /\ Guests[g].provider \in {"null", "portable"}
     /\ UNCHANGED <<envelopes, made>>

(* --------------------------------- actions ----------------------------- *)

NoSession == [state |-> "new"]

\* A verifier decides which key, policy and provider it uses, with or without a
\* nonce of its own; the session's number is the nonce.
Challenge(s) ==
  /\ session[s] = NoSession
  /\ \E pk \in {Guests[g].pk : g \in DOMAIN Guests}, v \in Verifiers, nonce \in {0, s} :
       session' = [session EXCEPT ![s] = [state |-> "open", pk |-> pk, nonce |-> nonce,
                                          policy |-> v.policy, verifier |-> v.provider]]
  /\ UNCHANGED <<envelopes, made>>

Expected(s) ==
  IF session[s].nonce = 0
  THEN user_data_from_pubkey(session[s].pk)
  ELSE user_data_from_pubkey_and_nonce(session[s].pk, session[s].nonce)

\* A guest binds its own key, alone or with the nonce of a session it was sent.
Attest(g) ==
  /\ Cardinality(made) < MaxMade
  /\ \E user_data \in {user_data_from_pubkey(Guests[g].pk)} \cup
                      {user_data_from_pubkey_and_nonce(Guests[g].pk, s) :
                         s \in {r \in Open : session[r].nonce = r}} :
       request_report(g, user_data)
  /\ UNCHANGED session

\* Software of the guest below VMPL 0 has the platform sign the same kind of report.
AttestBelow(g) ==
  /\ Cardinality(made) < MaxMade
  /\ Guests[g].provider = "snp"
  /\ \E tcb \in Firmwares :
       Sent(g, get_ext_report(g, tcb, 1, user_data_from_pubkey(Guests[g].pk)))
  /\ UNCHANGED session

\* What arrives for an envelope sent: itself, or with one unsigned part replaced,
\* or with the signed body changed, or unreadable.
Arrivals(a, s) ==
  {a, [a EXCEPT !.user_data = Expected(s)],
      [a EXCEPT !.report = [kind |-> "unreadable"]]} \cup
  (IF a.report.kind # "snp" THEN {} ELSE
  {[a EXCEPT !.platform = "None"]} \cup
  {[a EXCEPT !.user_data = Expected(s), !.report.body.report_data = Expected(s)]} \cup
  {[a EXCEPT !.report.body.tcb = [c \in Components |-> 1]]} \cup
  {[a EXCEPT !.report.cert_table = t] : t \in CertTables})

\* A refused envelope leaves the session open for the next one.
Examine(s) ==
  /\ session[s].state = "open"
  /\ TRUE \in {verify_report(session[s].verifier, arrived, Expected(s), session[s].policy) :
                 arrived \in UNION {Arrivals(a, s) : a \in envelopes}}
  /\ session' = [session EXCEPT ![s].state = "accepted"]
  /\ UNCHANGED <<envelopes, made>>

TeeInit ==
  /\ session = [s \in Sessions |-> NoSession]
  /\ envelopes = {}
  /\ made = {}

TeeNext ==
  \/ \E s \in Sessions : Challenge(s) \/ Examine(s)
  \/ \E g \in DOMAIN Guests : Attest(g) \/ AttestBelow(g)

TeeSpec == TeeInit /\ [][TeeNext]_teeVars

(* -------------------------------- properties --------------------------- *)

Accepted == {s \in Sessions : session[s].state = "accepted"
                               /\ session[s].verifier \in {"snp", "portable"}}

\* verify_report promises a report that binds the user data AND meets the policy:
\* an accepted session rests on a report the guest with that key had signed while
\* every firmware component was at its floor or above (not the versions taken
\* together), at an allowed VMPL and with an allowed measurement, whatever was
\* swapped or changed on the way.
AcceptedMeetsPolicy ==
  \A s \in Accepted : \E r \in made :
    /\ Guests[r.guest].pk = session[s].pk
    /\ \A c \in Components : r.body.tcb[c] >= session[s].policy.min_tcb[c]
    /\ r.body.vmpl <= session[s].policy.max_vmpl
    /\ session[s].policy.allowed_measurements # {}
         => r.body.measurement \in session[s].policy.allowed_measurements

\* user_data_from_pubkey_and_nonce "prevents replay of captured attestations": a
\* session with a nonce accepts only what the guest with that key had signed for
\* that session's nonce, never a report made for its key alone or for another
\* session, however the envelope around it was put together.
AcceptedIsFresh ==
  \A s \in Accepted : session[s].nonce # 0 =>
    \E r \in made : Guests[r.guest].pk = session[s].pk /\ r.body.report_data = Expected(s)
==========================================================================
