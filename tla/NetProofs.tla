----------------------------- MODULE NetProofs ------------------------------
(***************************************************************************)
(* Proofs about statements that are signed and passed on.  Gossip: for     *)
(* any nodes and links between them, any caps on queues and sets, and      *)
(* links that lose, duplicate, reorder and make up messages.  Attestation  *)
(* chains: for any devices, any number of cheaters and copies, and chains  *)
(* of any length.  What an accepted attestation of a guest rests on: for   *)
(* any number of guests, chips, reports and sessions.                      *)
(***************************************************************************)
EXTENDS Gossip, Attestation, Tee, FiniteSums, SequenceTheorems, TLAPS

-----------------------------------------------------------------------------
(* Attestations of guests *)

\* The reports that the platform has signed, each for the key of the guest that
\* asked.
MadeInv ==
    \A r \in made :
        r.guest \in DOMAIN Guests /\ r.body.report_data[2] = Guests[r.guest].pk

\* What is on the envelopes: reports as the platform signed them, or the mock's.
IsSigned(a) ==
    \E r \in made : \E chip, table, d :
        a = [platform |-> "SevSnp", user_data |-> d,
             report |-> [kind |-> "snp", body |-> r.body,
                         signature |-> [body |-> r.body, chip |-> chip],
                         cert_table |-> table]]

IsMock(a) == \E d : a = mock_request_report(d)

WireInv == \A a \in envelopes : IsSigned(a) \/ IsMock(a)

\* A session is new, or decided on everything.
Decided(s) ==
    /\ session[s].state \in {"open", "accepted"}
    /\ session[s] = [state |-> session[s].state, pk |-> session[s].pk,
                     nonce |-> session[s].nonce, policy |-> session[s].policy,
                     verifier |-> session[s].verifier]

SessionInv ==
    /\ DOMAIN session = Sessions
    /\ \A s \in Sessions : session[s] = NoSession \/ Decided(s)

\* An accepted session rests on a signed report with the user data it expects
\* that passes its policy.
RestsOn(s, r) ==
    /\ r.body.report_data = Expected(s)
    /\ check(session[s].policy, r.body)

AcceptedInv == \A s \in Accepted : \E r \in made : RestsOn(s, r)

TeeInv == MadeInv /\ WireInv /\ SessionInv /\ AcceptedInv

\* The user data a session expects names the key it is about.
LEMMA ExpectedKey == ASSUME NEW s PROVE Expected(s)[2] = session[s].pk
BY DEF Expected, user_data_from_pubkey, user_data_from_pubkey_and_nonce

\* Whatever is done to an envelope on the way, what verify_snp_report accepts has
\* the body that the platform signed.
LEMMA ArrivedIsSigned ==
    ASSUME WireInv, NEW s, NEW a \in envelopes, NEW b \in Arrivals(a, s), NEW d, NEW policy,
           verify_snp_report(b, d, policy)
    PROVE  \E r \in made : r.body.report_data = d /\ check(policy, r.body)
<1>1. /\ b.report.kind = "snp" /\ b.report.body.report_data = d
      /\ b.report.signature.body = b.report.body
      /\ check(policy, b.report.body)
    BY Zenon DEF verify_snp_report, report_verify
<1>2. CASE IsMock(a)
    <2>1. PICK e : a = [platform |-> "None", user_data |-> e,
                        report |-> [kind |-> "mock", user_data |-> e]]
        BY <1>2, ZenonT(40) DEF IsMock, mock_request_report
    <2>2. a.report.kind # "snp"
        BY <2>1
    <2>3. b \in {a, [a EXCEPT !.user_data = Expected(s)],
                 [a EXCEPT !.report = [kind |-> "unreadable"]]}
        BY <2>2, SMTT(30) DEF Arrivals
    <2> QED BY <1>1, <2>1, <2>3
<1>3. CASE IsSigned(a)
    <2>0. PICK r \in made : \E chip, table, e :
            a = [platform |-> "SevSnp", user_data |-> e,
                 report |-> [kind |-> "snp", body |-> r.body,
                             signature |-> [body |-> r.body, chip |-> chip],
                             cert_table |-> table]]
        BY <1>3, ZenonT(40) DEF IsSigned
    <2>1. PICK chip, table, e :
            a = [platform |-> "SevSnp", user_data |-> e,
                 report |-> [kind |-> "snp", body |-> r.body,
                             signature |-> [body |-> r.body, chip |-> chip],
                             cert_table |-> table]]
        BY <2>0, ZenonT(40)
    <2>2. b.report.signature.body = r.body
        <3>1. CASE b = a
            BY <2>1, <3>1
        <3>2. CASE b = [a EXCEPT !.user_data = Expected(s)]
            BY <2>1, <3>2
        <3>3. CASE b = [a EXCEPT !.report = [kind |-> "unreadable"]]
            BY <1>1, <2>1, <3>3
        <3>4. CASE b = [a EXCEPT !.platform = "None"]
            BY <2>1, <3>4, SMTT(30)
        <3>5. CASE b = [a EXCEPT !.user_data = Expected(s),
                                 !.report.body.report_data = Expected(s)]
            BY <2>1, <3>5, SMTT(30)
        <3>6. CASE b = [a EXCEPT !.report.body.tcb = [c \in Components |-> 1]]
            BY <2>1, <3>6, SMTT(30)
        <3>7. ASSUME NEW t \in CertTables, b = [a EXCEPT !.report.cert_table = t]
              PROVE  b.report.signature.body = r.body
            BY <2>1, <3>7, SMTT(30)
        <3> QED BY <3>1, <3>2, <3>3, <3>4, <3>5, <3>6, <3>7, SMTT(30) DEF Arrivals
    <2> QED BY <1>1, <2>2
<1> QED BY <1>2, <1>3, SMTT(30) DEF WireInv

\* What an accepted session rests on stays, as long as the session does.
LEMMA AcceptedStays ==
    ASSUME AcceptedInv, made \subseteq made', NEW s \in Accepted',
           s \in Accepted, session'[s] = session[s]
    PROVE  \E r \in made' : RestsOn(s, r)'
<1>1. PICK r \in made : RestsOn(s, r)
    BY DEF AcceptedInv
<1>2. RestsOn(s, r)'
    BY <1>1, SMTT(30) DEF RestsOn, Expected
<1> QED BY <1>1, <1>2

\* A signed report is sent.
LEMMA SentInv ==
    ASSUME TeeInv, NEW g \in DOMAIN Guests, NEW tcb, NEW vmpl, NEW d,
           d[2] = Guests[g].pk, Sent(g, get_ext_report(g, tcb, vmpl, d)),
           UNCHANGED session
    PROVE  TeeInv'
<1> DEFINE body == [report_data |-> d, tcb |-> tcb, vmpl |-> vmpl,
                    measurement |-> Guests[g].measurement]
           table == serialize_cert_table(Guests[g].table, Guests[g].chip)
           rep == [kind |-> "snp", body |-> body,
                   signature |-> [body |-> body, chip |-> Guests[g].chip],
                   cert_table |-> table]
           env == [platform |-> "SevSnp", report |-> rep, user_data |-> d]
           entry == [guest |-> g, body |-> body]
<1>1. envelopes' = envelopes \cup {env} /\ made' = made \cup {entry}
    BY SMTT(30) DEF Sent, get_ext_report
<1>2. entry.guest = g /\ entry.body = body /\ body.report_data = d
    BY SMTT(30)
<1>3. MadeInv'
    <2>1. \A r \in made :
            r.guest \in DOMAIN Guests /\ r.body.report_data[2] = Guests[r.guest].pk
        BY ZenonT(40) DEF TeeInv, MadeInv
    <2> HIDE DEF entry, body, env
    <2>2. entry.guest \in DOMAIN Guests /\ entry.body.report_data[2] = Guests[entry.guest].pk
        BY <1>2
    <2>3. \A r \in made' : r \in made \/ r = entry
        BY <1>1, SMTT(30)
    <2> QED BY <2>1, <2>2, <2>3, ZenonT(40) DEF MadeInv
<1>4. WireInv'
    <2>1. \A a \in envelopes : (IsSigned(a) \/ IsMock(a))'
        <3> TAKE a \in envelopes
        <3>1. made \subseteq made'
            BY <1>1, Zenon
        <3> QED BY <3>1 DEF TeeInv, WireInv, IsSigned, IsMock
    <2>2. IsSigned(env)'
        <3>1. entry \in made'
            BY <1>1, ZenonT(40)
        <3>2. env = [platform |-> "SevSnp", user_data |-> d,
                     report |-> [kind |-> "snp", body |-> entry.body,
                                 signature |-> [body |-> entry.body,
                                                chip |-> Guests[g].chip],
                                 cert_table |-> table]]
            BY ZenonT(40)
        <3> HIDE DEF entry, env, table, body, rep
        <3> QED BY <3>1, <3>2, ZenonT(40) DEF IsSigned
    <2> HIDE DEF env, entry
    <2> QED BY <1>1, <2>1, <2>2, SMTT(30) DEF WireInv
<1>5. SessionInv'
    BY ZenonT(40) DEF TeeInv, SessionInv, Decided
<1>6. AcceptedInv'
    <2>1. Accepted' = Accepted /\ made \subseteq made'
        BY <1>1, ZenonT(40) DEF Accepted
    <2> QED BY <2>1, AcceptedStays, SMTT(30) DEF TeeInv, AcceptedInv
<1> QED BY <1>3, <1>4, <1>5, <1>6, SMTT(30) DEF TeeInv

\* A step that leaves the sessions and the signed reports, and adds at most what
\* the mock makes of some user data.
LEMMA UnsignedInv ==
    ASSUME TeeInv, UNCHANGED <<session, made>>,
           \A a \in envelopes' : a \in envelopes \/ IsMock(a)
    PROVE  TeeInv'
<1>1. MadeInv' /\ SessionInv'
    BY SMTT(30) DEF TeeInv, MadeInv, SessionInv, Decided
<1>2. WireInv'
    BY DEF TeeInv, WireInv, IsSigned, IsMock
<1>3. AcceptedInv'
    <2>1. Accepted' = Accepted
        BY SMTT(30) DEF Accepted
    <2> QED BY <2>1, AcceptedStays, SMTT(30) DEF TeeInv, AcceptedInv
<1> QED BY <1>1, <1>2, <1>3, SMTT(30) DEF TeeInv

\* request_report, with user data for the key of the guest itself.
LEMMA AttestInv ==
    ASSUME TeeInv, NEW g \in DOMAIN Guests, Attest(g) PROVE TeeInv'
<1>1. PICK d \in {user_data_from_pubkey(Guests[g].pk)} \cup
                 {user_data_from_pubkey_and_nonce(Guests[g].pk, s) :
                    s \in {r \in Open : session[r].nonce = r}} :
        request_report(g, d)
    BY DEF Attest
<1>2. d[2] = Guests[g].pk
    BY <1>1 DEF user_data_from_pubkey, user_data_from_pubkey_and_nonce
<1>3. UNCHANGED session
    BY SMTT(30) DEF Attest
<1>4. ASSUME NEW tcb, Sent(g, get_ext_report(g, tcb, 0, d)) PROVE TeeInv'
    BY <1>2, <1>3, <1>4, SentInv, SMTT(30)
<1>5. CASE envelopes' = envelopes \cup {mock_request_report(d)} /\ UNCHANGED made
    BY <1>3, <1>5, UnsignedInv, SMTT(30) DEF IsMock
<1>6. CASE UNCHANGED <<envelopes, made>>
    BY <1>3, <1>6, UnsignedInv, SMTT(30)
<1> QED BY <1>1, <1>4, <1>5, <1>6, ZenonT(40) DEF request_report

\* A verifier decides what a new session is about.
LEMMA ChallengeInv ==
    ASSUME TeeInv, NEW s \in Sessions, Challenge(s) PROVE TeeInv'
<1>1. PICK pk, v, nonce :
        session' = [session EXCEPT ![s] = [state |-> "open", pk |-> pk, nonce |-> nonce,
                                           policy |-> v.policy, verifier |-> v.provider]]
    BY ZenonT(40) DEF Challenge
<1>2. UNCHANGED <<envelopes, made>>
    BY DEF Challenge
<1>3. /\ \A t \in Sessions : t # s => session'[t] = session[t]
      /\ session'[s] = [state |-> "open", pk |-> pk, nonce |-> nonce,
                        policy |-> v.policy, verifier |-> v.provider]
      /\ DOMAIN session' = Sessions
    BY <1>1, SMTT(30) DEF TeeInv, SessionInv
<1>4. MadeInv' /\ WireInv'
    BY <1>2, SMTT(30) DEF TeeInv, MadeInv, WireInv, IsSigned, IsMock
<1>5. SessionInv'
    <2>1. Decided(s)'
        BY <1>3, SMTT(30) DEF Decided
    <2> QED BY <1>3, <2>1, SMTT(30) DEF TeeInv, SessionInv, Decided
<1>6. AcceptedInv'
    <2>1. \A t \in Accepted' : t \in Accepted /\ session'[t] = session[t]
        BY <1>3 DEF Accepted
    <2> QED BY <1>2, <2>1, AcceptedStays, ZenonT(40) DEF TeeInv, AcceptedInv
<1> QED BY <1>4, <1>5, <1>6 DEF TeeInv

\* verify_report, on whatever arrives.
LEMMA ExamineInv ==
    ASSUME TeeInv, NEW s \in Sessions, Examine(s) PROVE TeeInv'
<1>1. PICK b \in UNION {Arrivals(a, s) : a \in envelopes} :
        verify_report(session[s].verifier, b, Expected(s), session[s].policy)
    BY Zenon DEF Examine
<1>2. PICK a \in envelopes : b \in Arrivals(a, s)
    BY <1>1
<1>3. /\ session' = [session EXCEPT ![s].state = "accepted"]
      /\ session[s].state = "open" /\ UNCHANGED <<envelopes, made>>
    BY DEF Examine
<1>4. Decided(s)
    BY <1>3 DEF TeeInv, SessionInv, NoSession
<1>5. /\ \A t \in Sessions : t # s => session'[t] = session[t]
      /\ session'[s] = [session[s] EXCEPT !.state = "accepted"]
      /\ DOMAIN session' = Sessions
    BY <1>3 DEF TeeInv, SessionInv
<1>6. session'[s] = [state |-> "accepted", pk |-> session[s].pk, nonce |-> session[s].nonce,
                     policy |-> session[s].policy, verifier |-> session[s].verifier]
    BY <1>4, <1>5, SMTT(30) DEF Decided
<1>7. /\ session'[s].pk = session[s].pk /\ session'[s].nonce = session[s].nonce
      /\ session'[s].policy = session[s].policy
      /\ session'[s].verifier = session[s].verifier
    BY <1>6
<1>8. MadeInv' /\ WireInv'
    BY <1>3 DEF TeeInv, MadeInv, WireInv, IsSigned, IsMock
<1>9. SessionInv'
    <2>1. Decided(s)'
        BY <1>6 DEF Decided
    <2> QED BY <1>5, <2>1, SMTT(30) DEF TeeInv, SessionInv, Decided
<1>10. AcceptedInv'
    <2> SUFFICES ASSUME NEW t \in Accepted' PROVE \E r \in made' : RestsOn(t, r)'
        BY DEF AcceptedInv
    <2>1. CASE t # s
        <3>1. t \in Accepted /\ session'[t] = session[t]
            BY <1>5, <2>1 DEF Accepted
        <3> QED BY <1>3, <3>1, AcceptedStays DEF TeeInv
    <2>2. CASE t = s
        <3>1. session[s].verifier \in {"snp", "portable"}
            BY <1>7, <2>2, SMTT(30) DEF Accepted
        <3>2. verify_snp_report(b, Expected(s), session[s].policy)
            BY <1>1, <3>1, SMTT(30) DEF verify_report
        <3>3. PICK r \in made :
                r.body.report_data = Expected(s) /\ check(session[s].policy, r.body)
            BY <1>2, <3>2, ArrivedIsSigned, SMTT(30) DEF TeeInv
        <3>4. Expected(s)' = Expected(s)
            BY <1>7, SMTT(30) DEF Expected
        <3>5. RestsOn(s, r)'
            BY <1>7, <3>3, <3>4, SMTT(30) DEF RestsOn
        <3> QED BY <1>3, <2>2, <3>3, <3>5, SMTT(30)
    <2> QED BY <2>1, <2>2
<1> QED BY <1>8, <1>9, <1>10 DEF TeeInv

\* The invariant holds at all times.
LEMMA TeeInvHolds == TeeSpec => []TeeInv
<1>1. TeeInit => TeeInv
    BY DEF TeeInit, TeeInv, MadeInv, WireInv, SessionInv, AcceptedInv, Accepted, NoSession
<1>2. ASSUME TeeInv, [TeeNext]_teeVars PROVE TeeInv'
    <2>1. ASSUME NEW s \in Sessions, Challenge(s) PROVE TeeInv'
        BY <1>2, <2>1, ChallengeInv
    <2>2. ASSUME NEW s \in Sessions, Examine(s) PROVE TeeInv'
        BY <1>2, <2>2, ExamineInv
    <2>3. ASSUME NEW g \in DOMAIN Guests, Attest(g) PROVE TeeInv'
        BY <1>2, <2>3, AttestInv, SMTT(30)
    <2>4. ASSUME NEW g \in DOMAIN Guests, AttestBelow(g) PROVE TeeInv'
        <3>1. PICK tcb \in Firmwares :
                Sent(g, get_ext_report(g, tcb, 1, user_data_from_pubkey(Guests[g].pk)))
            BY <2>4, SMTT(30) DEF AttestBelow
        <3>2. user_data_from_pubkey(Guests[g].pk)[2] = Guests[g].pk /\ UNCHANGED session
            BY <2>4 DEF user_data_from_pubkey, AttestBelow
        <3> QED BY <1>2, <3>1, <3>2, SentInv, SMTT(30)
    <2>5. CASE UNCHANGED teeVars
        BY <1>2, <2>5, UnsignedInv DEF teeVars
    <2> QED BY <1>2, <2>1, <2>2, <2>3, <2>4, <2>5 DEF TeeNext
<1> QED BY <1>1, <1>2, PTL DEF TeeSpec

\* An accepted session rests on a report that a guest with its key had signed and
\* that meets the verifier's policy in every component, for any guests, chips,
\* firmware versions and policies, whatever unsigned part of an envelope was
\* swapped, repeated or damaged on the way.
THEOREM AcceptedMeetsPolicyHolds == TeeSpec => []AcceptedMeetsPolicy
<1>1. TeeInv => AcceptedMeetsPolicy
    BY ExpectedKey, SMTT(30) DEF TeeInv, MadeInv, AcceptedInv, RestsOn, check, AcceptedMeetsPolicy
<1> QED BY <1>1, TeeInvHolds, PTL

\* A session with a nonce accepts only what was signed for that nonce: a captured
\* envelope of another session, or for the key alone, is never enough.
THEOREM AcceptedIsFreshHolds == TeeSpec => []AcceptedIsFresh
<1>1. TeeInv => AcceptedIsFresh
    BY ExpectedKey DEF TeeInv, MadeInv, AcceptedInv, RestsOn, AcceptedIsFresh
<1> QED BY <1>1, TeeInvHolds, PTL

-----------------------------------------------------------------------------
(* Gossip *)

TypeInv ==
    /\ seen \in [Nodes -> SUBSET Nullifiers]
    /\ outbox \in [Links -> Seq(Message)]
    /\ wire \in [Links -> SUBSET Message]

\* A message under a node's signature carries what was submitted there.
Origin(m) == m.signer # Nobody => <<m.signer, m.nullifier>> \in submitted

IInv ==
    /\ TypeInv
    /\ \A l \in Links : \A m \in wire[l] : Origin(m)
    /\ \A l \in Links : \A i \in DOMAIN outbox[l] : Origin(outbox[l][i])
    /\ \A v \in Nodes : \A n \in seen[v] : \E s \in Nodes : <<s, n>> \in submitted

-----------------------------------------------------------------------------

\* What is queued for a peer was queued before or is the message itself.
LEMMA QueueInv ==
    ASSUME IInv, submitted \subseteq submitted', NEW v, NEW m \in Message, NEW skip,
           Origin(m)', Queue(v, m, skip)
    PROVE  /\ outbox' \in [Links -> Seq(Message)]
           /\ \A l \in Links : \A i \in DOMAIN outbox'[l] : Origin(outbox[l][i])'
<1>1. outbox \in [Links -> Seq(Message)]
    BY DEF IInv, TypeInv
<1>2. \A l \in Links : outbox'[l] = outbox[l] \/ outbox'[l] = Append(outbox[l], m)
    BY DEF Queue
<1>3. \A l \in Links : outbox'[l] \in Seq(Message)
    <2> SUFFICES ASSUME NEW l \in Links PROVE outbox'[l] \in Seq(Message)
        OBVIOUS
    <2>1. outbox[l] \in Seq(Message)
        BY <1>1
    <2>2. Append(outbox[l], m) \in Seq(Message)
        BY <2>1, AppendProperties
    <2> QED BY <1>2, <2>1, <2>2, Zenon
<1>4. outbox' \in [Links -> Seq(Message)]
    BY <1>3 DEF Queue
<1>5. ASSUME NEW l \in Links, NEW i \in DOMAIN outbox'[l]
      PROVE  Origin(outbox[l][i])'
    <2>1. \A j \in DOMAIN outbox[l] : Origin(outbox[l][j])
        BY DEF IInv
    <2>2. CASE outbox'[l] = outbox[l]
        BY <2>1, <2>2, <1>5 DEF Origin
    <2>3. CASE outbox'[l] = Append(outbox[l], m)
        <3>1. /\ Len(Append(outbox[l], m)) = Len(outbox[l]) + 1
              /\ \A j \in 1..Len(outbox[l]) : Append(outbox[l], m)[j] = outbox[l][j]
              /\ Append(outbox[l], m)[Len(outbox[l]) + 1] = m
            BY <1>1, AppendProperties
        <3>2. i \in 1..Len(outbox[l]) \/ i = Len(outbox[l]) + 1
            BY <1>1, <1>5, <2>3
        <3>3. CASE i \in 1..Len(outbox[l])
            <4>1. outbox'[l][i] = outbox[l][i] /\ Origin(outbox[l][i])
                BY <1>1, <2>1, <2>3, <3>1, <3>3
            <4> QED BY <4>1 DEF Origin
        <3>4. CASE i = Len(outbox[l]) + 1
            BY <2>3, <3>1, <3>4 DEF Origin
        <3> QED BY <3>2, <3>3, <3>4
    <2> QED BY <1>2, <2>2, <2>3
<1> QED BY <1>4, <1>5

\* Nothing is known or on its way at the start.
LEMMA InitInv == Init => IInv
<1> SUFFICES ASSUME Init PROVE IInv
    OBVIOUS
<1>1. TypeInv
    BY DEF Init, TypeInv
<1> QED BY <1>1 DEF Init, IInv

\* submit_nullifier signs what was submitted.
LEMMA SubmitInv ==
    ASSUME IInv, NEW v \in Nodes, NEW n \in Nullifiers, Submit(v, n)
    PROVE  IInv'
<1> DEFINE m == [nullifier |-> n, sender |-> v, signer |-> v]
<1>1. submitted' = submitted \cup {<<v, n>>} /\ wire' = wire
    BY DEF Submit
<1>2. m \in Message /\ m.signer = v /\ m.nullifier = n
    BY DEF Message
<1>3. Origin(m)'
    BY <1>1 DEF Origin
<1>4. \A l \in Links : \A k \in wire'[l] : Origin(k)'
    BY <1>1 DEF IInv, Origin
<1>5. wire' \in [Links -> SUBSET Message]
    BY <1>1 DEF IInv, TypeInv
<1>6. CASE seen' = [seen EXCEPT ![v] = @ \cup {n}] /\ Queue(v, m, {})
    <2>1. /\ outbox' \in [Links -> Seq(Message)]
          /\ \A l \in Links : \A i \in DOMAIN outbox'[l] : Origin(outbox[l][i])'
        BY <1>1, <1>2, <1>3, <1>6, QueueInv, Zenon
    <2>2. /\ seen' \in [Nodes -> SUBSET Nullifiers]
          /\ \A u \in Nodes : \A k \in seen'[u] : \E s \in Nodes : <<s, k>> \in submitted'
        BY <1>1, <1>6, Zenon DEF IInv, TypeInv
    <2> QED BY <1>4, <1>5, <2>1, <2>2, Zenon DEF IInv, TypeInv
<1>7. CASE UNCHANGED <<seen, outbox, dropped>>
    <2>1. \A l \in Links : \A i \in DOMAIN outbox'[l] : Origin(outbox[l][i])'
        BY <1>1, <1>7, Zenon DEF IInv, Origin
    <2>2. \A u \in Nodes : \A k \in seen'[u] : \E s \in Nodes : <<s, k>> \in submitted'
        BY <1>1, <1>7, Zenon DEF IInv
    <2> QED BY <1>4, <1>5, <1>7, <2>1, <2>2, ZenonT(40) DEF IInv, TypeInv
<1> QED BY <1>6, <1>7 DEF Submit

\* handle_verified_broadcast: what is noted verifies, so its sender signed it.
LEMMA HandleInv ==
    ASSUME IInv, NEW p \in Nodes, NEW m \in Message, Origin(m),
           HandleVerifiedBroadcast(p, m), submitted' = submitted,
           wire' \in [Links -> SUBSET Message],
           \A l \in Links : wire'[l] \subseteq wire[l]
    PROVE  IInv'
<1>1. \A k : Origin(k)' <=> Origin(k)
    BY DEF Origin
<1>2. \A l \in Links : \A k \in wire'[l] : Origin(k)'
    BY <1>1 DEF IInv
<1>3. CASE /\ verify_nullifier_broadcast(m)
           /\ seen' = [seen EXCEPT ![p] = @ \cup {m.nullifier}]
           /\ Queue(p, m, {m.sender})
    <2>1. /\ outbox' \in [Links -> Seq(Message)]
          /\ \A l \in Links : \A i \in DOMAIN outbox'[l] : Origin(outbox[l][i])'
        BY <1>1, <1>3, QueueInv, Zenon
    <2>2. /\ m.sender \in Nodes /\ m.nullifier \in Nullifiers
          /\ <<m.sender, m.nullifier>> \in submitted
        BY <1>3, GossipAssumption DEF Message, verify_nullifier_broadcast, Origin
    <2>3. /\ seen' \in [Nodes -> SUBSET Nullifiers]
          /\ \A u \in Nodes : \A k \in seen'[u] : \E s \in Nodes : <<s, k>> \in submitted
        BY <1>3, <2>2, ZenonT(40) DEF IInv, TypeInv
    <2> QED BY <1>2, <2>1, <2>3, Zenon DEF IInv, TypeInv
<1>4. CASE Ignore(p, m)
    <2>1. \A l \in Links : \A i \in DOMAIN outbox'[l] : Origin(outbox[l][i])'
        BY <1>4, Zenon DEF IInv, Origin, Ignore
    <2> QED BY <1>2, <1>4, <2>1, Zenon DEF IInv, TypeInv, Ignore
<1> QED BY <1>3, <1>4 DEF HandleVerifiedBroadcast

\* drain_messages_for moves a queue to the link.
LEMMA DrainInv ==
    ASSUME IInv, NEW l \in Links, Drain(l[1], l[2]), l = <<l[1], l[2]>>
    PROVE  IInv'
<1>1. /\ wire' = [wire EXCEPT ![l] = @ \cup {outbox[l][i] : i \in DOMAIN outbox[l]}]
      /\ outbox' = [outbox EXCEPT ![l] = <<>>]
      /\ UNCHANGED <<seen, submitted>>
    BY Zenon DEF Drain
<1>2. \A i \in DOMAIN outbox[l] : outbox[l][i] \in Message /\ Origin(outbox[l][i])
    BY DEF IInv, TypeInv
<1>3. TypeInv'
    BY <1>1, <1>2 DEF IInv, TypeInv
<1>4. \A k \in Links : \A m \in wire'[k] : Origin(m)'
    BY <1>1, <1>2 DEF IInv, TypeInv, Origin
<1>5. \A k \in Links : \A i \in DOMAIN outbox'[k] : Origin(outbox[k][i])'
    <2> SUFFICES ASSUME NEW k \in Links, NEW i \in DOMAIN outbox'[k]
                 PROVE  Origin(outbox[k][i])'
        OBVIOUS
    <2>1. CASE k = l
        <3>1. outbox'[k] = <<>>
            BY <1>1, <2>1 DEF IInv, TypeInv
        <3> QED BY <3>1
    <2>2. CASE k # l
        <3>1. outbox'[k] = outbox[k]
            BY <1>1, <2>2 DEF IInv, TypeInv
        <3> QED BY <1>1, <3>1 DEF IInv, Origin
    <2> QED BY <2>1, <2>2
<1> QED BY <1>1, <1>3, <1>4, <1>5 DEF IInv

\* Every step of a node or a link keeps the invariant.
LEMMA NextInv == IInv /\ [Next]_vars => IInv'
<1> SUFFICES ASSUME IInv, [Next]_vars PROVE IInv'
    OBVIOUS
<1>1. ASSUME NEW s \in Submissions, Submit(s[1], s[2]) PROVE IInv'
    <2>1. s[1] \in Nodes /\ s[2] \in Nullifiers
        BY GossipAssumption
    <2> QED BY <1>1, <2>1, SubmitInv
<1>2. \A l \in Links : l = <<l[1], l[2]>> /\ l[1] \in Nodes /\ l[2] \in Nodes
    BY GossipAssumption
<1>3. ASSUME NEW l \in Links, Drain(l[1], l[2]) PROVE IInv'
    BY <1>2, <1>3, DrainInv
<1>4. \A l \in Links : \A m \in wire[l] : m \in Message /\ Origin(m)
    BY DEF IInv, TypeInv
<1>5. ASSUME NEW l \in Links, NEW m \in wire[l], Deliver(l[1], l[2], m) PROVE IInv'
    <2>1. /\ wire' = [wire EXCEPT ![l] = @ \ {m}] /\ submitted' = submitted
          /\ HandleVerifiedBroadcast(l[2], m)
        BY <1>2, <1>5, Zenon DEF Deliver
    <2>2. wire' \in [Links -> SUBSET Message] /\ \A k \in Links : wire'[k] \subseteq wire[k]
        BY <2>1 DEF IInv, TypeInv
    <2> QED BY <1>2, <1>4, <2>1, <2>2, HandleInv
<1>6. ASSUME NEW l \in Links, NEW m \in wire[l], Duplicate(l[1], l[2], m) PROVE IInv'
    <2>1. wire' = wire /\ submitted' = submitted /\ HandleVerifiedBroadcast(l[2], m)
        BY <1>6 DEF Duplicate
    <2>2. wire' \in [Links -> SUBSET Message] /\ \A k \in Links : wire'[k] \subseteq wire[k]
        BY <2>1 DEF IInv, TypeInv
    <2> QED BY <1>2, <1>4, <2>1, <2>2, HandleInv
<1>7. ASSUME NEW l \in Links, NEW m \in wire[l], Lose(l[1], l[2], m) PROVE IInv'
    <2>1. wire' = [wire EXCEPT ![l] = @ \ {m}] /\ UNCHANGED <<seen, outbox, submitted>>
        BY <1>2, <1>7, Zenon DEF Lose
    <2>2. wire' \in [Links -> SUBSET Message] /\ \A k \in Links : wire'[k] \subseteq wire[k]
        BY <2>1 DEF IInv, TypeInv
    <2> QED BY <2>1, <2>2, Zenon DEF IInv, TypeInv, Origin
<1>8. ASSUME NEW f \in Forgeries, Forge(f[1], f[2]) PROVE IInv'
    <2> DEFINE m == [nullifier |-> f[2], sender |-> f[1][1], signer |-> Nobody]
    <2>1. f[1] \in Links /\ f[2] \in Nullifiers /\ f[1][1] \in Nodes
        BY GossipAssumption
    <2>2. wire' = [wire EXCEPT ![f[1]] = @ \cup {m}] /\ UNCHANGED <<seen, outbox, submitted>>
        BY <1>8 DEF Forge
    <2>3. m \in Message /\ Origin(m)
        BY <2>1 DEF Message, Origin
    <2> HIDE DEF m
    <2>4. TypeInv'
        BY <2>1, <2>2, <2>3 DEF IInv, TypeInv
    <2>5. \A l \in Links : \A k \in wire'[l] : Origin(k)'
        BY <2>1, <2>2, <2>3, Zenon DEF IInv, TypeInv, Origin
    <2> QED BY <2>2, <2>4, <2>5 DEF IInv, Origin
<1>9. CASE UNCHANGED vars
    BY <1>9, Zenon DEF vars, IInv, TypeInv, Origin
<1> QED BY <1>1, <1>3, <1>5, <1>6, <1>7, <1>8, <1>9 DEF Next

-----------------------------------------------------------------------------

\* "This prevents injection of forged nullifiers", in every network: what is
\* queued or on a link under a node's signature was submitted at that node, and
\* handle_verified_broadcast takes note of submitted nullifiers only.
THEOREM SignedAtOriginHolds == Spec => []SignedAtOrigin
<1>1. IInv => SignedAtOrigin
    BY DEF IInv, SignedAtOrigin, Origin
<1> QED BY <1>1, InitInv, NextInv, PTL DEF Spec

-----------------------------------------------------------------------------
(* Attestation chains *)

\* An attestation is what new_signed returns, by the holder of the chain that
\* it continues: the first owner, or the receiver of the attestation before,
\* whom prev_hash names.
Signed(a) ==
    /\ a = new_signed(a.token_id, a.sender_hash, a.receiver_hash, a.chain_position,
                      a.prev_hash)
    /\ a.sender_hash = IF a.prev_hash = NoHash THEN a.token_id.owner ELSE a.prev_hash[4]

\* A device that follows the protocol continues a chain of a token once.
GivenInv ==
    /\ \A a \in given : Signed(a)
    /\ \A a, b \in given :
        /\ a.sender_hash = b.sender_hash /\ a.sender_hash \notin Cheaters
        /\ a.token_id = b.token_id /\ a.prev_hash = b.prev_hash
        => a = b

\* Chains that verify, of attestations that were signed, with the last receiver.
Carried(d, chain) ==
    LET n == Len(chain.attestations)
    IN  /\ chain = [token_id |-> chain.token_id, attestations |-> chain.attestations]
        /\ verify_integrity(chain)
        /\ d = IF n = 0 THEN chain.token_id.owner ELSE chain.attestations[n].receiver_hash

CopiesInv ==
    \A c \in copies : c = <<c[1], c[2]>> /\ Carried(c[1], c[2])
                      /\ c[2].attestations \in Seq(given)

AttestationInv == GivenInv /\ CopiesInv

\* The fields of what new_signed returns.
LEMMA SignedFields ==
    ASSUME NEW coin, NEW s, NEW e, NEW n, NEW prev
    PROVE  LET a == new_signed(coin, s, e, n, prev) IN
           /\ a.token_id = coin /\ a.sender_hash = s /\ a.sender_pubkey = s
           /\ a.receiver_hash = e /\ a.chain_position = n /\ a.prev_hash = prev
           /\ a.hash = <<coin, s, s, e, n, prev>> /\ a.signature = <<s, a.hash>>
           /\ a.hash # NoHash /\ a.hash[4] = e
BY Zenon DEF new_signed, compute_hash, NoHash

\* An attestation is determined by its hash.
LEMMA SignedByHash ==
    ASSUME NEW a, NEW b, Signed(a), Signed(b), a.hash = b.hash
    PROVE  a = b
<1>1. a.hash = <<a.token_id, a.sender_hash, a.sender_hash, a.receiver_hash,
                 a.chain_position, a.prev_hash>>
    BY SignedFields DEF Signed
<1>2. b.hash = <<b.token_id, b.sender_hash, b.sender_hash, b.receiver_hash,
                 b.chain_position, b.prev_hash>>
    BY SignedFields DEF Signed
<1>3. /\ a.token_id = b.token_id /\ a.sender_hash = b.sender_hash
      /\ a.receiver_hash = b.receiver_hash
      /\ a.chain_position = b.chain_position /\ a.prev_hash = b.prev_hash
    <2>1. <<a.token_id, a.sender_hash, a.sender_hash, a.receiver_hash,
            a.chain_position, a.prev_hash>> =
          <<b.token_id, b.sender_hash, b.sender_hash, b.receiver_hash,
            b.chain_position, b.prev_hash>>
        BY <1>1, <1>2, Zenon
    <2> QED BY <2>1
<1> QED BY <1>3, Zenon DEF Signed

\* Changing the receiver of an attestation breaks its hash.
LEMMA NoOtherReceiver ==
    ASSUME NEW o, Signed(o), NEW d, verify_signature([o EXCEPT !.receiver_hash = d])
    PROVE  [o EXCEPT !.receiver_hash = d] = o
<1> DEFINE t == o.token_id
           s == o.sender_hash
           r == o.receiver_hash
           n == o.chain_position
           p == o.prev_hash
           h == <<t, s, s, r, n, p>>
<1>1. o = [token_id |-> t, sender_hash |-> s, sender_pubkey |-> s, receiver_hash |-> r,
           chain_position |-> n, prev_hash |-> p, hash |-> h, signature |-> <<s, h>>]
    BY DEF Signed, new_signed, compute_hash
<1> HIDE DEF t, s, r, n, p
<1> DEFINE a == [token_id |-> t, sender_hash |-> s, sender_pubkey |-> s, receiver_hash |-> d,
                 chain_position |-> n, prev_hash |-> p, hash |-> h, signature |-> <<s, h>>]
<1>2. [o EXCEPT !.receiver_hash = d] = a
    BY <1>1
<1>3. a.hash = <<a.token_id, a.sender_hash, a.sender_pubkey, a.receiver_hash,
                 a.chain_position, a.prev_hash>>
    BY <1>2 DEF verify_signature, compute_hash
<1>4. <<t, s, s, r, n, p>> = <<t, s, s, d, n, p>>
    BY <1>3
<1>5. r = d
    BY <1>4
<1> QED BY <1>1, <1>2, <1>5

\* What verify_integrity says of one attestation.
LEMMA Integrity ==
    ASSUME NEW chain, verify_integrity(chain), NEW i \in 1..Len(chain.attestations)
    PROVE  /\ chain.attestations[i].chain_position = i - 1
           /\ chain.attestations[i].prev_hash =
                IF i = 1 THEN NoHash ELSE chain.attestations[i - 1].hash
           /\ chain.attestations[i].token_id = chain.token_id
           /\ verify_signature(chain.attestations[i])
BY Zenon DEF verify_integrity

\* The copies that are left, and the new one.
LEMMA CopyAdded ==
    ASSUME CopiesInv, GivenInv', given \subseteq given', NEW d, NEW chain,
           Carried(d, chain), chain.attestations \in Seq(given'),
           copies' \subseteq copies \cup {<<d, chain>>}
    PROVE  AttestationInv'
<1>1. \A c \in copies : c[2].attestations \in Seq(given')
    BY DEF CopiesInv
<1>2. \A c \in copies' : c = <<c[1], c[2]>> /\ Carried(c[1], c[2])
                         /\ c[2].attestations \in Seq(given')
    BY <1>1 DEF CopiesInv
<1> QED BY <1>2 DEF AttestationInv, CopiesInv

\* add_transfer continues the chain of the holder, who is its last receiver.
LEMMA GiveInv ==
    ASSUME AttestationInv, NEW d, NEW chain, NEW e, Give(d, chain, e)
    PROVE  AttestationInv'
<1> DEFINE n == Len(chain.attestations)
           prev == IF n = 0 THEN NoHash ELSE chain.attestations[n].hash
           new == new_signed(chain.token_id, d, e, n, prev)
           longer == add_transfer(chain, d, e)
<1>1. <<d, chain>> \in copies
    BY Zenon DEF Give
<1>2. /\ chain = [token_id |-> chain.token_id, attestations |-> chain.attestations]
      /\ d = IF n = 0 THEN chain.token_id.owner ELSE chain.attestations[n].receiver_hash
      /\ chain.attestations \in Seq(given)
    BY <1>1, Zenon DEF AttestationInv, CopiesInv, Carried
<1>3. n \in Nat
    BY <1>2
<1>4. longer = [token_id |-> chain.token_id, attestations |-> Append(chain.attestations, new)]
    BY <1>2, SMTT(30) DEF add_transfer
<1>5. /\ new.token_id = chain.token_id /\ new.sender_hash = d /\ new.sender_pubkey = d
      /\ new.receiver_hash = e /\ new.prev_hash = prev
      /\ new = new_signed(new.token_id, new.sender_hash, new.receiver_hash,
                          new.chain_position, new.prev_hash)
    <2>1. /\ new.token_id = chain.token_id /\ new.sender_hash = d /\ new.sender_pubkey = d
          /\ new.receiver_hash = e /\ new.chain_position = n /\ new.prev_hash = prev
        BY SignedFields
    <2>2. new = new_signed(chain.token_id, d, e, n, prev)
        OBVIOUS
    <2> HIDE DEF new, n, prev
    <2> QED BY <2>1, <2>2
<1>6. new.sender_hash = IF prev = NoHash THEN new.token_id.owner ELSE prev[4]
    <2>1. CASE n = 0
        BY <1>2, <1>5, <2>1, Zenon
    <2>2. CASE n # 0
        <3>1. Signed(chain.attestations[n])
            <4>1. n \in 1..n
                BY <1>3, <2>2
            <4>2. chain.attestations[n] \in given
                BY <1>2, <4>1
            <4> QED BY <4>2, Zenon DEF AttestationInv, GivenInv
        <3>2. /\ chain.attestations[n].hash # NoHash
              /\ chain.attestations[n].hash[4] = chain.attestations[n].receiver_hash
            <4>1. PICK last : last = chain.attestations[n] /\ Signed(last)
                BY <3>1, Zenon
            <4>2. last.hash # NoHash /\ last.hash[4] = last.receiver_hash
                BY <4>1, SignedFields, SMTT(30) DEF Signed
            <4> QED BY <4>1, <4>2, Zenon
        <3> QED BY <1>2, <1>5, <2>2, <3>2, Zenon
    <2> QED BY <2>1, <2>2, Zenon
<1>7. Signed(new)
    BY <1>5, <1>6, Zenon DEF Signed
<1> HIDE DEF new
<1>8. longer.attestations[Len(longer.attestations)] = new
    BY <1>2, <1>4, AppendProperties
<1>9. /\ given' = given \cup {new}
      /\ copies' \subseteq copies \cup {<<e, longer>>}
      /\ verify_integrity(longer)
      /\ d \in Cheaters \/ \A a \in given :
            ~(a.sender_pubkey = d /\ a.token_id = chain.token_id /\ a.prev_hash = new.prev_hash)
    BY <1>8, Zenon DEF Give
<1>10. GivenInv'
    <2>1. \A a \in given : a.sender_pubkey = a.sender_hash
        BY SignedFields DEF AttestationInv, GivenInv, Signed
    <2>2. ASSUME NEW a \in given', NEW b \in given',
                 a.sender_hash = b.sender_hash, a.sender_hash \notin Cheaters,
                 a.token_id = b.token_id, a.prev_hash = b.prev_hash
          PROVE  a = b
        <3>1. CASE a \in given /\ b \in given
            BY <2>2, <3>1 DEF AttestationInv, GivenInv
        <3>2. CASE a = new /\ b \in given
            BY <1>5, <1>9, <2>1, <2>2, <3>2, Zenon
        <3>3. CASE a \in given /\ b = new
            BY <1>5, <1>9, <2>1, <2>2, <3>3, Zenon
        <3> QED BY <1>9, <3>1, <3>2, <3>3, Zenon
    <2>3. \A a \in given' : Signed(a)
        BY <1>7, <1>9, Zenon DEF AttestationInv, GivenInv
    <2> QED BY <2>2, <2>3 DEF GivenInv
<1>11. longer.attestations \in Seq(given') /\ Len(longer.attestations) = n + 1
    <2>1. chain.attestations \in Seq(given') /\ new \in given'
        BY <1>2, <1>9
    <2> QED BY <1>4, <2>1, AppendProperties
<1>12. Carried(e, longer)
    <2>1. longer = [token_id |-> longer.token_id, attestations |-> longer.attestations]
        BY <1>4
    <2>2. Len(longer.attestations) # 0
        BY <1>3, <1>11
    <2> HIDE DEF longer
    <2> QED BY <1>5, <1>8, <1>9, <2>1, <2>2 DEF Carried
<1> HIDE DEF longer
<1> QED BY <1>9, <1>10, <1>11, <1>12, CopyAdded, Zenon DEF AttestationInv

\* A chain that verifies and is made of attestations that were signed is one
\* that somebody could have been given.
LEMMA RearrangeInv ==
    ASSUME AttestationInv, NEW d, NEW chain, Rearrange(d, chain)
    PROVE  AttestationInv'
<1>1. <<d, chain>> \in copies /\ given' = given
    BY DEF Rearrange
<1>2. /\ chain = [token_id |-> chain.token_id, attestations |-> chain.attestations]
      /\ chain.attestations \in Seq(given)
    BY <1>1, Zenon DEF AttestationInv, CopiesInv, Carried
<1>3. PICK i \in 1..Len(chain.attestations) :
        \E a \in {b \in given : b.receiver_hash = d} \cup
                 {[chain.attestations[i] EXCEPT !.receiver_hash = d]} :
            LET changed == [chain EXCEPT !.attestations =
                                Append(SubSeq(@, 1, i - 1), a)]
            IN  /\ verify_integrity(changed)
                /\ copies' = copies \cup {<<d, changed>>}
    BY Zenon DEF Rearrange
<1> DEFINE o == chain.attestations[i]
<1>4. PICK a \in {b \in given : b.receiver_hash = d} \cup {[o EXCEPT !.receiver_hash = d]} :
            LET changed == [chain EXCEPT !.attestations =
                                Append(SubSeq(@, 1, i - 1), a)]
            IN  /\ verify_integrity(changed)
                /\ copies' = copies \cup {<<d, changed>>}
    BY <1>3, Zenon
<1> DEFINE kept == SubSeq(chain.attestations, 1, i - 1)
           atts == Append(kept, a)
           changed == [token_id |-> chain.token_id, attestations |-> atts]
<1>5. verify_integrity(changed) /\ copies' = copies \cup {<<d, changed>>}
    <2> DEFINE edited == [chain EXCEPT !.attestations = Append(SubSeq(@, 1, i - 1), a)]
    <2>1. verify_integrity(edited) /\ copies' = copies \cup {<<d, edited>>}
        BY <1>4
    <2>2. edited = [chain EXCEPT !.attestations = atts]
        OBVIOUS
    <2> HIDE DEF edited, atts
    <2> DEFINE T == chain.token_id
               A == chain.attestations
    <2>3. chain = [token_id |-> T, attestations |-> A]
        BY <1>2
    <2>4. changed = [token_id |-> T, attestations |-> atts]
        OBVIOUS
    <2> HIDE DEF T, A, changed
    <2>5. edited = changed
        BY <2>2, <2>3, <2>4
    <2> QED BY <2>1, <2>5
<1>6. Len(chain.attestations) \in Nat /\ i \in Nat /\ i >= 1
    BY <1>2
<1>7. kept \in Seq(given) /\ Len(kept) = i - 1
    <2>1. \A j \in 1..(i - 1) : chain.attestations[j] \in given
        BY <1>2, <1>6
    <2> QED BY <1>6, <2>1, SubSeqProperties
<1> HIDE DEF kept
<1>8. Len(atts) = i /\ atts[i] = a
    <2>1. kept \in Seq(given \cup {a})
        BY <1>7
    <2>2. /\ Len(Append(kept, a)) = Len(kept) + 1
          /\ Append(kept, a)[Len(kept) + 1] = a
        BY <2>1, AppendProperties
    <2> QED BY <1>6, <1>7, <2>2
<1>9. verify_signature(a)
    <2>1. changed.attestations = atts /\ i \in 1..Len(atts)
        BY <1>6, <1>8
    <2> HIDE DEF changed, atts
    <2> QED BY <1>5, <1>8, <2>1, Integrity
<1>10. a \in given /\ a.receiver_hash = d
    <2>1. CASE a \in {b \in given : b.receiver_hash = d}
        BY <2>1
    <2>2. CASE a = [o EXCEPT !.receiver_hash = d]
        <3>1. o \in given
            BY <1>2
        <3>2. Signed(o)
            BY <3>1 DEF AttestationInv, GivenInv
        <3> HIDE DEF o
        <3>3. a = o
            BY <1>9, <2>2, <3>2, NoOtherReceiver
        <3>4. a.receiver_hash = d
            BY <2>2, <3>2 DEF Signed, new_signed
        <3> QED BY <3>1, <3>3, <3>4
    <2> QED BY <1>4, <2>1, <2>2
<1>11. atts \in Seq(given')
    BY <1>1, <1>7, <1>10, AppendProperties
<1> HIDE DEF atts
<1>12. Carried(d, changed)
    <2>1. changed.attestations = atts /\ changed.token_id = chain.token_id
        OBVIOUS
    <2>2. changed = [token_id |-> changed.token_id, attestations |-> changed.attestations]
        OBVIOUS
    <2> HIDE DEF changed
    <2> QED BY <1>5, <1>6, <1>8, <1>10, <2>1, <2>2 DEF Carried
<1>13. changed.attestations \in Seq(given')
    BY <1>11
<1>14. GivenInv'
    BY <1>1 DEF AttestationInv, GivenInv
<1> HIDE DEF changed
<1> QED BY <1>1, <1>5, <1>12, <1>13, <1>14, CopyAdded DEF AttestationInv

-----------------------------------------------------------------------------
(* Double spends *)

\* The chains as far as both go, and where they differ.
Both(x, y) ==
    1..(IF Len(x.attestations) <= Len(y.attestations)
        THEN Len(x.attestations) ELSE Len(y.attestations))

Differ(x, y) == {i \in Both(x, y) : x.attestations[i].hash # y.attestations[i].hash}

First(x, y) == CHOOSE k \in Differ(x, y) : \A j \in Differ(x, y) : k <= j

\* What detect_double_spend returns for two chains of a token.
LEMMA Detection ==
    ASSUME NEW x, NEW y, x.token_id = y.token_id
    PROVE  detect_double_spend(x, y) =
            IF Differ(x, y) = {} THEN [result |-> "consistent"]
            ELSE [result |-> "conflict", position |-> First(x, y) - 1,
                  cheater |-> x.attestations[First(x, y)].sender_hash]
BY Zenon DEF detect_double_spend, Differ, Both, First

\* The order of the two chains does not matter.
LEMMA DifferEitherWay ==
    ASSUME NEW x, NEW y, Len(x.attestations) \in Nat, Len(y.attestations) \in Nat
    PROVE  Both(x, y) = Both(y, x) /\ Differ(x, y) = Differ(y, x) /\ First(x, y) = First(y, x)
<1>1. Both(x, y) = Both(y, x)
    BY DEF Both
<1>2. Differ(x, y) = Differ(y, x)
    BY <1>1 DEF Differ
<1> QED BY <1>1, <1>2 DEF First

\* The hashes agree exactly if the attestations do.
LEMMA NoDifference ==
    ASSUME AttestationInv, NEW x, NEW y,
           x.attestations \in Seq(given), y.attestations \in Seq(given)
    PROVE  Differ(x, y) = {} <=> SameHistory(x, y)
<1> DEFINE s == x.attestations
           t == y.attestations
<1>1. Len(s) \in Nat /\ Len(t) \in Nat /\ DOMAIN s = 1..Len(s) /\ DOMAIN t = 1..Len(t)
    OBVIOUS
<1>2. Both(x, y) = DOMAIN s \cap DOMAIN t
    BY <1>1 DEF Both
<1>3. \A i \in Both(x, y) : s[i] \in given /\ t[i] \in given
    BY <1>2
<1>4. \A i \in Both(x, y) : s[i].hash = t[i].hash => s[i] = t[i]
    BY <1>3, SignedByHash, Zenon DEF AttestationInv, GivenInv
<1>5. Differ(x, y) = {} <=> \A i \in Both(x, y) : s[i] = t[i]
    BY <1>4, SMTT(30) DEF Differ
<1> QED BY <1>2, <1>5 DEF SameHistory

\* Before the first difference the chains have the same hash, so the two senders
\* there are the one that it names as the receiver.
LEMMA FirstDifference ==
    ASSUME AttestationInv, NEW c1 \in copies, NEW c2 \in copies,
           c1[2].token_id = c2[2].token_id, Differ(c1[2], c2[2]) # {}
    PROVE  LET i == First(c1[2], c2[2])
               a == c1[2].attestations[i]
               b == c2[2].attestations[i]
           IN  /\ a \in given /\ b \in given /\ a.hash # b.hash
               /\ a.token_id = b.token_id /\ a.prev_hash = b.prev_hash
               /\ a.sender_hash = b.sender_hash
               /\ a.chain_position = i - 1 /\ b.chain_position = i - 1
<1> DEFINE x == c1[2]
           y == c2[2]
           s == x.attestations
           t == y.attestations
           i == First(x, y)
<1>1. /\ s \in Seq(given) /\ t \in Seq(given)
      /\ verify_integrity(x) /\ verify_integrity(y)
    BY ZenonT(40) DEF AttestationInv, CopiesInv, Carried
<1>2. Len(s) \in Nat /\ Len(t) \in Nat
    BY <1>1
<1>3. Both(x, y) \subseteq Nat
    BY <1>2 DEF Both
<1>4. Differ(x, y) \subseteq Nat
    BY <1>3 DEF Differ
<1>5. \E k \in Differ(x, y) : \A j \in Differ(x, y) : k <= j
    BY <1>4, Smallest
<1>6. i \in Differ(x, y) /\ \A j \in Differ(x, y) : i <= j
    BY <1>5 DEF First
<1> HIDE DEF i
<1>7. i \in Both(x, y) /\ s[i].hash # t[i].hash
    BY <1>6, Zenon DEF Differ
<1>8. i \in 1..Len(s) /\ i \in 1..Len(t)
    BY <1>2, <1>7 DEF Both
<1>9. s[i] \in given /\ t[i] \in given
    BY <1>1, <1>8
<1>10. /\ s[i].chain_position = i - 1 /\ t[i].chain_position = i - 1
       /\ s[i].token_id = x.token_id /\ t[i].token_id = y.token_id
       /\ s[i].prev_hash = IF i = 1 THEN NoHash ELSE s[i - 1].hash
       /\ t[i].prev_hash = IF i = 1 THEN NoHash ELSE t[i - 1].hash
    <2> HIDE DEF x, y
    <2> QED BY <1>1, <1>8, Integrity, Zenon
<1>11. i # 1 => s[i - 1].hash = t[i - 1].hash
    <2> SUFFICES ASSUME i # 1, s[i - 1].hash # t[i - 1].hash PROVE FALSE
        BY Zenon
    <2>1. i - 1 \in Both(x, y)
        BY <1>2, <1>7 DEF Both
    <2>2. i - 1 \in Differ(x, y)
        BY <2>1, Zenon DEF Differ
    <2>3. i <= i - 1 /\ i \in Nat
        BY <1>6, <1>8, <2>2, SMTT(30)
    <2> QED BY <2>3
<1>12. s[i].prev_hash = t[i].prev_hash /\ s[i].token_id = t[i].token_id
    BY <1>10, <1>11, Zenon
<1>13. Signed(s[i]) /\ Signed(t[i])
    BY <1>9, SMTT(30) DEF AttestationInv, GivenInv
<1>14. s[i].sender_hash = t[i].sender_hash
    BY <1>12, <1>13, Zenon DEF Signed
<1> QED BY <1>7, <1>9, <1>10, <1>12, <1>14, ZenonT(40) DEF i

\* Of two different attestations after the same one, by the same sender, one was
\* signed by a cheater.
LEMMA InvNamesTheCheater == AttestationInv => ConflictNamesTheCheater
<1> SUFFICES ASSUME AttestationInv, NEW c1 \in copies, NEW c2 \in copies,
                    c1[2].token_id = c2[2].token_id
             PROVE  LET x == c1[2]
                        y == c2[2]
                        r == detect_double_spend(x, y)
                    IN  /\ r.result = "conflict" <=> ~SameHistory(x, y)
                        /\ r.result = "conflict" =>
                             /\ r.cheater \in Cheaters
                             /\ r = detect_double_spend(y, x)
                             /\ \E a, b \in given :
                                  /\ a.hash # b.hash
                                  /\ a.token_id = b.token_id
                                  /\ {a.signature[1], b.signature[1]} = {r.cheater}
                                  /\ a.chain_position = r.position
                                  /\ b.chain_position = r.position
    BY ZenonT(40) DEF ConflictNamesTheCheater
<1> DEFINE x == c1[2]
           y == c2[2]
           r == detect_double_spend(x, y)
           i == First(x, y)
           a == x.attestations[i]
           b == y.attestations[i]
<1>1. x.attestations \in Seq(given) /\ y.attestations \in Seq(given)
    BY DEF AttestationInv, CopiesInv
<1>2. Differ(x, y) = {} <=> SameHistory(x, y)
    BY <1>1, NoDifference, Zenon
<1>3. CASE Differ(x, y) = {}
    <2>1. r = [result |-> "consistent"]
        BY <1>3, Detection, Zenon
    <2>2. r.result # "conflict"
        BY <2>1, SMTT(30)
    <2> HIDE DEF r
    <2> QED BY <1>2, <1>3, <2>2, Zenon DEF r
<1>4. CASE Differ(x, y) # {}
    <2>1. r = [result |-> "conflict", position |-> i - 1, cheater |-> a.sender_hash]
        BY <1>4, Detection, Zenon
    <2>2. /\ a \in given /\ b \in given /\ a.hash # b.hash
          /\ a.token_id = b.token_id /\ a.prev_hash = b.prev_hash
          /\ a.sender_hash = b.sender_hash
          /\ a.chain_position = i - 1 /\ b.chain_position = i - 1
        BY <1>4, FirstDifference, ZenonT(40)
    <2>3. Len(x.attestations) \in Nat /\ Len(y.attestations) \in Nat
        BY <1>1
    <2>4. /\ Differ(y, x) # {} /\ First(y, x) = i
        BY <1>4, <2>3, DifferEitherWay, Zenon
    <2>5. detect_double_spend(y, x) =
            [result |-> "conflict", position |-> i - 1, cheater |-> b.sender_hash]
        BY <2>4, Detection, Zenon
    <2>6. r = detect_double_spend(y, x)
        BY <2>1, <2>2, <2>5, Zenon
    <2>7. a.sender_hash \in Cheaters
        BY <2>2, Zenon DEF AttestationInv, GivenInv
    <2>8. a.signature[1] = a.sender_hash /\ b.signature[1] = a.sender_hash
        <3>1. Signed(a) /\ Signed(b)
            BY <2>2, Zenon DEF AttestationInv, GivenInv
        <3> HIDE DEF a, b
        <3>2. a.signature = <<a.sender_hash, a.hash>> /\ b.signature = <<b.sender_hash, b.hash>>
            BY <3>1, SignedFields, SMTT(30) DEF Signed
        <3>3. a.signature[1] = a.sender_hash /\ b.signature[1] = b.sender_hash
            BY <3>2
        <3>4. a.sender_hash = b.sender_hash
            BY <2>2, Zenon
        <3> QED BY <3>3, <3>4, Zenon
    <2>9. r.result = "conflict" /\ r.position = i - 1 /\ r.cheater = a.sender_hash
        BY <2>1
    <2>10. ~SameHistory(x, y)
        BY <1>2, <1>4, SMTT(30)
    <2>11. \E g, h \in given :
              /\ g.hash # h.hash
              /\ g.token_id = h.token_id
              /\ {g.signature[1], h.signature[1]} = {r.cheater}
              /\ g.chain_position = r.position
              /\ h.chain_position = r.position
        <3> HIDE DEF a, b, r, i
        <3>1. {a.signature[1], b.signature[1]} = {r.cheater}
            BY <2>8, <2>9, SMTT(30)
        <3> QED BY <2>2, <2>9, <3>1, Zenon
    <2>12. r.cheater \in Cheaters
        BY <2>7, <2>9, Zenon
    <2> HIDE DEF a, b, i
    <2> QED BY <2>6, <2>9, <2>10, <2>11, <2>12, Zenon
<1> QED BY <1>3, <1>4, Zenon

\* Whoever detect_double_spend names has signed two transfers of the token at
\* that position and does not follow the protocol, and it reports a conflict
\* exactly if neither chain continues the other: for any number of devices,
\* cheaters and copies, and chains of any length.
THEOREM ConflictNamesTheCheaterHolds == AttestationSpec => []ConflictNamesTheCheater
<1>1. AttestationInit => AttestationInv
    <2> SUFFICES ASSUME AttestationInit PROVE AttestationInv
        OBVIOUS
    <2>1. GivenInv
        BY DEF AttestationInit, GivenInv
    <2>2. ASSUME NEW coin \in Coins
          PROVE  Carried(coin.owner, [token_id |-> coin, attestations |-> <<>>])
        <3>1. PICK ch : ch = [token_id |-> coin, attestations |-> <<>>]
            BY Zenon
        <3>2. ch.token_id = coin /\ ch.attestations = <<>>
            BY <3>1
        <3>3. Len(<<>>) = 0 /\ 1..0 = {}
            OBVIOUS
        <3> QED BY <3>1, <3>2, <3>3, Zenon DEF Carried, verify_integrity
    <2>3. <<>> \in Seq(given)
        OBVIOUS
    <2>4. CopiesInv
        <3> SUFFICES ASSUME NEW c \in copies
                     PROVE  /\ c = <<c[1], c[2]>> /\ Carried(c[1], c[2])
                            /\ c[2].attestations \in Seq(given)
            BY DEF CopiesInv
        <3>1. PICK coin \in Coins :
                c = <<coin.owner, [token_id |-> coin, attestations |-> <<>>]>>
            BY DEF AttestationInit
        <3> DEFINE chain == [token_id |-> coin, attestations |-> <<>>]
        <3>2. Carried(coin.owner, chain)
            BY <2>2
        <3>3. chain.attestations \in Seq(given)
            BY <2>3
        <3>4. c = <<coin.owner, chain>>
            BY <3>1
        <3> HIDE DEF chain
        <3> QED BY <3>2, <3>3, <3>4
    <2> QED BY <2>1, <2>4 DEF AttestationInv
<1>2. AttestationInv /\ [AttestationNext]_attestationVars => AttestationInv'
    <2> SUFFICES ASSUME AttestationInv, [AttestationNext]_attestationVars PROVE AttestationInv'
        OBVIOUS
    <2>1. CASE AttestationNext
        BY <2>1, GiveInv, RearrangeInv, SMTT(30) DEF AttestationNext
    <2>2. CASE UNCHANGED attestationVars
        BY <2>2 DEF attestationVars, AttestationInv, GivenInv, CopiesInv
    <2> QED BY <2>1, <2>2
<1>3. AttestationInv => ConflictNamesTheCheater
    BY InvNamesTheCheater
<1> QED BY <1>1, <1>2, <1>3, PTL DEF AttestationSpec
=============================================================================
