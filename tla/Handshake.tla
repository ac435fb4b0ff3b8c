----------------------------- MODULE Handshake -----------------------------
(***************************************************************************)
(* The GM/TLS handshake: connect_gm_rust_inner against                     *)
(* accept_gm_rust_inner_with_cert (gm-tls/src/gm.rs, with the messages of  *)
(* gm-tls/src/handshake.rs) over a transport that keeps order, each side   *)
(* under its own handshake timeout.                                        *)
(*                                                                         *)
(* A message is its type; a hello has the protocols it offers or selects,  *)
(* CertificateVerify and Finished have the transcript they sign.  The wire *)
(* format has no message type: a reader takes what comes for what it       *)
(* expects, and any other message then fails its length or its signature   *)
(* check.                                                                  *)
(***************************************************************************)
EXTENDS Integers, Sequences, FiniteSets

CONSTANTS
    Configs,        \* the configurations of the two sides that are explored
    Timeouts        \* handshake_timeout is not zero

(* What the two sides were configured with.                                *)
(*   peer          who answers: accept_gm_rust ("accept"), or one of the   *)
(*                 two other servers, not in this repository, that the     *)
(*                 client's ticket path is written for: one that resumes   *)
(*                 the session and one that declines the ticket            *)
(*   ticket        what became of the client's session ticket, if it has   *)
(*                 one (module SessionTicket)                              *)
(*   client_ca     ca_pem of the client is not empty                       *)
(*   client_cert   the client's certificate, if any                        *)
(*   server_cert   the server's certificate; cert_pem may be empty         *)
(* Certificates are good, not of a known CA, revoked, revoked but written  *)
(* in the CRL in other bytes than verify_crl looks for ("missed", module   *)
(* CertChecks), or somebody else's: "wrong_key", "borrowed".               *)
(*   ticket_key    session_ticket_key of the server is set                 *)
(*   server_ca     ca_pem of the server is not empty                       *)
(*   crl           both sides check revocation                             *)
(*   crl_age       seconds since the CRL's next_update                     *)
(*   grace         crl_grace_period                                        *)
(*   client_alpn   the protocols of the client, best first; server_alpn    *)
Protocols == {"h2", "http/1.1"}
Config == [peer : {"accept", "resumes", "declines"},
           ticket : {"none", "resume", "fallback", "abort"},
           client_ca : BOOLEAN,
           client_cert : {"none", "good", "untrusted", "revoked", "missed",
                          "borrowed"},
           server_cert : {"none", "good", "untrusted", "revoked", "missed",
                          "wrong_key"},
           ticket_key : BOOLEAN, require_client_auth : BOOLEAN,
           server_ca : BOOLEAN, crl : BOOLEAN, crl_age : Int, grace : Nat,
           client_alpn : Seq(Protocols), server_alpn : Seq(Protocols)]

ASSUME HandshakeConstants == Configs \subseteq Config /\ Timeouts \in BOOLEAN

VARIABLES
    cfg,
    client,     \* stage of the client
    server,     \* stage of the server
    c2s, s2c,   \* the two directions of the transport: Seq(Messages)
    ctr, str,   \* transcripts: the messages hashed so far
    alpn,       \* the protocol each side settled on: << >> or <<protocol>>
    why,        \* history: why a side failed
    first_read  \* history: what the server's first read_application_data met

vars == <<cfg, client, server, c2s, s2c, ctr, str, alpn, why, first_read>>

ClientStages == {"start", "hello", "ticket_finished", "certificate", "verify",
                 "finished", "send_certificate", "send_finished", "ok", "failed"}
ServerStages == {"hello", "send_hello", "send_ticket", "send_certificate",
                 "send_verify", "send_finished", "certificate", "finished",
                 "ok", "failed"}
Types == {"ClientHello", "ServerHello", "NewSessionTicket", "Certificate",
          "CertificateVerify", "Finished", "Data"}
Messages == [type : Types, alpn : Seq(Protocols), ticket : Seq({"ticket"}),
             share : BOOLEAN, over : Seq(Types)]
Reasons == {"none", "Unexpected", "Certificate", "Crl", "Signature", "Closed",
            "Timeout", "Ticket", "Key"}

Init ==
    /\ cfg \in Configs
    /\ client = "start" /\ server = "hello"
    /\ c2s = << >> /\ s2c = << >>
    /\ ctr = << >> /\ str = << >>
    /\ alpn = [client |-> << >>, server |-> << >>]
    /\ why = [client |-> "none", server |-> "none"]
    /\ first_read = "none"

Plain(t) == [type |-> t, alpn |-> << >>, ticket |-> << >>, share |-> FALSE,
             over |-> << >>]

-----------------------------------------------------------------------------
(* Messages, as the reader gets them back from their bytes.                *)

(* The extensions are all that is written of the fields of a hello. *)
ClientHelloExtension(extensions, kind, field) ==
    IF kind \in extensions THEN field ELSE << >>
ServerHelloExtension(extensions, kind, field) ==
    IF kind \in extensions THEN field ELSE << >>

ClientHello(hello) ==
    [Plain("ClientHello") EXCEPT
        !.alpn = ClientHelloExtension(hello.extensions, "ALPN", hello.alpn),
        !.ticket = ClientHelloExtension(hello.extensions, "SessionTicket", hello.ticket)]
ServerHello(hello) ==
    [Plain("ServerHello") EXCEPT
        !.alpn = ServerHelloExtension(hello.extensions, "ALPN", hello.alpn),
        !.share = "KeyShare" \in hello.extensions]

(* The session ticket is not put among the extensions: a hello with a      *)
(* ticket reads back like one without.                                     *)
build_client_hello(offers, ticket) ==
    [extensions |-> {"SupportedVersions", "KeyShare", "ALPN"},
     alpn |-> offers, ticket |-> ticket]
build_server_hello(selected) ==
    [extensions |-> {"KeyShare"} \cup (IF selected = << >> THEN {} ELSE {"ALPN"}),
     alpn |-> selected]

NewSessionTicket == Plain("NewSessionTicket")
ClientCertificate == Plain("Certificate")
CertificateVerify(transcript) ==
    [Plain("CertificateVerify") EXCEPT !.over = transcript]
Finished(transcript) == [Plain("Finished") EXCEPT !.over = transcript]

(* select_alpn: the first protocol of the client's list the server has.    *)
select_alpn(mine, offers) ==
    LET common == {i \in 1..Len(offers) : \E j \in 1..Len(mine) : mine[j] = offers[i]}
    IN  IF common = {} THEN << >>
        ELSE <<offers[CHOOSE i \in common : \A j \in common : i <= j]>>

-----------------------------------------------------------------------------
(* Records. *)

ClientFails(r) ==
    /\ client' = "failed"
    /\ why' = [why EXCEPT !.client = r]
    /\ UNCHANGED ctr
ServerFails(r) ==
    /\ server' = "failed"
    /\ why' = [why EXCEPT !.server = r]
    /\ UNCHANGED str

(* write_handshake_record: the peer that gave up has dropped its end, and  *)
(* a write to it fails unless the transport still takes it.                *)
ClientSends(m, stage, tr) ==
    \/ /\ c2s' = Append(c2s, m) /\ client' = stage /\ ctr' = tr
       /\ UNCHANGED why
    \/ /\ server = "failed" /\ ClientFails("Closed") /\ UNCHANGED c2s
ServerSends(m, stage, tr) ==
    \/ /\ s2c' = Append(s2c, m) /\ server' = stage /\ str' = tr
       /\ UNCHANGED why
    \/ /\ client = "failed" /\ ServerFails("Closed") /\ UNCHANGED s2c

ClientCanRead == s2c # << >>
ServerCanRead == c2s # << >>

(* read_handshake_record at the end of the transport. *)
ClientReadsEnd == s2c = << >> /\ server = "failed" /\ ClientFails("Closed")
ServerReadsEnd == c2s = << >> /\ client = "failed" /\ ServerFails("Closed")

-----------------------------------------------------------------------------
(* Certificates. *)

(* verify_crl at now + crl_grace_period: not past next_update. *)
CrlFresh == cfg.crl_age + cfg.grace <= 0

(* Seeded fault: the chain is not verified. *)
VerifyCertificate_no_chain(cert) ==
    IF cfg.crl /\ (~CrlFresh \/ cert = "revoked") THEN "Crl" ELSE "none"

(* The chain, then the CRL if there is one: the reason to refuse, or none. *)
VerifyCertificate(cert) ==
    IF cert = "untrusted" THEN "Certificate"
    ELSE IF cfg.crl /\ (~CrlFresh \/ cert = "revoked") THEN "Crl"
    ELSE "none"

-----------------------------------------------------------------------------
(* connect_gm_rust_inner. *)

(* build_client_hello, or build_client_hello_with_ticket when the ticket   *)
(* decrypted; a forged ticket may end the handshake here.                  *)
SendClientHello ==
    /\ client = "start"
    /\ \/ /\ cfg.ticket = "abort"
          /\ ClientFails("Ticket") /\ UNCHANGED c2s
       \/ /\ cfg.ticket # "abort"
          /\ LET ticket == IF cfg.ticket = "resume" THEN <<"ticket">> ELSE << >>
             IN  ClientSends(ClientHello(build_client_hello(cfg.client_alpn, ticket)),
                             "hello", <<"ClientHello">>)
    /\ UNCHANGED <<cfg, server, s2c, str, alpn, first_read>>

(* A client whose ticket decrypted takes a ServerHello without a key share *)
(* for the acceptance of its ticket and is done, and one with a key share, *)
(* which accept_gm_rust always sends, for the refusal: it expects Finished *)
(* next.  Neither path looks at a certificate.                             *)
ReadServerHello ==
    /\ client = "hello"
    /\ \/ /\ ClientCanRead
          /\ s2c' = Tail(s2c)
          /\ client' = CASE cfg.ticket # "resume" -> "certificate"
                         [] cfg.ticket = "resume" /\ Head(s2c).share ->
                              "ticket_finished"
                         [] OTHER -> "ok"
          /\ ctr' = Append(ctr, Head(s2c).type)
          /\ alpn' = [alpn EXCEPT !.client = Head(s2c).alpn]
          /\ UNCHANGED why
       \/ ClientReadsEnd /\ UNCHANGED <<s2c, alpn>>
    /\ UNCHANGED <<cfg, server, c2s, str, first_read>>

ReadServerCertificate ==
    LET refused == IF cfg.client_ca THEN VerifyCertificate(cfg.server_cert)
                   ELSE "none"
    IN
    /\ client = "certificate"
    /\ \/ /\ ClientCanRead
          /\ s2c' = Tail(s2c)
          /\ \/ /\ Head(s2c).type = "Certificate" /\ refused = "none"
                /\ client' = "verify" /\ ctr' = Append(ctr, "Certificate")
                /\ UNCHANGED why
             \/ /\ Head(s2c).type = "Certificate" /\ refused # "none"
                /\ ClientFails(refused)
             \/ /\ Head(s2c).type # "Certificate"
                /\ ClientFails("Unexpected")
       \/ ClientReadsEnd /\ UNCHANGED s2c
    /\ UNCHANGED <<cfg, server, c2s, str, alpn, first_read>>

(* Signed with the key of the certificate over the transcript so far.      *)
ReadCertificateVerify ==
    /\ client = "verify"
    /\ \/ /\ ClientCanRead
          /\ s2c' = Tail(s2c)
          /\ IF /\ Head(s2c) = CertificateVerify(ctr)
                /\ cfg.server_cert # "wrong_key"
             THEN /\ client' = "finished"
                  /\ ctr' = Append(ctr, "CertificateVerify")
                  /\ UNCHANGED why
             ELSE ClientFails("Signature")
       \/ ClientReadsEnd /\ UNCHANGED s2c
    /\ UNCHANGED <<cfg, server, c2s, str, alpn, first_read>>

(* Seeded fault: the server's Finished is hashed as well. *)
ReadServerFinished_hashed ==
    /\ client \in {"finished", "ticket_finished"}
    /\ ClientCanRead
    /\ s2c' = Tail(s2c)
    /\ IF Head(s2c) = Finished(ctr)
       THEN /\ client' = IF cfg.client_cert = "none" THEN "ok"
                         ELSE "send_certificate"
            /\ ctr' = Append(ctr, "Finished")
            /\ UNCHANGED why
       ELSE ClientFails("Signature")
    /\ UNCHANGED <<cfg, server, c2s, str, alpn, first_read>>

(* verify_finished, in the full handshake and after a refused ticket, with *)
(* the key share of the hello: it proves nothing about a certificate.      *)
ReadServerFinished ==
    /\ client \in {"finished", "ticket_finished"}
    /\ \/ /\ ClientCanRead
          /\ s2c' = Tail(s2c)
          /\ IF Head(s2c) = Finished(ctr)
             THEN /\ client' = IF cfg.client_cert = "none" THEN "ok"
                               ELSE "send_certificate"
                  /\ UNCHANGED <<ctr, why>>
             ELSE ClientFails("Signature")
       \/ ClientReadsEnd /\ UNCHANGED s2c
    /\ UNCHANGED <<cfg, server, c2s, str, alpn, first_read>>

(* A client with a certificate sends it whether or not it was asked. *)
SendClientCertificate ==
    /\ client = "send_certificate"
    /\ ClientSends(ClientCertificate, "send_finished", ctr)
    /\ UNCHANGED <<cfg, server, s2c, str, alpn, first_read>>

SendClientFinished ==
    /\ client = "send_finished"
    /\ ClientSends(Finished(ctr), "ok", ctr)
    /\ UNCHANGED <<cfg, server, s2c, str, alpn, first_read>>

-----------------------------------------------------------------------------
(* accept_gm_rust_inner_with_cert. *)

ReadClientHello ==
    /\ server = "hello"
    /\ \/ /\ ServerCanRead
          /\ c2s' = Tail(c2s)
          /\ server' = "send_hello" /\ str' = <<Head(c2s).type>>
          /\ alpn' = [alpn EXCEPT !.server =
                         select_alpn(cfg.server_alpn, Head(c2s).alpn)]
          /\ UNCHANGED why
       \/ ServerReadsEnd /\ UNCHANGED <<c2s, alpn>>
    /\ UNCHANGED <<cfg, client, s2c, ctr, first_read>>

SendServerHello ==
    /\ server = "send_hello" /\ cfg.peer = "accept"
    /\ ServerSends(ServerHello(build_server_hello(alpn.server)),
                   IF cfg.ticket_key THEN "send_ticket" ELSE "send_certificate",
                   Append(str, "ServerHello"))
    /\ UNCHANGED <<cfg, client, c2s, ctr, alpn, first_read>>

(* The hello of the two other servers. *)
TicketServerHello ==
    /\ server = "send_hello" /\ cfg.peer # "accept"
    /\ LET share == IF cfg.peer = "declines" THEN {"KeyShare"} ELSE {}
       IN  ServerSends(ServerHello([extensions |-> share \cup {"ALPN"},
                                    alpn |-> alpn.server]),
                       IF cfg.peer = "declines" THEN "send_finished" ELSE "ok",
                       Append(str, "ServerHello"))
    /\ UNCHANGED <<cfg, client, c2s, ctr, alpn, first_read>>

SendNewSessionTicket ==
    /\ server = "send_ticket"
    /\ ServerSends(NewSessionTicket, "send_certificate",
                   Append(str, "NewSessionTicket"))
    /\ UNCHANGED <<cfg, client, c2s, ctr, alpn, first_read>>

SendServerCertificate ==
    /\ server = "send_certificate"
    /\ \/ /\ cfg.server_cert # "none"
          /\ ServerSends(ClientCertificate, "send_verify",
                         Append(str, "Certificate"))
       \/ /\ cfg.server_cert = "none"
          /\ server' = "send_verify"
          /\ UNCHANGED <<s2c, str, why>>
    /\ UNCHANGED <<cfg, client, c2s, ctr, alpn, first_read>>

(* Seeded fault: the transcript is hashed without the certificate. *)
SendCertificateVerify_short ==
    /\ server = "send_verify"
    /\ ServerSends(CertificateVerify(SubSeq(str, 1, 2)),
                   "send_finished", Append(str, "CertificateVerify"))
    /\ UNCHANGED <<cfg, client, c2s, ctr, alpn, first_read>>

(* A server without a certificate may have no key either. *)
SendCertificateVerify ==
    /\ server = "send_verify"
    /\ \/ ServerSends(CertificateVerify(str),
                      "send_finished", Append(str, "CertificateVerify"))
       \/ /\ cfg.server_cert = "none"
          /\ ServerFails("Key") /\ UNCHANGED s2c
    /\ UNCHANGED <<cfg, client, c2s, ctr, alpn, first_read>>

SendServerFinished ==
    /\ server = "send_finished"
    /\ ServerSends(Finished(str),
                   IF cfg.require_client_auth THEN "certificate" ELSE "ok",
                   str)
    /\ UNCHANGED <<cfg, client, c2s, ctr, alpn, first_read>>

(* Without a CA of its own the server refuses every certificate. *)
ReadClientCertificate ==
    LET refused == IF ~cfg.server_ca THEN "Certificate"
                   ELSE VerifyCertificate(cfg.client_cert)
    IN
    /\ server = "certificate"
    /\ \/ /\ ServerCanRead
          /\ c2s' = Tail(c2s)
          /\ \/ /\ Head(c2s).type = "Certificate" /\ refused = "none"
                /\ server' = "finished" /\ UNCHANGED <<str, why>>
             \/ /\ Head(c2s).type = "Certificate" /\ refused # "none"
                /\ ServerFails(refused)
             \/ /\ Head(c2s).type # "Certificate"
                /\ ServerFails("Unexpected")
       \/ ServerReadsEnd /\ UNCHANGED c2s
    /\ UNCHANGED <<cfg, client, s2c, ctr, alpn, first_read>>

(* Verified with the key share of the ClientHello, whatever the            *)
(* certificate: a "borrowed" one passes.                                   *)
ReadClientFinished ==
    /\ server = "finished"
    /\ \/ /\ ServerCanRead
          /\ c2s' = Tail(c2s)
          /\ IF Head(c2s) = Finished(str)
             THEN server' = "ok" /\ UNCHANGED <<str, why>>
             ELSE ServerFails("Signature")
       \/ ServerReadsEnd /\ UNCHANGED c2s
    /\ UNCHANGED <<cfg, client, s2c, ctr, alpn, first_read>>

-----------------------------------------------------------------------------
(* Seeded fault: the timeout covers the client only. *)
ServerTimesOut_never ==
    /\ Timeouts /\ server \notin ServerStages
    /\ ServerFails("Timeout")
    /\ UNCHANGED <<cfg, client, c2s, s2c, ctr, alpn, first_read>>

(* with_handshake_timeout, for either side at any await. *)
ClientTimesOut ==
    /\ Timeouts /\ client \notin {"ok", "failed"}
    /\ ClientFails("Timeout")
    /\ UNCHANGED <<cfg, server, c2s, s2c, str, alpn, first_read>>

ServerTimesOut ==
    /\ Timeouts /\ server \notin {"ok", "failed"}
    /\ ServerFails("Timeout")
    /\ UNCHANGED <<cfg, client, c2s, s2c, ctr, alpn, first_read>>

(* The users: the client writes one request, the server reads it. *)
ClientWritesData ==
    /\ client = "ok" /\ \A i \in 1..Len(c2s) : c2s[i].type # "Data"
    /\ first_read = "none" /\ server # "failed"
    /\ c2s' = Append(c2s, Plain("Data"))
    /\ UNCHANGED <<cfg, client, server, s2c, ctr, str, why, alpn, first_read>>

ServerReadsData ==
    /\ server = "ok" /\ ServerCanRead /\ first_read = "none"
    /\ c2s' = Tail(c2s)
    /\ first_read' = Head(c2s).type
    /\ UNCHANGED <<cfg, client, server, s2c, ctr, str, alpn, why>>

ClientStep ==
    \/ SendClientHello
    \/ ReadServerHello
    \/ ReadServerCertificate
    \/ ReadCertificateVerify
    \/ ReadServerFinished
    \/ SendClientCertificate
    \/ SendClientFinished

ServerStep ==
    \/ ReadClientHello
    \/ SendServerHello
    \/ TicketServerHello
    \/ SendNewSessionTicket
    \/ SendServerCertificate
    \/ SendCertificateVerify
    \/ SendServerFinished
    \/ ReadClientCertificate
    \/ ReadClientFinished

Next ==
    \/ ClientStep
    \/ ServerStep
    \/ ClientTimesOut
    \/ ServerTimesOut
    \/ ClientWritesData
    \/ ServerReadsData

Spec == Init /\ [][Next]_vars

(* Both tasks are scheduled, and tokio's timers fire. *)
FairSpec ==
    /\ Spec
    /\ WF_vars(ClientStep) /\ WF_vars(ServerStep)
    /\ WF_vars(ClientTimesOut) /\ WF_vars(ServerTimesOut)

-----------------------------------------------------------------------------
(* Properties. *)

TypeOK ==
    /\ cfg \in Configs
    /\ client \in ClientStages /\ server \in ServerStages
    /\ c2s \in Seq(Messages) /\ s2c \in Seq(Messages)
    /\ ctr \in Seq(Types) /\ str \in Seq(Types)
    /\ alpn \in [client : Seq(Protocols), server : Seq(Protocols)]
    /\ why \in [client : Reasons, server : Reasons]
    /\ first_read \in Types \cup {"none"}

(* A client with a CA completes only with a server whose certificate's     *)
(* chain, revocation and key it has checked, and accept_gm_rust with       *)
(* require_client_auth only with a client that has shown a certificate     *)
(* whose chain and revocation pass, whoever gave up in between.  The code  *)
(* promises no more: a client whose ticket decrypted completes with a      *)
(* server of the other two kinds without any certificate (gm.rs:307-395);  *)
(* accept_gm_rust does not ask for the key of the client's certificate;    *)
(* and revocation is what verify_crl finds, which a "missed" certificate   *)
(* escapes.                                                                *)
PeersVerified ==
    /\ client = "ok" /\ cfg.client_ca =>
          \/ cfg.ticket = "resume" /\ cfg.peer # "accept"
          \/ /\ cfg.server_cert \notin {"none", "untrusted", "wrong_key"}
             /\ cfg.crl => cfg.server_cert # "revoked"
    /\ server = "ok" /\ cfg.peer = "accept" /\ cfg.require_client_auth =>
          /\ cfg.client_cert \notin {"none", "untrusted"}
          /\ cfg.crl => cfg.client_cert # "revoked"

(* Two peers that both complete have hashed the same messages: nothing was *)
(* skipped or inserted on either side.  They have settled on one protocol, *)
(* the client's favourite among those of the server.                       *)
TranscriptsAgree ==
    client = "ok" /\ server = "ok" =>
        LET common == {i \in 1..Len(cfg.client_alpn) :
                          \E j \in 1..Len(cfg.server_alpn) :
                             cfg.client_alpn[i] = cfg.server_alpn[j]}
        IN  /\ ctr = str
            /\ alpn.client = alpn.server
            /\ IF common = {} THEN alpn.client = << >>
               ELSE \E i \in common : /\ \A j \in common : i <= j
                                      /\ alpn.client = <<cfg.client_alpn[i]>>

(* A configuration of the two sides of this repository in which every      *)
(* certificate is good and every file that is asked for is there.          *)
GoodConfig ==
    /\ cfg.peer = "accept" /\ cfg.ticket # "abort"
    /\ cfg.server_cert = "good" /\ cfg.client_cert \in {"none", "good"}
    /\ cfg.require_client_auth => cfg.client_cert = "good" /\ cfg.server_ca
    /\ cfg.crl => cfg.crl_age <= cfg.grace

(* Without tickets, a good configuration makes no side fail but by its     *)
(* timeout: the two sides agree on every next message and on what each     *)
(* signature covers, with and without client authentication.  And a client *)
(* that sends its certificate only where it is required leaves nothing of  *)
(* the handshake behind: the first record the server's user reads is what  *)
(* the client's user wrote (docs/gm-tls.en.md: "usable as a regular tokio  *)
(* stream").                                                               *)
GoodHandshakeSucceeds ==
    /\ /\ GoodConfig /\ cfg.ticket # "resume" /\ ~cfg.ticket_key
       /\ "Timeout" \notin {why.client, why.server}
       => client # "failed" /\ server # "failed"
    /\ /\ cfg.peer = "accept"
       /\ cfg.client_cert # "none" => cfg.require_client_auth
       => first_read \in {"none", "Data"}

(* Every handshake ends on both sides, whatever the configurations and     *)
(* whoever waits for a message the other never sends (handshake.rs:        *)
(* "terminated after `handshake_timeout`").                                *)
HandshakeEnds ==
    /\ <>(client \in {"ok", "failed"})
    /\ <>(server \in {"ok", "failed"})
=============================================================================
