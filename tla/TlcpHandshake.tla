--------------------------- MODULE TlcpHandshake ---------------------------
(***************************************************************************)
(* The TLCP handshake (gm-tlcp/src/tlcp): TlcpConnector::connect and       *)
(* connect_with_certs against TlcpAcceptor::accept, over one reliable      *)
(* transport, for every cipher suite of the default build.  The checks of  *)
(* certificates are those of module CertVerify, the arms of the key        *)
(* exchanges those of module TlcpKeyExchange.                              *)
(*                                                                         *)
(* A step of a side is one record written, or one record read with what    *)
(* the task does before it writes or reads again.  A transcript is the     *)
(* sequence of the messages.                                               *)
(***************************************************************************)
EXTENDS TlcpKeyExchange

CONSTANTS
    Cases       \* what is met: [c, s, entry], the configurations of a
                \* connector and of an acceptor and the method the client
                \* calls, connect or connect_with_certs

(* The lists of a configuration are lists, the acceptor's SM9 material is  *)
(* a master key and an identity.                                           *)
IsList(q) == q \in Seq(ToSet(q))
ASSUME TlcpHandshakeConstants ==
    \A x \in Cases :
        /\ IsList(x.c.suites) /\ IsList(x.c.certs) /\ IsList(x.c.ibsdh.de)
        /\ IsList(x.s.sign_chain) /\ IsList(x.s.enc_chain)
        /\ x.s.sm9 = [kgc |-> x.s.sm9.kgc, id |-> x.s.sm9.id]

VARIABLES
    case,       \* in Cases
    client,     \* TlcpHandshake and the locals of connect_with_certs
    server,     \* TlcpServerHandshake and the locals of accept_with_certs
    c2s, s2c    \* the records under way

vars == <<case, client, server, c2s, s2c>>

(* suite, the pair of certificates the server sent and the list the client *)
(* did, ske the body of the ServerKeyExchange heard, ra the R_A sent; out  *)
(* is what this side has still to write, why the reason of a failure.      *)
Idle == [stage |-> "start", suite |-> None, pair |-> SinglePair(NoCert),
         certs |-> << >>, asked |-> FALSE, ske |-> << >>, ra |-> << >>,
         pms |-> << >>, transcript |-> << >>, out |-> << >>, why |-> None]

Init ==
    /\ case \in Cases
    /\ client = Idle
    /\ server = Idle
    /\ c2s = << >>
    /\ s2c = << >>

Kx(me) == TlcpCipherSuite[me.suite].key_exchange

-----------------------------------------------------------------------------
(* Messages. *)

Msg(type, body) == [type |-> type, body |-> body]
ClientHello(c) == Msg("ClientHello", c.suites)
ServerHello(suite) == Msg("ServerHello", <<suite>>)
Certificate(list) == Msg("Certificate", list)
CertificateRequest == Msg("CertificateRequest", <<"sm2">>)
ServerHelloDone == Msg("ServerHelloDone", << >>)
ChangeCipherSpec == Msg("CCS", <<"01">>)

KeyMaterial(me) == TlcpKeyMaterial(derive_master_secret(me.pms), me.suite)

(* Finished, encrypted under the key of the sender's direction. *)
Finished(who, me) ==
    Msg("Encrypted",
        <<KeyMaterial(me)[who],
          verify_data(who, derive_master_secret(me.pms), me.transcript)>>)

-----------------------------------------------------------------------------
(* Steps. *)

Failed(me, why) ==
    [me EXCEPT !.stage = "failed", !.why = why, !.out = << >>]
Hears(me, m, stage) ==
    [me EXCEPT !.stage = stage, !.transcript = Append(@, m)]

(* What a step comes to: the side's next state and what it then writes.    *)
Goes(next, out) == [next EXCEPT !.out = out]

(* A side that has failed drops its transport, what it had to write before *)
(* it failed being written.                                                *)
Gone(me) == me.stage = "failed" /\ me.out = << >>

(* write_handshake_record and the like: one record, or the discovery that  *)
(* the other side has gone.                                                *)
ClientWrites ==
    /\ client.out # << >>
    /\ \/ /\ client' = [client EXCEPT !.out = Tail(@)]
          /\ c2s' = Append(c2s, Head(client.out))
       \/ /\ Gone(server)
          /\ client' = Failed(client, "Closed") /\ c2s' = c2s
    /\ UNCHANGED <<case, server, s2c>>

(* The server's Finished is one record too: poll_write, which writes it,   *)
(* seals it again when the transport is pending, and the transport is      *)
(* taken to have room for it (TlcpRecord has the resealing).               *)
ServerWrites ==
    /\ server.out # << >>
    /\ \/ /\ server' = [server EXCEPT !.out = Tail(@)]
          /\ s2c' = Append(s2c, Head(server.out))
       \/ /\ Gone(client)
          /\ server' = Failed(server, "Closed") /\ s2c' = s2c
    /\ UNCHANGED <<case, client, c2s>>

(* read_plaintext_record, parse_handshake_message and the check of the     *)
(* type; an end of the stream is ClientEof and ServerEof below.            *)
ClientReads(stage) ==
    /\ client.stage = stage /\ client.out = << >>
    /\ s2c # << >> /\ s2c' = Tail(s2c)
ServerReads(stage) ==
    /\ server.stage = stage /\ server.out = << >>
    /\ c2s # << >> /\ c2s' = Tail(c2s)
Expects(me, m, type, next) ==
    IF m.type = type THEN next ELSE Failed(me, "unexpected")

(* connect refuses to start without a pin whatever the suites;             *)
(* connect_with_certs starts with a ClientHello.                           *)
Connect ==
    /\ client.stage = "start"
    /\ LET hello == ClientHello(case.c)
       IN  client' = IF case.entry = "connect" /\ case.c.pin = None
                     THEN Failed(client, "config")
                     ELSE Goes(Hears(client, hello, "hello"), <<hello>>)
    /\ UNCHANGED <<case, server, c2s, s2c>>

(* process_server_hello: a suite the library does not know is refused;     *)
(* whether it was offered is not asked.                                    *)
ReadServerHello ==
    /\ ClientReads("hello")
    /\ LET m == Head(s2c)
       IN  client' = Expects(client, m, "ServerHello",
                IF m.body[1] \in Known
                THEN [Hears(client, m, "cert") EXCEPT !.suite = m.body[1]]
                ELSE Failed(client, "suite"))
    /\ UNCHANGED <<case, server, c2s>>

(* What the client asks of the server's certificates, the suite included: *)
(* a single certificate goes with RSA only.                                *)
ServerCertificateVerdict(c, kx, pair) ==
    LET verdict == ServerCertsVerdict(c.v, pair)
    IN  IF verdict # "ok" THEN verdict
        ELSE IF pair.single /\ kx # "Rsa" THEN "single" ELSE "ok"

ReadServerCertificate ==
    /\ ClientReads("cert")
    /\ LET m == Head(s2c)
           pair == from_certificate_message(m.body)
           verdict == ServerCertificateVerdict(case.c, Kx(client), pair)
           next == [Hears(client, m, IF Kx(client) = "Ibsdh" THEN "request" ELSE "ske")
                       EXCEPT !.pair = pair]
       IN  client' = Expects(client, m, "Certificate",
                IF verdict = "ok" THEN next ELSE Failed(client, verdict))
    /\ UNCHANGED <<case, server, c2s>>

ReadServerKeyExchange ==
    /\ ClientReads("ske")
    /\ LET m == Head(s2c)
           verdict == SkeVerdict(case.c, Kx(client), m.body, client.pair.enc)
       IN  client' = Expects(client, m, "ServerKeyExchange",
                IF verdict = "ok"
                THEN [Hears(client, m, "request") EXCEPT !.ske = m.body]
                ELSE Failed(client, verdict))
    /\ UNCHANGED <<case, server, c2s>>

(* CertificateVerify, when the server has asked for certificates. *)
CertificateVerify(c, me) ==
    IF ~me.asked THEN << >>
    ELSE <<Msg("CertificateVerify",
               <<sm2_signature_raw_to_der(
                   Sm2Signer_sign(Con!load_client_key(c, c.sign_pem),
                                  c.sign_distid, me.transcript))>>)>>

(* Seeded fault: the CertificateVerify is left out of the transcript. *)
ClientEnd_unsaid(c, me, out) ==
    LET end == Finished("client", me)
    IN  Goes(Hears(me, end, "ccs"),
             out \o CertificateVerify(c, me) \o <<ChangeCipherSpec, end>>)

(* Seeded fault: the client does not wait for the server's Finished. *)
ClientEnd_early(c, me, out) ==
    LET verify == CertificateVerify(c, me)
        then == [me EXCEPT !.transcript = @ \o verify]
        end == Finished("client", then)
    IN  Goes(Hears(then, end, "ok"), out \o verify \o <<ChangeCipherSpec, end>>)

(* The end of the client's flight, out being what comes before it:         *)
(* CertificateVerify, for which the signing key must load, then            *)
(* ChangeCipherSpec and Finished.                                          *)
ClientEnd(c, me, out) ==
    LET verify == CertificateVerify(c, me)
        then == [me EXCEPT !.transcript = @ \o verify]
        end == Finished("client", then)
    IN  IF me.asked /\ Con!load_client_key(c, c.sign_pem) = None
        THEN Goes(Failed(me, "config"), out)
        ELSE Goes(Hears(then, end, "ccs"), out \o verify \o <<ChangeCipherSpec, end>>)

(* The client's flight once the server is done: its certificates if asked  *)
(* for them, the key exchange, and, except for IBSDH, the end.             *)
ClientFlight(c, me) ==
    LET list == IF me.asked THEN <<Certificate(c.certs)>> ELSE << >>
        cke == ClientKeyExchange(Kx(me), c, me.pair, me.ske)
        out == list \o <<Msg("ClientKeyExchange", cke.body)>>
        then == [me EXCEPT !.transcript = @ \o out, !.pms = cke.pms]
    IN  IF me.asked /\ c.certs = << >> THEN Failed(me, "config")
        ELSE IF (me.asked /\ c.sign_pem = Con!NoPem) \/ cke.body = << >>
        THEN Goes(Failed(me, "config"), list)
        ELSE IF Kx(me) = "Ibsdh"
        THEN Goes([then EXCEPT !.stage = "deferred", !.ra = cke.body], out)
        ELSE ClientEnd(c, then, out)

(* A CertificateRequest, ServerHelloDone, or anything else, which is       *)
(* dropped; then ServerHelloDone if it has not come.                       *)
ReadRequestOrDone ==
    /\ ClientReads("request")
    /\ LET m == Head(s2c)
           done == ClientFlight(case.c, Hears(client, m, "done"))
       IN  client' =
               IF m.type = "CertificateRequest"
               THEN [Hears(client, m, "done") EXCEPT !.asked = TRUE]
               ELSE IF m.type = "ServerHelloDone" THEN done
               ELSE [client EXCEPT !.stage = "done"]
    /\ UNCHANGED <<case, server, c2s>>

ReadServerHelloDone ==
    /\ ClientReads("done")
    /\ LET m == Head(s2c)
           done == ClientFlight(case.c, Hears(client, m, "done"))
       IN  client' = IF m.type = "ServerHelloDone" THEN done
                     ELSE Failed(client, "unexpected")
    /\ UNCHANGED <<case, server, c2s>>

(* The deferred ServerKeyExchange of IBSDH: once it is verified the agreed *)
(* key (pending_pms) takes the place of the zeros.                         *)
ReadDeferredKeyExchange ==
    /\ ClientReads("deferred")
    /\ LET m == Head(s2c)
           ra == cke_from_body(client.ra)
           verdict == DeferredVerdict(case.c, ra, m.body)
       IN  client' = Expects(client, m, "ServerKeyExchange",
                IF verdict # "ok" THEN Failed(client, verdict)
                ELSE ClientEnd(case.c, [Hears(client, m, "deferred") EXCEPT
                                           !.pms = AgreedPms(case.c, ra, m.body)], << >>))
    /\ UNCHANGED <<case, server, c2s>>

(* Six bytes that are not looked at. *)
ReadServerCcs ==
    /\ ClientReads("ccs")
    /\ client' = [client EXCEPT !.stage = "finished"]
    /\ UNCHANGED <<case, server, c2s>>

(* The record must decrypt, and verify_data must be that of our own        *)
(* transcript.                                                             *)
FinishedVerdict(me, who, m) ==
    IF m = Finished(who, me) THEN "ok" ELSE "finished"

ReadServerFinished ==
    /\ ClientReads("finished")
    /\ LET m == Head(s2c)
           verdict == FinishedVerdict(client, "server", m)
       IN  client' = IF verdict = "ok" THEN Hears(client, m, "ok")
                     ELSE Failed(client, verdict)
    /\ UNCHANGED <<case, server, c2s>>

-----------------------------------------------------------------------------

(* accept: without the certificates of either kind a stream over keys      *)
(* nobody else knows is returned and nothing is read or written.           *)
Simulation == <<"simulated">>
HasCertificates(s) ==
    \/ s.sign_cert # NoCert /\ s.sign_key # None
    \/ s.rsa_cert # NoCert /\ s.rsa_key # None

Accept ==
    /\ server.stage = "start"
    /\ server' = [server EXCEPT
                      !.stage = IF HasCertificates(case.s) THEN "hello" ELSE "ok",
                      !.pms = IF HasCertificates(case.s) THEN @ ELSE Simulation]
    /\ UNCHANGED <<case, client, c2s, s2c>>

(* process_client_hello: the first suite of the client's that the library  *)
(* knows, whatever this acceptor was configured for.                       *)
Selected(suites) ==
    LET known == {i \in 1..Len(suites) : suites[i] \in Known}
    IN  IF known = {} THEN None ELSE suites[Min(known)]

(* The certificates sent: those for SM2, or else the RSA one for both.     *)
ServerPair(s, kx) ==
    LET sign == IF s.sign_cert # NoCert THEN s.sign_cert ELSE s.rsa_cert
        enc  == IF s.enc_cert # NoCert THEN s.enc_cert ELSE s.rsa_cert
    IN  IF s.single /\ kx = "Rsa" THEN SinglePair(sign)
        ELSE CertPair(sign, enc, s.sign_chain, s.enc_chain)

(* The server's answer to a ClientHello, up to ServerHelloDone.  Only for  *)
(* ECDHE and ECC is the client asked for certificates.                     *)
Answer(s, me) ==
    LET kx == Kx(me)
        hello == <<ServerHello(me.suite),
                   Certificate(to_certificate_message(me.pair))>>
        body == IF kx = "Ibsdh" THEN << >> ELSE ServerKeyExchange(kx, s, me.pair)
        ske == IF kx = "Ibsdh" THEN << >> ELSE <<Msg("ServerKeyExchange", body)>>
        asks == kx \in {"Ecdhe", "Ecc"}
        request == IF asks THEN <<CertificateRequest>> ELSE << >>
        all == hello \o ske \o request \o <<ServerHelloDone>>
    IN  IF kx # "Ibsdh" /\ body = << >> THEN Goes(Failed(me, "config"), hello)
        ELSE Goes([me EXCEPT !.stage = IF asks THEN "cert" ELSE "cke",
                             !.asked = asks, !.transcript = @ \o all], all)

ReadClientHello ==
    /\ ServerReads("hello")
    /\ LET m == Head(c2s)
           suite == Selected(m.body)
           me == [Hears(server, m, "hello") EXCEPT !.suite = suite]
       IN  server' = IF suite = None THEN Failed(server, "suite")
                     ELSE Answer(case.s, [me EXCEPT !.pair = ServerPair(case.s, Kx(me))])
    /\ UNCHANGED <<case, client, s2c>>

(* Seeded fault: the client's certificates are not validated. *)
ClientCertificateVerdict_open(s, list) == "ok"

ClientCertificateVerdict(s, list) == ClientCertsVerdict(s.v, list)

ReadClientCertificate ==
    /\ ServerReads("cert")
    /\ LET m == Head(c2s)
           verdict == ClientCertificateVerdict(case.s, m.body)
       IN  server' = Expects(server, m, "Certificate",
                IF verdict = "ok"
                THEN [Hears(server, m, "cke") EXCEPT !.certs = m.body]
                ELSE Failed(server, verdict))
    /\ UNCHANGED <<case, client, s2c>>

(* The client's key exchange, the deferred ServerKeyExchange of IBSDH, and *)
(* the pre-master secret.                                                  *)
ReadClientKeyExchange ==
    /\ ServerReads("cke")
    /\ LET m == Head(c2s)
           payload == cke_from_body(m.body)
           pms == ServerPms(Kx(server), case.s, payload, server.certs)
           deferred == IF Kx(server) = "Ibsdh"
                       THEN <<Msg("ServerKeyExchange", DeferredSke(case.s, payload))>>
                       ELSE << >>
           heard == [Hears(server, m, "verify") EXCEPT !.pms = pms,
                                                       !.transcript = @ \o deferred]
       IN  server' = Expects(server, m, "ClientKeyExchange",
                IF pms = << >> THEN Failed(server, "pms")
                ELSE Goes(heard, deferred))
    /\ UNCHANGED <<case, client, s2c>>

(* process_certificate_verify: with the key of the client's first          *)
(* certificate, over the server's own transcript; a signature of 64 bytes  *)
(* is taken for a raw one.                                                 *)
process_certificate_verify(s, me, sig) ==
    LET key == IF me.certs = << >> THEN None ELSE extract_sm2_pubkey(me.certs[1])
        raw == IF sig.form = "raw" THEN sig ELSE sm2_signature_der_to_raw(sig)
    IN  /\ key # None
        /\ Sm2Verifier_verify(raw, key, s.client_sign_distid, me.transcript)

(* CertificateVerify, or, when what comes is something else, a             *)
(* ChangeCipherSpec.                                                       *)
ReadVerifyOrCcs ==
    /\ ServerReads("verify")
    /\ LET m == Head(c2s)
       IN  server' =
               IF m.type = "CertificateVerify"
               THEN IF process_certificate_verify(case.s, server, m.body[1])
                    THEN Hears(server, m, "ccs") ELSE Failed(server, "verify")
               ELSE IF m.type = "CCS" THEN [server EXCEPT !.stage = "finished"]
               ELSE Failed(server, "unexpected")
    /\ UNCHANGED <<case, client, s2c>>

ReadClientCcs ==
    /\ ServerReads("ccs")
    /\ server' = Expects(server, Head(c2s), "CCS",
                          [server EXCEPT !.stage = "finished"])
    /\ UNCHANGED <<case, client, s2c>>

ReadClientFinished ==
    /\ ServerReads("finished")
    /\ LET m == Head(c2s)
           heard == Hears(server, m, "storing")
           end == Finished("server", heard)
       IN  server' = IF FinishedVerdict(server, "client", m) = "ok"
                     THEN Goes(heard, <<ChangeCipherSpec, end>>)
                     ELSE Failed(server, "finished")
    /\ UNCHANGED <<case, client, s2c>>

(* session_cache.put, which waits for the cache's lock: the client may     *)
(* have its Finished long before accept returns.                           *)
StoreSession ==
    /\ server.stage = "storing" /\ server.out = << >>
    /\ server' = [server EXCEPT !.stage = "ok"]
    /\ UNCHANGED <<case, client, c2s, s2c>>

-----------------------------------------------------------------------------
(* The end of the stream, and time. *)

Reading == {"hello", "cert", "ske", "request", "done", "deferred", "ccs",
            "finished", "cke", "verify"}

(* Seeded fault: a read that failed is tried again. *)
ClientEof_again ==
    /\ client.stage \in Reading \ {"request", "done"} /\ client.out = << >>
    /\ s2c = << >> /\ Gone(server)
    /\ client' = Failed(client, "Closed")
    /\ UNCHANGED <<case, server, c2s, s2c>>

(* A failed side drops its transport.  The client takes a failed read for  *)
(* "no CertificateRequest" and fails with the next one.                    *)
ClientEof ==
    /\ client.stage \in Reading /\ client.out = << >>
    /\ s2c = << >> /\ Gone(server)
    /\ client' = IF client.stage = "request" THEN [client EXCEPT !.stage = "done"]
                 ELSE Failed(client, "Closed")
    /\ UNCHANGED <<case, server, c2s, s2c>>

ServerEof ==
    /\ server.stage \in Reading /\ server.out = << >>
    /\ c2s = << >> /\ Gone(client)
    /\ server' = Failed(server, "Closed")
    /\ UNCHANGED <<case, client, c2s, s2c>>

(* with_handshake_timeout around connect and accept; none around           *)
(* connect_with_certs.  An acceptor may also give up while it stores the   *)
(* session.                                                                *)
ClientTimeout ==
    /\ case.c.timeout /\ case.entry = "connect"
    /\ client.stage \in Reading
    /\ client' = Failed(client, "Timeout")
    /\ UNCHANGED <<case, server, c2s, s2c>>

ServerTimeout ==
    /\ case.s.timeout
    /\ server.stage \in Reading \cup {"storing"}
    /\ server' = Failed(server, "Timeout")
    /\ UNCHANGED <<case, client, c2s, s2c>>

ClientNext ==
    \/ Connect \/ ReadServerHello \/ ReadServerCertificate
    \/ ReadServerKeyExchange \/ ReadRequestOrDone \/ ReadServerHelloDone
    \/ ReadDeferredKeyExchange \/ ReadServerCcs \/ ReadServerFinished
    \/ ClientWrites \/ ClientEof

ServerNext ==
    \/ Accept \/ ReadClientHello \/ ReadClientCertificate
    \/ ReadClientKeyExchange \/ ReadVerifyOrCcs \/ ReadClientCcs
    \/ ReadClientFinished \/ StoreSession
    \/ ServerWrites \/ ServerEof

Next == ClientNext \/ ServerNext \/ ClientTimeout \/ ServerTimeout

Spec == Init /\ [][Next]_vars

(* Both tasks are run by an executor that polls every ready task, and a    *)
(* timer that has run out fires.                                           *)
FairSpec == /\ Spec
            /\ WF_vars(ClientNext) /\ WF_vars(ServerNext)
            /\ WF_vars(ClientTimeout) /\ WF_vars(ServerTimeout)

-----------------------------------------------------------------------------
(* Properties. *)

Ended(me) == me.stage \in {"ok", "failed"} /\ me.out = << >>
Simulated == server.pms = Simulation

(* What the configurations of the two sides must have in common for the    *)
(* suite that is chosen: each side's certificates satisfy the other, the   *)
(* keys each side was given out of band are those the other one holds, and *)
(* the identities they are used with are the same.  (The signing half of a *)
(* KGC's key need not fit: see IbcSkeVerdict.)                             *)
Compatible(x) ==
    LET c == x.c
        s == x.s
        suite == Selected(c.suites)
        kx == TlcpCipherSuite[suite].key_exchange
        pair == from_certificate_message(to_certificate_message(ServerPair(s, kx)))
        list == c.certs
        sign == Con!load_client_key(c, c.sign_pem)
        enc == Con!load_client_key(c, c.enc_pem)
    IN  /\ suite # None
        /\ x.entry = "connect" => c.pin # None
        /\ HasCertificates(s)
        /\ ServerCertsVerdict(c.v, pair) = "ok"
        /\ kx \in {"Ecdhe", "Ecc"} =>
               /\ s.sign_key # None /\ s.sign_key = c.pin
               /\ s.sign_distid = c.pin_distid
               /\ list # << >> /\ list[1].parses
               /\ ClientCertsVerdict(s.v, list) = "ok"
               /\ sign # None /\ list[1].key = sign
               /\ s.client_sign_distid = c.sign_distid
               /\ s.enc_key # None /\ pair.enc.parses /\ pair.enc.key = s.enc_key
        /\ kx = "Ecdhe" =>
               /\ Len(list) >= 2 /\ list[2].parses
               /\ enc # None /\ list[2].key = enc
               /\ s.server_enc_distid = c.server_enc_distid
               /\ s.client_enc_distid = c.client_enc_distid
        /\ kx \in {"Ibc", "Ibsdh"} =>
               s.sm9 # Acc!NoSm9 /\ s.sm9.id = c.sm9.id /\ s.sm9.kgc = c.sm9.ppube
        /\ kx = "Ibsdh" =>
               c.ibsdh.de = <<s.sm9.id, s.sm9.kgc>> /\ c.ibsdh.id = s.sm9.id
        /\ kx = "Rsa" => s.rsa_key # None /\ s.rsa_key = c.rsa_pub

(* A side that ends well has found in the other one what its own           *)
(* configuration demands, checks the other side makes of it included: no   *)
(* handshake comes to its end between configurations that do not fit       *)
(* (connect_with_certs and accept_with_certs, all their checks together).  *)
PeersVerified ==
    client.stage = "ok" \/ (server.stage = "ok" /\ ~Simulated) => Compatible(case)

(* Configurations that fit fail only for want of time: the two transcripts,*)
(* put together message by message on each side in different places, come  *)
(* out the same for every suite.                                           *)
CompatibleSucceeds ==
    Compatible(case) =>
        \A me \in {client, server} : me.stage = "failed" =>
            /\ me.why \in {"Timeout", "Closed"}
            /\ "Timeout" \in {client.why, server.why}

(* The two sides agree on how it ended and with which keys: a connector    *)
(* that is told "ok" faces an acceptor with the same keys and the same     *)
(* account of the handshake, and the other way round, unless one of them   *)
(* ran out of time (an acceptor may, with its last message already sent,   *)
(* while it waits for the session cache).                                  *)
OutcomesAgree ==
    /\ client.stage = "ok" =>
          /\ server.stage \in {"storing", "ok"} \/ server.why = "Timeout"
          /\ KeyMaterial(client) = KeyMaterial(server)
          /\ Front(client.transcript) = server.transcript
    /\ server.stage = "ok" /\ ~Simulated /\ client.stage = "failed" =>
          client.why = "Timeout"

(* Every handshake ends on both sides, whatever the configurations: no two *)
(* sides wait for each other.  The exception is a connector without a      *)
(* timeout at an acceptor without certificates, which answers nothing.     *)
HandshakeEnds ==
    <>(Ended(server) /\
       (Ended(client) \/ (Simulated /\ ~(case.c.timeout /\ case.entry = "connect"))))

=============================================================================
