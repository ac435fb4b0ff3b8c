------------------------ MODULE TlcpHandshakeProofs ------------------------
(* The TLCP handshake, for every configuration of the two sides.           *)
EXTENDS TlcpHandshake, VecProofs, SequenceTheorems, TLAPS

-----------------------------------------------------------------------------
(* The conversation of a case: what each side says when nothing goes wrong *)
(* before, whether or not it comes to that.                                *)

Chosen(x) == Selected(x.c.suites)
KeyEx(x) == TlcpCipherSuite[Chosen(x)].key_exchange
Deferring(x) == KeyEx(x) = "Ibsdh"
Asking(x) == KeyEx(x) \in {"Ecdhe", "Ecc"}

SPair(x) == ServerPair(x.s, KeyEx(x))
CPair(x) == from_certificate_message(to_certificate_message(SPair(x)))

CHello(x) == ClientHello(x.c)
SHello(x) == ServerHello(Chosen(x))
SCerts(x) == Certificate(to_certificate_message(SPair(x)))
SkeBody(x) == ServerKeyExchange(KeyEx(x), x.s, SPair(x))
Ske(x) == Msg("ServerKeyExchange", SkeBody(x))
CCerts(x) == Certificate(x.c.certs)
HeardSke(x) == IF Deferring(x) THEN << >> ELSE SkeBody(x)
CkeOf(x) == ClientKeyExchange(KeyEx(x), x.c, CPair(x), HeardSke(x))
CkeMsg(x) == Msg("ClientKeyExchange", CkeOf(x).body)
Payload(x) == cke_from_body(CkeOf(x).body)
DSke(x) == Msg("ServerKeyExchange", DeferredSke(x.s, Payload(x)))

SPms(x) == ServerPms(KeyEx(x), x.s, Payload(x),
                     IF Asking(x) THEN x.c.certs ELSE << >>)
CPms(x) == IF Deferring(x) THEN AgreedPms(x.c, Payload(x), DSke(x).body)
           ELSE CkeOf(x).pms

(* What is said of some key exchanges only. *)
When(b, q) == IF b THEN q ELSE << >>

(* The transcripts. *)
THello(x) == <<CHello(x)>>
TSuite(x) == THello(x) \o <<SHello(x)>>
TStart(x) == TSuite(x) \o <<SCerts(x)>>
TSke(x) == TStart(x) \o When(~Deferring(x), <<Ske(x)>>)
TAsk(x) == TSke(x) \o When(Asking(x), <<CertificateRequest>>)
TAnswer(x) == TAsk(x) \o <<ServerHelloDone>>
TCerts(x) == TAnswer(x) \o When(Asking(x), <<CCerts(x)>>)
TCke(x) == TCerts(x) \o <<CkeMsg(x)>>
TDeferred(x) == TCke(x) \o When(Deferring(x), <<DSke(x)>>)

(* The two sides, at each of their stages.  A client that has taken the    *)
(* end of the stream for no CertificateRequest is lost, one that has heard *)
(* all of the server's answer is in flight.                                *)
Side(stage, suite, pair, certs, asked, ske, ra, pms, transcript) ==
    [stage |-> stage, suite |-> suite, pair |-> pair, certs |-> certs,
     asked |-> asked, ske |-> ske, ra |-> ra, pms |-> pms,
     transcript |-> transcript, out |-> << >>, why |-> None]

Blank == SinglePair(NoCert)
NotAsked == FALSE
WasAsked == TRUE
Connecting(stage, suite, transcript) ==
    Side(stage, suite, Blank, << >>, NotAsked, << >>, << >>, << >>, transcript)
Answered(x, stage, asked, ske, transcript) ==
    Side(stage, Chosen(x), CPair(x), << >>, asked, ske, << >>, << >>, transcript)
Keyed(x, stage, pms, transcript) ==
    Side(stage, Chosen(x), CPair(x), << >>, Asking(x), HeardSke(x),
         When(Deferring(x), CkeOf(x).body), pms, transcript)

CVerifyMsg(x) ==
    Msg("CertificateVerify",
        <<sm2_signature_raw_to_der(
            Sm2Signer_sign(Con!load_client_key(x.c, x.c.sign_pem),
                           x.c.sign_distid, TDeferred(x)))>>)
CVerify(x) == When(Asking(x), <<CVerifyMsg(x)>>)
TVerify(x) == TDeferred(x) \o CVerify(x)
CFinished(x) == Finished("client", Keyed(x, "ccs", CPms(x), TVerify(x)))
TClient(x) == TVerify(x) \o <<CFinished(x)>>

Serving(x, stage, certs, pms, transcript) ==
    Side(stage, Chosen(x), SPair(x), certs, Asking(x), << >>, << >>, pms, transcript)
Peer(x) == When(Asking(x), x.c.certs)
SFinished(x) == Finished("server", Serving(x, "storing", Peer(x), SPms(x), TClient(x)))
TServer(x) == TClient(x) \o <<SFinished(x)>>

ClientStages == {"start", "hello", "cert", "ske", "request", "done", "deferred",
                 "ccs", "finished", "ok", "lost"}
ClientAt(x, t) ==
    IF t = "start" THEN Idle
    ELSE IF t = "hello" THEN Connecting("hello", None, THello(x))
    ELSE IF t = "cert" THEN Connecting("cert", Chosen(x), TSuite(x))
    ELSE IF t = "ske" THEN Answered(x, "ske", NotAsked, << >>, TStart(x))
    ELSE IF t = "request" THEN Answered(x, "request", NotAsked, HeardSke(x), TSke(x))
    ELSE IF t = "lost" THEN Answered(x, "done", NotAsked, HeardSke(x), TSke(x))
    ELSE IF t = "done" THEN Answered(x, "done", WasAsked, HeardSke(x), TAsk(x))
    ELSE IF t = "deferred" THEN Keyed(x, "deferred", CkeOf(x).pms, TCke(x))
    ELSE IF t = "ok" THEN Keyed(x, "ok", CPms(x), TServer(x))
    ELSE Keyed(x, t, CPms(x), TClient(x))

ServerStages == {"start", "simulated", "hello", "cert", "cke", "verify", "ccs",
                 "finished", "storing", "ok"}
ServerAt(x, u) ==
    IF u = "start" THEN Idle
    ELSE IF u = "simulated" THEN [Idle EXCEPT !.stage = "ok", !.pms = Simulation]
    ELSE IF u = "hello" THEN [Idle EXCEPT !.stage = "hello"]
    ELSE IF u = "cert" THEN Serving(x, "cert", << >>, << >>, TAnswer(x))
    ELSE IF u = "cke" THEN Serving(x, "cke", Peer(x), << >>, TCerts(x))
    ELSE IF u = "verify" THEN Serving(x, "verify", Peer(x), SPms(x), TDeferred(x))
    ELSE IF u \in {"ccs", "finished"} THEN Serving(x, u, Peer(x), SPms(x), TVerify(x))
    ELSE Serving(x, u, Peer(x), SPms(x), TClient(x))

-----------------------------------------------------------------------------
(* What is still to be heard, and what is still to be said. *)

Then(m, rest) == <<m>> \o rest
ClientHearsCcs(x) == Then(ChangeCipherSpec, <<SFinished(x)>>)
ClientHearsDeferred(x) == When(Deferring(x), <<DSke(x)>>) \o ClientHearsCcs(x)
ClientHearsDone(x) == Then(ServerHelloDone, ClientHearsDeferred(x))
ClientHearsRequest(x) ==
    When(Asking(x), <<CertificateRequest>>) \o ClientHearsDone(x)
ClientHearsSke(x) == When(~Deferring(x), <<Ske(x)>>) \o ClientHearsRequest(x)
ClientHearsCert(x) == Then(SCerts(x), ClientHearsSke(x))
ClientHearsHello(x) == Then(SHello(x), ClientHearsCert(x))

ServerHearsCcs(x) == Then(ChangeCipherSpec, <<CFinished(x)>>)
ServerHearsVerify(x) == CVerify(x) \o ServerHearsCcs(x)
ServerHearsCke(x) == Then(CkeMsg(x), ServerHearsVerify(x))
ServerHearsCert(x) == When(Asking(x), <<CCerts(x)>>) \o ServerHearsCke(x)
ServerHearsHello(x) == Then(CHello(x), ServerHearsCert(x))

ClientHears(x, t) ==
    IF t \in {"start", "hello"} THEN ClientHearsHello(x)
    ELSE IF t = "cert" THEN ClientHearsCert(x)
    ELSE IF t = "ske" THEN ClientHearsSke(x)
    ELSE IF t = "request" THEN ClientHearsRequest(x)
    ELSE IF t = "done" THEN ClientHearsDone(x)
    ELSE IF t = "deferred" THEN ClientHearsDeferred(x)
    ELSE IF t = "ccs" THEN ClientHearsCcs(x)
    ELSE IF t = "finished" THEN <<SFinished(x)>>
    ELSE << >>
ClientLeft(x, t) ==
    IF t = "start" THEN ServerHearsHello(x)
    ELSE IF t = "deferred" THEN ServerHearsVerify(x)
    ELSE IF t \in {"ccs", "finished", "ok"} THEN << >>
    ELSE ServerHearsCert(x)
ServerHears(x, u) ==
    IF u \in {"start", "simulated", "hello"} THEN ServerHearsHello(x)
    ELSE IF u = "cert" THEN ServerHearsCert(x)
    ELSE IF u = "cke" THEN ServerHearsCke(x)
    ELSE IF u = "verify" THEN ServerHearsVerify(x)
    ELSE IF u = "ccs" THEN ServerHearsCcs(x)
    ELSE IF u = "finished" THEN <<CFinished(x)>>
    ELSE << >>
ServerLeft(x, u) ==
    IF u \in {"start", "simulated", "hello"} THEN ClientHearsHello(x)
    ELSE IF u \in {"cert", "cke"} THEN ClientHearsDeferred(x)
    ELSE IF u \in {"verify", "ccs", "finished"} THEN ClientHearsCcs(x)
    ELSE << >>

-----------------------------------------------------------------------------
(* What each side has found in order at a stage. *)

PinGiven(x) == x.entry = "connect" => x.c.pin # None
SuiteFound(x) == Chosen(x) # None
SkeMade(x) == ~Deferring(x) => SkeBody(x) # << >>
CertsGood(x) == ServerCertificateVerdict(x.c, KeyEx(x), CPair(x)) = "ok"
SkeGood(x) == ~Deferring(x) => SkeVerdict(x.c, KeyEx(x), SkeBody(x), CPair(x).enc) = "ok"
CkeMade(x) ==
    /\ Asking(x) => x.c.certs # << >> /\ x.c.sign_pem # Con!NoPem
    /\ CkeOf(x).body # << >>
KeyLoads(x) == Asking(x) => Con!load_client_key(x.c, x.c.sign_pem) # None
DeferredGood(x) ==
    Deferring(x) => DeferredVerdict(x.c, Payload(x), DSke(x).body) = "ok"
PeerGood(x) == Asking(x) => ClientCertificateVerdict(x.s, x.c.certs) = "ok"
PmsMade(x) == SPms(x) # << >>
VerifyGood(x) ==
    Asking(x) => process_certificate_verify(x.s, ServerAt(x, "verify"),
                                            CVerifyMsg(x).body[1])
ClientFinishedGood(x) == FinishedVerdict(ServerAt(x, "finished"), "client", CFinished(x)) = "ok"
ServerFinishedGood(x) == FinishedVerdict(ClientAt(x, "finished"), "server", SFinished(x)) = "ok"

ClientPassed(x, t) ==
    /\ t # "start" => PinGiven(x)
    /\ t \notin {"start", "hello"} => SuiteFound(x)
    /\ t \notin {"start", "hello", "cert"} => CertsGood(x)
    /\ t \notin {"start", "hello", "cert", "ske"} => SkeGood(x)
    /\ t = "ske" => ~Deferring(x)
    /\ t = "done" => Asking(x)
    /\ t = "deferred" => Deferring(x)
    /\ t \in {"deferred", "ccs", "finished", "ok"} => CkeMade(x) /\ KeyLoads(x)
    /\ t \in {"ccs", "finished", "ok"} => DeferredGood(x)
    /\ t = "ok" => ServerFinishedGood(x)

ServerPassed(x, u) ==
    /\ u = "simulated" => ~HasCertificates(x.s)
    /\ u \notin {"start", "simulated"} => HasCertificates(x.s)
    /\ u \notin {"start", "simulated", "hello"} => SuiteFound(x) /\ SkeMade(x)
    /\ u \in {"cert", "ccs"} => Asking(x)
    /\ u \notin {"start", "simulated", "hello", "cert"} => PeerGood(x)
    /\ u \in {"verify", "ccs", "finished", "storing", "ok"} => PmsMade(x)
    /\ u \in {"ccs", "finished", "storing", "ok"} => VerifyGood(x)
    /\ u \in {"storing", "ok"} => ClientFinishedGood(x)

-----------------------------------------------------------------------------
(* The invariant. *)

Said(x) ==
    {CHello(x), SHello(x), SCerts(x), Ske(x), CertificateRequest,
     ServerHelloDone, CCerts(x), CkeMsg(x), DSke(x), ChangeCipherSpec,
     CVerifyMsg(x), CFinished(x), SFinished(x)}

(* A side that has failed has still all its fields. *)
IsSide(me) ==
    \E stage, suite, pair, certs, asked, ske, ra, pms, transcript, out, why :
        me = [stage |-> stage, suite |-> suite, pair |-> pair, certs |-> certs,
              asked |-> asked, ske |-> ske, ra |-> ra, pms |-> pms,
              transcript |-> transcript, out |-> out, why |-> why]

Typed(x, me, way) ==
    IsSide(me) /\ me.out \in Seq(Said(x)) /\ way \in Seq(Said(x))

Alive(me) == me.stage # "failed"

ClientIs(x, me, t) ==
    /\ me = Goes(ClientAt(x, t), me.out) /\ ClientPassed(x, t)
    /\ t = "start" => me.out = << >>
ServerIs(x, me, u) ==
    /\ me = Goes(ServerAt(x, u), me.out) /\ ServerPassed(x, u)
    /\ u = "start" => me.out = << >>

(* All that a side was to say has been said by one that then failed. *)
ClientSpent(x, me) ==
    ClientPassed(x, "ccs") /\ me.why = "Timeout" /\ me.out = << >>
ServerSpent(x, me) ==
    LET at == ServerAt(x, "storing")
    IN  /\ ServerPassed(x, "storing")
        /\ me.why = "Timeout" /\ me.out = << >>
        /\ me.suite = at.suite /\ me.pms = at.pms /\ me.transcript = at.transcript

(* What is under way, what the other side has to write and what it has not *)
(* made yet are what this side still hears, if it is there to hear it.     *)
Flow(way, out, left) == (way \o out) \o left
ClientSays(x, t, u, me, way) ==
    \E left \in Seq(Said(x)) :
        /\ Flow(way, me.out, left) = ServerHears(x, u)
        /\ Alive(me) => left = ClientLeft(x, t)
        /\ ~Alive(me) /\ left = << >> => ClientSpent(x, me)
ServerSays(x, t, u, me, way) ==
    \E left \in Seq(Said(x)) :
        /\ Flow(way, me.out, left) = ClientHears(x, t)
        /\ Alive(me) => left = ServerLeft(x, u)
        /\ ~Alive(me) /\ left = << >> => ServerSpent(x, me)

(* A side fails for another reason than time only where the configurations *)
(* do not fit.                                                             *)
Blamed(x, me, other) ==
    ~Alive(me) /\ Compatible(x) =>
        /\ me.why \in {"Timeout", "Closed"} /\ me.out = << >>
        /\ "Timeout" \in {me.why, other.why}

Meeting(x, t, u, cl, sv, cs, sc) ==
    /\ Typed(x, cl, cs) /\ Typed(x, sv, sc)
    /\ Alive(cl) => ClientIs(x, cl, t)
    /\ Alive(sv) => ServerIs(x, sv, u)
    /\ Alive(sv) => ClientSays(x, t, u, cl, cs)
    /\ Alive(cl) /\ t # "lost" => ServerSays(x, t, u, sv, sc)
    /\ Alive(cl) /\ t = "lost" => sc = << >> /\ Gone(sv)
    /\ Blamed(x, cl, sv) /\ Blamed(x, sv, cl)

Met(x, cl, sv, cs, sc) ==
    \E t \in ClientStages, u \in ServerStages : Meeting(x, t, u, cl, sv, cs, sc)

HandshakeInv == case \in Cases /\ Met(case, client, server, c2s, s2c)

-----------------------------------------------------------------------------
(* Sequences. *)

LEMMA Assoc ==
    ASSUME NEW S, NEW q \in Seq(S), NEW r \in Seq(S), NEW w \in Seq(S)
    PROVE  (q \o r) \o w = q \o (r \o w) /\ q \o r \in Seq(S) /\ r \o w \in Seq(S)
  OBVIOUS

LEMMA Nothing ==
    ASSUME NEW S, NEW q \in Seq(S)
    PROVE  q \o << >> = q /\ << >> \o q = q /\ << >> \in Seq(S)
  OBVIOUS

LEMMA Joined ==
    ASSUME NEW S, NEW q \in Seq(S), NEW r \in Seq(S), NEW w \in Seq(S), NEW m \in S
    PROVE  /\ (q \o r) \o w = q \o (r \o w) /\ q \o r \in Seq(S)
           /\ q \o << >> = q /\ << >> \o q = q /\ << >> \in Seq(S)
           /\ Append(q, m) = q \o <<m>> /\ <<m>> \in Seq(S)
           /\ Append(q, m) \in Seq(S)
<1>1. (q \o r) \o w = q \o (r \o w) /\ q \o r \in Seq(S)
  OBVIOUS
<1>2. q \o << >> = q /\ << >> \o q = q /\ << >> \in Seq(S)
  OBVIOUS
<1>3. <<m>> \in Seq(S) /\ Len(<<m>>) = 1 /\ <<m>>[1] = m
  OBVIOUS
<1>4. /\ Append(q, m) \in Seq(S) /\ q \o <<m>> \in Seq(S)
      /\ Len(Append(q, m)) = Len(q) + 1 /\ Len(q \o <<m>>) = Len(q) + 1
  BY <1>3
<1>5. \A i \in 1..(Len(q) + 1) : Append(q, m)[i] = (q \o <<m>>)[i]
  BY <1>3
<1>6. Append(q, m) = q \o <<m>>
  BY <1>4, <1>5, SeqEqual
<1>7. QED
  BY <1>1, <1>2, <1>3, <1>4, <1>6

LEMMA TwoJoined ==
    ASSUME NEW S, NEW a \in S, NEW b \in S
    PROVE  <<a, b>> = <<a>> \o <<b>>
<1>1. /\ <<a>> \in Seq(S) /\ Len(<<a>>) = 1 /\ <<a>>[1] = a
      /\ <<b>> \in Seq(S) /\ Len(<<b>>) = 1 /\ <<b>>[1] = b
      /\ <<a, b>> \in Seq(S) /\ Len(<<a, b>>) = 2 /\ <<a, b>>[1] = a /\ <<a, b>>[2] = b
  OBVIOUS
<1>2. LET w == <<a>> \o <<b>> IN w \in Seq(S) /\ Len(w) = 2 /\ w[1] = a /\ w[2] = b
  BY <1>1
<1>3. \A i \in 1..2 : <<a, b>>[i] = (<<a>> \o <<b>>)[i]
  BY <1>1, <1>2
<1>4. QED
  BY <1>1, <1>2, <1>3, SeqEqual

(* Several sequences one after the other. *)
Cat(q, r) == q \o r

LEMMA CatLaws ==
    ASSUME NEW S
    PROVE  /\ \A q \in Seq(S), r \in Seq(S) : Cat(q, r) \in Seq(S)
           /\ \A q \in Seq(S), r \in Seq(S), w \in Seq(S) :
                 Cat(Cat(q, r), w) = Cat(q, Cat(r, w))
  BY DEF Cat

LEMMA FourJoined ==
    ASSUME NEW S, NEW a \in Seq(S), NEW b \in Seq(S), NEW c \in Seq(S), NEW d \in Seq(S)
    PROVE  /\ Cat(a, Cat(b, Cat(c, d))) = Cat(Cat(a, b), Cat(c, d))
           /\ Cat(a, Cat(b, Cat(c, d))) = Cat(Cat(Cat(a, b), c), d)
<1>1. PICK g \in Seq(S) : g = Cat(c, d)
  BY CatLaws
<1>2. PICK h \in Seq(S) : h = Cat(a, b)
  BY CatLaws
<1>3. Cat(h, Cat(c, d)) = Cat(Cat(h, c), d) /\ Cat(a, Cat(b, g)) = Cat(Cat(a, b), g)
  BY CatLaws
<1>4. QED
  BY <1>1, <1>2, <1>3

LEMMA SixJoined ==
    ASSUME NEW S, NEW a \in Seq(S), NEW b \in Seq(S), NEW c \in Seq(S),
           NEW d \in Seq(S), NEW e \in Seq(S), NEW f \in Seq(S)
    PROVE  /\ Cat(a, Cat(b, Cat(c, Cat(d, Cat(e, f)))))
                 = Cat(Cat(a, b), Cat(c, Cat(d, Cat(e, f))))
           /\ Cat(a, Cat(b, Cat(c, Cat(d, Cat(e, f)))))
                 = Cat(Cat(Cat(Cat(Cat(a, b), c), d), e), f)
           /\ Cat(f, Cat(Cat(Cat(Cat(a, b), c), d), e))
                 = Cat(Cat(Cat(Cat(Cat(f, a), b), c), d), e)
           /\ Cat(a, b) \in Seq(S) /\ Cat(Cat(Cat(Cat(a, b), c), d), e) \in Seq(S)
<1>1. PICK g \in Seq(S) : g = Cat(e, f)
  BY CatLaws
<1>2. PICK h \in Seq(S) : h = Cat(d, g)
  BY CatLaws
<1>3. PICK i \in Seq(S) : i = Cat(c, h)
  BY CatLaws
<1>4. PICK j \in Seq(S) : j = Cat(a, b)
  BY CatLaws
<1>5. PICK k \in Seq(S) : k = Cat(j, c)
  BY CatLaws
<1>6. PICK l \in Seq(S) : l = Cat(k, d)
  BY CatLaws
<1>7. /\ Cat(Cat(l, e), f) = Cat(l, Cat(e, f)) /\ Cat(k, Cat(d, g)) = Cat(Cat(k, d), g)
      /\ Cat(j, Cat(c, h)) = Cat(Cat(j, c), h) /\ Cat(a, Cat(b, i)) = Cat(Cat(a, b), i)
      /\ Cat(l, e) \in Seq(S)
  BY CatLaws
<1>8. /\ Cat(f, Cat(l, e)) = Cat(Cat(f, l), e) /\ Cat(f, Cat(k, d)) = Cat(Cat(f, k), d)
      /\ Cat(f, Cat(j, c)) = Cat(Cat(f, j), c) /\ Cat(f, Cat(a, b)) = Cat(Cat(f, a), b)
  BY CatLaws
<1>9. Cat(a, Cat(b, Cat(c, Cat(d, Cat(e, f))))) = Cat(Cat(Cat(Cat(Cat(a, b), c), d), e), f)
  BY <1>1, <1>2, <1>3, <1>4, <1>5, <1>6, <1>7
<1>10. Cat(a, Cat(b, Cat(c, Cat(d, Cat(e, f))))) = Cat(Cat(a, b), Cat(c, Cat(d, Cat(e, f))))
  BY <1>1, <1>2, <1>3, <1>7
<1>11. Cat(f, Cat(Cat(Cat(Cat(a, b), c), d), e)) = Cat(Cat(Cat(Cat(Cat(f, a), b), c), d), e)
  BY <1>4, <1>5, <1>6, <1>8
<1>12. Cat(a, b) \in Seq(S) /\ Cat(Cat(Cat(Cat(a, b), c), d), e) \in Seq(S)
  BY <1>4, <1>5, <1>6, <1>7
<1>13. QED
  BY <1>9, <1>10, <1>11, <1>12

(* One message is read, one is written, nothing is left. *)
LEMMA ReadOne ==
    ASSUME NEW S, NEW q \in Seq(S), NEW w \in Seq(S), NEW r \in Seq(S), NEW m \in S,
           q # << >>, Flow(q, << >>, w) = Then(m, r)
    PROVE  Head(q) = m /\ Tail(q) \in Seq(S) /\ Tail(q) \o w = r
<1>0. q \o w = <<m>> \o r
  <2>1. Flow(q, << >>, w) = q \o w
    BY Nothing DEF Flow
  <2>2. QED
    BY <2>1 DEF Then
<1>1. <<m>> \in Seq(S) /\ Len(<<m>>) = 1 /\ <<m>>[1] = m
  OBVIOUS
<1>2. PICK a \in Nat : a = Len(q)
  OBVIOUS
<1>3. PICK b \in Nat : b = Len(w)
  OBVIOUS
<1>4. PICK c \in Nat : c = Len(r)
  OBVIOUS
<1>5. a >= 1 /\ a + b = c + 1
  <2>1. a >= 1 /\ Len(q \o w) = a + b /\ Len(<<m>> \o r) = c + 1
    BY <1>1, <1>2, <1>3, <1>4
  <2>2. QED
    BY <2>1, <1>0
<1>6. Head(q) = q[1] /\ (q \o w)[1] = q[1] /\ (<<m>> \o r)[1] = m
  BY <1>1, <1>2, <1>5
<1>7. Tail(q) \in Seq(S) /\ Len(Tail(q)) = a - 1
  BY <1>2, <1>5
<1>8. Tail(q) \o w \in Seq(S) /\ Len(Tail(q) \o w) = c
  <2>1. a + b = c + 1
    BY <1>5
  <2>2. Len(Tail(q) \o w) = (a - 1) + b
    BY <1>3, <1>7
  <2>3. QED
    BY <1>7, <2>1, <2>2, <1>2, <1>3, <1>4
<1>9. ASSUME NEW i \in 1..c PROVE (Tail(q) \o w)[i] = r[i]
  <2>1. (<<m>> \o r)[i + 1] = r[i]
    <3>1. i \in Int /\ 1 <= i /\ i <= c /\ (i + 1) - 1 = i
      OBVIOUS
    <3>2. \A j \in 1..(1 + c) : j > 1 => (<<m>> \o r)[j] = r[j - 1]
      BY <1>1, <1>4
    <3>3. i + 1 \in 1..(1 + c) /\ i + 1 > 1
      BY <3>1
    <3>4. (<<m>> \o r)[i + 1] = r[(i + 1) - 1]
      BY <3>2, <3>3
    <3>5. QED
      BY <3>1, <3>4
  <2>2. i \in Int /\ 1 <= i /\ i <= c /\ a + b = c + 1 /\ i + 1 \in 1..(a + b)
    BY <1>5
  <2>3. CASE i <= a - 1
    <3>1. (Tail(q) \o w)[i] = Tail(q)[i] /\ Tail(q)[i] = q[i + 1]
      BY <1>2, <1>3, <1>7, <2>2, <2>3
    <3>2. (q \o w)[i + 1] = q[i + 1]
      BY <1>2, <1>3, <2>2, <2>3
    <3>3. QED
      BY <3>1, <3>2, <2>1, <1>0
  <2>4. CASE ~(i <= a - 1)
    <3>1. (Tail(q) \o w)[i] = w[i - (a - 1)]
      BY <1>2, <1>3, <1>7, <2>2, <2>4
    <3>2. (q \o w)[i + 1] = w[(i + 1) - a] /\ (i + 1) - a = i - (a - 1)
      BY <1>2, <1>3, <2>2, <2>4
    <3>3. QED
      BY <3>1, <3>2, <2>1, <1>0
  <2>5. QED
    BY <2>3, <2>4
<1>10. Tail(q) \o w = r
  BY <1>4, <1>8, <1>9, SeqEqual
<1>11. QED
  BY <1>0, <1>6, <1>7, <1>10

LEMMA WriteOne ==
    ASSUME NEW S, NEW q \in Seq(S), NEW w \in Seq(S), w # << >>
    PROVE  /\ Append(q, Head(w)) \o Tail(w) = q \o w
           /\ Append(q, Head(w)) \in Seq(S) /\ Tail(w) \in Seq(S) /\ Head(w) \in S
  OBVIOUS

(* A flow: what is under way, what is to be written, what is left to make. *)
LEMMA FlowMakes ==
    ASSUME NEW S, NEW way \in Seq(S), NEW new \in Seq(S), NEW rest \in Seq(S)
    PROVE  /\ Flow(way, new, rest) = Flow(way, << >>, new \o rest)
           /\ new \o rest \in Seq(S)
  BY DEF Flow

LEMMA FlowReads ==
    ASSUME NEW S, NEW way \in Seq(S), NEW out \in Seq(S), NEW left \in Seq(S),
           NEW m \in S, NEW r \in Seq(S), way # << >>,
           Flow(way, out, left) = Then(m, r)
    PROVE  Head(way) = m /\ Tail(way) \in Seq(S) /\ Flow(Tail(way), out, left) = r
<1> DEFINE more == out \o left
<1>1. more \in Seq(S) /\ Flow(way, out, left) = Flow(way, << >>, more)
  BY FlowMakes
<1>2. Flow(way, << >>, more) = Then(m, r)
  BY <1>1
<1> HIDE DEF more
<1>3. Head(way) = m /\ Tail(way) \in Seq(S) /\ Tail(way) \o more = r
  BY <1>1, <1>2, ReadOne
<1>4. \A q \in Seq(S) : Flow(q, out, left) = q \o (out \o left)
  BY Assoc DEF Flow
<1>5. QED
  BY <1>3, <1>4 DEF more

LEMMA FlowWrites ==
    ASSUME NEW S, NEW way \in Seq(S), NEW out \in Seq(S), NEW left \in Seq(S),
           out # << >>
    PROVE  /\ Flow(Append(way, Head(out)), Tail(out), left) = Flow(way, out, left)
           /\ Append(way, Head(out)) \in Seq(S) /\ Tail(out) \in Seq(S)
  BY WriteOne DEF Flow

LEMMA NothingLeft ==
    ASSUME NEW S, NEW q \in Seq(S), NEW r \in Seq(S), q \o r = << >>
    PROVE  q = << >> /\ r = << >>
  OBVIOUS

-----------------------------------------------------------------------------
(* The conversation. *)

LEMMA Words ==
    ASSUME NEW x
    PROVE  /\ CHello(x) \in Said(x) /\ SHello(x) \in Said(x) /\ SCerts(x) \in Said(x)
           /\ Ske(x) \in Said(x) /\ CertificateRequest \in Said(x)
           /\ ServerHelloDone \in Said(x) /\ CCerts(x) \in Said(x)
           /\ CkeMsg(x) \in Said(x) /\ DSke(x) \in Said(x)
           /\ ChangeCipherSpec \in Said(x) /\ CVerifyMsg(x) \in Said(x)
           /\ CFinished(x) \in Said(x) /\ SFinished(x) \in Said(x)
  BY DEF Said

LEMMA WhenSaid ==
    ASSUME NEW S, NEW m \in S, NEW b
    PROVE  When(b, <<m>>) \in Seq(S)
  BY DEF When

LEMMA HeardLists ==
    ASSUME NEW x
    PROVE  /\ ClientHearsCcs(x) \in Seq(Said(x)) /\ ClientHearsDeferred(x) \in Seq(Said(x))
           /\ ClientHearsDone(x) \in Seq(Said(x)) /\ ClientHearsRequest(x) \in Seq(Said(x))
           /\ ClientHearsSke(x) \in Seq(Said(x)) /\ ClientHearsCert(x) \in Seq(Said(x))
           /\ ClientHearsHello(x) \in Seq(Said(x))
           /\ ServerHearsCcs(x) \in Seq(Said(x)) /\ ServerHearsVerify(x) \in Seq(Said(x))
           /\ ServerHearsCke(x) \in Seq(Said(x)) /\ ServerHearsCert(x) \in Seq(Said(x))
           /\ ServerHearsHello(x) \in Seq(Said(x))
<1> DEFINE S == Said(x)
<1>0. \A m \in S : <<m>> \in Seq(S) /\ \A b : When(b, <<m>>) \in Seq(S)
  BY WhenSaid
<1> USE Words, <1>0
<1> HIDE DEF S
<1>1. ClientHearsCcs(x) \in Seq(S)
  BY DEF ClientHearsCcs, Then, S
<1>2. ClientHearsDeferred(x) \in Seq(S)
  BY <1>1 DEF ClientHearsDeferred, S
<1>3. ClientHearsDone(x) \in Seq(S)
  BY <1>2 DEF ClientHearsDone, Then, S
<1>4. ClientHearsRequest(x) \in Seq(S)
  BY <1>3 DEF ClientHearsRequest, S
<1>5. ClientHearsSke(x) \in Seq(S)
  BY <1>4 DEF ClientHearsSke, S
<1>6. ClientHearsCert(x) \in Seq(S)
  BY <1>5 DEF ClientHearsCert, Then, S
<1>7. ClientHearsHello(x) \in Seq(S)
  BY <1>6 DEF ClientHearsHello, Then, S
<1>8. ServerHearsCcs(x) \in Seq(S)
  BY DEF ServerHearsCcs, Then, S
<1>9. ServerHearsVerify(x) \in Seq(S)
  BY <1>8 DEF ServerHearsVerify, CVerify, S
<1>10. ServerHearsCke(x) \in Seq(S)
  BY <1>9 DEF ServerHearsCke, Then, S
<1>11. ServerHearsCert(x) \in Seq(S)
  BY <1>10 DEF ServerHearsCert, S
<1>12. ServerHearsHello(x) \in Seq(S)
  BY <1>11 DEF ServerHearsHello, Then, S
<1>13. QED
  BY <1>1, <1>2, <1>3, <1>4, <1>5, <1>6, <1>7, <1>8, <1>9, <1>10, <1>11, <1>12 DEF S

LEMMA StageLists ==
    ASSUME NEW x
    PROVE  \A t : /\ ClientHears(x, t) \in Seq(Said(x)) /\ ClientLeft(x, t) \in Seq(Said(x))
                  /\ ServerHears(x, t) \in Seq(Said(x)) /\ ServerLeft(x, t) \in Seq(Said(x))
<1>0. <<SFinished(x)>> \in Seq(Said(x)) /\ <<CFinished(x)>> \in Seq(Said(x))
  BY Words
<1> SUFFICES ASSUME NEW t
             PROVE  /\ ClientHears(x, t) \in Seq(Said(x)) /\ ClientLeft(x, t) \in Seq(Said(x))
                    /\ ServerHears(x, t) \in Seq(Said(x)) /\ ServerLeft(x, t) \in Seq(Said(x))
  OBVIOUS
<1>1. ClientHears(x, t) \in Seq(Said(x))
  BY <1>0, HeardLists DEF ClientHears
<1>2. ClientLeft(x, t) \in Seq(Said(x))
  BY <1>0, HeardLists DEF ClientLeft
<1>3. ServerHears(x, t) \in Seq(Said(x))
  BY <1>0, HeardLists DEF ServerHears
<1>4. ServerLeft(x, t) \in Seq(Said(x))
  BY <1>0, HeardLists DEF ServerLeft
<1>5. QED
  BY <1>1, <1>2, <1>3, <1>4

(* The transcripts. *)
LEMMA Transcripts ==
    ASSUME NEW x
    PROVE  /\ THello(x) \in Seq(Said(x)) /\ TSuite(x) \in Seq(Said(x))
           /\ TStart(x) \in Seq(Said(x)) /\ TSke(x) \in Seq(Said(x))
           /\ TAsk(x) \in Seq(Said(x)) /\ TAnswer(x) \in Seq(Said(x))
           /\ TCerts(x) \in Seq(Said(x)) /\ TCke(x) \in Seq(Said(x))
           /\ TDeferred(x) \in Seq(Said(x)) /\ TVerify(x) \in Seq(Said(x))
           /\ TClient(x) \in Seq(Said(x)) /\ TServer(x) \in Seq(Said(x))
<1> DEFINE S == Said(x)
<1>0. \A m \in S : <<m>> \in Seq(S) /\ \A b : When(b, <<m>>) \in Seq(S)
  BY WhenSaid
<1> USE Words, <1>0
<1> HIDE DEF S
<1>a. THello(x) \in Seq(S)
  BY DEF THello, S
<1>b. TSuite(x) \in Seq(S)
  BY <1>a DEF TSuite, S
<1>1. TStart(x) \in Seq(S)
  BY <1>b DEF TStart, S
<1>2. TSke(x) \in Seq(S)
  BY <1>1 DEF TSke, S
<1>3. TAsk(x) \in Seq(S)
  BY <1>2 DEF TAsk, S
<1>4. TAnswer(x) \in Seq(S)
  BY <1>3 DEF TAnswer, S
<1>5. TCerts(x) \in Seq(S)
  BY <1>4 DEF TCerts, S
<1>6. TCke(x) \in Seq(S)
  BY <1>5 DEF TCke, S
<1>7. TDeferred(x) \in Seq(S)
  BY <1>6 DEF TDeferred, S
<1>8. TVerify(x) \in Seq(S)
  BY <1>7 DEF TVerify, CVerify, S
<1>9. TClient(x) \in Seq(S)
  BY <1>8 DEF TClient, S
<1>10. TServer(x) \in Seq(S)
  BY <1>9 DEF TServer, S
<1>11. QED
  BY <1>a, <1>b, <1>1, <1>2, <1>3, <1>4, <1>5, <1>6, <1>7, <1>8, <1>9, <1>10 DEF S

-----------------------------------------------------------------------------
(* The two sides at their stages. *)

LEMMA SideFields ==
    ASSUME NEW stage, NEW suite, NEW pair, NEW certs, NEW asked, NEW ske,
           NEW ra, NEW pms, NEW transcript, NEW out
    PROVE  LET me == Side(stage, suite, pair, certs, asked, ske, ra, pms, transcript)
               he == Goes(me, out)
           IN  /\ IsSide(me) /\ me.stage = stage /\ me.out = << >> /\ me.why = None
               /\ me.suite = suite /\ me.pms = pms /\ me.transcript = transcript
               /\ IsSide(he) /\ he.stage = stage /\ he.out = out /\ he.why = None
               /\ he.suite = suite /\ he.pms = pms /\ he.transcript = transcript
               /\ Goes(me, << >>) = me
               /\ \A new : Goes(he, new) = Goes(me, new)
<1> DEFINE rec(o) == [stage |-> stage, suite |-> suite, pair |-> pair, certs |-> certs,
                      asked |-> asked, ske |-> ske, ra |-> ra, pms |-> pms,
                      transcript |-> transcript, out |-> o, why |-> None]
           me == Side(stage, suite, pair, certs, asked, ske, ra, pms, transcript)
<1>1. me = rec(<< >>)
  BY DEF Side
<1>2. \A o, n : [rec(o) EXCEPT !.out = n] = rec(n)
  OBVIOUS
<1>3. /\ \A o : Goes(me, o) = rec(o)
      /\ \A o, n : Goes(rec(o), n) = rec(n)
  BY <1>1, <1>2 DEF Goes
<1>4. \A o : IsSide(rec(o))
  BY DEF IsSide
<1>5. \A o : /\ rec(o).stage = stage /\ rec(o).out = o /\ rec(o).why = None
            /\ rec(o).suite = suite /\ rec(o).pms = pms /\ rec(o).transcript = transcript
  OBVIOUS
<1> HIDE DEF rec, me
<1>6. QED
  BY <1>1, <1>3, <1>4, <1>5 DEF me

LEMMA IdleSide == Idle = Side("start", None, Blank, << >>, NotAsked, << >>, << >>, << >>, << >>)
  BY DEF Idle, Side, Blank, NotAsked

LEMMA ClientSides ==
    ASSUME NEW x, NEW t \in ClientStages
    PROVE  \E suite, pair, certs, asked, ske, ra, pms, transcript :
              ClientAt(x, t) = Side(IF t = "lost" THEN "done" ELSE t, suite, pair,
                                    certs, asked, ske, ra, pms, transcript)
<1>1. CASE t \in {"start", "hello", "cert"}
  BY <1>1, IdleSide DEF ClientAt, Connecting
<1>2. CASE t \in {"ske", "request", "lost", "done"}
  BY <1>2 DEF ClientAt, Answered
<1>3. CASE t \in {"deferred", "ccs", "finished", "ok"}
  BY <1>3 DEF ClientAt, Keyed
<1>4. QED
  BY <1>1, <1>2, <1>3 DEF ClientStages

LEMMA ServerSides ==
    ASSUME NEW x, NEW u \in ServerStages
    PROVE  \E suite, pair, certs, asked, ske, ra, pms, transcript :
              ServerAt(x, u) = Side(IF u = "simulated" THEN "ok" ELSE u, suite, pair,
                                    certs, asked, ske, ra, pms, transcript)
<1>1. CASE u = "start"
  BY <1>1, IdleSide DEF ServerAt
<1>2. CASE u = "simulated"
  <2>1. ServerAt(x, u) = Side("ok", None, Blank, << >>, NotAsked, << >>, << >>, Simulation, << >>)
    BY <1>2, IdleSide DEF ServerAt, Side
  <2>2. QED
    BY <1>2, <2>1
<1>3. CASE u = "hello"
  <2>1. ServerAt(x, u) = Side("hello", None, Blank, << >>, NotAsked, << >>, << >>, << >>, << >>)
    BY <1>3, IdleSide DEF ServerAt, Side
  <2>2. QED
    BY <1>3, <2>1
<1>4. CASE u \in {"cert", "cke", "verify", "ccs", "finished", "storing", "ok"}
  BY <1>4 DEF ServerAt, Serving
<1>5. QED
  BY <1>1, <1>2, <1>3, <1>4 DEF ServerStages

LEMMA ClientFields ==
    ASSUME NEW x, NEW t \in ClientStages, NEW out
    PROVE  LET me == ClientAt(x, t)
               he == Goes(me, out)
           IN  /\ IsSide(he) /\ he.out = out /\ he.why = None
               /\ he.stage = (IF t = "lost" THEN "done" ELSE t)
               /\ Alive(he) /\ Goes(me, << >>) = me
               /\ \A new : Goes(he, new) = Goes(me, new)
<1>1. PICK suite, pair, certs, asked, ske, ra, pms, transcript :
          ClientAt(x, t) = Side(IF t = "lost" THEN "done" ELSE t, suite, pair,
                                certs, asked, ske, ra, pms, transcript)
  BY ClientSides
<1>2. (IF t = "lost" THEN "done" ELSE t) # "failed"
  BY DEF ClientStages
<1>3. QED
  BY <1>1, <1>2, SideFields DEF Alive

LEMMA ServerFields ==
    ASSUME NEW x, NEW u \in ServerStages, NEW out
    PROVE  LET me == ServerAt(x, u)
               he == Goes(me, out)
           IN  /\ IsSide(he) /\ he.out = out /\ he.why = None
               /\ he.stage = (IF u = "simulated" THEN "ok" ELSE u)
               /\ Alive(he) /\ Goes(me, << >>) = me
               /\ \A new : Goes(he, new) = Goes(me, new)
               /\ he.suite = me.suite /\ he.pms = me.pms
               /\ he.transcript = me.transcript
<1>1. PICK suite, pair, certs, asked, ske, ra, pms, transcript :
          ServerAt(x, u) = Side(IF u = "simulated" THEN "ok" ELSE u, suite, pair,
                                certs, asked, ske, ra, pms, transcript)
  BY ServerSides
<1>2. (IF u = "simulated" THEN "ok" ELSE u) # "failed"
  BY DEF ServerStages
<1>3. QED
  BY <1>1, <1>2, SideFields DEF Alive

(* A side that fails, and one that has written a message. *)
LEMMA AnySide ==
    ASSUME NEW me, IsSide(me), NEW out, NEW why
    PROVE  /\ LET g == Goes(me, out)
              IN  /\ IsSide(g) /\ g.stage = me.stage /\ g.why = me.why /\ g.out = out
                  /\ g.suite = me.suite /\ g.pms = me.pms
                  /\ g.transcript = me.transcript
                  /\ \A new : Goes(g, new) = Goes(me, new)
           /\ LET f == Failed(me, why)
              IN  /\ IsSide(f) /\ f.stage = "failed" /\ f.why = why /\ f.out = << >>
                  /\ f.suite = me.suite /\ f.pms = me.pms
                  /\ f.transcript = me.transcript
<1>1. PICK stage, suite, pair, certs, asked, ske, ra, pms, transcript, o, w :
        me = [stage |-> stage, suite |-> suite, pair |-> pair, certs |-> certs,
              asked |-> asked, ske |-> ske, ra |-> ra, pms |-> pms,
              transcript |-> transcript, out |-> o, why |-> w]
  BY DEF IsSide
<1>2. Goes(me, out) =
        [stage |-> stage, suite |-> suite, pair |-> pair, certs |-> certs,
         asked |-> asked, ske |-> ske, ra |-> ra, pms |-> pms,
         transcript |-> transcript, out |-> out, why |-> w]
  BY <1>1 DEF Goes
<1>3. Failed(me, why) =
        [stage |-> "failed", suite |-> suite, pair |-> pair, certs |-> certs,
         asked |-> asked, ske |-> ske, ra |-> ra, pms |-> pms,
         transcript |-> transcript, out |-> << >>, why |-> why]
  <2> DEFINE r == [stage |-> stage, suite |-> suite, pair |-> pair, certs |-> certs,
                   asked |-> asked, ske |-> ske, ra |-> ra, pms |-> pms,
                   transcript |-> transcript, out |-> o, why |-> w]
             r1 == [r EXCEPT !.stage = "failed"]
             r2 == [r1 EXCEPT !.why = why]
  <2>1. r1 = [stage |-> "failed", suite |-> suite, pair |-> pair, certs |-> certs,
              asked |-> asked, ske |-> ske, ra |-> ra, pms |-> pms,
              transcript |-> transcript, out |-> o, why |-> w]
    OBVIOUS
  <2> HIDE DEF r1
  <2>2. r2 = [stage |-> "failed", suite |-> suite, pair |-> pair, certs |-> certs,
              asked |-> asked, ske |-> ske, ra |-> ra, pms |-> pms,
              transcript |-> transcript, out |-> o, why |-> why]
    BY <2>1
  <2>3. Failed(me, why) = [r2 EXCEPT !.out = << >>]
    BY <1>1 DEF Failed, r1
  <2> HIDE DEF r2
  <2>4. QED
    BY <2>2, <2>3
<1>4. IsSide(Goes(me, out)) /\ IsSide(Failed(me, why))
  BY <1>2, <1>3 DEF IsSide
<1>5. \A new : Goes(Goes(me, out), new) = Goes(me, new)
  BY <1>1, <1>2 DEF Goes
<1>6. QED
  BY <1>1, <1>2, <1>3, <1>4, <1>5

LEMMA FailedFields ==
    ASSUME NEW me, IsSide(me), NEW why, NEW out
    PROVE  LET f == Failed(me, why)
               g == Goes(f, out)
           IN  /\ IsSide(f) /\ ~Alive(f) /\ f.why = why /\ f.out = << >>
               /\ f.suite = me.suite /\ f.pms = me.pms /\ f.transcript = me.transcript
               /\ IsSide(g) /\ ~Alive(g) /\ g.why = why /\ g.out = out
<1>1. LET f == Failed(me, why)
      IN  /\ IsSide(f) /\ f.stage = "failed" /\ f.why = why /\ f.out = << >>
          /\ f.suite = me.suite /\ f.pms = me.pms /\ f.transcript = me.transcript
  BY AnySide
<1>2. LET g == Goes(Failed(me, why), out)
      IN  IsSide(g) /\ g.stage = "failed" /\ g.why = why /\ g.out = out
  BY <1>1, AnySide
<1>3. QED
  BY <1>1, <1>2 DEF Alive

-----------------------------------------------------------------------------
(* Steps of the client. *)

(* What comes next is what the client waits for. *)
LEMMA ClientReadsOne ==
    ASSUME NEW x, NEW t \in ClientStages \ {"lost"}, NEW v, NEW u \in ServerStages,
           NEW cl, NEW sv, NEW cs, NEW sc, Meeting(x, t, u, cl, sv, cs, sc),
           Alive(cl), sc # << >>,
           NEW m \in Said(x), ClientHears(x, t) = Then(m, ClientHears(x, v))
    PROVE  Head(sc) = m /\ Tail(sc) \in Seq(Said(x)) /\ ServerSays(x, v, u, sv, Tail(sc))
<1> DEFINE S == Said(x)
<1>1. sc \in Seq(S) /\ sv.out \in Seq(S)
  BY DEF Meeting, Typed
<1>2. ServerSays(x, t, u, sv, sc)
  BY DEF Meeting
<1>3. PICK left \in Seq(S) :
        /\ Flow(sc, sv.out, left) = ClientHears(x, t)
        /\ Alive(sv) => left = ServerLeft(x, u)
        /\ ~Alive(sv) /\ left = << >> => ServerSpent(x, sv)
  BY <1>2 DEF ServerSays
<1>4. ClientHears(x, v) \in Seq(S)
  BY StageLists
<1>5. Head(sc) = m /\ Tail(sc) \in Seq(S) /\ Flow(Tail(sc), sv.out, left) = ClientHears(x, v)
  BY <1>1, <1>3, <1>4, FlowReads
<1>6. QED
  BY <1>3, <1>5 DEF ServerSays

LEMMA ClientMoves ==
    ASSUME NEW x, NEW t \in ClientStages, NEW v \in ClientStages \ {"start", "lost"},
           NEW u \in ServerStages, NEW cl, NEW sv, NEW cs, NEW sc,
           Meeting(x, t, u, cl, sv, cs, sc), Alive(cl), cl.out = << >>,
           NEW new \in Seq(Said(x)), ClientLeft(x, t) = new \o ClientLeft(x, v),
           ClientPassed(x, v),
           NEW way \in Seq(Said(x)), ServerSays(x, v, u, sv, way)
    PROVE  Meeting(x, v, u, Goes(ClientAt(x, v), new), sv, cs, way)
<1> DEFINE S == Said(x)
           c2 == Goes(ClientAt(x, v), new)
<1>1. cs \in Seq(S) /\ sv.out \in Seq(S) /\ IsSide(sv)
  BY DEF Meeting, Typed
<1>2. IsSide(c2) /\ c2.out = new /\ c2.why = None /\ Alive(c2)
  BY ClientFields
<1>3. c2 = Goes(ClientAt(x, v), c2.out)
  BY <1>2
<1>4. cl.why = None
  BY ClientFields DEF Meeting, ClientIs
<1> HIDE DEF c2
<1>5. ASSUME Alive(sv) PROVE ClientSays(x, v, u, c2, cs)
  <2>1. PICK left \in Seq(S) : Flow(cs, << >>, left) = ServerHears(x, u) /\ left = ClientLeft(x, t)
    BY <1>5 DEF Meeting, ClientSays
  <2>2. ClientLeft(x, v) \in Seq(S)
    BY StageLists
  <2>3. Flow(cs, new, ClientLeft(x, v)) = ServerHears(x, u)
    BY <1>1, <2>1, <2>2, FlowMakes
  <2>4. QED
    BY <1>2, <2>2, <2>3 DEF ClientSays
<1>6. Typed(x, c2, cs) /\ Typed(x, sv, way)
  BY <1>1, <1>2 DEF Typed
<1>7. Blamed(x, c2, sv) /\ Blamed(x, sv, c2)
  BY <1>2, <1>4 DEF Meeting, Blamed
<1>8. ClientIs(x, c2, v) /\ (Alive(sv) => ServerIs(x, sv, u))
  BY <1>3 DEF ClientIs, Meeting
<1>9. Meeting(x, v, u, c2, sv, cs, way)
  BY <1>5, <1>6, <1>7, <1>8 DEF Meeting
<1>10. QED
  BY <1>9 DEF c2

(* A client that fails before its last message is made. *)
LEMMA ClientFails ==
    ASSUME NEW x, NEW t \in ClientStages, NEW u \in ServerStages,
           NEW cl, NEW sv, NEW cs, NEW sc,
           Meeting(x, t, u, cl, sv, cs, sc), Alive(cl), cl.out = << >>,
           NEW f, IsSide(f), ~Alive(f), f.out \in Seq(Said(x)),
           NEW rest \in Seq(Said(x)), rest # << >>, ClientLeft(x, t) = f.out \o rest,
           ~Compatible(x), NEW way \in Seq(Said(x))
    PROVE  Meeting(x, t, u, f, sv, cs, way)
<1> DEFINE S == Said(x)
<1>1. cs \in Seq(S) /\ sv.out \in Seq(S) /\ IsSide(sv)
  BY DEF Meeting, Typed
<1>2. ASSUME Alive(sv) PROVE ClientSays(x, t, u, f, cs)
  <2>1. PICK left \in Seq(S) : Flow(cs, << >>, left) = ServerHears(x, u) /\ left = ClientLeft(x, t)
    BY <1>2 DEF Meeting, ClientSays
  <2>2. Flow(cs, f.out, rest) = ServerHears(x, u)
    BY <1>1, <2>1, FlowMakes
  <2>3. QED
    BY <2>2 DEF ClientSays
<1>3. Typed(x, f, cs) /\ Typed(x, sv, way)
  BY <1>1 DEF Typed
<1>4. Blamed(x, f, sv) /\ Blamed(x, sv, f)
  BY DEF Blamed
<1>5. Alive(sv) => ServerIs(x, sv, u)
  BY DEF Meeting
<1>6. QED
  BY <1>2, <1>3, <1>4, <1>5 DEF Meeting

(* Nothing is left to say at the last stages only. *)
LEMMA ClientLeftEmpty ==
    ASSUME NEW x, NEW t \in ClientStages, ClientLeft(x, t) = << >>
    PROVE  t \in {"ccs", "finished", "ok"}
<1> DEFINE S == Said(x)
<1>1. \A m \in S, q \in Seq(S) : <<m>> \o q # << >>
  OBVIOUS
<1>2. \A p \in Seq(S), q \in Seq(S) : q # << >> => p \o q # << >>
  OBVIOUS
<1>3. ServerHearsCcs(x) # << >> /\ ServerHearsCke(x) # << >> /\ ServerHearsHello(x) # << >>
  <2>1. <<CFinished(x)>> \in Seq(S)
    BY Words
  <2>2. QED
    BY <1>1, <2>1, Words, HeardLists DEF ServerHearsCcs, ServerHearsCke, ServerHearsHello, Then
<1>4. CVerify(x) \in Seq(S) /\ When(Asking(x), <<CCerts(x)>>) \in Seq(S)
  BY Words, WhenSaid DEF CVerify
<1>5. ServerHearsVerify(x) # << >> /\ ServerHearsCert(x) # << >>
  BY <1>2, <1>3, <1>4, HeardLists DEF ServerHearsVerify, ServerHearsCert
<1>6. QED
  BY <1>3, <1>5 DEF ClientLeft, ClientStages

LEMMA ClientExpires ==
    ASSUME NEW x, NEW t \in ClientStages, NEW u \in ServerStages,
           NEW cl, NEW sv, NEW cs, NEW sc,
           Meeting(x, t, u, cl, sv, cs, sc), Alive(cl)
    PROVE  Meeting(x, t, u, Failed(cl, "Timeout"), sv, cs, sc)
<1> DEFINE S == Said(x)
           f == Failed(cl, "Timeout")
<1>1. /\ cs \in Seq(S) /\ sc \in Seq(S) /\ cl.out \in Seq(S) /\ sv.out \in Seq(S)
      /\ IsSide(sv) /\ IsSide(cl)
  BY DEF Meeting, Typed
<1>2. IsSide(f) /\ ~Alive(f) /\ f.why = "Timeout" /\ f.out = << >>
  BY <1>1, FailedFields
<1> HIDE DEF f
<1>3. ASSUME Alive(sv) PROVE ClientSays(x, t, u, f, cs)
  <2>1. PICK left \in Seq(S) : Flow(cs, cl.out, left) = ServerHears(x, u) /\ left = ClientLeft(x, t)
    BY <1>3 DEF Meeting, ClientSays
  <2>2. Flow(cs, << >>, (cl.out \o left)) = ServerHears(x, u) /\ cl.out \o left \in Seq(S)
    BY <1>1, <2>1, FlowMakes
  <2>3. ASSUME cl.out \o left = << >> PROVE ClientSpent(x, f)
    <3>1. ClientLeft(x, t) = << >>
      BY <1>1, <2>1, <2>3, NothingLeft
    <3>2. t \in {"ccs", "finished", "ok"}
      BY <3>1, ClientLeftEmpty
    <3>3. ClientPassed(x, t)
      BY DEF Meeting, ClientIs
    <3>4. ClientPassed(x, "ccs")
      BY <3>2, <3>3 DEF ClientPassed
    <3>5. QED
      BY <1>2, <3>4 DEF ClientSpent
  <2>4. QED
    BY <1>2, <2>2, <2>3 DEF ClientSays
<1>4. Typed(x, f, cs) /\ Typed(x, sv, sc)
  BY <1>1, <1>2 DEF Typed
<1>5. Blamed(x, f, sv) /\ Blamed(x, sv, f)
  BY <1>2 DEF Meeting, Blamed
<1>6. Alive(sv) => ServerIs(x, sv, u)
  BY DEF Meeting
<1>7. Meeting(x, t, u, f, sv, cs, sc)
  BY <1>2, <1>3, <1>4, <1>5, <1>6 DEF Meeting
<1>8. QED
  BY <1>7 DEF f

LEMMA ClientCloses ==
    ASSUME NEW x, NEW t \in ClientStages, NEW u \in ServerStages,
           NEW cl, NEW sv, NEW cs, NEW sc,
           Meeting(x, t, u, cl, sv, cs, sc), Alive(cl) \/ cl.out # << >>, Gone(sv)
    PROVE  Meeting(x, t, u, Failed(cl, "Closed"), sv, cs, sc)
<1> DEFINE f == Failed(cl, "Closed")
<1>1. Typed(x, cl, cs) /\ Typed(x, sv, sc) /\ IsSide(cl)
  BY DEF Meeting, Typed
<1>2. IsSide(f) /\ ~Alive(f) /\ f.why = "Closed" /\ f.out = << >>
  BY <1>1, FailedFields
<1>3. ~Alive(sv)
  BY DEF Gone, Alive
<1> HIDE DEF f
<1>4. Typed(x, f, cs)
  BY <1>1, <1>2 DEF Typed
<1>5. ASSUME Compatible(x) PROVE sv.why = "Timeout" /\ sv.out = << >>
  <2>1. Blamed(x, cl, sv) /\ Blamed(x, sv, cl)
    BY DEF Meeting
  <2>2. Alive(cl)
    BY <1>5, <2>1 DEF Blamed
  <2>3. cl.why = None
    BY <2>2, ClientFields DEF Meeting, ClientIs
  <2>4. QED
    BY <1>3, <1>5, <2>1, <2>3 DEF Blamed, None
<1>6. Blamed(x, f, sv) /\ Blamed(x, sv, f)
  BY <1>2, <1>5 DEF Blamed
<1>7. Meeting(x, t, u, f, sv, cs, sc)
  BY <1>1, <1>2, <1>3, <1>4, <1>6 DEF Meeting
<1>8. QED
  BY <1>7 DEF f

LEMMA ClientWritesOne ==
    ASSUME NEW x, NEW t \in ClientStages, NEW u \in ServerStages,
           NEW cl, NEW sv, NEW cs, NEW sc,
           Meeting(x, t, u, cl, sv, cs, sc), cl.out # << >>
    PROVE  Meeting(x, t, u, Goes(cl, Tail(cl.out)), sv, Append(cs, Head(cl.out)), sc)
<1> DEFINE S == Said(x)
           c2 == Goes(cl, Tail(cl.out))
           w == Append(cs, Head(cl.out))
<1>1. cs \in Seq(S) /\ cl.out \in Seq(S) /\ IsSide(cl) /\ Typed(x, sv, sc)
  BY DEF Meeting, Typed
<1>2. /\ IsSide(c2) /\ c2.stage = cl.stage /\ c2.why = cl.why /\ c2.out = Tail(cl.out)
  BY <1>1, AnySide
<1>3. w \in Seq(S) /\ Tail(cl.out) \in Seq(S)
  BY <1>1, WriteOne
<1>0. \A left \in Seq(S) : Flow(w, Tail(cl.out), left) = Flow(cs, cl.out, left)
  BY <1>1, FlowWrites
<1>4. ASSUME Alive(cl) PROVE ClientIs(x, c2, t)
  <2>1. cl = Goes(ClientAt(x, t), cl.out) /\ ClientPassed(x, t) /\ t # "start"
    BY <1>4 DEF Meeting, ClientIs
  <2>2. Goes(cl, Tail(cl.out)) = Goes(ClientAt(x, t), Tail(cl.out))
    BY <2>1, ClientFields
  <2>3. QED
    BY <1>2, <2>1, <2>2 DEF ClientIs
<1> HIDE DEF c2, w
<1>5. Alive(c2) <=> Alive(cl)
  BY <1>2 DEF Alive
<1>6. ASSUME Alive(sv) PROVE ClientSays(x, t, u, c2, w)
  <2>1. PICK left \in Seq(S) :
          /\ Flow(cs, cl.out, left) = ServerHears(x, u)
          /\ Alive(cl) => left = ClientLeft(x, t)
          /\ ~Alive(cl) /\ left = << >> => ClientSpent(x, cl)
    BY <1>6 DEF Meeting, ClientSays
  <2>2. Flow(w, c2.out, left) = ServerHears(x, u)
    BY <1>0, <1>2, <2>1
  <2>3. ~(~Alive(cl) /\ left = << >>)
    BY <2>1 DEF ClientSpent
  <2>4. QED
    BY <1>5, <2>1, <2>2, <2>3 DEF ClientSays
<1>7. Typed(x, c2, w)
  BY <1>2, <1>3 DEF Typed
<1>8. Blamed(x, c2, sv) /\ Blamed(x, sv, c2)
  BY <1>2, <1>5 DEF Meeting, Blamed
<1>9. Meeting(x, t, u, c2, sv, w, sc)
  BY <1>1, <1>4, <1>5, <1>6, <1>7, <1>8 DEF Meeting
<1>10. QED
  BY <1>9 DEF c2, w

-----------------------------------------------------------------------------
(* Steps of the server. *)

(* What comes next is what the server waits for. *)
LEMMA ServerReadsOne ==
    ASSUME NEW x, NEW u \in ServerStages, NEW v, NEW t \in ClientStages,
           NEW sv, NEW cl, NEW sc, NEW cs, Meeting(x, t, u, cl, sv, cs, sc),
           Alive(sv), cs # << >>,
           NEW m \in Said(x), ServerHears(x, u) = Then(m, ServerHears(x, v))
    PROVE  Head(cs) = m /\ Tail(cs) \in Seq(Said(x)) /\ ClientSays(x, t, v, cl, Tail(cs))
<1> DEFINE S == Said(x)
<1>1. cs \in Seq(S) /\ cl.out \in Seq(S)
  BY DEF Meeting, Typed
<1>2. ClientSays(x, t, u, cl, cs)
  BY DEF Meeting
<1>3. PICK left \in Seq(S) :
        /\ Flow(cs, cl.out, left) = ServerHears(x, u)
        /\ Alive(cl) => left = ClientLeft(x, t)
        /\ ~Alive(cl) /\ left = << >> => ClientSpent(x, cl)
  BY <1>2 DEF ClientSays
<1>4. ServerHears(x, v) \in Seq(S)
  BY StageLists
<1>5. Head(cs) = m /\ Tail(cs) \in Seq(S) /\ Flow(Tail(cs), cl.out, left) = ServerHears(x, v)
  BY <1>1, <1>3, <1>4, FlowReads
<1>6. QED
  BY <1>3, <1>5 DEF ClientSays

LEMMA ServerMoves ==
    ASSUME NEW x, NEW u \in ServerStages, NEW v \in ServerStages \ {"start"},
           NEW t \in ClientStages, NEW sv, NEW cl, NEW sc, NEW cs,
           Meeting(x, t, u, cl, sv, cs, sc), Alive(sv), sv.out = << >>,
           NEW new \in Seq(Said(x)), ServerLeft(x, u) = new \o ServerLeft(x, v),
           ServerPassed(x, v),
           NEW way \in Seq(Said(x)), ClientSays(x, t, v, cl, way)
    PROVE  Meeting(x, t, v, cl, Goes(ServerAt(x, v), new), way, sc)
<1> DEFINE S == Said(x)
           s2 == Goes(ServerAt(x, v), new)
<1>a. Alive(cl) => t # "lost"
  BY DEF Meeting, Gone, Alive
<1>1. sc \in Seq(S) /\ cl.out \in Seq(S) /\ IsSide(cl)
  BY DEF Meeting, Typed
<1>2. IsSide(s2) /\ s2.out = new /\ s2.why = None /\ Alive(s2)
  BY ServerFields
<1>3. s2 = Goes(ServerAt(x, v), s2.out)
  BY <1>2
<1>4. sv.why = None
  BY ServerFields DEF Meeting, ServerIs
<1> HIDE DEF s2
<1>5. ASSUME Alive(cl) PROVE ServerSays(x, t, v, s2, sc)
  <2>1. PICK left \in Seq(S) : Flow(sc, << >>, left) = ClientHears(x, t) /\ left = ServerLeft(x, u)
    BY <1>a, <1>5 DEF Meeting, ServerSays
  <2>2. ServerLeft(x, v) \in Seq(S)
    BY StageLists
  <2>3. Flow(sc, new, ServerLeft(x, v)) = ClientHears(x, t)
    BY <1>1, <2>1, <2>2, FlowMakes
  <2>4. QED
    BY <1>2, <2>2, <2>3 DEF ServerSays
<1>6. Typed(x, s2, sc) /\ Typed(x, cl, way)
  BY <1>1, <1>2 DEF Typed
<1>7. Blamed(x, s2, cl) /\ Blamed(x, cl, s2)
  BY <1>2, <1>4 DEF Meeting, Blamed
<1>8. ServerIs(x, s2, v) /\ (Alive(cl) => ClientIs(x, cl, t))
  BY <1>3 DEF ServerIs, Meeting
<1>9. Meeting(x, t, v, cl, s2, way, sc)
  BY <1>a, <1>5, <1>6, <1>7, <1>8 DEF Meeting
<1>10. QED
  BY <1>9 DEF s2

(* A server that fails before its last message is made. *)
LEMMA ServerFails ==
    ASSUME NEW x, NEW u \in ServerStages, NEW t \in ClientStages,
           NEW sv, NEW cl, NEW sc, NEW cs,
           Meeting(x, t, u, cl, sv, cs, sc), Alive(sv), sv.out = << >>,
           NEW f, IsSide(f), ~Alive(f), f.out \in Seq(Said(x)),
           NEW rest \in Seq(Said(x)), rest # << >>, ServerLeft(x, u) = f.out \o rest,
           ~Compatible(x), NEW way \in Seq(Said(x))
    PROVE  Meeting(x, t, u, cl, f, way, sc)
<1> DEFINE S == Said(x)
<1>a. Alive(cl) => t # "lost"
  BY DEF Meeting, Gone, Alive
<1>1. sc \in Seq(S) /\ cl.out \in Seq(S) /\ IsSide(cl)
  BY DEF Meeting, Typed
<1>2. ASSUME Alive(cl) PROVE ServerSays(x, t, u, f, sc)
  <2>1. PICK left \in Seq(S) : Flow(sc, << >>, left) = ClientHears(x, t) /\ left = ServerLeft(x, u)
    BY <1>a, <1>2 DEF Meeting, ServerSays
  <2>2. Flow(sc, f.out, rest) = ClientHears(x, t)
    BY <1>1, <2>1, FlowMakes
  <2>3. QED
    BY <2>2 DEF ServerSays
<1>3. Typed(x, f, sc) /\ Typed(x, cl, way)
  BY <1>1 DEF Typed
<1>4. Blamed(x, f, cl) /\ Blamed(x, cl, f)
  BY DEF Blamed
<1>5. Alive(cl) => ClientIs(x, cl, t)
  BY DEF Meeting
<1>6. QED
  BY <1>a, <1>2, <1>3, <1>4, <1>5 DEF Meeting

(* Nothing is left to say at the last stages only. *)
LEMMA ServerLeftEmpty ==
    ASSUME NEW x, NEW u \in ServerStages, ServerLeft(x, u) = << >>
    PROVE  u \in {"storing", "ok"}
<1> DEFINE S == Said(x)
<1>1. \A m \in S, q \in Seq(S) : <<m>> \o q # << >>
  OBVIOUS
<1>2. \A p \in Seq(S), q \in Seq(S) : q # << >> => p \o q # << >>
  OBVIOUS
<1>3. ClientHearsCcs(x) # << >> /\ ClientHearsHello(x) # << >>
  <2>1. <<SFinished(x)>> \in Seq(S)
    BY Words
  <2>2. QED
    BY <1>1, <2>1, Words, HeardLists DEF ClientHearsCcs, ClientHearsHello, Then
<1>4. When(Deferring(x), <<DSke(x)>>) \in Seq(S)
  BY Words, WhenSaid
<1>5. ClientHearsDeferred(x) # << >>
  BY <1>2, <1>3, <1>4, HeardLists DEF ClientHearsDeferred
<1>6. QED
  BY <1>3, <1>5 DEF ServerLeft, ServerStages

LEMMA ServerExpires ==
    ASSUME NEW x, NEW u \in ServerStages, NEW t \in ClientStages,
           NEW sv, NEW cl, NEW sc, NEW cs,
           Meeting(x, t, u, cl, sv, cs, sc), Alive(sv)
    PROVE  Meeting(x, t, u, cl, Failed(sv, "Timeout"), cs, sc)
<1> DEFINE S == Said(x)
           f == Failed(sv, "Timeout")
<1>a. Alive(cl) => t # "lost"
  BY DEF Meeting, Gone, Alive
<1>1. /\ sc \in Seq(S) /\ cs \in Seq(S) /\ sv.out \in Seq(S) /\ cl.out \in Seq(S)
      /\ IsSide(cl) /\ IsSide(sv)
  BY DEF Meeting, Typed
<1>2. /\ IsSide(f) /\ ~Alive(f) /\ f.why = "Timeout" /\ f.out = << >>
      /\ f.suite = sv.suite /\ f.pms = sv.pms /\ f.transcript = sv.transcript
  BY <1>1, FailedFields
<1> HIDE DEF f
<1>3. ASSUME Alive(cl) PROVE ServerSays(x, t, u, f, sc)
  <2>1. PICK left \in Seq(S) : Flow(sc, sv.out, left) = ClientHears(x, t) /\ left = ServerLeft(x, u)
    BY <1>a, <1>3 DEF Meeting, ServerSays
  <2>2. Flow(sc, << >>, (sv.out \o left)) = ClientHears(x, t) /\ sv.out \o left \in Seq(S)
    BY <1>1, <2>1, FlowMakes
  <2>3. ASSUME sv.out \o left = << >> PROVE ServerSpent(x, f)
    <3>1. ServerLeft(x, u) = << >>
      BY <1>1, <2>1, <2>3, NothingLeft
    <3>2. u \in {"storing", "ok"}
      BY <3>1, ServerLeftEmpty
    <3>3. ServerPassed(x, u)
      BY DEF Meeting, ServerIs
    <3>4. ServerPassed(x, "storing")
      BY <3>2, <3>3 DEF ServerPassed
    <3>5. LET at == ServerAt(x, u)
          IN  /\ sv.suite = at.suite /\ sv.pms = at.pms
              /\ sv.transcript = at.transcript
      BY ServerFields DEF Meeting, ServerIs
    <3>6. LET at == ServerAt(x, u)
              storing == ServerAt(x, "storing")
          IN  /\ storing.suite = at.suite /\ storing.pms = at.pms
              /\ storing.transcript = at.transcript
      <4>1. ASSUME NEW w \in {"storing", "ok"}
            PROVE  LET at == ServerAt(x, w)
                   IN  /\ at.suite = Chosen(x) /\ at.pms = SPms(x)
                       /\ at.transcript = TClient(x)
        <5>1. ServerAt(x, w) = Serving(x, w, Peer(x), SPms(x), TClient(x))
          BY DEF ServerAt
        <5>2. QED
          BY <5>1 DEF Serving, Side
      <4>2. QED
        BY <3>2, <4>1
    <3>7. QED
      BY <1>2, <3>4, <3>5, <3>6 DEF ServerSpent
  <2>4. QED
    BY <1>2, <2>2, <2>3 DEF ServerSays
<1>4. Typed(x, f, sc) /\ Typed(x, cl, cs)
  BY <1>1, <1>2 DEF Typed
<1>5. Blamed(x, f, cl) /\ Blamed(x, cl, f)
  BY <1>2 DEF Meeting, Blamed
<1>6. Alive(cl) => ClientIs(x, cl, t)
  BY DEF Meeting
<1>7. Meeting(x, t, u, cl, f, cs, sc)
  BY <1>a, <1>2, <1>3, <1>4, <1>5, <1>6 DEF Meeting
<1>8. QED
  BY <1>7 DEF f

LEMMA ServerCloses ==
    ASSUME NEW x, NEW u \in ServerStages, NEW t \in ClientStages,
           NEW sv, NEW cl, NEW sc, NEW cs,
           Meeting(x, t, u, cl, sv, cs, sc), Alive(sv) \/ sv.out # << >>, Gone(cl)
    PROVE  Meeting(x, t, u, cl, Failed(sv, "Closed"), cs, sc)
<1> DEFINE f == Failed(sv, "Closed")
<1>1. Typed(x, sv, sc) /\ Typed(x, cl, cs) /\ IsSide(sv)
  BY DEF Meeting, Typed
<1>2. IsSide(f) /\ ~Alive(f) /\ f.why = "Closed" /\ f.out = << >>
  BY <1>1, FailedFields
<1>3. ~Alive(cl)
  BY DEF Gone, Alive
<1> HIDE DEF f
<1>4. Typed(x, f, sc)
  BY <1>1, <1>2 DEF Typed
<1>5. ASSUME Compatible(x) PROVE cl.why = "Timeout" /\ cl.out = << >>
  <2>1. Blamed(x, sv, cl) /\ Blamed(x, cl, sv)
    BY DEF Meeting
  <2>2. Alive(sv)
    BY <1>5, <2>1 DEF Blamed
  <2>3. sv.why = None
    BY <2>2, ServerFields DEF Meeting, ServerIs
  <2>4. QED
    BY <1>3, <1>5, <2>1, <2>3 DEF Blamed, None
<1>6. Blamed(x, f, cl) /\ Blamed(x, cl, f)
  BY <1>2, <1>5 DEF Blamed
<1>7. Meeting(x, t, u, cl, f, cs, sc)
  BY <1>1, <1>2, <1>3, <1>4, <1>6 DEF Meeting
<1>8. QED
  BY <1>7 DEF f

LEMMA ServerWritesOne ==
    ASSUME NEW x, NEW u \in ServerStages, NEW t \in ClientStages,
           NEW sv, NEW cl, NEW sc, NEW cs,
           Meeting(x, t, u, cl, sv, cs, sc), sv.out # << >>
    PROVE  Meeting(x, t, u, cl, Goes(sv, Tail(sv.out)), cs, Append(sc, Head(sv.out)))
<1> DEFINE S == Said(x)
           s2 == Goes(sv, Tail(sv.out))
           w == Append(sc, Head(sv.out))
<1>a. Alive(cl) => t # "lost"
  BY DEF Meeting, Gone, Alive
<1>1. sc \in Seq(S) /\ sv.out \in Seq(S) /\ IsSide(sv) /\ Typed(x, cl, cs)
  BY DEF Meeting, Typed
<1>2. /\ IsSide(s2) /\ s2.stage = sv.stage /\ s2.why = sv.why /\ s2.out = Tail(sv.out)
  BY <1>1, AnySide
<1>3. w \in Seq(S) /\ Tail(sv.out) \in Seq(S)
  BY <1>1, WriteOne
<1>0. \A left \in Seq(S) : Flow(w, Tail(sv.out), left) = Flow(sc, sv.out, left)
  BY <1>1, FlowWrites
<1>4. ASSUME Alive(sv) PROVE ServerIs(x, s2, u)
  <2>1. sv = Goes(ServerAt(x, u), sv.out) /\ ServerPassed(x, u) /\ u # "start"
    BY <1>4 DEF Meeting, ServerIs
  <2>2. Goes(sv, Tail(sv.out)) = Goes(ServerAt(x, u), Tail(sv.out))
    BY <2>1, ServerFields
  <2>3. QED
    BY <1>2, <2>1, <2>2 DEF ServerIs
<1> HIDE DEF s2, w
<1>5. Alive(s2) <=> Alive(sv)
  BY <1>2 DEF Alive
<1>6. ASSUME Alive(cl) PROVE ServerSays(x, t, u, s2, w)
  <2>1. PICK left \in Seq(S) :
          /\ Flow(sc, sv.out, left) = ClientHears(x, t)
          /\ Alive(sv) => left = ServerLeft(x, u)
          /\ ~Alive(sv) /\ left = << >> => ServerSpent(x, sv)
    BY <1>a, <1>6 DEF Meeting, ServerSays
  <2>2. Flow(w, s2.out, left) = ClientHears(x, t)
    BY <1>0, <1>2, <2>1
  <2>3. ~(~Alive(sv) /\ left = << >>)
    BY <2>1 DEF ServerSpent
  <2>4. QED
    BY <1>5, <2>1, <2>2, <2>3 DEF ServerSays
<1>7. Typed(x, s2, w)
  BY <1>2, <1>3 DEF Typed
<1>8. Blamed(x, s2, cl) /\ Blamed(x, cl, s2)
  BY <1>2, <1>5 DEF Meeting, Blamed
<1>9. Meeting(x, t, u, cl, s2, cs, w)
  BY <1>a, <1>1, <1>4, <1>5, <1>6, <1>7, <1>8 DEF Meeting
<1>10. QED
  BY <1>9 DEF s2, w

-----------------------------------------------------------------------------
(* From one stage of a side to the next. *)

LEMMA Added ==
    ASSUME NEW S, NEW q \in Seq(S), NEW m \in S
    PROVE  Append(q, m) = q \o <<m>> /\ Append(<< >>, m) = <<m>>
<1>1. Append(q, m) = q \o <<m>> /\ << >> \in Seq(S) /\ <<m>> \in Seq(S)
  BY Joined
<1>2. Append(<< >>, m) = << >> \o <<m>>
  BY <1>1, Joined
<1>3. QED
  BY <1>1, <1>2, Nothing

(* A side that has heard a message. *)
LEMMA SideHears ==
    ASSUME NEW stage, NEW suite, NEW pair, NEW certs, NEW asked, NEW ske,
           NEW ra, NEW pms, NEW transcript, NEW m, NEW st
    PROVE  Hears(Side(stage, suite, pair, certs, asked, ske, ra, pms, transcript), m, st)
             = Side(st, suite, pair, certs, asked, ske, ra, pms, Append(transcript, m))
<1> DEFINE me == Side(stage, suite, pair, certs, asked, ske, ra, pms, transcript)
           at == Side(st, suite, pair, certs, asked, ske, ra, pms, transcript)
<1>1. at = [me EXCEPT !.stage = st]
  BY DEF Side
<1>2. at.transcript = transcript
  BY DEF Side
<1>3. PICK t : t = Append(transcript, m)
  OBVIOUS
<1>4. [at EXCEPT !.transcript = t]
        = Side(st, suite, pair, certs, asked, ske, ra, pms, t)
  BY DEF Side
<1> HIDE DEF me, at
<1>5. Hears(me, m, st) = [at EXCEPT !.transcript = Append(at.transcript, m)]
  BY <1>1 DEF Hears
<1>6. QED
  BY <1>2, <1>3, <1>4, <1>5 DEF me

LEMMA ConnectingHears ==
    ASSUME NEW stage, NEW suite, NEW transcript, NEW m, NEW st
    PROVE  Hears(Connecting(stage, suite, transcript), m, st)
             = Connecting(st, suite, Append(transcript, m))
  BY SideHears DEF Connecting

LEMMA AnsweredHears ==
    ASSUME NEW x, NEW stage, NEW asked, NEW ske, NEW transcript, NEW m, NEW st
    PROVE  Hears(Answered(x, stage, asked, ske, transcript), m, st)
             = Answered(x, st, asked, ske, Append(transcript, m))
  BY SideHears DEF Answered

LEMMA KeyedHears ==
    ASSUME NEW x, NEW stage, NEW pms, NEW transcript, NEW m, NEW st
    PROVE  Hears(Keyed(x, stage, pms, transcript), m, st)
             = Keyed(x, st, pms, Append(transcript, m))
  BY SideHears DEF Keyed

LEMMA ServingHears ==
    ASSUME NEW x, NEW stage, NEW certs, NEW pms, NEW transcript, NEW m, NEW st
    PROVE  Hears(Serving(x, stage, certs, pms, transcript), m, st)
             = Serving(x, st, certs, pms, Append(transcript, m))
  BY SideHears DEF Serving

LEMMA SideRest ==
    ASSUME NEW stage, NEW suite, NEW pair, NEW certs, NEW asked, NEW ske,
           NEW ra, NEW pms, NEW transcript
    PROVE  LET me == Side(stage, suite, pair, certs, asked, ske, ra, pms, transcript)
           IN  /\ me.suite = suite /\ me.pair = pair /\ me.certs = certs
               /\ me.ske = ske /\ me.ra = ra /\ me.pms = pms
               /\ me.transcript = transcript /\ me.asked = asked
  BY DEF Side

(* The client. *)
LEMMA ClientToHello ==
    ASSUME NEW x
    PROVE  Hears(Idle, CHello(x), "hello") = ClientAt(x, "hello")
<1>1. << >> \in Seq(Said(x)) /\ CHello(x) \in Said(x)
  BY Words
<1>2. Append(<< >>, CHello(x)) = THello(x)
  BY <1>1, Added DEF THello
<1>3. Hears(Idle, CHello(x), "hello") = Connecting("hello", None, Append(<< >>, CHello(x)))
  <2>1. Idle = Connecting("start", None, << >>)
    BY IdleSide DEF Connecting
  <2>2. \A q, m : Hears(Connecting("start", None, q), m, "hello")
                    = Connecting("hello", None, Append(q, m))
    BY ConnectingHears
  <2>3. QED
    BY <2>1, <2>2
<1>4. QED
  BY <1>2, <1>3 DEF ClientAt

LEMMA ClientToCert ==
    ASSUME NEW x
    PROVE  LET me == ClientAt(x, "hello")
           IN  /\ SHello(x).type = "ServerHello" /\ SHello(x).body[1] = Chosen(x)
               /\ [Hears(me, SHello(x), "cert") EXCEPT !.suite = Chosen(x)]
                     = ClientAt(x, "cert")
<1>1. THello(x) \in Seq(Said(x)) /\ SHello(x) \in Said(x)
  BY Words, Transcripts
<1>2. ClientAt(x, "hello") = Connecting("hello", None, THello(x))
  BY DEF ClientAt
<1>3. Hears(ClientAt(x, "hello"), SHello(x), "cert")
        = Connecting("cert", None, Append(THello(x), SHello(x)))
  BY <1>2, ConnectingHears
<1>4. Append(THello(x), SHello(x)) = TSuite(x)
  BY <1>1, Added DEF TSuite
<1>5. [Connecting("cert", None, TSuite(x)) EXCEPT !.suite = Chosen(x)]
        = Connecting("cert", Chosen(x), TSuite(x))
  BY DEF Connecting, Side
<1>6. SHello(x).type = "ServerHello" /\ SHello(x).body[1] = Chosen(x)
  BY DEF SHello, ServerHello, Msg
<1>7. ClientAt(x, "cert") = Connecting("cert", Chosen(x), TSuite(x))
  BY DEF ClientAt
<1>8. QED
  BY <1>3, <1>4, <1>5, <1>6, <1>7

LEMMA ClientToSke ==
    ASSUME NEW x
    PROVE  LET me == ClientAt(x, "cert")
               next == IF Kx(me) = "Ibsdh" THEN "request" ELSE "ske"
           IN  /\ SCerts(x).type = "Certificate" /\ Kx(me) = KeyEx(x)
               /\ from_certificate_message(SCerts(x).body) = CPair(x)
               /\ [Hears(me, SCerts(x), next) EXCEPT !.pair = CPair(x)]
                     = ClientAt(x, next)
<1> DEFINE me == ClientAt(x, "cert")
           next == IF Kx(me) = "Ibsdh" THEN "request" ELSE "ske"
<1>1. TSuite(x) \in Seq(Said(x)) /\ SCerts(x) \in Said(x) /\ TStart(x) \in Seq(Said(x))
  BY Words, Transcripts
<1>2. me = Connecting("cert", Chosen(x), TSuite(x))
  BY DEF ClientAt
<1>3. Kx(me) = KeyEx(x)
  BY <1>2, SideRest DEF Kx, KeyEx, Connecting
<1>4. Hears(me, SCerts(x), next) = Connecting(next, Chosen(x), Append(TSuite(x), SCerts(x)))
  BY <1>2, ConnectingHears
<1>5. Append(TSuite(x), SCerts(x)) = TStart(x)
  BY <1>1, Added DEF TStart
<1>6. [Connecting(next, Chosen(x), TStart(x)) EXCEPT !.pair = CPair(x)]
        = Answered(x, next, NotAsked, << >>, TStart(x))
  BY DEF Connecting, Answered, Side
<1>7. Answered(x, next, NotAsked, << >>, TStart(x)) = ClientAt(x, next)
  <2>1. CASE Deferring(x)
    <3>1. next = "request" /\ HeardSke(x) = << >>
      BY <1>3, <2>1 DEF Deferring, HeardSke
    <3>2. TSke(x) = TStart(x)
      BY <1>1, <2>1, Nothing DEF TSke, When
    <3>3. QED
      BY <3>1, <3>2 DEF ClientAt
  <2>2. CASE ~Deferring(x)
    <3>1. next = "ske"
      BY <1>3, <2>2 DEF Deferring
    <3>2. QED
      BY <3>1 DEF ClientAt
  <2>3. QED
    BY <2>1, <2>2
<1>8. SCerts(x).type = "Certificate" /\ SCerts(x).body = to_certificate_message(SPair(x))
  BY DEF SCerts, Certificate, Msg
<1>9. from_certificate_message(SCerts(x).body) = CPair(x)
  BY <1>8 DEF CPair
<1> HIDE DEF me, next
<1>10. [Hears(me, SCerts(x), next) EXCEPT !.pair = CPair(x)] = ClientAt(x, next)
  BY <1>4, <1>5, <1>6, <1>7
<1>11. QED
  BY <1>3, <1>8, <1>9, <1>10 DEF me, next

LEMMA ClientToRequest ==
    ASSUME NEW x, ~Deferring(x)
    PROVE  LET me == ClientAt(x, "ske")
           IN  /\ Ske(x).type = "ServerKeyExchange" /\ Ske(x).body = SkeBody(x)
               /\ Kx(me) = KeyEx(x) /\ me.pair = CPair(x)
               /\ [Hears(me, Ske(x), "request") EXCEPT !.ske = SkeBody(x)]
                     = ClientAt(x, "request")
<1>1. TStart(x) \in Seq(Said(x)) /\ Ske(x) \in Said(x)
  BY Words, Transcripts
<1>2. ClientAt(x, "ske") = Answered(x, "ske", NotAsked, << >>, TStart(x))
  BY DEF ClientAt
<1>3. Kx(ClientAt(x, "ske")) = KeyEx(x)
  BY <1>2, SideRest DEF Kx, KeyEx, Answered
<1>4. ClientAt(x, "ske").pair = CPair(x)
  BY <1>2, SideRest DEF Answered
<1>5. Hears(ClientAt(x, "ske"), Ske(x), "request")
        = Answered(x, "request", NotAsked, << >>, Append(TStart(x), Ske(x)))
  BY <1>2, AnsweredHears
<1>6. Append(TStart(x), Ske(x)) = TSke(x)
  BY <1>1, Added DEF TSke, When
<1>7. [Answered(x, "request", NotAsked, << >>, TSke(x)) EXCEPT !.ske = SkeBody(x)]
        = Answered(x, "request", NotAsked, HeardSke(x), TSke(x))
  BY DEF HeardSke, Answered, Side
<1>8. ClientAt(x, "request") = Answered(x, "request", NotAsked, HeardSke(x), TSke(x))
  BY DEF ClientAt
<1>9. Ske(x).type = "ServerKeyExchange" /\ Ske(x).body = SkeBody(x)
  BY DEF Ske, Msg
<1>10. QED
  BY <1>3, <1>4, <1>5, <1>6, <1>7, <1>8, <1>9

(* All of the server's answer heard. *)
InFlight(x) == Answered(x, "done", Asking(x), HeardSke(x), TAnswer(x))

LEMMA ClientToFlight ==
    ASSUME NEW x
    PROVE  /\ [ClientAt(x, "request") EXCEPT !.stage = "done"] = ClientAt(x, "lost")
           /\ Asking(x) =>
                 /\ [Hears(ClientAt(x, "request"), CertificateRequest, "done")
                        EXCEPT !.asked = WasAsked] = ClientAt(x, "done")
                 /\ Hears(ClientAt(x, "done"), ServerHelloDone, "done") = InFlight(x)
           /\ ~Asking(x) =>
                 Hears(ClientAt(x, "request"), ServerHelloDone, "done") = InFlight(x)
           /\ CertificateRequest.type = "CertificateRequest"
           /\ ServerHelloDone.type = "ServerHelloDone"
<1> DEFINE S == Said(x)
<1>1. /\ TSke(x) \in Seq(S) /\ TAsk(x) \in Seq(S)
      /\ CertificateRequest \in S /\ ServerHelloDone \in S
  BY Words, Transcripts
<1>2. /\ ClientAt(x, "request") = Answered(x, "request", NotAsked, HeardSke(x), TSke(x))
      /\ ClientAt(x, "lost") = Answered(x, "done", NotAsked, HeardSke(x), TSke(x))
      /\ ClientAt(x, "done") = Answered(x, "done", WasAsked, HeardSke(x), TAsk(x))
  BY DEF ClientAt
<1>3. [ClientAt(x, "request") EXCEPT !.stage = "done"] = ClientAt(x, "lost")
  BY <1>2 DEF Answered, Side
<1>4. \A m \in S : Hears(ClientAt(x, "request"), m, "done")
                     = Answered(x, "done", NotAsked, HeardSke(x), Append(TSke(x), m))
  BY <1>2, AnsweredHears
<1>5. \A m \in S : Hears(ClientAt(x, "done"), m, "done")
                     = Answered(x, "done", WasAsked, HeardSke(x), Append(TAsk(x), m))
  BY <1>2, AnsweredHears
<1>6. ASSUME Asking(x)
      PROVE  /\ [Hears(ClientAt(x, "request"), CertificateRequest, "done")
                        EXCEPT !.asked = WasAsked] = ClientAt(x, "done")
             /\ Hears(ClientAt(x, "done"), ServerHelloDone, "done") = InFlight(x)
  <2>1. Append(TSke(x), CertificateRequest) = TAsk(x)
    BY <1>1, <1>6, Added DEF TAsk, When
  <2>2. [Answered(x, "done", NotAsked, HeardSke(x), TAsk(x)) EXCEPT !.asked = WasAsked]
          = Answered(x, "done", WasAsked, HeardSke(x), TAsk(x))
    BY DEF Answered, Side
  <2>3. Append(TAsk(x), ServerHelloDone) = TAnswer(x)
    BY <1>1, Added DEF TAnswer
  <2>4. Answered(x, "done", WasAsked, HeardSke(x), TAnswer(x)) = InFlight(x)
    <3>1. Asking(x) = WasAsked
      BY <1>6 DEF Asking, WasAsked
    <3>2. QED
      BY <3>1 DEF InFlight
  <2>5. QED
    BY <1>1, <1>2, <1>4, <1>5, <2>1, <2>2, <2>3, <2>4
<1>7. ASSUME ~Asking(x)
      PROVE  Hears(ClientAt(x, "request"), ServerHelloDone, "done") = InFlight(x)
  <2>1. TAsk(x) = TSke(x)
    BY <1>1, <1>7, Nothing DEF TAsk, When
  <2>2. Append(TSke(x), ServerHelloDone) = TAnswer(x)
    BY <1>1, <2>1, Added DEF TAnswer
  <2>3. Answered(x, "done", NotAsked, HeardSke(x), TAnswer(x)) = InFlight(x)
    <3>1. Asking(x) = NotAsked
      BY <1>7 DEF Asking, NotAsked
    <3>2. QED
      BY <3>1 DEF InFlight
  <2>4. QED
    BY <1>1, <1>4, <2>2, <2>3
<1>8. CertificateRequest.type = "CertificateRequest" /\ ServerHelloDone.type = "ServerHelloDone"
  BY DEF CertificateRequest, ServerHelloDone, Msg
<1>9. QED
  BY <1>3, <1>6, <1>7, <1>8

(* What a side makes of its secrets depends on these fields only. *)
LEMMA SameFinished ==
    ASSUME NEW a, NEW b, NEW who, a.suite = b.suite, a.pms = b.pms,
           a.transcript = b.transcript
    PROVE  Finished(who, a) = Finished(who, b) /\ KeyMaterial(a) = KeyMaterial(b)
  BY DEF Finished, KeyMaterial

LEMMA KeyedFields ==
    ASSUME NEW x, NEW stage, NEW pms, NEW transcript
    PROVE  LET me == Keyed(x, stage, pms, transcript)
           IN  /\ me.suite = Chosen(x) /\ me.asked = Asking(x) /\ me.pms = pms
               /\ me.transcript = transcript /\ me.out = << >> /\ IsSide(me)
               /\ me.ra = When(Deferring(x), CkeOf(x).body)
<1>1. IsSide(Keyed(x, stage, pms, transcript))
  BY SideFields DEF Keyed
<1>2. QED
  BY <1>1 DEF Keyed, Side

(* The end of the client's flight. *)
LEMMA ClientEnds ==
    ASSUME NEW x, NEW stage, NEW out
    PROVE  LET me == Keyed(x, stage, CPms(x), TDeferred(x))
           IN  /\ KeyLoads(x) =>
                    ClientEnd(x.c, me, out)
                      = Goes(ClientAt(x, "ccs"),
                             (out \o CVerify(x)) \o <<ChangeCipherSpec, CFinished(x)>>)
               /\ ~KeyLoads(x) =>
                    ClientEnd(x.c, me, out) = Goes(Failed(me, "config"), out)
<1> DEFINE me == Keyed(x, stage, CPms(x), TDeferred(x))
           verify == CertificateVerify(x.c, me)
           next == [me EXCEPT !.transcript = @ \o verify]
           end == Finished("client", next)
<1>1. me.asked = Asking(x) /\ me.transcript = TDeferred(x)
  BY KeyedFields
<1>2. verify = CVerify(x)
  <2> HIDE DEF me
  <2>1. QED
    BY <1>1 DEF CertificateVerify, CVerify, CVerifyMsg, When
<1>3. next = Keyed(x, stage, CPms(x), TVerify(x))
  <2>1. TVerify(x) = TDeferred(x) \o CVerify(x)
    BY DEF TVerify
  <2>2. next = [me EXCEPT !.transcript = TVerify(x)]
    <3> HIDE DEF me, verify
    <3>1. QED
      BY <1>1, <1>2, <2>1
  <2>3. [me EXCEPT !.transcript = TVerify(x)] = Keyed(x, stage, CPms(x), TVerify(x))
    BY DEF Keyed, Side
  <2>4. QED
    BY <2>2, <2>3
<1>4. end = CFinished(x)
  <2>1. LET other == Keyed(x, "ccs", CPms(x), TVerify(x))
        IN  other.suite = Chosen(x) /\ other.pms = CPms(x) /\ other.transcript = TVerify(x)
    BY KeyedFields
  <2> HIDE DEF next
  <2>2. next.suite = Chosen(x) /\ next.pms = CPms(x) /\ next.transcript = TVerify(x)
    BY <1>3, KeyedFields
  <2>3. QED
    BY <2>1, <2>2, SameFinished DEF CFinished
<1>5. Hears(next, end, "ccs") = ClientAt(x, "ccs")
  <2>1. TVerify(x) \in Seq(Said(x)) /\ CFinished(x) \in Said(x)
    BY Words, Transcripts
  <2>2. Append(TVerify(x), CFinished(x)) = TClient(x)
    BY <2>1, Added DEF TClient
  <2>3. Hears(next, end, "ccs") = Keyed(x, "ccs", CPms(x), Append(TVerify(x), CFinished(x)))
    <3> HIDE DEF next, end
    <3>1. QED
      BY <1>3, <1>4, KeyedHears
  <2>4. QED
    BY <2>2, <2>3 DEF ClientAt
<1>6. ClientEnd(x.c, me, out) =
        IF me.asked /\ Con!load_client_key(x.c, x.c.sign_pem) = None
        THEN Goes(Failed(me, "config"), out)
        ELSE Goes(Hears(next, end, "ccs"), (out \o verify) \o <<ChangeCipherSpec, end>>)
  BY DEF ClientEnd
<1> HIDE DEF me, verify, next, end
<1>7. KeyLoads(x) <=> ~(me.asked /\ Con!load_client_key(x.c, x.c.sign_pem) = None)
  BY <1>1 DEF KeyLoads
<1>8. /\ KeyLoads(x) =>
            ClientEnd(x.c, me, out)
              = Goes(ClientAt(x, "ccs"),
                     (out \o CVerify(x)) \o <<ChangeCipherSpec, CFinished(x)>>)
      /\ ~KeyLoads(x) =>
            ClientEnd(x.c, me, out) = Goes(Failed(me, "config"), out)
  BY <1>2, <1>4, <1>5, <1>6, <1>7
<1>9. QED
  BY <1>8 DEF me

(* The client's flight: its certificates if asked, the key exchange, and,  *)
(* unless the server has still to answer, the end.                         *)
CertsOut(x) == When(Asking(x), <<CCerts(x)>>)
KeyOut(x) == CertsOut(x) \o <<CkeMsg(x)>>

LEMMA ClientFlies ==
    ASSUME NEW x
    PROVE  LET f == ClientFlight(x.c, InFlight(x))
           IN  /\ Asking(x) /\ x.c.certs = << >> => f = Failed(InFlight(x), "config")
               /\ ~(Asking(x) /\ x.c.certs = << >>) /\ ~CkeMade(x) =>
                     f = Goes(Failed(InFlight(x), "config"), CertsOut(x))
               /\ CkeMade(x) /\ Deferring(x) =>
                     f = Goes(ClientAt(x, "deferred"), KeyOut(x))
               /\ CkeMade(x) /\ ~Deferring(x) =>
                     f = ClientEnd(x.c, Keyed(x, "done", CPms(x), TDeferred(x)), KeyOut(x))
<1> DEFINE me == InFlight(x)
           list == IF me.asked THEN <<Certificate(x.c.certs)>> ELSE << >>
           cke == ClientKeyExchange(Kx(me), x.c, me.pair, me.ske)
           out == list \o <<Msg("ClientKeyExchange", cke.body)>>
           next == [me EXCEPT !.transcript = @ \o out, !.pms = cke.pms]
           after(pms, ra) == Side("done", Chosen(x), CPair(x), << >>, Asking(x),
                                  HeardSke(x), ra, pms, TCke(x))
<1>1. /\ me.asked = Asking(x) /\ me.suite = Chosen(x) /\ me.pair = CPair(x)
      /\ me.ske = HeardSke(x) /\ me.transcript = TAnswer(x)
  BY DEF InFlight, Answered, Side
<1>2. me = Side("done", Chosen(x), CPair(x), << >>, Asking(x), HeardSke(x),
                << >>, << >>, TAnswer(x))
  BY DEF InFlight, Answered
<1>3. ClientFlight(x.c, me) =
        IF me.asked /\ x.c.certs = << >> THEN Failed(me, "config")
        ELSE IF (me.asked /\ x.c.sign_pem = Con!NoPem) \/ cke.body = << >>
        THEN Goes(Failed(me, "config"), list)
        ELSE IF Kx(me) = "Ibsdh"
        THEN Goes([next EXCEPT !.stage = "deferred", !.ra = cke.body], out)
        ELSE ClientEnd(x.c, next, out)
  BY DEF ClientFlight
<1> HIDE DEF me
<1>4. Kx(me) = KeyEx(x)
  BY <1>1 DEF Kx, KeyEx
<1>5. list = CertsOut(x)
  BY <1>1 DEF CertsOut, When, CCerts
<1>6. cke = CkeOf(x)
  BY <1>1, <1>4 DEF CkeOf
<1> HIDE DEF list, cke
<1>7. out = KeyOut(x)
  BY <1>5, <1>6 DEF KeyOut, CkeMsg
<1>8. TAnswer(x) \o KeyOut(x) = TCke(x)
  <2>1. /\ TAnswer(x) \in Seq(Said(x)) /\ CertsOut(x) \in Seq(Said(x))
        /\ CkeMsg(x) \in Said(x) /\ <<CkeMsg(x)>> \in Seq(Said(x))
    BY Transcripts, Words, WhenSaid DEF CertsOut
  <2>2. PICK q \in Seq(Said(x)) : q = <<CkeMsg(x)>>
    BY <2>1
  <2>3. (TAnswer(x) \o CertsOut(x)) \o q = TAnswer(x) \o (CertsOut(x) \o q)
    BY <2>1, Assoc
  <2>4. TCerts(x) = TAnswer(x) \o CertsOut(x)
    BY DEF TCerts, CertsOut
  <2>5. QED
    BY <2>2, <2>3, <2>4 DEF KeyOut, TCke
<1> HIDE DEF out
<1>9. next = after(CkeOf(x).pms, << >>)
  <2>1. PICK h : h = [me EXCEPT !.transcript = TCke(x)]
    OBVIOUS
  <2>2. h = Side("done", Chosen(x), CPair(x), << >>, Asking(x), HeardSke(x),
                << >>, << >>, TCke(x))
    BY <1>2, <2>1 DEF Side
  <2>3. PICK p : p = CkeOf(x).pms
    OBVIOUS
  <2>4. [h EXCEPT !.pms = p] = after(p, << >>)
    BY <2>2 DEF Side
  <2>5. next = [h EXCEPT !.pms = p]
    BY <1>1, <1>6, <1>7, <1>8, <2>1, <2>3
  <2>6. QED
    BY <2>3, <2>4, <2>5
<1> HIDE DEF next
<1>10. ASSUME Deferring(x)
       PROVE  [next EXCEPT !.stage = "deferred", !.ra = cke.body] = ClientAt(x, "deferred")
  <2>1. PICK p : p = CkeOf(x).pms
    OBVIOUS
  <2>2. PICK b : b = CkeOf(x).body
    OBVIOUS
  <2>3. PICK h : h = [next EXCEPT !.stage = "deferred"]
    OBVIOUS
  <2>4. next = after(p, << >>)
    BY <1>9, <2>1
  <2>5. h = Side("deferred", Chosen(x), CPair(x), << >>, Asking(x),
                 HeardSke(x), << >>, p, TCke(x))
    BY <2>3, <2>4 DEF Side
  <2>6. [h EXCEPT !.ra = b] = Side("deferred", Chosen(x), CPair(x), << >>, Asking(x),
                 HeardSke(x), b, p, TCke(x))
    BY <2>5 DEF Side
  <2>7. [next EXCEPT !.stage = "deferred", !.ra = cke.body] = [h EXCEPT !.ra = b]
    BY <1>6, <2>2, <2>3
  <2>8. b = When(Deferring(x), CkeOf(x).body)
    BY <1>10, <2>2 DEF When
  <2>9. ClientAt(x, "deferred") = Keyed(x, "deferred", p, TCke(x))
    BY <2>1 DEF ClientAt
  <2>10. QED
    BY <2>6, <2>7, <2>8, <2>9 DEF Keyed
<1>11. ASSUME ~Deferring(x)
       PROVE  next = Keyed(x, "done", CPms(x), TDeferred(x))
  <2>1. CkeOf(x).pms = CPms(x)
    BY <1>11 DEF CPms
  <2>2. When(Deferring(x), CkeOf(x).body) = << >>
    BY <1>11 DEF When
  <2>3. TDeferred(x) = TCke(x)
    BY <1>11, Transcripts, Nothing DEF TDeferred, When
  <2>4. next = after(CPms(x), When(Deferring(x), CkeOf(x).body))
    BY <1>9, <2>1, <2>2
  <2>5. QED
    BY <2>3, <2>4 DEF Keyed
<1>12. CkeMade(x) <=> ~(me.asked /\ x.c.certs = << >>)
                      /\ ~((me.asked /\ x.c.sign_pem = Con!NoPem) \/ cke.body = << >>)
  BY <1>1, <1>6 DEF CkeMade
<1>13. Deferring(x) <=> Kx(me) = "Ibsdh"
  BY <1>4 DEF Deferring
<1> DEFINE f == ClientFlight(x.c, me)
<1>14. Asking(x) /\ x.c.certs = << >> => f = Failed(me, "config")
  BY <1>1, <1>3
<1>15. ~(Asking(x) /\ x.c.certs = << >>) /\ ~CkeMade(x) =>
            f = Goes(Failed(me, "config"), CertsOut(x))
  BY <1>1, <1>3, <1>5, <1>12
<1>16. CkeMade(x) /\ Deferring(x) => f = Goes(ClientAt(x, "deferred"), KeyOut(x))
  BY <1>3, <1>7, <1>10, <1>12, <1>13
<1>17. CkeMade(x) /\ ~Deferring(x) =>
            f = ClientEnd(x.c, Keyed(x, "done", CPms(x), TDeferred(x)), KeyOut(x))
  BY <1>3, <1>7, <1>11, <1>12, <1>13
<1>18. QED
  BY <1>14, <1>15, <1>16, <1>17 DEF me

(* What the client says in its flight is what the server hears. *)
LEMMA ClientSpeech ==
    ASSUME NEW x
    PROVE  /\ CertsOut(x) \in Seq(Said(x)) /\ KeyOut(x) \in Seq(Said(x))
           /\ CVerify(x) \in Seq(Said(x))
           /\ <<ChangeCipherSpec, CFinished(x)>> = ServerHearsCcs(x)
           /\ ServerHearsCert(x) = CertsOut(x) \o ServerHearsCke(x)
           /\ ServerHearsCert(x) = KeyOut(x) \o ServerHearsVerify(x)
           /\ ServerHearsCert(x)
                = (KeyOut(x) \o CVerify(x)) \o <<ChangeCipherSpec, CFinished(x)>>
           /\ ServerHearsVerify(x)
                = (<< >> \o CVerify(x)) \o <<ChangeCipherSpec, CFinished(x)>>
           /\ ServerHearsCke(x) # << >> /\ ServerHearsVerify(x) # << >>
           /\ ServerHearsCert(x) # << >>
<1> DEFINE S == Said(x)
<1>0. <<CkeMsg(x)>> \in Seq(S)
  BY Words
<1>1. PICK q \in Seq(S) : q = <<CkeMsg(x)>>
  BY <1>0
<1>2. PICK a \in Seq(S) : a = CertsOut(x)
  BY Words, WhenSaid DEF CertsOut
<1>3. PICK b \in Seq(S) : b = CVerify(x)
  BY Words, WhenSaid DEF CVerify
<1>4. <<ChangeCipherSpec, CFinished(x)>> = ServerHearsCcs(x)
  BY Words, TwoJoined DEF ServerHearsCcs, Then
<1>5. PICK e \in Seq(S) : e = ServerHearsCcs(x)
  BY HeardLists
<1>6. ServerHearsVerify(x) = b \o e /\ b \o e \in Seq(S)
  BY <1>3, <1>5 DEF ServerHearsVerify
<1>7. ServerHearsCke(x) = q \o (b \o e) /\ q \o (b \o e) \in Seq(S)
  BY <1>1, <1>6 DEF ServerHearsCke, Then
<1>8. ServerHearsCert(x) = a \o (q \o (b \o e))
  BY <1>2, <1>7 DEF ServerHearsCert, CertsOut
<1>9. KeyOut(x) = a \o q /\ a \o q \in Seq(S)
  BY <1>1, <1>2 DEF KeyOut
<1>10. /\ a \o (q \o (b \o e)) = (a \o q) \o (b \o e)
       /\ a \o (q \o (b \o e)) = ((a \o q) \o b) \o e
  <2>1. /\ Cat(a, Cat(q, Cat(b, e))) = Cat(Cat(a, q), Cat(b, e))
        /\ Cat(a, Cat(q, Cat(b, e))) = Cat(Cat(Cat(a, q), b), e)
    BY FourJoined
  <2>2. QED
    BY <2>1 DEF Cat
<1>12. << >> \o b = b
  BY Nothing
<1>13. \A t \in ClientStages : ClientLeft(x, t) = << >> => t \in {"ccs", "finished", "ok"}
  BY ClientLeftEmpty
<1>14. ServerHearsVerify(x) # << >> /\ ServerHearsCert(x) # << >>
  BY <1>13 DEF ClientLeft, ClientStages
<1>15. ServerHearsCke(x) # << >>
  <2>1. \A m \in S, r \in Seq(S) : <<m>> \o r # << >>
    OBVIOUS
  <2>2. QED
    BY <2>1, Words, HeardLists DEF ServerHearsCke, Then
<1>16. QED
  BY <1>2, <1>3, <1>4, <1>5, <1>6, <1>7, <1>8, <1>9, <1>10, <1>12, <1>14, <1>15

LEMMA KeyedPms ==
    ASSUME NEW x, NEW stage, NEW transcript
    PROVE  \A h, p, q : h = Keyed(x, stage, p, transcript) =>
                           [h EXCEPT !.pms = q] = Keyed(x, stage, q, transcript)
  BY DEF Keyed, Side

LEMMA ClientDefers ==
    ASSUME NEW x, Deferring(x)
    PROVE  LET me == ClientAt(x, "deferred")
           IN  /\ cke_from_body(me.ra) = Payload(x)
               /\ DSke(x).type = "ServerKeyExchange"
               /\ [Hears(me, DSke(x), "deferred")
                     EXCEPT !.pms = AgreedPms(x.c, Payload(x), DSke(x).body)]
                    = Keyed(x, "deferred", CPms(x), TDeferred(x))
<1> DEFINE me == ClientAt(x, "deferred")
<1>1. me = Keyed(x, "deferred", CkeOf(x).pms, TCke(x))
  BY DEF ClientAt
<1>2. cke_from_body(me.ra) = Payload(x)
  BY <1>1, KeyedFields DEF When, Payload
<1>3. DSke(x).type = "ServerKeyExchange"
  BY DEF DSke, Msg
<1>4. Append(TCke(x), DSke(x)) = TDeferred(x)
  BY Transcripts, Words, Added DEF TDeferred, When
<1> HIDE DEF me
<1>5. PICK h : h = Hears(me, DSke(x), "deferred")
  OBVIOUS
<1>7. PICK p : p = CPms(x)
  OBVIOUS
<1>8. [h EXCEPT !.pms = p] = Keyed(x, "deferred", p, TDeferred(x))
  <2>1. PICK z : z = CkeOf(x).pms
    OBVIOUS
  <2>2. \A q, r, m : Hears(Keyed(x, "deferred", q, r), m, "deferred")
                       = Keyed(x, "deferred", q, Append(r, m))
    BY KeyedHears
  <2>3. me = Keyed(x, "deferred", z, TCke(x))
    BY <1>1, <2>1
  <2>4. h = Keyed(x, "deferred", z, Append(TCke(x), DSke(x)))
    BY <1>5, <2>2, <2>3
  <2>5. h = Keyed(x, "deferred", z, TDeferred(x))
    BY <1>4, <2>4
  <2>6. QED
    BY <2>5, KeyedPms
<1>9. p = AgreedPms(x.c, Payload(x), DSke(x).body)
  BY <1>7 DEF CPms
<1>10. QED
  BY <1>2, <1>3, <1>5, <1>7, <1>8, <1>9 DEF me

LEMMA ClientToEnd ==
    ASSUME NEW x
    PROVE  /\ [ClientAt(x, "ccs") EXCEPT !.stage = "finished"] = ClientAt(x, "finished")
           /\ Hears(ClientAt(x, "finished"), SFinished(x), "ok") = ClientAt(x, "ok")
<1>1. /\ ClientAt(x, "ccs") = Keyed(x, "ccs", CPms(x), TClient(x))
      /\ ClientAt(x, "finished") = Keyed(x, "finished", CPms(x), TClient(x))
      /\ ClientAt(x, "ok") = Keyed(x, "ok", CPms(x), TServer(x))
  BY DEF ClientAt
<1>2. [ClientAt(x, "ccs") EXCEPT !.stage = "finished"] = ClientAt(x, "finished")
  BY <1>1 DEF Keyed, Side
<1>3. Append(TClient(x), SFinished(x)) = TServer(x)
  BY Transcripts, Words, Added DEF TServer
<1>4. Hears(ClientAt(x, "finished"), SFinished(x), "ok") = ClientAt(x, "ok")
  <2>1. \A q, r, m : Hears(Keyed(x, "finished", q, r), m, "ok")
                       = Keyed(x, "ok", q, Append(r, m))
    BY KeyedHears
  <2>2. QED
    BY <1>1, <1>3, <2>1
<1>5. QED
  BY <1>2, <1>4

(* The server. *)
LEMMA ServerToHello ==
    ASSUME NEW x
    PROVE  LET next == [Idle EXCEPT
                          !.stage = IF HasCertificates(x.s) THEN "hello" ELSE "ok",
                          !.pms = IF HasCertificates(x.s) THEN @ ELSE Simulation]
           IN  next = ServerAt(x, IF HasCertificates(x.s) THEN "hello" ELSE "simulated")
<1> DEFINE st == IF HasCertificates(x.s) THEN "hello" ELSE "ok"
           h == [Idle EXCEPT !.stage = st]
           next == [Idle EXCEPT !.stage = st,
                          !.pms = IF HasCertificates(x.s) THEN @ ELSE Simulation]
           at(stage, p) == Side(stage, None, Blank, << >>, NotAsked, << >>, << >>, p, << >>)
<1> HIDE DEF st
<1>1. h = at(st, << >>)
  BY IdleSide DEF Side
<1> HIDE DEF h
<1>2. h.pms = << >>
  BY <1>1 DEF Side
<1>3. next = [h EXCEPT !.pms = IF HasCertificates(x.s) THEN h.pms ELSE Simulation]
  BY DEF h
<1> HIDE DEF next
<1>4. CASE HasCertificates(x.s)
  <2>1. next = [h EXCEPT !.pms = << >>] /\ st = "hello"
    BY <1>2, <1>3, <1>4 DEF st
  <2>2. next = at("hello", << >>)
    BY <1>1, <2>1 DEF Side
  <2>3. ServerAt(x, "hello") = at("hello", << >>)
    BY IdleSide DEF ServerAt, Side
  <2>4. QED
    BY <1>4, <2>2, <2>3 DEF next, st
<1>5. CASE ~HasCertificates(x.s)
  <2>1. next = [h EXCEPT !.pms = Simulation] /\ st = "ok"
    BY <1>3, <1>5 DEF st
  <2>2. next = at("ok", Simulation)
    BY <1>1, <2>1 DEF Side
  <2>3. ServerAt(x, "simulated") = at("ok", Simulation)
    BY IdleSide DEF ServerAt, Side
  <2>4. QED
    BY <1>5, <2>2, <2>3 DEF next, st
<1>6. QED
  BY <1>4, <1>5

(* The server's answer. *)
SideHello(x) == Side("hello", Chosen(x), SPair(x), << >>, NotAsked, << >>, << >>,
                     << >>, THello(x))
HelloOut(x) == <<SHello(x), SCerts(x)>>
AnswerOut(x) ==
    ((HelloOut(x) \o When(~Deferring(x), <<Ske(x)>>))
        \o When(Asking(x), <<CertificateRequest>>)) \o <<ServerHelloDone>>
AnswerStage(x) == IF Asking(x) THEN "cert" ELSE "cke"

LEMMA ServerToAnswer ==
    ASSUME NEW x
    PROVE  LET me == [Hears(ServerAt(x, "hello"), CHello(x), "hello") EXCEPT !.suite = Chosen(x)]
           IN  /\ CHello(x).body = x.c.suites
               /\ [me EXCEPT !.pair = ServerPair(x.s, Kx(me))] = SideHello(x)
<1> DEFINE at(suite, q) == Side("hello", suite, Blank, << >>, NotAsked, << >>, << >>, << >>, q)
           heard == Hears(ServerAt(x, "hello"), CHello(x), "hello")
           me == [heard EXCEPT !.suite = Chosen(x)]
<1>1. ServerAt(x, "hello") = at(None, << >>)
  BY IdleSide DEF ServerAt, Side
<1>2. \A q, m : Hears(at(None, q), m, "hello") = at(None, Append(q, m))
  BY SideHears
<1>3. Append(<< >>, CHello(x)) = THello(x)
  <2>1. << >> \in Seq(Said(x)) /\ CHello(x) \in Said(x)
    BY Words
  <2>2. QED
    BY <2>1, Added DEF THello
<1>4. heard = at(None, THello(x))
  <2> HIDE DEF at
  <2>1. QED
    BY <1>1, <1>2, <1>3
<1> HIDE DEF heard
<1>5. me = at(Chosen(x), THello(x))
  BY <1>4 DEF Side
<1> HIDE DEF me
<1>6. me.suite = Chosen(x)
  BY <1>5 DEF Side
<1>7. ServerPair(x.s, Kx(me)) = SPair(x)
  BY <1>6 DEF Kx, KeyEx, SPair
<1>8. [me EXCEPT !.pair = SPair(x)] = SideHello(x)
  BY <1>5 DEF Side, SideHello
<1>9. CHello(x).body = x.c.suites
  BY DEF CHello, ClientHello, Msg
<1>10. QED
  BY <1>7, <1>8, <1>9 DEF me, heard

LEMMA ServerSpeech ==
    ASSUME NEW x
    PROVE  /\ HelloOut(x) \in Seq(Said(x)) /\ AnswerOut(x) \in Seq(Said(x))
           /\ ClientHearsHello(x) = HelloOut(x) \o ClientHearsSke(x)
           /\ ClientHearsHello(x) = AnswerOut(x) \o ClientHearsDeferred(x)
           /\ THello(x) \o AnswerOut(x) = TAnswer(x)
           /\ <<ChangeCipherSpec, SFinished(x)>> = ClientHearsCcs(x)
<1> DEFINE S == Said(x)
<1>0. /\ <<SHello(x)>> \in Seq(S) /\ <<SCerts(x)>> \in Seq(S)
      /\ <<ServerHelloDone>> \in Seq(S)
  BY Words
<1>1. PICK a \in Seq(S) : a = <<SHello(x)>>
  BY <1>0
<1>2. PICK b \in Seq(S) : b = <<SCerts(x)>>
  BY <1>0
<1>3. PICK c \in Seq(S) : c = When(~Deferring(x), <<Ske(x)>>)
  BY Words, WhenSaid
<1>4. PICK d \in Seq(S) : d = When(Asking(x), <<CertificateRequest>>)
  BY Words, WhenSaid
<1>5. PICK e \in Seq(S) : e = <<ServerHelloDone>>
  BY <1>0
<1>6. PICK f \in Seq(S) : f = ClientHearsDeferred(x)
  BY HeardLists
<1>7. PICK h \in Seq(S) : h = THello(x)
  BY Transcripts
<1>8. <<SHello(x), SCerts(x)>> = <<SHello(x)>> \o <<SCerts(x)>>
  BY Words, TwoJoined
<1>9. HelloOut(x) = a \o b
  BY <1>1, <1>2, <1>8 DEF HelloOut
<1>10. AnswerOut(x) = (((a \o b) \o c) \o d) \o e
  BY <1>3, <1>4, <1>5, <1>9 DEF AnswerOut
<1>11. ClientHearsSke(x) = c \o (d \o (e \o f))
  BY <1>3, <1>4, <1>5, <1>6 DEF ClientHearsSke, ClientHearsRequest, ClientHearsDone, Then
<1>12. ClientHearsHello(x) = a \o (b \o (c \o (d \o (e \o f))))
  BY <1>1, <1>2, <1>11 DEF ClientHearsHello, ClientHearsCert, Then
<1>13. TAnswer(x) = ((((h \o a) \o b) \o c) \o d) \o e
  BY <1>1, <1>2, <1>3, <1>4, <1>5, <1>7 DEF TAnswer, TAsk, TSke, TStart, TSuite
<1>14. /\ a \o (b \o (c \o (d \o (e \o f)))) = (a \o b) \o (c \o (d \o (e \o f)))
       /\ a \o (b \o (c \o (d \o (e \o f)))) = ((((a \o b) \o c) \o d) \o e) \o f
       /\ a \o b \in Seq(S) /\ (((a \o b) \o c) \o d) \o e \in Seq(S)
  <2>1. /\ Cat(a, Cat(b, Cat(c, Cat(d, Cat(e, f)))))
             = Cat(Cat(a, b), Cat(c, Cat(d, Cat(e, f))))
        /\ Cat(a, Cat(b, Cat(c, Cat(d, Cat(e, f)))))
             = Cat(Cat(Cat(Cat(Cat(a, b), c), d), e), f)
        /\ Cat(a, b) \in Seq(S) /\ Cat(Cat(Cat(Cat(a, b), c), d), e) \in Seq(S)
    BY SixJoined
  <2>2. QED
    BY <2>1 DEF Cat
<1>a. h \o ((((a \o b) \o c) \o d) \o e) = ((((h \o a) \o b) \o c) \o d) \o e
  <2>1. Cat(h, Cat(Cat(Cat(Cat(a, b), c), d), e))
          = Cat(Cat(Cat(Cat(Cat(h, a), b), c), d), e)
    BY SixJoined
  <2>2. QED
    BY <2>1 DEF Cat
<1>15. <<ChangeCipherSpec, SFinished(x)>> = ClientHearsCcs(x)
  BY Words, TwoJoined DEF ClientHearsCcs, Then
<1>16. QED
  BY <1>6, <1>7, <1>9, <1>10, <1>11, <1>12, <1>13, <1>14, <1>a, <1>15

LEMMA ServerAnswers ==
    ASSUME NEW x
    PROVE  LET f == Answer(x.s, SideHello(x))
           IN  /\ ~SkeMade(x) => f = Goes(Failed(SideHello(x), "config"), HelloOut(x))
               /\ SkeMade(x) => f = Goes(ServerAt(x, AnswerStage(x)), AnswerOut(x))
<1> DEFINE me == SideHello(x)
           kx == Kx(me)
           hello == <<ServerHello(me.suite), Certificate(to_certificate_message(me.pair))>>
           body == IF kx = "Ibsdh" THEN << >> ELSE ServerKeyExchange(kx, x.s, me.pair)
           ske == IF kx = "Ibsdh" THEN << >> ELSE <<Msg("ServerKeyExchange", body)>>
           asks == kx \in {"Ecdhe", "Ecc"}
           request == IF asks THEN <<CertificateRequest>> ELSE << >>
           all == hello \o ske \o request \o <<ServerHelloDone>>
           next == [me EXCEPT !.stage = IF asks THEN "cert" ELSE "cke",
                              !.asked = asks, !.transcript = @ \o all]
<1>1. me.suite = Chosen(x) /\ me.pair = SPair(x) /\ me.transcript = THello(x)
  BY DEF SideHello, Side
<1>2. Answer(x.s, me) =
        IF kx # "Ibsdh" /\ body = << >> THEN Goes(Failed(me, "config"), hello)
        ELSE Goes(next, all)
  BY DEF Answer
<1> HIDE DEF me
<1>3. kx = KeyEx(x)
  BY <1>1 DEF Kx, KeyEx
<1>4. hello = HelloOut(x)
  BY <1>1 DEF HelloOut, SHello, SCerts
<1> HIDE DEF kx, hello
<1>5. ~Deferring(x) => body = SkeBody(x)
  BY <1>1, <1>3 DEF Deferring, SkeBody
<1>6. ske = When(~Deferring(x), <<Ske(x)>>)
  <2> HIDE DEF body
  <2>1. CASE Deferring(x)
    BY <1>3, <2>1 DEF Deferring, When
  <2>2. CASE ~Deferring(x)
    BY <1>3, <1>5, <2>2 DEF Deferring, When, Ske
  <2>3. QED
    BY <2>1, <2>2
<1>7. asks <=> Asking(x)
  BY <1>3 DEF Asking
<1>8. request = When(Asking(x), <<CertificateRequest>>)
  <2> HIDE DEF asks
  <2>1. CASE Asking(x)
    BY <1>7, <2>1 DEF When
  <2>2. CASE ~Asking(x)
    BY <1>7, <2>2 DEF When
  <2>3. QED
    BY <2>1, <2>2
<1> HIDE DEF ske, request
<1>9. all = AnswerOut(x)
  BY <1>4, <1>6, <1>8 DEF AnswerOut
<1>10. (kx # "Ibsdh" /\ body = << >>) <=> ~SkeMade(x)
  BY <1>3, <1>5 DEF SkeMade, Deferring
<1> HIDE DEF all, body
<1>11. next = ServerAt(x, AnswerStage(x))
  <2>1. (IF asks THEN "cert" ELSE "cke") = AnswerStage(x)
    BY <1>7 DEF AnswerStage
  <2>2. PICK a : a = asks
    OBVIOUS
  <2>3. PICK st : st = (IF asks THEN "cert" ELSE "cke")
    OBVIOUS
  <2>4. THello(x) \o all = TAnswer(x)
    BY <1>9, ServerSpeech
  <2>5. PICK h : h = [me EXCEPT !.stage = st]
    OBVIOUS
  <2>6. h = Side(st, Chosen(x), SPair(x), << >>, NotAsked, << >>, << >>, << >>, THello(x))
    BY <2>5 DEF me, SideHello, Side
  <2>7. PICK g : g = [h EXCEPT !.asked = a]
    OBVIOUS
  <2>8. g = Side(st, Chosen(x), SPair(x), << >>, a, << >>, << >>, << >>, THello(x))
    BY <2>6, <2>7 DEF Side
  <2>9. g.transcript = THello(x)
    BY <2>8 DEF Side
  <2>10. [g EXCEPT !.transcript = TAnswer(x)]
           = Side(st, Chosen(x), SPair(x), << >>, a, << >>, << >>, << >>, TAnswer(x))
    BY <2>8 DEF Side
  <2>11. next = [g EXCEPT !.transcript = g.transcript \o all]
    <3> HIDE DEF asks
    <3>1. QED
      BY <2>2, <2>3, <2>5, <2>7
  <2>12. next = [g EXCEPT !.transcript = TAnswer(x)]
    BY <2>4, <2>9, <2>11
  <2>13. a = Asking(x)
    BY <1>7, <2>2 DEF Asking
  <2>14. next = Serving(x, st, << >>, << >>, TAnswer(x))
    BY <2>10, <2>12, <2>13 DEF Serving
  <2>15. CASE Asking(x)
    <3>1. st = "cert" /\ AnswerStage(x) = "cert"
      BY <1>7, <2>3, <2>15 DEF AnswerStage
    <3>2. QED
      BY <2>14, <3>1 DEF ServerAt
  <2>16. CASE ~Asking(x)
    <3>1. st = "cke" /\ AnswerStage(x) = "cke"
      BY <1>7, <2>3, <2>16 DEF AnswerStage
    <3>2. Peer(x) = << >> /\ TCerts(x) = TAnswer(x)
      BY <2>16, Transcripts, Nothing DEF Peer, TCerts, When
    <3>3. ServerAt(x, "cke") = Serving(x, "cke", Peer(x), << >>, TCerts(x))
      BY DEF ServerAt
    <3>4. QED
      BY <2>14, <3>1, <3>2, <3>3
  <2>17. QED
    BY <2>15, <2>16
<1> HIDE DEF next
<1>12. /\ ~SkeMade(x) => Answer(x.s, me) = Goes(Failed(me, "config"), HelloOut(x))
       /\ SkeMade(x) => Answer(x.s, me) = Goes(ServerAt(x, AnswerStage(x)), AnswerOut(x))
  BY <1>2, <1>4, <1>9, <1>10, <1>11
<1>13. QED
  BY <1>12 DEF me

LEMMA ServingParts ==
    ASSUME NEW x, NEW stage, NEW certs, NEW pms, NEW transcript
    PROVE  LET me == Serving(x, stage, certs, pms, transcript)
           IN  /\ me.suite = Chosen(x) /\ me.pms = pms /\ me.transcript = transcript
               /\ me.certs = certs /\ Kx(me) = KeyEx(x)
<1>1. LET me == Serving(x, stage, certs, pms, transcript)
      IN  /\ me.suite = Chosen(x) /\ me.pms = pms /\ me.transcript = transcript
          /\ me.certs = certs
  BY SideRest DEF Serving
<1>2. QED
  BY <1>1 DEF Kx, KeyEx

LEMMA ServingTurns ==
    ASSUME NEW x, NEW stage, NEW certs, NEW pms, NEW transcript, NEW h,
           h = Serving(x, stage, certs, pms, transcript)
    PROVE  /\ \A v : [h EXCEPT !.stage = v] = Serving(x, v, certs, pms, transcript)
           /\ \A v : [h EXCEPT !.certs = v] = Serving(x, stage, v, pms, transcript)
           /\ \A v : [h EXCEPT !.pms = v] = Serving(x, stage, certs, v, transcript)
           /\ \A v : [h EXCEPT !.transcript = v] = Serving(x, stage, certs, pms, v)
  BY DEF Serving, Side

LEMMA ServerToCke ==
    ASSUME NEW x, Asking(x)
    PROVE  /\ CCerts(x).type = "Certificate" /\ CCerts(x).body = x.c.certs
           /\ [Hears(ServerAt(x, "cert"), CCerts(x), "cke") EXCEPT !.certs = x.c.certs]
                 = ServerAt(x, "cke")
<1>1. ServerAt(x, "cert") = Serving(x, "cert", << >>, << >>, TAnswer(x))
  BY DEF ServerAt
<1>2. Append(TAnswer(x), CCerts(x)) = TCerts(x)
  BY Transcripts, Words, Added DEF TCerts, When
<1>3. PICK h : h = Hears(ServerAt(x, "cert"), CCerts(x), "cke")
  OBVIOUS
<1>4. \A q, p, r, m : Hears(Serving(x, "cert", q, p, r), m, "cke")
                        = Serving(x, "cke", q, p, Append(r, m))
  BY ServingHears
<1>5. h = Serving(x, "cke", << >>, << >>, Append(TAnswer(x), CCerts(x)))
  BY <1>1, <1>3, <1>4
<1>6. h = Serving(x, "cke", << >>, << >>, TCerts(x))
  BY <1>2, <1>5
<1>7. \A v : [h EXCEPT !.certs = v] = Serving(x, "cke", v, << >>, TCerts(x))
  BY <1>6, ServingTurns
<1>8. Peer(x) = x.c.certs
  BY DEF Peer, When
<1>9. ServerAt(x, "cke") = Serving(x, "cke", Peer(x), << >>, TCerts(x))
  BY DEF ServerAt
<1>10. [h EXCEPT !.certs = x.c.certs] = ServerAt(x, "cke")
  BY <1>7, <1>8, <1>9
<1>11. CCerts(x).type = "Certificate" /\ CCerts(x).body = x.c.certs
  BY DEF CCerts, Certificate, Msg
<1>12. QED
  BY <1>3, <1>10, <1>11

LEMMA ServerToVerify ==
    ASSUME NEW x
    PROVE  LET me == ServerAt(x, "cke")
               deferred == When(Deferring(x), <<DSke(x)>>)
           IN  /\ CkeMsg(x).type = "ClientKeyExchange"
               /\ cke_from_body(CkeMsg(x).body) = Payload(x) /\ Kx(me) = KeyEx(x)
               /\ ServerPms(Kx(me), x.s, Payload(x), me.certs) = SPms(x)
               /\ [Hears(me, CkeMsg(x), "verify") EXCEPT
                      !.pms = SPms(x), !.transcript = @ \o deferred]
                     = ServerAt(x, "verify")
<1> DEFINE me == ServerAt(x, "cke")
           deferred == When(Deferring(x), <<DSke(x)>>)
<1>1. me = Serving(x, "cke", Peer(x), << >>, TCerts(x))
  BY DEF ServerAt
<1>2. me.certs = Peer(x) /\ Kx(me) = KeyEx(x)
  BY <1>1, ServingParts
<1>3. Peer(x) = IF Asking(x) THEN x.c.certs ELSE << >>
  BY DEF Peer, When
<1>4. ServerPms(Kx(me), x.s, Payload(x), me.certs) = SPms(x)
  <2> HIDE DEF me
  <2>1. QED
    BY <1>2, <1>3 DEF SPms
<1>5. CkeMsg(x).type = "ClientKeyExchange" /\ CkeMsg(x).body = CkeOf(x).body
  BY DEF CkeMsg, Msg
<1>6. cke_from_body(CkeMsg(x).body) = Payload(x)
  BY <1>5 DEF Payload
<1>7. Append(TCerts(x), CkeMsg(x)) = TCke(x)
  BY Transcripts, Words, Added DEF TCke
<1>8. TCke(x) \o deferred = TDeferred(x)
  BY DEF TDeferred
<1>9. PICK h : h = Hears(me, CkeMsg(x), "verify")
  OBVIOUS
<1>10. \A q, p, r, m : Hears(Serving(x, "cke", q, p, r), m, "verify")
                         = Serving(x, "verify", q, p, Append(r, m))
  BY ServingHears
<1>11. h = Serving(x, "verify", Peer(x), << >>, TCke(x))
  <2> HIDE DEF me
  <2>1. h = Serving(x, "verify", Peer(x), << >>, Append(TCerts(x), CkeMsg(x)))
    BY <1>1, <1>9, <1>10
  <2>2. QED
    BY <1>7, <2>1
<1>12. PICK g : g = [h EXCEPT !.pms = SPms(x)]
  OBVIOUS
<1>13. \A v : [h EXCEPT !.pms = v] = Serving(x, "verify", Peer(x), v, TCke(x))
  BY <1>11, ServingTurns
<1>14. g = Serving(x, "verify", Peer(x), SPms(x), TCke(x))
  BY <1>12, <1>13
<1>15. g.transcript = TCke(x)
  BY <1>14, ServingParts
<1>16. \A v : [g EXCEPT !.transcript = v] = Serving(x, "verify", Peer(x), SPms(x), v)
  BY <1>14, ServingTurns
<1>17. ServerAt(x, "verify") = Serving(x, "verify", Peer(x), SPms(x), TDeferred(x))
  BY DEF ServerAt
<1> HIDE DEF me, deferred
<1>18. [g EXCEPT !.transcript = g.transcript \o deferred] = ServerAt(x, "verify")
  BY <1>8, <1>15, <1>16, <1>17
<1>19. [h EXCEPT !.pms = SPms(x), !.transcript = @ \o deferred] = ServerAt(x, "verify")
  BY <1>12, <1>18
<1>20. QED
  BY <1>2, <1>4, <1>5, <1>6, <1>9, <1>19 DEF me, deferred

LEMMA ServerToCcs ==
    ASSUME NEW x
    PROVE  /\ Asking(x) =>
                 Hears(ServerAt(x, "verify"), CVerifyMsg(x), "ccs") = ServerAt(x, "ccs")
           /\ ~Asking(x) =>
                 [ServerAt(x, "verify") EXCEPT !.stage = "finished"] = ServerAt(x, "finished")
           /\ [ServerAt(x, "ccs") EXCEPT !.stage = "finished"] = ServerAt(x, "finished")
           /\ CVerifyMsg(x).type = "CertificateVerify" /\ ChangeCipherSpec.type = "CCS"
<1> DEFINE at(st, q) == Serving(x, st, Peer(x), SPms(x), q)
<1>1. /\ ServerAt(x, "verify") = at("verify", TDeferred(x))
      /\ ServerAt(x, "ccs") = at("ccs", TVerify(x))
      /\ ServerAt(x, "finished") = at("finished", TVerify(x))
  BY DEF ServerAt
<1>2. \A q, m : Hears(at("verify", q), m, "ccs") = at("ccs", Append(q, m))
  BY ServingHears
<1>3. \A st, q, v, h : h = at(st, q) => [h EXCEPT !.stage = v] = at(v, q)
  BY ServingTurns
<1> HIDE DEF at
<1>4. ASSUME Asking(x)
      PROVE  Hears(ServerAt(x, "verify"), CVerifyMsg(x), "ccs") = ServerAt(x, "ccs")
  <2>1. Append(TDeferred(x), CVerifyMsg(x)) = TVerify(x)
    BY <1>4, Transcripts, Words, Added DEF TVerify, CVerify, When
  <2>2. QED
    BY <1>1, <1>2, <2>1
<1>5. ASSUME ~Asking(x)
      PROVE  [ServerAt(x, "verify") EXCEPT !.stage = "finished"] = ServerAt(x, "finished")
  <2>1. TVerify(x) = TDeferred(x)
    BY <1>5, Transcripts, Nothing DEF TVerify, CVerify, When
  <2>2. QED
    BY <1>1, <1>3, <2>1
<1>6. [ServerAt(x, "ccs") EXCEPT !.stage = "finished"] = ServerAt(x, "finished")
  BY <1>1, <1>3
<1>7. CVerifyMsg(x).type = "CertificateVerify" /\ ChangeCipherSpec.type = "CCS"
  BY DEF CVerifyMsg, ChangeCipherSpec, Msg
<1>8. QED
  BY <1>4, <1>5, <1>6, <1>7

LEMMA ServerToStoring ==
    ASSUME NEW x
    PROVE  /\ Hears(ServerAt(x, "finished"), CFinished(x), "storing") = ServerAt(x, "storing")
           /\ Finished("server", ServerAt(x, "storing")) = SFinished(x)
           /\ [ServerAt(x, "storing") EXCEPT !.stage = "ok"] = ServerAt(x, "ok")
<1> DEFINE at(st, q) == Serving(x, st, Peer(x), SPms(x), q)
<1>1. /\ ServerAt(x, "finished") = at("finished", TVerify(x))
      /\ ServerAt(x, "storing") = at("storing", TClient(x))
      /\ ServerAt(x, "ok") = at("ok", TClient(x))
  BY DEF ServerAt
<1>2. \A q, m : Hears(at("finished", q), m, "storing") = at("storing", Append(q, m))
  BY ServingHears
<1>3. \A st, q, v, h : h = at(st, q) => [h EXCEPT !.stage = v] = at(v, q)
  BY ServingTurns
<1>4. Finished("server", ServerAt(x, "storing")) = SFinished(x)
  BY <1>1 DEF SFinished
<1>5. Append(TVerify(x), CFinished(x)) = TClient(x)
  BY Transcripts, Words, Added DEF TClient
<1> HIDE DEF at
<1>6. Hears(ServerAt(x, "finished"), CFinished(x), "storing") = ServerAt(x, "storing")
  BY <1>1, <1>2, <1>5
<1>7. [ServerAt(x, "storing") EXCEPT !.stage = "ok"] = ServerAt(x, "ok")
  BY <1>1, <1>3
<1>8. QED
  BY <1>4, <1>6, <1>7

(* What is heard next at a stage. *)
LEMMA ClientListens ==
    ASSUME NEW x
    PROVE  /\ ClientHears(x, "hello") = Then(SHello(x), ClientHears(x, "cert"))
           /\ ~Deferring(x) =>
                 /\ ClientHears(x, "cert") = Then(SCerts(x), ClientHears(x, "ske"))
                 /\ ClientHears(x, "ske") = Then(Ske(x), ClientHears(x, "request"))
                 /\ ClientHearsDone(x) = Then(ServerHelloDone, ClientHears(x, "ccs"))
           /\ Deferring(x) =>
                 /\ ClientHears(x, "cert") = Then(SCerts(x), ClientHears(x, "request"))
                 /\ ClientHearsDone(x) = Then(ServerHelloDone, ClientHears(x, "deferred"))
                 /\ ClientHears(x, "deferred") = Then(DSke(x), ClientHears(x, "ccs"))
           /\ Asking(x) =>
                 /\ ClientHears(x, "request") = Then(CertificateRequest, ClientHears(x, "done"))
                 /\ ClientHears(x, "done") = ClientHearsDone(x)
           /\ ~Asking(x) => ClientHears(x, "request") = ClientHearsDone(x)
           /\ ClientHears(x, "ccs") = Then(ChangeCipherSpec, ClientHears(x, "finished"))
           /\ ClientHears(x, "finished") = Then(SFinished(x), ClientHears(x, "ok"))
<1>1. /\ ClientHears(x, "hello") = ClientHearsHello(x)
      /\ ClientHears(x, "cert") = ClientHearsCert(x)
      /\ ClientHears(x, "ske") = ClientHearsSke(x)
      /\ ClientHears(x, "request") = ClientHearsRequest(x)
      /\ ClientHears(x, "done") = ClientHearsDone(x)
      /\ ClientHears(x, "deferred") = ClientHearsDeferred(x)
      /\ ClientHears(x, "ccs") = ClientHearsCcs(x)
      /\ ClientHears(x, "finished") = <<SFinished(x)>>
      /\ ClientHears(x, "ok") = << >>
  BY DEF ClientHears
<1>2. /\ ClientHearsHello(x) = Then(SHello(x), ClientHearsCert(x))
      /\ ClientHearsCert(x) = Then(SCerts(x), ClientHearsSke(x))
      /\ ClientHearsDone(x) = Then(ServerHelloDone, ClientHearsDeferred(x))
      /\ ClientHearsCcs(x) = Then(ChangeCipherSpec, <<SFinished(x)>>)
  BY DEF ClientHearsHello, ClientHearsCert, ClientHearsDone, ClientHearsCcs
<1>3. ~Deferring(x) => /\ ClientHearsSke(x) = Then(Ske(x), ClientHearsRequest(x))
                       /\ ClientHearsDeferred(x) = ClientHearsCcs(x)
  <2>1. ClientHearsCcs(x) \in Seq(Said(x))
    BY HeardLists
  <2>2. << >> \o ClientHearsCcs(x) = ClientHearsCcs(x)
    BY <2>1, Nothing
  <2>3. QED
    BY <2>2 DEF ClientHearsSke, ClientHearsDeferred, When, Then
<1>4. Deferring(x) => /\ ClientHearsSke(x) = ClientHearsRequest(x)
                      /\ ClientHearsDeferred(x) = Then(DSke(x), ClientHearsCcs(x))
  <2>1. ClientHearsRequest(x) \in Seq(Said(x))
    BY HeardLists
  <2>2. << >> \o ClientHearsRequest(x) = ClientHearsRequest(x)
    BY <2>1, Nothing
  <2>3. QED
    BY <2>2 DEF ClientHearsSke, ClientHearsDeferred, When, Then
<1>5. /\ Asking(x) => ClientHearsRequest(x) = Then(CertificateRequest, ClientHearsDone(x))
      /\ ~Asking(x) => ClientHearsRequest(x) = ClientHearsDone(x)
  <2>1. ClientHearsDone(x) \in Seq(Said(x))
    BY HeardLists
  <2>2. << >> \o ClientHearsDone(x) = ClientHearsDone(x)
    BY <2>1, Nothing
  <2>3. QED
    BY <2>2 DEF ClientHearsRequest, When, Then
<1>6. <<SFinished(x)>> = Then(SFinished(x), << >>)
  <2>1. <<SFinished(x)>> \in Seq(Said(x))
    BY Words
  <2>2. QED
    BY <2>1, Nothing DEF Then
<1>7. QED
  BY <1>1, <1>2, <1>3, <1>4, <1>5, <1>6

LEMMA ServerListens ==
    ASSUME NEW x
    PROVE  /\ ServerHears(x, "hello") = Then(CHello(x), ServerHears(x, AnswerStage(x)))
           /\ Asking(x) =>
                 /\ ServerHears(x, "cert") = Then(CCerts(x), ServerHears(x, "cke"))
                 /\ ServerHears(x, "verify") = Then(CVerifyMsg(x), ServerHears(x, "ccs"))
           /\ ServerHears(x, "cke") = Then(CkeMsg(x), ServerHears(x, "verify"))
           /\ ~Asking(x) =>
                 ServerHears(x, "verify") = Then(ChangeCipherSpec, ServerHears(x, "finished"))
           /\ ServerHears(x, "ccs") = Then(ChangeCipherSpec, ServerHears(x, "finished"))
           /\ ServerHears(x, "finished") = Then(CFinished(x), ServerHears(x, "storing"))
<1>1. /\ ServerHears(x, "hello") = ServerHearsHello(x)
      /\ ServerHears(x, "cert") = ServerHearsCert(x)
      /\ ServerHears(x, "cke") = ServerHearsCke(x)
      /\ ServerHears(x, "verify") = ServerHearsVerify(x)
      /\ ServerHears(x, "ccs") = ServerHearsCcs(x)
      /\ ServerHears(x, "finished") = <<CFinished(x)>>
      /\ ServerHears(x, "storing") = << >>
  BY DEF ServerHears
<1>2. /\ ServerHearsHello(x) = Then(CHello(x), ServerHearsCert(x))
      /\ ServerHearsCke(x) = Then(CkeMsg(x), ServerHearsVerify(x))
      /\ ServerHearsCcs(x) = Then(ChangeCipherSpec, <<CFinished(x)>>)
  BY DEF ServerHearsHello, ServerHearsCke, ServerHearsCcs
<1>3. /\ << >> \o ServerHearsCke(x) = ServerHearsCke(x)
      /\ << >> \o ServerHearsCcs(x) = ServerHearsCcs(x)
  <2>1. ServerHearsCke(x) \in Seq(Said(x)) /\ ServerHearsCcs(x) \in Seq(Said(x))
    BY HeardLists
  <2>2. QED
    BY <2>1, Nothing
<1>4. /\ Asking(x) => /\ ServerHearsCert(x) = Then(CCerts(x), ServerHearsCke(x))
                      /\ ServerHearsVerify(x) = Then(CVerifyMsg(x), ServerHearsCcs(x))
      /\ ~Asking(x) => /\ ServerHearsCert(x) = ServerHearsCke(x)
                       /\ ServerHearsVerify(x) = ServerHearsCcs(x)
  BY <1>3 DEF ServerHearsCert, ServerHearsVerify, CVerify, When, Then
<1>5. ServerHears(x, AnswerStage(x)) = ServerHearsCert(x)
  BY <1>1, <1>4 DEF AnswerStage
<1>6. <<CFinished(x)>> = Then(CFinished(x), << >>)
  <2>1. <<CFinished(x)>> \in Seq(Said(x))
    BY Words
  <2>2. QED
    BY <2>1, Nothing DEF Then
<1>7. QED
  BY <1>1, <1>2, <1>4, <1>5, <1>6

-----------------------------------------------------------------------------
(* The suite that is chosen is a known one. *)
Kinds == {"Ecdhe", "Ecc", "Ibc", "Ibsdh", "Rsa"}

LEMMA KnownKinds ==
    \A k \in Known : k # None /\ TlcpCipherSuite[k].key_exchange \in Kinds
  BY DEF Known, TlcpCipherSuite, Suite, Kinds, None

LEMMA ChosenKnown ==
    ASSUME NEW x \in Cases
    PROVE  /\ SuiteFound(x) <=> Chosen(x) \in Known
           /\ SuiteFound(x) => KeyEx(x) \in Kinds
<1> DEFINE q == x.c.suites
           known == {i \in 1..Len(q) : q[i] \in Known}
<1>1. q \in Seq(ToSet(q))
  BY TlcpHandshakeConstants DEF IsList
<1>2. PICK n \in Nat : n = Len(q)
  BY <1>1
<1>3. known \in SUBSET (1..n)
  BY <1>2
<1>4. Chosen(x) = IF known = {} THEN None ELSE q[Min(known)]
  BY DEF Chosen, Selected
<1>5. known # {} => Min(known) \in known
  <2>1. ASSUME known # {} PROVE Min(known) \in known
    <3>1. PICK p : p = CHOOSE i \in known : \A j \in known : i <= j
      OBVIOUS
    <3> HIDE DEF known
    <3>2. p \in known
      BY <1>3, <2>1, <3>1, FirstPosition
    <3>3. QED
      BY <3>1, <3>2 DEF Min
  <2>2. QED
    BY <2>1
<1>6. known # {} => q[Min(known)] \in Known
  BY <1>5
<1> HIDE DEF known, q
<1>7. None \notin Known
  BY KnownKinds
<1>8. SuiteFound(x) <=> Chosen(x) \in Known
  BY <1>4, <1>6, <1>7 DEF SuiteFound
<1>9. SuiteFound(x) => KeyEx(x) \in Kinds
  BY <1>8, KnownKinds DEF KeyEx
<1>10. QED
  BY <1>8, <1>9

LEMMA FirstTwo ==
    ASSUME NEW S, NEW q \in Seq(S), NEW r \in Seq(S), Len(q) >= 2, NEW w, w = Cat(q, r)
    PROVE  w \in Seq(S) /\ Len(w) >= 2 /\ w[1] = q[1] /\ w[2] = q[2]
<1>1. PICK m \in Nat : m = Len(q)
  OBVIOUS
<1>2. PICK n \in Nat : n = Len(r)
  OBVIOUS
<1>3. w \in Seq(S) /\ Len(w) = m + n
  BY <1>1, <1>2 DEF Cat
<1>4. m >= 2
  BY <1>1
<1>5. \A i \in 1..m : w[i] = q[i]
  BY <1>1, <1>2 DEF Cat
<1>6. w[1] = q[1] /\ w[2] = q[2]
  BY <1>4, <1>5
<1>7. QED
  BY <1>3, <1>4, <1>6

(* What the client makes of the server's Certificate: the same leaves. *)
LEMMA PairSurvives ==
    ASSUME NEW x \in Cases
    PROVE  /\ CPair(x).sign = SPair(x).sign /\ CPair(x).enc = SPair(x).enc
           /\ CPair(x).single => KeyEx(x) = "Rsa"
<1> DEFINE s == x.s
           a == IF s.sign_cert # NoCert THEN s.sign_cert ELSE s.rsa_cert
           b == IF s.enc_cert # NoCert THEN s.enc_cert ELSE s.rsa_cert
<1>1. SPair(x) = IF s.single /\ KeyEx(x) = "Rsa" THEN SinglePair(a)
                 ELSE CertPair(a, b, s.sign_chain, s.enc_chain)
  BY DEF SPair, ServerPair
<1> HIDE DEF a, b
<1>2. CASE s.single /\ KeyEx(x) = "Rsa"
  <2>1. SPair(x) = SinglePair(a)
    BY <1>1, <1>2
  <2>2. to_certificate_message(SPair(x)) = <<a>>
    BY <2>1 DEF to_certificate_message, SinglePair
  <2>3. CPair(x) = SinglePair(a)
    BY <2>2 DEF CPair, from_certificate_message
  <2>4. QED
    BY <1>2, <2>1, <2>3
<1>3. CASE ~(s.single /\ KeyEx(x) = "Rsa")
  <2>1. SPair(x) = CertPair(a, b, s.sign_chain, s.enc_chain)
    BY <1>1, <1>3
  <2>2. PICK S : /\ s.sign_chain \in Seq(S) /\ s.enc_chain \in Seq(S) /\ a \in S /\ b \in S
    <3> DEFINE S == ToSet(s.sign_chain) \cup ToSet(s.enc_chain) \cup {a, b}
    <3>1. s.sign_chain \in Seq(ToSet(s.sign_chain)) /\ s.enc_chain \in Seq(ToSet(s.enc_chain))
      BY TlcpHandshakeConstants DEF IsList
    <3>2. s.sign_chain \in Seq(S) /\ s.enc_chain \in Seq(S) /\ a \in S /\ b \in S
      <4> DEFINE A == ToSet(s.sign_chain)
                 B == ToSet(s.enc_chain)
      <4> HIDE DEF A, B
      <4>1. s.sign_chain \in Seq(A) /\ s.enc_chain \in Seq(B)
        BY <3>1 DEF A, B
      <4>2. A \subseteq (A \cup B \cup {a, b}) /\ B \subseteq (A \cup B \cup {a, b})
        OBVIOUS
      <4>3. s.sign_chain \in Seq(A \cup B \cup {a, b}) /\ s.enc_chain \in Seq(A \cup B \cup {a, b})
        BY <4>1, <4>2
      <4>4. QED
        BY <4>3 DEF A, B
    <3>3. QED
      BY <3>2
  <2>3. PICK p : p = s.sign_chain
    OBVIOUS
  <2>4. PICK q : q = s.enc_chain
    OBVIOUS
  <2>5. p \in Seq(S) /\ q \in Seq(S)
    BY <2>2, <2>3, <2>4
  <2>6. PICK list : list = (<<a, b>> \o p) \o q
    OBVIOUS
  <2>7. to_certificate_message(SPair(x)) = list
    <3>1. PICK pair : pair = SPair(x)
      OBVIOUS
    <3>2. /\ ~pair.single /\ pair.sign = a /\ pair.enc = b
          /\ pair.sign_chain = p /\ pair.enc_chain = q
      BY <2>1, <2>3, <2>4, <3>1 DEF CertPair
    <3>3. to_certificate_message(pair) = (<<a, b>> \o p) \o q
      BY <3>2 DEF to_certificate_message
    <3>4. QED
      BY <2>6, <3>1, <3>3
  <2>8. list[1] = a /\ list[2] = b /\ Len(list) >= 2 /\ list # << >>
    <3>1. PICK ab : ab = <<a, b>>
      OBVIOUS
    <3>2. ab \in Seq(S) /\ Len(ab) = 2 /\ ab[1] = a /\ ab[2] = b
      BY <2>2, <3>1
    <3>3. PICK r : r = Cat(ab, p)
      OBVIOUS
    <3>4. r \in Seq(S) /\ Len(r) >= 2 /\ r[1] = a /\ r[2] = b
      <4>1. Len(ab) >= 2 /\ ab \in Seq(S)
        BY <3>2
      <4>2. r \in Seq(S) /\ Len(r) >= 2 /\ r[1] = ab[1] /\ r[2] = ab[2]
        BY <2>5, <3>3, <4>1, FirstTwo
      <4>3. QED
        BY <3>2, <4>2
    <3>5. list = Cat(r, q)
      BY <2>6, <3>1, <3>3 DEF Cat
    <3>6. list \in Seq(S) /\ Len(list) >= 2 /\ list[1] = a /\ list[2] = b
      BY <2>5, <3>4, <3>5, FirstTwo
    <3>7. QED
      BY <3>6
  <2>9. CPair(x) = CertPair(list[1], list[2], SubSeq(list, 3, Len(list)), << >>)
    BY <2>7, <2>8 DEF CPair, from_certificate_message
  <2>10. QED
    BY <2>1, <2>8, <2>9 DEF CertPair
<1>4. QED
  BY <1>2, <1>3

-----------------------------------------------------------------------------
(* Finished is the last check of the keys: the transcripts being what they *)
(* are it fails only for want of the same pre-master secret.               *)
LEMMA FinishedMeans ==
    ASSUME NEW x
    PROVE  /\ ClientFinishedGood(x) <=> CPms(x) = SPms(x)
           /\ ServerFinishedGood(x) <=> CPms(x) = SPms(x)
<1>1. \A a, b, who : a.suite = b.suite /\ a.transcript = b.transcript =>
          (Finished(who, a) = Finished(who, b) <=> a.pms = b.pms)
  <2> SUFFICES ASSUME NEW a, NEW b, NEW who, a.suite = b.suite, a.transcript = b.transcript
               PROVE  Finished(who, a) = Finished(who, b) <=> a.pms = b.pms
    OBVIOUS
  <2>1. a.pms = b.pms => Finished(who, a) = Finished(who, b)
    BY SameFinished
  <2>2. \A p, q, r, w : Msg("Encrypted", <<p, q>>) = Msg("Encrypted", <<r, w>>) => q = w
    BY DEF Msg
  <2>3. ASSUME Finished(who, a) = Finished(who, b) PROVE a.pms = b.pms
    <3>1. verify_data(who, derive_master_secret(a.pms), a.transcript)
            = verify_data(who, derive_master_secret(b.pms), b.transcript)
      BY <2>2, <2>3 DEF Finished
    <3>2. derive_master_secret(a.pms) = derive_master_secret(b.pms)
      BY <3>1 DEF verify_data, prf_expand
    <3>3. QED
      BY <3>2 DEF derive_master_secret, prf_expand
  <2>4. QED
    BY <2>1, <2>3
<1>2. ClientFinishedGood(x) <=> CPms(x) = SPms(x)
  <2> DEFINE a == Keyed(x, "ccs", CPms(x), TVerify(x))
             b == ServerAt(x, "finished")
  <2>1. a.suite = Chosen(x) /\ a.transcript = TVerify(x) /\ a.pms = CPms(x)
    BY KeyedFields
  <2>2. b = Serving(x, "finished", Peer(x), SPms(x), TVerify(x))
    BY DEF ServerAt
  <2>3. b.suite = Chosen(x) /\ b.transcript = TVerify(x) /\ b.pms = SPms(x)
    BY <2>2, ServingParts
  <2>4. ClientFinishedGood(x) <=> Finished("client", a) = Finished("client", b)
    BY DEF ClientFinishedGood, FinishedVerdict, CFinished
  <2> HIDE DEF a, b
  <2>5. QED
    BY <1>1, <2>1, <2>3, <2>4
<1>3. ServerFinishedGood(x) <=> CPms(x) = SPms(x)
  <2> DEFINE a == ClientAt(x, "finished")
             b == Serving(x, "storing", Peer(x), SPms(x), TClient(x))
  <2>1. a = Keyed(x, "finished", CPms(x), TClient(x))
    BY DEF ClientAt
  <2>2. a.suite = Chosen(x) /\ a.transcript = TClient(x) /\ a.pms = CPms(x)
    BY <2>1, KeyedFields
  <2>3. b.suite = Chosen(x) /\ b.transcript = TClient(x) /\ b.pms = SPms(x)
    BY ServingParts
  <2>4. ServerFinishedGood(x) <=> Finished("server", b) = Finished("server", a)
    BY DEF ServerFinishedGood, FinishedVerdict, SFinished
  <2> HIDE DEF a, b
  <2>5. QED
    BY <1>1, <2>2, <2>3, <2>4
<1>4. QED
  BY <1>2, <1>3

(* A ServerKeyExchange is read as it was written. *)
LEMMA SkeRoundTrip ==
    ASSUME NEW kind \in {"Ecdhe", "Ecc", "Ibc", "Ibsdh"}, NEW ske
    PROVE  /\ \A f \in ToSet(ske_fields[kind]) :
                 ske_from_body(ske_to_bytes(kind, ske), kind)[f] = ske[f]
           /\ ske_to_bytes(kind, ske) # << >>
<1> DEFINE fields == ske_fields[kind]
<1>1. DOMAIN fields = 1..Len(fields) /\ Len(fields) \in 1..3
  <2>1. \/ fields = <<"ephemeral", "signature">> \/ fields = <<"signature">>
        \/ fields = <<"id", "signature">> \/ fields = <<"ra", "rb", "sb">>
    BY DEF ske_fields
  <2>2. \A a : Len(<<a>>) = 1 /\ DOMAIN <<a>> = 1..1
    OBVIOUS
  <2>3. \A a, b : Len(<<a, b>>) = 2 /\ DOMAIN <<a, b>> = 1..2
    OBVIOUS
  <2>4. \A a, b, c : Len(<<a, b, c>>) = 3 /\ DOMAIN <<a, b, c>> = 1..3
    OBVIOUS
  <2>5. PICK f : f = fields
    OBVIOUS
  <2> HIDE DEF fields
  <2>6. CASE f = <<"ephemeral", "signature">>
    BY <2>3, <2>5, <2>6
  <2>7. CASE f = <<"signature">>
    BY <2>2, <2>5, <2>7
  <2>8. CASE f = <<"id", "signature">>
    BY <2>3, <2>5, <2>8
  <2>9. CASE f = <<"ra", "rb", "sb">>
    BY <2>4, <2>5, <2>9
  <2>10. QED
    BY <2>1, <2>5, <2>6, <2>7, <2>8, <2>9
<1>2. PICK n \in 1..3 : n = Len(fields)
  BY <1>1
<1> DEFINE body == ske_to_bytes(kind, ske)
<1>3. body = [i \in 1..n |-> ske[fields[i]]]
  BY <1>2 DEF ske_to_bytes
<1>4. ToSet(fields) = {fields[i] : i \in 1..n}
  BY <1>1, <1>2 DEF ToSet
<1> HIDE DEF fields, body
<1>5. ASSUME NEW f \in ToSet(fields)
      PROVE  ske_from_body(body, kind)[f] = ske[f]
  <2>1. PICK k : k = CHOOSE i \in 1..n : fields[i] = f
    OBVIOUS
  <2>2. k \in 1..n /\ fields[k] = f
    BY <1>4, <1>5, <2>1
  <2>3. ske_from_body(body, kind)[f] = body[k]
    BY <1>2, <1>5, <2>1 DEF ske_from_body, fields
  <2>4. QED
    BY <1>3, <2>2, <2>3
<1>6. body # << >>
  BY <1>3, <1>2
<1>7. QED
  BY <1>5, <1>6 DEF fields, body

LEMMA SkeNames ==
    /\ {"ephemeral", "signature"} \subseteq ToSet(ske_fields["Ecdhe"])
    /\ "signature" \in ToSet(ske_fields["Ecc"])
    /\ {"id", "signature"} \subseteq ToSet(ske_fields["Ibc"])
    /\ {"ra", "rb", "sb"} \subseteq ToSet(ske_fields["Ibsdh"])
<1>1. \A a : a \in ToSet(<<a>>)
  BY DEF ToSet
<1>2. \A a, b : {a, b} \subseteq ToSet(<<a, b>>)
  BY DEF ToSet
<1>3. \A a, b, c : {a, b, c} \subseteq ToSet(<<a, b, c>>)
  BY DEF ToSet
<1>4. QED
  BY <1>1, <1>2, <1>3 DEF ske_fields

-----------------------------------------------------------------------------
(* Signatures: what verifies was made with the key and over the data. *)
LEMMA Signing ==
    ASSUME NEW k, NEW d, NEW m
    PROVE  LET sig == Sm2Signer_sign(k, d, m)
           IN  /\ sm2_signature_raw_to_der(sig).form = "der" /\ sig.form = "raw"
               /\ sm2_signature_der_to_raw(sm2_signature_raw_to_der(sig)) = sig
               /\ \A l, e, n : Sm2Verifier_verify(sig, l, e, n) <=> k = l /\ d = e /\ m = n
<1> DEFINE sig == Sm2Signer_sign(k, d, m)
<1>1. sig = [by |-> <<k, d>>, over |-> m, form |-> "raw"]
  BY DEF Sm2Signer_sign
<1>2. sm2_signature_raw_to_der(sig) = [by |-> <<k, d>>, over |-> m, form |-> "der"]
  BY <1>1 DEF sm2_signature_raw_to_der
<1>3. sm2_signature_der_to_raw([by |-> <<k, d>>, over |-> m, form |-> "der"])
        = [by |-> <<k, d>>, over |-> m, form |-> "raw"]
  BY DEF sm2_signature_der_to_raw
<1>4. \A l, e, n : Sm2Verifier_verify(sig, l, e, n) <=> k = l /\ d = e /\ m = n
  BY DEF Sm2Verifier_verify, Sm2Signer_sign
<1>5. QED
  BY <1>1, <1>2, <1>3, <1>4

(* What the two sides find out about each other's keys. *)
Agreeing(x) ==
    /\ SkeMade(x) /\ SkeGood(x) /\ CkeMade(x) /\ KeyLoads(x) /\ DeferredGood(x)
    /\ PeerGood(x) /\ PmsMade(x) /\ VerifyGood(x) /\ CPms(x) = SPms(x)

SignKey(x) == Con!load_client_key(x.c, x.c.sign_pem)
EncKey(x) == Con!load_client_key(x.c, x.c.enc_pem)

LEMMA VerifyMeans ==
    ASSUME NEW x, Asking(x)
    PROVE  VerifyGood(x) <=>
              /\ x.c.certs # << >> /\ extract_sm2_pubkey(x.c.certs[1]) # None
              /\ extract_sm2_pubkey(x.c.certs[1]) = SignKey(x)
              /\ x.s.client_sign_distid = x.c.sign_distid
<1>1. PICK me : me = ServerAt(x, "verify")
  OBVIOUS
<1>2. me = Serving(x, "verify", Peer(x), SPms(x), TDeferred(x))
  BY <1>1 DEF ServerAt
<1>3. me.certs = x.c.certs /\ me.transcript = TDeferred(x)
  BY <1>2, ServingParts DEF Peer, When
<1>4. PICK sig : sig = Sm2Signer_sign(SignKey(x), x.c.sign_distid, TDeferred(x))
  OBVIOUS
<1>5. PICK der : der = sm2_signature_raw_to_der(sig)
  OBVIOUS
<1>6. CVerifyMsg(x).body[1] = der
  BY <1>4, <1>5 DEF CVerifyMsg, Msg, SignKey
<1>7. /\ der.form = "der" /\ sm2_signature_der_to_raw(der) = sig
      /\ \A l, e, n : Sm2Verifier_verify(sig, l, e, n)
                        <=> SignKey(x) = l /\ x.c.sign_distid = e /\ TDeferred(x) = n
  BY <1>4, <1>5, Signing
<1>8. VerifyGood(x) <=> process_certificate_verify(x.s, me, der)
  BY <1>1, <1>6 DEF VerifyGood
<1>9. process_certificate_verify(x.s, me, der) <=>
         LET key == IF x.c.certs = << >> THEN None ELSE extract_sm2_pubkey(x.c.certs[1])
         IN  key # None /\ Sm2Verifier_verify(sig, key, x.s.client_sign_distid, TDeferred(x))
  BY <1>3, <1>7 DEF process_certificate_verify
<1>10. QED
  BY <1>7, <1>8, <1>9

LEMMA LoadedPem ==
    ASSUME NEW c, NEW pem, Con!load_client_key(c, pem) # None
    PROVE  pem # Con!NoPem
  BY DEF Con!load_client_key, Con!NoPem, Con!Pem, Con!None, None

(* What both SM2 key exchanges ask: the certificates and keys of the client. *)
LEMMA AskedMeans ==
    ASSUME NEW x, Asking(x)
    PROVE  (CkeOf(x).body # << >> => CkeMade(x)) /\ KeyLoads(x) /\ PeerGood(x) /\ VerifyGood(x)
              <=> /\ x.c.certs # << >> /\ x.c.certs[1].parses
                  /\ ClientCertsVerdict(x.s.v, x.c.certs) = "ok"
                  /\ SignKey(x) # None /\ x.c.certs[1].key = SignKey(x)
                  /\ x.s.client_sign_distid = x.c.sign_distid
<1>1. PeerGood(x) <=> ClientCertsVerdict(x.s.v, x.c.certs) = "ok"
  BY DEF PeerGood, ClientCertificateVerdict
<1>2. KeyLoads(x) <=> SignKey(x) # None
  BY DEF KeyLoads, SignKey
<1>3. SignKey(x) # None => x.c.sign_pem # Con!NoPem
  BY LoadedPem DEF SignKey
<1>4. SignKey(x) # None /\ x.c.certs # << >> => (CkeOf(x).body # << >> => CkeMade(x))
  BY <1>3 DEF CkeMade
<1>5. extract_sm2_pubkey(x.c.certs[1]) # None /\ extract_sm2_pubkey(x.c.certs[1]) = SignKey(x)
        <=> x.c.certs[1].parses /\ SignKey(x) # None /\ x.c.certs[1].key = SignKey(x)
  BY DEF extract_sm2_pubkey
<1>6. QED
  BY <1>1, <1>2, <1>4, <1>5, VerifyMeans

(* A ServerKeyExchange with a signature over the encryption certificate,   *)
(* and one with a signature over the ephemeral key.                        *)
LEMMA SignatureHeard ==
    ASSUME NEW sig
    PROVE  LET body == ske_to_bytes("Ecc", [signature |-> sig])
           IN  body # << >> /\ ske_from_body(body, "Ecc").signature = sig
<1>1. PICK ske : ske = [signature |-> sig]
  OBVIOUS
<1>2. ske["signature"] = sig
  BY <1>1
<1>3. PICK kind : kind = "Ecc"
  OBVIOUS
<1>4. kind \in {"Ecdhe", "Ecc", "Ibc", "Ibsdh"} /\ "signature" \in ToSet(ske_fields[kind])
  BY <1>3, SkeNames
<1>5. /\ ske_to_bytes(kind, ske) # << >>
      /\ ske_from_body(ske_to_bytes(kind, ske), kind)["signature"] = ske["signature"]
  BY <1>4, SkeRoundTrip
<1>6. QED
  BY <1>1, <1>2, <1>3, <1>5

LEMMA EphemeralHeard ==
    ASSUME NEW key, NEW sig
    PROVE  LET body == ske_to_bytes("Ecdhe", [ephemeral |-> key, signature |-> sig])
           IN  /\ body # << >> /\ ske_from_body(body, "Ecdhe").ephemeral = key
               /\ ske_from_body(body, "Ecdhe").signature = sig
<1>1. PICK ske : ske = [ephemeral |-> key, signature |-> sig]
  OBVIOUS
<1>2. ske["ephemeral"] = key /\ ske["signature"] = sig
  BY <1>1
<1>3. PICK kind : kind = "Ecdhe"
  OBVIOUS
<1>4. /\ kind \in {"Ecdhe", "Ecc", "Ibc", "Ibsdh"}
      /\ "signature" \in ToSet(ske_fields[kind]) /\ "ephemeral" \in ToSet(ske_fields[kind])
  BY <1>3, SkeNames
<1>5. /\ ske_to_bytes(kind, ske) # << >>
      /\ ske_from_body(ske_to_bytes(kind, ske), kind)["signature"] = ske["signature"]
      /\ ske_from_body(ske_to_bytes(kind, ske), kind)["ephemeral"] = ske["ephemeral"]
  BY <1>4, SkeRoundTrip
<1>6. QED
  BY <1>1, <1>2, <1>3, <1>5

LEMMA IdentityHeard ==
    ASSUME NEW name, NEW sig
    PROVE  LET body == ske_to_bytes("Ibc", [id |-> name, signature |-> sig])
           IN  body # << >> /\ ske_from_body(body, "Ibc").id = name
<1>1. PICK ske : ske = [id |-> name, signature |-> sig]
  OBVIOUS
<1>2. ske["id"] = name
  BY <1>1
<1>3. PICK kind : kind = "Ibc"
  OBVIOUS
<1>4. /\ kind \in {"Ecdhe", "Ecc", "Ibc", "Ibsdh"} /\ "id" \in ToSet(ske_fields[kind])
  BY <1>3, SkeNames
<1>5. /\ ske_to_bytes(kind, ske) # << >>
      /\ ske_from_body(ske_to_bytes(kind, ske), kind)["id"] = ske["id"]
  BY <1>4, SkeRoundTrip
<1>6. QED
  BY <1>1, <1>2, <1>3, <1>5

LEMMA ConfirmationHeard ==
    ASSUME NEW a, NEW b, NEW s
    PROVE  LET body == ske_to_bytes("Ibsdh", [ra |-> a, rb |-> b, sb |-> s])
               ske == ske_from_body(body, "Ibsdh")
           IN  ske.ra = a /\ ske.rb = b /\ ske.sb = s
<1>1. PICK ske : ske = [ra |-> a, rb |-> b, sb |-> s]
  OBVIOUS
<1>2. ske["ra"] = a /\ ske["rb"] = b /\ ske["sb"] = s
  BY <1>1
<1>3. PICK kind : kind = "Ibsdh"
  OBVIOUS
<1>4. /\ kind \in {"Ecdhe", "Ecc", "Ibc", "Ibsdh"} /\ "ra" \in ToSet(ske_fields[kind])
      /\ "rb" \in ToSet(ske_fields[kind]) /\ "sb" \in ToSet(ske_fields[kind])
  BY <1>3, SkeNames
<1>5. PICK heard : heard = ske_from_body(ske_to_bytes(kind, ske), kind)
  OBVIOUS
<1>6. heard["ra"] = ske["ra"] /\ heard["rb"] = ske["rb"] /\ heard["sb"] = ske["sb"]
  BY <1>4, <1>5, SkeRoundTrip
<1>7. QED
  BY <1>1, <1>2, <1>3, <1>5, <1>6

-----------------------------------------------------------------------------
(* The SM2 suites: the signature of the server. *)
LEMMA EccSkeMeans ==
    ASSUME NEW x \in Cases, KeyEx(x) = "Ecc"
    PROVE  SkeMade(x) /\ SkeGood(x) <=>
              /\ x.s.sign_key # None /\ x.s.sign_key = x.c.pin
              /\ x.s.sign_distid = x.c.pin_distid
<1>0. ~Deferring(x)
  BY DEF Deferring
<1>1. PICK cert : cert = SPair(x).enc
  OBVIOUS
<1>2. CPair(x).enc = cert
  BY <1>1, PairSurvives
<1>3. PICK sig : sig = Sm2Signer_sign(x.s.sign_key, x.s.sign_distid, cert)
  OBVIOUS
<1>4. PICK der : der = sm2_signature_raw_to_der(sig)
  OBVIOUS
<1>5. PICK body : body = ske_to_bytes("Ecc", [signature |-> der])
  OBVIOUS
<1>6. body # << >> /\ ske_from_body(body, "Ecc").signature = der
  BY <1>5, SignatureHeard
<1>7. SkeBody(x) = IF x.s.sign_key = None THEN << >> ELSE body
  BY <1>1, <1>3, <1>4, <1>5 DEF SkeBody, ServerKeyExchange, EccSke, generate_ecc
<1>8. SkeVerdict(x.c, KeyEx(x), body, cert) = "ok" <=>
         x.c.pin # None /\ verify_ske_ecc(body, cert, x.c.pin, x.c.pin_distid)
  BY DEF SkeVerdict, Sm2SkeVerdict
<1>9. /\ sm2_signature_der_to_raw(der) = sig
      /\ \A l, e, n : Sm2Verifier_verify(sig, l, e, n)
                        <=> x.s.sign_key = l /\ x.s.sign_distid = e /\ cert = n
  BY <1>3, <1>4, Signing
<1>10. verify_ske_ecc(body, cert, x.c.pin, x.c.pin_distid)
          <=> x.s.sign_key = x.c.pin /\ x.s.sign_distid = x.c.pin_distid
  BY <1>6, <1>9 DEF verify_ske_ecc
<1>11. QED
  BY <1>0, <1>2, <1>6, <1>7, <1>8, <1>10 DEF SkeMade, SkeGood

LEMMA EcdheSkeMeans ==
    ASSUME NEW x \in Cases, KeyEx(x) = "Ecdhe"
    PROVE  /\ SkeMade(x) /\ SkeGood(x) <=>
              /\ x.s.sign_key # None /\ x.s.sign_key = x.c.pin
              /\ x.s.sign_distid = x.c.pin_distid
           /\ SkeMade(x) => ske_from_body(SkeBody(x), "Ecdhe").ephemeral = "server ephemeral"
<1>0. ~Deferring(x)
  BY DEF Deferring
<1>1. PICK data : data = <<"server ephemeral">>
  OBVIOUS
<1>3. PICK sig : sig = Sm2Signer_sign(x.s.sign_key, x.s.sign_distid, data)
  OBVIOUS
<1>5. PICK body : body = ske_to_bytes("Ecdhe", [ephemeral |-> "server ephemeral",
                                                signature |-> sig])
  OBVIOUS
<1>6. /\ body # << >> /\ ske_from_body(body, "Ecdhe").signature = sig
      /\ ske_from_body(body, "Ecdhe").ephemeral = "server ephemeral"
  BY <1>5, EphemeralHeard
<1>7. SkeBody(x) = IF x.s.sign_key = None THEN << >> ELSE body
  BY <1>1, <1>3, <1>5 DEF SkeBody, ServerKeyExchange, EcdheSke, generate
<1>8. \A cert : SkeVerdict(x.c, KeyEx(x), body, cert) = "ok" <=>
         x.c.pin # None /\ verify_ske_ecdhe(body, x.c.pin, x.c.pin_distid)
  BY DEF SkeVerdict, Sm2SkeVerdict
<1>9. /\ sig.form = "raw"
      /\ \A l, e, n : Sm2Verifier_verify(sig, l, e, n)
                        <=> x.s.sign_key = l /\ x.s.sign_distid = e /\ data = n
  BY <1>3, Signing
<1>10. verify_ske_ecdhe(body, x.c.pin, x.c.pin_distid)
          <=> x.s.sign_key = x.c.pin /\ x.s.sign_distid = x.c.pin_distid
  BY <1>1, <1>6, <1>9 DEF verify_ske_ecdhe
<1>11. QED
  BY <1>0, <1>6, <1>7, <1>8, <1>10 DEF SkeMade, SkeGood

LEMMA RsaSkeMeans ==
    ASSUME NEW x \in Cases, KeyEx(x) = "Rsa"
    PROVE  SkeMade(x) /\ SkeGood(x) <=> x.s.rsa_key # None /\ x.s.rsa_key = x.c.rsa_pub
<1>0. ~Deferring(x)
  BY DEF Deferring
<1>1. PICK cert : cert = SPair(x).enc
  OBVIOUS
<1>2. CPair(x).enc = cert
  BY <1>1, PairSurvives
<1>3. PICK sig : sig = RsaSigner_sign(x.s.rsa_key, cert)
  OBVIOUS
<1>5. PICK body : body = ske_to_bytes("Ecc", [signature |-> sig])
  OBVIOUS
<1>6. body # << >> /\ ske_from_body(body, "Ecc").signature = sig
  BY <1>5, SignatureHeard
<1>7. SkeBody(x) = IF x.s.rsa_key = None THEN << >> ELSE body
  BY <1>1, <1>3, <1>5 DEF SkeBody, ServerKeyExchange, RsaSke, generate_rsa
<1>8. SkeVerdict(x.c, KeyEx(x), body, cert) = "ok" <=>
         x.c.rsa_pub # None /\ RsaVerifier_verify(sig, x.c.rsa_pub, cert)
  BY <1>6 DEF SkeVerdict, RsaSkeVerdict
<1>9. RsaVerifier_verify(sig, x.c.rsa_pub, cert) <=> x.s.rsa_key = x.c.rsa_pub
  BY <1>3 DEF RsaVerifier_verify, RsaSigner_sign
<1>10. QED
  BY <1>0, <1>2, <1>6, <1>7, <1>8, <1>9 DEF SkeMade, SkeGood

LEMMA IbcSkeMeans ==
    ASSUME NEW x \in Cases, KeyEx(x) = "Ibc"
    PROVE  SkeMade(x) /\ SkeGood(x) <=>
              x.s.sm9 # Acc!NoSm9 /\ x.c.sm9 # Con!NoSm9 /\ x.s.sm9.id = x.c.sm9.id
<1>0. ~Deferring(x)
  BY DEF Deferring
<1>3. PICK sig : sig = Sm9Signer_sign(x.s.sm9.kgc, x.s.sm9.id, <<x.s.sm9.id>>)
  OBVIOUS
<1>5. PICK body : body = ske_to_bytes("Ibc", [id |-> x.s.sm9.id, signature |-> sig])
  OBVIOUS
<1>6. body # << >> /\ ske_from_body(body, "Ibc").id = x.s.sm9.id
  BY <1>5, IdentityHeard
<1>7. SkeBody(x) = IF x.s.sm9 = Acc!NoSm9 THEN << >> ELSE body
  BY <1>3, <1>5 DEF SkeBody, ServerKeyExchange, IbcSke
<1>8. \A g, p, i, d : Sm9Verifier_verify(g, p, i, d) \in {"Ok(true)", "Ok(false)"}
  BY DEF Sm9Verifier_verify
<1>9. \A cert : SkeVerdict(x.c, KeyEx(x), body, cert) = "ok" <=>
         x.c.sm9 # Con!NoSm9 /\ x.s.sm9.id = x.c.sm9.id
  BY <1>6, <1>8 DEF SkeVerdict, IbcSkeVerdict
<1>10. QED
  BY <1>0, <1>6, <1>7, <1>9 DEF SkeMade, SkeGood

(* What the two configurations must have in common, suite by suite. *)
SignedFit(x) ==
    /\ x.s.sign_key # None /\ x.s.sign_key = x.c.pin
    /\ x.s.sign_distid = x.c.pin_distid
    /\ x.c.certs # << >> /\ x.c.certs[1].parses
    /\ ClientCertsVerdict(x.s.v, x.c.certs) = "ok"
    /\ SignKey(x) # None /\ x.c.certs[1].key = SignKey(x)
    /\ x.s.client_sign_distid = x.c.sign_distid
    /\ x.s.enc_key # None /\ CPair(x).enc.parses /\ CPair(x).enc.key = x.s.enc_key
AgreedFit(x) ==
    /\ Len(x.c.certs) >= 2 /\ x.c.certs[2].parses
    /\ EncKey(x) # None /\ x.c.certs[2].key = EncKey(x)
    /\ x.s.server_enc_distid = x.c.server_enc_distid
    /\ x.s.client_enc_distid = x.c.client_enc_distid
Sm9Fit(x) ==
    x.s.sm9 # Acc!NoSm9 /\ x.s.sm9.id = x.c.sm9.id /\ x.s.sm9.kgc = x.c.sm9.ppube
ExchangeFit(x) ==
    x.c.ibsdh.de = <<x.s.sm9.id, x.s.sm9.kgc>> /\ x.c.ibsdh.id = x.s.sm9.id
RsaFit(x) == x.s.rsa_key # None /\ x.s.rsa_key = x.c.rsa_pub

LEMMA CkeBodies ==
    /\ NoCke.body = << >> /\ NoCke.pms = << >>
    /\ \A p, q : /\ Cke(p, q).body # << >> /\ cke_from_body(Cke(p, q).body) = p
                 /\ Cke(p, q).pms = q
    /\ RandomPms # << >>
<1>1. NoCke.body = << >> /\ NoCke.pms = << >>
  BY DEF NoCke
<1>2. \A p, q : Cke(p, q).body = <<p>> /\ Cke(p, q).pms = q
  BY DEF Cke, cke_to_bytes
<1>3. \A p : <<p>> # << >> /\ <<p>>[1] = p
  OBVIOUS
<1>4. RandomPms # << >>
  BY DEF RandomPms
<1>5. QED
  BY <1>1, <1>2, <1>3, <1>4 DEF cke_from_body

LEMMA Unsealing ==
    ASSUME NEW to, NEW by
    PROVE  /\ Unsealed(by, Sealed(to, RandomPms)) # << >> <=> to = by
           /\ to = by => Unsealed(by, Sealed(to, RandomPms)) = RandomPms
<1>1. Unsealed(by, Sealed(to, RandomPms)) = IF to = by THEN RandomPms ELSE << >>
  BY DEF Unsealed, Sealed
<1>2. QED
  BY <1>1, CkeBodies

LEMMA EccMeans ==
    ASSUME NEW x \in Cases, KeyEx(x) = "Ecc"
    PROVE  Agreeing(x) <=> SignedFit(x)
<1>0. Asking(x) /\ ~Deferring(x)
  BY DEF Asking, Deferring
<1>1. PICK key : key = extract_sm2_pubkey(CPair(x).enc)
  OBVIOUS
<1>2. CkeOf(x) = IF key = None THEN NoCke ELSE Cke(Sealed(<<key>>, RandomPms), RandomPms)
  BY <1>1 DEF CkeOf, ClientKeyExchange, EccCke, Sm2Encryptor_encrypt
<1>3. CPms(x) = CkeOf(x).pms
  BY <1>0 DEF CPms
<1>4. SPms(x) = IF x.s.enc_key = None THEN << >>
                ELSE Unsealed(<<x.s.enc_key>>, Payload(x))
  BY DEF SPms, ServerPms, EccPms, Sm2Decryptor_decrypt
<1>5. CkeMade(x) => CkeOf(x).body # << >>
  BY DEF CkeMade
<1>6. DeferredGood(x)
  BY <1>0 DEF DeferredGood
<1>7. key # None /\ key = x.s.enc_key <=>
         x.s.enc_key # None /\ CPair(x).enc.parses /\ CPair(x).enc.key = x.s.enc_key
  BY <1>1 DEF extract_sm2_pubkey
<1>8. ASSUME key # None
      PROVE  /\ CkeOf(x).body # << >> /\ CPms(x) = RandomPms
             /\ x.s.enc_key # None =>
                   /\ PmsMade(x) <=> key = x.s.enc_key
                   /\ key = x.s.enc_key => SPms(x) = RandomPms
  <2>1. CkeOf(x).body # << >> /\ Payload(x) = Sealed(<<key>>, RandomPms)
    BY <1>2, <1>8, CkeBodies DEF Payload
  <2>2. CPms(x) = RandomPms
    BY <1>2, <1>3, <1>8, CkeBodies
  <2>3. <<key>> = <<x.s.enc_key>> <=> key = x.s.enc_key
    OBVIOUS
  <2>4. QED
    BY <1>4, <2>1, <2>2, <2>3, Unsealing DEF PmsMade
<1>9. x.s.enc_key = None => ~PmsMade(x)
  BY <1>4 DEF PmsMade
<1>10. key = None => CkeOf(x).body = << >>
  BY <1>2, CkeBodies
<1>11. CkeMade(x) /\ PmsMade(x) => key # None /\ key = x.s.enc_key
  BY <1>5, <1>8, <1>9, <1>10
<1>12. key # None /\ key = x.s.enc_key =>
          CkeOf(x).body # << >> /\ PmsMade(x) /\ CPms(x) = SPms(x)
  BY <1>8
<1> DEFINE A == SkeMade(x) /\ SkeGood(x)
           B == (CkeOf(x).body # << >> => CkeMade(x)) /\ KeyLoads(x) /\ PeerGood(x)
                /\ VerifyGood(x)
<1>13. A <=> /\ x.s.sign_key # None /\ x.s.sign_key = x.c.pin
             /\ x.s.sign_distid = x.c.pin_distid
  BY EccSkeMeans
<1>14. B <=> /\ x.c.certs # << >> /\ x.c.certs[1].parses
             /\ ClientCertsVerdict(x.s.v, x.c.certs) = "ok"
             /\ SignKey(x) # None /\ x.c.certs[1].key = SignKey(x)
             /\ x.s.client_sign_distid = x.c.sign_distid
  BY <1>0, AskedMeans
<1>15. Agreeing(x) <=> /\ A /\ B /\ CkeMade(x) /\ PmsMade(x) /\ CPms(x) = SPms(x)
  BY <1>6 DEF Agreeing
<1> HIDE DEF A
<1>16. SignedFit(x) <=> A /\ B /\ key # None /\ key = x.s.enc_key
  BY <1>7, <1>13, <1>14 DEF SignedFit
<1>17. B /\ CkeOf(x).body # << >> => CkeMade(x)
  OBVIOUS
<1> HIDE DEF B
<1>18. QED
  BY <1>11, <1>12, <1>15, <1>16, <1>17

LEMMA EcdheMeans ==
    ASSUME NEW x \in Cases, KeyEx(x) = "Ecdhe"
    PROVE  Agreeing(x) <=> SignedFit(x) /\ AgreedFit(x)
<1>0. Asking(x) /\ ~Deferring(x)
  BY DEF Asking, Deferring
<1>1. PICK key : key = extract_sm2_pubkey(CPair(x).enc)
  OBVIOUS
<1>a. PICK own : own = EncKey(x)
  OBVIOUS
<1>b. PICK peer : peer = IF Len(x.c.certs) < 2 THEN None ELSE extract_sm2_pubkey(x.c.certs[2])
  OBVIOUS
<1> DEFINE cpms == <<{<<own, "client ephemeral">>, <<key, "server ephemeral">>},
                     <<key, x.c.server_enc_distid>>, <<own, x.c.client_enc_distid>>>>
           spms == <<{<<x.s.enc_key, "server ephemeral">>, <<peer, "client ephemeral">>},
                     <<x.s.enc_key, x.s.server_enc_distid>>,
                     <<peer, x.s.client_enc_distid>>>>
<1>2. SkeMade(x) => CkeOf(x) = IF own = None \/ key = None THEN NoCke
                               ELSE Cke("client ephemeral", cpms)
  <2>1. ASSUME SkeMade(x)
        PROVE  ske_from_body(HeardSke(x), "Ecdhe").ephemeral = "server ephemeral"
    BY <1>0, <2>1, EcdheSkeMeans DEF HeardSke
  <2>2. CkeOf(x) = EcdheCke(x.c, CPair(x), HeardSke(x))
    BY DEF CkeOf, ClientKeyExchange
  <2>3. QED
    BY <1>1, <1>a, <2>1, <2>2 DEF EcdheCke, EncKey, compute_tlcp_ecdhe_pms, sm2_compute_z
<1>3. CPms(x) = CkeOf(x).pms
  BY <1>0 DEF CPms
<1>4. Payload(x) = "client ephemeral" =>
         SPms(x) = IF x.s.enc_key = None \/ peer = None THEN << >> ELSE spms
  <2>1. (IF Asking(x) THEN x.c.certs ELSE << >>) = x.c.certs
    BY <1>0
  <2>2. SPms(x) = ServerPms("Ecdhe", x.s, Payload(x), x.c.certs)
    BY <2>1 DEF SPms
  <2>3. SPms(x) = EcdhePms(x.s, Payload(x), x.c.certs)
    BY <2>2 DEF ServerPms
  <2>4. QED
    BY <1>b, <2>3 DEF EcdhePms, compute_tlcp_ecdhe_pms, sm2_compute_z
<1>5. CkeMade(x) => CkeOf(x).body # << >>
  BY DEF CkeMade
<1>6. DeferredGood(x)
  BY <1>0 DEF DeferredGood
<1>7. key # None /\ key = x.s.enc_key <=>
         x.s.enc_key # None /\ CPair(x).enc.parses /\ CPair(x).enc.key = x.s.enc_key
  BY <1>1 DEF extract_sm2_pubkey
<1>c. PICK n \in Nat : n = Len(x.c.certs)
  <2>1. IsList(x.c.certs)
    BY TlcpHandshakeConstants
  <2>2. \A S, q : q \in Seq(S) => Len(q) \in Nat
    OBVIOUS
  <2>3. Len(x.c.certs) \in Nat
    BY <2>1, <2>2 DEF IsList
  <2>4. QED
    BY <2>3
<1>d. peer # None /\ peer = own <=>
         Len(x.c.certs) >= 2 /\ x.c.certs[2].parses /\ own # None /\ x.c.certs[2].key = own
  <2>1. peer = IF n < 2 THEN None
               ELSE IF x.c.certs[2].parses THEN x.c.certs[2].key ELSE None
    BY <1>b, <1>c DEF extract_sm2_pubkey
  <2>2. QED
    BY <1>c, <2>1
<1>e. cpms = spms <=>
         /\ key = x.s.enc_key /\ own = peer
         /\ x.s.server_enc_distid = x.c.server_enc_distid
         /\ x.s.client_enc_distid = x.c.client_enc_distid
  <2>1. \A a1, a2, a3, b1, b2, b3 :
            <<a1, a2, a3>> = <<b1, b2, b3>> <=> a1 = b1 /\ a2 = b2 /\ a3 = b3
    OBVIOUS
  <2>2. \A a1, a2, b1, b2 : <<a1, a2>> = <<b1, b2>> <=> a1 = b1 /\ a2 = b2
    OBVIOUS
  <2>3. \A a, b : {a, b} = {b, a}
    OBVIOUS
  <2>4. QED
    BY <2>1, <2>2, <2>3
<1>f. spms # << >>
  OBVIOUS
<1> HIDE DEF cpms, spms
<1>8. ASSUME SkeMade(x), CkeOf(x).body # << >>
      PROVE  /\ own # None /\ key # None /\ CPms(x) = cpms
             /\ SPms(x) = IF x.s.enc_key = None \/ peer = None THEN << >> ELSE spms
  <2>1. own # None /\ key # None /\ CkeOf(x) = Cke("client ephemeral", cpms)
    BY <1>2, <1>8, CkeBodies
  <2>2. Payload(x) = "client ephemeral" /\ CPms(x) = cpms
    BY <1>3, <2>1, CkeBodies DEF Payload
  <2>3. QED
    BY <1>4, <2>1, <2>2
<1>9. SkeMade(x) /\ own # None /\ key # None => CkeOf(x).body # << >>
  BY <1>2, CkeBodies
<1> DEFINE A == SkeMade(x) /\ SkeGood(x)
           B == (CkeOf(x).body # << >> => CkeMade(x)) /\ KeyLoads(x) /\ PeerGood(x)
                /\ VerifyGood(x)
           C == key # None /\ key = x.s.enc_key
           D == /\ peer # None /\ peer = own
                /\ x.s.server_enc_distid = x.c.server_enc_distid
                /\ x.s.client_enc_distid = x.c.client_enc_distid
<1>11. SkeMade(x) /\ CkeMade(x) /\ PmsMade(x) /\ CPms(x) = SPms(x) => C /\ D
  BY <1>5, <1>8, <1>e DEF PmsMade
<1>12. SkeMade(x) /\ C /\ D =>
          CkeOf(x).body # << >> /\ PmsMade(x) /\ CPms(x) = SPms(x)
  BY <1>8, <1>9, <1>e, <1>f DEF PmsMade
<1>13. A <=> /\ x.s.sign_key # None /\ x.s.sign_key = x.c.pin
             /\ x.s.sign_distid = x.c.pin_distid
  BY EcdheSkeMeans
<1>14. B <=> /\ x.c.certs # << >> /\ x.c.certs[1].parses
             /\ ClientCertsVerdict(x.s.v, x.c.certs) = "ok"
             /\ SignKey(x) # None /\ x.c.certs[1].key = SignKey(x)
             /\ x.s.client_sign_distid = x.c.sign_distid
  BY <1>0, AskedMeans
<1>15. Agreeing(x) <=> /\ A /\ B /\ CkeMade(x) /\ PmsMade(x) /\ CPms(x) = SPms(x)
  BY <1>6 DEF Agreeing
<1>g. A => SkeMade(x)
  OBVIOUS
<1> HIDE DEF A
<1>h. AgreedFit(x) <=> D
  BY <1>a, <1>d DEF AgreedFit
<1>16. SignedFit(x) <=> A /\ B /\ C
  BY <1>7, <1>13, <1>14 DEF SignedFit
<1>17. B /\ CkeOf(x).body # << >> => CkeMade(x)
  OBVIOUS
<1> HIDE DEF B, C, D
<1>18. QED
  BY <1>11, <1>12, <1>15, <1>16, <1>17, <1>g, <1>h

LEMMA RsaMeans ==
    ASSUME NEW x \in Cases, KeyEx(x) = "Rsa"
    PROVE  Agreeing(x) <=> RsaFit(x)
<1>0. ~Asking(x) /\ ~Deferring(x)
  BY DEF Asking, Deferring
<1>1. PICK key : key = x.c.rsa_pub
  OBVIOUS
<1>2. CkeOf(x) = IF key = None THEN NoCke ELSE Cke(Sealed(<<key>>, RandomPms), RandomPms)
  BY <1>1 DEF CkeOf, ClientKeyExchange, RsaCke, RsaEncryptor_encrypt
<1>3. CPms(x) = CkeOf(x).pms
  BY <1>0 DEF CPms
<1>4. SPms(x) = IF x.s.rsa_key = None THEN << >>
                ELSE Unsealed(<<x.s.rsa_key>>, Payload(x))
  BY DEF SPms, ServerPms, RsaPms, RsaDecryptor_decrypt
<1>5. CkeMade(x) <=> CkeOf(x).body # << >>
  BY <1>0 DEF CkeMade
<1>6. DeferredGood(x) /\ KeyLoads(x) /\ PeerGood(x) /\ VerifyGood(x)
  BY <1>0 DEF DeferredGood, KeyLoads, PeerGood, VerifyGood
<1>7. SkeMade(x) /\ SkeGood(x) <=> RsaFit(x)
  BY RsaSkeMeans DEF RsaFit
<1>8. ASSUME RsaFit(x)
      PROVE  CkeMade(x) /\ PmsMade(x) /\ CPms(x) = SPms(x)
  <2>0. key # None /\ key = x.s.rsa_key
    BY <1>1, <1>8 DEF RsaFit
  <2>1. CkeOf(x).body # << >> /\ Payload(x) = Sealed(<<key>>, RandomPms)
    BY <1>2, <2>0, CkeBodies DEF Payload
  <2>2. CPms(x) = RandomPms
    BY <1>2, <1>3, <2>0, CkeBodies
  <2>3. <<key>> = <<x.s.rsa_key>>
    BY <2>0
  <2>4. SPms(x) = RandomPms
    BY <1>4, <2>0, <2>1, <2>3, Unsealing
  <2>5. QED
    BY <1>5, <2>1, <2>2, <2>4, CkeBodies DEF PmsMade
<1>9. QED
  BY <1>6, <1>7, <1>8 DEF Agreeing

LEMMA Sm9Given ==
    ASSUME NEW x \in Cases, Sm9Fit(x)
    PROVE  x.c.sm9 # Con!NoSm9
<1> SUFFICES ASSUME x.c.sm9 = Con!NoSm9 PROVE FALSE
  OBVIOUS
<1>1. x.c.sm9.id = None /\ x.c.sm9.ppube = None
  BY DEF Con!NoSm9, Con!None, None
<1>2. x.s.sm9 = [kgc |-> None, id |-> None]
  BY <1>1, TlcpHandshakeConstants DEF Sm9Fit
<1>3. Acc!NoSm9 = [kgc |-> None, id |-> None]
  BY DEF Acc!NoSm9, Acc!None, None
<1>4. QED
  BY <1>2, <1>3 DEF Sm9Fit

LEMMA IbcMeans ==
    ASSUME NEW x \in Cases, KeyEx(x) = "Ibc"
    PROVE  Agreeing(x) <=> Sm9Fit(x)
<1>0. ~Asking(x) /\ ~Deferring(x)
  BY DEF Asking, Deferring
<1>1. PICK to : to = <<x.c.sm9.ppube, x.c.sm9.id>>
  OBVIOUS
<1>a. PICK by : by = <<x.s.sm9.kgc, x.s.sm9.id>>
  OBVIOUS
<1>2. CkeOf(x) = IF x.c.sm9 = Con!NoSm9 THEN NoCke ELSE Cke(Sealed(to, RandomPms), RandomPms)
  BY <1>1 DEF CkeOf, ClientKeyExchange, IbcCke, Sm9Encryptor_encrypt
<1>3. CPms(x) = CkeOf(x).pms
  BY <1>0 DEF CPms
<1>4. SPms(x) = IF x.s.sm9 = Acc!NoSm9 THEN << >> ELSE Unsealed(by, Payload(x))
  BY <1>a DEF SPms, ServerPms, IbcPms, Sm9Decryptor_decrypt
<1>5. CkeMade(x) <=> CkeOf(x).body # << >>
  BY <1>0 DEF CkeMade
<1>6. DeferredGood(x) /\ KeyLoads(x) /\ PeerGood(x) /\ VerifyGood(x)
  BY <1>0 DEF DeferredGood, KeyLoads, PeerGood, VerifyGood
<1>7. SkeMade(x) /\ SkeGood(x) <=>
         x.s.sm9 # Acc!NoSm9 /\ x.c.sm9 # Con!NoSm9 /\ x.s.sm9.id = x.c.sm9.id
  BY IbcSkeMeans
<1>b. to = by <=> x.s.sm9.id = x.c.sm9.id /\ x.s.sm9.kgc = x.c.sm9.ppube
  BY <1>1, <1>a
<1>8. ASSUME x.s.sm9 # Acc!NoSm9, x.c.sm9 # Con!NoSm9
      PROVE  /\ CkeMade(x) /\ (PmsMade(x) <=> to = by)
             /\ to = by => CPms(x) = SPms(x)
  <2>1. CkeOf(x).body # << >> /\ Payload(x) = Sealed(to, RandomPms)
    BY <1>2, <1>8, CkeBodies DEF Payload
  <2>2. CPms(x) = RandomPms
    BY <1>2, <1>3, <1>8, CkeBodies
  <2>4. /\ SPms(x) # << >> <=> to = by
        /\ to = by => SPms(x) = RandomPms
    BY <1>4, <1>8, <2>1, Unsealing
  <2>5. QED
    BY <1>5, <2>1, <2>2, <2>4 DEF PmsMade
<1>9. Agreeing(x) => Sm9Fit(x)
  BY <1>7, <1>8, <1>b DEF Agreeing, Sm9Fit
<1>10. ASSUME Sm9Fit(x) PROVE Agreeing(x)
  <2>1. x.s.sm9 # Acc!NoSm9 /\ x.c.sm9 # Con!NoSm9 /\ to = by /\ x.s.sm9.id = x.c.sm9.id
    BY <1>10, <1>b, Sm9Given DEF Sm9Fit
  <2>2. QED
    BY <1>6, <1>7, <1>8, <2>1 DEF Agreeing
<1>11. QED
  BY <1>9, <1>10

-----------------------------------------------------------------------------
(* An element of the target group is a base and its exponents.  A key that *)
(* undoes a point leaves the base of the published pairing, any other      *)
(* leaves something longer.                                                *)
Element(b, e) == [base |-> b, exponents |-> e]
Base(k) == <<k>>
Once(r) == {r}
Twice(r, t) == {r, t}

LEMMA Undone ==
    ASSUME NEW S, NEW de \in Seq(S)
    PROVE  \A a, b, r, p : p = Scaled(r, compute_q(a, b)) =>
              \E base : /\ pairing(p, de) = Element(base, Once(r))
                        /\ \A k : base = Base(k) <=> de = compute_q(a, b) /\ b = k
<1> SUFFICES ASSUME NEW a, NEW b, NEW r, NEW p, p = Scaled(r, compute_q(a, b))
             PROVE  \E base : /\ pairing(p, de) = Element(base, Once(r))
                              /\ \A k : base = Base(k) <=> de = compute_q(a, b) /\ b = k
  OBVIOUS
<1>1. p.q = <<a, b>> /\ p.r = r
  BY DEF Scaled, compute_q
<1>2. PICK base : base = IF <<a, b>> = de THEN <<de[2]>> ELSE <<a, b>> \o de
  OBVIOUS
<1>3. pairing(p, de) = Element(base, Once(r))
  BY <1>1, <1>2 DEF pairing, Element, Once
<1>4. ASSUME NEW k PROVE <<a, b>> \o de # <<k>>
  <2>1. PICK q : q = <<a, b>>
    OBVIOUS
  <2>2. q \in Seq({a, b} \cup S) /\ Len(q) = 2
    BY <2>1
  <2>3. de \in Seq({a, b} \cup S)
    <3>1. \A T : S \subseteq T => de \in Seq(T)
      OBVIOUS
    <3>2. QED
      BY <3>1
  <2>4. PICK T : T = {a, b} \cup S
    OBVIOUS
  <2>5. PICK n \in Nat : n = Len(de)
    BY <2>3
  <2>6. PICK m \in Nat : m = Len(q)
    BY <2>2
  <2>7. q \in Seq(T) /\ de \in Seq(T)
    BY <2>2, <2>3, <2>4
  <2>8. Len(q \o de) = m + n
    BY <2>5, <2>6, <2>7
  <2>9. Len(q \o de) = 2 + n
    BY <2>2, <2>6, <2>8
  <2>10. Len(<<k>>) = 1
    OBVIOUS
  <2>11. PICK w : w = q \o de
    OBVIOUS
  <2>12. PICK o : o = <<k>>
    OBVIOUS
  <2>13. Len(w) = 2 + n /\ Len(o) = 1
    BY <2>9, <2>10, <2>11, <2>12
  <2>16. 2 + n # 1
    OBVIOUS
  <2>17. w = o => Len(w) = Len(o)
    OBVIOUS
  <2>14. w # o
    BY <2>13, <2>16, <2>17
  <2>15. QED
    BY <2>1, <2>11, <2>12, <2>14
<1>5. \A k, c : <<c>> = <<k>> <=> c = k
  OBVIOUS
<1>6. <<a, b>>[2] = b
  OBVIOUS
<1>7. ASSUME NEW k PROVE base = Base(k) <=> de = compute_q(a, b) /\ b = k
  BY <1>2, <1>4, <1>5, <1>6 DEF Base, compute_q
<1>8. QED
  BY <1>3, <1>7

LEMMA Powers ==
    /\ \A k, r : pow(PublishedPairing(k), r) = Element(Base(k), Once(r))
    /\ \A b, r, t : pow(Element(b, Once(t)), r) = Element(b, Twice(r, t))
<1>1. \A r : {} \cup {r} = {r}
  OBVIOUS
<1>2. \A t, r : {t} \cup {r} = {r, t}
  OBVIOUS
<1>3. \A h, c, d, r : h = [base |-> c, exponents |-> d] =>
                      [h EXCEPT !.exponents = @ \cup {r}] = [base |-> c, exponents |-> d \cup {r}]
  OBVIOUS
<1>4. \A k, r : pow(PublishedPairing(k), r) = Element(Base(k), Once(r))
  BY <1>1, <1>3 DEF pow, PublishedPairing, Element, Base, Once
<1>5. \A b, r, t : pow(Element(b, Once(t)), r) = Element(b, Twice(r, t))
  BY <1>2, <1>3 DEF pow, Element, Once, Twice
<1>6. QED
  BY <1>4, <1>5

LEMMA Elements ==
    /\ \A a, b, e, f : Element(a, e) = Element(b, f) => a = b
    /\ \A k, l : Base(k) = Base(l) <=> k = l
    /\ \A r, t : Twice(r, t) = Twice(t, r)
<1>1. \A a, b, e, f : Element(a, e) = Element(b, f) => a = b
  BY DEF Element
<1>2. \A k, l : Base(k) = Base(l) <=> k = l
  BY DEF Base
<1>3. \A r, t : Twice(r, t) = Twice(t, r)
  BY DEF Twice
<1>4. QED
  BY <1>1, <1>2, <1>3

Confirmed(x) == Sm9Fit(x) /\ ExchangeFit(x)

LEMMA IbsdhMeans ==
    ASSUME NEW x \in Cases, KeyEx(x) = "Ibsdh"
    PROVE  Agreeing(x) <=> Confirmed(x)
<1>0. ~Asking(x) /\ Deferring(x)
  BY DEF Asking, Deferring
<1>1. PICK id : id = x.s.sm9.id
  OBVIOUS
<1>2. PICK kgc : kgc = x.s.sm9.kgc
  OBVIOUS
<1>3. PICK de : de = x.c.ibsdh.de
  OBVIOUS
<1>4. PICK r_a : r_a = Scaled("ra", <<x.c.sm9.id, x.c.sm9.ppube>>)
  OBVIOUS
<1>5. PICK r_b : r_b = Scaled("rb", <<id, kgc>>)
  OBVIOUS
<1>6. CkeOf(x) = IF x.c.sm9 = Con!NoSm9 THEN NoCke ELSE Cke(r_a, <<"zeros">>)
  BY <1>4 DEF CkeOf, ClientKeyExchange, IbsdhCke, initiator_begin, compute_q
<1>7. PICK g1 : g1 = pairing(r_a, <<id, kgc>>)
  OBVIOUS
<1>8. PICK g2 : g2 = pow(PublishedPairing(kgc), "rb")
  OBVIOUS
<1>9. PICK g3 : g3 = pow(g1, "rb")
  OBVIOUS
<1>10. PICK h1 : h1 = pow(PublishedPairing(de[2]), "ra")
  OBVIOUS
<1>11. PICK h2 : h2 = pairing(r_b, de)
  OBVIOUS
<1>12. PICK h3 : h3 = pow(h2, "ra")
  OBVIOUS
<1>13. PICK sb : sb = compute_sb(g1, g2, g3, id, id, r_a, r_b)
  OBVIOUS
<1>14. PICK tb : tb = compute_sb(h1, h2, h3, x.c.ibsdh.id, x.c.sm9.id, r_a, r_b)
  OBVIOUS
<1>15. PICK sk : sk = kdf_key_exchange(id, id, r_a, r_b, g1, g2, g3)
  OBVIOUS
<1>16. PICK tk : tk = kdf_key_exchange(x.c.ibsdh.id, x.c.sm9.id, r_a, r_b, h1, h2, h3)
  OBVIOUS
<1>17. /\ Responder(x.s, r_a).r_b = r_b /\ Responder(x.s, r_a).s_b = sb
       /\ Responder(x.s, r_a).shared_key = sk
  BY <1>1, <1>2, <1>5, <1>7, <1>8, <1>9, <1>13, <1>15
  DEF Responder, responder_process, compute_q
<1>18. initiator_finish(r_a, r_b, de, x.c.ibsdh.id, x.c.sm9.id, sb)
         = IF sb = tb THEN tk ELSE << >>
  BY <1>10, <1>11, <1>12, <1>14, <1>16 DEF initiator_finish
<1>19. sk # << >> /\ tk # << >>
  BY <1>15, <1>16 DEF kdf_key_exchange
<1>20. x.c.sm9 # Con!NoSm9 => CkeOf(x).body # << >> /\ Payload(x) = r_a
  BY <1>6, CkeBodies DEF Payload
<1>21. PICK body : body = DeferredSke(x.s, r_a)
  OBVIOUS
<1>22. x.s.sm9 # Acc!NoSm9 =>
         /\ ske_from_body(body, "Ibsdh").ra = r_a
         /\ ske_from_body(body, "Ibsdh").rb = r_b
         /\ ske_from_body(body, "Ibsdh").sb = sb
  BY <1>17, <1>21, ConfirmationHeard DEF DeferredSke
<1>23. SPms(x) = IF x.s.sm9 = Acc!NoSm9 THEN << >> ELSE Responder(x.s, Payload(x)).shared_key
  BY DEF SPms, ServerPms, IbsdhPms
<1>24. DSke(x).body = DeferredSke(x.s, Payload(x))
  BY DEF DSke, Msg
<1>25. CPms(x) = AgreedPms(x.c, Payload(x), DSke(x).body)
  BY <1>0 DEF CPms
<1>26. DeferredGood(x) <=> DeferredVerdict(x.c, Payload(x), DSke(x).body) = "ok"
  BY <1>0 DEF DeferredGood
<1>27. CkeMade(x) <=> CkeOf(x).body # << >>
  BY <1>0 DEF CkeMade
<1>28. SkeMade(x) /\ SkeGood(x) /\ KeyLoads(x) /\ PeerGood(x) /\ VerifyGood(x)
  BY <1>0 DEF SkeMade, SkeGood, KeyLoads, PeerGood, VerifyGood
<1>29. x.c.sm9 = Con!NoSm9 => CkeOf(x).body = << >>
  BY <1>6, CkeBodies
(* Once both have their parameters. *)
<1>30. ASSUME x.c.sm9 # Con!NoSm9, x.s.sm9 # Acc!NoSm9
       PROVE  /\ SPms(x) = sk /\ CPms(x) = IF sb = tb THEN tk ELSE << >>
              /\ DeferredGood(x) <=> x.c.ibsdh # Con!NoExchangeKey /\ sb = tb
  <2>1. Payload(x) = r_a /\ DSke(x).body = body
    BY <1>20, <1>21, <1>24, <1>30
  <2>2. SPms(x) = sk
    BY <1>17, <1>23, <1>30, <2>1
  <2>3. AgreedPms(x.c, r_a, body) = IF sb = tb THEN tk ELSE << >>
    BY <1>3, <1>18, <1>22, <1>30 DEF AgreedPms
  <2>4. DeferredVerdict(x.c, r_a, body) = "ok" <=> x.c.ibsdh # Con!NoExchangeKey /\ sb = tb
    BY <1>3, <1>18, <1>19, <1>22, <1>30 DEF DeferredVerdict
  <2>5. QED
    BY <1>25, <1>26, <2>1, <2>2, <2>3, <2>4
(* The confirmation. *)
<1>31. sb = tb <=> g1 = h1 /\ g2 = h2 /\ g3 = h3 /\ id = x.c.ibsdh.id /\ id = x.c.sm9.id
  BY <1>13, <1>14 DEF compute_sb
<1>32. sb = tb => sk = tk
  BY <1>15, <1>16, <1>31
<1>33. h1 = Element(Base(de[2]), Once("ra")) /\ g2 = Element(Base(kgc), Once("rb"))
  BY <1>8, <1>10, Powers
<1>34. PICK b1 : /\ g1 = Element(b1, Once("ra"))
                 /\ \A k : b1 = Base(k) <=>
                       /\ compute_q(id, kgc) = compute_q(x.c.sm9.id, x.c.sm9.ppube)
                       /\ x.c.sm9.ppube = k
  <2>1. <<id, kgc>> \in Seq({id, kgc})
    OBVIOUS
  <2>2. PICK q : q = compute_q(id, kgc)
    OBVIOUS
  <2>3. PICK S : q \in Seq(S)
    BY <2>1, <2>2 DEF compute_q
  <2>4. r_a = Scaled("ra", compute_q(x.c.sm9.id, x.c.sm9.ppube))
    BY <1>4 DEF compute_q
  <2>5. PICK b1 : /\ pairing(r_a, q) = Element(b1, Once("ra"))
                  /\ \A k : b1 = Base(k) <=>
                        q = compute_q(x.c.sm9.id, x.c.sm9.ppube) /\ x.c.sm9.ppube = k
    BY <2>3, <2>4, Undone
  <2>6. g1 = pairing(r_a, q)
    BY <1>7, <2>2 DEF compute_q
  <2>7. QED
    BY <2>2, <2>5, <2>6
<1>35. PICK b2 : /\ h2 = Element(b2, Once("rb"))
                 /\ \A k : b2 = Base(k) <=> de = compute_q(id, kgc) /\ kgc = k
  <2>1. de \in Seq(ToSet(de))
    BY <1>3, TlcpHandshakeConstants DEF IsList
  <2>2. PICK S : de \in Seq(S)
    BY <2>1
  <2>3. r_b = Scaled("rb", compute_q(id, kgc))
    BY <1>5 DEF compute_q
  <2>4. QED
    BY <1>11, <2>2, <2>3, Undone
<1>36. g3 = Element(b1, Twice("rb", "ra"))
  BY <1>9, <1>34, Powers
<1>37. h3 = Element(b2, Twice("ra", "rb"))
  BY <1>12, <1>35, Powers
<1>a. /\ \A a, b, c, d : compute_q(a, b) = compute_q(c, d) <=> a = c /\ b = d
      /\ compute_q(id, kgc) = <<id, kgc>>
  BY DEF compute_q
<1>38. ASSUME sb = tb
       PROVE  /\ id = x.c.sm9.id /\ kgc = x.c.sm9.ppube /\ id = x.c.ibsdh.id
              /\ de = <<id, kgc>>
  <2>1. g1 = h1 /\ g2 = h2
    BY <1>31, <1>38
  <2>2. b1 = Base(de[2]) /\ b2 = Base(kgc)
    BY <1>33, <1>34, <1>35, <2>1, Elements
  <2>3. compute_q(id, kgc) = compute_q(x.c.sm9.id, x.c.sm9.ppube) /\ de = compute_q(id, kgc)
    BY <1>34, <1>35, <2>2
  <2>4. QED
    BY <1>31, <1>38, <1>a, <2>3
<1>39. ASSUME id = x.c.sm9.id, kgc = x.c.sm9.ppube, id = x.c.ibsdh.id, de = <<id, kgc>>
       PROVE  sb = tb
  <2>1. b1 = Base(kgc) /\ b2 = Base(kgc)
    BY <1>34, <1>35, <1>39, <1>a
  <2>2. de[2] = kgc
    BY <1>39
  <2>3. g1 = h1 /\ g2 = h2
    BY <1>33, <1>34, <1>35, <2>1, <2>2
  <2>4. g3 = h3
    BY <1>36, <1>37, <2>1, Elements
  <2>5. QED
    BY <1>31, <1>39, <2>3, <2>4
<1>40. de = <<id, kgc>> => x.c.ibsdh # Con!NoExchangeKey
  <2>1. \A a, b : <<a, b>> # << >>
    OBVIOUS
  <2>2. Con!NoExchangeKey.de = << >>
    BY DEF Con!NoExchangeKey
  <2>3. QED
    BY <1>3, <2>1, <2>2
<1>41. Confirmed(x) <=> /\ x.s.sm9 # Acc!NoSm9 /\ id = x.c.sm9.id /\ kgc = x.c.sm9.ppube
                        /\ de = <<id, kgc>> /\ id = x.c.ibsdh.id
  BY <1>1, <1>2, <1>3 DEF Confirmed, Sm9Fit, ExchangeFit
<1>42. ASSUME Agreeing(x) PROVE Confirmed(x)
  <2>1. x.c.sm9 # Con!NoSm9
    BY <1>27, <1>29, <1>42 DEF Agreeing
  <2>2. x.s.sm9 # Acc!NoSm9
    BY <1>23, <1>42 DEF Agreeing, PmsMade
  <2>3. sb = tb
    BY <1>30, <1>42, <2>1, <2>2 DEF Agreeing
  <2>4. QED
    BY <1>38, <1>41, <2>2, <2>3
<1>43. ASSUME Confirmed(x) PROVE Agreeing(x)
  <2>1. x.c.sm9 # Con!NoSm9 /\ x.s.sm9 # Acc!NoSm9
    BY <1>43, Sm9Given DEF Confirmed, Sm9Fit
  <2>2. sb = tb /\ x.c.ibsdh # Con!NoExchangeKey
    BY <1>39, <1>40, <1>41, <1>43
  <2>3. SPms(x) = sk /\ CPms(x) = tk /\ DeferredGood(x)
    BY <1>30, <2>1, <2>2
  <2>4. CkeMade(x)
    BY <1>20, <1>27, <2>1
  <2>5. QED
    BY <1>19, <1>28, <1>32, <2>2, <2>3, <2>4 DEF Agreeing, PmsMade
<1>44. QED
  BY <1>42, <1>43

-----------------------------------------------------------------------------
(* Compatible is what all the checks ask together. *)
LEMMA CompatibleMeans ==
    ASSUME NEW x \in Cases
    PROVE  Compatible(x) <=> /\ SuiteFound(x) /\ PinGiven(x) /\ HasCertificates(x.s)
                             /\ CertsGood(x) /\ Agreeing(x)
<1>1. Compatible(x) <=>
        /\ SuiteFound(x) /\ PinGiven(x) /\ HasCertificates(x.s)
        /\ ServerCertsVerdict(x.c.v, CPair(x)) = "ok"
        /\ KeyEx(x) \in {"Ecdhe", "Ecc"} => SignedFit(x)
        /\ KeyEx(x) = "Ecdhe" => AgreedFit(x)
        /\ KeyEx(x) \in {"Ibc", "Ibsdh"} => Sm9Fit(x)
        /\ KeyEx(x) = "Ibsdh" => ExchangeFit(x)
        /\ KeyEx(x) = "Rsa" => RsaFit(x)
  BY DEF Compatible, SuiteFound, PinGiven, CPair, SPair, KeyEx, Chosen, SignedFit,
         AgreedFit, Sm9Fit, ExchangeFit, RsaFit, SignKey, EncKey
<1>2. CertsGood(x) <=> ServerCertsVerdict(x.c.v, CPair(x)) = "ok"
  BY PairSurvives DEF CertsGood, ServerCertificateVerdict
<1>3. SuiteFound(x) => KeyEx(x) \in Kinds
  BY ChosenKnown
<1>4. CASE KeyEx(x) = "Ecdhe"
  BY <1>1, <1>2, <1>4, EcdheMeans
<1>5. CASE KeyEx(x) = "Ecc"
  BY <1>1, <1>2, <1>5, EccMeans
<1>6. CASE KeyEx(x) = "Ibc"
  BY <1>1, <1>2, <1>6, IbcMeans
<1>7. CASE KeyEx(x) = "Ibsdh"
  BY <1>1, <1>2, <1>7, IbsdhMeans DEF Confirmed
<1>8. CASE KeyEx(x) = "Rsa"
  BY <1>1, <1>2, <1>8, RsaMeans
<1>9. CASE ~SuiteFound(x)
  BY <1>1, <1>9
<1>10. QED
  BY <1>3, <1>4, <1>5, <1>6, <1>7, <1>8, <1>9 DEF Kinds

(* A check that fails is one that Compatible asks for too, and what passes *)
(* all of them is compatible.                                              *)
LEMMA Incompatible ==
    ASSUME NEW x \in Cases, Compatible(x)
    PROVE  /\ PinGiven(x) /\ SuiteFound(x) /\ SkeMade(x) /\ CertsGood(x) /\ SkeGood(x)
           /\ CkeMade(x) /\ KeyLoads(x) /\ DeferredGood(x) /\ PeerGood(x) /\ PmsMade(x)
           /\ VerifyGood(x) /\ ClientFinishedGood(x) /\ ServerFinishedGood(x)
           /\ HasCertificates(x.s)
  BY CompatibleMeans, FinishedMeans DEF Agreeing

LEMMA BothPassed ==
    ASSUME NEW x \in Cases, ClientPassed(x, "ccs"), ServerPassed(x, "storing")
    PROVE  Compatible(x)
<1>1. PinGiven(x) /\ SuiteFound(x) /\ CertsGood(x) /\ SkeGood(x) /\ CkeMade(x)
        /\ KeyLoads(x) /\ DeferredGood(x)
  BY DEF ClientPassed
<1>2. HasCertificates(x.s) /\ SkeMade(x) /\ PeerGood(x) /\ PmsMade(x) /\ VerifyGood(x)
        /\ ClientFinishedGood(x)
  BY DEF ServerPassed
<1>3. QED
  BY <1>1, <1>2, CompatibleMeans, FinishedMeans DEF Agreeing

-----------------------------------------------------------------------------
(* A side that has nothing to write is as its stage says. *)
LEMMA ClientStage ==
    ASSUME NEW x, NEW t \in ClientStages, NEW u \in ServerStages,
           NEW cl, NEW sv, NEW cs, NEW sc,
           Meeting(x, t, u, cl, sv, cs, sc), Alive(cl), cl.out = << >>
    PROVE  /\ cl = ClientAt(x, t) /\ ClientPassed(x, t) /\ IsSide(cl)
           /\ cl.stage = (IF t = "lost" THEN "done" ELSE t)
<1>1. cl = Goes(ClientAt(x, t), << >>) /\ ClientPassed(x, t)
  BY DEF Meeting, ClientIs
<1>2. PICK out : out = << >>
  OBVIOUS
<1>3. LET he == Goes(ClientAt(x, t), out)
      IN  /\ IsSide(he) /\ he.stage = (IF t = "lost" THEN "done" ELSE t)
          /\ Goes(ClientAt(x, t), << >>) = ClientAt(x, t)
  BY ClientFields
<1>4. QED
  BY <1>1, <1>2, <1>3

LEMMA ServerStage ==
    ASSUME NEW x, NEW t \in ClientStages, NEW u \in ServerStages,
           NEW cl, NEW sv, NEW cs, NEW sc,
           Meeting(x, t, u, cl, sv, cs, sc), Alive(sv), sv.out = << >>
    PROVE  /\ sv = ServerAt(x, u) /\ ServerPassed(x, u) /\ IsSide(sv)
           /\ sv.stage = (IF u = "simulated" THEN "ok" ELSE u)
<1>1. sv = Goes(ServerAt(x, u), << >>) /\ ServerPassed(x, u)
  BY DEF Meeting, ServerIs
<1>2. PICK out : out = << >>
  OBVIOUS
<1>3. LET he == Goes(ServerAt(x, u), out)
      IN  /\ IsSide(he) /\ he.stage = (IF u = "simulated" THEN "ok" ELSE u)
          /\ Goes(ServerAt(x, u), << >>) = ServerAt(x, u)
  BY ServerFields
<1>4. QED
  BY <1>1, <1>2, <1>3

(* A step that says nothing, and one that is the last. *)
LEMMA ClientTurns ==
    ASSUME NEW x, NEW t \in ClientStages, NEW v \in ClientStages \ {"start", "lost"},
           NEW u \in ServerStages, NEW cl, NEW sv, NEW cs, NEW sc,
           Meeting(x, t, u, cl, sv, cs, sc), Alive(cl), cl.out = << >>,
           ClientLeft(x, t) = ClientLeft(x, v), ClientPassed(x, v),
           NEW way \in Seq(Said(x)), ServerSays(x, v, u, sv, way)
    PROVE  Meeting(x, v, u, ClientAt(x, v), sv, cs, way)
<1>1. PICK new : new = << >>
  OBVIOUS
<1>2. new \in Seq(Said(x)) /\ ClientLeft(x, t) = new \o ClientLeft(x, v)
  BY <1>1, StageLists, Nothing
<1>3. Meeting(x, v, u, Goes(ClientAt(x, v), new), sv, cs, way)
  BY <1>2, ClientMoves
<1>4. Goes(ClientAt(x, v), << >>) = ClientAt(x, v)
  <2>1. v \in ClientStages
    OBVIOUS
  <2>2. QED
    BY <2>1, ClientFields
<1>5. QED
  BY <1>1, <1>3, <1>4

LEMMA ClientRefuses ==
    ASSUME NEW x, NEW t \in ClientStages, NEW u \in ServerStages,
           NEW cl, NEW sv, NEW cs, NEW sc,
           Meeting(x, t, u, cl, sv, cs, sc), Alive(cl), cl.out = << >>,
           ClientLeft(x, t) # << >> , ~Compatible(x),
           NEW way \in Seq(Said(x)), NEW why, NEW me, IsSide(me)
    PROVE  Meeting(x, t, u, Failed(me, why), sv, cs, way)
<1>1. PICK f : f = Failed(me, why)
  OBVIOUS
<1>2. IsSide(f) /\ ~Alive(f) /\ f.out = << >>
  BY <1>1, FailedFields
<1>3. f.out \in Seq(Said(x)) /\ ClientLeft(x, t) = f.out \o ClientLeft(x, t)
      /\ ClientLeft(x, t) \in Seq(Said(x))
  BY <1>2, StageLists, Nothing
<1>4. Meeting(x, t, u, f, sv, cs, way)
  BY <1>2, <1>3, ClientFails
<1>5. QED
  BY <1>1, <1>4

LEMMA ServerTurns ==
    ASSUME NEW x, NEW u \in ServerStages, NEW v \in ServerStages \ {"start"},
           NEW t \in ClientStages, NEW sv, NEW cl, NEW sc, NEW cs,
           Meeting(x, t, u, cl, sv, cs, sc), Alive(sv), sv.out = << >>,
           ServerLeft(x, u) = ServerLeft(x, v), ServerPassed(x, v),
           NEW way \in Seq(Said(x)), ClientSays(x, t, v, cl, way)
    PROVE  Meeting(x, t, v, cl, ServerAt(x, v), way, sc)
<1>1. PICK new : new = << >>
  OBVIOUS
<1>2. new \in Seq(Said(x)) /\ ServerLeft(x, u) = new \o ServerLeft(x, v)
  BY <1>1, StageLists, Nothing
<1>3. Meeting(x, t, v, cl, Goes(ServerAt(x, v), new), way, sc)
  BY <1>2, ServerMoves
<1>4. Goes(ServerAt(x, v), << >>) = ServerAt(x, v)
  <2>1. v \in ServerStages
    OBVIOUS
  <2>2. QED
    BY <2>1, ServerFields
<1>5. QED
  BY <1>1, <1>3, <1>4

LEMMA ServerRefuses ==
    ASSUME NEW x, NEW u \in ServerStages, NEW t \in ClientStages,
           NEW sv, NEW cl, NEW sc, NEW cs,
           Meeting(x, t, u, cl, sv, cs, sc), Alive(sv), sv.out = << >>,
           ServerLeft(x, u) # << >>, ~Compatible(x),
           NEW way \in Seq(Said(x)), NEW why, NEW me, IsSide(me)
    PROVE  Meeting(x, t, u, cl, Failed(me, why), way, sc)
<1>1. PICK f : f = Failed(me, why)
  OBVIOUS
<1>2. IsSide(f) /\ ~Alive(f) /\ f.out = << >>
  BY <1>1, FailedFields
<1>3. f.out \in Seq(Said(x)) /\ ServerLeft(x, u) = f.out \o ServerLeft(x, u)
      /\ ServerLeft(x, u) \in Seq(Said(x))
  BY <1>2, StageLists, Nothing
<1>4. Meeting(x, t, u, cl, f, way, sc)
  BY <1>2, <1>3, ServerFails
<1>5. QED
  BY <1>1, <1>4

(* What is left to say is not nothing before the last word. *)
LEMMA LeftToSay ==
    ASSUME NEW x
    PROVE  /\ \A t \in ClientStages \ {"ccs", "finished", "ok"} : ClientLeft(x, t) # << >>
           /\ \A u \in ServerStages \ {"storing", "ok"} : ServerLeft(x, u) # << >>
  BY ClientLeftEmpty, ServerLeftEmpty

-----------------------------------------------------------------------------
(* The steps of the client.  It reads at the stage it is at. *)
LEMMA ClientListening ==
    ASSUME HandshakeInv, NEW stage, stage # "failed", ClientReads(stage)
    PROVE  \E x \in Cases, t \in ClientStages, u \in ServerStages :
              /\ x = case /\ t = stage /\ t # "lost"
              /\ Meeting(x, t, u, client, server, c2s, s2c)
              /\ client = ClientAt(x, t) /\ ClientPassed(x, t) /\ IsSide(client)
              /\ Alive(client) /\ client.out = << >> /\ s2c # << >> /\ s2c' = Tail(s2c)
<1>1. PICK t \in ClientStages, u \in ServerStages :
         Meeting(case, t, u, client, server, c2s, s2c)
  BY DEF HandshakeInv, Met
<1>2. PICK x \in Cases : x = case
  BY DEF HandshakeInv
<1>3. /\ client.stage = stage /\ client.out = << >> /\ s2c # << >> /\ s2c' = Tail(s2c)
      /\ Alive(client)
  BY DEF ClientReads, Alive
<1>4. Meeting(x, t, u, client, server, c2s, s2c)
  BY <1>1, <1>2
<1>5. /\ client = ClientAt(x, t) /\ ClientPassed(x, t) /\ IsSide(client)
      /\ client.stage = (IF t = "lost" THEN "done" ELSE t)
  BY <1>3, <1>4, ClientStage
<1>6. t # "lost"
  BY <1>3, <1>4 DEF Meeting
<1>7. QED
  BY <1>2, <1>3, <1>4, <1>5, <1>6

LEMMA ReadServerHelloStep ==
    ASSUME HandshakeInv, ReadServerHello
    PROVE  HandshakeInv'
<1>0. ClientReads("hello") /\ case' = case /\ server' = server /\ c2s' = c2s
  BY DEF ReadServerHello
<1>1. PICK x \in Cases, t \in ClientStages, u \in ServerStages :
         /\ x = case /\ t = "hello" /\ t # "lost"
         /\ Meeting(x, t, u, client, server, c2s, s2c)
         /\ client = ClientAt(x, t) /\ ClientPassed(x, t) /\ IsSide(client)
         /\ Alive(client) /\ client.out = << >> /\ s2c # << >> /\ s2c' = Tail(s2c)
  BY <1>0, ClientListening
<1>2. /\ Head(s2c) = SHello(x) /\ Tail(s2c) \in Seq(Said(x))
      /\ ServerSays(x, "cert", u, server, Tail(s2c))
  <2>1. ClientHears(x, t) = Then(SHello(x), ClientHears(x, "cert")) /\ SHello(x) \in Said(x)
    BY <1>1, ClientListens, Words
  <2>2. QED
    BY <1>1, <2>1, ClientReadsOne
<1>3. /\ SHello(x).type = "ServerHello" /\ SHello(x).body[1] = Chosen(x)
      /\ [Hears(client, SHello(x), "cert") EXCEPT !.suite = Chosen(x)] = ClientAt(x, "cert")
  BY <1>1, ClientToCert
<1>4. client' = IF SuiteFound(x) THEN ClientAt(x, "cert") ELSE Failed(client, "suite")
  <2>1. SuiteFound(x) <=> Chosen(x) \in Known
    BY ChosenKnown
  <2>2. QED
    BY <1>2, <1>3, <2>1 DEF ReadServerHello, Expects
<1>5. \E v \in ClientStages : Meeting(x, v, u, client', server, c2s, Tail(s2c))
  <2>1. CASE SuiteFound(x)
    <3>1. ClientLeft(x, t) = ClientLeft(x, "cert") /\ ClientPassed(x, "cert")
      BY <1>1, <2>1 DEF ClientLeft, ClientPassed
    <3>2. "cert" \in ClientStages \ {"start", "lost"}
      BY DEF ClientStages
    <3>3. Meeting(x, "cert", u, ClientAt(x, "cert"), server, c2s, Tail(s2c))
      BY <1>1, <1>2, <3>1, <3>2, ClientTurns
    <3>4. QED
      BY <1>4, <2>1, <3>2, <3>3
  <2>2. CASE ~SuiteFound(x)
    <3>1. ~Compatible(x) /\ ClientLeft(x, t) # << >>
      BY <1>1, <2>2, Incompatible, LeftToSay
    <3>2. Meeting(x, t, u, Failed(client, "suite"), server, c2s, Tail(s2c))
      BY <1>1, <1>2, <3>1, ClientRefuses
    <3>3. QED
      BY <1>4, <2>2, <3>2
  <2>3. QED
    BY <2>1, <2>2
<1>6. QED
  BY <1>0, <1>1, <1>5 DEF HandshakeInv, Met

LEMMA ReadServerCertificateStep ==
    ASSUME HandshakeInv, ReadServerCertificate
    PROVE  HandshakeInv'
<1>0. ClientReads("cert") /\ case' = case /\ server' = server /\ c2s' = c2s
  BY DEF ReadServerCertificate
<1>1. PICK x \in Cases, t \in ClientStages, u \in ServerStages :
         /\ x = case /\ t = "cert" /\ t # "lost"
         /\ Meeting(x, t, u, client, server, c2s, s2c)
         /\ client = ClientAt(x, t) /\ ClientPassed(x, t) /\ IsSide(client)
         /\ Alive(client) /\ client.out = << >> /\ s2c # << >> /\ s2c' = Tail(s2c)
  BY <1>0, ClientListening
<1>2. PICK v \in ClientStages \ {"start", "lost"} :
         v = (IF KeyEx(x) = "Ibsdh" THEN "request" ELSE "ske")
  BY DEF ClientStages
<1>3. /\ Head(s2c) = SCerts(x) /\ Tail(s2c) \in Seq(Said(x))
      /\ ServerSays(x, v, u, server, Tail(s2c))
  <2>1. ClientHears(x, t) = Then(SCerts(x), ClientHears(x, v)) /\ SCerts(x) \in Said(x)
    BY <1>1, <1>2, ClientListens, Words DEF Deferring
  <2>2. QED
    BY <1>1, <2>1, ClientReadsOne
<1>4. PICK pair : pair = CPair(x)
  OBVIOUS
<1>5. /\ SCerts(x).type = "Certificate" /\ Kx(client) = KeyEx(x)
      /\ from_certificate_message(SCerts(x).body) = pair
      /\ [Hears(client, SCerts(x), v) EXCEPT !.pair = pair] = ClientAt(x, v)
  BY <1>1, <1>2, <1>4, ClientToSke
<1>6. PICK verdict : verdict = ServerCertificateVerdict(x.c, KeyEx(x), pair)
  OBVIOUS
<1>7. client' = IF verdict = "ok" THEN ClientAt(x, v) ELSE Failed(client, verdict)
  BY <1>1, <1>2, <1>3, <1>5, <1>6 DEF ReadServerCertificate, Expects
<1>8. \E w \in ClientStages : Meeting(x, w, u, client', server, c2s, Tail(s2c))
  <2>1. CASE verdict = "ok"
    <3>1. CertsGood(x)
      BY <1>4, <1>6, <2>1 DEF CertsGood
    <3>2. ClientLeft(x, t) = ClientLeft(x, v) /\ ClientPassed(x, v)
      BY <1>1, <1>2, <3>1 DEF ClientLeft, ClientPassed, Deferring, SkeGood
    <3>3. Meeting(x, v, u, ClientAt(x, v), server, c2s, Tail(s2c))
      BY <1>1, <1>3, <3>2, ClientTurns
    <3>4. QED
      BY <1>7, <2>1, <3>3
  <2>2. CASE verdict # "ok"
    <3>1. ~Compatible(x) /\ ClientLeft(x, t) # << >>
      BY <1>1, <1>4, <1>6, <2>2, Incompatible, LeftToSay DEF CertsGood
    <3>2. Meeting(x, t, u, Failed(client, verdict), server, c2s, Tail(s2c))
      BY <1>1, <1>3, <3>1, ClientRefuses
    <3>3. QED
      BY <1>7, <2>2, <3>2
  <2>3. QED
    BY <2>1, <2>2
<1>9. QED
  BY <1>0, <1>1, <1>8 DEF HandshakeInv, Met

LEMMA ReadServerKeyExchangeStep ==
    ASSUME HandshakeInv, ReadServerKeyExchange
    PROVE  HandshakeInv'
<1>0. ClientReads("ske") /\ case' = case /\ server' = server /\ c2s' = c2s
  BY DEF ReadServerKeyExchange
<1>1. PICK x \in Cases, t \in ClientStages, u \in ServerStages :
         /\ x = case /\ t = "ske" /\ t # "lost"
         /\ Meeting(x, t, u, client, server, c2s, s2c)
         /\ client = ClientAt(x, t) /\ ClientPassed(x, t) /\ IsSide(client)
         /\ Alive(client) /\ client.out = << >> /\ s2c # << >> /\ s2c' = Tail(s2c)
  BY <1>0, ClientListening
<1>2. ~Deferring(x)
  BY <1>1 DEF ClientPassed
<1>3. /\ Head(s2c) = Ske(x) /\ Tail(s2c) \in Seq(Said(x))
      /\ ServerSays(x, "request", u, server, Tail(s2c))
  <2>1. ClientHears(x, t) = Then(Ske(x), ClientHears(x, "request")) /\ Ske(x) \in Said(x)
    BY <1>1, <1>2, ClientListens, Words
  <2>2. QED
    BY <1>1, <2>1, ClientReadsOne
<1>4. PICK body : body = SkeBody(x)
  OBVIOUS
<1>5. /\ Ske(x).type = "ServerKeyExchange" /\ Ske(x).body = body
      /\ Kx(client) = KeyEx(x) /\ client.pair = CPair(x)
      /\ [Hears(client, Ske(x), "request") EXCEPT !.ske = body] = ClientAt(x, "request")
  BY <1>1, <1>2, <1>4, ClientToRequest
<1>6. PICK verdict : verdict = SkeVerdict(x.c, KeyEx(x), body, CPair(x).enc)
  OBVIOUS
<1>7. client' = IF verdict = "ok" THEN ClientAt(x, "request") ELSE Failed(client, verdict)
  BY <1>1, <1>3, <1>5, <1>6 DEF ReadServerKeyExchange, Expects
<1>8. \E w \in ClientStages : Meeting(x, w, u, client', server, c2s, Tail(s2c))
  <2>1. CASE verdict = "ok"
    <3>1. SkeGood(x)
      BY <1>4, <1>6, <2>1 DEF SkeGood
    <3>2. ClientLeft(x, t) = ClientLeft(x, "request") /\ ClientPassed(x, "request")
      BY <1>1, <3>1 DEF ClientLeft, ClientPassed
    <3>3. "request" \in ClientStages \ {"start", "lost"}
      BY DEF ClientStages
    <3>4. Meeting(x, "request", u, ClientAt(x, "request"), server, c2s, Tail(s2c))
      BY <1>1, <1>3, <3>2, <3>3, ClientTurns
    <3>5. QED
      BY <1>7, <2>1, <3>3, <3>4
  <2>2. CASE verdict # "ok"
    <3>1. ~Compatible(x) /\ ClientLeft(x, t) # << >>
      BY <1>1, <1>2, <1>4, <1>6, <2>2, Incompatible, LeftToSay DEF SkeGood
    <3>2. Meeting(x, t, u, Failed(client, verdict), server, c2s, Tail(s2c))
      BY <1>1, <1>3, <3>1, ClientRefuses
    <3>3. QED
      BY <1>7, <2>2, <3>2
  <2>3. QED
    BY <2>1, <2>2
<1>9. QED
  BY <1>0, <1>1, <1>8 DEF HandshakeInv, Met

(* The client's flight, from either of the stages it is made at. *)
FlightStage(x) == IF Deferring(x) THEN "deferred" ELSE "ccs"

LEMMA FlightMeets ==
    ASSUME NEW x \in Cases, NEW t \in {"request", "done"}, NEW u \in ServerStages,
           NEW cl, NEW sv, NEW cs, NEW sc,
           Meeting(x, t, u, cl, sv, cs, sc), Alive(cl), cl.out = << >>,
           ClientPassed(x, t),
           NEW way \in Seq(Said(x)), ServerSays(x, FlightStage(x), u, sv, way)
    PROVE  \E v \in ClientStages :
              Meeting(x, v, u, ClientFlight(x.c, InFlight(x)), sv, cs, way)
<1>1. PICK f : f = ClientFlight(x.c, InFlight(x))
  OBVIOUS
<1>2. t \in ClientStages /\ ClientLeft(x, t) = ServerHearsCert(x)
  BY DEF ClientStages, ClientLeft
<1>3. IsSide(InFlight(x))
  BY SideFields DEF InFlight, Answered
<1>4. CASE Asking(x) /\ x.c.certs = << >>
  <2>1. f = Failed(InFlight(x), "config") /\ ~CkeMade(x)
    BY <1>1, <1>4, ClientFlies DEF CkeMade
  <2>2. ~Compatible(x) /\ ClientLeft(x, t) # << >>
    BY <1>2, <2>1, Incompatible, ClientSpeech
  <2>3. Meeting(x, t, u, Failed(InFlight(x), "config"), sv, cs, way)
    BY <1>2, <1>3, <2>2, ClientRefuses
  <2>4. QED
    BY <1>1, <1>2, <2>1, <2>3
<1>5. CASE ~(Asking(x) /\ x.c.certs = << >>) /\ ~CkeMade(x)
  <2>1. f = Goes(Failed(InFlight(x), "config"), CertsOut(x))
    BY <1>1, <1>5, ClientFlies
  <2>2. IsSide(f) /\ ~Alive(f) /\ f.out = CertsOut(x)
    BY <1>3, <2>1, FailedFields
  <2>3. /\ f.out \in Seq(Said(x)) /\ ClientLeft(x, t) = f.out \o ServerHearsCke(x)
        /\ ServerHearsCke(x) \in Seq(Said(x)) /\ ServerHearsCke(x) # << >>
    BY <1>2, <2>2, ClientSpeech, HeardLists
  <2>4. ~Compatible(x)
    BY <1>5, Incompatible
  <2>5. Meeting(x, t, u, f, sv, cs, way)
    BY <1>2, <2>2, <2>3, <2>4, ClientFails
  <2>6. QED
    BY <1>1, <1>2, <2>5
<1>6. CASE CkeMade(x) /\ Deferring(x)
  <2>1. PICK v \in ClientStages \ {"start", "lost"} : v = "deferred"
    BY DEF ClientStages
  <2>2. f = Goes(ClientAt(x, v), KeyOut(x)) /\ FlightStage(x) = v
    BY <1>1, <1>6, <2>1, ClientFlies DEF FlightStage
  <2>3. ClientLeft(x, v) = ServerHearsVerify(x)
    BY <2>1 DEF ClientLeft
  <2>4. KeyOut(x) \in Seq(Said(x)) /\ ClientLeft(x, t) = KeyOut(x) \o ClientLeft(x, v)
    BY <1>2, <2>3, ClientSpeech
  <2>5. ~Asking(x)
    BY <1>6 DEF Asking, Deferring
  <2>6. ClientPassed(x, v)
    BY <1>6, <2>1, <2>5 DEF ClientPassed, KeyLoads
  <2>7. Meeting(x, v, u, Goes(ClientAt(x, v), KeyOut(x)), sv, cs, way)
    BY <1>2, <2>2, <2>4, <2>6, ClientMoves
  <2>8. QED
    BY <1>1, <2>2, <2>7
<1>7. CASE CkeMade(x) /\ ~Deferring(x)
  <2>1. PICK v \in ClientStages \ {"start", "lost"} : v = "ccs"
    BY DEF ClientStages
  <2>2. PICK me : me = Keyed(x, "done", CPms(x), TDeferred(x))
    OBVIOUS
  <2>3. f = ClientEnd(x.c, me, KeyOut(x)) /\ FlightStage(x) = v
    BY <1>1, <1>7, <2>1, <2>2, ClientFlies DEF FlightStage
  <2>4. CASE KeyLoads(x)
    <3>1. PICK new : new = (KeyOut(x) \o CVerify(x)) \o <<ChangeCipherSpec, CFinished(x)>>
      OBVIOUS
    <3>2. f = Goes(ClientAt(x, v), new)
      BY <2>1, <2>2, <2>3, <2>4, <3>1, ClientEnds
    <3>3. ServerHearsCert(x) = new /\ new \in Seq(Said(x))
      BY <3>1, ClientSpeech, HeardLists
    <3>4. ClientLeft(x, v) = << >>
      BY <2>1 DEF ClientLeft
    <3>5. ClientLeft(x, t) = new \o ClientLeft(x, v)
      BY <1>2, <3>3, <3>4, Nothing
    <3>6. ClientPassed(x, v)
      BY <1>7, <2>1, <2>4 DEF ClientPassed, DeferredGood
    <3>7. Meeting(x, v, u, Goes(ClientAt(x, v), new), sv, cs, way)
      BY <1>2, <2>3, <3>3, <3>5, <3>6, ClientMoves
    <3>8. QED
      BY <1>1, <3>2, <3>7
  <2>5. CASE ~KeyLoads(x)
    <3>1. f = Goes(Failed(me, "config"), KeyOut(x))
      BY <2>2, <2>3, <2>5, ClientEnds
    <3>2. IsSide(me)
      BY <2>2, KeyedFields
    <3>3. IsSide(f) /\ ~Alive(f) /\ f.out = KeyOut(x)
      BY <3>1, <3>2, FailedFields
    <3>4. /\ f.out \in Seq(Said(x)) /\ ClientLeft(x, t) = f.out \o ServerHearsVerify(x)
          /\ ServerHearsVerify(x) \in Seq(Said(x)) /\ ServerHearsVerify(x) # << >>
      BY <1>2, <3>3, ClientSpeech, HeardLists
    <3>5. ~Compatible(x)
      BY <2>5, Incompatible
    <3>6. Meeting(x, t, u, f, sv, cs, way)
      BY <1>2, <3>3, <3>4, <3>5, ClientFails
    <3>7. QED
      BY <1>1, <1>2, <3>6
  <2>6. QED
    BY <2>4, <2>5
<1>8. QED
  BY <1>4, <1>5, <1>6, <1>7

LEMMA FlightHears ==
    ASSUME NEW x
    PROVE  /\ ClientHearsDone(x) = Then(ServerHelloDone, ClientHears(x, FlightStage(x)))
  BY ClientListens DEF FlightStage

LEMMA ReadRequestOrDoneStep ==
    ASSUME HandshakeInv, ReadRequestOrDone
    PROVE  HandshakeInv'
<1>0. ClientReads("request") /\ case' = case /\ server' = server /\ c2s' = c2s
  BY DEF ReadRequestOrDone
<1>1. PICK x \in Cases, t \in ClientStages, u \in ServerStages :
         /\ x = case /\ t = "request" /\ t # "lost"
         /\ Meeting(x, t, u, client, server, c2s, s2c)
         /\ client = ClientAt(x, t) /\ ClientPassed(x, t) /\ IsSide(client)
         /\ Alive(client) /\ client.out = << >> /\ s2c # << >> /\ s2c' = Tail(s2c)
  BY <1>0, ClientListening
<1>2. CASE Asking(x)
  <2>1. /\ Head(s2c) = CertificateRequest /\ Tail(s2c) \in Seq(Said(x))
        /\ ServerSays(x, "done", u, server, Tail(s2c))
    <3>1. /\ ClientHears(x, t) = Then(CertificateRequest, ClientHears(x, "done"))
          /\ CertificateRequest \in Said(x)
      BY <1>1, <1>2, ClientListens, Words
    <3>2. QED
      BY <1>1, <3>1, ClientReadsOne
  <2>2. /\ CertificateRequest.type = "CertificateRequest"
        /\ [Hears(client, CertificateRequest, "done") EXCEPT !.asked = WasAsked]
              = ClientAt(x, "done")
    BY <1>1, <1>2, ClientToFlight
  <2>3. client' = [Hears(client, CertificateRequest, "done") EXCEPT !.asked = WasAsked]
    BY <2>1, <2>2 DEF ReadRequestOrDone, WasAsked
  <2>4. ClientLeft(x, t) = ClientLeft(x, "done") /\ ClientPassed(x, "done")
    BY <1>1, <1>2 DEF ClientLeft, ClientPassed
  <2>5. "done" \in ClientStages \ {"start", "lost"}
    BY DEF ClientStages
  <2>6. Meeting(x, "done", u, ClientAt(x, "done"), server, c2s, Tail(s2c))
    BY <1>1, <2>1, <2>4, <2>5, ClientTurns
  <2>7. Meeting(x, "done", u, client', server, c2s, Tail(s2c))
    BY <2>2, <2>3, <2>6
  <2>8. QED
    BY <1>0, <1>1, <2>5, <2>7 DEF HandshakeInv, Met
<1>3. CASE ~Asking(x)
  <2>1. /\ Head(s2c) = ServerHelloDone /\ Tail(s2c) \in Seq(Said(x))
        /\ ServerSays(x, FlightStage(x), u, server, Tail(s2c))
    <3>1. /\ ClientHears(x, t) = Then(ServerHelloDone, ClientHears(x, FlightStage(x)))
          /\ ServerHelloDone \in Said(x)
      BY <1>1, <1>3, ClientListens, FlightHears, Words
    <3>2. QED
      BY <1>1, <3>1, ClientReadsOne
  <2>2. /\ ServerHelloDone.type = "ServerHelloDone"
        /\ Hears(client, ServerHelloDone, "done") = InFlight(x)
    BY <1>1, <1>3, ClientToFlight
  <2>3. client' = ClientFlight(x.c, InFlight(x))
    BY <1>1, <2>1, <2>2 DEF ReadRequestOrDone
  <2>4. \E v \in ClientStages :
            Meeting(x, v, u, ClientFlight(x.c, InFlight(x)), server, c2s, Tail(s2c))
    BY <1>1, <2>1, FlightMeets
  <2>5. QED
    BY <1>0, <1>1, <2>3, <2>4 DEF HandshakeInv, Met
<1>4. QED
  BY <1>2, <1>3

LEMMA ReadServerHelloDoneStep ==
    ASSUME HandshakeInv, ReadServerHelloDone
    PROVE  HandshakeInv'
<1>0. ClientReads("done") /\ case' = case /\ server' = server /\ c2s' = c2s
  BY DEF ReadServerHelloDone
<1>1. PICK x \in Cases, t \in ClientStages, u \in ServerStages :
         /\ x = case /\ t = "done" /\ t # "lost"
         /\ Meeting(x, t, u, client, server, c2s, s2c)
         /\ client = ClientAt(x, t) /\ ClientPassed(x, t) /\ IsSide(client)
         /\ Alive(client) /\ client.out = << >> /\ s2c # << >> /\ s2c' = Tail(s2c)
  BY <1>0, ClientListening
<1>2. Asking(x)
  BY <1>1 DEF ClientPassed
<1>3. /\ Head(s2c) = ServerHelloDone /\ Tail(s2c) \in Seq(Said(x))
      /\ ServerSays(x, FlightStage(x), u, server, Tail(s2c))
  <2>1. /\ ClientHears(x, t) = Then(ServerHelloDone, ClientHears(x, FlightStage(x)))
        /\ ServerHelloDone \in Said(x)
    BY <1>1, <1>2, ClientListens, FlightHears, Words
  <2>2. QED
    BY <1>1, <2>1, ClientReadsOne
<1>4. /\ ServerHelloDone.type = "ServerHelloDone"
      /\ Hears(client, ServerHelloDone, "done") = InFlight(x)
  BY <1>1, <1>2, ClientToFlight
<1>5. client' = ClientFlight(x.c, InFlight(x))
  BY <1>1, <1>3, <1>4 DEF ReadServerHelloDone
<1>6. \E v \in ClientStages :
          Meeting(x, v, u, ClientFlight(x.c, InFlight(x)), server, c2s, Tail(s2c))
  BY <1>1, <1>3, FlightMeets
<1>7. QED
  BY <1>0, <1>1, <1>5, <1>6 DEF HandshakeInv, Met

LEMMA ReadDeferredStep ==
    ASSUME HandshakeInv, ReadDeferredKeyExchange
    PROVE  HandshakeInv'
<1>0. ClientReads("deferred") /\ case' = case /\ server' = server /\ c2s' = c2s
  BY DEF ReadDeferredKeyExchange
<1>1. PICK x \in Cases, t \in ClientStages, u \in ServerStages :
         /\ x = case /\ t = "deferred" /\ t # "lost"
         /\ Meeting(x, t, u, client, server, c2s, s2c)
         /\ client = ClientAt(x, t) /\ ClientPassed(x, t) /\ IsSide(client)
         /\ Alive(client) /\ client.out = << >> /\ s2c # << >> /\ s2c' = Tail(s2c)
  BY <1>0, ClientListening
<1>2. Deferring(x) /\ KeyLoads(x)
  BY <1>1 DEF ClientPassed
<1>3. PICK v \in ClientStages \ {"start", "lost"} : v = "ccs"
  BY DEF ClientStages
<1>4. /\ Head(s2c) = DSke(x) /\ Tail(s2c) \in Seq(Said(x))
      /\ ServerSays(x, v, u, server, Tail(s2c))
  <2>1. ClientHears(x, t) = Then(DSke(x), ClientHears(x, v)) /\ DSke(x) \in Said(x)
    BY <1>1, <1>2, <1>3, ClientListens, Words
  <2>2. QED
    BY <1>1, <2>1, ClientReadsOne
<1>5. PICK me : me = Keyed(x, "deferred", CPms(x), TDeferred(x))
  OBVIOUS
<1>6. /\ cke_from_body(client.ra) = Payload(x) /\ DSke(x).type = "ServerKeyExchange"
      /\ [Hears(client, DSke(x), "deferred")
            EXCEPT !.pms = AgreedPms(x.c, Payload(x), DSke(x).body)] = me
  BY <1>1, <1>2, <1>5, ClientDefers
<1>7. PICK verdict : verdict = DeferredVerdict(x.c, Payload(x), DSke(x).body)
  OBVIOUS
<1>8. client' = IF verdict # "ok" THEN Failed(client, verdict)
                ELSE ClientEnd(x.c, me, << >>)
  BY <1>1, <1>4, <1>6, <1>7 DEF ReadDeferredKeyExchange, Expects
<1>9. CASE verdict = "ok"
  <2>1. PICK new : new = (<< >> \o CVerify(x)) \o <<ChangeCipherSpec, CFinished(x)>>
    OBVIOUS
  <2>2. PICK out : out = << >>
    OBVIOUS
  <2>3. ClientEnd(x.c, me, out) = Goes(ClientAt(x, v), (out \o CVerify(x)) \o <<ChangeCipherSpec, CFinished(x)>>)
    BY <1>2, <1>3, <1>5, ClientEnds
  <2>4. client' = Goes(ClientAt(x, v), new)
    BY <1>8, <1>9, <2>1, <2>2, <2>3
  <2>5. ClientLeft(x, t) = ServerHearsVerify(x) /\ ClientLeft(x, v) = << >>
    BY <1>1, <1>3 DEF ClientLeft
  <2>6. new \in Seq(Said(x)) /\ ServerHearsVerify(x) = new
    BY <2>1, ClientSpeech, HeardLists
  <2>7. ClientLeft(x, t) = new \o ClientLeft(x, v)
    BY <2>5, <2>6, Nothing
  <2>8. DeferredGood(x)
    BY <1>7, <1>9 DEF DeferredGood
  <2>9. ClientPassed(x, v)
    BY <1>1, <1>3, <2>8 DEF ClientPassed
  <2>10. Meeting(x, v, u, Goes(ClientAt(x, v), new), server, c2s, Tail(s2c))
    BY <1>1, <1>4, <2>6, <2>7, <2>9, ClientMoves
  <2>11. v \in ClientStages
    OBVIOUS
  <2>12. QED
    BY <1>0, <1>1, <2>4, <2>10, <2>11 DEF HandshakeInv, Met
<1>10. CASE verdict # "ok"
  <2>1. ~Compatible(x) /\ ClientLeft(x, t) # << >>
    BY <1>1, <1>2, <1>7, <1>10, Incompatible, LeftToSay DEF DeferredGood
  <2>2. Meeting(x, t, u, Failed(client, verdict), server, c2s, Tail(s2c))
    BY <1>1, <1>4, <2>1, ClientRefuses
  <2>3. QED
    BY <1>0, <1>1, <1>8, <1>10, <2>2 DEF HandshakeInv, Met
<1>11. QED
  BY <1>9, <1>10

LEMMA ReadServerCcsStep ==
    ASSUME HandshakeInv, ReadServerCcs
    PROVE  HandshakeInv'
<1>0. ClientReads("ccs") /\ case' = case /\ server' = server /\ c2s' = c2s
  BY DEF ReadServerCcs
<1>1. PICK x \in Cases, t \in ClientStages, u \in ServerStages :
         /\ x = case /\ t = "ccs" /\ t # "lost"
         /\ Meeting(x, t, u, client, server, c2s, s2c)
         /\ client = ClientAt(x, t) /\ ClientPassed(x, t) /\ IsSide(client)
         /\ Alive(client) /\ client.out = << >> /\ s2c # << >> /\ s2c' = Tail(s2c)
  BY <1>0, ClientListening
<1>2. PICK v \in ClientStages \ {"start", "lost"} : v = "finished"
  BY DEF ClientStages
<1>3. Tail(s2c) \in Seq(Said(x)) /\ ServerSays(x, v, u, server, Tail(s2c))
  <2>1. /\ ClientHears(x, t) = Then(ChangeCipherSpec, ClientHears(x, v))
        /\ ChangeCipherSpec \in Said(x)
    BY <1>1, <1>2, ClientListens, Words
  <2>2. QED
    BY <1>1, <2>1, ClientReadsOne
<1>4. client' = ClientAt(x, v)
  BY <1>1, <1>2, ClientToEnd DEF ReadServerCcs
<1>5. ClientLeft(x, t) = ClientLeft(x, v) /\ ClientPassed(x, v)
  BY <1>1, <1>2 DEF ClientLeft, ClientPassed
<1>6. Meeting(x, v, u, ClientAt(x, v), server, c2s, Tail(s2c))
  BY <1>1, <1>3, <1>5, ClientTurns
<1>7. v \in ClientStages
  OBVIOUS
<1>8. QED
  BY <1>0, <1>1, <1>4, <1>6, <1>7 DEF HandshakeInv, Met


(* All of the server's messages are there only once it has found the       *)
(* client's Finished in order, and the other way round.                    *)
LEMMA ServerDone ==
    ASSUME NEW x, NEW t \in ClientStages, NEW u \in ServerStages,
           NEW cl, NEW sv, NEW cs, NEW sc, Meeting(x, t, u, cl, sv, cs, sc),
           NEW way \in Seq(Said(x)), ServerSays(x, "ok", u, sv, way)
    PROVE  /\ ServerPassed(x, "storing") /\ sv.out = << >>
           /\ Alive(sv) => u \in {"storing", "ok"} /\ ServerIs(x, sv, u)
           /\ ~Alive(sv) => ServerSpent(x, sv)
<1>1. PICK left \in Seq(Said(x)) :
         /\ Flow(way, sv.out, left) = ClientHears(x, "ok")
         /\ Alive(sv) => left = ServerLeft(x, u)
         /\ ~Alive(sv) /\ left = << >> => ServerSpent(x, sv)
  BY DEF ServerSays
<1>2. sv.out \in Seq(Said(x))
  BY DEF Meeting, Typed
<1>3. PICK q \in Seq(Said(x)) : q = way \o sv.out
  <2>1. PICK S : S = Said(x)
    OBVIOUS
  <2>2. PICK r \in Seq(S) : r = sv.out
    BY <1>2, <2>1
  <2>3. way \in Seq(S)
    BY <1>2, <2>1
  <2>4. way \o r \in Seq(S)
    BY <2>2, <2>3
  <2>5. QED
    BY <2>1, <2>2, <2>4
<1>4. q \o left = << >>
  BY <1>1, <1>3 DEF ClientHears, Flow
<1>5. left = << >> /\ q = << >>
  BY <1>4, NothingLeft
<1>6. sv.out = << >>
  BY <1>2, <1>3, <1>5, NothingLeft
<1>7. ASSUME Alive(sv) PROVE u \in {"storing", "ok"} /\ ServerIs(x, sv, u) /\ ServerPassed(x, "storing")
  <2>1. ServerLeft(x, u) = << >>
    BY <1>1, <1>5, <1>7
  <2>2. u \in {"storing", "ok"}
    BY <2>1, ServerLeftEmpty
  <2>3. ServerIs(x, sv, u)
    BY <1>7 DEF Meeting
  <2>4. ServerPassed(x, u)
    BY <2>3 DEF ServerIs
  <2>5. QED
    BY <2>2, <2>3, <2>4 DEF ServerPassed
<1>8. ASSUME ~Alive(sv) PROVE ServerSpent(x, sv) /\ ServerPassed(x, "storing")
  BY <1>1, <1>5, <1>8 DEF ServerSpent
<1>9. QED
  BY <1>6, <1>7, <1>8

LEMMA ClientDone ==
    ASSUME NEW x, NEW t \in ClientStages, NEW u \in ServerStages,
           NEW cl, NEW sv, NEW cs, NEW sc, Meeting(x, t, u, cl, sv, cs, sc),
           u = "ok", Alive(sv)
    PROVE  ClientPassed(x, "ccs") /\ (~Alive(cl) => ClientSpent(x, cl))
<1>1. PICK left \in Seq(Said(x)) :
         /\ Flow(cs, cl.out, left) = ServerHears(x, u)
         /\ Alive(cl) => left = ClientLeft(x, t)
         /\ ~Alive(cl) /\ left = << >> => ClientSpent(x, cl)
  BY DEF Meeting, ClientSays
<1>2. cl.out \in Seq(Said(x)) /\ cs \in Seq(Said(x))
  BY DEF Meeting, Typed
<1>3. PICK q \in Seq(Said(x)) : q = cs \o cl.out
  <2>1. PICK S : S = Said(x)
    OBVIOUS
  <2>2. PICK r \in Seq(S) : r = cl.out
    BY <1>2, <2>1
  <2>3. cs \in Seq(S)
    BY <1>2, <2>1
  <2>4. cs \o r \in Seq(S)
    BY <2>2, <2>3
  <2>5. QED
    BY <2>1, <2>2, <2>4
<1>4. q \o left = << >>
  BY <1>1, <1>3 DEF ServerHears, Flow
<1>5. left = << >>
  BY <1>4, NothingLeft
<1>6. ASSUME Alive(cl) PROVE ClientPassed(x, "ccs")
  <2>1. ClientLeft(x, t) = << >>
    BY <1>1, <1>5, <1>6
  <2>2. t \in {"ccs", "finished", "ok"}
    BY <2>1, ClientLeftEmpty
  <2>3. ClientPassed(x, t)
    BY <1>6 DEF Meeting, ClientIs
  <2>4. QED
    BY <2>2, <2>3 DEF ClientPassed
<1>7. ASSUME ~Alive(cl) PROVE ClientSpent(x, cl) /\ ClientPassed(x, "ccs")
  BY <1>1, <1>5, <1>7 DEF ClientSpent
<1>8. QED
  BY <1>6, <1>7

LEMMA ReadServerFinishedStep ==
    ASSUME HandshakeInv, ReadServerFinished
    PROVE  HandshakeInv'
<1>0. ClientReads("finished") /\ case' = case /\ server' = server /\ c2s' = c2s
  BY DEF ReadServerFinished
<1>1. PICK x \in Cases, t \in ClientStages, u \in ServerStages :
         /\ x = case /\ t = "finished" /\ t # "lost"
         /\ Meeting(x, t, u, client, server, c2s, s2c)
         /\ client = ClientAt(x, t) /\ ClientPassed(x, t) /\ IsSide(client)
         /\ Alive(client) /\ client.out = << >> /\ s2c # << >> /\ s2c' = Tail(s2c)
  BY <1>0, ClientListening
<1>2. PICK v \in ClientStages \ {"start", "lost"} : v = "ok"
  BY DEF ClientStages
<1>3. /\ Head(s2c) = SFinished(x) /\ Tail(s2c) \in Seq(Said(x))
      /\ ServerSays(x, v, u, server, Tail(s2c))
  <2>1. ClientHears(x, t) = Then(SFinished(x), ClientHears(x, v)) /\ SFinished(x) \in Said(x)
    BY <1>1, <1>2, ClientListens, Words
  <2>2. QED
    BY <1>1, <2>1, ClientReadsOne
<1>4. ServerPassed(x, "storing")
  BY <1>1, <1>2, <1>3, ServerDone
<1>5. ServerFinishedGood(x)
  BY <1>4, FinishedMeans DEF ServerPassed
<1>6. FinishedVerdict(client, "server", SFinished(x)) = "ok"
  BY <1>1, <1>5 DEF ServerFinishedGood
<1>7. client' = ClientAt(x, v)
  BY <1>1, <1>2, <1>3, <1>6, ClientToEnd DEF ReadServerFinished
<1>8. ClientLeft(x, t) = ClientLeft(x, v) /\ ClientPassed(x, v)
  BY <1>1, <1>2, <1>5 DEF ClientLeft, ClientPassed
<1>9. Meeting(x, v, u, ClientAt(x, v), server, c2s, Tail(s2c))
  BY <1>1, <1>3, <1>8, ClientTurns
<1>10. v \in ClientStages
  OBVIOUS
<1>11. QED
  BY <1>0, <1>1, <1>7, <1>9, <1>10 DEF HandshakeInv, Met

LEMMA ConnectStep ==
    ASSUME HandshakeInv, Connect
    PROVE  HandshakeInv'
<1>0. /\ client.stage = "start" /\ case' = case /\ server' = server
      /\ c2s' = c2s /\ s2c' = s2c /\ Alive(client)
  BY DEF Connect, Alive
<1>1. PICK x \in Cases, t \in ClientStages, u \in ServerStages :
         x = case /\ Meeting(x, t, u, client, server, c2s, s2c)
  BY DEF HandshakeInv, Met
<1>2. t = "start" /\ client.out = << >>
  <2>1. PICK out : out = client.out
    OBVIOUS
  <2>2. client = Goes(ClientAt(x, t), out) /\ (t = "start" => out = << >>)
    BY <1>0, <1>1, <2>1 DEF Meeting, ClientIs
  <2>3. client.stage = (IF t = "lost" THEN "done" ELSE t)
    BY <2>2, ClientFields
  <2>4. QED
    BY <1>0, <2>1, <2>2, <2>3
<1>3. client = ClientAt(x, t) /\ ClientPassed(x, t) /\ IsSide(client)
  BY <1>0, <1>1, <1>2, ClientStage
<1>4. client = Idle
  BY <1>2, <1>3 DEF ClientAt
<1>5. s2c \in Seq(Said(x))
  BY <1>1 DEF Meeting, Typed
<1>6. PICK v \in ClientStages \ {"start", "lost"} : v = "hello"
  BY DEF ClientStages
<1>7. PICK new : new = <<CHello(x)>>
  OBVIOUS
<1>8. client' = IF PinGiven(x) THEN Goes(ClientAt(x, v), new) ELSE Failed(client, "config")
  <2>1. Hears(client, CHello(x), "hello") = ClientAt(x, v)
    BY <1>4, <1>6, ClientToHello
  <2>2. QED
    BY <1>1, <1>7, <2>1 DEF Connect, PinGiven, CHello
<1>9. CASE PinGiven(x)
  <2>1. new \in Seq(Said(x))
    BY <1>7, Words
  <2>2. ClientLeft(x, t) = new \o ClientLeft(x, v)
    <3>1. ClientLeft(x, t) = ServerHearsHello(x) /\ ClientLeft(x, v) = ServerHearsCert(x)
      BY <1>2, <1>6 DEF ClientLeft
    <3>2. QED
      BY <1>7, <3>1 DEF ServerHearsHello, Then
  <2>3. ClientPassed(x, v)
    BY <1>6, <1>9 DEF ClientPassed
  <2>4. ServerSays(x, v, u, server, s2c)
    <3>1. ServerSays(x, t, u, server, s2c)
      BY <1>0, <1>1, <1>2 DEF Meeting
    <3>2. ClientHears(x, t) = ClientHears(x, v)
      BY <1>2, <1>6 DEF ClientHears
    <3>3. QED
      BY <3>1, <3>2 DEF ServerSays
  <2>5. Meeting(x, v, u, Goes(ClientAt(x, v), new), server, c2s, s2c)
    BY <1>0, <1>1, <1>2, <1>5, <2>1, <2>2, <2>3, <2>4, ClientMoves
  <2>6. v \in ClientStages
    OBVIOUS
  <2>7. QED
    BY <1>0, <1>1, <1>8, <1>9, <2>5, <2>6 DEF HandshakeInv, Met
<1>10. CASE ~PinGiven(x)
  <2>1. ~Compatible(x) /\ ClientLeft(x, t) # << >>
    BY <1>2, <1>10, Incompatible, LeftToSay
  <2>2. Meeting(x, t, u, Failed(client, "config"), server, c2s, s2c)
    BY <1>0, <1>1, <1>2, <1>3, <1>5, <2>1, ClientRefuses
  <2>3. QED
    BY <1>0, <1>1, <1>8, <1>10, <2>2 DEF HandshakeInv, Met
<1>11. QED
  BY <1>9, <1>10

LEMMA ClientWritesStep ==
    ASSUME HandshakeInv, ClientWrites
    PROVE  HandshakeInv'
<1>1. PICK x \in Cases, t \in ClientStages, u \in ServerStages :
         x = case /\ Meeting(x, t, u, client, server, c2s, s2c)
  BY DEF HandshakeInv, Met
<1>2. client.out # << >> /\ case' = case /\ server' = server /\ s2c' = s2c
  BY DEF ClientWrites
<1>3. CASE client' = [client EXCEPT !.out = Tail(@)] /\ c2s' = Append(c2s, Head(client.out))
  <2>1. client' = Goes(client, Tail(client.out))
    BY <1>3 DEF Goes
  <2>2. Meeting(x, t, u, Goes(client, Tail(client.out)), server,
                Append(c2s, Head(client.out)), s2c)
    BY <1>1, <1>2, ClientWritesOne
  <2>3. QED
    BY <1>1, <1>2, <1>3, <2>1, <2>2 DEF HandshakeInv, Met
<1>4. CASE Gone(server) /\ client' = Failed(client, "Closed") /\ c2s' = c2s
  <2>1. Meeting(x, t, u, Failed(client, "Closed"), server, c2s, s2c)
    BY <1>1, <1>2, <1>4, ClientCloses
  <2>2. QED
    BY <1>1, <1>2, <1>4, <2>1 DEF HandshakeInv, Met
<1>5. QED
  BY <1>3, <1>4 DEF ClientWrites

LEMMA ClientEofStep ==
    ASSUME HandshakeInv, ClientEof
    PROVE  HandshakeInv'
<1>1. PICK x \in Cases, t \in ClientStages, u \in ServerStages :
         x = case /\ Meeting(x, t, u, client, server, c2s, s2c)
  BY DEF HandshakeInv, Met
<1>2. /\ client.stage \in Reading /\ client.out = << >> /\ s2c = << >> /\ Gone(server)
      /\ case' = case /\ server' = server /\ c2s' = c2s /\ s2c' = s2c
  BY DEF ClientEof
<1>3. Alive(client)
  BY <1>2 DEF Alive, Reading
<1>4. /\ client = ClientAt(x, t) /\ ClientPassed(x, t)
      /\ client.stage = (IF t = "lost" THEN "done" ELSE t)
  BY <1>1, <1>2, <1>3, ClientStage
<1>5. CASE client.stage = "request"
  <2>1. PICK v \in ClientStages : v = "lost"
    BY DEF ClientStages
  <2>2. t = "request"
    BY <1>4, <1>5
  <2>3. PICK c2 : c2 = ClientAt(x, v)
    OBVIOUS
  <2>4. client' = c2
    BY <1>4, <1>5, <2>1, <2>2, <2>3, ClientToFlight DEF ClientEof
  <2>5. PICK out : out = << >>
    OBVIOUS
  <2>6. LET he == Goes(ClientAt(x, v), out)
        IN  /\ IsSide(he) /\ he.out = out /\ he.why = None /\ Alive(he)
            /\ Goes(ClientAt(x, v), << >>) = ClientAt(x, v)
    BY ClientFields
  <2>7. /\ IsSide(c2) /\ c2.out = << >> /\ c2.why = None /\ Alive(c2)
        /\ c2 = Goes(ClientAt(x, v), c2.out)
    BY <2>3, <2>5, <2>6
  <2>8. client.why = None
    <3>1. client = Goes(ClientAt(x, t), client.out)
      BY <1>1, <1>3 DEF Meeting, ClientIs
    <3>2. QED
      BY <3>1, ClientFields
  <2>9. ~Alive(server)
    BY <1>2 DEF Gone, Alive
  <2>10. Typed(x, c2, c2s) /\ Typed(x, server, s2c)
    BY <1>1, <1>2, <2>7 DEF Meeting, Typed
  <2>11. Blamed(x, c2, server) /\ Blamed(x, server, c2)
    BY <1>1, <2>7, <2>8 DEF Meeting, Blamed
  <2>12. ClientIs(x, c2, v)
    <3>1. ClientPassed(x, v)
      BY <1>4, <2>1, <2>2 DEF ClientPassed
    <3>2. QED
      BY <2>1, <2>7, <3>1 DEF ClientIs
  <2>13. Meeting(x, v, u, c2, server, c2s, s2c)
    BY <1>2, <2>1, <2>7, <2>9, <2>10, <2>11, <2>12 DEF Meeting
  <2>14. QED
    BY <1>1, <1>2, <2>4, <2>13 DEF HandshakeInv, Met
<1>6. CASE client.stage # "request"
  <2>1. client' = Failed(client, "Closed")
    BY <1>6 DEF ClientEof
  <2>2. Meeting(x, t, u, Failed(client, "Closed"), server, c2s, s2c)
    BY <1>1, <1>2, <1>3, ClientCloses
  <2>3. QED
    BY <1>1, <1>2, <2>1, <2>2 DEF HandshakeInv, Met
<1>7. QED
  BY <1>5, <1>6

LEMMA ClientTimeoutStep ==
    ASSUME HandshakeInv, ClientTimeout
    PROVE  HandshakeInv'
<1>1. PICK x \in Cases, t \in ClientStages, u \in ServerStages :
         x = case /\ Meeting(x, t, u, client, server, c2s, s2c)
  BY DEF HandshakeInv, Met
<1>2. /\ Alive(client) /\ client' = Failed(client, "Timeout")
      /\ case' = case /\ server' = server /\ c2s' = c2s /\ s2c' = s2c
  BY DEF ClientTimeout, Alive, Reading
<1>3. Meeting(x, t, u, Failed(client, "Timeout"), server, c2s, s2c)
  BY <1>1, <1>2, ClientExpires
<1>4. QED
  BY <1>1, <1>2, <1>3 DEF HandshakeInv, Met

-----------------------------------------------------------------------------
(* The steps of the server. *)

LEMMA ServerListening ==
    ASSUME HandshakeInv, NEW stage, stage \notin {"failed", "ok"}, ServerReads(stage)
    PROVE  \E x \in Cases, t \in ClientStages, u \in ServerStages :
              /\ x = case /\ u = stage
              /\ Meeting(x, t, u, client, server, c2s, s2c)
              /\ server = ServerAt(x, u) /\ ServerPassed(x, u) /\ IsSide(server)
              /\ Alive(server) /\ server.out = << >> /\ c2s # << >> /\ c2s' = Tail(c2s)
<1>1. PICK t \in ClientStages, u \in ServerStages :
         Meeting(case, t, u, client, server, c2s, s2c)
  BY DEF HandshakeInv, Met
<1>2. PICK x \in Cases : x = case
  BY DEF HandshakeInv
<1>3. /\ server.stage = stage /\ server.out = << >> /\ c2s # << >> /\ c2s' = Tail(c2s)
      /\ Alive(server)
  BY DEF ServerReads, Alive
<1>4. Meeting(x, t, u, client, server, c2s, s2c)
  BY <1>1, <1>2
<1>5. /\ server = ServerAt(x, u) /\ ServerPassed(x, u) /\ IsSide(server)
      /\ server.stage = (IF u = "simulated" THEN "ok" ELSE u)
  BY <1>3, <1>4, ServerStage
<1>6. QED
  BY <1>2, <1>3, <1>4, <1>5

LEMMA AcceptStep ==
    ASSUME HandshakeInv, Accept
    PROVE  HandshakeInv'
<1>0. /\ server.stage = "start" /\ case' = case /\ client' = client
      /\ c2s' = c2s /\ s2c' = s2c /\ Alive(server)
  BY DEF Accept, Alive
<1>1. PICK x \in Cases, t \in ClientStages, u \in ServerStages :
         x = case /\ Meeting(x, t, u, client, server, c2s, s2c)
  BY DEF HandshakeInv, Met
<1>2. u = "start" /\ server.out = << >>
  <2>1. PICK out : out = server.out
    OBVIOUS
  <2>2. server = Goes(ServerAt(x, u), out) /\ (u = "start" => out = << >>)
    BY <1>0, <1>1, <2>1 DEF Meeting, ServerIs
  <2>3. server.stage = (IF u = "simulated" THEN "ok" ELSE u)
    BY <2>2, ServerFields
  <2>4. QED
    BY <1>0, <2>1, <2>2, <2>3
<1>3. server = ServerAt(x, u) /\ ServerPassed(x, u) /\ IsSide(server)
  BY <1>0, <1>1, <1>2, ServerStage
<1>4. server = Idle
  BY <1>2, <1>3 DEF ServerAt
<1>5. c2s \in Seq(Said(x))
  BY <1>1 DEF Meeting, Typed
<1>6. PICK v \in ServerStages \ {"start"} :
         v = IF HasCertificates(x.s) THEN "hello" ELSE "simulated"
  BY DEF ServerStages
<1>7. server' = ServerAt(x, v)
  BY <1>1, <1>4, <1>6, ServerToHello DEF Accept
<1>8. ServerLeft(x, u) = ServerLeft(x, v) /\ ServerPassed(x, v)
  BY <1>2, <1>6 DEF ServerLeft, ServerPassed
<1>9. ClientSays(x, t, v, client, c2s)
  <2>1. ClientSays(x, t, u, client, c2s)
    BY <1>0, <1>1 DEF Meeting
  <2>2. ServerHears(x, u) = ServerHears(x, v)
    BY <1>2, <1>6 DEF ServerHears
  <2>3. QED
    BY <2>1, <2>2 DEF ClientSays
<1>10. Meeting(x, t, v, client, ServerAt(x, v), c2s, s2c)
  BY <1>0, <1>1, <1>2, <1>5, <1>8, <1>9, ServerTurns
<1>11. v \in ServerStages
  OBVIOUS
<1>12. QED
  BY <1>0, <1>1, <1>7, <1>10, <1>11 DEF HandshakeInv, Met

LEMMA ReadClientHelloStep ==
    ASSUME HandshakeInv, ReadClientHello
    PROVE  HandshakeInv'
<1>0. ServerReads("hello") /\ case' = case /\ client' = client /\ s2c' = s2c
  BY DEF ReadClientHello
<1>1. PICK x \in Cases, t \in ClientStages, u \in ServerStages :
         /\ x = case /\ u = "hello"
         /\ Meeting(x, t, u, client, server, c2s, s2c)
         /\ server = ServerAt(x, u) /\ ServerPassed(x, u) /\ IsSide(server)
         /\ Alive(server) /\ server.out = << >> /\ c2s # << >> /\ c2s' = Tail(c2s)
  BY <1>0, ServerListening
<1>2. PICK v \in ServerStages \ {"start"} : v = AnswerStage(x)
  BY DEF ServerStages, AnswerStage
<1>3. /\ Head(c2s) = CHello(x) /\ Tail(c2s) \in Seq(Said(x))
      /\ ClientSays(x, t, v, client, Tail(c2s))
  <2>1. ServerHears(x, u) = Then(CHello(x), ServerHears(x, v)) /\ CHello(x) \in Said(x)
    BY <1>1, <1>2, ServerListens, Words
  <2>2. QED
    BY <1>1, <2>1, ServerReadsOne
<1>4. Selected(CHello(x).body) = Chosen(x)
  BY ServerToAnswer DEF Chosen
<1>5. LET me == [Hears(server, CHello(x), "hello") EXCEPT !.suite = Chosen(x)]
      IN  [me EXCEPT !.pair = ServerPair(x.s, Kx(me))] = SideHello(x)
  BY <1>1, ServerToAnswer
<1>6. server' = IF Chosen(x) = None THEN Failed(server, "suite")
                ELSE Answer(x.s, SideHello(x))
  BY <1>1, <1>3, <1>4, <1>5 DEF ReadClientHello
<1>7. ServerLeft(x, u) = ClientHearsHello(x)
  BY <1>1 DEF ServerLeft
<1>8. CASE ~SuiteFound(x)
  <2>1. ~Compatible(x) /\ ServerLeft(x, u) # << >>
    BY <1>1, <1>8, Incompatible, LeftToSay
  <2>2. Meeting(x, t, u, client, Failed(server, "suite"), Tail(c2s), s2c)
    BY <1>1, <1>3, <2>1, ServerRefuses
  <2>3. server' = Failed(server, "suite")
    BY <1>6, <1>8 DEF SuiteFound
  <2>4. QED
    BY <1>0, <1>1, <2>2, <2>3 DEF HandshakeInv, Met
<1>9. CASE SuiteFound(x) /\ SkeMade(x)
  <2>1. server' = Goes(ServerAt(x, v), AnswerOut(x))
    BY <1>2, <1>6, <1>9, ServerAnswers DEF SuiteFound
  <2>2. ServerLeft(x, v) = ClientHearsDeferred(x)
    BY <1>2 DEF ServerLeft, AnswerStage
  <2>3. AnswerOut(x) \in Seq(Said(x)) /\ ServerLeft(x, u) = AnswerOut(x) \o ServerLeft(x, v)
    BY <1>7, <2>2, ServerSpeech
  <2>4. ServerPassed(x, v)
    BY <1>1, <1>2, <1>9 DEF ServerPassed, AnswerStage, PeerGood
  <2>5. Meeting(x, t, v, client, Goes(ServerAt(x, v), AnswerOut(x)), Tail(c2s), s2c)
    BY <1>1, <1>3, <2>3, <2>4, ServerMoves
  <2>6. v \in ServerStages
    OBVIOUS
  <2>7. QED
    BY <1>0, <1>1, <2>1, <2>5, <2>6 DEF HandshakeInv, Met
<1>10. CASE SuiteFound(x) /\ ~SkeMade(x)
  <2>1. PICK f : f = Goes(Failed(SideHello(x), "config"), HelloOut(x))
    OBVIOUS
  <2>2. server' = f
    BY <1>6, <1>10, <2>1, ServerAnswers DEF SuiteFound
  <2>3. IsSide(SideHello(x))
    BY SideFields DEF SideHello
  <2>4. IsSide(f) /\ ~Alive(f) /\ f.out = HelloOut(x)
    BY <2>1, <2>3, FailedFields
  <2>5. /\ f.out \in Seq(Said(x)) /\ ServerLeft(x, u) = f.out \o ClientHearsSke(x)
        /\ ClientHearsSke(x) \in Seq(Said(x))
    BY <1>7, <2>4, ServerSpeech, HeardLists
  <2>6. ClientHearsSke(x) # << >>
    <3>1. ~Deferring(x)
      BY <1>10 DEF SkeMade
    <3>2. ClientHearsSke(x) = Then(Ske(x), ClientHears(x, "request"))
      <4>1. ClientHears(x, "ske") = ClientHearsSke(x)
        BY DEF ClientHears
      <4>2. QED
        BY <3>1, <4>1, ClientListens
    <3>3. PICK r \in Seq(Said(x)) : r = ClientHears(x, "request")
      BY StageLists
    <3>4. PICK m \in Said(x) : m = Ske(x)
      BY Words
    <3>5. \A S : \A n \in S, q \in Seq(S) : <<n>> \o q # << >>
      OBVIOUS
    <3>6. Then(m, r) # << >>
      BY <3>5 DEF Then
    <3>7. QED
      BY <3>2, <3>3, <3>4, <3>6
  <2>7. ~Compatible(x)
    BY <1>10, Incompatible
  <2>8. Meeting(x, t, u, client, f, Tail(c2s), s2c)
    BY <1>1, <1>3, <2>4, <2>5, <2>6, <2>7, ServerFails
  <2>9. QED
    BY <1>0, <1>1, <2>2, <2>8 DEF HandshakeInv, Met
<1>11. QED
  BY <1>8, <1>9, <1>10

LEMMA ReadClientCertificateStep ==
    ASSUME HandshakeInv, ReadClientCertificate
    PROVE  HandshakeInv'
<1>0. ServerReads("cert") /\ case' = case /\ client' = client /\ s2c' = s2c
  BY DEF ReadClientCertificate
<1>1. PICK x \in Cases, t \in ClientStages, u \in ServerStages :
         /\ x = case /\ u = "cert"
         /\ Meeting(x, t, u, client, server, c2s, s2c)
         /\ server = ServerAt(x, u) /\ ServerPassed(x, u) /\ IsSide(server)
         /\ Alive(server) /\ server.out = << >> /\ c2s # << >> /\ c2s' = Tail(c2s)
  BY <1>0, ServerListening
<1>2. Asking(x)
  BY <1>1 DEF ServerPassed
<1>3. PICK v \in ServerStages \ {"start"} : v = "cke"
  BY DEF ServerStages
<1>4. /\ Head(c2s) = CCerts(x) /\ Tail(c2s) \in Seq(Said(x))
      /\ ClientSays(x, t, v, client, Tail(c2s))
  <2>1. ServerHears(x, u) = Then(CCerts(x), ServerHears(x, v)) /\ CCerts(x) \in Said(x)
    BY <1>1, <1>2, <1>3, ServerListens, Words
  <2>2. QED
    BY <1>1, <2>1, ServerReadsOne
<1>5. PICK list : list = x.c.certs
  OBVIOUS
<1>6. /\ CCerts(x).type = "Certificate" /\ CCerts(x).body = list
      /\ [Hears(server, CCerts(x), "cke") EXCEPT !.certs = list] = ServerAt(x, v)
  BY <1>1, <1>2, <1>3, <1>5, ServerToCke
<1>7. PICK verdict : verdict = ClientCertificateVerdict(x.s, list)
  OBVIOUS
<1>8. server' = IF verdict = "ok" THEN ServerAt(x, v) ELSE Failed(server, verdict)
  BY <1>1, <1>4, <1>6, <1>7 DEF ReadClientCertificate, Expects
<1>9. CASE verdict = "ok"
  <2>1. PeerGood(x)
    BY <1>5, <1>7, <1>9 DEF PeerGood
  <2>2. ServerLeft(x, u) = ServerLeft(x, v) /\ ServerPassed(x, v)
    BY <1>1, <1>3, <2>1 DEF ServerLeft, ServerPassed
  <2>3. Meeting(x, t, v, client, ServerAt(x, v), Tail(c2s), s2c)
    BY <1>1, <1>4, <2>2, ServerTurns
  <2>4. v \in ServerStages
    OBVIOUS
  <2>5. QED
    BY <1>0, <1>1, <1>8, <1>9, <2>3, <2>4 DEF HandshakeInv, Met
<1>10. CASE verdict # "ok"
  <2>1. ~Compatible(x) /\ ServerLeft(x, u) # << >>
    BY <1>1, <1>2, <1>5, <1>7, <1>10, Incompatible, LeftToSay DEF PeerGood
  <2>2. Meeting(x, t, u, client, Failed(server, verdict), Tail(c2s), s2c)
    BY <1>1, <1>4, <2>1, ServerRefuses
  <2>3. QED
    BY <1>0, <1>1, <1>8, <1>10, <2>2 DEF HandshakeInv, Met
<1>11. QED
  BY <1>9, <1>10

LEMMA ReadClientKeyExchangeStep ==
    ASSUME HandshakeInv, ReadClientKeyExchange
    PROVE  HandshakeInv'
<1>0. ServerReads("cke") /\ case' = case /\ client' = client /\ s2c' = s2c
  BY DEF ReadClientKeyExchange
<1>1. PICK x \in Cases, t \in ClientStages, u \in ServerStages :
         /\ x = case /\ u = "cke"
         /\ Meeting(x, t, u, client, server, c2s, s2c)
         /\ server = ServerAt(x, u) /\ ServerPassed(x, u) /\ IsSide(server)
         /\ Alive(server) /\ server.out = << >> /\ c2s # << >> /\ c2s' = Tail(c2s)
  BY <1>0, ServerListening
<1>2. PICK v \in ServerStages \ {"start"} : v = "verify"
  BY DEF ServerStages
<1>3. /\ Head(c2s) = CkeMsg(x) /\ Tail(c2s) \in Seq(Said(x))
      /\ ClientSays(x, t, v, client, Tail(c2s))
  <2>1. ServerHears(x, u) = Then(CkeMsg(x), ServerHears(x, v)) /\ CkeMsg(x) \in Said(x)
    BY <1>1, <1>2, ServerListens, Words
  <2>2. QED
    BY <1>1, <2>1, ServerReadsOne
<1>4. PICK new : new = When(Deferring(x), <<DSke(x)>>)
  OBVIOUS
<1>5. PICK pms : pms = SPms(x)
  OBVIOUS
<1>6. /\ CkeMsg(x).type = "ClientKeyExchange"
      /\ cke_from_body(CkeMsg(x).body) = Payload(x) /\ Kx(server) = KeyEx(x)
      /\ ServerPms(Kx(server), x.s, Payload(x), server.certs) = pms
      /\ [Hears(server, CkeMsg(x), "verify") EXCEPT !.pms = pms, !.transcript = @ \o new]
            = ServerAt(x, v)
  BY <1>1, <1>2, <1>4, <1>5, ServerToVerify
<1>7. new = IF Kx(server) = "Ibsdh"
            THEN <<Msg("ServerKeyExchange", DeferredSke(x.s, Payload(x)))>> ELSE << >>
  BY <1>4, <1>6 DEF When, Deferring, DSke
<1>8. server' = IF pms = << >> THEN Failed(server, "pms") ELSE Goes(ServerAt(x, v), new)
  BY <1>1, <1>3, <1>6, <1>7 DEF ReadClientKeyExchange, Expects
<1>9. CASE PmsMade(x)
  <2>1. server' = Goes(ServerAt(x, v), new)
    BY <1>5, <1>8, <1>9 DEF PmsMade
  <2>2. ServerLeft(x, u) = ClientHearsDeferred(x) /\ ServerLeft(x, v) = ClientHearsCcs(x)
    BY <1>1, <1>2 DEF ServerLeft
  <2>3. new \in Seq(Said(x)) /\ ServerLeft(x, u) = new \o ServerLeft(x, v)
    BY <1>4, <2>2, Words, WhenSaid DEF ClientHearsDeferred
  <2>4. ServerPassed(x, v)
    BY <1>1, <1>2, <1>9 DEF ServerPassed
  <2>5. Meeting(x, t, v, client, Goes(ServerAt(x, v), new), Tail(c2s), s2c)
    BY <1>1, <1>3, <2>3, <2>4, ServerMoves
  <2>6. v \in ServerStages
    OBVIOUS
  <2>7. QED
    BY <1>0, <1>1, <2>1, <2>5, <2>6 DEF HandshakeInv, Met
<1>10. CASE ~PmsMade(x)
  <2>1. server' = Failed(server, "pms")
    BY <1>5, <1>8, <1>10 DEF PmsMade
  <2>2. ~Compatible(x) /\ ServerLeft(x, u) # << >>
    BY <1>1, <1>10, Incompatible, LeftToSay
  <2>3. Meeting(x, t, u, client, Failed(server, "pms"), Tail(c2s), s2c)
    BY <1>1, <1>3, <2>2, ServerRefuses
  <2>4. QED
    BY <1>0, <1>1, <2>1, <2>3 DEF HandshakeInv, Met
<1>11. QED
  BY <1>9, <1>10

LEMMA ReadVerifyOrCcsStep ==
    ASSUME HandshakeInv, ReadVerifyOrCcs
    PROVE  HandshakeInv'
<1>0. ServerReads("verify") /\ case' = case /\ client' = client /\ s2c' = s2c
  BY DEF ReadVerifyOrCcs
<1>1. PICK x \in Cases, t \in ClientStages, u \in ServerStages :
         /\ x = case /\ u = "verify"
         /\ Meeting(x, t, u, client, server, c2s, s2c)
         /\ server = ServerAt(x, u) /\ ServerPassed(x, u) /\ IsSide(server)
         /\ Alive(server) /\ server.out = << >> /\ c2s # << >> /\ c2s' = Tail(c2s)
  BY <1>0, ServerListening
<1>2. CASE Asking(x)
  <2>1. PICK v \in ServerStages \ {"start"} : v = "ccs"
    BY DEF ServerStages
  <2>2. /\ Head(c2s) = CVerifyMsg(x) /\ Tail(c2s) \in Seq(Said(x))
        /\ ClientSays(x, t, v, client, Tail(c2s))
    <3>1. ServerHears(x, u) = Then(CVerifyMsg(x), ServerHears(x, v)) /\ CVerifyMsg(x) \in Said(x)
      BY <1>1, <1>2, <2>1, ServerListens, Words
    <3>2. QED
      BY <1>1, <3>1, ServerReadsOne
  <2>3. CVerifyMsg(x).type = "CertificateVerify"
        /\ Hears(server, CVerifyMsg(x), "ccs") = ServerAt(x, v)
    BY <1>1, <1>2, <2>1, ServerToCcs
  <2>4. process_certificate_verify(x.s, server, CVerifyMsg(x).body[1]) <=> VerifyGood(x)
    BY <1>1, <1>2 DEF VerifyGood
  <2>5. server' = IF process_certificate_verify(x.s, server, CVerifyMsg(x).body[1])
                  THEN ServerAt(x, v) ELSE Failed(server, "verify")
    BY <1>1, <2>2, <2>3 DEF ReadVerifyOrCcs
  <2>6. CASE VerifyGood(x)
    <3>1. ServerLeft(x, u) = ServerLeft(x, v) /\ ServerPassed(x, v)
      BY <1>1, <1>2, <2>1, <2>6 DEF ServerLeft, ServerPassed
    <3>2. Meeting(x, t, v, client, ServerAt(x, v), Tail(c2s), s2c)
      BY <1>1, <2>2, <3>1, ServerTurns
    <3>3. server' = ServerAt(x, v) /\ v \in ServerStages
      BY <2>4, <2>5, <2>6
    <3>4. QED
      BY <1>0, <1>1, <3>2, <3>3 DEF HandshakeInv, Met
  <2>7. CASE ~VerifyGood(x)
    <3>1. ~Compatible(x) /\ ServerLeft(x, u) # << >>
      BY <1>1, <2>7, Incompatible, LeftToSay
    <3>2. Meeting(x, t, u, client, Failed(server, "verify"), Tail(c2s), s2c)
      BY <1>1, <2>2, <3>1, ServerRefuses
    <3>3. server' = Failed(server, "verify")
      BY <2>4, <2>5, <2>7
    <3>4. QED
      BY <1>0, <1>1, <3>2, <3>3 DEF HandshakeInv, Met
  <2>8. QED
    BY <2>6, <2>7
<1>3. CASE ~Asking(x)
  <2>1. PICK v \in ServerStages \ {"start"} : v = "finished"
    BY DEF ServerStages
  <2>2. /\ Head(c2s) = ChangeCipherSpec /\ Tail(c2s) \in Seq(Said(x))
        /\ ClientSays(x, t, v, client, Tail(c2s))
    <3>1. /\ ServerHears(x, u) = Then(ChangeCipherSpec, ServerHears(x, v))
          /\ ChangeCipherSpec \in Said(x)
      BY <1>1, <1>3, <2>1, ServerListens, Words
    <3>2. QED
      BY <1>1, <3>1, ServerReadsOne
  <2>3. ChangeCipherSpec.type = "CCS" /\ [server EXCEPT !.stage = "finished"] = ServerAt(x, v)
    BY <1>1, <1>3, <2>1, ServerToCcs
  <2>4. server' = ServerAt(x, v)
    BY <2>2, <2>3 DEF ReadVerifyOrCcs
  <2>5. VerifyGood(x)
    BY <1>3 DEF VerifyGood
  <2>6. ServerLeft(x, u) = ServerLeft(x, v) /\ ServerPassed(x, v)
    BY <1>1, <2>1, <2>5 DEF ServerLeft, ServerPassed
  <2>7. Meeting(x, t, v, client, ServerAt(x, v), Tail(c2s), s2c)
    BY <1>1, <2>2, <2>6, ServerTurns
  <2>8. v \in ServerStages
    OBVIOUS
  <2>9. QED
    BY <1>0, <1>1, <2>4, <2>7, <2>8 DEF HandshakeInv, Met
<1>4. QED
  BY <1>2, <1>3

LEMMA ReadClientCcsStep ==
    ASSUME HandshakeInv, ReadClientCcs
    PROVE  HandshakeInv'
<1>0. ServerReads("ccs") /\ case' = case /\ client' = client /\ s2c' = s2c
  BY DEF ReadClientCcs
<1>1. PICK x \in Cases, t \in ClientStages, u \in ServerStages :
         /\ x = case /\ u = "ccs"
         /\ Meeting(x, t, u, client, server, c2s, s2c)
         /\ server = ServerAt(x, u) /\ ServerPassed(x, u) /\ IsSide(server)
         /\ Alive(server) /\ server.out = << >> /\ c2s # << >> /\ c2s' = Tail(c2s)
  BY <1>0, ServerListening
<1>2. PICK v \in ServerStages \ {"start"} : v = "finished"
  BY DEF ServerStages
<1>3. /\ Head(c2s) = ChangeCipherSpec /\ Tail(c2s) \in Seq(Said(x))
      /\ ClientSays(x, t, v, client, Tail(c2s))
  <2>1. /\ ServerHears(x, u) = Then(ChangeCipherSpec, ServerHears(x, v))
        /\ ChangeCipherSpec \in Said(x)
    BY <1>1, <1>2, ServerListens, Words
  <2>2. QED
    BY <1>1, <2>1, ServerReadsOne
<1>4. ChangeCipherSpec.type = "CCS" /\ [server EXCEPT !.stage = "finished"] = ServerAt(x, v)
  BY <1>1, <1>2, ServerToCcs
<1>5. server' = ServerAt(x, v)
  BY <1>3, <1>4 DEF ReadClientCcs, Expects
<1>6. ServerLeft(x, u) = ServerLeft(x, v) /\ ServerPassed(x, v)
  BY <1>1, <1>2 DEF ServerLeft, ServerPassed
<1>7. Meeting(x, t, v, client, ServerAt(x, v), Tail(c2s), s2c)
  BY <1>1, <1>3, <1>6, ServerTurns
<1>8. v \in ServerStages
  OBVIOUS
<1>9. QED
  BY <1>0, <1>1, <1>5, <1>7, <1>8 DEF HandshakeInv, Met

LEMMA ReadClientFinishedStep ==
    ASSUME HandshakeInv, ReadClientFinished
    PROVE  HandshakeInv'
<1>0. ServerReads("finished") /\ case' = case /\ client' = client /\ s2c' = s2c
  BY DEF ReadClientFinished
<1>1. PICK x \in Cases, t \in ClientStages, u \in ServerStages :
         /\ x = case /\ u = "finished"
         /\ Meeting(x, t, u, client, server, c2s, s2c)
         /\ server = ServerAt(x, u) /\ ServerPassed(x, u) /\ IsSide(server)
         /\ Alive(server) /\ server.out = << >> /\ c2s # << >> /\ c2s' = Tail(c2s)
  BY <1>0, ServerListening
<1>2. PICK v \in ServerStages \ {"start"} : v = "storing"
  BY DEF ServerStages
<1>3. /\ Head(c2s) = CFinished(x) /\ Tail(c2s) \in Seq(Said(x))
      /\ ClientSays(x, t, v, client, Tail(c2s))
  <2>1. ServerHears(x, u) = Then(CFinished(x), ServerHears(x, v)) /\ CFinished(x) \in Said(x)
    BY <1>1, <1>2, ServerListens, Words
  <2>2. QED
    BY <1>1, <2>1, ServerReadsOne
<1>4. PICK new : new = <<ChangeCipherSpec, SFinished(x)>>
  OBVIOUS
<1>5. /\ Hears(server, CFinished(x), "storing") = ServerAt(x, v)
      /\ Finished("server", ServerAt(x, v)) = SFinished(x)
  BY <1>1, <1>2, ServerToStoring
<1>6. server' = IF FinishedVerdict(server, "client", CFinished(x)) = "ok"
                THEN Goes(ServerAt(x, v), new) ELSE Failed(server, "finished")
  BY <1>3, <1>4, <1>5 DEF ReadClientFinished
<1>7. FinishedVerdict(server, "client", CFinished(x)) = "ok" <=> ClientFinishedGood(x)
  BY <1>1 DEF ClientFinishedGood
<1>8. CASE ClientFinishedGood(x)
  <2>1. server' = Goes(ServerAt(x, v), new)
    BY <1>6, <1>7, <1>8
  <2>2. new \in Seq(Said(x)) /\ ServerLeft(x, u) = new \o ServerLeft(x, v)
    <3>1. new = ClientHearsCcs(x) /\ new \in Seq(Said(x))
      BY <1>4, ServerSpeech, HeardLists
    <3>2. ServerLeft(x, u) = ClientHearsCcs(x) /\ ServerLeft(x, v) = << >>
      BY <1>1, <1>2 DEF ServerLeft
    <3>3. new \o << >> = new
      BY <3>1, Nothing
    <3>4. QED
      BY <3>1, <3>2, <3>3
  <2>3. ServerPassed(x, v)
    BY <1>1, <1>2, <1>8 DEF ServerPassed
  <2>4. Meeting(x, t, v, client, Goes(ServerAt(x, v), new), Tail(c2s), s2c)
    BY <1>1, <1>3, <2>2, <2>3, ServerMoves
  <2>5. v \in ServerStages
    OBVIOUS
  <2>6. QED
    BY <1>0, <1>1, <2>1, <2>4, <2>5 DEF HandshakeInv, Met
<1>9. CASE ~ClientFinishedGood(x)
  <2>1. ~Compatible(x) /\ ServerLeft(x, u) # << >>
    BY <1>1, <1>9, Incompatible, LeftToSay
  <2>2. Meeting(x, t, u, client, Failed(server, "finished"), Tail(c2s), s2c)
    BY <1>1, <1>3, <2>1, ServerRefuses
  <2>3. server' = Failed(server, "finished")
    BY <1>6, <1>7, <1>9
  <2>4. QED
    BY <1>0, <1>1, <2>2, <2>3 DEF HandshakeInv, Met
<1>10. QED
  BY <1>8, <1>9

LEMMA StoreSessionStep ==
    ASSUME HandshakeInv, StoreSession
    PROVE  HandshakeInv'
<1>0. /\ server.stage = "storing" /\ server.out = << >> /\ Alive(server)
      /\ case' = case /\ client' = client /\ c2s' = c2s /\ s2c' = s2c
  BY DEF StoreSession, Alive
<1>1. PICK x \in Cases, t \in ClientStages, u \in ServerStages :
         x = case /\ Meeting(x, t, u, client, server, c2s, s2c)
  BY DEF HandshakeInv, Met
<1>2. /\ server = ServerAt(x, u) /\ ServerPassed(x, u)
      /\ server.stage = (IF u = "simulated" THEN "ok" ELSE u)
  BY <1>0, <1>1, ServerStage
<1>3. u = "storing"
  BY <1>0, <1>2
<1>4. PICK v \in ServerStages \ {"start"} : v = "ok"
  BY DEF ServerStages
<1>5. server' = ServerAt(x, v)
  BY <1>2, <1>3, <1>4, ServerToStoring DEF StoreSession
<1>6. ServerLeft(x, u) = ServerLeft(x, v) /\ ServerPassed(x, v)
  BY <1>2, <1>3, <1>4 DEF ServerLeft, ServerPassed
<1>7. c2s \in Seq(Said(x)) /\ ClientSays(x, t, v, client, c2s)
  <2>1. c2s \in Seq(Said(x)) /\ ClientSays(x, t, u, client, c2s)
    BY <1>0, <1>1 DEF Meeting, Typed
  <2>2. ServerHears(x, u) = ServerHears(x, v)
    BY <1>3, <1>4 DEF ServerHears
  <2>3. QED
    BY <2>1, <2>2 DEF ClientSays
<1>8. Meeting(x, t, v, client, ServerAt(x, v), c2s, s2c)
  BY <1>0, <1>1, <1>6, <1>7, ServerTurns
<1>9. v \in ServerStages
  OBVIOUS
<1>10. QED
  BY <1>0, <1>1, <1>5, <1>8, <1>9 DEF HandshakeInv, Met

LEMMA ServerWritesStep ==
    ASSUME HandshakeInv, ServerWrites
    PROVE  HandshakeInv'
<1>1. PICK x \in Cases, t \in ClientStages, u \in ServerStages :
         x = case /\ Meeting(x, t, u, client, server, c2s, s2c)
  BY DEF HandshakeInv, Met
<1>2. server.out # << >> /\ case' = case /\ client' = client /\ c2s' = c2s
  BY DEF ServerWrites
<1>3. CASE server' = [server EXCEPT !.out = Tail(@)] /\ s2c' = Append(s2c, Head(server.out))
  <2>1. server' = Goes(server, Tail(server.out))
    BY <1>3 DEF Goes
  <2>2. Meeting(x, t, u, client, Goes(server, Tail(server.out)), c2s,
                Append(s2c, Head(server.out)))
    BY <1>1, <1>2, ServerWritesOne
  <2>3. QED
    BY <1>1, <1>2, <1>3, <2>1, <2>2 DEF HandshakeInv, Met
<1>4. CASE Gone(client) /\ server' = Failed(server, "Closed") /\ s2c' = s2c
  <2>1. Meeting(x, t, u, client, Failed(server, "Closed"), c2s, s2c)
    BY <1>1, <1>2, <1>4, ServerCloses
  <2>2. QED
    BY <1>1, <1>2, <1>4, <2>1 DEF HandshakeInv, Met
<1>5. QED
  BY <1>3, <1>4 DEF ServerWrites

LEMMA ServerEofStep ==
    ASSUME HandshakeInv, ServerEof
    PROVE  HandshakeInv'
<1>1. PICK x \in Cases, t \in ClientStages, u \in ServerStages :
         x = case /\ Meeting(x, t, u, client, server, c2s, s2c)
  BY DEF HandshakeInv, Met
<1>2. /\ Alive(server) /\ Gone(client) /\ server' = Failed(server, "Closed")
      /\ case' = case /\ client' = client /\ c2s' = c2s /\ s2c' = s2c
  BY DEF ServerEof, Alive, Reading
<1>3. Meeting(x, t, u, client, Failed(server, "Closed"), c2s, s2c)
  BY <1>1, <1>2, ServerCloses
<1>4. QED
  BY <1>1, <1>2, <1>3 DEF HandshakeInv, Met

LEMMA ServerTimeoutStep ==
    ASSUME HandshakeInv, ServerTimeout
    PROVE  HandshakeInv'
<1>1. PICK x \in Cases, t \in ClientStages, u \in ServerStages :
         x = case /\ Meeting(x, t, u, client, server, c2s, s2c)
  BY DEF HandshakeInv, Met
<1>2. /\ Alive(server) /\ server' = Failed(server, "Timeout")
      /\ case' = case /\ client' = client /\ c2s' = c2s /\ s2c' = s2c
  BY DEF ServerTimeout, Alive, Reading
<1>3. Meeting(x, t, u, client, Failed(server, "Timeout"), c2s, s2c)
  BY <1>1, <1>2, ServerExpires
<1>4. QED
  BY <1>1, <1>2, <1>3 DEF HandshakeInv, Met

LEMMA InitMeets == Init => HandshakeInv
<1> SUFFICES ASSUME Init PROVE HandshakeInv
  OBVIOUS
<1>1. PICK x \in Cases : x = case
  BY DEF Init
<1>2. PICK t \in ClientStages : t = "start"
  BY DEF ClientStages
<1>3. PICK u \in ServerStages : u = "start"
  BY DEF ServerStages
<1>4. PICK none : none = << >>
  OBVIOUS
<1>5. /\ client = ClientAt(x, t) /\ server = ServerAt(x, u)
      /\ c2s = none /\ s2c = none
  BY <1>2, <1>3, <1>4 DEF Init, ClientAt, ServerAt
<1>6. /\ IsSide(client) /\ client.out = none /\ Alive(client)
      /\ client = Goes(ClientAt(x, t), client.out)
  <2>1. LET he == Goes(ClientAt(x, t), none)
        IN  /\ IsSide(he) /\ he.out = none /\ Alive(he)
            /\ Goes(ClientAt(x, t), << >>) = ClientAt(x, t)
    BY ClientFields
  <2>2. QED
    BY <1>4, <1>5, <2>1
<1>7. /\ IsSide(server) /\ server.out = none /\ Alive(server)
      /\ server = Goes(ServerAt(x, u), server.out)
  <2>1. LET he == Goes(ServerAt(x, u), none)
        IN  /\ IsSide(he) /\ he.out = none /\ Alive(he)
            /\ Goes(ServerAt(x, u), << >>) = ServerAt(x, u)
    BY ServerFields
  <2>2. QED
    BY <1>4, <1>5, <2>1
<1>8. none \in Seq(Said(x))
  BY <1>4
<1>9. Typed(x, client, c2s) /\ Typed(x, server, s2c)
  BY <1>5, <1>6, <1>7, <1>8 DEF Typed
<1>10. ClientIs(x, client, t) /\ ServerIs(x, server, u)
  <2>1. ClientPassed(x, t) /\ ServerPassed(x, u)
    BY <1>2, <1>3 DEF ClientPassed, ServerPassed
  <2>2. QED
    BY <1>4, <1>6, <1>7, <2>1 DEF ClientIs, ServerIs
<1>11. ClientSays(x, t, u, client, c2s)
  <2>1. PICK left \in Seq(Said(x)) : left = ServerHearsHello(x)
    BY HeardLists
  <2>2. Flow(none, none, left) = left
    BY <1>4 DEF Flow
  <2>3. ServerHears(x, u) = left /\ ClientLeft(x, t) = left
    BY <1>2, <1>3, <2>1 DEF ServerHears, ClientLeft
  <2>4. QED
    BY <1>5, <1>6, <2>2, <2>3 DEF ClientSays
<1>12. ServerSays(x, t, u, server, s2c)
  <2>1. PICK left \in Seq(Said(x)) : left = ClientHearsHello(x)
    BY HeardLists
  <2>2. Flow(none, none, left) = left
    BY <1>4 DEF Flow
  <2>3. ClientHears(x, t) = left /\ ServerLeft(x, u) = left
    BY <1>2, <1>3, <2>1 DEF ClientHears, ServerLeft
  <2>4. QED
    BY <1>5, <1>7, <2>2, <2>3 DEF ServerSays
<1>13. Blamed(x, client, server) /\ Blamed(x, server, client)
  BY <1>6, <1>7 DEF Blamed
<1>14. Meeting(x, t, u, client, server, c2s, s2c)
  BY <1>2, <1>6, <1>7, <1>9, <1>10, <1>11, <1>12, <1>13 DEF Meeting
<1>15. QED
  BY <1>1, <1>14 DEF HandshakeInv, Met

LEMMA NextMeets == HandshakeInv /\ [Next]_vars => HandshakeInv'
<1> SUFFICES ASSUME HandshakeInv, [Next]_vars PROVE HandshakeInv'
  OBVIOUS
<1>1. CASE ClientNext
  BY <1>1, ConnectStep, ReadServerHelloStep, ReadServerCertificateStep,
     ReadServerKeyExchangeStep, ReadRequestOrDoneStep, ReadServerHelloDoneStep,
     ReadDeferredStep, ReadServerCcsStep, ReadServerFinishedStep,
     ClientWritesStep, ClientEofStep DEF ClientNext
<1>2. CASE ServerNext
  BY <1>2, AcceptStep, ReadClientHelloStep, ReadClientCertificateStep,
     ReadClientKeyExchangeStep, ReadVerifyOrCcsStep, ReadClientCcsStep,
     ReadClientFinishedStep, StoreSessionStep, ServerWritesStep, ServerEofStep
     DEF ServerNext
<1>3. CASE ClientTimeout
  BY <1>3, ClientTimeoutStep
<1>4. CASE ServerTimeout
  BY <1>4, ServerTimeoutStep
<1>5. CASE UNCHANGED vars
  BY <1>5 DEF vars, HandshakeInv
<1>6. QED
  BY <1>1, <1>2, <1>3, <1>4, <1>5 DEF Next

(* The invariant: at every moment of every handshake each side is, but for *)
(* what it has still to write, what the conversation of its case makes it  *)
(* at its stage, the checks behind it have come out well, and what is      *)
(* under way is what the other side waits for (connect_with_certs and      *)
(* accept_with_certs).                                                     *)
THEOREM HandshakeSafety == Spec => []HandshakeInv
<1>1. Init => HandshakeInv
  BY InitMeets
<1>2. HandshakeInv /\ [Next]_vars => HandshakeInv'
  BY NextMeets
<1>3. QED
  BY <1>1, <1>2, PTL DEF Spec

(* A client that ended well. *)
LEMMA ClientWell ==
    ASSUME HandshakeInv, client.stage = "ok"
    PROVE  /\ ClientPassed(case, "ccs") /\ ServerPassed(case, "storing")
           /\ server.stage \in {"storing", "ok"} \/ server.why = "Timeout"
           /\ server.suite = Chosen(case) /\ server.pms = SPms(case)
           /\ server.transcript = TClient(case)
           /\ client.suite = Chosen(case) /\ client.pms = CPms(case)
           /\ client.transcript = TServer(case)
<1>1. PICK x \in Cases, t \in ClientStages, u \in ServerStages :
         x = case /\ Meeting(x, t, u, client, server, c2s, s2c)
  BY DEF HandshakeInv, Met
<1>2. Alive(client)
  BY DEF Alive
<1>3. PICK out : out = client.out
  OBVIOUS
<1>4. client = Goes(ClientAt(x, t), out) /\ ClientPassed(x, t)
  BY <1>1, <1>2, <1>3 DEF Meeting, ClientIs
<1>5. t = "ok"
  <2>1. client.stage = (IF t = "lost" THEN "done" ELSE t)
    BY <1>4, ClientFields
  <2>2. QED
    BY <2>1
<1>6. s2c \in Seq(Said(x)) /\ ServerSays(x, "ok", u, server, s2c)
  BY <1>1, <1>2, <1>5 DEF Meeting, Typed
<1>7. /\ ServerPassed(x, "storing") /\ server.out = << >>
      /\ Alive(server) => u \in {"storing", "ok"} /\ ServerIs(x, server, u)
      /\ ~Alive(server) => ServerSpent(x, server)
  BY <1>1, <1>6, ServerDone
<1>8. ClientPassed(x, "ccs")
  BY <1>4, <1>5 DEF ClientPassed
<1>9. client.suite = Chosen(x) /\ client.pms = CPms(x) /\ client.transcript = TServer(x)
  <2>1. PICK k : k = Keyed(x, "ok", CPms(x), TServer(x))
    OBVIOUS
  <2>2. /\ k.suite = Chosen(x) /\ k.pms = CPms(x) /\ k.transcript = TServer(x)
        /\ IsSide(k)
    BY <2>1, KeyedFields
  <2>3. client = Goes(k, out)
    BY <1>4, <1>5, <2>1 DEF ClientAt
  <2>4. LET g == Goes(k, out)
        IN  g.suite = k.suite /\ g.pms = k.pms /\ g.transcript = k.transcript
    BY <2>2, AnySide
  <2>5. QED
    BY <2>2, <2>3, <2>4
<1>10. \A w \in {"storing", "ok"} :
          LET at == ServerAt(x, w)
          IN  at.suite = Chosen(x) /\ at.pms = SPms(x) /\ at.transcript = TClient(x)
  <2> TAKE w \in {"storing", "ok"}
  <2>1. ServerAt(x, w) = Serving(x, w, Peer(x), SPms(x), TClient(x))
    BY DEF ServerAt
  <2>2. QED
    BY <2>1, ServingParts
<1>11. /\ server.stage \in {"storing", "ok"} \/ server.why = "Timeout"
       /\ server.suite = Chosen(x) /\ server.pms = SPms(x)
       /\ server.transcript = TClient(x)
  <2>1. CASE Alive(server)
    <3>1. PICK o : o = server.out
      OBVIOUS
    <3>2. server = Goes(ServerAt(x, u), o) /\ u \in {"storing", "ok"}
      BY <1>7, <2>1, <3>1 DEF ServerIs
    <3>3. LET he == Goes(ServerAt(x, u), o)
              me == ServerAt(x, u)
          IN  /\ he.stage = (IF u = "simulated" THEN "ok" ELSE u)
              /\ he.suite = me.suite /\ he.pms = me.pms /\ he.transcript = me.transcript
      BY ServerFields
    <3>4. QED
      BY <1>10, <3>2, <3>3
  <2>2. CASE ~Alive(server)
    BY <1>7, <1>10, <2>2 DEF ServerSpent
  <2>3. QED
    BY <2>1, <2>2
<1>12. QED
  BY <1>1, <1>7, <1>8, <1>9, <1>11

(* A server that ended well, and did not only say so. *)
LEMMA ServerWell ==
    ASSUME HandshakeInv, server.stage = "ok", ~Simulated
    PROVE  /\ ClientPassed(case, "ccs") /\ ServerPassed(case, "storing")
           /\ client.stage = "failed" => client.why = "Timeout"
<1>1. PICK x \in Cases, t \in ClientStages, u \in ServerStages :
         x = case /\ Meeting(x, t, u, client, server, c2s, s2c)
  BY DEF HandshakeInv, Met
<1>2. Alive(server)
  BY DEF Alive
<1>3. PICK out : out = server.out
  OBVIOUS
<1>4. server = Goes(ServerAt(x, u), out) /\ ServerPassed(x, u)
  BY <1>1, <1>2, <1>3 DEF Meeting, ServerIs
<1>5. /\ server.stage = (IF u = "simulated" THEN "ok" ELSE u)
      /\ server.pms = ServerAt(x, u).pms
  BY <1>4, ServerFields
<1>6. u # "simulated"
  <2>1. ASSUME u = "simulated" PROVE ServerAt(x, u).pms = Simulation
    BY <2>1 DEF ServerAt, Idle
  <2>2. QED
    BY <1>5, <2>1 DEF Simulated
<1>7. u = "ok"
  BY <1>5, <1>6
<1>8. ClientPassed(x, "ccs") /\ (~Alive(client) => ClientSpent(x, client))
  BY <1>1, <1>2, <1>7, ClientDone
<1>9. ServerPassed(x, "storing")
  BY <1>4, <1>7 DEF ServerPassed
<1>10. QED
  BY <1>1, <1>8, <1>9 DEF ClientSpent, Alive

(* The last record of a client's transcript is the server's Finished.      *)
LEMMA BeforeTheLast ==
    ASSUME NEW S, NEW q \in Seq(S), NEW m \in S
    PROVE  Front(q \o <<m>>) = q
<1>1. PICK n \in Nat : n = Len(q)
  OBVIOUS
<1>2. PICK w : w = q \o <<m>>
  OBVIOUS
<1>3. w \in Seq(S) /\ Len(w) = n + 1 /\ \A i \in 1..n : w[i] = q[i]
  BY <1>1, <1>2
<1>4. Front(w) = SubSeq(w, 1, n)
  BY <1>3 DEF Front
<1>5. SubSeq(w, 1, n) \in Seq(S) /\ Len(SubSeq(w, 1, n)) = n
      /\ \A i \in 1..n : SubSeq(w, 1, n)[i] = w[i]
  BY <1>3
<1>6. SubSeq(w, 1, n) = q
  <2>1. \A i \in 1..n : SubSeq(w, 1, n)[i] = q[i]
    BY <1>3, <1>5
  <2>2. QED
    BY <1>1, <1>5, <2>1, SeqEqual
<1>7. QED
  BY <1>2, <1>4, <1>6

(* The two sides agree on how a handshake ended, on its keys and on its    *)
(* account, whatever their configurations and whenever either ran out of   *)
(* time (the Finished messages of connect_with_certs and                   *)
(* accept_with_certs).                                                     *)
THEOREM OutcomesAreAgreed == Spec => []OutcomesAgree
<1>1. HandshakeInv => OutcomesAgree
  <2> SUFFICES ASSUME HandshakeInv PROVE OutcomesAgree
    OBVIOUS
  <2>1. ASSUME client.stage = "ok"
        PROVE  /\ server.stage \in {"storing", "ok"} \/ server.why = "Timeout"
               /\ KeyMaterial(client) = KeyMaterial(server)
               /\ Front(client.transcript) = server.transcript
    <3>1. PICK x \in Cases : x = case
      BY DEF HandshakeInv
    <3>2. /\ ServerPassed(x, "storing")
          /\ server.stage \in {"storing", "ok"} \/ server.why = "Timeout"
          /\ server.suite = Chosen(x) /\ server.pms = SPms(x)
          /\ server.transcript = TClient(x)
          /\ client.suite = Chosen(x) /\ client.pms = CPms(x)
          /\ client.transcript = TServer(x)
      BY <2>1, <3>1, ClientWell
    <3>3. CPms(x) = SPms(x)
      BY <3>2, FinishedMeans DEF ServerPassed
    <3>4. KeyMaterial(client) = KeyMaterial(server)
      BY <3>2, <3>3 DEF KeyMaterial
    <3>5. Front(TServer(x)) = TClient(x)
      BY Transcripts, Words, BeforeTheLast DEF TServer
    <3>6. QED
      BY <3>2, <3>4, <3>5
  <2>2. QED
    BY <2>1, ServerWell DEF OutcomesAgree
<1>2. QED
  BY <1>1, HandshakeSafety, PTL

(* No handshake comes to its end on either side between configurations     *)
(* that do not fit: every check of connect_with_certs and                  *)
(* accept_with_certs has then been made, by one side or the other.         *)
THEOREM PeersAreVerified == Spec => []PeersVerified
<1>1. HandshakeInv => PeersVerified
  <2> SUFFICES ASSUME HandshakeInv, client.stage = "ok" \/ (server.stage = "ok" /\ ~Simulated)
               PROVE  Compatible(case)
    BY DEF PeersVerified
  <2>1. ClientPassed(case, "ccs") /\ ServerPassed(case, "storing")
    BY ClientWell, ServerWell
  <2>2. QED
    BY <2>1, BothPassed DEF HandshakeInv
<1>2. QED
  BY <1>1, HandshakeSafety, PTL

(* Configurations that fit fail only for want of time, for every suite:    *)
(* none of the checks of connect_with_certs and accept_with_certs, and no  *)
(* order of the records, can come out against them.                        *)
THEOREM CompatibleSidesSucceed == Spec => []CompatibleSucceeds
<1>1. HandshakeInv => CompatibleSucceeds
  <2> SUFFICES ASSUME HandshakeInv, Compatible(case)
               PROVE  \A me \in {client, server} : me.stage = "failed" =>
                          /\ me.why \in {"Timeout", "Closed"}
                          /\ "Timeout" \in {client.why, server.why}
    BY DEF CompatibleSucceeds
  <2>1. Blamed(case, client, server) /\ Blamed(case, server, client)
    BY DEF HandshakeInv, Met, Meeting
  <2>2. QED
    BY <2>1 DEF Blamed, Alive
<1>2. QED
  BY <1>1, HandshakeSafety, PTL

=============================================================================
