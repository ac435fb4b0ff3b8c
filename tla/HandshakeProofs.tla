-------------------------- MODULE HandshakeProofs --------------------------
(* Machine-checked proofs about Handshake, for every set of configurations *)
(* with lists of protocols of any length.                                  *)
EXTENDS Handshake, VecProofs

-----------------------------------------------------------------------------
(* The inductive invariant.  What each side says is determined by the      *)
(* configuration: the messages on their way are the ones a side has sent   *)
(* and the other has not come to yet.                                      *)

Hello == <<"ClientHello">>
Hellos == Append(Hello, "ServerHello")
Certified == Append(Hellos, "Certificate")
Verified == Append(Certified, "CertificateVerify")

Selected == select_alpn(cfg.server_alpn, cfg.client_alpn)

(* The server is accept_gm_rust, and its second message its certificate. *)
Shows == cfg.peer = "accept" /\ ~cfg.ticket_key /\ cfg.server_cert # "none"

(* The client may complete by its ticket alone. *)
Unchecked == cfg.ticket = "resume" /\ cfg.peer # "accept"

(* The client that completes has sent its certificate and Finished, the    *)
(* latter over Covered.                                                    *)
Speaks == /\ cfg.client_cert # "none"
          /\ ~(cfg.peer = "resumes" /\ cfg.ticket = "resume")
Covered == IF cfg.ticket = "resume" THEN Hellos ELSE Verified

(* The k-th message of the server, as far as a client gets: a client whose *)
(* server issues tickets, or has no certificate, fails at the second.      *)
ServerSays(k, m) ==
    /\ k = 1 => /\ m.type = "ServerHello" /\ m.alpn = Selected
                /\ m.share <=> cfg.peer # "resumes"
    /\ k = 2 /\ cfg.peer = "accept" =>
          m.type = IF cfg.ticket_key THEN "NewSessionTicket"
                   ELSE IF cfg.server_cert = "none" THEN "CertificateVerify"
                   ELSE "Certificate"
    /\ k = 2 /\ cfg.peer # "accept" => m = Finished(Hellos)
    /\ k = 3 /\ Shows => m = CertificateVerify(Certified)
    /\ k = 4 /\ Shows => m = Finished(Verified)

Extra == (IF cfg.ticket_key THEN 1 ELSE 0)
         + (IF cfg.server_cert = "none" THEN 0 ELSE 1)

ServerSent ==
    CASE server \in {"hello", "send_hello"} -> 0
      [] server = "send_ticket" -> 1
      [] server = "send_certificate" -> IF cfg.ticket_key THEN 2 ELSE 1
      [] server = "send_verify" -> 1 + Extra
      [] server = "send_finished" ->
            IF cfg.peer = "accept" THEN 2 + Extra ELSE 1
      [] OTHER -> IF cfg.peer = "accept" THEN 3 + Extra
                  ELSE IF cfg.peer = "resumes" THEN 1 ELSE 2

ClientReads == client \in {"start", "hello", "ticket_finished", "certificate",
                           "verify", "finished"}
ClientRead ==
    CASE client \in {"start", "hello"} -> 0
      [] client \in {"ticket_finished", "certificate"} -> 1
      [] client = "verify" -> 2
      [] OTHER -> 3

FromServer ==
    ClientReads =>
        /\ \A i \in 1..Len(s2c) : ServerSays(ClientRead + i, s2c[i])
        /\ server # "failed" => Len(s2c) + ClientRead = ServerSent

(* The k-th message of the client. *)
ClientSays(k, m) ==
    /\ k = 1 => /\ m.type = "ClientHello" /\ m.alpn = cfg.client_alpn
    /\ k = 2 => m.type = IF Speaks THEN "Certificate" ELSE "Data"
    /\ k = 3 /\ Speaks => m = Finished(Covered)
    /\ k = 4 => m.type = "Data"

ClientSent ==
    CASE client = "start" -> 0
      [] client = "send_finished" -> 2
      [] client = "ok" -> IF Speaks THEN 3 ELSE 1
      [] OTHER -> 1

ServerRead ==
    CASE server = "hello" -> 0
      [] server = "finished" -> 2
      [] server = "ok" ->
            IF cfg.require_client_auth /\ cfg.peer # "resumes" THEN 3 ELSE 1
      [] OTHER -> 1

FromClient ==
    server # "failed" /\ first_read = "none" =>
        /\ \A i \in 1..Len(c2s) : ClientSays(ServerRead + i, c2s[i])
        /\ client # "failed" => Len(c2s) + ServerRead >= ClientSent
        /\ client \notin {"ok", "failed"} => Len(c2s) + ServerRead = ClientSent

(* What each side has hashed and settled on when it has come to a stage. *)
ClientKnows ==
    /\ client = "hello" => ctr = Hello
    /\ client \in {"certificate", "ticket_finished"} => ctr = Hellos
    /\ client = "verify" => ctr = Certified /\ Shows
    /\ client = "finished" => ctr = Verified /\ Shows
    /\ client \in {"send_certificate", "send_finished", "ok"} =>
          ctr = Covered /\ (Shows \/ Unchecked)
                        /\ (cfg.ticket = "resume" => Unchecked)
    /\ client \in {"send_certificate", "send_finished"} => Speaks
    /\ client \in {"certificate", "verify", "finished"} => cfg.ticket # "resume"
    /\ client = "ticket_finished" => cfg.ticket = "resume" /\ cfg.peer # "resumes"
    /\ client \notin {"start", "hello", "failed"} => alpn.client = Selected

ServerKnows ==
    /\ server = "send_hello" => str = Hello
    /\ server = "send_ticket" => cfg.ticket_key
    /\ server \in {"send_ticket", "send_certificate", "send_verify"} =>
          cfg.peer = "accept"
    /\ server \in {"send_finished", "certificate", "finished"} =>
          cfg.peer # "resumes"
    /\ Shows =>
          /\ server = "send_certificate" => str = Hellos
          /\ server = "send_verify" => str = Certified
          /\ server \in {"send_finished", "certificate", "finished", "ok"} => str = Verified
    /\ cfg.peer # "accept" =>
          (server \in {"send_finished", "certificate", "finished", "ok"} => str = Hellos)
    /\ server \in {"certificate", "finished"} => cfg.require_client_auth
    /\ server \notin {"hello", "failed"} => alpn.server = Selected

(* What each side has checked. *)
Through == client \in {"send_certificate", "send_finished", "ok"} /\ ~Unchecked
ClientChecked ==
    /\ client \in {"verify", "finished"} \/ Through =>
          (cfg.client_ca => VerifyCertificate(cfg.server_cert) = "none")
    /\ client = "finished" \/ Through => cfg.server_cert # "wrong_key"

ServerChecked ==
    (\/ server = "finished"
     \/ server = "ok" /\ cfg.require_client_auth /\ cfg.peer # "resumes") =>
        /\ cfg.server_ca /\ cfg.client_cert # "none"
        /\ VerifyCertificate(cfg.client_cert) = "none"

(* Who has failed has a reason, and in a good configuration one that goes  *)
(* back to a timeout.                                                      *)
FreshCrl == cfg.crl => CrlFresh
Good == GoodConfig /\ cfg.ticket # "resume" /\ ~cfg.ticket_key /\ FreshCrl
TimedOut == why.client = "Timeout" \/ why.server = "Timeout"
Blame ==
    /\ why.client # "none" => client = "failed"
    /\ why.server # "none" => server = "failed"
    /\ Good /\ ~TimedOut => client # "failed" /\ server # "failed"

FirstRead ==
    /\ first_read # "none" => server = "ok"
    /\ /\ cfg.peer = "accept"
       /\ cfg.client_cert # "none" => cfg.require_client_auth
       => first_read \in {"none", "Data"}

Inv ==
    /\ TypeOK
    /\ FromServer /\ FromClient
    /\ ClientKnows /\ ServerKnows
    /\ ClientChecked /\ ServerChecked
    /\ Blame /\ FirstRead

-----------------------------------------------------------------------------
(* Messages and transcripts. *)

LEMMA PlainType ==
    ASSUME NEW t \in Types
    PROVE  /\ Plain(t) \in Messages /\ Plain(t).type = t
           /\ \A a \in Seq(Protocols) :
                 LET m == [Plain(t) EXCEPT !.alpn = a, !.ticket = << >>] IN
                 m \in Messages /\ m.type = t /\ m.alpn = a
           /\ \A a \in Seq(Protocols), b \in BOOLEAN :
                 LET m == [Plain(t) EXCEPT !.alpn = a, !.share = b] IN
                 m \in Messages /\ m.type = t /\ m.alpn = a /\ m.share = b
           /\ \A o \in Seq(Types) :
                 LET m == [Plain(t) EXCEPT !.over = o] IN
                 m \in Messages /\ m.type = t
<1>1. /\ << >> \in Seq(Protocols) /\ << >> \in Seq({"ticket"}) /\ << >> \in Seq(Types)
  OBVIOUS
<1>2. QED
  BY <1>1 DEF Plain, Messages

LEMMA MessageTypes ==
    /\ NewSessionTicket \in Messages /\ NewSessionTicket.type = "NewSessionTicket"
    /\ ClientCertificate \in Messages /\ ClientCertificate.type = "Certificate"
    /\ Plain("Data") \in Messages /\ Plain("Data").type = "Data"
    /\ \A tr \in Seq(Types) :
          /\ CertificateVerify(tr) \in Messages
          /\ CertificateVerify(tr).type = "CertificateVerify"
          /\ Finished(tr) \in Messages /\ Finished(tr).type = "Finished"
<1>1. {"NewSessionTicket", "Certificate", "Data", "CertificateVerify", "Finished"}
        \subseteq Types
  BY DEF Types
<1>2. QED
  BY <1>1, PlainType DEF NewSessionTicket, ClientCertificate, CertificateVerify, Finished

LEMMA HelloTypes ==
    ASSUME NEW a \in Seq(Protocols), NEW t \in Seq({"ticket"})
    PROVE  /\ ClientHello(build_client_hello(a, t)) \in Messages
           /\ ClientHello(build_client_hello(a, t)).type = "ClientHello"
           /\ ClientHello(build_client_hello(a, t)).alpn = a
<1>1. /\ "ClientHello" \in Types
      /\ << >> \in Seq(Protocols) /\ << >> \in Seq({"ticket"}) /\ << >> \in Seq(Types)
  BY DEF Types
<1>2. ClientHello(build_client_hello(a, t)) =
        [Plain("ClientHello") EXCEPT !.alpn = a, !.ticket = << >>]
  BY DEF ClientHello, build_client_hello, ClientHelloExtension
<1>3. /\ [Plain("ClientHello") EXCEPT !.alpn = a, !.ticket = << >>] \in Messages
      /\ [Plain("ClientHello") EXCEPT !.alpn = a, !.ticket = << >>].type = "ClientHello"
      /\ [Plain("ClientHello") EXCEPT !.alpn = a, !.ticket = << >>].alpn = a
  BY <1>1 DEF Plain, Messages
<1>4. QED
  BY <1>2, <1>3

(* Every ServerHello: the protocol is written only if ALPN is among the    *)
(* extensions, and the key share is one of them.                           *)
LEMMA ServerHelloTypes ==
    ASSUME NEW a \in Seq(Protocols), NEW x, "ALPN" \in x \/ a = << >>
    PROVE  LET m == ServerHello([extensions |-> x, alpn |-> a])
           IN  /\ m \in Messages /\ m.type = "ServerHello" /\ m.alpn = a
               /\ m.share <=> "KeyShare" \in x
<1>1. "ServerHello" \in Types
  BY DEF Types
<1> DEFINE b == "KeyShare" \in x
<1>2. b \in BOOLEAN
  OBVIOUS
<1> DEFINE h == [extensions |-> x, alpn |-> a]
<1>3. h.extensions = x /\ h.alpn = a
  OBVIOUS
<1> HIDE DEF h
<1>4. ServerHello(h) = [Plain("ServerHello") EXCEPT !.alpn = a, !.share = b]
  BY <1>3 DEF ServerHello, ServerHelloExtension
<1>a. << >> \in Seq(Protocols) /\ << >> \in Seq({"ticket"}) /\ << >> \in Seq(Types)
  OBVIOUS
<1>5. /\ [Plain("ServerHello") EXCEPT !.alpn = a, !.share = b] \in Messages
      /\ [Plain("ServerHello") EXCEPT !.alpn = a, !.share = b].type = "ServerHello"
      /\ [Plain("ServerHello") EXCEPT !.alpn = a, !.share = b].alpn = a
      /\ [Plain("ServerHello") EXCEPT !.alpn = a, !.share = b].share = b
  <2> HIDE DEF b
  <2> QED
    BY <1>1, <1>2, <1>a DEF Plain, Messages
<1>6. QED
  BY <1>2, <1>4, <1>5 DEF h

LEMMA Transcripts ==
    /\ Hello \in Seq(Types) /\ Hellos \in Seq(Types)
    /\ Certified \in Seq(Types) /\ Verified \in Seq(Types)
<1>1. Hello \in Seq(Types)
  BY DEF Hello, Types
<1>2. {"ServerHello", "Certificate", "CertificateVerify"} \subseteq Types
  BY DEF Types
<1>3. Hellos \in Seq(Types)
  BY <1>1, <1>2 DEF Hellos
<1>4. Certified \in Seq(Types)
  BY <1>2, <1>3 DEF Certified
<1>5. QED
  BY <1>1, <1>2, <1>3, <1>4 DEF Verified

LEMMA ConfigType ==
    ASSUME TypeOK
    PROVE  /\ cfg \in Config /\ cfg.client_alpn \in Seq(Protocols)
           /\ cfg.server_alpn \in Seq(Protocols)
           /\ cfg.ticket_key \in BOOLEAN /\ cfg.require_client_auth \in BOOLEAN
           /\ cfg.peer \in {"accept", "resumes", "declines"}
<1>1. cfg \in Config
  BY HandshakeConstants DEF TypeOK
<1>2. QED
  BY <1>1 DEF Config

LEMMA SelectedType ==
    ASSUME TypeOK
    PROVE  Selected \in Seq(Protocols)
<1> DEFINE mine == cfg.server_alpn
           offers == cfg.client_alpn
           common == {i \in 1..Len(offers) : \E j \in 1..Len(mine) : mine[j] = offers[i]}
           pos == CHOOSE i \in common : \A j \in common : i <= j
<1>1. PICK n \in Nat : n = Len(offers)
  BY ConfigType
<1>2. common \in SUBSET (1..n)
  BY <1>1
<1>3. CASE common = {}
  <2>1. Selected = << >>
    BY <1>3 DEF Selected, select_alpn
  <2>2. QED
    BY <2>1
<1>4. CASE common # {}
  <2>1. Selected = <<offers[pos]>>
    BY <1>4 DEF Selected, select_alpn
  <2>2. pos \in 1..n
    <3> HIDE DEF common
    <3>1. QED
      BY <1>2, <1>4, FirstPosition
  <2>3. offers[pos] \in Protocols
    <3>1. offers \in Seq(Protocols)
      BY ConfigType
    <3> HIDE DEF offers, pos
    <3>2. QED
      BY <1>1, <2>2, <3>1
  <2>4. QED
    BY <2>1, <2>3
<1>5. QED
  BY <1>3, <1>4

(* Nothing of this depends on more than the configuration. *)
LEMMA SameConfig ==
    ASSUME cfg' = cfg
    PROVE  /\ \A k, m : ServerSays(k, m)' <=> ServerSays(k, m)
           /\ \A k, m : ClientSays(k, m)' <=> ClientSays(k, m)
           /\ \A c : VerifyCertificate(c)' = VerifyCertificate(c)
           /\ Selected' = Selected /\ Covered' = Covered
           /\ (Shows' <=> Shows) /\ (Unchecked' <=> Unchecked)
           /\ (Speaks' <=> Speaks) /\ Extra' = Extra
           /\ Good' <=> Good
<1>1. Selected' = Selected
  BY DEF Selected
<1>2. Good' <=> Good
  BY DEF Good, GoodConfig, FreshCrl, CrlFresh
<1>3. \A c : VerifyCertificate(c)' = VerifyCertificate(c)
  BY DEF VerifyCertificate, CrlFresh
<1>4. \A k, m : ServerSays(k, m)' <=> ServerSays(k, m)
  BY <1>1 DEF ServerSays, Shows
<1>5. \A k, m : ClientSays(k, m)' <=> ClientSays(k, m)
  BY DEF ClientSays, Speaks, Covered
<1>6. /\ Covered' = Covered /\ (Shows' <=> Shows) /\ (Unchecked' <=> Unchecked)
      /\ (Speaks' <=> Speaks) /\ Extra' = Extra
  BY DEF Covered, Shows, Unchecked, Speaks, Extra
<1>7. QED
  BY <1>1, <1>2, <1>3, <1>4, <1>5, <1>6

-----------------------------------------------------------------------------
(* The two directions of the transport. *)

LEMMA Sent ==
    ASSUME NEW q \in Seq(Messages), NEW m \in Messages
    PROVE  /\ Append(q, m) \in Seq(Messages) /\ Len(Append(q, m)) = Len(q) + 1
           /\ \A i \in 1..Len(q) + 1 :
                 Append(q, m)[i] = IF i = Len(q) + 1 THEN m ELSE q[i]
           /\ Len(q) \in Nat
  OBVIOUS

LEMMA Taken ==
    ASSUME NEW q \in Seq(Messages), q # << >>
    PROVE  /\ Tail(q) \in Seq(Messages) /\ Len(Tail(q)) = Len(q) - 1
           /\ \A i \in 1..Len(q) - 1 : Tail(q)[i] = q[i + 1]
           /\ Head(q) = q[1] /\ q[1] \in Messages /\ 1 \in 1..Len(q) /\ Len(q) \in Nat
  OBVIOUS

LEMMA Counts ==
    ServerSent \in 0..5 /\ ClientRead \in 0..3 /\ ClientSent \in 0..3 /\ ServerRead \in 0..3
<1>1. Extra \in 0..2
  BY DEF Extra
<1>2. ServerSent \in 0..5
  BY <1>1 DEF ServerSent
<1>3. QED
  BY <1>2 DEF ClientRead, ClientSent, ServerRead

LEMMA ServerSaid ==
    ASSUME Inv, NEW m \in Messages, server # "failed", s2c' = Append(s2c, m),
           UNCHANGED <<cfg, client>>, ServerSays(ServerSent + 1, m),
           ServerSent' = ServerSent + 1
    PROVE  FromServer' /\ s2c' \in Seq(Messages)
<1>1. s2c \in Seq(Messages)
  BY DEF Inv, TypeOK
<1>2. PICK n \in Nat : n = Len(s2c)
  BY <1>1
<1>3. /\ s2c' \in Seq(Messages) /\ Len(s2c') = n + 1
      /\ \A i \in 1..n + 1 : s2c'[i] = IF i = n + 1 THEN m ELSE s2c[i]
  BY <1>1, <1>2, Sent
<1>4. ClientReads' = ClientReads /\ ClientRead' = ClientRead
  BY DEF ClientReads, ClientRead
<1>5. PICK r \in 0..3 : r = ClientRead
  BY Counts
<1>6. PICK c \in 0..5 : c = ServerSent
  BY Counts
<1>7. ASSUME ClientReads
      PROVE  /\ \A i \in 1..n + 1 : ServerSays(r + i, s2c'[i])
             /\ n + 1 + r = c + 1
  <2>1. n + r = c /\ \A i \in 1..n : ServerSays(r + i, s2c[i])
    BY <1>2, <1>5, <1>6, <1>7 DEF Inv, FromServer
  <2>2. r + (n + 1) = c + 1
    BY <2>1
  <2>3. ServerSays(r + (n + 1), m)
    BY <1>6, <2>2
  <2>4. QED
    BY <1>3, <2>1, <2>2, <2>3
<1>8. QED
  BY <1>3, <1>4, <1>5, <1>6, <1>7, SameConfig DEF FromServer

LEMMA ClientSaid ==
    ASSUME Inv, NEW m \in Messages, client \notin {"ok", "failed"}, client' # "failed",
           c2s' = Append(c2s, m), UNCHANGED <<cfg, server, first_read>>,
           ClientSays(ClientSent + 1, m), ClientSent' = ClientSent + 1
    PROVE  FromClient' /\ c2s' \in Seq(Messages)
<1>1. c2s \in Seq(Messages)
  BY DEF Inv, TypeOK
<1>2. PICK n \in Nat : n = Len(c2s)
  BY <1>1
<1>3. /\ c2s' \in Seq(Messages) /\ Len(c2s') = n + 1
      /\ \A i \in 1..n + 1 : c2s'[i] = IF i = n + 1 THEN m ELSE c2s[i]
  BY <1>1, <1>2, Sent
<1>4. ServerRead' = ServerRead
  BY DEF ServerRead
<1>5. PICK r \in 0..3 : r = ServerRead
  BY Counts
<1>6. PICK c \in 0..3 : c = ClientSent
  BY Counts
<1>7. ASSUME server # "failed", first_read = "none"
      PROVE  /\ \A i \in 1..n + 1 : ClientSays(r + i, c2s'[i])
             /\ n + 1 + r = c + 1
  <2>1. n + r = c /\ \A i \in 1..n : ClientSays(r + i, c2s[i])
    BY <1>2, <1>5, <1>6, <1>7 DEF Inv, FromClient
  <2>2. r + (n + 1) = c + 1
    BY <2>1
  <2>3. ClientSays(r + (n + 1), m)
    BY <1>6, <2>2
  <2>4. QED
    BY <1>3, <2>1, <2>2, <2>3
<1>8. QED
  BY <1>3, <1>4, <1>5, <1>6, <1>7, SameConfig DEF FromClient

LEMMA ClientTook ==
    ASSUME Inv, s2c # << >>, s2c' = Tail(s2c), UNCHANGED <<cfg, server>>,
           ClientReads, ClientReads' => ClientRead' = ClientRead + 1
    PROVE  /\ FromServer' /\ s2c' \in Seq(Messages)
           /\ Head(s2c) \in Messages /\ ServerSays(ClientRead + 1, Head(s2c))
<1>1. s2c \in Seq(Messages)
  BY DEF Inv, TypeOK
<1>2. PICK n \in Nat : n = Len(s2c)
  BY <1>1
<1>3. /\ s2c' \in Seq(Messages) /\ Len(s2c') = n - 1 /\ n >= 1
      /\ \A i \in 1..n - 1 : s2c'[i] = s2c[i + 1]
      /\ Head(s2c) = s2c[1] /\ Head(s2c) \in Messages
  BY <1>1, <1>2, Taken
<1>4. PICK r \in 0..3 : r = ClientRead
  BY Counts
<1>5. \A i \in 1..n : ServerSays(r + i, s2c[i])
  BY <1>2, <1>4 DEF Inv, FromServer
<1>6. ServerSent' = ServerSent
  BY DEF ServerSent, Extra
<1>7. \A i \in 1..n - 1 : ServerSays(r + 1 + i, s2c'[i])
  <2> SUFFICES ASSUME NEW i \in 1..n - 1
               PROVE  ServerSays(r + 1 + i, s2c'[i])
    OBVIOUS
  <2>1. i + 1 \in 1..n /\ r + (i + 1) = r + 1 + i
    OBVIOUS
  <2>2. ServerSays(r + (i + 1), s2c[i + 1])
    BY <1>5, <2>1
  <2>3. QED
    BY <1>3, <2>1, <2>2
<1>8. server # "failed" => n - 1 + (r + 1) = ServerSent
  BY <1>2, <1>4, Counts DEF Inv, FromServer
<1>9. ServerSays(ClientRead + 1, Head(s2c))
  BY <1>3, <1>4, <1>5
<1>10. QED
  BY <1>3, <1>4, <1>6, <1>7, <1>8, <1>9, SameConfig DEF FromServer

LEMMA ServerTook ==
    ASSUME Inv, c2s # << >>, c2s' = Tail(c2s), UNCHANGED <<cfg, client, first_read>>,
           server # "failed", first_read = "none",
           server' # "failed" => ServerRead' = ServerRead + 1
    PROVE  /\ FromClient' /\ c2s' \in Seq(Messages)
           /\ Head(c2s) \in Messages /\ ClientSays(ServerRead + 1, Head(c2s))
<1>1. c2s \in Seq(Messages)
  BY DEF Inv, TypeOK
<1>2. PICK n \in Nat : n = Len(c2s)
  BY <1>1
<1>3. /\ c2s' \in Seq(Messages) /\ Len(c2s') = n - 1 /\ n >= 1
      /\ \A i \in 1..n - 1 : c2s'[i] = c2s[i + 1]
      /\ Head(c2s) = c2s[1] /\ Head(c2s) \in Messages
  BY <1>1, <1>2, Taken
<1>4. PICK r \in 0..3 : r = ServerRead
  BY Counts
<1>5. \A i \in 1..n : ClientSays(r + i, c2s[i])
  BY <1>2, <1>4 DEF Inv, FromClient
<1>6. ClientSent' = ClientSent
  BY DEF ClientSent
<1>7. \A i \in 1..n - 1 : ClientSays(r + 1 + i, c2s'[i])
  <2> SUFFICES ASSUME NEW i \in 1..n - 1
               PROVE  ClientSays(r + 1 + i, c2s'[i])
    OBVIOUS
  <2>1. i + 1 \in 1..n /\ r + (i + 1) = r + 1 + i
    OBVIOUS
  <2>2. ClientSays(r + (i + 1), c2s[i + 1])
    BY <1>5, <2>1
  <2>3. QED
    BY <1>3, <2>1, <2>2
<1>8. /\ client # "failed" => n - 1 + (r + 1) >= ClientSent
      /\ client \notin {"ok", "failed"} => n - 1 + (r + 1) = ClientSent
  BY <1>2, <1>4, Counts DEF Inv, FromClient
<1>9. ClientSays(ServerRead + 1, Head(c2s))
  BY <1>3, <1>4, <1>5
<1>10. QED
  BY <1>3, <1>4, <1>6, <1>7, <1>8, <1>9, SameConfig DEF FromClient

-----------------------------------------------------------------------------
(* A side gives up. *)

LEMMA ClientFailsInv ==
    ASSUME Inv, NEW r \in Reasons, ClientFails(r), client # "failed",
           UNCHANGED <<cfg, server, c2s, str, alpn, first_read>>, s2c' \in Seq(Messages),
           Good => r = "Timeout" \/ TimedOut
    PROVE  Inv'
<1>1. /\ client' = "failed" /\ why' = [why EXCEPT !.client = r] /\ ctr' = ctr
      /\ why \in [client : Reasons, server : Reasons]
  BY DEF ClientFails, Inv, TypeOK
<1>2. /\ why' \in [client : Reasons, server : Reasons]
      /\ why'.client = r /\ why'.server = why.server
  BY <1>1
<1>3. TypeOK'
  BY <1>1, <1>2 DEF Inv, TypeOK, ClientStages
<1>4. FromServer' /\ ClientKnows' /\ ClientChecked'
  BY <1>1 DEF FromServer, ClientReads, ClientKnows, ClientChecked, Through
<1>5. FromClient'
  <2>1. ServerRead' = ServerRead
    BY DEF ServerRead
  <2>2. QED
    BY <1>1, <2>1, SameConfig DEF Inv, FromClient
<1>6. ServerKnows' /\ ServerChecked' /\ FirstRead'
  BY SameConfig DEF Inv, ServerKnows, ServerChecked, FirstRead
<1>7. Blame'
  <2>1. why.client # "Timeout"
    BY DEF Inv, Blame
  <2>2. Good => TimedOut'
    BY <1>2, <2>1 DEF TimedOut
  <2>3. QED
    BY <1>1, <1>2, <2>2, SameConfig DEF Inv, Blame
<1>8. QED
  BY <1>3, <1>4, <1>5, <1>6, <1>7 DEF Inv

LEMMA ServerFailsInv ==
    ASSUME Inv, NEW r \in Reasons, ServerFails(r), server # "failed", server # "ok",
           UNCHANGED <<cfg, client, s2c, ctr, alpn, first_read>>, c2s' \in Seq(Messages),
           Good => r = "Timeout" \/ TimedOut
    PROVE  Inv'
<1>1. /\ server' = "failed" /\ why' = [why EXCEPT !.server = r] /\ str' = str
      /\ why \in [client : Reasons, server : Reasons]
  BY DEF ServerFails, Inv, TypeOK
<1>2. /\ why' \in [client : Reasons, server : Reasons]
      /\ why'.server = r /\ why'.client = why.client
  BY <1>1
<1>3. TypeOK'
  BY <1>1, <1>2 DEF Inv, TypeOK, ServerStages
<1>4. FromClient' /\ ServerKnows' /\ ServerChecked'
  BY <1>1 DEF FromClient, ServerKnows, ServerChecked
<1>5. FromServer'
  <2>1. ClientRead' = ClientRead /\ ClientReads' = ClientReads
    BY DEF ClientRead, ClientReads
  <2>2. QED
    BY <1>1, <2>1, SameConfig DEF Inv, FromServer
<1>6. ClientKnows' /\ ClientChecked' /\ FirstRead'
  BY SameConfig DEF Inv, ClientKnows, ClientChecked, Through, FirstRead
<1>7. Blame'
  <2>1. why.server # "Timeout"
    BY DEF Inv, Blame
  <2>2. Good => TimedOut'
    BY <1>2, <2>1 DEF TimedOut
  <2>3. QED
    BY <1>1, <1>2, <2>2, SameConfig DEF Inv, Blame
<1>8. QED
  BY <1>3, <1>4, <1>5, <1>6, <1>7 DEF Inv

(* A side goes on. *)
LEMMA ClientGoesOn ==
    ASSUME Inv, client # "failed", client' \in ClientStages \ {"failed"},
           UNCHANGED <<cfg, server, str, why, first_read>>,
           s2c' \in Seq(Messages), c2s' \in Seq(Messages), ctr' \in Seq(Types),
           alpn' \in [client : Seq(Protocols), server : Seq(Protocols)],
           alpn'.server = alpn.server,
           FromServer', FromClient', ClientKnows', ClientChecked'
    PROVE  Inv'
<1>1. TypeOK'
  BY DEF Inv, TypeOK
<1>2. ServerKnows' /\ ServerChecked' /\ FirstRead'
  BY SameConfig DEF Inv, ServerKnows, ServerChecked, FirstRead
<1>3. TimedOut' <=> TimedOut
  BY DEF TimedOut
<1>4. Blame'
  BY <1>3, SameConfig DEF Inv, Blame
<1>5. QED
  BY <1>1, <1>2, <1>4 DEF Inv

LEMMA ServerGoesOn ==
    ASSUME Inv, server # "failed", server' \in ServerStages \ {"failed"},
           UNCHANGED <<cfg, client, ctr, why, first_read>>, first_read = "none",
           s2c' \in Seq(Messages), c2s' \in Seq(Messages), str' \in Seq(Types),
           alpn' \in [client : Seq(Protocols), server : Seq(Protocols)],
           alpn'.client = alpn.client,
           FromServer', FromClient', ServerKnows', ServerChecked'
    PROVE  Inv'
<1>1. TypeOK'
  BY DEF Inv, TypeOK
<1>2. ClientKnows' /\ ClientChecked' /\ FirstRead'
  BY SameConfig DEF Inv, ClientKnows, ClientChecked, Through, FirstRead
<1>3. TimedOut' <=> TimedOut
  BY DEF TimedOut
<1>4. Blame'
  BY <1>3, SameConfig DEF Inv, Blame
<1>5. QED
  BY <1>1, <1>2, <1>4 DEF Inv

(* The peer that gave up has not done so in a good configuration, unless   *)
(* somebody timed out.                                                     *)
LEMMA PeerGone ==
    ASSUME Inv, client = "failed" \/ server = "failed"
    PROVE  Good => TimedOut
  BY DEF Inv, Blame

LEMMA ReasonNames ==
    {"Unexpected", "Certificate", "Crl", "Signature", "Closed", "Timeout", "Ticket", "Key"}
        \subseteq Reasons
  BY DEF Reasons

LEMMA ClientClosed ==
    ASSUME Inv, client # "failed", server = "failed", ClientFails("Closed"),
           UNCHANGED <<cfg, server, c2s, s2c, str, alpn, first_read>>
    PROVE  Inv'
<1>1. s2c' \in Seq(Messages)
  BY DEF Inv, TypeOK
<1>2. QED
  BY <1>1, ReasonNames, PeerGone, ClientFailsInv

LEMMA ServerClosed ==
    ASSUME Inv, server \notin {"failed", "ok"}, client = "failed", ServerFails("Closed"),
           UNCHANGED <<cfg, client, c2s, s2c, ctr, alpn, first_read>>
    PROVE  Inv'
<1>1. c2s' \in Seq(Messages)
  BY DEF Inv, TypeOK
<1>2. QED
  BY <1>1, ReasonNames, PeerGone, ServerFailsInv

-----------------------------------------------------------------------------
(* connect_gm_rust_inner. *)

LEMMA SendClientHelloInv ==
    ASSUME Inv, SendClientHello
    PROVE  Inv'
<1>1. /\ client = "start" /\ UNCHANGED <<cfg, server, s2c, str, alpn, first_read>>
      /\ TypeOK
  BY DEF SendClientHello, Inv
<1>2. CASE cfg.ticket = "abort" /\ ClientFails("Ticket") /\ UNCHANGED c2s
  <2>1. ~Good /\ s2c' \in Seq(Messages)
    BY <1>1, <1>2 DEF Good, GoodConfig, TypeOK
  <2>2. QED
    BY <1>1, <1>2, <2>1, ReasonNames, ClientFailsInv
<1>3. CASE cfg.ticket # "abort"
  <2>1. PICK t \in Seq({"ticket"}) :
           ClientSends(ClientHello(build_client_hello(cfg.client_alpn, t)),
                       "hello", <<"ClientHello">>)
    <3>1. <<"ticket">> \in Seq({"ticket"}) /\ << >> \in Seq({"ticket"})
      OBVIOUS
    <3>2. QED
      BY <1>3, <3>1 DEF SendClientHello
  <2>2. PICK m \in Messages : /\ m = ClientHello(build_client_hello(cfg.client_alpn, t))
                              /\ m.type = "ClientHello" /\ m.alpn = cfg.client_alpn
    BY <1>1, ConfigType, HelloTypes
  <2>3. CASE server = "failed" /\ ClientFails("Closed") /\ UNCHANGED c2s
    BY <1>1, <2>3, ClientClosed
  <2>4. CASE /\ c2s' = Append(c2s, m) /\ client' = "hello" /\ ctr' = <<"ClientHello">>
             /\ UNCHANGED why
    <3>1. ClientSent = 0 /\ ClientSent' = 1
      BY <1>1, <2>4 DEF ClientSent
    <3>2. ClientSays(0 + 1, m)
      BY <2>2 DEF ClientSays
    <3>3. FromClient' /\ c2s' \in Seq(Messages)
      BY <1>1, <2>4, <3>1, <3>2, ClientSaid
    <3>4. ServerSent' = ServerSent /\ ClientRead' = ClientRead /\ ClientReads' = ClientReads
      BY <1>1, <2>4 DEF ServerSent, ClientRead, ClientReads, Extra
    <3>5. FromServer' /\ s2c' \in Seq(Messages)
      BY <1>1, <3>4, SameConfig DEF Inv, FromServer, TypeOK
    <3>6. ctr' = Hello /\ ctr' \in Seq(Types)
      BY <2>4, Transcripts DEF Hello
    <3>7. ClientKnows' /\ ClientChecked'
      BY <2>4, <3>6 DEF ClientKnows, ClientChecked, Through
    <3>8. alpn \in [client : Seq(Protocols), server : Seq(Protocols)]
      BY <1>1 DEF TypeOK
    <3>9. client' \in ClientStages \ {"failed"}
      BY <2>4 DEF ClientStages
    <3>10. QED
      BY <1>1, <2>4, <3>3, <3>5, <3>6, <3>7, <3>8, <3>9, ClientGoesOn
  <2>5. QED
    BY <2>1, <2>2, <2>3, <2>4 DEF ClientSends
<1>4. QED
  BY <1>2, <1>3 DEF SendClientHello

(* A read that takes no message: the transport of a peer that gave up. *)
LEMMA ClientReadsEndInv ==
    ASSUME Inv, client # "failed", ClientReadsEnd,
           UNCHANGED <<cfg, server, c2s, s2c, str, alpn, first_read>>
    PROVE  Inv'
  BY ClientClosed DEF ClientReadsEnd

LEMMA ReadServerHelloInv ==
    ASSUME Inv, ReadServerHello
    PROVE  Inv'
<1>1. /\ client = "hello" /\ UNCHANGED <<cfg, server, c2s, str, first_read>>
      /\ TypeOK /\ ctr = Hello /\ ctr \in Seq(Types)
  BY DEF ReadServerHello, Inv, ClientKnows, TypeOK
<1>2. CASE ClientReadsEnd /\ UNCHANGED <<s2c, alpn>>
  BY <1>1, <1>2, ClientReadsEndInv
<1>3. CASE /\ s2c # << >> /\ s2c' = Tail(s2c)
           /\ \/ cfg.ticket # "resume" /\ client' = "certificate"
              \/ /\ cfg.ticket = "resume" /\ Head(s2c).share
                 /\ client' = "ticket_finished"
              \/ cfg.ticket = "resume" /\ ~Head(s2c).share /\ client' = "ok"
           /\ ctr' = Append(ctr, Head(s2c).type)
           /\ alpn' = [alpn EXCEPT !.client = Head(s2c).alpn]
           /\ UNCHANGED why
  <2>1. ClientReads /\ ClientRead = 0 /\ (ClientReads' => ClientRead' = 1)
    BY <1>1, <1>3 DEF ClientReads, ClientRead
  <2>2. /\ FromServer' /\ s2c' \in Seq(Messages)
        /\ Head(s2c) \in Messages /\ ServerSays(0 + 1, Head(s2c))
    BY <1>1, <1>3, <2>1, ClientTook
  <2>3. PICK a \in Seq(Protocols) : a = Selected
    BY <1>1, SelectedType
  <2>4. /\ Head(s2c).type = "ServerHello" /\ Head(s2c).alpn = a
        /\ Head(s2c).share <=> cfg.peer # "resumes"
    BY <2>2, <2>3 DEF ServerSays
  <2>5. \/ cfg.ticket # "resume" /\ client' = "certificate"
        \/ /\ cfg.ticket = "resume" /\ cfg.peer # "resumes"
           /\ client' = "ticket_finished"
        \/ cfg.ticket = "resume" /\ cfg.peer = "resumes" /\ client' = "ok"
    BY <1>3, <2>4
  <2>6. ctr' = Hellos /\ ctr' \in Seq(Types)
    BY <1>1, <1>3, <2>4, Transcripts DEF Hellos
  <2>7. /\ alpn' \in [client : Seq(Protocols), server : Seq(Protocols)]
        /\ alpn'.server = alpn.server /\ alpn'.client = a
    BY <1>1, <1>3, <2>4 DEF TypeOK
  <2>8. ClientKnows'
    BY <1>1, <2>3, <2>5, <2>6, <2>7, SameConfig
       DEF ClientKnows, Covered, Unchecked
  <2>9. ClientChecked'
    BY <1>1, <2>5, SameConfig DEF ClientChecked, Through, Unchecked
  <2>10. ClientSent' = 1 /\ ClientSent = 1 /\ ServerRead' = ServerRead
    BY <1>1, <2>5, SameConfig DEF ClientSent, ServerRead, Speaks
  <2>11. FromClient' /\ c2s' \in Seq(Messages)
    <3>1. PICK n \in Nat : n = Len(c2s)
      BY <1>1 DEF TypeOK
    <3>2. server # "failed" /\ first_read = "none" => n + ServerRead = 1
      BY <1>1, <2>10, <3>1 DEF Inv, FromClient
    <3>3. \A i \in 1..n : server # "failed" /\ first_read = "none" =>
             ClientSays(ServerRead + i, c2s[i])
      BY <3>1 DEF Inv, FromClient
    <3>4. QED
      BY <1>1, <2>10, <3>1, <3>2, <3>3, SameConfig DEF FromClient, TypeOK
  <2>12. client' \in ClientStages \ {"failed"}
    BY <2>5 DEF ClientStages
  <2>13. QED
    BY <1>1, <1>3, <2>2, <2>6, <2>7, <2>8, <2>9, <2>11, <2>12, ClientGoesOn
<1>4. QED
  BY <1>2, <1>3 DEF ReadServerHello, ClientCanRead

(* What VerifyCertificate may answer. *)
LEMMA Verdicts ==
    ASSUME NEW c
    PROVE  /\ VerifyCertificate(c) \in {"none", "Certificate", "Crl"}
           /\ FreshCrl /\ c = "good" => VerifyCertificate(c) = "none"
           /\ VerifyCertificate(c) = "none" =>
                 c # "untrusted" /\ (cfg.crl => c # "revoked")
  BY DEF VerifyCertificate, FreshCrl

LEMMA ReadServerCertificateInv ==
    ASSUME Inv, ReadServerCertificate
    PROVE  Inv'
<1> DEFINE refused == IF cfg.client_ca THEN VerifyCertificate(cfg.server_cert) ELSE "none"
<1>1. /\ client = "certificate" /\ UNCHANGED <<cfg, server, c2s, str, alpn, first_read>>
      /\ TypeOK /\ ctr = Hellos /\ ctr \in Seq(Types) /\ alpn.client = Selected
      /\ cfg.ticket # "resume"
  BY DEF ReadServerCertificate, Inv, ClientKnows, TypeOK
<1>2. CASE ClientReadsEnd /\ UNCHANGED s2c
  BY <1>1, <1>2, ClientReadsEndInv
<1>3. CASE /\ s2c # << >> /\ s2c' = Tail(s2c)
           /\ \/ /\ Head(s2c).type = "Certificate" /\ refused = "none"
                 /\ client' = "verify" /\ ctr' = Append(ctr, "Certificate")
                 /\ UNCHANGED why
              \/ /\ Head(s2c).type = "Certificate" /\ refused # "none"
                 /\ ClientFails(refused)
              \/ /\ Head(s2c).type # "Certificate"
                 /\ ClientFails("Unexpected")
  <2>1. ClientReads /\ ClientRead = 1 /\ (ClientReads' => ClientRead' = 1 + 1)
    BY <1>1, <1>3 DEF ClientReads, ClientRead, ClientFails
  <2>2. /\ FromServer' /\ s2c' \in Seq(Messages)
        /\ Head(s2c) \in Messages /\ ServerSays(1 + 1, Head(s2c))
    BY <1>1, <1>3, <2>1, ClientTook
  <2>3. Hellos \in Seq(Types)
    BY Transcripts
  <2>4. Head(s2c).type = "Certificate" <=> Shows
    <3>1. CASE cfg.peer = "accept"
      BY <2>2, <3>1 DEF ServerSays, Shows
    <3>2. CASE cfg.peer # "accept"
      BY <2>2, <2>3, <3>2, MessageTypes DEF ServerSays, Shows
    <3>3. QED
      BY <3>1, <3>2
  <2>5. CASE ClientFails("Unexpected") /\ Head(s2c).type # "Certificate"
    <3>1. ~Good
      BY <2>4, <2>5 DEF Good, GoodConfig, Shows
    <3>2. QED
      BY <1>1, <2>2, <2>5, <3>1, ReasonNames, ClientFailsInv
  <2>6. CASE ClientFails(refused) /\ refused # "none"
    <3>1. refused \in Reasons /\ ~Good
      BY <2>6, Verdicts, ReasonNames DEF Good, GoodConfig
    <3> HIDE DEF refused
    <3>2. QED
      BY <1>1, <2>2, <2>6, <3>1, ClientFailsInv
  <2>7. CASE /\ Head(s2c).type = "Certificate" /\ refused = "none"
             /\ client' = "verify" /\ ctr' = Append(ctr, "Certificate")
             /\ UNCHANGED why
    <3>1. ctr' = Certified /\ ctr' \in Seq(Types)
      BY <1>1, <2>7, Transcripts DEF Certified
    <3>2. ClientKnows'
      BY <1>1, <2>4, <2>7, <3>1, SameConfig DEF ClientKnows
    <3>3. ClientChecked'
      BY <1>1, <2>7, SameConfig DEF ClientChecked, Through
    <3>4. ClientSent' = ClientSent /\ ServerRead' = ServerRead
      BY <1>1, <2>7 DEF ClientSent, ServerRead
    <3>5. FromClient' /\ c2s' \in Seq(Messages)
      BY <1>1, <2>7, <3>4, SameConfig DEF Inv, FromClient, TypeOK
    <3>6. client' \in ClientStages \ {"failed"}
      BY <2>7 DEF ClientStages
    <3>7. alpn' \in [client : Seq(Protocols), server : Seq(Protocols)]
      BY <1>1 DEF TypeOK
    <3>8. QED
      BY <1>1, <2>2, <2>7, <3>1, <3>2, <3>3, <3>5, <3>6, <3>7, ClientGoesOn
  <2>8. QED
    BY <1>3, <2>5, <2>6, <2>7
<1>4. QED
  BY <1>2, <1>3 DEF ReadServerCertificate, ClientCanRead

LEMMA ReadCertificateVerifyInv ==
    ASSUME Inv, ReadCertificateVerify
    PROVE  Inv'
<1>1. /\ client = "verify" /\ UNCHANGED <<cfg, server, c2s, str, alpn, first_read>>
      /\ TypeOK /\ ctr = Certified /\ ctr \in Seq(Types) /\ alpn.client = Selected
      /\ Shows /\ cfg.ticket # "resume"
  BY DEF ReadCertificateVerify, Inv, ClientKnows, TypeOK
<1>2. CASE ClientReadsEnd /\ UNCHANGED s2c
  BY <1>1, <1>2, ClientReadsEndInv
<1>3. CASE /\ s2c # << >> /\ s2c' = Tail(s2c)
           /\ \/ /\ cfg.server_cert # "wrong_key" /\ client' = "finished"
                 /\ ctr' = Append(ctr, "CertificateVerify") /\ UNCHANGED why
              \/ /\ ~(Head(s2c) = CertificateVerify(ctr) /\ cfg.server_cert # "wrong_key")
                 /\ ClientFails("Signature")
  <2>1. ClientReads /\ ClientRead = 2 /\ (ClientReads' => ClientRead' = 2 + 1)
    BY <1>1, <1>3 DEF ClientReads, ClientRead, ClientFails
  <2>2. /\ FromServer' /\ s2c' \in Seq(Messages)
        /\ Head(s2c) \in Messages /\ ServerSays(2 + 1, Head(s2c))
    BY <1>1, <1>3, <2>1, ClientTook
  <2>3. Head(s2c) = CertificateVerify(ctr)
    BY <1>1, <2>2 DEF ServerSays
  <2>4. CASE ~(Head(s2c) = CertificateVerify(ctr) /\ cfg.server_cert # "wrong_key")
             /\ ClientFails("Signature")
    BY <1>1, <2>2, <2>3, <2>4, ReasonNames, ClientFailsInv DEF Good, GoodConfig
  <2>5. CASE /\ cfg.server_cert # "wrong_key" /\ client' = "finished"
             /\ ctr' = Append(ctr, "CertificateVerify") /\ UNCHANGED why
    <3>1. ctr' = Verified /\ ctr' \in Seq(Types)
      BY <1>1, <2>5, Transcripts DEF Verified
    <3>2. ClientKnows'
      BY <1>1, <2>5, <3>1, SameConfig DEF ClientKnows
    <3>3. ClientChecked'
      BY <1>1, <2>5, SameConfig DEF ClientChecked, Through, Inv
    <3>4. ClientSent' = ClientSent /\ ServerRead' = ServerRead
      BY <1>1, <2>5 DEF ClientSent, ServerRead
    <3>5. FromClient' /\ c2s' \in Seq(Messages)
      BY <1>1, <2>5, <3>4, SameConfig DEF Inv, FromClient, TypeOK
    <3>6. client' \in ClientStages \ {"failed"}
      BY <2>5 DEF ClientStages
    <3>7. alpn' \in [client : Seq(Protocols), server : Seq(Protocols)]
      BY <1>1 DEF TypeOK
    <3>8. QED
      BY <1>1, <2>2, <2>5, <3>1, <3>2, <3>3, <3>5, <3>6, <3>7, ClientGoesOn
  <2>6. QED
    BY <1>3, <2>4, <2>5
<1>4. QED
  BY <1>2, <1>3 DEF ReadCertificateVerify, ClientCanRead

(* After a refused ticket the client expects Finished, and what comes from *)
(* accept_gm_rust is something else.                                       *)
LEMMA ReadServerFinishedInv ==
    ASSUME Inv, ReadServerFinished
    PROVE  Inv'
<1>1. /\ client \in {"finished", "ticket_finished"}
      /\ UNCHANGED <<cfg, server, c2s, str, alpn, first_read>>
      /\ TypeOK /\ ctr \in Seq(Types) /\ alpn.client = Selected
  BY DEF ReadServerFinished, Inv, ClientKnows, TypeOK
<1>2. CASE ClientReadsEnd /\ UNCHANGED s2c
  BY <1>1, <1>2, ClientReadsEndInv
<1>3. CASE /\ s2c # << >> /\ s2c' = Tail(s2c)
           /\ IF Head(s2c) = Finished(ctr)
              THEN /\ client' = IF cfg.client_cert = "none" THEN "ok"
                                ELSE "send_certificate"
                   /\ UNCHANGED <<ctr, why>>
              ELSE ClientFails("Signature")
  <2>1. ClientReads /\ ~ClientReads'
    BY <1>1, <1>3 DEF ClientReads, ClientFails
  <2>2. /\ FromServer' /\ s2c' \in Seq(Messages)
        /\ Head(s2c) \in Messages /\ ServerSays(ClientRead + 1, Head(s2c))
    BY <1>1, <1>3, <2>1, ClientTook
  <2>3. CASE client = "ticket_finished" /\ cfg.peer = "accept"
    <3>1. ServerSays(1 + 1, Head(s2c))
      BY <2>2, <2>3 DEF ClientRead
    <3>2. Head(s2c).type # "Finished"
      BY <2>3, <3>1 DEF ServerSays
    <3>3. Head(s2c) # Finished(ctr)
      BY <1>1, <3>2, MessageTypes
    <3>4. cfg.ticket = "resume"
      BY <2>3 DEF Inv, ClientKnows
    <3>5. QED
      BY <1>1, <1>3, <2>2, <2>3, <3>3, <3>4, ReasonNames, ClientFailsInv DEF Good
  <2>4. CASE client = "finished" \/ cfg.peer # "accept"
    <3>1. /\ Head(s2c) = Finished(ctr) /\ ctr = Covered
          /\ Shows \/ Unchecked
          /\ cfg.ticket = "resume" => Unchecked
          /\ ~(cfg.peer = "resumes" /\ cfg.ticket = "resume")
      <4>1. CASE client = "finished"
        <5>1. ServerSays(3 + 1, Head(s2c))
          BY <2>2, <4>1 DEF ClientRead
        <5>2. ctr = Verified /\ Shows /\ cfg.ticket # "resume"
          BY <4>1 DEF Inv, ClientKnows
        <5>3. QED
          BY <5>1, <5>2 DEF ServerSays, Covered
      <4>2. CASE client = "ticket_finished" /\ cfg.peer # "accept"
        <5>1. ServerSays(1 + 1, Head(s2c))
          BY <2>2, <4>2 DEF ClientRead
        <5>2. ctr = Hellos /\ cfg.ticket = "resume" /\ cfg.peer # "resumes"
          BY <4>2 DEF Inv, ClientKnows
        <5>3. QED
          BY <4>2, <5>1, <5>2 DEF ServerSays, Covered, Unchecked
      <4>3. QED
        BY <1>1, <2>4, <4>1, <4>2
    <3>2. /\ client' = IF cfg.client_cert = "none" THEN "ok" ELSE "send_certificate"
          /\ UNCHANGED <<ctr, why>>
      BY <1>3, <3>1
    <3>3. ClientKnows'
      BY <1>1, <3>1, <3>2, SameConfig DEF ClientKnows, Speaks
    <3>4. ClientChecked'
      <4>1. client = "finished" \/ Unchecked
        BY <1>1, <2>4 DEF Inv, ClientKnows, Unchecked
      <4>2. QED
        BY <1>1, <3>2, <4>1, SameConfig DEF ClientChecked, Through, Inv
    <3>5. ClientSent' = 1 /\ ClientSent = 1 /\ ServerRead' = ServerRead
      BY <1>1, <3>2, SameConfig DEF ClientSent, ServerRead, Speaks
    <3>6. FromClient' /\ c2s' \in Seq(Messages)
      <4>1. PICK n \in Nat : n = Len(c2s)
        BY <1>1 DEF TypeOK
      <4>2. server # "failed" /\ first_read = "none" => n + ServerRead = 1
        BY <1>1, <3>5, <4>1 DEF Inv, FromClient
      <4>3. \A i \in 1..n : server # "failed" /\ first_read = "none" =>
               ClientSays(ServerRead + i, c2s[i])
        BY <4>1 DEF Inv, FromClient
      <4>4. QED
        BY <1>1, <3>5, <4>1, <4>2, <4>3, SameConfig DEF FromClient, TypeOK
    <3>7. client' \in ClientStages \ {"failed"}
      BY <3>2 DEF ClientStages
    <3>8. alpn' \in [client : Seq(Protocols), server : Seq(Protocols)]
      BY <1>1 DEF TypeOK
    <3>9. QED
      BY <1>1, <2>2, <3>2, <3>3, <3>4, <3>6, <3>7, <3>8, ClientGoesOn
  <2>5. QED
    BY <1>1, <2>3, <2>4
<1>4. QED
  BY <1>2, <1>3 DEF ReadServerFinished, ClientCanRead

LEMMA SendClientRestInv ==
    ASSUME Inv, SendClientCertificate \/ SendClientFinished
    PROVE  Inv'
<1>1. /\ client \in {"send_certificate", "send_finished"} /\ TypeOK
      /\ UNCHANGED <<cfg, server, s2c, str, alpn, first_read>>
      /\ ctr = Covered /\ ctr \in Seq(Types) /\ Speaks
  BY DEF SendClientCertificate, SendClientFinished, Inv, ClientKnows, TypeOK
<1>2. PICK m, stage :
        /\ ClientSends(m, stage, ctr)
        /\ \/ client = "send_certificate" /\ m = ClientCertificate /\ stage = "send_finished"
           \/ client = "send_finished" /\ m = Finished(ctr) /\ stage = "ok"
  BY DEF SendClientCertificate, SendClientFinished
<1>3. CASE server = "failed" /\ ClientFails("Closed") /\ UNCHANGED c2s
  BY <1>1, <1>3, ClientClosed
<1>4. CASE c2s' = Append(c2s, m) /\ client' = stage /\ ctr' = ctr /\ UNCHANGED why
  <2>1. m \in Messages
    BY <1>1, <1>2, MessageTypes
  <2>2. ClientSays(ClientSent + 1, m) /\ ClientSent' = ClientSent + 1
    <3>1. CASE client = "send_certificate"
      <4>1. ClientSent = 1 /\ ClientSent' = 2
        BY <1>1, <1>2, <1>4, <3>1 DEF ClientSent
      <4>2. ClientSays(2, m)
        BY <1>1, <1>2, <3>1, MessageTypes DEF ClientSays
      <4>3. QED
        BY <4>1, <4>2
    <3>2. CASE client = "send_finished"
      <4>1. ClientSent = 2 /\ ClientSent' = 3
        BY <1>1, <1>2, <1>4, <3>2, SameConfig DEF ClientSent, Speaks
      <4>2. ClientSays(3, m)
        BY <1>1, <1>2, <3>2 DEF ClientSays
      <4>3. QED
        BY <4>1, <4>2
    <3>3. QED
      BY <1>1, <3>1, <3>2
  <2>3. FromClient' /\ c2s' \in Seq(Messages)
    BY <1>1, <1>2, <1>4, <2>1, <2>2, ClientSaid
  <2>4. FromServer' /\ s2c' \in Seq(Messages)
    BY <1>1, <1>2, <1>4 DEF FromServer, ClientReads, TypeOK
  <2>5. ClientKnows' /\ ClientChecked'
    BY <1>1, <1>2, <1>4, SameConfig DEF Inv, ClientKnows, ClientChecked, Through
  <2>6. client' \in ClientStages \ {"failed"}
    BY <1>2, <1>4 DEF ClientStages
  <2>7. alpn' \in [client : Seq(Protocols), server : Seq(Protocols)]
    BY <1>1 DEF TypeOK
  <2>8. QED
    BY <1>1, <1>4, <2>3, <2>4, <2>5, <2>6, <2>7, ClientGoesOn
<1>5. QED
  BY <1>2, <1>3, <1>4 DEF ClientSends

-----------------------------------------------------------------------------
(* accept_gm_rust_inner_with_cert. *)

LEMMA ServerReadsEndInv ==
    ASSUME Inv, server \notin {"ok", "failed"}, ServerReadsEnd,
           UNCHANGED <<cfg, client, c2s, s2c, ctr, alpn, first_read>>
    PROVE  Inv'
  BY ServerClosed DEF ServerReadsEnd

LEMMA ReadClientHelloInv ==
    ASSUME Inv, ReadClientHello
    PROVE  Inv'
<1>1. /\ server = "hello" /\ UNCHANGED <<cfg, client, s2c, ctr, first_read>>
      /\ TypeOK /\ first_read = "none"
  BY DEF ReadClientHello, Inv, FirstRead
<1>2. CASE ServerReadsEnd /\ UNCHANGED <<c2s, alpn>>
  BY <1>1, <1>2, ServerReadsEndInv
<1>3. CASE /\ c2s # << >> /\ c2s' = Tail(c2s)
           /\ server' = "send_hello" /\ str' = <<Head(c2s).type>>
           /\ alpn' = [alpn EXCEPT !.server =
                          select_alpn(cfg.server_alpn, Head(c2s).alpn)]
           /\ UNCHANGED why
  <2>1. ServerRead = 0 /\ ServerRead' = 0 + 1
    BY <1>1, <1>3 DEF ServerRead
  <2>2. /\ FromClient' /\ c2s' \in Seq(Messages)
        /\ Head(c2s) \in Messages /\ ClientSays(0 + 1, Head(c2s))
    BY <1>1, <1>3, <2>1, ServerTook
  <2>3. Head(c2s).type = "ClientHello" /\ Head(c2s).alpn = cfg.client_alpn
    BY <2>2 DEF ClientSays
  <2>4. str' = Hello /\ str' \in Seq(Types)
    BY <1>3, <2>3, Transcripts DEF Hello
  <2>5. alpn' = [alpn EXCEPT !.server = Selected]
    BY <1>3, <2>3 DEF Selected
  <2>6. /\ alpn' \in [client : Seq(Protocols), server : Seq(Protocols)]
        /\ alpn'.client = alpn.client /\ alpn'.server = Selected
    BY <1>1, <2>5, SelectedType DEF TypeOK
  <2>7. ServerKnows' /\ ServerChecked'
    BY <1>3, <2>4, <2>6, SameConfig, <1>1 DEF ServerKnows, ServerChecked
  <2>8. ServerSent' = ServerSent /\ ClientRead' = ClientRead /\ ClientReads' = ClientReads
    BY <1>1, <1>3 DEF ServerSent, ClientRead, ClientReads
  <2>9. FromServer' /\ s2c' \in Seq(Messages)
    BY <1>1, <2>8, SameConfig DEF Inv, FromServer, TypeOK
  <2>10. server' \in ServerStages \ {"failed"}
    BY <1>3 DEF ServerStages
  <2>11. QED
    BY <1>1, <1>3, <2>2, <2>4, <2>6, <2>7, <2>9, <2>10, ServerGoesOn
<1>4. QED
  BY <1>2, <1>3 DEF ReadClientHello, ServerCanRead

(* A message of the server goes out, and the stage and the transcript      *)
(* follow it.                                                              *)
LEMMA ServerSendsInv ==
    ASSUME Inv, NEW m \in Messages, NEW stage \in ServerStages \ {"failed"},
           NEW tr \in Seq(Types),
           server \in {"send_hello", "send_ticket", "send_certificate", "send_verify",
                       "send_finished"},
           ServerSends(m, stage, tr), UNCHANGED <<cfg, client, c2s, ctr, alpn, first_read>>,
           server' = stage => ServerSent' = ServerSent + 1 /\ ServerRead' = ServerRead,
           ServerSays(ServerSent + 1, m),
           server' = stage /\ str' = tr => ServerKnows' /\ ServerChecked'
    PROVE  Inv'
<1>1. TypeOK /\ first_read = "none" /\ server \notin {"ok", "failed"}
  BY DEF Inv, FirstRead
<1>2. CASE client = "failed" /\ ServerFails("Closed") /\ UNCHANGED s2c
  BY <1>1, <1>2, ServerClosed
<1>3. CASE s2c' = Append(s2c, m) /\ server' = stage /\ str' = tr /\ UNCHANGED why
  <2>1. FromServer' /\ s2c' \in Seq(Messages)
    BY <1>1, <1>3, ServerSaid
  <2>2. ClientSent' = ClientSent
    BY DEF ClientSent
  <2>3. FromClient' /\ c2s' \in Seq(Messages)
    BY <1>1, <1>3, <2>2, SameConfig DEF Inv, FromClient, TypeOK
  <2>4. alpn' \in [client : Seq(Protocols), server : Seq(Protocols)]
    BY <1>1 DEF TypeOK
  <2>5. QED
    BY <1>1, <1>3, <2>1, <2>3, <2>4, ServerGoesOn
<1>4. QED
  BY <1>2, <1>3 DEF ServerSends

(* A ServerHello of either kind of server. *)
LEMMA ServerHelloInv ==
    ASSUME Inv, SendServerHello \/ TicketServerHello
    PROVE  Inv'
<1>1. /\ server = "send_hello" /\ TypeOK /\ str = Hello /\ alpn.server = Selected
      /\ UNCHANGED <<cfg, client, c2s, ctr, alpn, first_read>>
  BY DEF SendServerHello, TicketServerHello, Inv, ServerKnows
<1>2. PICK a \in Seq(Protocols) : a = Selected
  BY <1>1, SelectedType
<1> DEFINE stage == IF cfg.peer = "accept"
                    THEN IF cfg.ticket_key THEN "send_ticket" ELSE "send_certificate"
                    ELSE IF cfg.peer = "declines" THEN "send_finished" ELSE "ok"
           tr == Append(str, "ServerHello")
<1>3. PICK x : /\ "ALPN" \in x \/ a = << >>
               /\ "KeyShare" \in x <=> cfg.peer # "resumes"
               /\ ServerSends(ServerHello([extensions |-> x, alpn |-> a]), stage, tr)
  <2>1. CASE SendServerHello
    <3>1. cfg.peer = "accept"
      BY <2>1 DEF SendServerHello
    <3>2. QED
      BY <1>1, <1>2, <2>1, <3>1 DEF SendServerHello, build_server_hello
  <2>2. CASE TicketServerHello
    <3>1. cfg.peer \in {"resumes", "declines"}
      BY <1>1, <2>2, ConfigType DEF TicketServerHello
    <3> DEFINE y == (IF cfg.peer = "declines" THEN {"KeyShare"} ELSE {}) \cup {"ALPN"}
    <3>2. "ALPN" \in y /\ ("KeyShare" \in y <=> cfg.peer # "resumes")
      BY <3>1
    <3>3. ServerSends(ServerHello([extensions |-> y, alpn |-> a]), stage, tr)
      BY <1>1, <1>2, <2>2, <3>1 DEF TicketServerHello
    <3>4. QED
      BY <3>2, <3>3
  <2>3. QED
    BY <2>1, <2>2
<1>4. PICK m \in Messages : /\ m = ServerHello([extensions |-> x, alpn |-> a])
                            /\ m.type = "ServerHello" /\ m.alpn = a
                            /\ m.share <=> cfg.peer # "resumes"
  BY <1>3, ServerHelloTypes
<1>5. tr = Hellos /\ tr \in Seq(Types)
  BY <1>1, Transcripts DEF Hellos
<1>6. cfg.peer \in {"accept", "resumes", "declines"}
  BY <1>1, ConfigType
<1> HIDE DEF tr
<1>7. ServerSent = 0 /\ (server' = stage => ServerSent' = 0 + 1 /\ ServerRead' = ServerRead)
  BY <1>1, <1>6 DEF ServerSent, ServerRead
<1>8. ServerSays(0 + 1, m)
  BY <1>2, <1>4 DEF ServerSays
<1>9. server' = stage /\ str' = tr => ServerKnows' /\ ServerChecked'
  BY <1>1, <1>5, <1>6, SameConfig DEF ServerKnows, ServerChecked, Shows
<1>10. stage \in ServerStages \ {"failed"}
  BY DEF ServerStages
<1> HIDE DEF stage
<1>11. QED
  BY <1>1, <1>3, <1>4, <1>5, <1>7, <1>8, <1>9, <1>10, ServerSendsInv

LEMMA SendNewSessionTicketInv ==
    ASSUME Inv, SendNewSessionTicket
    PROVE  Inv'
<1>1. /\ server = "send_ticket" /\ TypeOK
      /\ ServerSends(NewSessionTicket, "send_certificate", Append(str, "NewSessionTicket"))
      /\ UNCHANGED <<cfg, client, c2s, ctr, alpn, first_read>>
      /\ cfg.ticket_key /\ alpn.server = Selected /\ cfg.peer = "accept"
  BY DEF SendNewSessionTicket, Inv, ServerKnows
<1>2. Append(str, "NewSessionTicket") \in Seq(Types)
  BY <1>1 DEF TypeOK, Types
<1>3. ServerSent = 1 /\ (server' = "send_certificate" =>
                           ServerSent' = 1 + 1 /\ ServerRead' = ServerRead)
  BY <1>1 DEF ServerSent, ServerRead
<1>4. ServerSays(1 + 1, NewSessionTicket)
  BY <1>1, MessageTypes DEF ServerSays
<1>5. server' = "send_certificate" => ServerKnows' /\ ServerChecked'
  BY <1>1, SameConfig DEF ServerKnows, ServerChecked, Shows
<1>6. "send_certificate" \in ServerStages \ {"failed"}
  BY DEF ServerStages
<1>7. QED
  BY <1>1, <1>2, <1>3, <1>4, <1>5, <1>6, MessageTypes, ServerSendsInv

LEMMA SendServerCertificateInv ==
    ASSUME Inv, SendServerCertificate
    PROVE  Inv'
<1>1. /\ server = "send_certificate" /\ TypeOK /\ cfg.peer = "accept"
      /\ UNCHANGED <<cfg, client, c2s, ctr, alpn, first_read>>
      /\ (Shows => str = Hellos) /\ alpn.server = Selected /\ first_read = "none"
  BY DEF SendServerCertificate, Inv, ServerKnows, FirstRead
<1>2. CASE /\ cfg.server_cert # "none"
           /\ ServerSends(ClientCertificate, "send_verify", Append(str, "Certificate"))
  <2>1. Append(str, "Certificate") \in Seq(Types)
    BY <1>1 DEF TypeOK, Types
  <2>2. ServerSent = (IF cfg.ticket_key THEN 2 ELSE 1)
        /\ (server' = "send_verify" =>
              ServerSent' = ServerSent + 1 /\ ServerRead' = ServerRead)
    BY <1>1, <1>2 DEF ServerSent, ServerRead, Extra
  <2>3. ServerSays(ServerSent + 1, ClientCertificate)
    BY <1>1, <1>2, <2>2, MessageTypes DEF ServerSays, Shows
  <2>4. server' = "send_verify" /\ str' = Append(str, "Certificate")
          => ServerKnows' /\ ServerChecked'
    BY <1>1, SameConfig DEF ServerKnows, ServerChecked, Certified
  <2>5. "send_verify" \in ServerStages \ {"failed"}
    BY DEF ServerStages
  <2>6. QED
    BY <1>1, <1>2, <2>1, <2>2, <2>3, <2>4, <2>5, MessageTypes, ServerSendsInv
<1>3. CASE cfg.server_cert = "none" /\ server' = "send_verify" /\ UNCHANGED <<s2c, str, why>>
  <2>1. /\ ServerSent' = ServerSent /\ ClientRead' = ClientRead
        /\ ClientReads' = ClientReads
    BY <1>1, <1>3 DEF ServerSent, Extra, ClientRead, ClientReads
  <2>2. FromServer' /\ s2c' \in Seq(Messages)
    BY <1>1, <1>3, <2>1, SameConfig DEF Inv, FromServer, TypeOK
  <2>3. ClientSent' = ClientSent /\ ServerRead' = ServerRead
    BY <1>1, <1>3 DEF ClientSent, Speaks, ServerRead
  <2>4. FromClient' /\ c2s' \in Seq(Messages)
    BY <1>1, <1>3, <2>3, SameConfig DEF Inv, FromClient, TypeOK
  <2>5. ServerKnows' /\ ServerChecked'
    BY <1>1, <1>3, SameConfig DEF ServerKnows, ServerChecked, Shows
  <2>6. server' \in ServerStages \ {"failed"}
    BY <1>3 DEF ServerStages
  <2>7. /\ alpn' \in [client : Seq(Protocols), server : Seq(Protocols)]
        /\ str' \in Seq(Types)
    BY <1>1, <1>3 DEF TypeOK
  <2>8. QED
    BY <1>1, <1>3, <2>2, <2>4, <2>5, <2>6, <2>7, ServerGoesOn
<1>4. QED
  BY <1>2, <1>3 DEF SendServerCertificate

LEMMA SendCertificateVerifyInv ==
    ASSUME Inv, SendCertificateVerify
    PROVE  Inv'
<1>1. /\ server = "send_verify" /\ TypeOK /\ str \in Seq(Types)
      /\ UNCHANGED <<cfg, client, c2s, ctr, alpn, first_read>>
      /\ (Shows => str = Certified) /\ alpn.server = Selected
      /\ cfg.peer = "accept" /\ c2s \in Seq(Messages)
  BY DEF SendCertificateVerify, Inv, ServerKnows, TypeOK
<1>2. CASE cfg.server_cert = "none" /\ ServerFails("Key") /\ UNCHANGED s2c
  <2>1. ~Good
    BY <1>2 DEF Good, GoodConfig
  <2>2. QED
    BY <1>1, <1>2, <2>1, ReasonNames, ServerFailsInv
<1>3. CASE ServerSends(CertificateVerify(str), "send_finished",
                       Append(str, "CertificateVerify"))
  <2>1. Append(str, "CertificateVerify") \in Seq(Types)
    BY <1>1 DEF Types
  <2>2. Extra \in 0..2
    BY DEF Extra
  <2>3. ServerSent = 1 + Extra
        /\ (server' = "send_finished" =>
              ServerSent' = ServerSent + 1 /\ ServerRead' = ServerRead)
    BY <1>1, <2>2, SameConfig DEF ServerSent, ServerRead
  <2>4. PICK m \in Messages : m = CertificateVerify(str) /\ m.type = "CertificateVerify"
    BY <1>1, MessageTypes
  <2>5. ServerSays(ServerSent + 1, m)
    BY <1>1, <2>3, <2>4 DEF ServerSays, Shows, Extra
  <2>6. server' = "send_finished" /\ str' = Append(str, "CertificateVerify")
          => ServerKnows' /\ ServerChecked'
    BY <1>1, SameConfig DEF ServerKnows, ServerChecked, Verified
  <2>7. "send_finished" \in ServerStages \ {"failed"}
    BY DEF ServerStages
  <2>8. QED
    BY <1>1, <1>3, <2>1, <2>3, <2>4, <2>5, <2>6, <2>7, ServerSendsInv
<1>4. QED
  BY <1>2, <1>3 DEF SendCertificateVerify

LEMMA SendServerFinishedInv ==
    ASSUME Inv, SendServerFinished
    PROVE  Inv'
<1>1. PICK stage : stage = IF cfg.require_client_auth THEN "certificate" ELSE "ok"
  OBVIOUS
<1>2. /\ server = "send_finished" /\ TypeOK /\ str \in Seq(Types)
      /\ ServerSends(Finished(str), stage, str)
      /\ UNCHANGED <<cfg, client, c2s, ctr, alpn, first_read>>
      /\ (Shows => str = Verified) /\ alpn.server = Selected
      /\ (cfg.peer # "accept" => str = Hellos) /\ cfg.peer # "resumes"
  BY <1>1 DEF SendServerFinished, Inv, ServerKnows, TypeOK
<1>9. Extra \in 0..2
  BY DEF Extra
<1>3. ServerSent = (IF cfg.peer = "accept" THEN 2 + Extra ELSE 1)
      /\ (server' = stage => ServerSent' = ServerSent + 1 /\ ServerRead' = ServerRead)
  BY <1>1, <1>2, <1>9, SameConfig DEF ServerSent, ServerRead
<1>4. ServerSays(ServerSent + 1, Finished(str))
  <2>1. CASE cfg.peer # "accept"
    BY <1>2, <1>3, <2>1 DEF ServerSays, Shows
  <2>2. CASE cfg.peer = "accept" /\ Shows
    <3>1. ServerSent + 1 = 4
      BY <1>3, <2>2 DEF Shows, Extra
    <3>2. QED
      BY <1>2, <2>2, <3>1 DEF ServerSays
  <2>3. CASE cfg.peer = "accept" /\ ~Shows
    <3>1. ServerSent + 1 > 2
      BY <1>3, <1>9, <2>3
    <3>2. QED
      BY <2>3, <3>1 DEF ServerSays
  <2>4. QED
    BY <2>1, <2>2, <2>3
<1>5. server' = stage /\ str' = str => ServerKnows' /\ ServerChecked'
  BY <1>1, <1>2, SameConfig DEF ServerKnows, ServerChecked
<1>6. stage \in ServerStages \ {"failed"}
  BY <1>1 DEF ServerStages
<1>7. PICK m \in Messages : m = Finished(str)
  BY <1>2, MessageTypes
<1>8. QED
  BY <1>2, <1>3, <1>4, <1>5, <1>6, <1>7, ServerSendsInv

LEMMA ReadClientCertificateInv ==
    ASSUME Inv, ReadClientCertificate
    PROVE  Inv'
<1> DEFINE refused == IF ~cfg.server_ca THEN "Certificate"
                      ELSE VerifyCertificate(cfg.client_cert)
<1>1. /\ server = "certificate" /\ UNCHANGED <<cfg, client, s2c, ctr, alpn, first_read>>
      /\ TypeOK /\ first_read = "none" /\ cfg.require_client_auth
      /\ (Shows => str = Verified) /\ alpn.server = Selected
      /\ (cfg.peer # "accept" => str = Hellos) /\ cfg.peer # "resumes"
  BY DEF ReadClientCertificate, Inv, FirstRead, ServerKnows
<1>2. CASE ServerReadsEnd /\ UNCHANGED c2s
  BY <1>1, <1>2, ServerReadsEndInv
<1>3. CASE /\ c2s # << >> /\ c2s' = Tail(c2s)
           /\ \/ /\ Head(c2s).type = "Certificate" /\ refused = "none"
                 /\ server' = "finished" /\ UNCHANGED <<str, why>>
              \/ /\ Head(c2s).type = "Certificate" /\ refused # "none"
                 /\ ServerFails(refused)
              \/ /\ Head(c2s).type # "Certificate"
                 /\ ServerFails("Unexpected")
  <2>1. ServerRead = 1 /\ (server' # "failed" => ServerRead' = 1 + 1)
    BY <1>1, <1>3 DEF ServerRead, ServerFails
  <2>2. /\ FromClient' /\ c2s' \in Seq(Messages)
        /\ Head(c2s) \in Messages /\ ClientSays(1 + 1, Head(c2s))
    BY <1>1, <1>3, <2>1, ServerTook
  <2>3. Head(c2s).type = IF Speaks THEN "Certificate" ELSE "Data"
    BY <2>2 DEF ClientSays
  <2>4. Good => cfg.client_cert = "good" /\ refused = "none"
    BY <1>1, Verdicts DEF Good, GoodConfig
  <2>5. CASE ServerFails("Unexpected") /\ Head(c2s).type # "Certificate"
    <3>1. ~Good
      BY <1>1, <2>3, <2>4, <2>5 DEF Speaks
    <3>2. QED
      BY <1>1, <2>2, <2>5, <3>1, ReasonNames, ServerFailsInv
  <2>6. CASE ServerFails(refused) /\ refused # "none"
    <3>1. refused \in Reasons /\ ~Good
      BY <2>4, <2>6, Verdicts, ReasonNames
    <3> HIDE DEF refused
    <3>2. QED
      BY <1>1, <2>2, <2>6, <3>1, ServerFailsInv
  <2>7. CASE /\ Head(c2s).type = "Certificate" /\ refused = "none"
             /\ server' = "finished" /\ UNCHANGED <<str, why>>
    <3>1. ServerKnows'
      BY <1>1, <2>7, SameConfig DEF ServerKnows
    <3>2. cfg.server_ca /\ cfg.client_cert # "none" /\ VerifyCertificate(cfg.client_cert) = "none"
      BY <2>3, <2>7 DEF Speaks
    <3>3. ServerChecked'
      BY <1>1, <3>2, SameConfig DEF ServerChecked
    <3>4. ServerSent' = ServerSent /\ ClientRead' = ClientRead /\ ClientReads' = ClientReads
      BY <1>1, <2>7 DEF ServerSent, ClientRead, ClientReads, Extra
    <3>5. FromServer' /\ s2c' \in Seq(Messages)
      BY <1>1, <3>4, SameConfig DEF Inv, FromServer, TypeOK
    <3>6. server' \in ServerStages \ {"failed"}
      BY <2>7 DEF ServerStages
    <3>7. /\ alpn' \in [client : Seq(Protocols), server : Seq(Protocols)]
          /\ str' \in Seq(Types)
      BY <1>1, <2>7 DEF TypeOK
    <3>8. QED
      BY <1>1, <2>2, <2>7, <3>1, <3>3, <3>5, <3>6, <3>7, ServerGoesOn
  <2>8. QED
    BY <1>3, <2>5, <2>6, <2>7
<1>4. QED
  BY <1>2, <1>3 DEF ReadClientCertificate, ServerCanRead

LEMMA ReadClientFinishedInv ==
    ASSUME Inv, ReadClientFinished
    PROVE  Inv'
<1>1. /\ server = "finished" /\ UNCHANGED <<cfg, client, s2c, ctr, alpn, first_read>>
      /\ TypeOK /\ first_read = "none" /\ cfg.require_client_auth
      /\ (Shows => str = Verified) /\ alpn.server = Selected
      /\ (cfg.peer # "accept" => str = Hellos) /\ cfg.peer # "resumes"
      /\ cfg.client_cert # "none"
  BY DEF ReadClientFinished, Inv, FirstRead, ServerKnows, ServerChecked
<1>2. CASE ServerReadsEnd /\ UNCHANGED c2s
  BY <1>1, <1>2, ServerReadsEndInv
<1>3. CASE /\ c2s # << >> /\ c2s' = Tail(c2s)
           /\ IF Head(c2s) = Finished(str)
              THEN server' = "ok" /\ UNCHANGED <<str, why>>
              ELSE ServerFails("Signature")
  <2>1. ServerRead = 2 /\ (server' # "failed" => ServerRead' = 2 + 1)
    BY <1>1, <1>3 DEF ServerRead, ServerFails
  <2>2. /\ FromClient' /\ c2s' \in Seq(Messages)
        /\ Head(c2s) \in Messages /\ ClientSays(2 + 1, Head(c2s))
    BY <1>1, <1>3, <2>1, ServerTook
  <2>3. Head(c2s) = Finished(Covered)
    BY <1>1, <2>2 DEF ClientSays, Speaks
  <2>4. CASE Head(c2s) # Finished(str)
    <3>1. ~Good
      BY <1>1, <2>3, <2>4 DEF Good, GoodConfig, Shows, Covered
    <3>2. QED
      BY <1>1, <1>3, <2>2, <2>4, <3>1, ReasonNames, ServerFailsInv
  <2>5. CASE Head(c2s) = Finished(str)
    <3>1. server' = "ok" /\ UNCHANGED <<str, why>>
      BY <1>3, <2>5
    <3>2. ServerKnows' /\ ServerChecked'
      BY <1>1, <3>1, SameConfig DEF Inv, ServerKnows, ServerChecked
    <3>3. ServerSent' = ServerSent /\ ClientRead' = ClientRead /\ ClientReads' = ClientReads
      BY <1>1, <3>1 DEF ServerSent, ClientRead, ClientReads, Extra
    <3>4. FromServer' /\ s2c' \in Seq(Messages)
      BY <1>1, <3>3, SameConfig DEF Inv, FromServer, TypeOK
    <3>5. server' \in ServerStages \ {"failed"}
      BY <3>1 DEF ServerStages
    <3>6. /\ alpn' \in [client : Seq(Protocols), server : Seq(Protocols)]
          /\ str' \in Seq(Types)
      BY <1>1, <3>1 DEF TypeOK
    <3>7. QED
      BY <1>1, <2>2, <3>1, <3>2, <3>4, <3>5, <3>6, ServerGoesOn
  <2>6. QED
    BY <2>4, <2>5
<1>4. QED
  BY <1>2, <1>3 DEF ReadClientFinished, ServerCanRead

-----------------------------------------------------------------------------
(* Timeouts and the users. *)

LEMMA TimesOutInv ==
    ASSUME Inv, ClientTimesOut \/ ServerTimesOut
    PROVE  Inv'
<1>1. c2s \in Seq(Messages) /\ s2c \in Seq(Messages)
  BY DEF Inv, TypeOK
<1>2. CASE ClientTimesOut
  BY <1>1, <1>2, ReasonNames, ClientFailsInv DEF ClientTimesOut
<1>3. CASE ServerTimesOut
  BY <1>1, <1>3, ReasonNames, ServerFailsInv DEF ServerTimesOut
<1>4. QED
  BY <1>2, <1>3

LEMMA ClientWritesDataInv ==
    ASSUME Inv, ClientWritesData
    PROVE  Inv'
<1>1. /\ client = "ok" /\ TypeOK /\ c2s' = Append(c2s, Plain("Data"))
      /\ UNCHANGED <<cfg, client, server, s2c, ctr, str, why, alpn, first_read>>
  BY DEF ClientWritesData, Inv
<1>2. PICK m \in Messages : m = Plain("Data") /\ m.type = "Data"
  BY MessageTypes
<1>3. PICK n \in Nat : n = Len(c2s)
  BY <1>1 DEF TypeOK
<1>4. /\ c2s' \in Seq(Messages) /\ Len(c2s') = n + 1
      /\ \A i \in 1..n + 1 : c2s'[i] = IF i = n + 1 THEN m ELSE c2s[i]
  BY <1>1, <1>2, <1>3, Sent DEF TypeOK
<1>5. ServerRead' = ServerRead /\ ClientSent' = ClientSent
  BY <1>1 DEF ServerRead, ClientSent
<1>6. PICK r \in 0..3 : r = ServerRead
  BY Counts
<1>7. ClientSent = IF Speaks THEN 3 ELSE 1
  BY <1>1 DEF ClientSent
<1>8. ASSUME server # "failed", first_read = "none"
      PROVE  /\ \A i \in 1..n + 1 : ClientSays(r + i, c2s'[i])
             /\ n + 1 + r >= ClientSent
  <2>1. n + r >= ClientSent /\ \A i \in 1..n : ClientSays(r + i, c2s[i])
    BY <1>1, <1>3, <1>6, <1>8 DEF Inv, FromClient
  <2>2. ClientSays(r + (n + 1), m)
    BY <1>2, <1>7, <2>1 DEF ClientSays
  <2>3. QED
    BY <1>4, <1>7, <2>1, <2>2
<1>9. FromClient'
  BY <1>1, <1>4, <1>5, <1>6, <1>8, SameConfig DEF FromClient
<1>10. ServerSent' = ServerSent /\ ClientRead' = ClientRead /\ ClientReads' = ClientReads
  BY <1>1 DEF ServerSent, ClientRead, ClientReads, Extra
<1>11. FromServer' /\ s2c' \in Seq(Messages)
  BY <1>1, <1>10, SameConfig DEF Inv, FromServer, TypeOK
<1>12. ClientKnows' /\ ClientChecked'
  BY <1>1, SameConfig DEF Inv, ClientKnows, ClientChecked, Through
<1>13. /\ alpn' \in [client : Seq(Protocols), server : Seq(Protocols)]
       /\ ctr' \in Seq(Types) /\ client' \in ClientStages \ {"failed"}
  BY <1>1 DEF TypeOK
<1>14. QED
  BY <1>1, <1>4, <1>9, <1>11, <1>12, <1>13, ClientGoesOn

LEMMA ServerReadsDataInv ==
    ASSUME Inv, ServerReadsData
    PROVE  Inv'
<1>1. /\ server = "ok" /\ first_read = "none" /\ TypeOK /\ c2s # << >>
      /\ c2s \in Seq(Messages)
      /\ c2s' = Tail(c2s) /\ first_read' = Head(c2s).type
      /\ UNCHANGED <<cfg, client, server, s2c, ctr, str, alpn, why>>
  BY DEF ServerReadsData, Inv, ServerCanRead, TypeOK
<1>2. /\ c2s' \in Seq(Messages) /\ Head(c2s) = c2s[1] /\ c2s[1] \in Messages
      /\ 1 \in 1..Len(c2s)
  BY <1>1, Taken
<1>3. first_read' \in Types
  BY <1>1, <1>2 DEF Messages
<1>4. ClientSays(ServerRead + 1, c2s[1])
  BY <1>1, <1>2 DEF Inv, FromClient
<1>5. /\ cfg.peer = "accept"
      /\ cfg.client_cert # "none" => cfg.require_client_auth
      => Head(c2s).type = "Data"
  <2>1. CASE cfg.require_client_auth /\ cfg.peer = "accept"
    <3>1. ServerRead = 3
      BY <1>1, <2>1 DEF ServerRead
    <3>2. QED
      BY <1>2, <1>4, <3>1 DEF ClientSays
  <2>2. CASE ~cfg.require_client_auth /\ cfg.client_cert = "none"
    <3>1. ServerRead = 1
      BY <1>1, <2>2 DEF ServerRead
    <3>2. QED
      BY <1>2, <1>4, <2>2, <3>1 DEF ClientSays, Speaks
  <2>3. QED
    BY <2>1, <2>2
<1>6. TypeOK'
  BY <1>1, <1>2, <1>3 DEF TypeOK
<1>7. FirstRead'
  BY <1>1, <1>5 DEF FirstRead
<1>8. FromClient'
  <2>1. first_read' # "none"
    BY <1>3 DEF Types
  <2>2. QED
    BY <2>1 DEF FromClient
<1>9. ServerSent' = ServerSent /\ ClientRead' = ClientRead /\ ClientReads' = ClientReads
  BY <1>1 DEF ServerSent, ClientRead, ClientReads, Extra
<1>10. FromServer'
  BY <1>1, <1>9, SameConfig DEF Inv, FromServer
<1>11. ClientKnows' /\ ClientChecked' /\ ServerKnows' /\ ServerChecked'
  BY <1>1, SameConfig DEF Inv, ClientKnows, ClientChecked, Through, ServerKnows, ServerChecked
<1>12. Blame'
  BY <1>1, SameConfig DEF Inv, Blame, TimedOut
<1>13. QED
  BY <1>6, <1>7, <1>8, <1>10, <1>11, <1>12 DEF Inv

-----------------------------------------------------------------------------
(* The theorems. *)

LEMMA InitInv ==
    ASSUME Init
    PROVE  Inv
<1>1. /\ cfg \in Configs /\ client = "start" /\ server = "hello"
      /\ c2s = << >> /\ s2c = << >> /\ ctr = << >> /\ str = << >>
      /\ alpn = [client |-> << >>, server |-> << >>]
      /\ why = [client |-> "none", server |-> "none"] /\ first_read = "none"
  BY DEF Init
<1>2. TypeOK
  <2>1. /\ << >> \in Seq(Messages) /\ << >> \in Seq(Types) /\ << >> \in Seq(Protocols)
        /\ "none" \in Reasons /\ "start" \in ClientStages /\ "hello" \in ServerStages
    BY DEF Reasons, ClientStages, ServerStages
  <2>2. QED
    BY <1>1, <2>1 DEF TypeOK
<1>3. Len(c2s) = 0 /\ Len(s2c) = 0
  BY <1>1
<1>4. FromServer
  <2>1. ServerSent = 0 /\ ClientRead = 0
    BY <1>1 DEF ServerSent, ClientRead
  <2>2. QED
    BY <1>3, <2>1 DEF FromServer
<1>5. FromClient
  <2>1. ClientSent = 0 /\ ServerRead = 0
    BY <1>1 DEF ClientSent, ServerRead
  <2>2. QED
    BY <1>3, <2>1 DEF FromClient
<1>6. ClientKnows /\ ServerKnows /\ ClientChecked /\ ServerChecked
  BY <1>1 DEF ClientKnows, ServerKnows, ClientChecked, ServerChecked, Through
<1>7. Blame /\ FirstRead
  BY <1>1 DEF Blame, FirstRead
<1>8. QED
  BY <1>2, <1>4, <1>5, <1>6, <1>7 DEF Inv

LEMMA StutterInv ==
    ASSUME Inv, UNCHANGED vars
    PROVE  Inv'
<1>1. UNCHANGED <<cfg, client, server, c2s, s2c, ctr, str, alpn, why, first_read>>
  BY DEF vars
<1>2. TypeOK'
  BY <1>1 DEF Inv, TypeOK
<1>3. /\ ServerSent' = ServerSent /\ ClientRead' = ClientRead
      /\ ClientReads' = ClientReads
      /\ ClientSent' = ClientSent /\ ServerRead' = ServerRead
  BY <1>1 DEF ServerSent, ClientRead, ClientReads, ClientSent, ServerRead, Extra, Speaks
<1>4. FromServer' /\ FromClient'
  BY <1>1, <1>3, SameConfig DEF Inv, FromServer, FromClient
<1>5. ClientKnows' /\ ClientChecked' /\ ServerKnows' /\ ServerChecked'
  BY <1>1, SameConfig DEF Inv, ClientKnows, ClientChecked, Through, ServerKnows, ServerChecked
<1>6. Blame' /\ FirstRead'
  BY <1>1, SameConfig DEF Inv, Blame, TimedOut, FirstRead
<1>7. QED
  BY <1>2, <1>4, <1>5, <1>6 DEF Inv

LEMMA NextInv ==
    ASSUME Inv, [Next]_vars
    PROVE  Inv'
<1>1. CASE ClientStep
  BY <1>1, SendClientHelloInv, ReadServerHelloInv, ReadServerCertificateInv,
     ReadCertificateVerifyInv, ReadServerFinishedInv, SendClientRestInv DEF ClientStep
<1>2. CASE ServerStep
  BY <1>2, ReadClientHelloInv, ServerHelloInv, SendNewSessionTicketInv,
     SendServerCertificateInv, SendCertificateVerifyInv, SendServerFinishedInv,
     ReadClientCertificateInv, ReadClientFinishedInv DEF ServerStep
<1>3. CASE ClientTimesOut \/ ServerTimesOut
  BY <1>3, TimesOutInv
<1>4. CASE ClientWritesData
  BY <1>4, ClientWritesDataInv
<1>5. CASE ServerReadsData
  BY <1>5, ServerReadsDataInv
<1>6. CASE UNCHANGED vars
  BY <1>6, StutterInv
<1>7. QED
  BY <1>1, <1>2, <1>3, <1>4, <1>5, <1>6 DEF Next

(* connect_gm_rust and accept_gm_rust agree, whatever they are configured  *)
(* with and whenever one of them gives up, on what each next message is:   *)
(* the messages on their way and the transcripts are the ones that the     *)
(* stages of the two sides call for.                                       *)
THEOREM Safety == Spec => []Inv
<1>1. Init => Inv
  BY InitInv
<1>2. Inv /\ [Next]_vars => Inv'
  BY NextInv
<1>3. QED
  BY <1>1, <1>2, PTL DEF Spec

(* connect_gm_rust hands out a stream only to a server whose certificate   *)
(* the chain check and verify_crl have accepted and whose key has signed   *)
(* CertificateVerify, unless the client's ticket decrypted and the server  *)
(* is not accept_gm_rust; accept_gm_rust hands out one only to a client    *)
(* whose certificate, where it is required, both checks have accepted.     *)
THEOREM VerifiedPeers == Spec => []PeersVerified
<1>1. Inv => PeersVerified
  <2>1. SUFFICES ASSUME Inv PROVE PeersVerified
    OBVIOUS
  <2>2. client = "ok" /\ cfg.client_ca =>
          \/ Unchecked
          \/ /\ VerifyCertificate(cfg.server_cert) = "none"
             /\ cfg.server_cert \notin {"none", "wrong_key"}
    BY <2>1 DEF Inv, ClientChecked, Through, ClientKnows, Shows
  <2>3. server = "ok" /\ cfg.peer = "accept" /\ cfg.require_client_auth =>
          /\ VerifyCertificate(cfg.client_cert) = "none"
          /\ cfg.client_cert # "none"
    BY <2>1 DEF Inv, ServerChecked
  <2>4. QED
    BY <2>2, <2>3, Verdicts DEF PeersVerified, Unchecked
<1>2. QED
  BY <1>1, Safety, PTL

(* What select_alpn selects, in the words of TranscriptsAgree. *)
LEMMA FirstOfClient ==
    ASSUME TypeOK
    PROVE  LET common == {i \in 1..Len(cfg.client_alpn) :
                             \E j \in 1..Len(cfg.server_alpn) :
                                cfg.client_alpn[i] = cfg.server_alpn[j]}
           IN  IF common = {} THEN Selected = << >>
               ELSE \E i \in common : /\ \A j \in common : i <= j
                                      /\ Selected = <<cfg.client_alpn[i]>>
<1> DEFINE common == {i \in 1..Len(cfg.client_alpn) :
                         \E j \in 1..Len(cfg.server_alpn) :
                            cfg.client_alpn[i] = cfg.server_alpn[j]}
           pos == CHOOSE i \in common : \A j \in common : i <= j
<1>1. PICK n \in Nat : n = Len(cfg.client_alpn)
  BY ConfigType
<1>2. common \in SUBSET (1..n)
  BY <1>1
<1>3. common = {i \in 1..Len(cfg.client_alpn) :
                   \E j \in 1..Len(cfg.server_alpn) :
                      cfg.server_alpn[j] = cfg.client_alpn[i]}
  OBVIOUS
<1>4. Selected = IF common = {} THEN << >> ELSE <<cfg.client_alpn[pos]>>
  <2> HIDE DEF common
  <2>1. common = {} => Selected = << >>
    BY <1>3 DEF Selected, select_alpn
  <2>2. common # {} => Selected = <<cfg.client_alpn[pos]>>
    BY <1>3 DEF Selected, select_alpn
  <2> HIDE DEF pos
  <2>3. QED
    BY <2>1, <2>2
<1>5. ASSUME common # {}
      PROVE  pos \in common /\ \A j \in common : pos <= j
  <2> HIDE DEF common
  <2>1. QED
    BY <1>2, <1>5, FirstPosition
<1> HIDE DEF common, pos
<1>6. IF common = {} THEN Selected = << >>
      ELSE \E i \in common : /\ \A j \in common : i <= j
                             /\ Selected = <<cfg.client_alpn[i]>>
  BY <1>4, <1>5
<1>7. QED
  BY <1>6 DEF common

(* Two sides that both complete have hashed the same messages, and have    *)
(* settled on the client's favourite among the protocols that select_alpn  *)
(* finds on both lists.                                                    *)
THEOREM TranscriptAgreement == Spec => []TranscriptsAgree
<1>1. Inv => TranscriptsAgree
  <2>1. SUFFICES ASSUME Inv, client = "ok", server = "ok"
                 PROVE  TranscriptsAgree
    BY DEF TranscriptsAgree
  <2>2. /\ alpn.client = Selected /\ alpn.server = Selected /\ TypeOK
        /\ ctr = Covered /\ (Shows \/ Unchecked) /\ (cfg.ticket = "resume" => Unchecked)
        /\ (Shows => str = Verified) /\ (cfg.peer # "accept" => str = Hellos)
    BY <2>1 DEF Inv, ClientKnows, ServerKnows
  <2>6. ctr = str
    BY <2>2 DEF Covered, Shows, Unchecked
  <2>3. PICK common : common = {i \in 1..Len(cfg.client_alpn) :
                                   \E j \in 1..Len(cfg.server_alpn) :
                                      cfg.client_alpn[i] = cfg.server_alpn[j]}
    OBVIOUS
  <2>4. IF common = {} THEN Selected = << >>
        ELSE \E i \in common : /\ \A j \in common : i <= j
                               /\ Selected = <<cfg.client_alpn[i]>>
    BY <2>2, <2>3, FirstOfClient
  <2>5. QED
    BY <2>2, <2>3, <2>4, <2>6 DEF TranscriptsAgree
<1>2. QED
  BY <1>1, Safety, PTL

(* Without tickets, and with a CRL that verify_crl finds fresh at the time *)
(* it is given (the current time plus crl_grace_period), a good            *)
(* configuration fails on no side but by with_handshake_timeout, and the   *)
(* first record read_application_data meets is the client's.               *)
THEOREM GoodHandshakes == Spec => [](FreshCrl => GoodHandshakeSucceeds)
<1>1. Inv => (FreshCrl => GoodHandshakeSucceeds)
  BY DEF Inv, Blame, FirstRead, Good, TimedOut, GoodHandshakeSucceeds
<1>2. QED
  BY <1>1, Safety, PTL
=============================================================================
