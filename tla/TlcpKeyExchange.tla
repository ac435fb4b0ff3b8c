-------------------------- MODULE TlcpKeyExchange --------------------------
(***************************************************************************)
(* What the two sides of a TLCP handshake (gm-tlcp/src/tlcp) do for each   *)
(* key exchange: the server's ServerKeyExchange, the client's check of it, *)
(* the client's ClientKeyExchange with its pre-master secret, and the      *)
(* pre-master secret the server makes of that.  Operators only; c and s    *)
(* are the configurations of module TlcpConnector and TlcpAcceptor.        *)
(*                                                                         *)
(* Cryptography is symbolic.  A signature is what went into it, a          *)
(* ciphertext its recipient and its content, an ephemeral key a name.  The *)
(* two random numbers are those of the connection and are left out.  << >> *)
(* stands for a failure, bodies of messages are sequences of fields.       *)
(***************************************************************************)
EXTENDS CertVerify, Sm9KeyExchange

Con == INSTANCE TlcpConnector
Acc == INSTANCE TlcpAcceptor

(* TlcpCipherSuite::from_id: the suites the library knows. *)
Suite(key_exchange, gcm) == [key_exchange |-> key_exchange, gcm |-> gcm]
TlcpCipherSuite ==
    [ECDHE_GCM |-> Suite("Ecdhe", TRUE), ECDHE_CBC |-> Suite("Ecdhe", FALSE),
     ECC_GCM   |-> Suite("Ecc", TRUE),   ECC_CBC   |-> Suite("Ecc", FALSE),
     IBC_GCM   |-> Suite("Ibc", TRUE),   IBC_CBC   |-> Suite("Ibc", FALSE),
     IBSDH_GCM |-> Suite("Ibsdh", TRUE), IBSDH_CBC |-> Suite("Ibsdh", FALSE),
     RSA_GCM_SM3 |-> Suite("Rsa", TRUE), RSA_CBC_SM3 |-> Suite("Rsa", FALSE),
     RSA_GCM_SHA256 |-> Suite("Rsa", TRUE),
     RSA_CBC_SHA256 |-> Suite("Rsa", FALSE)]
Known == DOMAIN TlcpCipherSuite

-----------------------------------------------------------------------------
(* Signatures and ciphertexts. *)

Sm2Signer_sign(key, distid, data) ==
    [by |-> <<key, distid>>, over |-> data, form |-> "raw"]
Sm2Verifier_verify(sig, key, distid, data) ==
    sig = Sm2Signer_sign(key, distid, data)
sm2_signature_raw_to_der(sig) == [sig EXCEPT !.form = "der"]

(* What does not have the form of a DER signature is none of this key. *)
sm2_signature_der_to_raw(sig) ==
    [sig EXCEPT !.form = IF @ = "der" THEN "raw" ELSE "bad"]

RsaSigner_sign(key, data) == [by |-> <<key>>, over |-> data, form |-> "raw"]
RsaVerifier_verify(sig, key, data) == sig = RsaSigner_sign(key, data)

(* SM9: the KGC's master key extracts the signing key of an identity. *)
Sm9Signer_sign(kgc, id, data) ==
    [by |-> <<kgc, id>>, over |-> data, form |-> "raw"]
Sm9Verifier_verify(sig, ppubs, id, data) ==
    IF sig = Sm9Signer_sign(ppubs, id, data) THEN "Ok(true)" ELSE "Ok(false)"

Sealed(to, pms) == [to |-> to, pms |-> pms]
Sm2Encryptor_encrypt(key, pms) == Sealed(<<key>>, pms)
RsaEncryptor_encrypt(key, pms) == Sealed(<<key>>, pms)
Sm9Encryptor_encrypt(ppube, id, pms) == Sealed(<<ppube, id>>, pms)
Unsealed(to, ciphertext) ==
    IF ciphertext.to = to THEN ciphertext.pms ELSE << >>
Sm2Decryptor_decrypt(key, ciphertext) == Unsealed(<<key>>, ciphertext)
RsaDecryptor_decrypt(key, ciphertext) == Unsealed(<<key>>, ciphertext)
Sm9Decryptor_decrypt(kgc, id, ciphertext) == Unsealed(<<kgc, id>>, ciphertext)

(* extract_sm2_pubkey_from_cert_der. *)
extract_sm2_pubkey(cert) == IF cert.parses THEN cert.key ELSE None

-----------------------------------------------------------------------------
(* ServerKeyExchange. *)

(* The bodies: the ephemeral key with a signature over it, a signature     *)
(* alone, an identity with a signature, and R_A, R_B and S_B of IBSDH.     *)
ske_fields ==
    [Ecdhe |-> <<"ephemeral", "signature">>, Ecc |-> <<"signature">>,
     Ibc |-> <<"id", "signature">>, Ibsdh |-> <<"ra", "rb", "sb">>]
ske_to_bytes(kind, ske) ==
    [i \in 1..Len(ske_fields[kind]) |-> ske[ske_fields[kind][i]]]
ske_from_body(body, kind) ==
    [f \in ToSet(ske_fields[kind]) |->
        body[CHOOSE i \in 1..Len(ske_fields[kind]) : ske_fields[kind][i] = f]]

(* generate, generate_ecc (DER) and generate_rsa. *)
generate(key, distid) ==
    [ephemeral |-> "server ephemeral",
     signature |-> Sm2Signer_sign(key, distid, <<"server ephemeral">>)]
generate_ecc(key, distid, enc_cert) ==
    [signature |-> sm2_signature_raw_to_der(Sm2Signer_sign(key, distid, enc_cert))]
generate_rsa(key, cert) == [signature |-> RsaSigner_sign(key, cert)]

(* The server's five arms; for IBSDH nothing can be said before the client *)
(* has spoken (see DeferredSke).  pair is what Certificate carried.        *)
EcdheSke(s) ==
    IF s.sign_key = None THEN << >>
    ELSE ske_to_bytes("Ecdhe", generate(s.sign_key, s.sign_distid))
EccSke(s, pair) ==
    IF s.sign_key = None THEN << >>
    ELSE ske_to_bytes("Ecc", generate_ecc(s.sign_key, s.sign_distid, pair.enc))
IbcSke(s) ==
    IF s.sm9 = Acc!NoSm9 THEN << >>
    ELSE ske_to_bytes("Ibc",
            [id |-> s.sm9.id,
             signature |-> Sm9Signer_sign(s.sm9.kgc, s.sm9.id, <<s.sm9.id>>)])
RsaSke(s, pair) ==
    IF s.rsa_key = None THEN << >>
    ELSE ske_to_bytes("Ecc", generate_rsa(s.rsa_key, pair.enc))
ServerKeyExchange(kx, s, pair) ==
    IF kx = "Ecdhe" THEN EcdheSke(s)
    ELSE IF kx = "Ecc" THEN EccSke(s, pair)
    ELSE IF kx = "Ibc" THEN IbcSke(s)
    ELSE RsaSke(s, pair)

(* The client's checks, with what the connector was given and not with the *)
(* key of the certificate.  A signature of 64 bytes is taken for a raw one.*)
(* Of the answer of the SM9 verifier only an error is looked at, so the    *)
(* signature of IBC decides nothing; the encryption of the pre-master      *)
(* secret to the server's identity does.                                   *)
verify_ske_ecc(body, enc_cert, key, distid) ==
    Sm2Verifier_verify(sm2_signature_der_to_raw(ske_from_body(body, "Ecc").signature),
                       key, distid, enc_cert)
verify_ske_ecdhe(body, key, distid) ==
    LET ske == ske_from_body(body, "Ecdhe")
        sig == IF ske.signature.form = "raw" THEN ske.signature
               ELSE sm2_signature_der_to_raw(ske.signature)
    IN  Sm2Verifier_verify(sig, key, distid, <<ske.ephemeral>>)
IbcSkeVerdict(c, body) ==
    LET ske == ske_from_body(body, "Ibc")
        answer == Sm9Verifier_verify(ske.signature, c.sm9.ppubs, c.sm9.id, <<c.sm9.id>>)
    IN  IF c.sm9 = Con!NoSm9 THEN "config"
        ELSE IF ske.id # c.sm9.id THEN "ske"
        ELSE IF answer \notin {"Ok(true)", "Ok(false)"} THEN "ske"
        ELSE "ok"
RsaSkeVerdict(c, body, enc_cert) ==
    IF c.rsa_pub = None THEN "config"
    ELSE IF RsaVerifier_verify(ske_from_body(body, "Ecc").signature, c.rsa_pub, enc_cert)
    THEN "ok" ELSE "ske"
Sm2SkeVerdict(c, kx, body, enc_cert) ==
    IF c.pin = None THEN "config"
    ELSE IF IF kx = "Ecc" THEN verify_ske_ecc(body, enc_cert, c.pin, c.pin_distid)
            ELSE verify_ske_ecdhe(body, c.pin, c.pin_distid)
    THEN "ok" ELSE "ske"
SkeVerdict(c, kx, body, enc_cert) ==
    IF kx = "Ibc" THEN IbcSkeVerdict(c, body)
    ELSE IF kx = "Rsa" THEN RsaSkeVerdict(c, body, enc_cert)
    ELSE Sm2SkeVerdict(c, kx, body, enc_cert)

-----------------------------------------------------------------------------
(* ClientKeyExchange: one field, what it is depends on the suite. *)

cke_to_bytes(payload) == <<payload>>
cke_from_body(body) == body[1]

(* The client's part: the body, << >> for a failure, and the pre-master    *)
(* secret.                                                                 *)
Cke(payload, pms) == [body |-> cke_to_bytes(payload), pms |-> pms]
NoCke == [body |-> << >>, pms |-> << >>]
RandomPms == <<"random">>

(* sm2_compute_z, and the agreement between two pairs of a static and an   *)
(* ephemeral key, which is the same from either side.                      *)
sm2_compute_z(key, id) == <<key, id>>
compute_tlcp_ecdhe_pms(local, peer, z_server, z_client) ==
    <<{local, peer}, z_server, z_client>>

IbcCke(c) ==
    IF c.sm9 = Con!NoSm9 THEN NoCke
    ELSE Cke(Sm9Encryptor_encrypt(c.sm9.ppube, c.sm9.id, RandomPms), RandomPms)

(* For IBSDH zeros stand in until the server has answered. *)
IbsdhCke(c) ==
    IF c.sm9 = Con!NoSm9 THEN NoCke
    ELSE Cke(initiator_begin(c.sm9.id, c.sm9.ppube), <<"zeros">>)
RsaCke(c) ==
    IF c.rsa_pub = None THEN NoCke
    ELSE Cke(RsaEncryptor_encrypt(c.rsa_pub, RandomPms), RandomPms)
EccCke(pair) ==
    LET key == extract_sm2_pubkey(pair.enc)
    IN  IF key = None THEN NoCke
        ELSE Cke(Sm2Encryptor_encrypt(key, RandomPms), RandomPms)
EcdheCke(c, pair, ske) ==
    LET own == Con!load_client_key(c, c.enc_pem)
        key == extract_sm2_pubkey(pair.enc)
        pms == compute_tlcp_ecdhe_pms(
                   <<own, "client ephemeral">>,
                   <<key, ske_from_body(ske, "Ecdhe").ephemeral>>,
                   sm2_compute_z(key, c.server_enc_distid),
                   sm2_compute_z(own, c.client_enc_distid))
    IN  IF own = None \/ key = None THEN NoCke ELSE Cke("client ephemeral", pms)
ClientKeyExchange(kx, c, pair, ske) ==
    IF kx = "Ibc" THEN IbcCke(c)
    ELSE IF kx = "Ibsdh" THEN IbsdhCke(c)
    ELSE IF kx = "Rsa" THEN RsaCke(c)
    ELSE IF kx = "Ecc" THEN EccCke(pair)
    ELSE EcdheCke(c, pair, ske)

(* The server's pre-master secret; certs is what the client sent. *)
IbcPms(s, payload) ==
    IF s.sm9 = Acc!NoSm9 THEN << >>
    ELSE Sm9Decryptor_decrypt(s.sm9.kgc, s.sm9.id, payload)
RsaPms(s, payload) ==
    IF s.rsa_key = None THEN << >> ELSE RsaDecryptor_decrypt(s.rsa_key, payload)
EccPms(s, payload) ==
    IF s.enc_key = None THEN << >> ELSE Sm2Decryptor_decrypt(s.enc_key, payload)
EcdhePms(s, payload, certs) ==
    LET key == IF Len(certs) < 2 THEN None ELSE extract_sm2_pubkey(certs[2])
    IN  IF s.enc_key = None \/ key = None THEN << >>
        ELSE compute_tlcp_ecdhe_pms(
                 <<s.enc_key, "server ephemeral">>, <<key, payload>>,
                 sm2_compute_z(s.enc_key, s.server_enc_distid),
                 sm2_compute_z(key, s.client_enc_distid))

(* IBSDH: the deferred ServerKeyExchange, which says R_A again, and its    *)
(* key.  responder_process is given the server's identity for both sides.  *)
Responder(s, r_a) ==
    responder_process(s.sm9.id, s.sm9.id, s.sm9.kgc, <<s.sm9.id, s.sm9.kgc>>, r_a)
DeferredSke(s, r_a) ==
    IF s.sm9 = Acc!NoSm9 THEN << >>
    ELSE ske_to_bytes("Ibsdh", [ra |-> r_a, rb |-> Responder(s, r_a).r_b,
                                sb |-> Responder(s, r_a).s_b])
IbsdhPms(s, r_a) ==
    IF s.sm9 = Acc!NoSm9 THEN << >> ELSE Responder(s, r_a).shared_key
ServerPms(kx, s, payload, certs) ==
    IF kx = "Ibc" THEN IbcPms(s, payload)
    ELSE IF kx = "Ibsdh" THEN IbsdhPms(s, payload)
    ELSE IF kx = "Rsa" THEN RsaPms(s, payload)
    ELSE IF kx = "Ecdhe" THEN EcdhePms(s, payload, certs)
    ELSE EccPms(s, payload)

(* The client's check of the deferred message: the R_A it sent, its own    *)
(* exchange key, the confirmation; then the agreed key.                    *)
DeferredVerdict(c, r_a, body) ==
    LET ske == ske_from_body(body, "Ibsdh")
    IN  IF ske.ra # r_a THEN "ske"
        ELSE IF c.ibsdh = Con!NoExchangeKey THEN "config"
        ELSE IF initiator_finish(r_a, ske.rb, c.ibsdh.de, c.ibsdh.id, c.sm9.id, ske.sb)
                   = << >> THEN "ske"
        ELSE "ok"
AgreedPms(c, r_a, body) ==
    LET ske == ske_from_body(body, "Ibsdh")
    IN  initiator_finish(r_a, ske.rb, c.ibsdh.de, c.ibsdh.id, c.sm9.id, ske.sb)

-----------------------------------------------------------------------------
(* Keys. *)

(* prf_expand, and what is made with it: the master secret, the key block  *)
(* with its slices for either direction, and verify_data of Finished.      *)
prf_expand(secret, label, seed) == <<label, secret, seed>>
derive_master_secret(pms) == prf_expand(pms, "master secret", "randoms")
TlcpKeyMaterial(master, suite) ==
    LET block == prf_expand(master, "key expansion", "randoms")
        layout == IF TlcpCipherSuite[suite].gcm THEN "gcm" ELSE "cbc"
    IN  [client |-> <<block, layout, "client">>,
         server |-> <<block, layout, "server">>]
verify_data(who, master, transcript) == prf_expand(master, who, transcript)

=============================================================================
