--------------------------- MODULE TlcpConnector ---------------------------
(***************************************************************************)
(* The configuration of a TLCP client (TlcpConnector, gm-tlcp/src/tlcp/    *)
(* mod.rs): what new() leaves and what each with_... call sets.  Module    *)
(* TlcpHandshake runs it.                                                  *)
(***************************************************************************)
EXTENDS CertVerify

(* A private key as the operator gives it: in the clear, or under a        *)
(* password.                                                               *)
Pem(key) == [key |-> key, password |-> None]
Encrypted(key, password) == [key |-> key, password |-> password]
NoPem == Pem(None)

NoSm9 == [ppube |-> None, ppubs |-> None, id |-> None]
NoExchangeKey == [de |-> << >>, id |-> None]

(* The fields: pin, the server's signing key, and pin_distid; the client's *)
(* own certificates and keys; the identities used for both encryption keys *)
(* and for the client's signature; sm9, what the KGC published and the     *)
(* server's identity; ibsdh, the client's exchange key; v, the verifier of *)
(* the server's certificates.  timeout is whether there is one.            *)
new ==
    [pin |-> None, pin_distid |-> None,
     server_enc_distid |-> GM_TLS_DISTID, client_enc_distid |-> GM_TLS_DISTID,
     sign_distid |-> GM_TLS_DISTID,
     suites |-> <<"ECDHE_GCM", "ECDHE_CBC", "ECC_GCM", "ECC_CBC", "IBC_GCM",
                  "IBC_CBC", "RSA_GCM_SM3", "RSA_CBC_SM3", "RSA_GCM_SHA256",
                  "RSA_CBC_SHA256">>,
     certs |-> << >>, sign_pem |-> NoPem, enc_pem |-> NoPem, password |-> None,
     sm9 |-> NoSm9, ibsdh |-> NoExchangeKey, rsa_pub |-> None,
     v |-> Verifier(FALSE, << >>, << >>, NoUri, << >>, FALSE, {}),
     timeout |-> TRUE]

with_server_sign_key(c, key, distid) ==
    [c EXCEPT !.pin = key, !.pin_distid = distid]

with_client_certs(c, chain, sign_pem, enc_pem, password) ==
    [c EXCEPT !.certs = chain, !.sign_pem = sign_pem, !.enc_pem = enc_pem,
              !.password = password]

(* load_client_key: in the clear first, then under the password, for which *)
(* there is a default.  None when neither works.                           *)
load_client_key(c, pem) ==
    LET password == IF c.password = None THEN "default" ELSE c.password
    IN  IF pem.password \in {None, password} THEN pem.key ELSE None

with_server_enc_distid(c, distid) == [c EXCEPT !.server_enc_distid = distid]
with_client_enc_distid(c, distid) == [c EXCEPT !.client_enc_distid = distid]
with_client_sign_distid(c, distid) == [c EXCEPT !.sign_distid = distid]

with_cipher_suites(c, suites) ==
    IF suites = << >> THEN c ELSE [c EXCEPT !.suites = suites]

(* The suites of more that are not there yet are put behind the others. *)
Offering(suites, more) ==
    suites \o SelectSeq(more, LAMBDA suite : suite \notin ToSet(suites))

with_sm9_certs(c, ppube, ppubs, id) ==
    [c EXCEPT !.sm9 = [ppube |-> ppube, ppubs |-> ppubs, id |-> id],
              !.suites = Offering(@, <<"IBC_GCM", "IBC_CBC">>)]

with_sm9_client_exchange_key(c, de, id) ==
    [c EXCEPT !.ibsdh = [de |-> de, id |-> id],
              !.suites = Offering(@, <<"IBSDH_GCM", "IBSDH_CBC">>)]

with_rsa_certs(c, pub) ==
    [c EXCEPT !.rsa_pub = pub,
              !.suites = Offering(@, <<"RSA_GCM_SM3", "RSA_CBC_SM3",
                                       "RSA_GCM_SHA256", "RSA_CBC_SHA256">>)]
with_rsa_certs_single(c, pub) == with_rsa_certs(c, pub)

with_server_ca_chain(c, anchors) ==
    [c EXCEPT !.v.anchored = TRUE, !.v.anchors = anchors]
with_server_name(c, name) == [c EXCEPT !.v.name = name]
with_expected_uri(c, uri) == [c EXCEPT !.v.uri = uri]
with_distid_policy(c, fallbacks) == [c EXCEPT !.v.distids = fallbacks]
with_server_crls(c, crls) == [c EXCEPT !.v.crls = crls]
with_strict_crl(c, strict) == [c EXCEPT !.v.strict = strict]

(* Duration::ZERO is no timeout. *)
with_handshake_timeout(c, timeout) == [c EXCEPT !.timeout = timeout]

=============================================================================
