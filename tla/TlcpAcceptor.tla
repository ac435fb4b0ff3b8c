---------------------------- MODULE TlcpAcceptor ----------------------------
(***************************************************************************)
(* The configuration of a TLCP server (TlcpAcceptor, gm-tlcp/src/tlcp/     *)
(* mod.rs): what new() leaves and what each with_... call sets.  Module    *)
(* TlcpHandshake runs it.                                                  *)
(***************************************************************************)
EXTENDS CertVerify

NoSm9 == [kgc |-> None, id |-> None]

(* The fields: the certificates and keys for SM2; the identities of the    *)
(* server's signature, of the client's and of the two encryption keys;     *)
(* sm9, the master key of the KGC and the server's identity; for RSA a     *)
(* certificate, a key and whether it is sent alone; v, the verifier of the *)
(* client's certificates.  timeout is whether there is one.                *)
new ==
    [sign_cert |-> NoCert, enc_cert |-> NoCert,
     sign_key |-> None, enc_key |-> None,
     sign_chain |-> << >>, enc_chain |-> << >>,
     sign_distid |-> GM_TLS_DISTID, client_sign_distid |-> GM_TLS_DISTID,
     server_enc_distid |-> GM_TLS_DISTID, client_enc_distid |-> GM_TLS_DISTID,
     sm9 |-> NoSm9, rsa_cert |-> NoCert, rsa_key |-> None, single |-> FALSE,
     v |-> Verifier(FALSE, << >>, << >>, NoUri, << >>, FALSE, {}),
     timeout |-> TRUE]

with_dual_certs(s, sign_cert, enc_cert, sign_key, enc_key) ==
    [s EXCEPT !.sign_cert = sign_cert, !.enc_cert = enc_cert,
              !.sign_key = sign_key, !.enc_key = enc_key]
with_sign_cert_chain(s, chain) == [s EXCEPT !.sign_chain = chain]
with_enc_cert_chain(s, chain) == [s EXCEPT !.enc_chain = chain]

with_server_sign_distid(s, distid) == [s EXCEPT !.sign_distid = distid]
with_server_enc_distid(s, distid) == [s EXCEPT !.server_enc_distid = distid]
with_client_enc_distid(s, distid) == [s EXCEPT !.client_enc_distid = distid]
with_client_sign_distid(s, distid) == [s EXCEPT !.client_sign_distid = distid]

with_sm9_certs(s, kgc, id) == [s EXCEPT !.sm9 = [kgc |-> kgc, id |-> id]]

with_rsa_certs(s, key, cert) == [s EXCEPT !.rsa_key = key, !.rsa_cert = cert]
with_rsa_certs_single(s, key, cert) ==
    [with_rsa_certs(s, key, cert) EXCEPT !.single = TRUE]

with_client_ca_chain(s, anchors) ==
    [s EXCEPT !.v.anchored = TRUE, !.v.anchors = anchors]
with_client_crls(s, crls) == [s EXCEPT !.v.crls = crls]
with_strict_crl(s, strict) == [s EXCEPT !.v.strict = strict]
with_distid_policy(s, fallbacks) == [s EXCEPT !.v.distids = fallbacks]

(* Duration::ZERO is no timeout. *)
with_handshake_timeout(s, timeout) == [s EXCEPT !.timeout = timeout]

=============================================================================
