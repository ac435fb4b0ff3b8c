-------------------------- MODULE MCTlcpHandshake --------------------------
(* Around a connector and an acceptor that fit for every suite: what the   *)
(* operator of either side can leave out or get wrong.  What is set twice  *)
(* has the value of the second call.                                       *)
EXTENDS TlcpHandshake

Root == [Cert("R", "R", "kr", "kr") EXCEPT !.bc = "ca"]
Mid == [Cert("I", "R", "ki", "kr") EXCEPT !.bc = "ca"]
Leaf(name, key) == Cert(name, "R", key, "kr")
Deep(name, key) == Cert(name, "I", key, "ki")
Revoking(serial) == <<Crl("R", "kr", {serial})>>

(* The calls that configure a connector, each leaving the rest alone. *)
Pinned(k) == Con!with_server_sign_key(k, "ss", GM_TLS_DISTID)
Certified(k) ==
    Con!with_client_certs(k, <<Leaf("cs", "cs"), Leaf("ce", "ce")>>,
                          Con!Pem("cs"), Con!Encrypted("ce", "default"), None)
Sm9(k) == Con!with_sm9_certs(k, "kgc", "kgc", "server")
Exchanging(k) ==
    Con!with_sm9_client_exchange_key(k, <<"server", "kgc">>, "server")
Rsa(k) == Con!with_rsa_certs(k, "rk")
Trusting(k) ==
    Con!with_server_crls(Con!with_server_ca_chain(k, <<Root>>), Revoking(<<2>>))
Strict(k) == Con!with_strict_crl(k, TRUE)
Patient(k) == Con!with_handshake_timeout(k, FALSE)

Unpinned ==
    Patient(Strict(Trusting(Rsa(Exchanging(Sm9(Certified(Con!new)))))))
GoodC == Pinned(Unpinned)

OtherCerts(chain, sign, enc, password) ==
    Con!with_client_certs(GoodC, chain, sign, enc, password)
Leaves == <<Leaf("cs", "cs"), Leaf("ce", "ce")>>

Connectors ==
    <<GoodC, Unpinned,
     Con!with_server_sign_key(GoodC, "other", GM_TLS_DISTID),
     Con!with_server_sign_key(GoodC, "ss", ""),
     Con!with_client_sign_distid(GoodC, ""),
     Con!with_server_enc_distid(GoodC, ""), Con!with_client_enc_distid(GoodC, ""),
     Pinned(Patient(Con!new)),
     OtherCerts(<<Leaf("cs", "cs")>>, Con!Pem("cs"), Con!NoPem, None),
     OtherCerts(<<Deep("cs", "cs"), Deep("ce", "ce"), Mid>>,
                Con!Pem("cs"), Con!Pem("ce"), None),
     OtherCerts(<<Leaf("cs", "cs"), Garbage>>, Con!Pem("cs"), Con!Pem("ce"), None),
     OtherCerts(Leaves, Con!Pem("other"), Con!Pem("ce"), None),
     OtherCerts(Leaves, Con!Pem("cs"), Con!Pem("other"), None),
     OtherCerts(Leaves, Con!Encrypted("cs", "secret"), Con!Pem("ce"), "secret"),
     OtherCerts(Leaves, Con!Encrypted("cs", "secret"), Con!Pem("ce"), None),
     Con!with_sm9_certs(GoodC, "kgc", "kgc", "other"),
     Con!with_sm9_certs(GoodC, "kgc", "other", "server"),
     Pinned(Patient(Trusting(Sm9(Con!new)))),
     Con!with_sm9_client_exchange_key(GoodC, <<"client", "kgc">>, "client"),
     Con!with_rsa_certs_single(GoodC, "other"),
     Con!with_server_ca_chain(GoodC, << >>), Con!with_server_crls(GoodC, << >>),
     Con!with_server_name(GoodC, <<"a", "x">>),
     Con!with_expected_uri(GoodC, [ok |-> TRUE, domain |-> "x", path |-> << >>]),
     Con!with_distid_policy(GoodC, {""}), Con!with_handshake_timeout(GoodC, TRUE)>>

(* The same for an acceptor. *)
Dual(k) == Acc!with_dual_certs(k, Leaf("ss", "ss"), Leaf("se", "se"), "ss", "se")
Kgc(k) == Acc!with_sm9_certs(k, "kgc", "server")
WithRsa(k) == Acc!with_rsa_certs(k, "rk", Leaf("rc", "rk"))
Checking(k) ==
    Acc!with_strict_crl(Acc!with_client_crls(
        Acc!with_client_ca_chain(k, <<Root>>), Revoking(<<2>>)), TRUE)
Willing(k) == Acc!with_handshake_timeout(k, FALSE)

Bare == Willing(Checking(Kgc(Acc!new)))
GoodS == WithRsa(Dual(Bare))

Acceptors ==
    <<GoodS, Acc!new, Bare, Dual(Bare), WithRsa(Bare),
     Acc!with_rsa_certs_single(Bare, "rk", Leaf("rc", "rk")),
     Acc!with_dual_certs(GoodS, Leaf("ss", "ss"), Leaf("se", "se"), "ss", "other"),
     Acc!with_dual_certs(GoodS, Leaf("ss", "ss"), Leaf("se", "se"), "other", "se"),
     Acc!with_dual_certs(GoodS, Leaf("ss", "ss"), Garbage, "ss", "se"),
     Acc!with_enc_cert_chain(Acc!with_sign_cert_chain(
         Acc!with_dual_certs(GoodS, Deep("ss", "ss"), Deep("se", "se"), "ss", "se"),
         <<Mid>>), <<Mid>>),
     Acc!with_server_sign_distid(GoodS, ""), Acc!with_client_sign_distid(GoodS, ""),
     Acc!with_server_enc_distid(GoodS, ""), Acc!with_client_enc_distid(GoodS, ""),
     WithRsa(Dual(Willing(Acc!new))), Acc!with_sm9_certs(GoodS, "other", "server"),
     Acc!with_client_crls(GoodS, << >>),
     Acc!with_strict_crl(Acc!with_client_crls(GoodS, Revoking(<<1>>)), FALSE),
     Acc!with_distid_policy(GoodS, {""}), Acc!with_handshake_timeout(GoodS, TRUE)>>

Offers == <<Con!new.suites, <<"unknown", "ECC_CBC">>, <<"IBC_GCM">>,
           <<"IBSDH_CBC">>, <<"RSA_GCM_SM3">>, <<"unknown">>>>

(* connect_with_certs is the way round the pin. *)
Entries(i) ==
    IF Connectors[i] = Unpinned THEN {"connect", "connect_with_certs"}
    ELSE {"connect"}

MCCases ==
    UNION {{[c |-> Con!with_cipher_suites(Connectors[i], Offers[k]),
             s |-> Acceptors[j], entry |-> e] :
               j \in DOMAIN Acceptors, k \in DOMAIN Offers, e \in Entries(i)} :
              i \in DOMAIN Connectors}

=============================================================================
