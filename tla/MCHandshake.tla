---------------------------- MODULE MCHandshake ----------------------------
EXTENDS Handshake

Base == [peer : {"accept"}, ticket : {"none"}, client_ca : BOOLEAN,
         client_cert : {"none", "good", "untrusted", "revoked", "missed",
                        "borrowed"},
         server_cert : {"none", "good", "untrusted", "revoked", "missed",
                        "wrong_key"},
         ticket_key : {FALSE}, require_client_auth : BOOLEAN,
         server_ca : BOOLEAN, crl : BOOLEAN, crl_age : {-1, 0, 1},
         grace : {0}, client_alpn : {<<"h2">>},
         server_alpn : {<<"http/1.1", "h2">>}]

Sane(c) == (~c.crl => c.crl_age = 0)

(* Every pair of configurations without tickets. *)
NoTickets == {c \in Base : Sane(c)}

(* Every outcome of a ticket, and servers that issue them, with every pair *)
(* of lists of protocols.                                                  *)
Lists == {<< >>, <<"h2">>, <<"h2", "http/1.1">>, <<"http/1.1", "h2">>}
WithTickets ==
    [peer : {"accept"},
     ticket : {"none", "resume", "fallback", "abort"}, client_ca : {TRUE},
     client_cert : {"none", "good"}, server_cert : {"good", "untrusted"},
     ticket_key : BOOLEAN, require_client_auth : BOOLEAN,
     server_ca : {TRUE}, crl : {FALSE}, crl_age : {0}, grace : {0},
     client_alpn : Lists, server_alpn : Lists]

(* The other servers a client with a ticket may meet. *)
OtherServers ==
    [peer : {"resumes", "declines"}, ticket : {"resume"}, client_ca : {TRUE},
     client_cert : {"none", "good"}, server_cert : {"none", "good"},
     ticket_key : {FALSE}, require_client_auth : BOOLEAN,
     server_ca : {TRUE}, crl : {FALSE}, crl_age : {0}, grace : {0},
     client_alpn : {<<"h2">>}, server_alpn : {<< >>, <<"h2">>}]

AllConfigs == NoTickets \cup WithTickets \cup OtherServers
=============================================================================
