-------------------------- MODULE MCTlcpSessions --------------------------
(* An instance of TlcpSessions for TLC; TlcpSessions.cfg gives constants.  *)
EXTENDS TlcpSessions

(* A client that knows both suites, and one that knows the other only. *)
MCOffers == {<<"GCM", "CBC">>, <<"CBC">>}

(* Connections, and with them session ids, are interchangeable. *)
Symmetry == Permutations(Connections)
=============================================================================
