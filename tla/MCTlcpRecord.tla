--------------------------- MODULE MCTlcpRecord ---------------------------
(* An instance of TlcpRecord for TLC; TlcpStreams.cfg gives the constants. *)
EXTENDS TlcpRecord

(* The two directions of a connection share no state in this layer, so     *)
(* what holds of one holds of the other: only the client writes.           *)
FourAndNone == [p \in Peers |-> IF p = "client" THEN 4 ELSE 0]
=============================================================================
