----------------------------- MODULE MCHttpPool -----------------------------
EXTENDS HttpPool
CONSTANTS t1, t2, h1, h2

Get(client, host) == [client |-> client, body |-> FALSE, host |-> host]
Post(client, host) == [client |-> client, body |-> TRUE, host |-> host]
Pair(a, b) == [t \in Tasks |-> IF t = t1 THEN a ELSE b]

(* Two requests that share the pool at one host or at two, one of them     *)
(* with a body, and requests of the direct client beside them.             *)
TwoRequests ==
    {Pair(Get("pooled", h1), Get("pooled", h1)),
     Pair(Get("pooled", h1), Get("pooled", h2)),
     Pair(Post("pooled", h1), Get("pooled", h1)),
     Pair(Post("direct", h1), Get("pooled", h1)),
     Pair(Get("direct", h1), Post("direct", h2))}
=============================================================================
