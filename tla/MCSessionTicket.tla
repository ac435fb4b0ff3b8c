-------------------------- MODULE MCSessionTicket --------------------------
EXTENDS SessionTicket, TLC

(* The workers run the same code, and tickets differ in what they hold. *)
StoreSymmetry == Permutations(Workers) \cup Permutations(Tickets)

Deployed(store, per_connect) ==
    [store |-> store, per_connect |-> per_connect, tickets |-> 1, seconds |-> 4,
     lifetimes |-> {1}, rotates |-> FALSE, faults |-> FALSE]

(* Databases that refuse when they fail, one that lets pass, an in-memory  *)
(* store of a process that rotates keys, one that is filled up, and the    *)
(* default of connect_gm_rust, a store in memory for every connect.        *)
Stores ==
    {[Deployed(SqliteSessionStore(TRUE), TRUE) EXCEPT !.faults = TRUE, !.lifetimes = {1, 4}],
     [Deployed(PostgresSessionStore(TRUE), TRUE) EXCEPT !.seconds = 2],
     [Deployed(RedisSessionStore(FALSE), TRUE) EXCEPT !.faults = TRUE],
     [Deployed(InMemorySessionStore, FALSE) EXCEPT !.rotates = TRUE],
     [Deployed(InMemorySessionStore, FALSE) EXCEPT !.tickets = 3, !.seconds = 1],
     Deployed(InMemorySessionStore, TRUE)}
=============================================================================
