--------------------------- MODULE TlcpSessions ---------------------------
(***************************************************************************)
(* The session cache of a TLCP acceptor (gm-tlcp/src/tlcp/session.rs) and  *)
(* the connections that share it: process_client_hello looks a session up, *)
(* accept_with_certs stores one when the handshake is through, and the     *)
(* application may remove one.  The cache is behind one tokio Mutex, so    *)
(* each of its functions is one step; everything else of the connections   *)
(* interleaves.                                                            *)
(*                                                                         *)
(* What a resumed connection does next is a full handshake all the same    *)
(* (module TlcpHandshake): is_resumed decides the suite and the session id *)
(* only.                                                                   *)
(***************************************************************************)
EXTENDS Integers, Sequences, FiniteSets, SequencesExt, Vec

CONSTANTS
    Connections,    \* the accepted connections
    Offers,         \* cipher suites of a ClientHello: sequences
    MaxEntries,     \* max_entries of the cache
    Lifetime,       \* DEFAULT_SESSION_LIFETIME
    MaxTime         \* bound: the time at which a behaviour ends

ASSUME TlcpSessionsConstants ==
    /\ MaxEntries \in Nat /\ Lifetime \in Nat /\ MaxTime \in Nat

VARIABLES
    now,                \* the clock (Instant::now)
    sessions,           \* the HashMap: session id to session
    insertion_order,    \* the Vec of session ids
    conn,               \* [Connections -> Conn]
    puts                \* history: the puts in order, [id, suite, at]

sessions_vars == <<now, sessions, insertion_order, conn, puts>>

(* generate_session_id: random, so the id of a connection is its own name. *)
Ids == Connections

Conn == [stage |-> "idle", session_id |-> "none", suite |-> "none",
         is_resumed |-> FALSE, at |-> 0, offered |-> << >>]

SessionsInit ==
    /\ now = 0
    /\ sessions = [id \in {} |-> 0]
    /\ insertion_order = << >>
    /\ conn = [t \in Connections |-> Conn]
    /\ puts = << >>

-----------------------------------------------------------------------------
(* The cache. *)

is_expired(session) == now - session.created_at > Lifetime

Without(f, ids) == [id \in DOMAIN f \ ids |-> f[id]]
Retain(order, ids) ==
    RetainAt(order, {i \in 1..Len(order) : order[i] \notin ids})

Cache(map, order) == [map |-> map, order |-> order]

evict_expired(c) ==
    LET old == {id \in DOMAIN c.map : is_expired(c.map[id])}
    IN  Cache(Without(c.map, old), Retain(c.order, old))

(* Seeded fault: the newest goes. *)
EvictOldest_newest(c) ==
    IF Cardinality(DOMAIN c.map) >= MaxEntries /\ c.order # << >>
    THEN Cache(Without(c.map, {Last(c.order)}), Front(c.order))
    ELSE c

(* Also when the id that is about to be stored is there already. *)
EvictOldest(c) ==
    IF Cardinality(DOMAIN c.map) >= MaxEntries /\ c.order # << >>
    THEN Cache(Without(c.map, {Head(c.order)}), Tail(c.order))
    ELSE c

Inserted(c, id, session) ==
    LET order == IF id \in DOMAIN c.map THEN Retain(c.order, {id}) ELSE c.order
    IN  Cache([i \in DOMAIN c.map \cup {id} |->
                  IF i = id THEN session ELSE c.map[i]],
              Append(order, id))

Becomes(c) == sessions' = c.map /\ insertion_order' = c.order

put(id, session) ==
    Becomes(Inserted(EvictOldest(evict_expired(Cache(sessions, insertion_order))),
                     id, session))

(* get finds the session, or drops it when its time is over. *)
Found(id) == id \in DOMAIN sessions /\ ~is_expired(sessions[id])
get(id) ==
    IF id \in DOMAIN sessions /\ is_expired(sessions[id])
    THEN Becomes(Cache(Without(sessions, {id}), Retain(insertion_order, {id})))
    ELSE UNCHANGED <<sessions, insertion_order>>

remove(id) ==
    /\ Becomes(Cache(Without(sessions, {id}), Retain(insertion_order, {id})))
    /\ UNCHANGED <<now, conn, puts>>

-----------------------------------------------------------------------------
(* The connections. *)

(* Seeded fault: the suites the client offers are not looked at. *)
Resumes_any(id, offered) == Found(id)

Resumes(id, offered) == Found(id) /\ sessions[id].suite \in ToSet(offered)

(* The ClientHello names a session, perhaps one that is not or no longer   *)
(* there, or none.  A connection that resumes keeps its id and suite.      *)
process_client_hello(t, id, offered) ==
    /\ conn[t].stage = "idle"
    /\ conn' = [conn EXCEPT ![t] =
          IF id # "none" /\ Resumes(id, offered)
          THEN [stage |-> "hello", session_id |-> id,
                suite |-> sessions[id].suite, is_resumed |-> TRUE,
                at |-> now, offered |-> offered]
          ELSE [stage |-> "hello", session_id |-> t,
                suite |-> Head(offered), is_resumed |-> FALSE,
                at |-> now, offered |-> offered]]
    /\ IF id # "none" THEN get(id) ELSE UNCHANGED <<sessions, insertion_order>>
    /\ UNCHANGED <<now, puts>>

(* The last step of accept_with_certs: the session, created now, replaces  *)
(* one of the same id.                                                     *)
StoreSession(t) ==
    /\ conn[t].stage = "hello"
    /\ conn' = [conn EXCEPT ![t].stage = "established"]
    /\ put(conn[t].session_id, [suite |-> conn[t].suite, created_at |-> now])
    /\ puts' = Append(puts, [id |-> conn[t].session_id, suite |-> conn[t].suite,
                             at |-> now])
    /\ UNCHANGED now

(* The handshake fails, or its timeout drops it before the put. *)
Fails(t) ==
    /\ conn[t].stage = "hello"
    /\ conn' = [conn EXCEPT ![t].stage = "failed"]
    /\ UNCHANGED <<now, sessions, insertion_order, puts>>

Tick ==
    /\ now < MaxTime
    /\ now' = now + 1
    /\ UNCHANGED <<sessions, insertion_order, conn, puts>>

SessionsNext ==
    \/ Tick
    \/ \E id \in Ids : remove(id)
    \/ \E t \in Connections :
          \/ \E id \in Ids \cup {"none"}, offered \in Offers :
                process_client_hello(t, id, offered)
          \/ StoreSession(t)
          \/ Fails(t)

SessionsSpec == SessionsInit /\ [][SessionsNext]_sessions_vars

-----------------------------------------------------------------------------
(* Properties. *)

(* A connection resumes only a session that a completed handshake stored   *)
(* under this id with this suite, which had not expired at that moment,    *)
(* and whose suite the client had offered: never that of a handshake that  *)
(* failed or was dropped, whatever happened to the cache in between.       *)
ResumedSound ==
    \A t \in Connections :
        conn[t].is_resumed =>
            /\ conn[t].suite \in ToSet(conn[t].offered)
            /\ \E i \in 1..Len(puts) :
                  /\ puts[i].id = conn[t].session_id
                  /\ puts[i].suite = conn[t].suite
                  /\ puts[i].at <= conn[t].at
                  /\ conn[t].at - puts[i].at <= Lifetime

(* First in, first out: unless the application removed it, a session that  *)
(* has not expired is lost only when the cache was full of later ones, so  *)
(* after at least max_entries further puts (session.rs: "FIFO eviction     *)
(* when capacity is reached").                                             *)
LosesOnlyOldest ==
    \A id \in DOMAIN sessions \ DOMAIN sessions' :
        \/ is_expired(sessions[id])
        \/ remove(id)
        \/ LET last == Max({i \in 1..Len(puts) : puts[i].id = id})
           IN  Len(puts') - last >= MaxEntries
RetainedWhileRoom == [][LosesOnlyOldest]_sessions_vars
=============================================================================
