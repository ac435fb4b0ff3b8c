--------------------------- MODULE SessionTicket ---------------------------
(***************************************************************************)
(* Session tickets (gm-tls/src/session_ticket.rs), the stores that keep    *)
(* them from being used twice (gm-tls/src/session_store.rs) and what       *)
(* connect_gm_rust does with the answer (gm-tls/src/gm.rs).                *)
(*                                                                         *)
(* decrypt_session_ticket asks the store, validates, and marks the ticket, *)
(* with an await between the three: calls of several tasks or processes    *)
(* interleave there.  Time is in seconds, as created_at is.                *)
(***************************************************************************)
EXTENDS Integers, Sequences, FiniteSets

CONSTANTS
    Workers,        \* concurrent callers of decrypt_session_ticket
    Tickets,        \* tickets that may be issued
    Forged,         \* byte strings no key set ever sealed
    KeyIds, Secrets,
    MaxKeys,        \* bound: keys in the set
    Deployments,    \* how the program may be deployed, see below
    TicketFailClosed, \* HandshakeOptions::session_ticket_fail_closed
    CacheSize,      \* MAX_TICKET_CACHE_SIZE
    HexLen,         \* characters of the hex form of a ticket
    ColumnWidth,    \* of Postgres' ticket_hash: VARCHAR(128)
    Day,            \* MAX_TICKET_LIFETIME, TICKET_TTL, the 24 hours of prune
    HandshakeTimeout, \* HandshakeOptions::handshake_timeout; 0 is none
    MaxAccepted     \* bound: acceptances of a ticket are counted up to here

(***************************************************************************)
(* What the constructors of the stores fix for their operations: whether   *)
(* the tickets are in a table that outlives the process and can fail, what *)
(* a failed check answers, whether the hex form of a ticket fits its       *)
(* column, whether entries end by themselves, whether prune_expired does   *)
(* anything.                                                               *)
(***************************************************************************)
InMemorySessionStore ==
    [table |-> FALSE, fail_closed |-> TRUE, fits |-> TRUE, ttl |-> FALSE,
     prunes |-> FALSE]

SqliteSessionStore(fail_closed) ==
    [table |-> TRUE, fail_closed |-> fail_closed, fits |-> TRUE,
     ttl |-> FALSE, prunes |-> TRUE]

PostgresSessionStore(fail_closed) ==
    [table |-> TRUE, fail_closed |-> fail_closed,
     fits |-> HexLen <= ColumnWidth, ttl |-> FALSE, prunes |-> TRUE]

RedisSessionStore(fail_closed) ==
    [table |-> TRUE, fail_closed |-> fail_closed, fits |-> TRUE,
     ttl |-> TRUE, prunes |-> FALSE]

(* SessionStoreConfig::build, for every configuration. *)
SessionStores ==
    {InMemorySessionStore}
    \cup {SqliteSessionStore(f) : f \in BOOLEAN}
    \cup {PostgresSessionStore(f) : f \in BOOLEAN}
    \cup {RedisSessionStore(f) : f \in BOOLEAN}

(* The store; per_connect: connect_gm_rust builds it for every connection, *)
(* otherwise the callers of decrypt_session_ticket share one; how many     *)
(* tickets the issuer issues and the last second (bounds); the             *)
(* lifetime_hints; whether its keys are rotated; whether the database may  *)
(* fail and the process may restart.                                       *)
ASSUME SessionTicketConstants ==
    /\ IsFiniteSet(Tickets) /\ Tickets \cap Forged = {} /\ Workers # {}
    /\ TicketFailClosed \in BOOLEAN
    /\ CacheSize \in Nat \ {0} /\ HexLen \in Nat /\ ColumnWidth \in Nat
    /\ Deployments \subseteq
         [store : SessionStores, per_connect : BOOLEAN, tickets : Nat,
          seconds : Nat, lifetimes : SUBSET Nat, rotates : BOOLEAN,
          faults : BOOLEAN]
    /\ Day \in Nat \ {0}
    /\ HandshakeTimeout \in 0..Day
    /\ MaxKeys \in Nat /\ MaxAccepted \in Nat \ {0, 1}

AllTickets == Tickets \cup Forged
Shared == "shared"
Keys == [id : KeyIds, secret : Secrets]
NoTicket == [key |-> << >>, created_at |-> 0, lifetime_hint |-> 0,
             require_client_auth |-> FALSE]

VARIABLES
    now,        \* the clock
    keys,       \* TicketKeySet
    tickets,    \* [Tickets -> SessionState], NoTicket when not issued
    cache,      \* InMemorySessionStore, per owner: tickets in order
    rows,       \* the database table: [ticket, created_at]
    call,       \* [Workers -> the call in progress and its last result]
    accepted,   \* history: how often a ticket was accepted
    faulted,    \* history: tickets a store operation failed on
    deployment  \* chosen at the start

vars == <<now, keys, tickets, cache, rows, call, accepted, faulted, deployment>>

Results == {"none", "Ok", "Replay", "Invalid", "Expired", "StoreError",
            "NoStore", "Timeout"}

States == [key : Keys \cup {<< >>}, created_at : Nat, lifetime_hint : Nat,
           require_client_auth : BOOLEAN]

Calls == [stage : {"idle", "check", "validate", "mark"},
          ticket : AllTickets \cup {Shared}, keys : Seq(Keys), start : Nat,
          result : Results, next : {"none", "resume", "fallback", "abort"}]

Init ==
    /\ now = 0
    /\ \E k \in Keys : keys = <<k>>
    /\ tickets = [t \in Tickets |-> NoTicket]
    /\ cache = [w \in Workers \cup {Shared} |-> << >>]
    /\ rows = {}
    /\ call = [w \in Workers |->
                 [stage |-> "idle", ticket |-> Shared, keys |-> << >>,
                  start |-> 0, result |-> "none", next |-> "none"]]
    /\ accepted = [t \in Tickets |-> 0]
    /\ faulted = {}
    /\ deployment \in Deployments

Members(s) == {s[i] : i \in 1..Len(s)}
Issued(t) == t \in Tickets /\ tickets[t] # NoTicket

-----------------------------------------------------------------------------
(* TicketKeySet. *)

add_key(k) ==
    /\ deployment.rotates /\ Len(keys) < MaxKeys
    /\ keys' = Append(keys, k)
    /\ UNCHANGED <<now, tickets, cache, rows, call, accepted, faulted,
                   deployment>>

(* The first key with this id goes, unless it is the primary of several.   *)
Without(ks, id) ==
    LET match == {i \in 1..Len(ks) : ks[i].id = id}
        pos == CHOOSE i \in match : \A j \in match : i <= j
    IN  IF match = {} \/ (pos = 1 /\ Len(ks) > 1)
        THEN ks
        ELSE SubSeq(ks, 1, pos - 1) \o SubSeq(ks, pos + 1, Len(ks))

(* Seeded fault: only the primary key is looked at. *)
find_key_primary(ks, id) ==
    IF ks = << >> \/ ks[1].id # id THEN << >> ELSE ks[1]

find_key(ks, id) ==
    LET match == {i \in 1..Len(ks) : ks[i].id = id}
    IN  IF match = {} THEN << >>
        ELSE ks[CHOOSE i \in match : \A j \in match : i <= j]

remove_key(id) ==
    /\ deployment.rotates
    /\ keys' = Without(keys, id)
    /\ UNCHANGED <<now, tickets, cache, rows, call, accepted, faulted,
                   deployment>>

(* create_session_state and encrypt_session_ticket: sealed with the        *)
(* primary key; an empty set refuses.                                      *)
encrypt_session_ticket(t, lifetime, auth) ==
    /\ ~Issued(t) /\ keys # << >>
    /\ Cardinality({u \in Tickets : Issued(u)}) < deployment.tickets
    /\ tickets' = [tickets EXCEPT ![t] =
                     [key |-> Head(keys), created_at |-> now,
                      lifetime_hint |-> lifetime, require_client_auth |-> auth]]
    /\ UNCHANGED <<now, keys, cache, rows, call, accepted, faulted, deployment>>

-----------------------------------------------------------------------------
(* What connect_gm_rust does with the result of decrypt_session_ticket.    *)

classify_ticket_error(result) ==
    CASE result = "Replay"  -> "ReplayDetected"
      [] result = "Expired" -> "Expired"
      [] result = "Invalid" -> "TamperedOrForged"
      [] OTHER              -> "Other"

Decision(result) ==
    CASE result = "Ok" -> "resume"
      [] result \in {"NoStore", "Timeout"} -> "abort"
      [] classify_ticket_error(result) = "TamperedOrForged" /\ TicketFailClosed
           -> "abort"
      [] OTHER -> "fallback"

Finished(w, result) ==
    call' = [call EXCEPT ![w].stage = "idle", ![w].start = 0,
                         ![w].result = result, ![w].next = Decision(result)]

(* connect_gm_rust, up to the first store access.  It builds a new store   *)
(* for every connection, which ends it when the database cannot be reached *)
(* or its table not created; an in-memory store starts empty.  A string    *)
(* that is too short or too long is refused before the store is asked.     *)
decrypt_session_ticket(w, t) ==
    /\ call[w].stage = "idle"
    /\ Issued(t) \/ t \in Forged
    /\ cache' = IF deployment.per_connect THEN [cache EXCEPT ![w] = << >>] ELSE cache
    /\ \/ call' = [call EXCEPT ![w] =
                     [stage |-> "check", ticket |-> t, keys |-> keys,
                      start |-> now, result |-> "none", next |-> "none"]]
       \/ \E result \in {"Invalid", "NoStore"} :
          /\ result = "Invalid" => t \in Forged
          /\ result = "NoStore" => /\ deployment.per_connect
                                  /\ deployment.faults /\ deployment.store.table
          /\ call' = [call EXCEPT ![w] =
                        [stage |-> "idle", ticket |-> t, keys |-> keys,
                         start |-> 0, result |-> result,
                         next |-> Decision(result)]]
    /\ UNCHANGED <<now, keys, tickets, rows, accepted, faulted, deployment>>

Store(w) == IF deployment.per_connect THEN w ELSE Shared

(* A row of the table that the database still shows: Redis drops a key by  *)
(* itself when its time to live is over.                                   *)
Stored(t) ==
    \E r \in rows : /\ r.ticket = t
                    /\ deployment.store.ttl => now < r.created_at + Day

Fault(t) == /\ deployment.faults /\ deployment.store.table
            /\ faulted' = faulted \cup {t}

(* The table after an insert that leaves an existing row alone. *)
Inserted(t) ==
    IF Stored(t) THEN rows
    ELSE {r \in rows : r.ticket # t} \cup {[ticket |-> t, created_at |-> now]}

is_ticket_replay(w) ==
    LET t == call[w].ticket
        Answer(replay) == IF replay THEN Finished(w, "Replay")
                          ELSE call' = [call EXCEPT ![w].stage = "validate"]
    IN
    /\ call[w].stage = "check"
    /\ \/ /\ Answer(IF deployment.store.table THEN Stored(t)
                    ELSE t \in Members(cache[Store(w)]))
          /\ UNCHANGED faulted
       \/ Fault(t) /\ Answer(deployment.store.fail_closed)
    /\ UNCHANGED <<now, keys, tickets, cache, rows, accepted, deployment>>

(* Seeded fault: the 24-hour cap on the lifetime hint is missing. *)
MaxLifetime_uncapped(s) == s.lifetime_hint

MaxLifetime(s) == IF s.lifetime_hint < Day THEN s.lifetime_hint ELSE Day

(* Key lookup, decryption, expiry and client authentication, in order.  A  *)
(* ticket decrypts under the key that sealed it, a forged one never.       *)
Validated(t, ks) ==
    IF ~(Issued(t) /\ find_key(ks, tickets[t].key.id) = tickets[t].key)
    THEN "Invalid"
    ELSE IF now - tickets[t].created_at > MaxLifetime(tickets[t])
    THEN "Expired"
    ELSE IF tickets[t].require_client_auth
    THEN "Invalid"
    ELSE "Ok"

Validate(w) ==
    /\ call[w].stage = "validate"
    /\ LET result == Validated(call[w].ticket, call[w].keys)
       IN  IF result = "Ok" THEN call' = [call EXCEPT ![w].stage = "mark"]
           ELSE Finished(w, result)
    /\ UNCHANGED <<now, keys, tickets, cache, rows, accepted, faulted,
                   deployment>>

Accepts(w, t) ==
    /\ Finished(w, "Ok")
    /\ accepted' = [accepted EXCEPT ![t] = IF @ < MaxAccepted THEN @ + 1 ELSE @]

Refuses(w) == Finished(w, "StoreError") /\ UNCHANGED accepted

(* FIFO eviction: a full cache loses the older half. *)
Evict(s) ==
    IF Len(s) >= CacheSize THEN SubSeq(s, CacheSize \div 2 + 1, Len(s)) ELSE s

InMemoryMark(w, t) ==
    LET c == cache[Store(w)] IN
    \/ /\ t \in Members(c)
       /\ Refuses(w) /\ UNCHANGED cache
    \/ /\ t \notin Members(c)
       /\ Accepts(w, t)
       /\ cache' = [cache EXCEPT ![Store(w)] = Append(Evict(c), t)]

(* Seeded fault: every backend has the narrow column. *)
TooWide_anywhere == HexLen > ColumnWidth

TooWide == ~deployment.store.fits

(* INSERT OR IGNORE, ON CONFLICT DO NOTHING, SET NX EX: one atomic step.   *)
(* Postgres refuses a value wider than its column.  A failing database may *)
(* or may not have done the insert.                                        *)
DatabaseMark(w, t) ==
    \/ /\ TooWide \/ Stored(t)
       /\ Refuses(w) /\ UNCHANGED <<rows, faulted>>
    \/ /\ ~TooWide /\ ~Stored(t)
       /\ Accepts(w, t) /\ rows' = Inserted(t) /\ UNCHANGED faulted
    \/ /\ Fault(t)
       /\ Refuses(w) /\ UNCHANGED rows
    \/ /\ Fault(t) /\ ~TooWide
       /\ Refuses(w) /\ rows' = Inserted(t)

mark_ticket_used(w) ==
    LET t == call[w].ticket IN
    /\ call[w].stage = "mark"
    /\ \/ /\ ~deployment.store.table
          /\ InMemoryMark(w, t)
          /\ UNCHANGED <<rows, faulted>>
       \/ /\ deployment.store.table
          /\ DatabaseMark(w, t)
          /\ UNCHANGED cache
    /\ UNCHANGED <<now, keys, tickets, deployment>>

(* with_handshake_timeout drops the call at the await it has reached; the  *)
(* database may still carry out an insert that was on its way.             *)
HandshakeTimedOut(w) ==
    /\ call[w].stage # "idle"
    /\ HandshakeTimeout # 0 /\ now - call[w].start >= HandshakeTimeout
    /\ Finished(w, "Timeout")
    /\ \/ UNCHANGED <<rows, faulted>>
       \/ /\ call[w].stage = "mark" /\ ~TooWide /\ Fault(call[w].ticket)
          /\ rows' = Inserted(call[w].ticket)
    /\ UNCHANGED <<now, keys, tickets, cache, accepted, deployment>>

-----------------------------------------------------------------------------
prune_expired ==
    /\ deployment.store.prunes
    /\ rows' = {r \in rows : ~(r.created_at < now - Day)}
    /\ rows' # rows
    /\ UNCHANGED <<now, keys, tickets, cache, call, accepted, faulted,
                   deployment>>

(* The process ends and starts again: its calls and an in-memory store are *)
(* gone, the database is not.                                              *)
Restart ==
    /\ deployment.faults
    /\ call' = [w \in Workers |-> [call[w] EXCEPT !.stage = "idle",
                                                !.start = 0]]
    /\ cache' = [o \in Workers \cup {Shared} |-> << >>]
    /\ UNCHANGED <<now, keys, tickets, rows, accepted, faulted, deployment>>

(* The clock; no call outlives the handshake timeout, if there is one.     *)
Tick ==
    /\ now < deployment.seconds
    /\ HandshakeTimeout # 0 => \A w \in Workers :
          call[w].stage # "idle" => now - call[w].start < HandshakeTimeout
    /\ now' = now + 1
    /\ UNCHANGED <<keys, tickets, cache, rows, call, accepted, faulted,
                   deployment>>

Next ==
    \/ \E k \in Keys : add_key(k)
    \/ \E id \in KeyIds : remove_key(id)
    \/ \E t \in Tickets, l \in deployment.lifetimes, a \in BOOLEAN :
          encrypt_session_ticket(t, l, a)
    \/ \E w \in Workers :
          \/ \E t \in AllTickets : decrypt_session_ticket(w, t)
          \/ is_ticket_replay(w)
          \/ Validate(w)
          \/ mark_ticket_used(w)
          \/ HandshakeTimedOut(w)
    \/ prune_expired
    \/ Restart
    \/ Tick

Spec == Init /\ [][Next]_vars

-----------------------------------------------------------------------------
(* Properties. *)

TypeOK ==
    /\ now \in Nat
    /\ keys \in Seq(Keys)
    /\ tickets \in [Tickets -> States]
    /\ cache \in [Workers \cup {Shared} -> Seq(AllTickets)]
    /\ rows \subseteq [ticket : AllTickets, created_at : Nat]
    /\ call \in [Workers -> Calls]
    /\ accepted \in [Tickets -> Nat]
    /\ faulted \subseteq AllTickets
    /\ deployment \in Deployments

(* The store a call asks is one that earlier calls have marked: not so for *)
(* the in-memory store connect_gm_rust makes for every connection.         *)
Remembers == deployment.store.table \/ ~deployment.per_connect

(* However the calls of several workers interleave between the replay      *)
(* check and the mark, whatever fails, restarts or is pruned, a ticket is  *)
(* accepted at most once (session_ticket.rs: "each ticket can only be used *)
(* once"), where the store outlives the call; the in-memory store forgets  *)
(* a ticket only when as many others as it has room for were used.         *)
SingleUse ==
    \A t \in Tickets : accepted[t] > 1 =>
        \/ ~Remembers
        \/ /\ ~deployment.store.table
           /\ Cardinality({u \in Tickets \ {t} : accepted[u] > 0}) >= CacheSize

(* A ticket no store operation ever failed on is refused as used only when *)
(* some call was given it: of the calls that race for it one wins.  Not so *)
(* with PostgreSQL, whose column is narrower than what is stored in it.    *)
FirstUseSucceeds ==
    \A w \in Workers :
        call[w].result \in {"Replay", "StoreError"} =>
            \/ ~deployment.store.fits
            \/ call[w].ticket \in faulted
            \/ call[w].ticket \in Tickets /\ accepted[call[w].ticket] >= 1

(* Rotating keys costs nobody a session: a ticket is refused as invalid    *)
(* only when it was forged, authenticated a client, or its key is no       *)
(* longer in the set the call was given (session_ticket.rs: "All keys are  *)
(* tried during decryption, enabling zero-downtime key rotation").         *)
RotationKeepsTickets ==
    \A w \in Workers :
        LET t == call[w].ticket IN
        call[w].result = "Invalid" /\ Issued(t) =>
            \/ tickets[t].require_client_auth
            \/ tickets[t].key \notin Members(call[w].keys)
=============================================================================
