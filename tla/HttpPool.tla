------------------------------ MODULE HttpPool ------------------------------
(***************************************************************************)
(* The HTTP client over GM/TLS (gm-http-client): GmHttpClient::request,    *)
(* which opens a connection for every request, and                         *)
(* PooledHttpClient::request over a ConnectionPool, with the background    *)
(* cleanup task.  Requests run concurrently, each is one task, and a task  *)
(* may be dropped by its caller at any await.                              *)
(*                                                                         *)
(* The server is external: it answers every complete request, in one of    *)
(* the Framings, and may close a connection at any time.  What one read    *)
(* returns is a chunk; a response with a body has a body of one unit,      *)
(* announced by Content-Length or not ("chunked").                         *)
(* Time is the age of a pooled entry, which saturates.                     *)
(***************************************************************************)
EXTENDS Integers, Sequences, FiniteSets, FiniteSetsExt, Vec

CONSTANTS
    Hosts,
    Tasks,          \* the requests
    Workloads,      \* what the tasks may be asked to do, see Request
    Framings,       \* how the server may lay out a response
    Limits,         \* values of max_per_host
    MaxIdle,        \* MAX_IDLE_TIME, in ticks
    Cancels,        \* a caller may drop a request
    Closes          \* the server may close idle connections

(* A request: which client makes it, whether it has a body, its host. *)
Request == [client : {"direct", "pooled"}, body : BOOLEAN, host : Hosts]

Layouts == {"empty", "split", "joined", "fragmented", "truncated", "bad",
            "chunked"}

ASSUME PoolConstants ==
    /\ IsFiniteSet(Tasks) /\ Workloads \subseteq [Tasks -> Request]
    /\ Framings \subseteq Layouts
    /\ Limits \subseteq Nat /\ MaxIdle \in Nat \ {0}
    /\ Cancels \in BOOLEAN /\ Closes \in BOOLEAN

VARIABLES
    pool,   \* connections: host -> Seq([conn, age])
    max_per_host,
    conn,   \* every connection made, in the order they were made
    task,   \* what each request is doing
    lag     \* ticks since cleanup read the clock, or None

vars == <<pool, max_per_host, conn, task, lag>>

None == -1
NoConn == 0
NoLength == -1      \* a header without a Content-Length that parses
MaxAge == 2 * MaxIdle
ConnIds == 1..Cardinality(Tasks)

Stages == {"new", "get", "connect", "write", "write_body", "head", "body",
           "return", "done", "failed", "cancelled"}
Ended == {"done", "failed", "cancelled"}

(* A chunk: a part of the answer to the request of a task; len is the      *)
(* Content-Length its header announces.                                    *)
Chunks == [req : Tasks, part : {"half_head", "head", "head_body", "body", "bad"},
           len : 0..1 \cup {NoLength}]
Conns == [host : Hosts,
          up : Seq([req : Tasks, part : {"head", "body"}, len : 0..1]),
          down : Seq(Chunks), server_open : BOOLEAN,
          client : {"open", "dropped"},
          stray : BOOLEAN]         \* history: an unannounced body was sent
TaskRecords == [stage : Stages, client : {"direct", "pooled"}, body : BOOLEAN, host : Hosts,
                conn : ConnIds \cup {NoConn}, need : 0..1, from : SUBSET Tasks,
                cut : BOOLEAN,     \* history: body bytes came with the header
                stray : BOOLEAN]   \* history: got its connection when stray

Init ==
    /\ pool = [h \in Hosts |-> << >>]
    /\ conn = << >>
    /\ max_per_host \in Limits
    /\ \E work \in Workloads :
          task = [t \in Tasks |->
                    [stage |-> "new", client |-> work[t].client,
                     body |-> work[t].body, host |-> work[t].host,
                     conn |-> NoConn, need |-> 0, from |-> {}, cut |-> FALSE,
                     stray |-> FALSE]]
    /\ lag = None

-----------------------------------------------------------------------------
(* Steps of a task t. *)

Goto(t, stage) == task' = [task EXCEPT ![t].stage = stage]

(* The future of the request ends and its stream is dropped with it. *)
Drop(t, stage) ==
    /\ Goto(t, stage)
    /\ conn' = IF task[t].conn = NoConn THEN conn
               ELSE [conn EXCEPT ![task[t].conn].client = "dropped"]

(* get and post: parse_and_validate_url, which may refuse the URL. *)
Start(t) ==
    /\ task[t].stage = "new"
    /\ \/ Goto(t, IF task[t].client = "pooled" THEN "get" ELSE "connect")
       \/ Goto(t, "failed")
    /\ UNCHANGED <<pool, max_per_host, conn, lag>>

(* Entries that get_connection and cleanup keep: is_alive is always TRUE   *)
(* for a GmTlsStream.                                                      *)
StillValid(entry, behind) == entry.age - behind < MaxIdle

(* Seeded fault: the entry is looked at, not popped. *)
get_connection_peek(t) ==
    LET p == pool[task[t].host]
        valid == {i \in 1..Len(p) : StillValid(p[i], 0)}
    IN
    /\ task[t].stage = "get"
    /\ task' = [task EXCEPT
                   ![t].stage = IF valid = {} THEN "connect" ELSE "write",
                   ![t].conn = IF valid = {} THEN NoConn ELSE p[Max(valid)].conn]
    /\ UNCHANGED <<pool, max_per_host, conn, lag>>

(* The most recently returned entry that is not stale; the stale ones      *)
(* above it are popped and dropped.                                        *)
get_connection(t) ==
    LET p == pool[task[t].host]
        valid == {i \in 1..Len(p) : StillValid(p[i], 0)}
        kept == IF valid = {} THEN 0 ELSE Max(valid) - 1
    IN
    /\ task[t].stage = "get"
    /\ pool' = [pool EXCEPT ![task[t].host] = SubSeq(p, 1, kept)]
    /\ task' = [task EXCEPT
                   ![t].stage = IF valid = {} THEN "connect" ELSE "write",
                   ![t].conn = IF valid = {} THEN NoConn ELSE p[Max(valid)].conn,
                   ![t].stray = valid # {} /\ conn[p[Max(valid)].conn].stray]
    /\ conn' = [c \in DOMAIN conn |->
                  IF \E i \in kept + 1..Len(p) : i \notin valid /\ p[i].conn = c
                  THEN [conn[c] EXCEPT !.client = "dropped"] ELSE conn[c]]
    /\ UNCHANGED <<max_per_host, lag>>

(* TcpStream::connect and the GM/TLS handshake; the direct client refuses  *)
(* private addresses here as well.                                         *)
Connect(t) ==
    /\ task[t].stage = "connect"
    /\ \/ /\ conn' = Append(conn, [host |-> task[t].host, up |-> << >>,
                                   down |-> << >>, server_open |-> TRUE,
                                   client |-> "open", stray |-> FALSE])
          /\ task' = [task EXCEPT ![t].stage = "write",
                                  ![t].conn = Len(conn) + 1]
       \/ Goto(t, "failed") /\ UNCHANGED conn
    /\ UNCHANGED <<pool, max_per_host, lag>>

(* A write to a connection the server has closed fails, or is lost. *)
WriteTo(t, item, stage) ==
    LET c == task[t].conn IN
    /\ \/ /\ conn' = IF conn[c].server_open
                     THEN [conn EXCEPT ![c].up = Append(@, item)] ELSE conn
          /\ Goto(t, stage)
       \/ ~conn[c].server_open /\ Drop(t, "failed")
    /\ UNCHANGED <<pool, max_per_host, lag>>

(* build_request and write_all.  Only the direct client writes the body. *)
WriteRequest(t) ==
    /\ task[t].stage = "write"
    /\ WriteTo(t, [req |-> t, part |-> "head",
                   len |-> IF task[t].body THEN 1 ELSE 0],
               IF task[t].body /\ task[t].client = "direct" THEN "write_body"
               ELSE "head")

WriteBody(t) ==
    /\ task[t].stage = "write_body"
    /\ WriteTo(t, [req |-> t, part |-> "body", len |-> 0], "head")

-----------------------------------------------------------------------------
(* read_response. *)

AtEof(t) == LET c == conn[task[t].conn] IN c.down = << >> /\ ~c.server_open

(* Seeded fault: a content-length header written in lower case is missed. *)
ContentLength_missed(chunk) == 0

(* parse_response_start: no Content-Length, or none that parses, is 0. *)
ContentLength(chunk) == IF chunk.len = NoLength THEN 0 ELSE chunk.len

(* A chunk is taken off the connection and length bytes of a body are to   *)
(* follow.                                                                 *)
HeadEnds(t, length, cut) ==
    task' = [task EXCEPT ![t].stage = IF length = 0 THEN "return" ELSE "body",
                         ![t].need = length,
                         ![t].from = @ \cup {Head(conn[task[t].conn].down).req},
                         ![t].cut = cut]

(* Until a chunk ends the header, the stream ends or a read fails.  What   *)
(* follows the header in its last chunk is not kept.  What an earlier      *)
(* response left on the connection is read as part of the header: it may   *)
(* end it, announce anything, or make it fail to parse.                    *)
ReadHead(t) ==
    LET c == task[t].conn
        chunk == Head(conn[c].down)
        Pop == conn' = [conn EXCEPT ![c].down = Tail(@)]
        foreign == ~(task[t].from \cup {chunk.req} \subseteq {t})
    IN
    /\ task[t].stage = "head"
    /\ \/ /\ conn[c].down # << >> /\ chunk.part \in {"half_head", "body"}
          /\ Pop
          /\ task' = [task EXCEPT ![t].from = @ \cup {chunk.req}]
       \/ /\ conn[c].down # << >> /\ chunk.part \in {"head", "head_body"}
          /\ Pop
          /\ HeadEnds(t, ContentLength(chunk), chunk.part = "head_body")
       \/ /\ conn[c].down # << >> /\ chunk.part = "body"
          /\ Pop
          /\ \E length \in 0..1 : HeadEnds(t, length, FALSE)
       \/ /\ conn[c].down # << >> /\ (chunk.part = "bad" \/ foreign)
          /\ Drop(t, "failed")
       \/ ~conn[c].server_open /\ Drop(t, "failed")
    /\ UNCHANGED <<pool, max_per_host, lag>>

(* Seeded fault: the end of the stream does not end the loop. *)
ReadBody_no_eof(t) ==
    LET c == task[t].conn IN
    /\ task[t].stage = "body" /\ conn[c].down # << >>
    /\ conn' = [conn EXCEPT ![c].down = Tail(@)]
    /\ task' = [task EXCEPT ![t].stage = "return", ![t].need = 0,
                            ![t].from = @ \cup {Head(conn[c].down).req}]
    /\ UNCHANGED <<pool, max_per_host, lag>>

(* Until Content-Length bytes were read or the stream ends: both are Ok; a *)
(* read that fails is not.  A length found in stray bytes may ask for more *)
(* than one chunk.                                                         *)
ReadBody(t) ==
    LET c == task[t].conn IN
    /\ task[t].stage = "body"
    /\ \/ /\ conn[c].down # << >>
          /\ conn' = [conn EXCEPT ![c].down = Tail(@)]
          /\ \E enough \in {TRUE, ~task[t].stray} :
                task' = [task EXCEPT
                            ![t].stage = IF enough THEN "return" ELSE "body",
                            ![t].need = IF enough THEN 0 ELSE 1,
                            ![t].from = @ \cup {Head(conn[c].down).req}]
       \/ /\ AtEof(t)
          /\ Goto(t, "return") /\ UNCHANGED conn
       \/ ~conn[c].server_open /\ Drop(t, "failed")
    /\ UNCHANGED <<pool, max_per_host, lag>>

(* Seeded fault: one entry too many. *)
return_connection_over(t) ==
    LET h == task[t].host IN
    /\ task[t].stage = "return"
    /\ \/ /\ task[t].client = "pooled" /\ Len(pool[h]) <= max_per_host
          /\ pool' = [pool EXCEPT ![h] = Append(@, [conn |-> task[t].conn,
                                                    age |-> 0])]
          /\ Goto(t, "done") /\ UNCHANGED conn
       \/ /\ task[t].client = "direct" \/ Len(pool[h]) > max_per_host
          /\ Drop(t, "done") /\ UNCHANGED pool
    /\ UNCHANGED <<max_per_host, lag>>

(* return_connection after an Ok response, or the direct client's end. *)
return_connection(t) ==
    LET h == task[t].host IN
    /\ task[t].stage = "return"
    /\ \/ /\ task[t].client = "pooled" /\ Len(pool[h]) < max_per_host
          /\ pool' = [pool EXCEPT ![h] = Append(@, [conn |-> task[t].conn,
                                                    age |-> 0])]
          /\ Goto(t, "done") /\ UNCHANGED conn
       \/ /\ task[t].client = "direct" \/ Len(pool[h]) >= max_per_host
          /\ Drop(t, "done") /\ UNCHANGED pool
    /\ UNCHANGED <<max_per_host, lag>>

(* The caller drops the future of the request. *)
Cancel(t) ==
    /\ Cancels /\ task[t].stage \notin Ended \cup {"new"}
    /\ Drop(t, "cancelled")
    /\ UNCHANGED <<pool, max_per_host, lag>>

-----------------------------------------------------------------------------
(* The cleanup task: the clock is read before the lock is taken. *)

CleanupTick ==
    /\ lag = None /\ lag' = 0
    /\ UNCHANGED <<pool, max_per_host, conn, task>>

(* retain. *)
Retained(p, behind) ==
    RetainAt(p, {i \in 1..Len(p) : StillValid(p[i], behind)})

In(entries, c) == \E i \in 1..Len(entries) : entries[i].conn = c

cleanup ==
    /\ lag # None /\ lag' = None
    /\ pool' = [h \in Hosts |-> Retained(pool[h], lag)]
    /\ conn' = [c \in DOMAIN conn |->
                  IF \E h \in Hosts : In(pool[h], c) /\ ~In(pool'[h], c)
                  THEN [conn[c] EXCEPT !.client = "dropped"] ELSE conn[c]]
    /\ UNCHANGED <<max_per_host, task>>

(* The lock is held for synchronous sections only: cleanup does not wait   *)
(* for MaxIdle.                                                            *)
Tick ==
    /\ lag # None => lag < MaxIdle
    /\ \E h \in Hosts : \E i \in 1..Len(pool[h]) : pool[h][i].age < MaxAge
    /\ pool' = [h \in Hosts |->
                  [i \in DOMAIN pool[h] |->
                     [pool[h][i] EXCEPT !.age = IF @ < MaxAge THEN @ + 1 ELSE @]]]
    /\ lag' = IF lag = None THEN None ELSE lag + 1
    /\ UNCHANGED <<max_per_host, conn, task>>

-----------------------------------------------------------------------------
(* The server (external). *)

(* A complete request is a head and, if it announces one, what follows as  *)
(* its body.                                                               *)
Complete(up) == up # << >> /\ Len(up) > Head(up).len

Response(r, f) ==
    LET c(part, len) == [req |-> r, part |-> part, len |-> len] IN
    CASE f = "empty"      -> <<c("head", 0)>>
      [] f = "split"      -> <<c("head", 1), c("body", 0)>>
      [] f = "joined"     -> <<c("head_body", 1)>>
      [] f = "fragmented" -> <<c("half_head", 0), c("head", 1), c("body", 0)>>
      [] f = "truncated"  -> <<c("head", 1)>>
      [] f = "bad"        -> <<c("bad", 0)>>
      [] f = "chunked"    -> <<c("head", NoLength), c("body", 0)>>

ServerAnswers(c) ==
    /\ conn[c].server_open /\ Complete(conn[c].up)
    /\ \E f \in Framings :
          conn' = [conn EXCEPT
                      ![c].up = SubSeq(@, Head(@).len + 2, Len(@)),
                      ![c].down = @ \o Response(Head(conn[c].up).req, f),
                      ![c].server_open = f # "truncated",
                      ![c].stray = @ \/ f = "chunked"]
    /\ UNCHANGED <<pool, max_per_host, task, lag>>

ServerCloses(c) ==
    /\ Closes /\ conn[c].server_open
    /\ conn' = [conn EXCEPT ![c].server_open = FALSE]
    /\ UNCHANGED <<pool, max_per_host, task, lag>>

-----------------------------------------------------------------------------
Step(t) ==
    \/ Start(t)
    \/ get_connection(t)
    \/ Connect(t)
    \/ WriteRequest(t)
    \/ WriteBody(t)
    \/ ReadHead(t)
    \/ ReadBody(t)
    \/ return_connection(t)

Next ==
    \/ \E t \in Tasks : Step(t) \/ Cancel(t)
    \/ CleanupTick
    \/ cleanup
    \/ Tick
    \/ \E c \in DOMAIN conn : ServerAnswers(c) \/ ServerCloses(c)

Spec == Init /\ [][Next]_vars

(* Tasks, the cleanup task and the clock run; the server answers what it   *)
(* has received completely.                                                *)
FairSpec ==
    /\ Spec
    /\ \A t \in Tasks : WF_vars(Step(t))
    /\ WF_vars(CleanupTick) /\ WF_vars(cleanup)
    /\ \A c \in ConnIds : WF_vars(c \in DOMAIN conn /\ ServerAnswers(c))

-----------------------------------------------------------------------------
(* Properties. *)

TypeOK ==
    /\ pool \in [Hosts -> Seq([conn : ConnIds, age : 0..MaxAge])]
    /\ max_per_host \in Limits
    /\ conn \in Seq(Conns) /\ Len(conn) \in {0} \cup ConnIds
    /\ task \in [Tasks -> TaskRecords]
    /\ lag \in {None} \cup 0..MaxIdle

Pooled == UNION {{h} \X (1..Len(pool[h])) : h \in Hosts}
Active == {t \in Tasks : task[t].conn # NoConn /\ task[t].stage \notin Ended}

(* A connection is in the hands of one request or in one slot of the pool, *)
(* of the host it was made to, however get_connection, return_connection,  *)
(* cleanup and dropped requests interleave; and a pooled one is not closed *)
(* on this side.                                                           *)
ExclusiveUse ==
    /\ \A t, u \in Active : t # u => task[t].conn # task[u].conn
    /\ \A s, r \in Pooled : s # r => pool[s[1]][s[2]].conn # pool[r[1]][r[2]].conn
    /\ \A t \in Active, s \in Pooled : task[t].conn # pool[s[1]][s[2]].conn
    /\ \A t \in Active : conn[task[t].conn].host = task[t].host
    /\ \A s \in Pooled : /\ conn[pool[s[1]][s[2]].conn].host = s[1]
                         /\ conn[pool[s[1]][s[2]].conn].client # "dropped"

(* max_per_host bounds what is cached for a host, and the entries of a     *)
(* host are ordered by age: the newest is on top, so that popping down to  *)
(* the first valid one throws away nothing valid.                          *)
PoolBounded ==
    \A h \in Hosts :
        /\ Len(pool[h]) <= max_per_host
        /\ \A i, j \in 1..Len(pool[h]) : i < j => pool[h][i].age >= pool[h][j].age

(* A request is answered by the response to it: nothing an earlier user of *)
(* the connection left unread is taken for it, and what is pooled has      *)
(* nothing left to read.  This holds of connections whose responses all    *)
(* announced their bodies.  A body without a Content-Length that parses is *)
(* not read (client.rs:462-468) and is still there when the connection is  *)
(* pooled: the requests that get it from the pool are the exception.       *)
OwnResponse ==
    /\ \A t \in Tasks : ~task[t].stray => task[t].from \subseteq {t}
    /\ \A s \in Pooled : LET k == conn[pool[s[1]][s[2]].conn] IN
          ~k.stray => k.down = << >> /\ k.up = << >>

(* Every request ends, whatever the server does to the connection:         *)
(* read_response reads what the server sent for it and nothing more.       *)
(* There are three exceptions.  A response that had bytes of its body in   *)
(* the chunk that ends the header: they are dropped and then waited for.   *)
(* A pooled request with a body: PooledHttpClient announces the body and   *)
(* never writes it (pool.rs:198-206), and the server waits for it.  And a  *)
(* request on a connection with stray bytes, which may announce anything.  *)
RequestsEnd ==
    \A t \in Tasks :
        <>(\/ task[t].stage \in Ended
           \/ task[t].cut \/ task[t].stray
           \/ task[t].client = "pooled" /\ task[t].body)

=============================================================================
