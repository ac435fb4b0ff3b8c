--------------------------- MODULE HttpPoolProofs ---------------------------
(* Machine-checked proofs about HttpPool, for any finite number of         *)
(* requests, any hosts, limits and ways to lay out a response.             *)
EXTENDS HttpPool, VecProofs, SequenceTheorems

-----------------------------------------------------------------------------
(* The inductive invariant. *)

Holding == {"write", "write_body", "head", "body", "return"}
Before == {"new", "get", "connect"}

(* A request has a connection when its stage says so, and takes one only   *)
(* once: there are no more connections than requests past that point.      *)
Staged ==
    \A t \in Tasks : /\ task[t].stage \in Before =>
                           task[t].conn = NoConn /\ ~task[t].stray
                     /\ task[t].stage \in Holding => task[t].conn # NoConn
Beyond == {t \in Tasks : task[t].stage \notin Before}
Counted == Len(conn) <= Cardinality(Beyond)

(* What is on the wire of connection k while request t, whose record is r, *)
(* holds it, if the connection was not stray when t got it.                *)
Piece(t, part, len) == [req |-> t, part |-> part, len |-> len]
Unread(t) == {Response(t, f) : f \in Layouts}
Exchange(t, r, k) ==
    /\ r.stray => k.stray
    /\ r.stage = "write" /\ ~r.stray => k.up = << >> /\ k.down = << >>
    /\ r.stage = "write_body" /\ ~r.stray =>
          /\ \/ k.up = << >> /\ ~k.server_open
             \/ k.up = <<Piece(t, "head", 1)>>
          /\ k.down = << >>
    /\ r.stage = "head" /\ ~r.stray =>
          \/ /\ k.up = << >>
             /\ \/ k.down = << >>
                \/ /\ k.down \in Unread(t)
                   /\ k.down = Response(t, "chunked") => k.stray
          \/ /\ k.down = << >>
             /\ \/ \E n \in 0..1 : k.up = <<Piece(t, "head", n)>>
                \/ k.up = <<Piece(t, "head", 1), Piece(t, "body", 0)>>
    /\ r.stage = "body" /\ ~r.stray =>
          k.up = << >> /\ (k.down = << >> \/ k.down = <<Piece(t, "body", 0)>>)
    /\ r.stage = "return" /\ ~r.stray =>
          k.up = << >> /\ (k.down = << >> \/ k.stray)

(* The connection of a request, and one in the pool. *)
Held ==
    \A t \in Tasks : task[t].stage \in Holding =>
        /\ task[t].conn \in 1..Len(conn)
        /\ conn[task[t].conn].client = "open"
        /\ conn[task[t].conn].host = task[t].host
        /\ Exchange(t, task[t], conn[task[t].conn])
Idle ==
    \A h \in Hosts : \A i \in 1..Len(pool[h]) :
        LET c == pool[h][i].conn IN
        /\ c \in 1..Len(conn) /\ conn[c].client = "open" /\ conn[c].host = h
        /\ conn[c].stray \/ (conn[c].up = << >> /\ conn[c].down = << >>)

(* Nobody shares. *)
Apart ==
    /\ \A t, u \in Tasks :
          task[t].stage \in Holding /\ task[u].stage \in Holding /\ t # u
              => task[t].conn # task[u].conn
    /\ \A h, g \in Hosts : \A i \in 1..Len(pool[h]), j \in 1..Len(pool[g]) :
          <<h, i>> # <<g, j>> => pool[h][i].conn # pool[g][j].conn
    /\ \A t \in Tasks : task[t].stage \in Holding =>
          \A h \in Hosts : \A i \in 1..Len(pool[h]) :
              pool[h][i].conn # task[t].conn

OwnOnly == \A t \in Tasks : task[t].stray \/ task[t].from \subseteq {t}

Inv ==
    /\ TypeOK /\ Staged /\ Counted
    /\ Held /\ Idle /\ Apart /\ OwnOnly
    /\ PoolBounded

-----------------------------------------------------------------------------
(* Types. *)

Entries == [conn : ConnIds, age : 0..MaxAge]

LEMMA TaskType ==
    ASSUME TypeOK, NEW t \in Tasks
    PROVE  /\ task[t] \in TaskRecords /\ task[t].stage \in Stages
           /\ task[t].host \in Hosts /\ task[t].conn \in ConnIds \cup {NoConn}
           /\ task[t].body \in BOOLEAN /\ task[t].from \subseteq Tasks
           /\ task[t].need \in 0..1 /\ task[t].client \in {"direct", "pooled"}
<1>1. task[t] \in TaskRecords
  BY DEF TypeOK
<1>2. QED
  BY <1>1 DEF TaskRecords

LEMMA ConnType ==
    ASSUME TypeOK, NEW c \in 1..Len(conn)
    PROVE  /\ conn[c] \in Conns /\ conn[c].host \in Hosts
           /\ conn[c].server_open \in BOOLEAN
<1>1. conn[c] \in Conns
  BY DEF TypeOK
<1>2. QED
  BY <1>1 DEF Conns

LEMMA PoolType ==
    ASSUME TypeOK, NEW h \in Hosts
    PROVE  /\ pool[h] \in Seq(Entries) /\ Len(pool[h]) \in Nat
           /\ \A i \in 1..Len(pool[h]) :
                 /\ pool[h][i] \in Entries /\ pool[h][i].conn \in ConnIds
                 /\ pool[h][i].age \in 0..MaxAge
<1>1. pool[h] \in Seq(Entries) /\ Len(pool[h]) \in Nat
  <2>1. pool \in [Hosts -> Seq(Entries)]
    BY DEF TypeOK, Entries
  <2>2. pool[h] \in Seq(Entries)
    BY <2>1
  <2>3. QED
    BY <2>2
<1>2. \A i \in 1..Len(pool[h]) : pool[h][i] \in Entries
  BY <1>1
<1>3. \A e \in Entries : e.conn \in ConnIds /\ e.age \in 0..MaxAge
  BY DEF Entries
<1>4. QED
  BY <1>1, <1>2, <1>3

LEMMA ConnsLen ==
    ASSUME TypeOK
    PROVE  conn \in Seq(Conns) /\ Len(conn) \in Nat /\ DOMAIN conn = 1..Len(conn)
  BY DEF TypeOK

LEMMA StageSets ==
    /\ Holding \cap Ended = {} /\ Before \cap Holding = {} /\ Before \cap Ended = {}
    /\ Stages = Holding \cup Before \cup Ended
  BY DEF Holding, Ended, Before, Stages

LEMMA BeyondFinite ==
    /\ IsFiniteSet(Beyond) /\ Cardinality(Beyond) \in Nat
    /\ IsFiniteSet(Tasks) /\ Cardinality(Tasks) \in Nat
    /\ Cardinality(Beyond) <= Cardinality(Tasks)
<1>1. IsFiniteSet(Tasks) /\ Beyond \in SUBSET Tasks
  BY PoolConstants DEF Beyond
<1>2. QED
  BY <1>1, FS_Subset, FS_CardinalityType

-----------------------------------------------------------------------------
(* Steps of one request on its connection. *)

LEMMA UseStep ==
    ASSUME Inv, NEW t \in Tasks, task[t].stage \in Holding,
           NEW k \in Conns, NEW r \in TaskRecords,
           conn' = [conn EXCEPT ![task[t].conn] = k],
           task' = [task EXCEPT ![t] = r],
           UNCHANGED <<pool, max_per_host, lag>>,
           k.client = "open", k.host = conn[task[t].conn].host,
           r.conn = task[t].conn, r.host = task[t].host, r.stage \in Holding,
           r.stray \/ r.from \subseteq {t}, Exchange(t, r, k)
    PROVE  Inv'
<1> DEFINE c == task[t].conn
<1>1. TypeOK /\ c \in 1..Len(conn)
  BY DEF Inv, Held
<1>2. conn \in Seq(Conns) /\ Len(conn) \in Nat
  BY <1>1, ConnsLen
<1>3. /\ conn' \in Seq(Conns) /\ Len(conn') = Len(conn)
      /\ \A d \in 1..Len(conn) : conn'[d] = IF d = c THEN k ELSE conn[d]
  BY <1>1, <1>2, ExceptSeq
<1>4. /\ task' \in [Tasks -> TaskRecords] /\ task'[t] = r
      /\ \A u \in Tasks : u # t => task'[u] = task[u]
  BY <1>1 DEF TypeOK
<1> HIDE DEF c
<1>5. TypeOK'
  BY <1>1, <1>3, <1>4 DEF TypeOK
<1>6. Staged'
  BY <1>4, StageSets DEF Inv, Staged
<1>7. Counted'
  <2>1. Beyond' = Beyond
    BY <1>4, StageSets DEF Beyond
  <2>2. QED
    BY <1>3, <2>1 DEF Inv, Counted
<1>8. Held'
  <2> SUFFICES ASSUME NEW u \in Tasks, task'[u].stage \in Holding
               PROVE  /\ task'[u].conn \in 1..Len(conn')
                      /\ conn'[task'[u].conn].client = "open"
                      /\ conn'[task'[u].conn].host = task'[u].host
                      /\ Exchange(u, task'[u], conn'[task'[u].conn])
    BY DEF Held, Exchange
  <2>1. CASE u = t
    <3>1. task'[u] = r /\ r.conn = c /\ conn'[c] = k /\ k.host = r.host
      BY <1>1, <1>3, <1>4, <2>1 DEF Inv, Held, c
    <3>2. QED
      BY <1>1, <1>3, <2>1, <3>1
  <2>2. CASE u # t
    <3>1. task'[u] = task[u] /\ task[u].conn # c /\ task[u].conn \in 1..Len(conn)
      BY <1>4, <2>2 DEF Inv, Held, Apart, c
    <3>2. conn'[task'[u].conn] = conn[task[u].conn]
      BY <1>3, <3>1
    <3>3. QED
      BY <1>3, <3>1, <3>2 DEF Inv, Held
  <2>3. QED
    BY <2>1, <2>2
<1>9. Idle'
  <2> SUFFICES ASSUME NEW h \in Hosts, NEW i \in 1..Len(pool[h])
               PROVE  LET d == pool[h][i].conn IN
                      /\ d \in 1..Len(conn') /\ conn'[d].client = "open"
                      /\ conn'[d].host = h
                      /\ conn'[d].stray \/ (conn'[d].up = << >> /\ conn'[d].down = << >>)
    BY DEF Idle
  <2>1. pool[h][i].conn # c /\ pool[h][i].conn \in 1..Len(conn)
    BY DEF Inv, Idle, Apart, c
  <2>2. conn'[pool[h][i].conn] = conn[pool[h][i].conn]
    BY <1>3, <2>1
  <2>3. QED
    BY <1>3, <2>1, <2>2 DEF Inv, Idle
<1>10. Apart'
  <2>1. \A u \in Tasks : task'[u].stage \in Holding =>
           task[u].stage \in Holding /\ task'[u].conn = task[u].conn
    BY <1>4
  <2>2. QED
    BY <2>1 DEF Inv, Apart
<1>11. OwnOnly' /\ PoolBounded'
  BY <1>4 DEF Inv, OwnOnly, PoolBounded
<1>12. QED
  BY <1>5, <1>6, <1>7, <1>8, <1>9, <1>10, <1>11 DEF Inv

(* A request that ends gives up its connection. *)
LEMMA DropStep ==
    ASSUME Inv, NEW t \in Tasks, task[t].stage \notin Ended,
           NEW e \in Ended, Drop(t, e), UNCHANGED <<pool, max_per_host, lag>>
    PROVE  Inv'
<1> DEFINE c == task[t].conn
           r == [task[t] EXCEPT !.stage = e]
<1>1. TypeOK /\ task[t] \in TaskRecords /\ task[t].stage \in Stages
  BY TaskType DEF Inv
<1>2. r \in TaskRecords /\ r.stage = e /\ r.from = task[t].from /\ r.stray = task[t].stray
  BY <1>1, StageSets DEF TaskRecords
<1>3. /\ task' \in [Tasks -> TaskRecords] /\ task'[t] = r
      /\ \A u \in Tasks : u # t => task'[u] = task[u]
  BY <1>1, <1>2 DEF TypeOK, Drop, Goto
<1> HIDE DEF r
<1>4. /\ conn \in Seq(Conns) /\ Len(conn) \in Nat
  BY <1>1, ConnsLen
<1>5. /\ conn' \in Seq(Conns) /\ Len(conn') = Len(conn)
      /\ \A d \in 1..Len(conn) : d # c => conn'[d] = conn[d]
  <2>1. CASE c = NoConn
    BY <1>4, <2>1 DEF Drop
  <2>2. CASE c # NoConn
    <3>1. task[t].stage \in Holding
      BY <1>1, <2>2, StageSets DEF Inv, Staged
    <3>2. c \in 1..Len(conn) /\ conn[c] \in Conns
      BY <1>1, <3>1, ConnType DEF Inv, Held
    <3>3. [conn[c] EXCEPT !.client = "dropped"] \in Conns
      BY <3>2 DEF Conns
    <3>4. conn' = [conn EXCEPT ![c] = [conn[c] EXCEPT !.client = "dropped"]]
      BY <2>2 DEF Drop
    <3>5. QED
      BY <1>4, <3>2, <3>3, <3>4, ExceptSeq
  <2>3. QED
    BY <2>1, <2>2
<1> HIDE DEF c
<1>6. TypeOK'
  BY <1>1, <1>3, <1>5 DEF TypeOK
<1>7. Staged'
  BY <1>2, <1>3, StageSets DEF Inv, Staged
<1>8. Counted'
  <2>1. Beyond \subseteq Beyond'
    BY <1>2, <1>3, StageSets DEF Beyond
  <2>2. IsFiniteSet(Beyond')
    <3>1. IsFiniteSet(Tasks) /\ Beyond' \in SUBSET Tasks
      BY PoolConstants DEF Beyond
    <3>2. QED
      BY <3>1, FS_Subset
  <2>3. Cardinality(Beyond) <= Cardinality(Beyond') /\ Cardinality(Beyond') \in Nat
        /\ Cardinality(Beyond) \in Nat
    BY <2>1, <2>2, FS_Subset, FS_CardinalityType
  <2>4. QED
    BY <1>4, <1>5, <2>3 DEF Inv, Counted
<1>9. \A u \in Tasks : task'[u].stage \in Holding =>
         /\ u # t /\ task'[u] = task[u] /\ task[u].stage \in Holding
         /\ task[u].conn \in 1..Len(conn)
  BY <1>2, <1>3, StageSets DEF Inv, Held
<1>10. Held'
  <2> SUFFICES ASSUME NEW u \in Tasks, task'[u].stage \in Holding
               PROVE  /\ task'[u].conn \in 1..Len(conn')
                      /\ conn'[task'[u].conn].client = "open"
                      /\ conn'[task'[u].conn].host = task'[u].host
                      /\ Exchange(u, task'[u], conn'[task'[u].conn])
    BY DEF Held, Exchange
  <2>1. task[u].conn # c
    <3>1. CASE task[t].stage \in Holding
      BY <1>9, <3>1 DEF Inv, Apart, c
    <3>2. CASE task[t].stage \notin Holding
      BY <1>1, <1>9, <3>2, StageSets DEF Inv, Staged, c
    <3>3. QED
      BY <3>1, <3>2
  <2>2. conn'[task'[u].conn] = conn[task[u].conn]
    BY <1>5, <1>9, <2>1
  <2>3. QED
    BY <1>5, <1>9, <2>2 DEF Inv, Held
<1>11. Idle'
  <2> SUFFICES ASSUME NEW h \in Hosts, NEW i \in 1..Len(pool[h])
               PROVE  LET d == pool[h][i].conn IN
                      /\ d \in 1..Len(conn') /\ conn'[d].client = "open"
                      /\ conn'[d].host = h
                      /\ conn'[d].stray \/ (conn'[d].up = << >> /\ conn'[d].down = << >>)
    BY DEF Idle
  <2>1. pool[h][i].conn # c /\ pool[h][i].conn \in 1..Len(conn)
    <3>1. pool[h][i].conn \in 1..Len(conn)
      BY DEF Inv, Idle
    <3>2. CASE task[t].stage \in Holding
      BY <3>1, <3>2 DEF Inv, Apart, c
    <3>3. CASE task[t].stage \notin Holding
      <4>1. c = 0
        BY <1>1, <3>3, StageSets DEF Inv, Staged, c, NoConn
      <4>2. QED
        BY <1>4, <3>1, <4>1
    <3>4. QED
      BY <3>2, <3>3
  <2>2. conn'[pool[h][i].conn] = conn[pool[h][i].conn]
    BY <1>5, <2>1
  <2>3. QED
    BY <1>5, <2>1, <2>2 DEF Inv, Idle
<1>12. Apart'
  BY <1>9 DEF Inv, Apart
<1>13. OwnOnly' /\ PoolBounded'
  BY <1>2, <1>3 DEF Inv, OwnOnly, PoolBounded
<1>14. QED
  BY <1>6, <1>7, <1>8, <1>10, <1>11, <1>12, <1>13 DEF Inv

(* The server's end of a connection moves. *)
LEMMA ServerStep ==
    ASSUME Inv, NEW c \in 1..Len(conn), NEW k \in Conns,
           conn' = [conn EXCEPT ![c] = k],
           UNCHANGED <<pool, max_per_host, task, lag>>,
           k.client = conn[c].client, k.host = conn[c].host,
           \A t \in Tasks : task[t].stage \in Holding /\ task[t].conn = c
                                => Exchange(t, task[t], k),
           conn[c].stray => k.stray,
           conn[c].up = << >> /\ conn[c].down = << >>
                => k.up = << >> /\ k.down = << >>
    PROVE  Inv'
<1>1. TypeOK /\ conn \in Seq(Conns) /\ Len(conn) \in Nat
  BY ConnsLen DEF Inv
<1>2. /\ conn' \in Seq(Conns) /\ Len(conn') = Len(conn)
      /\ \A d \in 1..Len(conn) : conn'[d] = IF d = c THEN k ELSE conn[d]
  BY <1>1, ExceptSeq
<1>3. TypeOK'
  BY <1>1, <1>2 DEF TypeOK
<1>4. Staged' /\ Counted' /\ Apart' /\ OwnOnly' /\ PoolBounded'
  <2>1. Beyond' = Beyond
    BY DEF Beyond
  <2>2. QED
    BY <1>2, <2>1 DEF Inv, Staged, Counted, Apart, OwnOnly, PoolBounded
<1>5. Held'
  <2> SUFFICES ASSUME NEW u \in Tasks, task[u].stage \in Holding
               PROVE  /\ task[u].conn \in 1..Len(conn')
                      /\ conn'[task[u].conn].client = "open"
                      /\ conn'[task[u].conn].host = task[u].host
                      /\ Exchange(u, task[u], conn'[task[u].conn])
    BY DEF Held, Exchange
  <2>1. /\ task[u].conn \in 1..Len(conn) /\ conn[task[u].conn].client = "open"
        /\ conn[task[u].conn].host = task[u].host
        /\ Exchange(u, task[u], conn[task[u].conn])
    BY DEF Inv, Held
  <2>2. CASE task[u].conn = c
    <3>1. conn'[task[u].conn] = k /\ Exchange(u, task[u], k)
      BY <1>2, <2>2
    <3>2. QED
      BY <1>2, <2>1, <2>2, <3>1
  <2>3. CASE task[u].conn # c
    <3>1. conn'[task[u].conn] = conn[task[u].conn]
      BY <1>2, <2>1, <2>3
    <3>2. QED
      BY <1>2, <2>1, <3>1
  <2>4. QED
    BY <2>2, <2>3
<1>6. Idle'
  <2> SUFFICES ASSUME NEW h \in Hosts, NEW i \in 1..Len(pool[h])
               PROVE  LET d == pool[h][i].conn IN
                      /\ d \in 1..Len(conn') /\ conn'[d].client = "open"
                      /\ conn'[d].host = h
                      /\ conn'[d].stray \/ (conn'[d].up = << >> /\ conn'[d].down = << >>)
    BY DEF Idle
  <2> DEFINE d == pool[h][i].conn
  <2>1. /\ d \in 1..Len(conn) /\ conn[d].client = "open" /\ conn[d].host = h
        /\ conn[d].stray \/ (conn[d].up = << >> /\ conn[d].down = << >>)
    BY DEF Inv, Idle
  <2> HIDE DEF d
  <2>2. /\ d \in 1..Len(conn') /\ conn'[d].client = "open"
        /\ conn'[d].host = h
        /\ conn'[d].stray \/ (conn'[d].up = << >> /\ conn'[d].down = << >>)
    BY <1>2, <2>1
  <2>3. QED
    BY <2>2 DEF d
<1>7. QED
  BY <1>3, <1>4, <1>5, <1>6 DEF Inv

-----------------------------------------------------------------------------
(* What is on the wire. *)

Items == [req : Tasks, part : {"head", "body"}, len : 0..1]

LEMMA PieceType ==
    ASSUME NEW t \in Tasks
    PROVE  /\ \A part \in {"head", "body"}, n \in 0..1 : Piece(t, part, n) \in Items
           /\ \A part \in {"half_head", "head", "head_body", "body", "bad"},
                 n \in 0..1 \cup {NoLength} :
                 /\ Piece(t, part, n) \in Chunks /\ Piece(t, part, n).req = t
                 /\ Piece(t, part, n).part = part /\ Piece(t, part, n).len = n
  BY DEF Piece, Chunks, Items

LEMMA ShortSeqs ==
    ASSUME NEW S, NEW x \in S, NEW y \in S, NEW z \in S
    PROVE  /\ <<x>> \in Seq(S) /\ Head(<<x>>) = x /\ Tail(<<x>>) = << >>
           /\ <<x, y>> \in Seq(S) /\ Head(<<x, y>>) = x /\ Tail(<<x, y>>) = <<y>>
           /\ <<x, y, z>> \in Seq(S) /\ Head(<<x, y, z>>) = x
           /\ Tail(<<x, y, z>>) = <<y, z>>
           /\ <<x>> # << >> /\ <<x, y>> # << >> /\ <<x, y, z>> # << >>
           /\ << >> \in Seq(S)
           /\ Len(<<x>>) = 1 /\ Len(<<x, y>>) = 2
  OBVIOUS

LEMMA AppendOne ==
    ASSUME NEW S, NEW x \in S, NEW y \in S
    PROVE  Append(<<x>>, y) = <<x, y>>
<1>1. <<x>> \in Seq(S) /\ Len(<<x>>) = 1
  OBVIOUS
<1>2. Append(<<x>>, y) \in Seq(S) /\ Len(Append(<<x>>, y)) = 2
  BY <1>1
<1>3. Append(<<x>>, y)[1] = x /\ Append(<<x>>, y)[2] = y
  BY <1>1
<1>4. /\ <<x, y>> \in Seq(S) /\ Len(<<x, y>>) = 2
      /\ <<x, y>>[1] = x /\ <<x, y>>[2] = y
  OBVIOUS
<1> DEFINE a == Append(<<x>>, y)
           b == <<x, y>>
<1>5. a \in Seq(S) /\ b \in Seq(S) /\ Len(a) = 2 /\ Len(b) = 2
      /\ a[1] = b[1] /\ a[2] = b[2]
  BY <1>2, <1>3, <1>4
<1> HIDE DEF a, b
<1>6. \A i \in 1..Len(a) : a[i] = b[i]
  BY <1>5
<1>7. a = b
  BY <1>5, <1>6, SeqEqual
<1>8. QED
  BY <1>7 DEF a, b

LEMMA Responses ==
    ASSUME NEW t \in Tasks
    PROVE  /\ Response(t, "empty") = <<Piece(t, "head", 0)>>
           /\ Response(t, "split") = <<Piece(t, "head", 1), Piece(t, "body", 0)>>
           /\ Response(t, "joined") = <<Piece(t, "head_body", 1)>>
           /\ Response(t, "fragmented") = <<Piece(t, "half_head", 0),
                                            Piece(t, "head", 1), Piece(t, "body", 0)>>
           /\ Response(t, "truncated") = <<Piece(t, "head", 1)>>
           /\ Response(t, "bad") = <<Piece(t, "bad", 0)>>
           /\ Response(t, "chunked") = <<Piece(t, "head", NoLength), Piece(t, "body", 0)>>
<1>1. Response(t, "empty") = <<Piece(t, "head", 0)>>
  BY DEF Response, Piece
<1>2. Response(t, "split") = <<Piece(t, "head", 1), Piece(t, "body", 0)>>
  BY DEF Response, Piece
<1>3. Response(t, "joined") = <<Piece(t, "head_body", 1)>>
  BY DEF Response, Piece
<1>4. Response(t, "fragmented") =
         <<Piece(t, "half_head", 0), Piece(t, "head", 1), Piece(t, "body", 0)>>
  BY DEF Response, Piece
<1>5. Response(t, "truncated") = <<Piece(t, "head", 1)>>
  BY DEF Response, Piece
<1>6. Response(t, "bad") = <<Piece(t, "bad", 0)>>
  BY DEF Response, Piece
<1>7. Response(t, "chunked") = <<Piece(t, "head", NoLength), Piece(t, "body", 0)>>
  BY DEF Response, Piece
<1>8. QED
  BY <1>1, <1>2, <1>3, <1>4, <1>5, <1>6, <1>7

(* After the chunk that ends the header there is what its length says, or  *)
(* nothing, or the body of a response that does not announce it.           *)
LEMMA UnreadHead ==
    ASSUME NEW t \in Tasks, NEW d \in Unread(t)
    PROVE  /\ d \in Seq(Chunks) /\ d # << >> /\ Head(d).req = t
           /\ Head(d).part # "body" /\ Head(d).len \in 0..1 \cup {NoLength}
           /\ Head(d).part = "half_head" =>
                 Tail(d) \in Unread(t) /\ Tail(d) # Response(t, "chunked")
           /\ Head(d).part \in {"head", "head_body"} =>
                 \/ Tail(d) = << >>
                 \/ /\ Tail(d) = <<Piece(t, "body", 0)>>
                    /\ \/ Head(d).len = 1
                       \/ Head(d).len = NoLength /\ d = Response(t, "chunked")
<1>1. PICK f \in Layouts : d = Response(t, f)
  BY DEF Unread
<1> DEFINE P(part, n) == Piece(t, part, n)
<1>2. \A part \in {"half_head", "head", "head_body", "body", "bad"},
         n \in 0..1 \cup {NoLength} :
         /\ P(part, n) \in Chunks /\ P(part, n).req = t
         /\ P(part, n).part = part /\ P(part, n).len = n
  BY PieceType
<1>3. Response(t, "split") \in Unread(t)
  BY DEF Unread, Layouts
<1>a. NoLength \notin 0..1
  BY DEF NoLength
<1> HIDE DEF P
<1>4. ASSUME NEW part \in {"head", "head_body", "bad"}, NEW n \in 0..1,
             d = <<P(part, n)>>
      PROVE  /\ d \in Seq(Chunks) /\ d # << >> /\ Head(d) = P(part, n)
             /\ Tail(d) = << >>
  BY <1>2, <1>4, ShortSeqs
<1>5. CASE f \in {"empty", "joined", "truncated", "bad"}
  <2>1. \E part \in {"head", "head_body", "bad"}, n \in 0..1 : d = <<P(part, n)>>
    BY <1>1, <1>5, Responses DEF P
  <2>2. QED
    BY <1>2, <1>4, <2>1
<1>6. CASE f \in {"split", "chunked"}
  <2>1. PICK n \in {1, NoLength} :
           /\ d = <<P("head", n), P("body", 0)>>
           /\ n = NoLength => d = Response(t, "chunked")
    <3>1. CASE f = "split"
      BY <1>1, <1>a, <3>1, Responses DEF P
    <3>2. CASE f = "chunked"
      BY <1>1, <3>2, Responses DEF P
    <3>3. QED
      BY <1>6, <3>1, <3>2
  <2>2. /\ P("head", n) \in Chunks /\ P("head", n).req = t
        /\ P("head", n).part = "head" /\ P("head", n).len = n
        /\ P("body", 0) \in Chunks
    BY <1>2
  <2>3. /\ d \in Seq(Chunks) /\ d # << >> /\ Head(d) = P("head", n)
        /\ Tail(d) = <<P("body", 0)>>
    BY <2>1, <2>2, ShortSeqs
  <2>4. QED
    BY <2>1, <2>2, <2>3 DEF P
<1>7. CASE f = "fragmented"
  <2>1. d = <<P("half_head", 0), P("head", 1), P("body", 0)>>
    BY <1>1, <1>7, Responses DEF P
  <2>2. /\ d \in Seq(Chunks) /\ d # << >> /\ Head(d) = P("half_head", 0)
        /\ Tail(d) = <<P("head", 1), P("body", 0)>>
    BY <1>2, <2>1, ShortSeqs
  <2>3. Tail(d) \in Unread(t)
    BY <1>3, <2>2, Responses DEF P
  <2>4. Tail(d) # Response(t, "chunked")
    <3>a. /\ P("head", 1) \in Chunks /\ P("body", 0) \in Chunks /\ P("head", 1).len = 1
          /\ P("head", NoLength) \in Chunks /\ P("head", NoLength).len = NoLength
      BY <1>2
    <3>b. Head(<<P("head", 1), P("body", 0)>>) = P("head", 1) /\ 1 # NoLength
      BY <3>a, ShortSeqs DEF NoLength
    <3>1. Head(Tail(d)) = P("head", 1) /\ P("head", 1).len = 1
      BY <2>2, <3>a, <3>b
    <3>2. Head(Response(t, "chunked")) = P("head", NoLength)
          /\ P("head", NoLength).len = NoLength
      BY <3>a, Responses, ShortSeqs DEF P
    <3>3. QED
      BY <3>1, <3>2, <3>b
  <2>5. QED
    BY <1>2, <2>2, <2>3, <2>4
<1>8. QED
  BY <1>1, <1>5, <1>6, <1>7 DEF Layouts

(* The answer that leaves its body unannounced is none of the others. *)
LEMMA OnlyChunked ==
    ASSUME NEW f \in Layouts, NEW v \in Tasks, Response(v, f) = Response(v, "chunked")
    PROVE  f = "chunked"
<1> DEFINE P(part, n) == Piece(v, part, n)
<1>1. \A part \in {"half_head", "head", "head_body", "body", "bad"},
         n \in 0..1 \cup {NoLength} : P(part, n) \in Chunks /\ P(part, n).len = n
  BY PieceType
<1> HIDE DEF P
<1>2. Head(Response(v, "chunked")).len = NoLength /\ NoLength \notin 0..1
  <2>1. P("head", NoLength) \in Chunks /\ P("body", 0) \in Chunks
        /\ P("head", NoLength).len = NoLength
    BY <1>1
  <2>2. Head(<<P("head", NoLength), P("body", 0)>>) = P("head", NoLength)
    BY <2>1, ShortSeqs
  <2>3. QED
    BY <2>1, <2>2, Responses DEF NoLength, P
<1>3. ASSUME f # "chunked"
      PROVE  Head(Response(v, f)).len \in 0..1
  <2>1. CASE f \in {"empty", "joined", "truncated", "bad"}
    <3>1. PICK part \in {"head", "head_body", "bad"}, n \in 0..1 :
             Response(v, f) = <<P(part, n)>>
      BY <2>1, Responses DEF P
    <3>2. P(part, n) \in Chunks /\ P(part, n).len = n
      BY <1>1
    <3>3. QED
      BY <3>1, <3>2, ShortSeqs
  <2>2. CASE f = "split"
    <3>1. P("head", 1) \in Chunks /\ P("body", 0) \in Chunks /\ P("head", 1).len = 1
      BY <1>1
    <3>2. Response(v, f) = <<P("head", 1), P("body", 0)>>
      BY <2>2, Responses DEF P
    <3>3. QED
      BY <3>1, <3>2, ShortSeqs
  <2>3. CASE f = "fragmented"
    <3>1. P("half_head", 0) \in Chunks /\ P("head", 1) \in Chunks
          /\ P("body", 0) \in Chunks /\ P("half_head", 0).len = 0
      BY <1>1
    <3>2. Response(v, f) = <<P("half_head", 0), P("head", 1), P("body", 0)>>
      BY <2>3, Responses DEF P
    <3>3. QED
      BY <3>1, <3>2, ShortSeqs
  <2>4. QED
    BY <1>3, <2>1, <2>2, <2>3 DEF Layouts
<1>4. QED
  BY <1>2, <1>3

LEMMA ConnRecord ==
    ASSUME NEW k \in Conns
    PROVE  /\ k.up \in Seq(Items) /\ k.down \in Seq(Chunks)
           /\ k.client \in {"open", "dropped"} /\ k.server_open \in BOOLEAN
           /\ k.host \in Hosts /\ k.stray \in BOOLEAN
  BY DEF Conns, Items

LEMMA RecordUp ==
    ASSUME NEW k \in Conns, NEW u \in Seq(Items), NEW j, j = [k EXCEPT !.up = u]
    PROVE  /\ j \in Conns /\ j.up = u /\ j.down = k.down
           /\ j.client = k.client /\ j.host = k.host
           /\ j.server_open = k.server_open /\ j.stray = k.stray
  BY DEF Conns, Items

LEMMA RecordDown ==
    ASSUME NEW k \in Conns, NEW d \in Seq(Chunks), NEW j, j = [k EXCEPT !.down = d]
    PROVE  /\ j \in Conns /\ j.up = k.up /\ j.down = d
           /\ j.client = k.client /\ j.host = k.host
           /\ j.server_open = k.server_open /\ j.stray = k.stray
  BY DEF Conns

LEMMA TaskRecord ==
    ASSUME NEW r \in TaskRecords, NEW s \in Stages
    PROVE  LET q == [r EXCEPT !.stage = s] IN
           /\ q \in TaskRecords /\ q.stage = s /\ q.conn = r.conn
           /\ q.host = r.host /\ q.from = r.from /\ q.body = r.body
           /\ q.client = r.client /\ q.stray = r.stray
  BY DEF TaskRecords

(* What a request that holds its connection can rely on. *)
LEMMA HeldBy ==
    ASSUME Inv, NEW t \in Tasks, task[t].stage \in Holding
    PROVE  /\ task[t].conn \in 1..Len(conn) /\ conn[task[t].conn] \in Conns
           /\ conn[task[t].conn].client = "open"
           /\ conn[task[t].conn].host = task[t].host
           /\ Exchange(t, task[t], conn[task[t].conn])
           /\ task[t].stray \/ task[t].from \subseteq {t}
           /\ task[t] \in TaskRecords /\ task[t].stray \in BOOLEAN
           /\ task \in [Tasks -> TaskRecords] /\ conn \in Seq(Conns)
           /\ task[t].conn # NoConn
<1>1. task[t] \in TaskRecords /\ task[t].stray \in BOOLEAN
  <2>1. task[t] \in TaskRecords
    BY DEF Inv, TypeOK
  <2>2. QED
    BY <2>1 DEF TaskRecords
<1>2. QED
  BY <1>1, ConnType DEF Inv, Held, OwnOnly, TypeOK, Staged

LEMMA WriteStep ==
    ASSUME Inv, NEW t \in Tasks, task[t].stage \in Holding,
           NEW item \in Items, NEW s \in Holding, WriteTo(t, item, s),
           NEW k, k = IF conn[task[t].conn].server_open
                      THEN [conn[task[t].conn] EXCEPT !.up = Append(@, item)]
                      ELSE conn[task[t].conn],
           task[t].stray \/ Exchange(t, [task[t] EXCEPT !.stage = s], k)
    PROVE  Inv'
<1> DEFINE c == task[t].conn
           r == [task[t] EXCEPT !.stage = s]
<1>1. /\ c \in 1..Len(conn) /\ conn[c] \in Conns /\ conn[c].client = "open"
      /\ task[t].stray \/ task[t].from \subseteq {t}
      /\ task[t] \in TaskRecords
      /\ task[t].stray => conn[c].stray
      /\ UNCHANGED <<pool, max_per_host, lag>>
  BY HeldBy DEF WriteTo, Exchange
<1>2. s \in Stages /\ task[t].stage \notin Ended
  BY StageSets
<1>3. /\ r \in TaskRecords /\ r.stage = s /\ r.conn = c /\ r.host = task[t].host
      /\ r.from = task[t].from /\ r.stray = task[t].stray
  BY <1>1, <1>2, TaskRecord
<1>4. Append(conn[c].up, item) \in Seq(Items)
  <2>1. conn[c].up \in Seq(Items)
    BY <1>1, ConnRecord
  <2>2. QED
    BY <2>1
<1>5. /\ k \in Conns /\ k.client = "open" /\ k.host = conn[c].host
      /\ k.stray = conn[c].stray
  BY <1>1, <1>4 DEF Conns, Items
<1>6. CASE /\ conn' = IF conn[c].server_open
                      THEN [conn EXCEPT ![c].up = Append(@, item)] ELSE conn
           /\ Goto(t, s)
  <2>1. conn' = [conn EXCEPT ![c] = k]
    <3>1. CASE conn[c].server_open
      <4>1. k = [conn[c] EXCEPT !.up = Append(@, item)]
        BY <3>1
      <4>2. QED
        BY <1>6, <3>1, <4>1
    <3>2. CASE ~conn[c].server_open
      <4>1. conn' = conn /\ k = conn[c] /\ conn \in Seq(Conns)
        BY <1>6, <3>2, ConnsLen DEF Inv
      <4>2. conn = [conn EXCEPT ![c] = conn[c]]
        BY <1>1, <4>1, SMT
      <4>3. QED
        BY <4>1, <4>2
    <3>3. QED
      BY <3>1, <3>2
  <2>2. task' = [task EXCEPT ![t] = r]
    BY <1>6 DEF Goto
  <2>3. (r.stray \/ r.from \subseteq {t}) /\ r.stage \in Holding
    BY <1>1, <1>3
  <2>b. r.stray \/ Exchange(t, r, k)
    BY <1>3
  <2> HIDE DEF r
  <2>c. Exchange(t, r, k)
    BY <1>1, <1>3, <1>5, <2>b DEF Exchange
  <2>4. QED
    BY <1>1, <1>3, <1>5, <2>1, <2>2, <2>3, <2>c, UseStep DEF c
<1>7. CASE Drop(t, "failed")
  <2>1. "failed" \in Ended
    BY DEF Ended
  <2>2. QED
    BY <1>1, <1>2, <1>7, <2>1, DropStep
<1>8. QED
  BY <1>6, <1>7 DEF WriteTo

LEMMA WriteRequestInv ==
    ASSUME Inv, NEW t \in Tasks, WriteRequest(t)
    PROVE  Inv'
<1> DEFINE c == task[t].conn
           n == IF task[t].body THEN 1 ELSE 0
           s == IF task[t].body /\ task[t].client = "direct" THEN "write_body"
                ELSE "head"
           k == IF conn[c].server_open
                THEN [conn[c] EXCEPT !.up = Append(@, Piece(t, "head", n))]
                ELSE conn[c]
           r == [task[t] EXCEPT !.stage = s]
<1>1. task[t].stage = "write" /\ task[t].stage \in Holding /\ s \in Holding
      /\ WriteTo(t, Piece(t, "head", n), s) /\ n \in 0..1
  BY DEF WriteRequest, Holding, Piece
<1>2. Piece(t, "head", n) \in Items
  BY <1>1, PieceType
<1>a. CASE task[t].stray
  BY <1>1, <1>2, <1>a, WriteStep
<1>b. SUFFICES ASSUME ~task[t].stray PROVE Inv'
  BY <1>a
<1>3. /\ conn[c] \in Conns /\ task[t] \in TaskRecords
      /\ conn[c].up = << >> /\ conn[c].down = << >>
  BY <1>1, <1>b, HeldBy DEF Exchange
<1>4. r.stage = s /\ ~r.stray
  BY <1>1, <1>3, <1>b, TaskRecord, StageSets
<1>5. /\ s = "write_body" => n = 1
      /\ s \in {"head", "write_body"}
  OBVIOUS
<1>6. /\ k.down = << >>
      /\ \/ k.up = << >> /\ ~k.server_open
         \/ k.up = <<Piece(t, "head", n)>>
  <2>1. Append(conn[c].up, Piece(t, "head", n)) = <<Piece(t, "head", n)>>
    BY <1>3
  <2>2. <<Piece(t, "head", n)>> \in Seq(Items)
    BY <1>2, ShortSeqs
  <2>3. CASE conn[c].server_open
    <3>1. k.down = conn[c].down /\ k.up = <<Piece(t, "head", n)>>
      BY <1>3, <2>1, <2>2, <2>3, RecordUp
    <3>2. QED
      BY <1>3, <3>1
  <2>4. CASE ~conn[c].server_open
    BY <1>3, <2>4
  <2>5. QED
    BY <2>3, <2>4
<1> HIDE DEF n, k, r, s
<1>7. Exchange(t, r, k)
  <2>1. n \in 0..1
    BY <1>1
  <2>2. QED
    BY <2>1, <1>4, <1>5, <1>6 DEF Exchange
<1>8. QED
  BY <1>1, <1>2, <1>7, WriteStep DEF k, r, s

LEMMA WriteBodyInv ==
    ASSUME Inv, NEW t \in Tasks, WriteBody(t)
    PROVE  Inv'
<1> DEFINE c == task[t].conn
           item == Piece(t, "body", 0)
           k == IF conn[c].server_open
                THEN [conn[c] EXCEPT !.up = Append(@, item)]
                ELSE conn[c]
           r == [task[t] EXCEPT !.stage = "head"]
<1>1. task[t].stage = "write_body" /\ task[t].stage \in Holding /\ "head" \in Holding
      /\ WriteTo(t, item, "head")
  BY DEF WriteBody, Holding, Piece
<1>2. item \in Items /\ Piece(t, "head", 1) \in Items
  BY PieceType
<1>a. CASE task[t].stray
  BY <1>1, <1>2, <1>a, WriteStep
<1>b. SUFFICES ASSUME ~task[t].stray PROVE Inv'
  BY <1>a
<1>3. /\ conn[c] \in Conns /\ task[t] \in TaskRecords /\ conn[c].down = << >>
      /\ \/ conn[c].up = << >> /\ ~conn[c].server_open
         \/ conn[c].up = <<Piece(t, "head", 1)>>
  BY <1>1, <1>b, HeldBy DEF Exchange
<1>4. r.stage = "head" /\ ~r.stray
  BY <1>1, <1>3, <1>b, TaskRecord, StageSets
<1>5. CASE ~conn[c].server_open
  <2>1. k = conn[c]
    BY <1>5
  <2> HIDE DEF r, k, item
  <2>2. Exchange(t, r, k)
    BY <1>3, <1>4, <2>1 DEF Exchange
  <2>3. QED
    BY <1>1, <1>2, <2>2, WriteStep DEF k, r
<1>6. CASE conn[c].server_open
  <2>1. conn[c].up = <<Piece(t, "head", 1)>>
    BY <1>3, <1>6
  <2>2. Append(conn[c].up, item) = <<Piece(t, "head", 1), item>>
    BY <1>2, <2>1, AppendOne
  <2>3. <<Piece(t, "head", 1), item>> \in Seq(Items)
    BY <1>2, ShortSeqs
  <2>4. k = [conn[c] EXCEPT !.up = <<Piece(t, "head", 1), item>>]
    BY <1>6, <2>2
  <2>5. k.down = << >> /\ k.up = <<Piece(t, "head", 1), item>>
    <3>1. k.down = conn[c].down /\ k.up = <<Piece(t, "head", 1), item>>
      BY <1>3, <2>3, <2>4 DEF Conns, Items
    <3>2. QED
      BY <1>3, <3>1
  <2> HIDE DEF r, k
  <2>6. Exchange(t, r, k)
    BY <1>4, <2>5 DEF Exchange
  <2>7. QED
    BY <1>1, <1>2, <2>6, WriteStep DEF k, r
<1>7. QED
  BY <1>5, <1>6

(* read_response takes what is next on the wire. *)
LEMMA ReadStep ==
    ASSUME Inv, NEW t \in Tasks, task[t].stage \in Holding,
           NEW r \in TaskRecords, NEW d, d = Tail(conn[task[t].conn].down),
           conn[task[t].conn].down # << >>,
           conn' = [conn EXCEPT ![task[t].conn].down = Tail(@)],
           task' = [task EXCEPT ![t] = r],
           UNCHANGED <<pool, max_per_host, lag>>,
           r.conn = task[t].conn, r.host = task[t].host, r.stage \in Holding,
           r.stray = task[t].stray, r.stray \/ r.from \subseteq {t},
           \A k \in Conns :
              /\ k.up = conn[task[t].conn].up /\ k.down = d
              /\ k.stray = conn[task[t].conn].stray /\ ~r.stray
              => Exchange(t, r, k)
    PROVE  Inv'
<1> DEFINE c == task[t].conn
           k == [conn[c] EXCEPT !.down = d]
<1>1. conn[c] \in Conns /\ conn[c].client = "open"
  BY HeldBy
<1>2. d \in Seq(Chunks)
  <2>1. conn[c].down \in Seq(Chunks)
    BY <1>1, ConnRecord
  <2>2. QED
    BY <2>1
<1>3. /\ k \in Conns /\ k.client = "open" /\ k.host = conn[c].host
      /\ k.up = conn[c].up /\ k.down = d /\ k.stray = conn[c].stray
  BY <1>1, <1>2 DEF Conns
<1>4. conn' = [conn EXCEPT ![c] = k]
  OBVIOUS
<1>a. task[t].stray => conn[c].stray
  BY HeldBy DEF Exchange
<1> HIDE DEF k
<1>5. Exchange(t, r, k)
  <2>1. CASE r.stray
    BY <1>3, <1>a, <2>1 DEF Exchange
  <2>2. CASE ~r.stray
    BY <1>3, <2>2
  <2>3. QED
    BY <2>1, <2>2
<1>6. QED
  BY <1>3, <1>4, <1>5, UseStep

(* What a header that announces n, the first chunk of d, leaves to read of *)
(* the task's own response.                                                *)
LeavesBody(t, n, d) ==
    /\ Head(d).req = t /\ conn[task[t].conn].up = << >>
    /\ n = 0 => Tail(d) = << >> \/ conn[task[t].conn].stray
    /\ n = 1 => Tail(d) = << >> \/ Tail(d) = <<Piece(t, "body", 0)>>

(* The chunk that ends the header. *)
LEMMA HeadEndsInv ==
    ASSUME Inv, NEW t \in Tasks, task[t].stage = "head",
           NEW d, d = conn[task[t].conn].down, d # << >>,
           NEW n \in 0..1, NEW b \in BOOLEAN, HeadEnds(t, n, b),
           conn' = [conn EXCEPT ![task[t].conn].down = Tail(@)],
           UNCHANGED <<pool, max_per_host, lag>>,
           ~task[t].stray => LeavesBody(t, n, d)
    PROVE  Inv'
<1> DEFINE c == task[t].conn
           s == IF n = 0 THEN "return" ELSE "body"
           r == [task[t] EXCEPT !.stage = s, !.need = n,
                                !.from = @ \cup {Head(d).req}, !.cut = b]
<1>1. /\ task[t].stage \in Holding /\ s \in Stages /\ s \in Holding
  BY DEF Holding, Stages
<1>2. /\ conn[c] \in Conns /\ task[t] \in TaskRecords
      /\ task[t].stray \/ task[t].from \subseteq {t}
      /\ task \in [Tasks -> TaskRecords]
  BY <1>1, HeldBy
<1>3. Head(d).req \in Tasks
  <2>1. d \in Seq(Chunks)
    BY <1>2, ConnRecord
  <2>2. Head(d) \in Chunks
    BY <2>1
  <2>3. QED
    BY <2>2 DEF Chunks
<1>4. task' = [task EXCEPT ![t] = r]
  BY <1>2 DEF HeadEnds
<1>5. /\ r \in TaskRecords /\ r.stage = s /\ r.conn = c
      /\ r.host = task[t].host /\ r.from = task[t].from \cup {Head(d).req}
      /\ r.stray = task[t].stray
  <2>1. PICK x : x = task[t]
    OBVIOUS
  <2>2. PICK f : f = task[t].from \cup {Head(d).req}
    OBVIOUS
  <2>3. x \in TaskRecords /\ f \in SUBSET Tasks
    <3>1. task[t].from \in SUBSET Tasks
      BY <1>2 DEF TaskRecords
    <3>2. QED
      BY <1>2, <1>3, <2>1, <2>2, <3>1
  <2>4. r = [x EXCEPT !.stage = s, !.need = n, !.from = f, !.cut = b]
    BY <2>1, <2>2
  <2> HIDE DEF r, s
  <2>5. /\ r \in TaskRecords /\ r.stage = s /\ r.conn = x.conn
        /\ r.host = x.host /\ r.from = f /\ r.stray = x.stray
    BY <1>1, <2>3, <2>4 DEF TaskRecords
  <2>6. QED
    BY <1>1, <2>1, <2>2, <2>5
<1> HIDE DEF r
<1>6. r.stray \/ r.from \subseteq {t}
  BY <1>2, <1>5 DEF LeavesBody
<1>7. ASSUME NEW k \in Conns, k.up = conn[c].up, k.down = Tail(d),
             k.stray = conn[c].stray, ~r.stray
      PROVE  Exchange(t, r, k)
  BY <1>5, <1>7 DEF Exchange, LeavesBody
<1>8. conn[task[t].conn].down # << >>
  OBVIOUS
<1> HIDE DEF s
<1>9. QED
  BY <1>1, <1>2, <1>4, <1>5, <1>6, <1>7, <1>8, ReadStep

LEMMA ReadHeadInv ==
    ASSUME Inv, NEW t \in Tasks, ReadHead(t)
    PROVE  Inv'
<1> DEFINE c == task[t].conn
           d == conn[c].down
           chunk == Head(d)
<1>1. /\ task[t].stage = "head" /\ task[t].stage \in Holding
      /\ UNCHANGED <<pool, max_per_host, lag>> /\ task[t].stage \notin Ended
      /\ task[t].stage \in Stages
  BY DEF ReadHead, Holding, Ended, Stages
<1>2. /\ conn[c] \in Conns /\ task[t] \in TaskRecords
      /\ task[t].stray \/ task[t].from \subseteq {t}
      /\ task \in [Tasks -> TaskRecords]
      /\ Exchange(t, task[t], conn[c])
  BY <1>1, HeldBy
<1>3. ASSUME d # << >>, ~task[t].stray
      PROVE  /\ conn[c].up = << >> /\ d \in Unread(t)
             /\ d = Response(t, "chunked") => conn[c].stray
  BY <1>1, <1>2, <1>3 DEF Exchange
<1>4. ASSUME d # << >>, ~task[t].stray
      PROVE  /\ chunk.req = t /\ chunk.part # "body" /\ conn[c].up = << >>
             /\ chunk.part = "half_head" =>
                   Tail(d) \in Unread(t) /\ Tail(d) # Response(t, "chunked")
             /\ chunk.part \in {"head", "head_body"} =>
                   \/ Tail(d) = << >>
                   \/ /\ Tail(d) = <<Piece(t, "body", 0)>>
                      /\ chunk.len = 1 \/ (chunk.len = NoLength /\ conn[c].stray)
  BY <1>3, <1>4, UnreadHead
<1>5. ASSUME d # << >>
      PROVE  chunk.req \in Tasks /\ chunk.len \in 0..1 \cup {NoLength}
  <2>1. d \in Seq(Chunks)
    BY <1>2, ConnRecord
  <2>2. chunk \in Chunks
    BY <1>5, <2>1
  <2>3. QED
    BY <2>2 DEF Chunks
<1>6. CASE /\ d # << >> /\ chunk.part \in {"half_head", "body"}
           /\ conn' = [conn EXCEPT ![c].down = Tail(@)]
           /\ task' = [task EXCEPT ![t].from = @ \cup {chunk.req}]
  <2> DEFINE r == [task[t] EXCEPT !.from = @ \cup {chunk.req}]
  <2>1. task' = [task EXCEPT ![t] = r]
    BY <1>2, <1>6
  <2>2. /\ r \in TaskRecords /\ r.stage = "head" /\ r.conn = c
        /\ r.host = task[t].host /\ r.from = task[t].from \cup {chunk.req}
        /\ r.stray = task[t].stray
    <3>1. PICK x : x = task[t]
      OBVIOUS
    <3>2. PICK f : f = task[t].from \cup {chunk.req}
      OBVIOUS
    <3>3. x \in TaskRecords /\ f \in SUBSET Tasks
      <4>1. task[t].from \in SUBSET Tasks
        BY <1>2 DEF TaskRecords
      <4>2. QED
        BY <1>2, <1>5, <1>6, <3>1, <3>2, <4>1
    <3>4. r = [x EXCEPT !.from = f]
      BY <3>1, <3>2
    <3> HIDE DEF r
    <3>5. /\ r \in TaskRecords /\ r.stage = x.stage /\ r.conn = x.conn
          /\ r.host = x.host /\ r.from = f /\ r.stray = x.stray
      BY <1>1, <3>3, <3>4 DEF TaskRecords
    <3>6. QED
      BY <1>1, <3>1, <3>2, <3>5
  <2> HIDE DEF r
  <2>3. r.stray \/ r.from \subseteq {t}
    BY <1>2, <1>4, <1>6, <2>2
  <2>4. ASSUME NEW k \in Conns, k.up = conn[c].up, k.down = Tail(d),
               k.stray = conn[c].stray, ~r.stray
        PROVE  Exchange(t, r, k)
    <3>1. Tail(d) \in Unread(t) /\ Tail(d) # Response(t, "chunked") /\ k.up = << >>
      BY <1>4, <1>6, <2>2, <2>4
    <3>2. QED
      BY <2>2, <2>4, <3>1 DEF Exchange
  <2>5. r.stage \in Holding
    BY <2>2 DEF Holding
  <2>6. QED
    BY <1>1, <1>6, <2>1, <2>2, <2>3, <2>4, <2>5, ReadStep
<1>7. CASE /\ d # << >> /\ chunk.part \in {"head", "head_body"}
           /\ conn' = [conn EXCEPT ![c].down = Tail(@)]
           /\ HeadEnds(t, ContentLength(chunk), chunk.part = "head_body")
  <2>1. chunk.len \in 0..1 \cup {NoLength} /\ NoLength \notin 0..1
    BY <1>5, <1>7 DEF NoLength
  <2>2. /\ ContentLength(chunk) \in 0..1 /\ (chunk.part = "head_body") \in BOOLEAN
        /\ chunk.len = 1 => ContentLength(chunk) = 1
        /\ chunk.len = NoLength => ContentLength(chunk) = 0
    BY <2>1 DEF ContentLength
  <2>3. ASSUME ~task[t].stray
        PROVE  /\ chunk.req = t /\ conn[c].up = << >>
               /\ ContentLength(chunk) = 0 => Tail(d) = << >> \/ conn[c].stray
               /\ ContentLength(chunk) = 1 =>
                     Tail(d) = << >> \/ Tail(d) = <<Piece(t, "body", 0)>>
    <3>1. /\ chunk.req = t /\ conn[c].up = << >>
          /\ \/ Tail(d) = << >>
             \/ /\ Tail(d) = <<Piece(t, "body", 0)>>
                /\ chunk.len = 1 \/ (chunk.len = NoLength /\ conn[c].stray)
      BY <1>4, <1>7, <2>3
    <3> HIDE DEF d, c, chunk
    <3>2. QED
      BY <2>2, <3>1
  <2>4. ~task[t].stray => LeavesBody(t, ContentLength(chunk), d)
    BY <2>3 DEF LeavesBody
  <2>5. QED
    BY <1>1, <1>7, <2>2, <2>4, HeadEndsInv
<1>8. CASE /\ d # << >> /\ chunk.part = "body"
           /\ conn' = [conn EXCEPT ![c].down = Tail(@)]
           /\ \E length \in 0..1 : HeadEnds(t, length, FALSE)
  <2>1. PICK length \in 0..1 : HeadEnds(t, length, FALSE)
    BY <1>8
  <2>2. task[t].stray /\ FALSE \in BOOLEAN
    BY <1>4, <1>8
  <2>3. QED
    BY <1>1, <1>8, <2>1, <2>2, HeadEndsInv
<1>9. CASE Drop(t, "failed")
  <2>1. "failed" \in Ended
    BY DEF Ended
  <2>2. QED
    BY <1>1, <1>9, <2>1, DropStep
<1>10. QED
  BY <1>6, <1>7, <1>8, <1>9 DEF ReadHead

LEMMA ReadBodyInv ==
    ASSUME Inv, NEW t \in Tasks, ReadBody(t)
    PROVE  Inv'
<1> DEFINE c == task[t].conn
           d == conn[c].down
<1>1. /\ task[t].stage = "body" /\ task[t].stage \in Holding
      /\ UNCHANGED <<pool, max_per_host, lag>> /\ "return" \in Holding
      /\ "return" \in Stages /\ "body" \in Stages /\ task[t].stage \notin Ended
  BY DEF ReadBody, Holding, Stages, Ended
<1>2. /\ c \in 1..Len(conn) /\ conn \in Seq(Conns)
      /\ conn[c] \in Conns /\ task[t] \in TaskRecords
      /\ task[t].stray \/ task[t].from \subseteq {t}
      /\ task \in [Tasks -> TaskRecords] /\ conn[c].client = "open"
      /\ Exchange(t, task[t], conn[c])
  BY <1>1, HeldBy
<1>3. ~task[t].stray =>
         conn[c].up = << >> /\ (d = << >> \/ d = <<Piece(t, "body", 0)>>)
  BY <1>1, <1>2 DEF Exchange
<1>4. ASSUME d # << >>, conn' = [conn EXCEPT ![c].down = Tail(@)],
             NEW enough \in {TRUE, ~task[t].stray},
             task' = [task EXCEPT
                         ![t].stage = IF enough THEN "return" ELSE "body",
                         ![t].need = IF enough THEN 0 ELSE 1,
                         ![t].from = @ \cup {Head(d).req}]
      PROVE  Inv'
  <2> DEFINE s == IF enough THEN "return" ELSE "body"
             n == IF enough THEN 0 ELSE 1
             r == [task[t] EXCEPT !.stage = s, !.need = n,
                                  !.from = @ \cup {Head(d).req}]
  <2>1. ~task[t].stray => Head(d).req = t /\ Tail(d) = << >> /\ s = "return"
    <3>1. Piece(t, "body", 0) \in Chunks /\ Piece(t, "body", 0).req = t
      BY PieceType
    <3>2. ~task[t].stray => d = <<Piece(t, "body", 0)>>
      BY <1>3, <1>4
    <3>3. ~task[t].stray => s = "return"
      BY <1>4
    <3>4. QED
      BY <3>1, <3>2, <3>3, ShortSeqs
  <2>2. task' = [task EXCEPT ![t] = r]
    BY <1>2, <1>4
  <2>3. Head(d).req \in Tasks
    <3>1. d \in Seq(Chunks)
      BY <1>2, ConnRecord
    <3>2. Head(d) \in Chunks
      BY <1>4, <3>1
    <3>3. QED
      BY <3>2 DEF Chunks
  <2>4. s \in Stages /\ s \in Holding /\ n \in 0..1 /\ TRUE \in BOOLEAN
    BY <1>1
  <2>5. /\ r \in TaskRecords /\ r.stage = s /\ r.conn = task[t].conn
        /\ r.host = task[t].host /\ r.from = task[t].from \cup {Head(d).req}
        /\ r.stray = task[t].stray
    <3>1. PICK x : x = task[t]
      OBVIOUS
    <3>2. PICK f : f = task[t].from \cup {Head(d).req}
      OBVIOUS
    <3>3. x \in TaskRecords /\ f \in SUBSET Tasks
      <4>1. task[t].from \in SUBSET Tasks
        BY <1>2 DEF TaskRecords
      <4>2. QED
        BY <1>2, <2>3, <3>1, <3>2, <4>1
    <3>4. r = [x EXCEPT !.stage = s, !.need = n, !.from = f]
      BY <3>1, <3>2
    <3> HIDE DEF r, s, n
    <3>5. /\ r \in TaskRecords /\ r.stage = s /\ r.conn = x.conn
          /\ r.host = x.host /\ r.from = f /\ r.stray = x.stray
      BY <2>4, <3>3, <3>4 DEF TaskRecords
    <3>6. QED
      BY <2>4, <3>1, <3>2, <3>5
  <2> HIDE DEF r, s, n
  <2>6. ASSUME NEW k \in Conns, k.up = conn[c].up, k.down = Tail(d),
               k.stray = conn[c].stray, ~r.stray
        PROVE  Exchange(t, r, k)
    BY <1>3, <2>1, <2>5, <2>6 DEF Exchange
  <2>7. r.stage \in Holding /\ (r.stray \/ r.from \subseteq {t})
    BY <1>2, <2>1, <2>4, <2>5
  <2>8. QED
    BY <1>1, <1>4, <2>2, <2>5, <2>6, <2>7, ReadStep
<1>5. CASE AtEof(t) /\ Goto(t, "return") /\ UNCHANGED conn
  <2> DEFINE r == [task[t] EXCEPT !.stage = "return"]
  <2>1. task' = [task EXCEPT ![t] = r]
    BY <1>5 DEF Goto
  <2>2. /\ r \in TaskRecords /\ r.stage = "return" /\ r.conn = task[t].conn
        /\ r.host = task[t].host /\ r.from = task[t].from
        /\ r.stray = task[t].stray
    BY <1>1, <1>2, TaskRecord
  <2>3. conn' = [conn EXCEPT ![c] = conn[c]]
    BY <1>2, <1>5
  <2> HIDE DEF r
  <2>4. conn[c].down = << >>
    BY <1>5 DEF AtEof
  <2>5. Exchange(t, r, conn[c])
    BY <1>2, <1>3, <2>2, <2>4 DEF Exchange
  <2>6. QED
    BY <1>1, <1>2, <2>1, <2>2, <2>3, <2>5, UseStep
<1>6. CASE Drop(t, "failed")
  <2>1. "failed" \in Ended
    BY DEF Ended
  <2>2. QED
    BY <1>1, <1>6, <2>1, DropStep
<1>7. QED
  BY <1>4, <1>5, <1>6 DEF ReadBody

-----------------------------------------------------------------------------
(* Requests that take, make and return a connection. *)

LEMMA StartInv ==
    ASSUME Inv, NEW t \in Tasks, Start(t)
    PROVE  Inv'
<1>1. task[t].stage = "new" /\ task[t].stage \notin Ended /\ task[t].conn = NoConn
      /\ ~task[t].stray
      /\ UNCHANGED <<pool, max_per_host, conn, lag>>
  BY DEF Start, Ended, Inv, Staged, Before
<1>2. CASE Goto(t, "failed")
  <2>1. Drop(t, "failed") /\ "failed" \in Ended
    BY <1>1, <1>2 DEF Drop, Ended
  <2>2. QED
    BY <1>1, <2>1, DropStep
<1>3. CASE Goto(t, IF task[t].client = "pooled" THEN "get" ELSE "connect")
  <2>1. PICK s \in {"get", "connect"} : Goto(t, s)
    BY <1>3
  <2>2. s \in Before /\ s \in Stages /\ s \notin Holding /\ s \notin Ended
    BY DEF Before, Stages, Holding, Ended
  <2> DEFINE r == [task[t] EXCEPT !.stage = s]
  <2>3. r \in TaskRecords /\ r.stage = s /\ r.conn = NoConn /\ r.from = task[t].from
        /\ r.stray = task[t].stray
    BY <1>1, <2>2, TaskType, TaskRecord DEF Inv
  <2>4. /\ task' \in [Tasks -> TaskRecords] /\ task'[t] = r
        /\ \A u \in Tasks : u # t => task'[u] = task[u]
    BY <2>1, <2>3 DEF Goto, Inv, TypeOK
  <2> HIDE DEF r
  <2>5. TypeOK' /\ Staged' /\ OwnOnly' /\ PoolBounded'
    BY <1>1, <2>2, <2>3, <2>4 DEF Inv, TypeOK, Staged, OwnOnly, PoolBounded
  <2>6. Beyond' = Beyond
    BY <1>1, <2>2, <2>3, <2>4 DEF Beyond, Before
  <2>7. \A u \in Tasks : task'[u].stage \in Holding => task'[u] = task[u]
    BY <2>2, <2>3, <2>4
  <2>8. Held' /\ Idle' /\ Apart' /\ Counted'
    <3>1. Held'
      BY <1>1, <2>7 DEF Inv, Held, Exchange
    <3>2. Idle' /\ Apart' /\ Counted'
      BY <1>1, <2>6, <2>7 DEF Inv, Idle, Apart, Counted
    <3>3. QED
      BY <3>1, <3>2
  <2>9. QED
    BY <2>5, <2>8 DEF Inv
<1>4. QED
  BY <1>2, <1>3 DEF Start

LEMMA CancelInv ==
    ASSUME Inv, NEW t \in Tasks, Cancel(t)
    PROVE  Inv'
<1>1. task[t].stage \notin Ended /\ "cancelled" \in Ended
  BY DEF Cancel, Ended
<1>2. QED
  BY <1>1, DropStep DEF Cancel

(* A new connection: its number is not taken, and there are still no more  *)
(* of them than requests that took one.                                    *)
LEMMA ConnectInv ==
    ASSUME Inv, NEW t \in Tasks, Connect(t)
    PROVE  Inv'
<1>1. /\ task[t].stage = "connect" /\ task[t].stage \notin Ended
      /\ task[t].stage \in Before
      /\ task[t].conn = NoConn /\ ~task[t].stray
      /\ UNCHANGED <<pool, max_per_host, lag>> /\ TypeOK
  BY DEF Connect, Ended, Inv, Staged, Before
<1>2. CASE Goto(t, "failed") /\ UNCHANGED conn
  <2>1. Drop(t, "failed") /\ "failed" \in Ended
    BY <1>1, <1>2 DEF Drop, Ended
  <2>2. QED
    BY <1>1, <2>1, DropStep
<1> DEFINE k == [host |-> task[t].host, up |-> << >>, down |-> << >>,
                 server_open |-> TRUE, client |-> "open", stray |-> FALSE]
           n == Len(conn) + 1
           r == [task[t] EXCEPT !.stage = "write", !.conn = n]
<1>3. CASE /\ conn' = Append(conn, k)
           /\ task' = [task EXCEPT ![t].stage = "write", ![t].conn = n]
  <2>1. /\ task[t] \in TaskRecords /\ task[t].host \in Hosts
        /\ conn \in Seq(Conns) /\ Len(conn) \in Nat
    BY <1>1, TaskType, ConnsLen
  <2>2. k \in Conns /\ k.host = task[t].host /\ k.client = "open"
    BY <2>1 DEF Conns
  <2>3. k.up = << >> /\ k.down = << >>
    OBVIOUS
  <2> HIDE DEF k
  <2>4. /\ conn' \in Seq(Conns) /\ Len(conn') = n /\ conn'[n] = k
        /\ \A d \in 1..Len(conn) : conn'[d] = conn[d]
    BY <1>3, <2>1, <2>2
  <2>5. /\ Beyond' = Beyond \cup {t} /\ t \notin Beyond
        /\ task'[t].stage = "write" /\ task'[t].conn = n
        /\ task'[t].host = task[t].host /\ task'[t].from = task[t].from /\ task'[t].stray = task[t].stray
        /\ \A u \in Tasks : u # t => task'[u] = task[u]
    <3>1. /\ task'[t].stage = "write" /\ task'[t].conn = n
          /\ task'[t].host = task[t].host /\ task'[t].from = task[t].from /\ task'[t].stray = task[t].stray
          /\ \A u \in Tasks : u # t => task'[u] = task[u]
      BY <1>1, <1>3, <2>1 DEF TypeOK, TaskRecords
    <3>2. QED
      BY <1>1, <3>1 DEF Beyond, Before
  <2>6. /\ Cardinality(Beyond') = Cardinality(Beyond) + 1
        /\ Cardinality(Beyond') <= Cardinality(Tasks)
        /\ Cardinality(Beyond) \in Nat /\ Cardinality(Tasks) \in Nat
    <3>1. IsFiniteSet(Beyond) /\ Cardinality(Beyond) \in Nat /\ IsFiniteSet(Tasks)
          /\ Cardinality(Tasks) \in Nat
      BY BeyondFinite
    <3>2. Cardinality(Beyond') = Cardinality(Beyond) + 1
      BY <2>5, <3>1, FS_AddElement
    <3>3. Beyond' \subseteq Tasks
      BY DEF Beyond
    <3>4. Cardinality(Beyond') <= Cardinality(Tasks)
      BY <3>1, <3>3, FS_Subset
    <3>5. QED
      BY <3>1, <3>2, <3>4
  <2>7. Counted' /\ n \in ConnIds
    <3>1. Len(conn) <= Cardinality(Beyond)
      BY DEF Inv, Counted
    <3>2. n <= Cardinality(Beyond') /\ n \in ConnIds
      BY <2>1, <2>6, <3>1 DEF ConnIds
    <3>3. QED
      BY <2>4, <3>2 DEF Counted
  <2>8. task' \in [Tasks -> TaskRecords]
    <3>1. r \in TaskRecords
      <4>1. "write" \in Stages
        BY DEF Stages
      <4> HIDE DEF n
      <4>2. QED
        BY <2>1, <2>7, <4>1 DEF TaskRecords
    <3>2. task' = [task EXCEPT ![t] = r]
      BY <1>3
    <3> HIDE DEF r
    <3>3. QED
      BY <1>1, <3>1, <3>2 DEF TypeOK
  <2> HIDE DEF r
  <2>9. TypeOK'
    BY <1>1, <2>4, <2>7, <2>8 DEF TypeOK
  <2>10. Staged' /\ OwnOnly' /\ PoolBounded'
    BY <1>1, <2>1, <2>5 DEF Inv, Staged, OwnOnly, PoolBounded, NoConn, Holding, Before
  <2>11. /\ \A u \in Tasks : u # t /\ task'[u].stage \in Holding =>
               /\ task'[u] = task[u] /\ task[u].conn \in 1..Len(conn)
               /\ task[u].conn # n
         /\ \A h \in Hosts : \A i \in 1..Len(pool[h]) :
               pool[h][i].conn \in 1..Len(conn) /\ pool[h][i].conn # n
    BY <2>1, <2>5 DEF Inv, Held, Idle
  <2>12. Held'
    <3> SUFFICES ASSUME NEW u \in Tasks, task'[u].stage \in Holding
                 PROVE  /\ task'[u].conn \in 1..Len(conn')
                        /\ conn'[task'[u].conn].client = "open"
                        /\ conn'[task'[u].conn].host = task'[u].host
                        /\ Exchange(u, task'[u], conn'[task'[u].conn])
      BY DEF Held, Exchange
    <3>1. CASE u = t
      <4>1. task'[u].conn = n /\ conn'[n] = k /\ k.host = task'[u].host
            /\ n \in 1..Len(conn')
        BY <2>1, <2>2, <2>4, <2>5, <3>1
      <4>2. Exchange(u, task'[u], k)
        BY <1>1, <2>3, <2>5, <3>1 DEF Exchange
      <4>3. QED
        BY <2>2, <4>1, <4>2
    <3>2. CASE u # t
      <4>1. /\ task'[u] = task[u] /\ task[u].conn \in 1..Len(conn)
            /\ conn'[task[u].conn] = conn[task[u].conn]
            /\ task[u].conn \in 1..Len(conn')
        BY <2>1, <2>4, <2>11, <3>2
      <4>2. QED
        BY <4>1 DEF Inv, Held
    <3>3. QED
      BY <3>1, <3>2
  <2>13. Idle'
    <3> SUFFICES ASSUME NEW h \in Hosts, NEW i \in 1..Len(pool[h])
                 PROVE  LET d == pool[h][i].conn IN
                        /\ d \in 1..Len(conn') /\ conn'[d].client = "open"
                        /\ conn'[d].host = h
                        /\ conn'[d].stray \/ (conn'[d].up = << >> /\ conn'[d].down = << >>)
      BY <1>1 DEF Idle
    <3>1. /\ pool[h][i].conn \in 1..Len(conn)
          /\ conn'[pool[h][i].conn] = conn[pool[h][i].conn]
          /\ pool[h][i].conn \in 1..Len(conn')
      BY <2>1, <2>4, <2>11
    <3>2. QED
      BY <3>1 DEF Inv, Idle
  <2>14. Apart'
    BY <1>1, <2>5, <2>11 DEF Inv, Apart
  <2>15. QED
    BY <2>7, <2>9, <2>10, <2>12, <2>13, <2>14 DEF Inv
<1>4. QED
  BY <1>2, <1>3 DEF Connect

LEMMA MaxPosition ==
    ASSUME NEW n \in Nat, NEW keep \in SUBSET (1..n), keep # {}
    PROVE  Max(keep) \in keep /\ \A i \in keep : i <= Max(keep)
<1> DEFINE c == Cardinality(keep)
<1>1. /\ c \in Nat /\ \A k \in 1..c : Nth(keep, k) \in keep
      /\ \A j, k \in 1..c : j < k => Nth(keep, j) < Nth(keep, k)
      /\ \A i \in keep : \E k \in 1..c : Nth(keep, k) = i
  BY NthPosition
<1> HIDE DEF c
<1>2. c \in 1..c /\ keep \subseteq Int
  <2>1. PICK i \in keep : TRUE
    OBVIOUS
  <2>2. \E k \in 1..c : TRUE
    BY <1>1, <2>1
  <2>3. QED
    BY <1>1, <2>2
<1>3. \A i \in keep : Nth(keep, c) >= i
  <2> SUFFICES ASSUME NEW i \in keep
               PROVE  Nth(keep, c) >= i
    OBVIOUS
  <2>1. PICK k \in 1..c : Nth(keep, k) = i
    BY <1>1
  <2>2. CASE k = c
    BY <2>1, <2>2
  <2>3. CASE k < c
    <3>1. Nth(keep, k) < Nth(keep, c) /\ Nth(keep, c) \in Int
      BY <1>1, <1>2, <2>3
    <3>2. QED
      BY <1>2, <2>1, <3>1
  <2>4. QED
    BY <1>1, <2>2, <2>3
<1>4. Nth(keep, c) \in keep
  BY <1>1, <1>2
<1>5. QED
  BY <1>3, <1>4 DEF Max

(* The connections D are dropped. *)
LEMMA DropSome ==
    ASSUME TypeOK, NEW D,
           conn' = [c \in DOMAIN conn |->
                      IF c \in D THEN [conn[c] EXCEPT !.client = "dropped"]
                      ELSE conn[c]]
    PROVE  /\ conn' \in Seq(Conns) /\ Len(conn') = Len(conn)
           /\ \A c \in 1..Len(conn) : c \notin D => conn'[c] = conn[c]
<1>1. Len(conn) \in Nat /\ DOMAIN conn = 1..Len(conn)
  BY ConnsLen
<1>2. \A c \in 1..Len(conn) :
         conn[c] \in Conns /\ [conn[c] EXCEPT !.client = "dropped"] \in Conns
  <2>1. \A c \in 1..Len(conn) : conn[c] \in Conns
    BY ConnType
  <2>2. \A k \in Conns : [k EXCEPT !.client = "dropped"] \in Conns
    BY DEF Conns
  <2>3. QED
    BY <2>1, <2>2
<1>3. conn' \in [1..Len(conn) -> Conns]
  BY <1>1, <1>2
<1>4. conn' \in Seq(Conns) /\ Len(conn') = Len(conn)
  BY <1>1, <1>3
<1>5. QED
  BY <1>1, <1>4

LEMMA StillCounted ==
    ASSUME Inv, Beyond \subseteq Beyond', Len(conn') = Len(conn)
    PROVE  Counted'
<1>1. IsFiniteSet(Beyond') /\ Len(conn) \in Nat
  <2>1. IsFiniteSet(Tasks) /\ Beyond' \in SUBSET Tasks
    BY PoolConstants DEF Beyond
  <2>2. QED
    BY <2>1, FS_Subset, ConnsLen DEF Inv
<1>2. Cardinality(Beyond) <= Cardinality(Beyond') /\ Cardinality(Beyond') \in Nat
      /\ Cardinality(Beyond) \in Nat
  BY <1>1, FS_Subset, FS_CardinalityType
<1>3. QED
  BY <1>1, <1>2 DEF Inv, Counted

LEMMA GetInv ==
    ASSUME Inv, NEW t \in Tasks, get_connection(t)
    PROVE  Inv'
<1> DEFINE h == task[t].host
           p == pool[h]
           valid == {i \in 1..Len(p) : StillValid(p[i], 0)}
           kept == IF valid = {} THEN 0 ELSE Max(valid) - 1
           s == IF valid = {} THEN "connect" ELSE "write"
           n == IF valid = {} THEN NoConn ELSE p[Max(valid)].conn
           D == {c \in DOMAIN conn : \E i \in kept + 1..Len(p) :
                                         i \notin valid /\ p[i].conn = c}
           w == valid # {} /\ conn[p[Max(valid)].conn].stray
           r == [task[t] EXCEPT !.stage = s, !.conn = n, !.stray = w]
<1>1. /\ TypeOK /\ task[t].stage = "get" /\ task[t].conn = NoConn /\ ~task[t].stray
      /\ task[t] \in TaskRecords /\ h \in Hosts
      /\ UNCHANGED <<max_per_host, lag>>
  BY TaskType DEF get_connection, Inv, Staged, Before
<1>2. /\ p \in Seq(Entries) /\ Len(p) \in Nat
      /\ \A i \in 1..Len(p) : p[i].conn \in ConnIds
  BY <1>1, PoolType
<1>3. /\ valid \in SUBSET (1..Len(p)) /\ kept \in Nat /\ kept <= Len(p)
      /\ valid # {} => /\ kept + 1 \in valid /\ Max(valid) = kept + 1
                       /\ n = p[kept + 1].conn /\ s = "write"
      /\ valid = {} => n = NoConn /\ s = "connect"
  <2>1. valid \in SUBSET (1..Len(p))
    OBVIOUS
  <2>2. CASE valid = {}
    BY <1>2, <2>1, <2>2
  <2>3. CASE valid # {}
    <3>1. Max(valid) \in valid
      BY <1>2, <2>1, <2>3, MaxPosition
    <3> DEFINE m == Max(valid)
    <3>2. m \in 1..Len(p) /\ kept = m - 1 /\ n = p[m].conn /\ s = "write"
      BY <2>1, <2>3, <3>1
    <3> HIDE DEF m, kept, n, s, valid, p
    <3>3. kept \in Nat /\ kept <= Len(p) /\ m = kept + 1
      BY <1>2, <3>2
    <3>4. QED
      BY <2>1, <2>3, <3>1, <3>2, <3>3 DEF m
  <2>4. QED
    BY <2>2, <2>3
<1>4. /\ pool' = [pool EXCEPT ![h] = SubSeq(p, 1, kept)]
      /\ task' = [task EXCEPT ![t] = r]
      /\ conn' = [c \in DOMAIN conn |->
                    IF c \in D THEN [conn[c] EXCEPT !.client = "dropped"]
                    ELSE conn[c]]
  BY DEF get_connection
<1>a. /\ w \in BOOLEAN /\ (w => valid # {})
      /\ valid # {} => (w <=> conn[n].stray)
  OBVIOUS
<1> HIDE DEF valid, kept, s, n, w
<1>5. /\ conn' \in Seq(Conns) /\ Len(conn') = Len(conn) /\ Len(conn) \in Nat
      /\ \A c \in 1..Len(conn) : c \notin D => conn'[c] = conn[c]
  BY <1>1, <1>4, DropSome, ConnsLen
<1>6. \A c \in D : \E i \in kept + 1..Len(p) : i \notin valid /\ p[i].conn = c
  OBVIOUS
<1> HIDE DEF D
<1>7. /\ s \in {"connect", "write"} /\ n \in ConnIds \cup {NoConn}
      /\ s = "write" => valid # {}
      /\ valid # {} => s = "write"
  BY <1>2, <1>3
<1>8. r \in TaskRecords /\ r.stage = s /\ r.conn = n /\ r.host = h
      /\ r.from = task[t].from /\ r.stray = w
  <2>1. s \in Stages
    BY <1>7 DEF Stages
  <2> HIDE DEF h
  <2>2. r \in TaskRecords /\ r.stage = s /\ r.conn = n /\ r.host = task[t].host
        /\ r.from = task[t].from /\ r.stray = w
    BY <1>1, <1>7, <1>a, <2>1 DEF TaskRecords
  <2>3. QED
    BY <2>2 DEF h
<1> HIDE DEF r
<1>9. /\ task' \in [Tasks -> TaskRecords] /\ task'[t] = r
      /\ \A u \in Tasks : u # t => task'[u] = task[u]
  BY <1>1, <1>4, <1>8 DEF TypeOK
<1>10. /\ SubSeq(p, 1, kept) \in Seq(Entries) /\ Len(SubSeq(p, 1, kept)) = kept
       /\ \A i \in 1..kept : SubSeq(p, 1, kept)[i] = p[i]
  BY <1>2, <1>3
<1>11. /\ pool' \in [Hosts -> Seq(Entries)] /\ Len(pool'[h]) = kept
       /\ \A i \in 1..kept : pool'[h][i] = p[i]
       /\ \A g \in Hosts : g # h => pool'[g] = pool[g]
  <2>1. pool \in [Hosts -> Seq(Entries)]
    BY <1>1 DEF TypeOK, Entries
  <2>2. QED
    BY <1>1, <1>4, <1>10, <2>1
<1>12. \A g \in Hosts : \A j \in 1..Len(pool'[g]) :
          /\ j \in 1..Len(pool[g]) /\ pool'[g][j] = pool[g][j]
          /\ g = h => j <= kept
  BY <1>2, <1>3, <1>11
<1> HIDE DEF p, h
<1>13. TypeOK'
  BY <1>1, <1>5, <1>9, <1>11 DEF TypeOK, Entries
<1>14. Staged' /\ OwnOnly'
  <2>1. /\ r.stage \in Before => r.conn = NoConn /\ ~r.stray
        /\ r.stage \in Holding => r.conn # NoConn
    BY <1>1, <1>2, <1>3, <1>7, <1>8, <1>a, BeyondFinite DEF Holding, Before, NoConn, ConnIds
  <2>2. QED
    BY <1>1, <1>8, <1>9, <2>1 DEF Inv, Staged, OwnOnly
<1>15. Counted'
  <2>1. Beyond \subseteq Beyond'
    BY <1>1, <1>9 DEF Beyond, Before
  <2>2. QED
    BY <1>5, <2>1, StillCounted
<1>16. PoolBounded'
  <2> SUFFICES ASSUME NEW g \in Hosts
               PROVE  /\ Len(pool'[g]) <= max_per_host
                      /\ \A i, j \in 1..Len(pool'[g]) :
                            i < j => pool'[g][i].age >= pool'[g][j].age
    BY <1>1 DEF PoolBounded
  <2>1. Len(pool'[g]) <= Len(pool[g]) /\ Len(pool[g]) <= max_per_host
        /\ Len(pool'[g]) \in Nat /\ Len(pool[g]) \in Nat /\ max_per_host \in Nat
    <3>1. Len(pool[g]) \in Nat /\ Len(pool[g]) <= max_per_host /\ max_per_host \in Nat
      BY <1>1, PoolType, PoolConstants DEF Inv, PoolBounded, TypeOK
    <3>2. CASE g = h
      BY <1>2, <1>3, <1>11, <3>1, <3>2 DEF p
    <3>3. CASE g # h
      BY <1>11, <3>1, <3>3
    <3>4. QED
      BY <3>2, <3>3
  <2>2. QED
    BY <1>12, <2>1 DEF Inv, PoolBounded
<1>17. /\ \A g \in Hosts : \A j \in 1..Len(pool'[g]) : pool[g][j].conn \notin D
       /\ \A u \in Tasks : u # t /\ task[u].stage \in Holding => task[u].conn \notin D
       /\ s = "write" => n \notin D
  <2>1. \A i \in kept + 1..Len(p) : i \in 1..Len(p)
    BY <1>2, <1>3
  <2>2. ASSUME NEW g \in Hosts, NEW j \in 1..Len(pool'[g])
        PROVE  pool[g][j].conn \notin D
    <3> SUFFICES ASSUME NEW i \in kept + 1..Len(p), p[i].conn = pool[g][j].conn
                 PROVE  FALSE
      BY <1>6
    <3>1. <<g, j>> # <<h, i>> /\ i \in 1..Len(pool[h]) /\ j \in 1..Len(pool[g])
      BY <1>3, <1>12, <2>1 DEF p
    <3>2. QED
      BY <1>1, <3>1 DEF Inv, Apart, p
  <2>3. ASSUME NEW u \in Tasks, u # t, task[u].stage \in Holding
        PROVE  task[u].conn \notin D
    BY <1>1, <1>6, <2>1, <2>3 DEF Inv, Apart, p
  <2>4. ASSUME s = "write"
        PROVE  n \notin D
    <3> SUFFICES ASSUME NEW i \in kept + 1..Len(p), i \notin valid, p[i].conn = n
                 PROVE  FALSE
      BY <1>6
    <3>1. /\ kept + 1 \in 1..Len(p) /\ n = p[kept + 1].conn /\ kept + 1 # i
          /\ i \in 1..Len(p)
      BY <1>3, <1>7, <2>1, <2>4
    <3>2. QED
      BY <1>1, <3>1 DEF Inv, Apart, p
  <2>5. QED
    BY <2>2, <2>3, <2>4
<1>18. ASSUME s = "write"
       PROVE  /\ kept + 1 \in 1..Len(pool[h]) /\ n = pool[h][kept + 1].conn
              /\ n \in 1..Len(conn) /\ conn'[n] = conn[n]
              /\ conn[n].client = "open" /\ conn[n].host = h
              /\ conn[n].stray \/ (conn[n].up = << >> /\ conn[n].down = << >>)
  <2>1. kept + 1 \in 1..Len(pool[h]) /\ n = pool[h][kept + 1].conn
    BY <1>3, <1>7, <1>18 DEF p
  <2>2. /\ n \in 1..Len(conn)
        /\ conn[n].client = "open" /\ conn[n].host = h
        /\ conn[n].stray \/ (conn[n].up = << >> /\ conn[n].down = << >>)
    BY <1>1, <2>1 DEF Inv, Idle
  <2>3. QED
    BY <1>5, <1>17, <1>18, <2>1, <2>2
<1>19. Held'
  <2> SUFFICES ASSUME NEW u \in Tasks, task'[u].stage \in Holding
               PROVE  /\ task'[u].conn \in 1..Len(conn')
                      /\ conn'[task'[u].conn].client = "open"
                      /\ conn'[task'[u].conn].host = task'[u].host
                      /\ Exchange(u, task'[u], conn'[task'[u].conn])
    BY DEF Held, Exchange
  <2>1. CASE u = t
    <3>1. s = "write"
      BY <1>7, <1>8, <1>9, <2>1 DEF Holding
    <3>2. Exchange(u, task'[u], conn'[n])
      BY <1>7, <1>8, <1>9, <1>18, <1>a, <2>1, <3>1 DEF Exchange
    <3>3. QED
      BY <1>5, <1>8, <1>9, <1>18, <2>1, <3>1, <3>2
  <2>2. CASE u # t
    <3>1. /\ task'[u] = task[u] /\ task[u].conn \in 1..Len(conn)
          /\ conn'[task[u].conn] = conn[task[u].conn]
          /\ task[u].conn \in 1..Len(conn')
      BY <1>5, <1>9, <1>17, <2>2 DEF Inv, Held
    <3>2. QED
      BY <3>1 DEF Inv, Held
  <2>3. QED
    BY <2>1, <2>2
<1>20. Idle'
  <2> SUFFICES ASSUME NEW g \in Hosts, NEW j \in 1..Len(pool'[g])
               PROVE  LET d == pool'[g][j].conn IN
                      /\ d \in 1..Len(conn') /\ conn'[d].client = "open"
                      /\ conn'[d].host = g
                      /\ conn'[d].stray \/ (conn'[d].up = << >> /\ conn'[d].down = << >>)
    BY DEF Idle
  <2>1. /\ pool'[g][j].conn = pool[g][j].conn /\ j \in 1..Len(pool[g])
        /\ pool[g][j].conn \in 1..Len(conn)
    BY <1>12 DEF Inv, Idle
  <2>2. conn'[pool[g][j].conn] = conn[pool[g][j].conn]
    BY <1>5, <1>17, <2>1
  <2>3. QED
    BY <1>5, <2>1, <2>2 DEF Inv, Idle
<1>21. Apart'
  <2>1. \A u \in Tasks : task'[u].stage \in Holding =>
           \/ u = t /\ s = "write" /\ task'[u].conn = n
           \/ u # t /\ task'[u] = task[u]
    BY <1>7, <1>8, <1>9 DEF Holding
  <2>2. ASSUME s = "write", NEW u \in Tasks, u # t, task[u].stage \in Holding
        PROVE  task[u].conn # n
    BY <1>1, <1>18, <2>2 DEF Inv, Apart
  <2>3. ASSUME s = "write", NEW g \in Hosts, NEW j \in 1..Len(pool'[g])
        PROVE  pool'[g][j].conn # n
    <3>1. /\ <<g, j>> # <<h, kept + 1>> /\ j \in 1..Len(pool[g])
          /\ pool'[g][j].conn = pool[g][j].conn
      BY <1>3, <1>12
    <3>2. QED
      BY <1>1, <1>18, <2>3, <3>1 DEF Inv, Apart
  <2>4. \A g, e \in Hosts : \A i \in 1..Len(pool'[g]), j \in 1..Len(pool'[e]) :
           <<g, i>> # <<e, j>> => pool'[g][i].conn # pool'[e][j].conn
    <3> SUFFICES ASSUME NEW g \in Hosts, NEW e \in Hosts,
                        NEW i \in 1..Len(pool'[g]), NEW j \in 1..Len(pool'[e]),
                        <<g, i>> # <<e, j>>
                 PROVE  pool'[g][i].conn # pool'[e][j].conn
      OBVIOUS
    <3>1. /\ pool'[g][i] = pool[g][i] /\ i \in 1..Len(pool[g])
          /\ pool'[e][j] = pool[e][j] /\ j \in 1..Len(pool[e])
      BY <1>12
    <3>2. pool[g][i].conn # pool[e][j].conn
      BY <3>1 DEF Inv, Apart
    <3>3. QED
      BY <3>1, <3>2
  <2>5. \A u, v \in Tasks :
           task'[u].stage \in Holding /\ task'[v].stage \in Holding /\ u # v
               => task'[u].conn # task'[v].conn
    BY <2>1, <2>2 DEF Inv, Apart
  <2>6. \A u \in Tasks : task'[u].stage \in Holding =>
           \A g \in Hosts : \A i \in 1..Len(pool'[g]) :
               pool'[g][i].conn # task'[u].conn
    BY <1>12, <2>1, <2>3 DEF Inv, Apart
  <2>7. QED
    BY <2>4, <2>5, <2>6 DEF Apart
<1>22. QED
  BY <1>13, <1>14, <1>15, <1>16, <1>19, <1>20, <1>21 DEF Inv

LEMMA ReturnInv ==
    ASSUME Inv, NEW t \in Tasks, return_connection(t)
    PROVE  Inv'
<1> DEFINE h == task[t].host
           c == task[t].conn
           p == pool[h]
           e == [conn |-> c, age |-> 0]
           n == Len(p) + 1
           r == [task[t] EXCEPT !.stage = "done"]
<1>1. /\ task[t].stage = "return" /\ task[t].stage \in Holding
      /\ task[t].stage \notin Ended /\ "done" \in Ended /\ "done" \in Stages
      /\ UNCHANGED <<max_per_host, lag>> /\ TypeOK
  BY DEF return_connection, Holding, Ended, Stages, Inv
<1>2. CASE Drop(t, "done") /\ UNCHANGED pool
  BY <1>1, <1>2, DropStep
<1>3. CASE /\ Len(p) < max_per_host /\ pool' = [pool EXCEPT ![h] = Append(@, e)]
           /\ Goto(t, "done") /\ UNCHANGED conn
  <2>1. /\ c \in 1..Len(conn) /\ conn[c].client = "open" /\ conn[c].host = h
        /\ Exchange(t, task[t], conn[c])
        /\ task[t] \in TaskRecords /\ task \in [Tasks -> TaskRecords] /\ c # NoConn
    BY <1>1, HeldBy
  <2>2. conn[c].stray \/ (conn[c].up = << >> /\ conn[c].down = << >>)
    BY <1>1, <2>1 DEF Exchange
  <2>3. h \in Hosts /\ c \in ConnIds
    BY <1>1, <2>1, TaskType
  <2>4. p \in Seq(Entries) /\ Len(p) \in Nat /\ pool \in [Hosts -> Seq(Entries)]
    BY <1>1, <2>3, PoolType DEF TypeOK, Entries
  <2>5. e \in Entries /\ e.conn = c /\ e.age = 0
    <3>1. 0 \in 0..MaxAge
      BY PoolConstants DEF MaxAge
    <3>2. QED
      BY <2>3, <3>1 DEF Entries
  <2> HIDE DEF e
  <2>6. /\ Append(p, e) \in Seq(Entries) /\ Len(Append(p, e)) = n
        /\ Append(p, e)[n] = e
        /\ \A i \in 1..Len(p) : Append(p, e)[i] = p[i]
    BY <2>4, <2>5
  <2>7. /\ pool' \in [Hosts -> Seq(Entries)] /\ Len(pool'[h]) = n
        /\ pool'[h][n] = e
        /\ \A i \in 1..Len(p) : pool'[h][i] = p[i]
        /\ \A g \in Hosts : g # h => pool'[g] = pool[g]
    BY <1>3, <2>3, <2>4, <2>6
  <2>8. \A g \in Hosts : \A j \in 1..Len(pool'[g]) :
           \/ g = h /\ j = n /\ pool'[g][j] = e
           \/ /\ j \in 1..Len(pool[g]) /\ pool'[g][j] = pool[g][j]
              /\ <<g, j>> # <<h, n>>
    BY <2>4, <2>7
  <2>9. r \in TaskRecords /\ r.stage = "done" /\ r.conn = c /\ r.from = task[t].from
        /\ r.stray = task[t].stray
    BY <1>1, <2>1, TaskRecord
  <2>10. /\ task' \in [Tasks -> TaskRecords] /\ task'[t] = r
         /\ \A u \in Tasks : u # t => task'[u] = task[u]
    BY <1>3, <2>1, <2>9 DEF Goto
  <2> HIDE DEF r
  <2>11. \A u \in Tasks : task'[u].stage \in Holding =>
            /\ u # t /\ task'[u] = task[u] /\ task[u].stage \in Holding
            /\ task[u].conn # c
    BY <1>1, <2>9, <2>10, StageSets DEF Inv, Apart
  <2>12. \A g \in Hosts : \A i \in 1..Len(pool[g]) : pool[g][i].conn # c
    BY <1>1 DEF Inv, Apart
  <2>13. TypeOK'
    BY <1>1, <1>3, <2>7, <2>10 DEF TypeOK, Entries
  <2> HIDE DEF h, c, p, n
  <2>14. Staged' /\ OwnOnly'
    BY <1>1, <2>9, <2>10, StageSets DEF Inv, Staged, OwnOnly
  <2>15. Counted'
    <3>1. Beyond \subseteq Beyond'
      BY <1>1, <2>9, <2>10, StageSets DEF Beyond
    <3>2. QED
      BY <1>3, <3>1, StillCounted
  <2>16. PoolBounded'
    <3> SUFFICES ASSUME NEW g \in Hosts
                 PROVE  /\ Len(pool'[g]) <= max_per_host
                        /\ \A i, j \in 1..Len(pool'[g]) :
                              i < j => pool'[g][i].age >= pool'[g][j].age
      BY <1>1 DEF PoolBounded
    <3>1. CASE g # h
      BY <2>7, <3>1 DEF Inv, PoolBounded
    <3>2. CASE g = h
      <4>1. Len(pool'[g]) <= max_per_host
        <5>1. max_per_host \in Nat
          BY <1>1, PoolConstants DEF TypeOK
        <5>2. QED
          BY <1>3, <2>4, <2>7, <3>2, <5>1 DEF n
      <4>2. ASSUME NEW i \in 1..n, NEW j \in 1..n, i < j
            PROVE  pool'[h][i].age >= pool'[h][j].age
        <5>1. i \in 1..Len(p) /\ pool'[h][i] = p[i]
          BY <2>4, <2>7, <4>2 DEF n
        <5>2. p[i].age \in 0..MaxAge /\ MaxAge \in Nat
          BY <1>1, <2>3, <5>1, PoolType, PoolConstants DEF p, h, MaxAge
        <5>3. CASE j = n
          BY <2>5, <2>7, <5>1, <5>2, <5>3
        <5>4. CASE j # n
          <6>1. j \in 1..Len(p) /\ pool'[h][j] = p[j]
            BY <2>4, <2>7, <4>2, <5>4 DEF n
          <6>2. QED
            BY <2>3, <4>2, <5>1, <6>1 DEF Inv, PoolBounded, p
        <5>5. QED
          BY <5>3, <5>4
      <4>3. QED
        BY <2>7, <3>2, <4>1, <4>2
    <3>3. QED
      BY <3>1, <3>2
  <2>17. Held'
    <3> SUFFICES ASSUME NEW u \in Tasks, task'[u].stage \in Holding
                 PROVE  /\ task'[u].conn \in 1..Len(conn')
                        /\ conn'[task'[u].conn].client = "open"
                        /\ conn'[task'[u].conn].host = task'[u].host
                        /\ Exchange(u, task'[u], conn'[task'[u].conn])
      BY DEF Held, Exchange
    <3>1. task'[u] = task[u] /\ task[u].stage \in Holding /\ conn' = conn
      BY <1>3, <2>11
    <3>2. QED
      BY <3>1 DEF Inv, Held
  <2>18. Idle'
    <3> SUFFICES ASSUME NEW g \in Hosts, NEW j \in 1..Len(pool'[g])
                 PROVE  LET d == pool'[g][j].conn IN
                        /\ d \in 1..Len(conn') /\ conn'[d].client = "open"
                        /\ conn'[d].host = g
                        /\ conn'[d].stray \/ (conn'[d].up = << >> /\ conn'[d].down = << >>)
      BY DEF Idle
    <3>1. conn' = conn
      BY <1>3
    <3>2. CASE g = h /\ j = n /\ pool'[g][j] = e
      BY <2>1, <2>2, <2>5, <3>1, <3>2
    <3>3. CASE j \in 1..Len(pool[g]) /\ pool'[g][j] = pool[g][j]
      BY <3>1, <3>3 DEF Inv, Idle
    <3>4. QED
      BY <2>8, <3>2, <3>3
  <2>19. Apart'
    <3>1. ASSUME NEW g \in Hosts, NEW f \in Hosts,
                 NEW i \in 1..Len(pool'[g]), NEW j \in 1..Len(pool'[f]),
                 <<g, i>> # <<f, j>>
          PROVE  pool'[g][i].conn # pool'[f][j].conn
      <4>1. CASE g = h /\ i = n /\ pool'[g][i] = e
        <5>1. j \in 1..Len(pool[f]) /\ pool'[f][j] = pool[f][j]
          BY <2>8, <3>1, <4>1
        <5>2. QED
          BY <2>5, <2>12, <4>1, <5>1
      <4>2. CASE i \in 1..Len(pool[g]) /\ pool'[g][i] = pool[g][i]
        <5>1. CASE j \in 1..Len(pool[f]) /\ pool'[f][j] = pool[f][j]
          <6>1. pool[g][i].conn # pool[f][j].conn
            BY <3>1, <4>2, <5>1 DEF Inv, Apart
          <6>2. QED
            BY <4>2, <5>1, <6>1
        <5>2. CASE pool'[f][j] = e
          BY <2>5, <2>12, <4>2, <5>2
        <5>3. QED
          BY <2>8, <5>1, <5>2
      <4>3. QED
        BY <2>8, <4>1, <4>2
    <3>2. ASSUME NEW u \in Tasks, task'[u].stage \in Holding,
                 NEW g \in Hosts, NEW i \in 1..Len(pool'[g])
          PROVE  pool'[g][i].conn # task'[u].conn
      <4>1. task'[u] = task[u] /\ task[u].conn # c /\ task[u].stage \in Holding
        BY <2>11, <3>2
      <4>2. CASE pool'[g][i] = e
        BY <2>5, <4>1, <4>2
      <4>3. CASE i \in 1..Len(pool[g]) /\ pool'[g][i] = pool[g][i]
        BY <4>1, <4>3 DEF Inv, Apart
      <4>4. QED
        BY <2>8, <4>2, <4>3
    <3>3. \A u, v \in Tasks :
             task'[u].stage \in Holding /\ task'[v].stage \in Holding /\ u # v
                 => task'[u].conn # task'[v].conn
      BY <2>11 DEF Inv, Apart
    <3>4. QED
      BY <3>1, <3>2, <3>3 DEF Apart
  <2>20. QED
    BY <2>13, <2>14, <2>15, <2>16, <2>17, <2>18, <2>19 DEF Inv
<1>4. QED
  BY <1>2, <1>3 DEF return_connection

-----------------------------------------------------------------------------
(* The cleanup task and time. *)

LEMMA TickInv ==
    ASSUME Inv, Tick
    PROVE  Inv'
<1> DEFINE Older(e) == [e EXCEPT !.age = IF @ < MaxAge THEN @ + 1 ELSE @]
<1>1. /\ TypeOK /\ UNCHANGED <<max_per_host, conn, task>>
      /\ pool' = [h \in Hosts |-> [i \in DOMAIN pool[h] |-> Older(pool[h][i])]]
  BY DEF Tick, Inv
<1>2. MaxAge \in Nat /\ MaxIdle \in Nat
  BY PoolConstants DEF MaxAge
<1>3. \A e \in Entries : /\ Older(e) \in Entries /\ Older(e).conn = e.conn
                         /\ Older(e).age = IF e.age < MaxAge THEN e.age + 1 ELSE e.age
  BY <1>2 DEF Entries
<1> HIDE DEF Older
<1>4. ASSUME NEW h \in Hosts
      PROVE  /\ pool'[h] \in Seq(Entries) /\ Len(pool'[h]) = Len(pool[h])
             /\ \A i \in 1..Len(pool[h]) : pool'[h][i] = Older(pool[h][i])
  <2>1. /\ pool[h] \in Seq(Entries) /\ Len(pool[h]) \in Nat
        /\ \A i \in 1..Len(pool[h]) : pool[h][i] \in Entries
    BY <1>1, <1>4, PoolType
  <2>2. DOMAIN pool[h] = 1..Len(pool[h])
    BY <2>1
  <2>3. pool'[h] = [i \in 1..Len(pool[h]) |-> Older(pool[h][i])]
    BY <1>1, <1>4, <2>2
  <2>4. pool'[h] \in [1..Len(pool[h]) -> Entries]
    BY <1>3, <2>1, <2>3
  <2>5. pool'[h] \in Seq(Entries) /\ Len(pool'[h]) = Len(pool[h])
    BY <2>1, <2>4
  <2>6. QED
    BY <2>3, <2>5
<1>5. \A h \in Hosts : \A i \in 1..Len(pool[h]) :
         /\ pool[h][i] \in Entries /\ pool[h][i].age \in 0..MaxAge
         /\ pool'[h][i].conn = pool[h][i].conn
         /\ pool'[h][i].age = IF pool[h][i].age < MaxAge THEN pool[h][i].age + 1
                              ELSE pool[h][i].age
  BY <1>1, <1>3, <1>4, PoolType
<1>6. TypeOK'
  <2>1. pool' \in [Hosts -> Seq(Entries)]
    BY <1>1, <1>4
  <2>2. lag' \in {None} \cup 0..MaxIdle
    <3>1. /\ lag # None => lag < MaxIdle
          /\ lag' = IF lag = None THEN None ELSE lag + 1
          /\ lag \in {None} \cup 0..MaxIdle
      BY <1>1 DEF Tick, TypeOK
    <3>2. CASE lag = None
      BY <3>1, <3>2
    <3>3. CASE lag # None
      BY <1>2, <3>1, <3>3
    <3>4. QED
      BY <3>2, <3>3
  <2>3. QED
    BY <1>1, <2>1, <2>2 DEF TypeOK, Entries
<1>7. Staged' /\ OwnOnly' /\ Counted' /\ Held'
  <2>1. Staged' /\ OwnOnly'
    BY <1>1 DEF Inv, Staged, OwnOnly
  <2>2. Beyond' = Beyond
    BY <1>1 DEF Beyond
  <2>3. Counted'
    BY <1>1, <2>2 DEF Inv, Counted
  <2>4. Held'
    BY <1>1 DEF Inv, Held, Exchange
  <2>5. QED
    BY <2>1, <2>3, <2>4
<1>8. Idle' /\ Apart'
  <2>0. conn' = conn /\ task' = task
    BY <1>1
  <2>1. Idle'
    <3> SUFFICES ASSUME NEW g \in Hosts, NEW j \in 1..Len(pool'[g])
                 PROVE  LET d == pool'[g][j].conn IN
                        /\ d \in 1..Len(conn) /\ conn[d].client = "open"
                        /\ conn[d].host = g
                        /\ conn[d].stray \/ (conn[d].up = << >> /\ conn[d].down = << >>)
      BY <2>0 DEF Idle
    <3>1. pool'[g][j].conn = pool[g][j].conn /\ j \in 1..Len(pool[g])
      BY <1>4, <1>5
    <3>2. QED
      BY <3>1 DEF Inv, Idle
  <2>2. ASSUME NEW g \in Hosts, NEW f \in Hosts,
               NEW i \in 1..Len(pool'[g]), NEW j \in 1..Len(pool'[f]),
               <<g, i>> # <<f, j>>
        PROVE  pool'[g][i].conn # pool'[f][j].conn
    <3>1. /\ i \in 1..Len(pool[g]) /\ j \in 1..Len(pool[f])
          /\ pool'[g][i].conn = pool[g][i].conn
          /\ pool'[f][j].conn = pool[f][j].conn
      BY <1>4, <1>5
    <3>2. pool[g][i].conn # pool[f][j].conn
      BY <2>2, <3>1 DEF Inv, Apart
    <3>3. QED
      BY <3>1, <3>2
  <2>3. ASSUME NEW u \in Tasks, task[u].stage \in Holding,
               NEW g \in Hosts, NEW i \in 1..Len(pool'[g])
        PROVE  pool'[g][i].conn # task[u].conn
    <3>1. i \in 1..Len(pool[g]) /\ pool'[g][i].conn = pool[g][i].conn
      BY <1>4, <1>5
    <3>2. QED
      BY <2>3, <3>1 DEF Inv, Apart
  <2>4. \A t, u \in Tasks :
           task[t].stage \in Holding /\ task[u].stage \in Holding /\ t # u
               => task[t].conn # task[u].conn
    BY DEF Inv, Apart
  <2>5. \A g, f \in Hosts : \A i \in 1..Len(pool'[g]), j \in 1..Len(pool'[f]) :
           <<g, i>> # <<f, j>> => pool'[g][i].conn # pool'[f][j].conn
    BY <2>2
  <2>6. Apart'
    BY <2>0, <2>3, <2>4, <2>5 DEF Apart
  <2>7. QED
    BY <2>1, <2>6
<1>9. PoolBounded'
  <2> SUFFICES ASSUME NEW g \in Hosts
               PROVE  /\ Len(pool'[g]) <= max_per_host
                      /\ \A i, j \in 1..Len(pool'[g]) :
                            i < j => pool'[g][i].age >= pool'[g][j].age
    BY <1>1 DEF PoolBounded
  <2>1. Len(pool'[g]) = Len(pool[g]) /\ Len(pool[g]) <= max_per_host
    BY <1>4 DEF Inv, PoolBounded
  <2>2. ASSUME NEW i \in 1..Len(pool[g]), NEW j \in 1..Len(pool[g]), i < j
        PROVE  pool'[g][i].age >= pool'[g][j].age
    <3>1. pool[g][i].age >= pool[g][j].age
      BY <2>2 DEF Inv, PoolBounded
    <3>2. QED
      BY <1>2, <1>5, <3>1
  <2>3. QED
    BY <2>1, <2>2
<1>10. QED
  BY <1>6, <1>7, <1>8, <1>9 DEF Inv

LEMMA CleanupTickInv ==
    ASSUME Inv, CleanupTick
    PROVE  Inv'
<1>1. UNCHANGED <<pool, max_per_host, conn, task>> /\ TypeOK /\ lag' = 0
  BY DEF CleanupTick, Inv
<1>2. TypeOK'
  <2>1. 0 \in 0..MaxIdle
    BY PoolConstants
  <2>2. QED
    BY <1>1, <2>1 DEF TypeOK
<1>3. Beyond' = Beyond
  BY <1>1 DEF Beyond
<1>4. Staged' /\ Counted' /\ Apart' /\ OwnOnly' /\ PoolBounded'
  BY <1>1, <1>3 DEF Inv, Staged, Counted, Apart, OwnOnly, PoolBounded
<1>5. Held' /\ Idle'
  BY <1>1 DEF Inv, Held, Idle, Exchange
<1>6. QED
  BY <1>2, <1>4, <1>5 DEF Inv

(* cleanup keeps some of the slots of every host, in order, and drops the  *)
(* connections of the others.                                              *)
LEMMA CleanupInv ==
    ASSUME Inv, cleanup
    PROVE  Inv'
<1> DEFINE keep(g) == {i \in 1..Len(pool[g]) : StillValid(pool[g][i], lag)}
           F(g, j) == Nth(keep(g), j)
           D == {c \in DOMAIN conn :
                    \E h \in Hosts : In(pool[h], c) /\ ~In(pool'[h], c)}
<1>1. /\ TypeOK /\ UNCHANGED <<max_per_host, task>> /\ lag' = None
      /\ pool' = [h \in Hosts |-> RetainAt(pool[h], keep(h))]
      /\ conn' = [c \in DOMAIN conn |->
                    IF c \in D THEN [conn[c] EXCEPT !.client = "dropped"]
                    ELSE conn[c]]
  BY DEF cleanup, Inv, Retained
<1>2. /\ conn' \in Seq(Conns) /\ Len(conn') = Len(conn) /\ Len(conn) \in Nat
      /\ \A c \in 1..Len(conn) : c \notin D => conn'[c] = conn[c]
  BY <1>1, DropSome, ConnsLen
<1>3. \A c \in D : \E h \in Hosts : In(pool[h], c) /\ ~In(pool'[h], c)
  OBVIOUS
<1> HIDE DEF D
<1>4. ASSUME NEW g \in Hosts
      PROVE  /\ pool'[g] \in Seq(Entries)
             /\ Len(pool'[g]) \in Nat /\ Len(pool'[g]) <= Len(pool[g])
             /\ \A j \in 1..Len(pool'[g]) :
                   F(g, j) \in 1..Len(pool[g]) /\ pool'[g][j] = pool[g][F(g, j)]
             /\ \A i, j \in 1..Len(pool'[g]) : i < j => F(g, i) < F(g, j)
  <2>1. /\ pool[g] \in Seq(Entries) /\ Len(pool[g]) \in Nat
        /\ keep(g) \in SUBSET (1..Len(pool[g]))
    BY <1>1, <1>4, PoolType
  <2>2. pool'[g] = RetainAt(pool[g], keep(g))
    BY <1>1, <1>4
  <2> HIDE DEF keep
  <2>3. /\ pool'[g] \in Seq(Entries) /\ Len(pool'[g]) = Cardinality(keep(g))
        /\ \A j \in 1..Cardinality(keep(g)) : pool'[g][j] = pool[g][F(g, j)]
    BY <2>1, <2>2, RetainType
  <2>4. /\ Cardinality(keep(g)) \in Nat /\ Cardinality(keep(g)) <= Len(pool[g])
        /\ \A j \in 1..Cardinality(keep(g)) : F(g, j) \in keep(g)
        /\ \A i, j \in 1..Cardinality(keep(g)) : i < j => F(g, i) < F(g, j)
    BY <2>1, NthPosition
  <2>5. QED
    BY <2>1, <2>3, <2>4
<1> HIDE DEF F, keep
<1>5. TypeOK'
  <2>1. pool' \in [Hosts -> Seq(Entries)]
    BY <1>1, <1>4
  <2>2. QED
    BY <1>1, <1>2, <2>1 DEF TypeOK, Entries
<1>6. Staged' /\ OwnOnly' /\ Counted'
  <2>1. Staged' /\ OwnOnly'
    BY <1>1 DEF Inv, Staged, OwnOnly
  <2>2. Beyond' = Beyond
    BY <1>1 DEF Beyond
  <2>3. QED
    BY <1>2, <2>1, <2>2, StillCounted
<1>7. ASSUME NEW g \in Hosts, NEW f \in Hosts,
             NEW i \in 1..Len(pool'[g]), NEW j \in 1..Len(pool'[f]),
             <<g, i>> # <<f, j>>
      PROVE  pool'[g][i].conn # pool'[f][j].conn
  <2>1. /\ F(g, i) \in 1..Len(pool[g]) /\ pool'[g][i] = pool[g][F(g, i)]
        /\ F(f, j) \in 1..Len(pool[f]) /\ pool'[f][j] = pool[f][F(f, j)]
    BY <1>4
  <2>2. <<g, F(g, i)>> # <<f, F(f, j)>>
    <3>1. CASE g # f
      BY <3>1
    <3>2. CASE g = f
      <4>1. /\ i < j \/ j < i
            /\ i \in 1..Len(pool'[g]) /\ j \in 1..Len(pool'[g])
        BY <1>4, <1>7, <3>2
      <4>2. F(g, i) < F(g, j) \/ F(g, j) < F(g, i)
        BY <1>4, <3>2, <4>1
      <4>3. QED
        BY <2>1, <3>2, <4>2
    <3>3. QED
      BY <3>1, <3>2
  <2>3. pool[g][F(g, i)].conn # pool[f][F(f, j)].conn
    BY <2>1, <2>2 DEF Inv, Apart
  <2>4. QED
    BY <2>1, <2>3
<1>8. ASSUME NEW u \in Tasks, task[u].stage \in Holding
      PROVE  /\ task[u].conn \notin D
             /\ \A g \in Hosts : \A i \in 1..Len(pool'[g]) :
                   pool'[g][i].conn # task[u].conn
  <2>1. \A g \in Hosts : \A i \in 1..Len(pool[g]) : pool[g][i].conn # task[u].conn
    BY <1>8 DEF Inv, Apart
  <2>2. QED
    BY <1>3, <1>4, <2>1 DEF In
<1>9. Apart'
  <2>1. \A g, f \in Hosts : \A i \in 1..Len(pool'[g]), j \in 1..Len(pool'[f]) :
           <<g, i>> # <<f, j>> => pool'[g][i].conn # pool'[f][j].conn
    BY <1>7
  <2>2. \A t, u \in Tasks :
           task[t].stage \in Holding /\ task[u].stage \in Holding /\ t # u
               => task[t].conn # task[u].conn
    BY DEF Inv, Apart
  <2>3. QED
    BY <1>1, <1>8, <2>1, <2>2 DEF Apart
<1>10. Held'
  <2> SUFFICES ASSUME NEW u \in Tasks, task'[u].stage \in Holding
               PROVE  /\ task'[u].conn \in 1..Len(conn')
                      /\ conn'[task'[u].conn].client = "open"
                      /\ conn'[task'[u].conn].host = task'[u].host
                      /\ Exchange(u, task'[u], conn'[task'[u].conn])
    BY DEF Held, Exchange
  <2>1. /\ task' = task /\ task[u].conn \in 1..Len(conn)
        /\ conn'[task[u].conn] = conn[task[u].conn]
    BY <1>1, <1>2, <1>8 DEF Inv, Held
  <2>2. QED
    BY <1>2, <2>1 DEF Inv, Held
<1>11. Idle'
  <2> SUFFICES ASSUME NEW g \in Hosts, NEW j \in 1..Len(pool'[g])
               PROVE  LET d == pool'[g][j].conn IN
                      /\ d \in 1..Len(conn') /\ conn'[d].client = "open"
                      /\ conn'[d].host = g
                      /\ conn'[d].stray \/ (conn'[d].up = << >> /\ conn'[d].down = << >>)
    BY DEF Idle
  <2> DEFINE d == pool'[g][j].conn
             m == F(g, j)
  <2>1. m \in 1..Len(pool[g]) /\ d = pool[g][m].conn
    BY <1>4
  <2>2. /\ d \in 1..Len(conn) /\ conn[d].client = "open" /\ conn[d].host = g
        /\ conn[d].stray \/ (conn[d].up = << >> /\ conn[d].down = << >>)
    BY <2>1 DEF Inv, Idle
  <2>3. d \notin D
    <3> SUFFICES ASSUME NEW h \in Hosts, In(pool[h], d), ~In(pool'[h], d)
                 PROVE  FALSE
      BY <1>3
    <3>1. PICK i \in 1..Len(pool[h]) : pool[h][i].conn = d
      BY DEF In
    <3>2. h = g
      BY <2>1, <3>1 DEF Inv, Apart
    <3>3. QED
      BY <3>2 DEF In
  <2> HIDE DEF d
  <2>4. conn'[d] = conn[d]
    BY <1>2, <2>2, <2>3
  <2>5. /\ d \in 1..Len(conn') /\ conn'[d].client = "open" /\ conn'[d].host = g
        /\ conn'[d].stray \/ (conn'[d].up = << >> /\ conn'[d].down = << >>)
    BY <1>2, <2>2, <2>4
  <2>6. QED
    BY <2>5 DEF d
<1>12. PoolBounded'
  <2> SUFFICES ASSUME NEW g \in Hosts
               PROVE  /\ Len(pool'[g]) <= max_per_host
                      /\ \A i, j \in 1..Len(pool'[g]) :
                            i < j => pool'[g][i].age >= pool'[g][j].age
    BY <1>1 DEF PoolBounded
  <2>1. Len(pool[g]) <= max_per_host /\ max_per_host \in Nat /\ Len(pool[g]) \in Nat
    BY <1>1, PoolType, PoolConstants DEF Inv, PoolBounded, TypeOK
  <2>2. ASSUME NEW i \in 1..Len(pool'[g]), NEW j \in 1..Len(pool'[g]), i < j
        PROVE  pool'[g][i].age >= pool'[g][j].age
    <3>1. /\ F(g, i) \in 1..Len(pool[g]) /\ pool'[g][i] = pool[g][F(g, i)]
          /\ F(g, j) \in 1..Len(pool[g]) /\ pool'[g][j] = pool[g][F(g, j)]
          /\ F(g, i) < F(g, j)
      BY <1>4, <2>2
    <3>2. QED
      BY <3>1 DEF Inv, PoolBounded
  <2>3. QED
    BY <1>4, <2>1, <2>2
<1>13. QED
  BY <1>5, <1>6, <1>9, <1>10, <1>11, <1>12 DEF Inv

-----------------------------------------------------------------------------
(* The server. *)

LEMMA ServerClosesInv ==
    ASSUME Inv, NEW c \in DOMAIN conn, ServerCloses(c)
    PROVE  Inv'
<1> DEFINE k == [conn[c] EXCEPT !.server_open = FALSE]
<1>1. /\ c \in 1..Len(conn) /\ conn[c] \in Conns /\ conn[c].server_open
      /\ conn' = [conn EXCEPT ![c] = k] /\ UNCHANGED <<pool, max_per_host, task, lag>>
  BY ConnType, ConnsLen DEF ServerCloses, Inv
<1>2. /\ k \in Conns /\ k.client = conn[c].client /\ k.host = conn[c].host
      /\ k.up = conn[c].up /\ k.down = conn[c].down /\ ~k.server_open
      /\ k.stray = conn[c].stray
  BY <1>1 DEF Conns
<1> HIDE DEF k
<1>3. ASSUME NEW t \in Tasks, task[t].stage \in Holding, task[t].conn = c
      PROVE  Exchange(t, task[t], k)
  <2>1. Exchange(t, task[t], conn[c])
    BY <1>3, HeldBy
  <2>2. QED
    BY <1>2, <2>1 DEF Exchange
<1>4. QED
  BY <1>1, <1>2, <1>3, ServerStep

(* The server answers the request of whoever holds the connection, if      *)
(* somebody does; nothing is left of it in the upward direction.           *)
LEMMA ServerAnswersInv ==
    ASSUME Inv, NEW c \in DOMAIN conn, ServerAnswers(c)
    PROVE  Inv'
<1> DEFINE up == conn[c].up
           q == Head(up)
<1>1. /\ c \in 1..Len(conn) /\ conn[c] \in Conns /\ conn[c].server_open
      /\ Complete(up) /\ UNCHANGED <<pool, max_per_host, task, lag>>
  BY ConnType, ConnsLen DEF ServerAnswers, Inv
<1>2. PICK f \in Framings :
         conn' = [conn EXCEPT
                     ![c].up = SubSeq(@, Head(@).len + 2, Len(@)),
                     ![c].down = @ \o Response(Head(conn[c].up).req, f),
                     ![c].server_open = f # "truncated",
                     ![c].stray = @ \/ f = "chunked"]
  BY DEF ServerAnswers
<1>3. f \in Layouts
  BY PoolConstants
<1>4. /\ up \in Seq(Items) /\ conn[c].down \in Seq(Chunks) /\ up # << >>
      /\ Len(up) > q.len
  BY <1>1, ConnRecord DEF Complete
<1>5. q \in Items
  BY <1>4
<1>6. q.req \in Tasks /\ q.len \in 0..1
  BY <1>5 DEF Items
<1>7. Response(q.req, f) \in Unread(q.req)
  BY <1>3 DEF Unread
<1> DEFINE u == SubSeq(up, q.len + 2, Len(up))
           d == conn[c].down \o Response(q.req, f)
           k == [conn[c] EXCEPT !.up = u, !.down = d, !.server_open = f # "truncated",
                                !.stray = @ \/ f = "chunked"]
<1>8. u \in Seq(Items)
  BY <1>4, <1>6
<1>9. d \in Seq(Chunks)
  <2>1. Response(q.req, f) \in Seq(Chunks)
    BY <1>6, <1>7, UnreadHead
  <2>2. QED
    BY <1>4, <2>1
<1>10. conn' = [conn EXCEPT ![c] = k]
  BY <1>2
<1> HIDE DEF u, d, q
<1>11. /\ k \in Conns /\ k.client = conn[c].client /\ k.host = conn[c].host
       /\ k.up = u /\ k.down = d
       /\ k.stray <=> (conn[c].stray \/ f = "chunked")
  BY <1>1, <1>8, <1>9 DEF Conns, Items
<1> HIDE DEF k
<1>12. ASSUME NEW t \in Tasks, task[t].stage \in Holding, task[t].conn = c
       PROVE  Exchange(t, task[t], k)
  <2>1. Exchange(t, task[t], conn[c])
    BY <1>12, HeldBy
  <2>a. CASE task[t].stray
    BY <1>11, <2>1, <2>a DEF Exchange
  <2>b. SUFFICES ASSUME ~task[t].stray PROVE Exchange(t, task[t], k)
    BY <2>a
  <2>d. /\ task[t].stage \in {"write_body", "head"}
        /\ task[t].stage = "write_body" => up = <<Piece(t, "head", 1)>>
        /\ task[t].stage = "head" => conn[c].down = << >>
    BY <1>4, <1>12, <2>1, <2>b DEF Exchange, Holding
  <2>c. Response(t, f) = Response(t, "chunked") => f = "chunked"
    BY <1>3, OnlyChunked
  <2>2. /\ \A n \in 0..1 : Piece(t, "head", n) \in Items /\ Piece(t, "head", n).len = n
                           /\ Piece(t, "head", n).req = t
        /\ Piece(t, "body", 0) \in Items
    BY PieceType
  <2>3. CASE \E n \in 0..1 : up = <<Piece(t, "head", n)>>
    <3>1. PICK n \in 0..1 : up = <<Piece(t, "head", n)>>
      BY <2>3
    <3>2. /\ q = Piece(t, "head", n) /\ Len(up) = 1
      BY <2>2, <3>1, ShortSeqs DEF q
    <3>3. q.req = t /\ q.len = n /\ n = 0
      BY <1>4, <2>2, <3>2
    <3>4. u = << >>
      BY <1>4, <3>2, <3>3 DEF u
    <3>5. task[t].stage = "head" /\ conn[c].down = << >>
      <4>1. up # <<Piece(t, "head", 1)>>
        BY <2>2, <3>3, ShortSeqs DEF q
      <4>2. QED
        BY <2>d, <4>1
    <3>6. d = Response(t, f)
      BY <1>7, <1>9, <3>3, <3>5 DEF d
    <3>7. QED
      BY <1>7, <1>11, <2>b, <2>c, <3>3, <3>4, <3>5, <3>6 DEF Exchange
  <2>4. CASE up = <<Piece(t, "head", 1), Piece(t, "body", 0)>>
    <3>1. q = Piece(t, "head", 1) /\ Len(up) = 2
      BY <2>2, <2>4, ShortSeqs DEF q
    <3>2. q.req = t /\ q.len = 1
      BY <2>2, <3>1
    <3>3. u = << >>
      BY <1>4, <3>1, <3>2 DEF u
    <3>4. task[t].stage = "head" /\ conn[c].down = << >>
      <4>1. up # <<Piece(t, "head", 1)>>
        BY <2>2, <3>1, ShortSeqs
      <4>2. QED
        BY <2>d, <4>1
    <3>5. d = Response(t, f)
      BY <1>7, <1>9, <3>2, <3>4 DEF d
    <3>6. QED
      BY <1>7, <1>11, <2>b, <2>c, <3>2, <3>3, <3>4, <3>5 DEF Exchange
  <2>5. QED
    BY <1>4, <1>11, <1>12, <2>1, <2>3, <2>4, <2>b DEF Exchange, Holding
<1>13. QED
  BY <1>1, <1>4, <1>10, <1>11, <1>12, ServerStep

-----------------------------------------------------------------------------
(* The theorems. *)

LEMMA InitInv ==
    ASSUME Init
    PROVE  Inv
<1>1. PICK work \in Workloads :
         task = [t \in Tasks |->
                    [stage |-> "new", client |-> work[t].client,
                     body |-> work[t].body, host |-> work[t].host,
                     conn |-> NoConn, need |-> 0, from |-> {}, cut |-> FALSE,
                     stray |-> FALSE]]
  BY DEF Init
<1>2. \A t \in Tasks : work[t] \in Request
  BY PoolConstants
<1>3. \A t \in Tasks : /\ work[t].client \in {"direct", "pooled"}
                       /\ work[t].body \in BOOLEAN /\ work[t].host \in Hosts
  BY <1>2 DEF Request
<1>4. task \in [Tasks -> TaskRecords]
  <2>1. "new" \in Stages /\ {} \in SUBSET Tasks /\ NoConn \in ConnIds \cup {NoConn}
        /\ 0 \in 0..1
    BY DEF Stages
  <2>2. QED
    BY <1>1, <1>3, <2>1 DEF TaskRecords
<1>5. \A t \in Tasks : /\ task[t].stage = "new" /\ task[t].conn = NoConn
                       /\ task[t].from = {} /\ ~task[t].stray
  BY <1>1
<1>6. conn = << >> /\ pool = [h \in Hosts |-> << >>] /\ max_per_host \in Limits
      /\ lag = None
  BY DEF Init
<1>7. Len(conn) = 0 /\ conn \in Seq(Conns)
  BY <1>6
<1>8. \A h \in Hosts : pool[h] = << >> /\ Len(pool[h]) = 0
  BY <1>6
<1>9. TypeOK
  <2>1. pool \in [Hosts -> Seq(Entries)]
    BY <1>6
  <2>2. QED
    BY <1>4, <1>6, <1>7, <2>1 DEF TypeOK, Entries
<1>10. Staged /\ OwnOnly
  BY <1>5 DEF Staged, OwnOnly, Holding
<1>11. Counted
  BY <1>7, BeyondFinite DEF Counted
<1>12. Held /\ Apart /\ Idle
  <2>1. \A t \in Tasks : task[t].stage \notin Holding
    BY <1>5 DEF Holding
  <2>2. \A h \in Hosts : 1..Len(pool[h]) = {}
    BY <1>8
  <2>3. QED
    BY <2>1, <2>2 DEF Held, Apart, Idle
<1>13. PoolBounded
  BY <1>6, <1>8, PoolConstants DEF PoolBounded
<1>14. QED
  BY <1>9, <1>10, <1>11, <1>12, <1>13 DEF Inv

LEMMA NextInv ==
    ASSUME Inv, [Next]_vars
    PROVE  Inv'
<1>1. ASSUME NEW t \in Tasks, Step(t)
      PROVE  Inv'
  BY <1>1, StartInv, GetInv, ConnectInv, WriteRequestInv, WriteBodyInv,
     ReadHeadInv, ReadBodyInv, ReturnInv DEF Step
<1>2. ASSUME NEW t \in Tasks, Cancel(t)
      PROVE  Inv'
  BY <1>2, CancelInv
<1>3. CASE CleanupTick \/ cleanup \/ Tick
  BY <1>3, CleanupTickInv, CleanupInv, TickInv
<1>4. ASSUME NEW c \in DOMAIN conn, ServerAnswers(c) \/ ServerCloses(c)
      PROVE  Inv'
  BY <1>4, ServerAnswersInv, ServerClosesInv
<1>5. CASE UNCHANGED vars
  <2>1. UNCHANGED <<pool, max_per_host, conn, task, lag>>
    BY <1>5 DEF vars
  <2>2. Beyond' = Beyond
    BY <2>1 DEF Beyond
  <2>3. TypeOK' /\ Staged' /\ Counted' /\ Apart' /\ OwnOnly' /\ PoolBounded'
    <3>1. TypeOK' /\ Counted'
      BY <2>1, <2>2 DEF Inv, TypeOK, Counted
    <3>2. Staged' /\ Apart' /\ OwnOnly' /\ PoolBounded'
      BY <2>1 DEF Inv, Staged, Apart, OwnOnly, PoolBounded
    <3>3. QED
      BY <3>1, <3>2
  <2>4. Held' /\ Idle'
    BY <2>1 DEF Inv, Held, Idle, Exchange
  <2>5. QED
    BY <2>3, <2>4 DEF Inv
<1>6. QED
  BY <1>1, <1>2, <1>3, <1>4, <1>5 DEF Next

(* The invariant holds in every reachable state of the pooled and direct   *)
(* clients, their pool, the cleanup task and the server, TypeOK included.  *)
THEOREM Safety == Spec => []Inv
<1>1. Init => Inv
  BY InitInv
<1>2. Inv /\ [Next]_vars => Inv'
  BY NextInv
<1>3. QED
  BY <1>1, <1>2, PTL DEF Spec

LEMMA PooledSlots ==
    \A s \in Pooled :
        s[1] \in Hosts /\ s[2] \in 1..Len(pool[s[1]]) /\ s = <<s[1], s[2]>>
  BY DEF Pooled

LEMMA InvExclusive ==
    ASSUME Inv
    PROVE  ExclusiveUse
<1>1. \A t \in Active : t \in Tasks /\ task[t].stage \in Holding
  <2> SUFFICES ASSUME NEW t \in Active
               PROVE  t \in Tasks /\ task[t].stage \in Holding
    OBVIOUS
  <2>1. t \in Tasks /\ task[t].conn # NoConn /\ task[t].stage \notin Ended
    BY DEF Active
  <2>2. task[t].stage \in Stages
    BY <2>1, TaskType DEF Inv
  <2>3. QED
    BY <2>1, <2>2, StageSets DEF Inv, Staged
<1>2. \A s \in Pooled : s[1] \in Hosts /\ s[2] \in 1..Len(pool[s[1]]) /\ s = <<s[1], s[2]>>
  BY PooledSlots
<1>3. \A t, u \in Active : t # u => task[t].conn # task[u].conn
  BY <1>1 DEF Inv, Apart
<1>4. \A s, r \in Pooled : s # r => pool[s[1]][s[2]].conn # pool[r[1]][r[2]].conn
  BY <1>2 DEF Inv, Apart
<1>5. \A t \in Active, s \in Pooled : task[t].conn # pool[s[1]][s[2]].conn
  BY <1>1, <1>2 DEF Inv, Apart
<1>6. \A t \in Active : conn[task[t].conn].host = task[t].host
  BY <1>1 DEF Inv, Held
<1>7. \A s \in Pooled : /\ conn[pool[s[1]][s[2]].conn].host = s[1]
                        /\ conn[pool[s[1]][s[2]].conn].client # "dropped"
  BY <1>2 DEF Inv, Idle
<1>8. QED
  BY <1>3, <1>4, <1>5, <1>6, <1>7 DEF ExclusiveUse

(* Every connection of the HTTP clients is in the hands of one request or  *)
(* in one slot of the pool of its host, and the pooled ones are open.      *)
THEOREM ConnectionsExclusive == Spec => []ExclusiveUse
  BY Safety, InvExclusive, PTL

(* return_connection, get_connection and cleanup keep at most max_per_host *)
(* connections for a host, the newest on top.                              *)
THEOREM PoolStaysBounded == Spec => []PoolBounded
<1>1. Inv => PoolBounded
  BY DEF Inv
<1>2. QED
  BY <1>1, Safety, PTL

LEMMA InvOwnResponse ==
    ASSUME Inv
    PROVE  OwnResponse
<1>1. \A s \in Pooled : s[1] \in Hosts /\ s[2] \in 1..Len(pool[s[1]])
  BY PooledSlots
<1>2. \A s \in Pooled : LET k == conn[pool[s[1]][s[2]].conn] IN
         ~k.stray => k.down = << >> /\ k.up = << >>
  BY <1>1 DEF Inv, Idle
<1>3. QED
  BY <1>2 DEF OwnResponse, Inv, OwnOnly

(* Whatever the server's layouts and whoever used the connection before, a *)
(* request reads the response to itself, and a pooled connection is clean, *)
(* unless a response on it had a body without a Content-Length.            *)
THEOREM ResponsesOwn == Spec => []OwnResponse
  BY Safety, InvOwnResponse, PTL
=============================================================================
