------------------------- MODULE RecordLayerProofs -------------------------
(* Machine-checked proofs about RecordLayer, for every value of its        *)
(* constants.                                                              *)
EXTENDS RecordLayer, SequenceTheorems, FiniteSetTheorems, TLAPS

-----------------------------------------------------------------------------
(* The inductive invariant: NonceUnique follows because every record put   *)
(* on the transport lies strictly behind the writer's key and sequence     *)
(* number, in lexicographic order; the nonce guard stays silent because    *)
(* the cache only holds numbers below the current one.                     *)

Ahead(s, epoch, seq) ==
    s.write_epoch > epoch \/ (s.write_epoch = epoch /\ s.write_seq > seq)

RecordsBehind ==
    \A p \in Peers : \A i \in 1..Len(log[p]) :
        Ahead(st[p], log[p][i].epoch, log[p][i].seq)

(* What check_and_record_nonce keeps of the cache of one stream. *)
CacheBelow(s) ==
    LET queue == s.nonce_eviction_queue
    IN  /\ \A n \in s.used_write_nonces : n < s.write_seq
        /\ s.used_write_nonces = {queue[i] : i \in 1..Len(queue)}
        /\ \A i, j \in 1..Len(queue) : i < j => queue[i] < queue[j]
        /\ Len(queue) <= MaxNonceCache + 1

CachesBelow == \A p \in Peers : CacheBelow(st[p])

Inv ==
    /\ TypeOK
    /\ RecordsBehind
    /\ NonceUnique
    /\ CachesBelow
    /\ NonceGuardSilent

(* All that any action does to the writing half of a stream: a number may  *)
(* be used up, and at most one record goes out, under the old number.      *)
WriterStep(p) ==
    /\ st' = [st EXCEPT ![p] = st'[p]]
    /\ CacheBelow(st'[p])
    /\ st'[p].write_err # "NonceReuse"
    /\ \/ /\ log' = log
          /\ \A e, n \in Nat : Ahead(st[p], e, n) => Ahead(st'[p], e, n)
       \/ \E r \in Records :
             /\ log' = [log EXCEPT ![p] = Append(@, r)]
             /\ r.epoch = st[p].write_epoch /\ r.seq = st[p].write_seq
             /\ Ahead(st'[p], r.epoch, r.seq)

-----------------------------------------------------------------------------
(* Lemmas on the functions of one stream value. *)

(* Eviction only shortens the queue and shrinks the set. *)
LEMMA EvictedLemma ==
    ASSUME NEW s \in Streams
    PROVE  /\ Evicted(s) \in Streams
           /\ Evicted(s).used_write_nonces \subseteq s.used_write_nonces
           /\ Evicted(s).write_epoch = s.write_epoch
           /\ Evicted(s).write_seq = s.write_seq
           /\ Evicted(s).traffic_secrets = s.traffic_secrets
           /\ Evicted(s).stage = s.stage
           /\ Evicted(s).write_err = s.write_err
           /\ Evicted(s).read_epoch = s.read_epoch
           /\ Evicted(s).read_seq = s.read_seq
<1> DEFINE queue == s.nonce_eviction_queue
           n == IF EvictBatch < Len(queue) THEN EvictBatch ELSE Len(queue)
<1>1. SubSeq(queue, n + 1, Len(queue)) \in Seq(Nat)
  BY RecordLayerConstants DEF Streams
<1>2. s.used_write_nonces \ {queue[i] : i \in 1..n} \in SUBSET Nat
  BY DEF Streams
<1>3. QED
  BY <1>1, <1>2 DEF Evicted, Streams

(* The queue names every nonce of the set once, so its length is the size  *)
(* of the set.                                                             *)
LEMMA CacheSize ==
    ASSUME NEW s \in Streams, CacheBelow(s)
    PROVE  Cardinality(s.used_write_nonces) = Len(s.nonce_eviction_queue)
<1> DEFINE queue == s.nonce_eviction_queue
           used == s.used_write_nonces
<1>1. /\ queue \in Seq(Nat) /\ Len(queue) \in Nat
      /\ \A i \in 1..Len(queue) : queue[i] \in Nat
  BY DEF Streams
<1>2. /\ used = {queue[i] : i \in 1..Len(queue)}
      /\ \A i, j \in 1..Len(queue) : i < j => queue[i] < queue[j]
  BY DEF CacheBelow
<1> DEFINE f == [i \in 1..Len(queue) |-> queue[i]]
<1> HIDE DEF queue, used
<1>3. \A i, j \in 1..Len(queue) : queue[i] = queue[j] => i = j
  <2>1. SUFFICES ASSUME NEW i \in 1..Len(queue), NEW j \in 1..Len(queue),
                        queue[i] = queue[j], i # j
                 PROVE  FALSE
    OBVIOUS
  <2>2. i < j \/ j < i
    BY <1>1, <2>1
  <2>3. QED
    BY <1>1, <1>2, <2>1, <2>2
<1>4. f \in Bijection(1..Len(queue), used)
  <2>1. f \in [1..Len(queue) -> used]
    BY <1>2
  <2>2. \A i, j \in 1..Len(queue) : f[i] = f[j] => i = j
    BY <1>3
  <2>3. \A t \in used : \E i \in 1..Len(queue) : f[i] = t
    BY <1>2
  <2> HIDE DEF f
  <2>4. f \in Injection(1..Len(queue), used)
    BY <2>1, <2>2 DEF Injection, IsInjective
  <2>5. f \in Surjection(1..Len(queue), used)
    BY <2>1, <2>3 DEF Surjection
  <2>6. QED
    BY <2>4, <2>5 DEF Bijection
<1>5. ExistsBijection(1..Len(queue), used)
  BY <1>4 DEF ExistsBijection
<1>6. QED
  BY <1>1, <1>5, FS_CountingElements DEF queue, used

(* Eviction keeps the set and the queue together, and makes room. *)
LEMMA EvictedCache ==
    ASSUME NEW s \in Streams, CacheBelow(s)
    PROVE  /\ CacheBelow(Evicted(s))
           /\ Len(Evicted(s).nonce_eviction_queue) <= MaxNonceCache
<1> DEFINE queue == s.nonce_eviction_queue
           used == s.used_write_nonces
           e == Evicted(s)
           n == IF EvictBatch < Len(queue) THEN EvictBatch ELSE Len(queue)
           rest == SubSeq(queue, n + 1, Len(queue))
<1>1. /\ queue \in Seq(Nat) /\ Len(queue) \in Nat
      /\ \A i \in 1..Len(queue) : queue[i] \in Nat
      /\ n \in 0..Len(queue)
  BY RecordLayerConstants DEF Streams
<1>2. /\ used = {queue[i] : i \in 1..Len(queue)}
      /\ \A i, j \in 1..Len(queue) : i < j => queue[i] < queue[j]
      /\ Len(queue) <= MaxNonceCache + 1
      /\ \A k \in used : k < s.write_seq
  BY DEF CacheBelow
<1>3. Cardinality(used) = Len(queue)
  BY CacheSize
<1>4. CASE Len(queue) <= MaxNonceCache
  <2>1. ~(Cardinality(used) > MaxNonceCache)
    BY <1>1, <1>3, <1>4, RecordLayerConstants
  <2>2. e = s
    BY <2>1 DEF Evicted
  <2>3. QED
    BY <1>4, <2>2
<1>5. CASE Len(queue) > MaxNonceCache
  <2>1. e = [s EXCEPT !.used_write_nonces = used \ {queue[i] : i \in 1..n},
                      !.nonce_eviction_queue = rest]
    BY <1>3, <1>5 DEF Evicted
  <2>2. /\ e.used_write_nonces = used \ {queue[i] : i \in 1..n}
        /\ e.nonce_eviction_queue = rest /\ e.write_seq = s.write_seq
    BY <2>1 DEF Streams
  <2> HIDE DEF e, n
  <2>3. /\ Len(rest) = Len(queue) - n
        /\ \A i \in 1..(Len(queue) - n) : rest[i] = queue[i + n]
    BY <1>1
  <2>4. n >= 1
    BY <1>1, <1>5, RecordLayerConstants DEF n
  <2> HIDE DEF rest, queue, used
  <2>5. Len(rest) <= MaxNonceCache
    BY <1>1, <1>2, <2>3, <2>4, RecordLayerConstants
  <2>6. \A i, j \in 1..Len(rest) : i < j => rest[i] < rest[j]
    <3>1. SUFFICES ASSUME NEW i \in 1..Len(rest), NEW j \in 1..Len(rest), i < j
                   PROVE  rest[i] < rest[j]
      OBVIOUS
    <3>2. /\ i + n \in 1..Len(queue) /\ j + n \in 1..Len(queue)
          /\ i + n < j + n
      BY <1>1, <2>3, <3>1
    <3>3. rest[i] = queue[i + n] /\ rest[j] = queue[j + n]
      BY <1>1, <2>3, <3>1
    <3>4. QED
      BY <1>2, <3>2, <3>3
  <2>7. used \ {queue[i] : i \in 1..n} = {rest[i] : i \in 1..Len(rest)}
    <3>1. ASSUME NEW k \in used \ {queue[i] : i \in 1..n}
          PROVE  k \in {rest[i] : i \in 1..Len(rest)}
      <4>1. PICK i \in 1..Len(queue) : k = queue[i]
        BY <1>2, <3>1
      <4>2. i \notin 1..n
        BY <3>1, <4>1
      <4>3. i - n \in 1..Len(rest) /\ rest[i - n] = queue[i]
        BY <1>1, <2>3, <4>1, <4>2
      <4>4. QED
        BY <4>1, <4>3
    <3>2. ASSUME NEW i \in 1..Len(rest)
          PROVE  rest[i] \in used \ {queue[j] : j \in 1..n}
      <4>1. i + n \in 1..Len(queue) /\ rest[i] = queue[i + n]
        BY <1>1, <2>3, <3>2
      <4>2. \A j \in 1..n : queue[j] < queue[i + n]
        <5>1. TAKE j \in 1..n
        <5>2. j \in 1..Len(queue) /\ j < i + n
          BY <1>1, <2>3, <3>2
        <5>3. QED
          BY <1>2, <4>1, <5>2
      <4>3. \A j \in 1..n : queue[j] \in Nat
        BY <1>1
      <4>4. queue[i + n] \notin {queue[j] : j \in 1..n}
        BY <1>1, <4>1, <4>2, <4>3
      <4>5. QED
        BY <1>2, <4>1, <4>4
    <3>3. QED
      BY <3>1, <3>2
  <2>8. \A k \in e.used_write_nonces : k < e.write_seq
    BY <1>2, <2>2
  <2>9. Len(rest) \in Nat /\ Len(rest) <= MaxNonceCache + 1
    BY <1>1, <2>3, <2>5, RecordLayerConstants
  <2>10. CacheBelow(e)
    BY <2>2, <2>6, <2>7, <2>8, <2>9 DEF CacheBelow
  <2>11. QED
    BY <2>2, <2>5, <2>10 DEF e
<1>6. QED
  BY <1>1, <1>4, <1>5, RecordLayerConstants

(* A number that is not below the cache's own is remembered beside them. *)
LEMMA RecordedCache ==
    ASSUME NEW e \in Streams, CacheBelow(e), NEW t,
           Len(e.nonce_eviction_queue) <= MaxNonceCache,
           t.write_seq = e.write_seq + 1,
           t.used_write_nonces = e.used_write_nonces \cup {e.write_seq},
           t.nonce_eviction_queue = Append(e.nonce_eviction_queue, e.write_seq)
    PROVE  CacheBelow(t)
<1> DEFINE queue == e.nonce_eviction_queue
           k == e.write_seq
           more == Append(queue, k)
<1>1. /\ queue \in Seq(Nat) /\ k \in Nat /\ Len(queue) \in Nat
      /\ \A i \in 1..Len(queue) : queue[i] \in Nat
      /\ e.used_write_nonces \subseteq Nat
  BY DEF Streams
<1>2. /\ e.used_write_nonces = {queue[i] : i \in 1..Len(queue)}
      /\ \A i, j \in 1..Len(queue) : i < j => queue[i] < queue[j]
      /\ \A m \in e.used_write_nonces : m < k
  BY DEF CacheBelow
<1> HIDE DEF queue, k
<1>3. /\ Len(more) = Len(queue) + 1 /\ more[Len(queue) + 1] = k
      /\ \A i \in 1..Len(queue) : more[i] = queue[i]
  BY <1>1
<1> HIDE DEF more
<1>4. \A i \in 1..Len(more) : i \in 1..Len(queue) \/ i = Len(queue) + 1
  BY <1>1, <1>3
<1>5. \A i, j \in 1..Len(more) : i < j => more[i] < more[j]
  <2>1. SUFFICES ASSUME NEW i \in 1..Len(more), NEW j \in 1..Len(more), i < j
                 PROVE  more[i] < more[j]
    OBVIOUS
  <2>2. i \in 1..Len(queue)
    BY <1>1, <1>3, <2>1
  <2>3. CASE j \in 1..Len(queue)
    BY <1>2, <1>3, <2>1, <2>2, <2>3
  <2>4. CASE j = Len(queue) + 1
    BY <1>2, <1>3, <2>2, <2>4
  <2>5. QED
    BY <1>4, <2>3, <2>4
<1>6. {more[i] : i \in 1..Len(more)} = e.used_write_nonces \cup {k}
  <2>1. \A i \in 1..Len(more) : more[i] \in e.used_write_nonces \cup {k}
    BY <1>2, <1>3, <1>4
  <2>2. \A i \in 1..Len(queue) : i \in 1..Len(more) /\ more[i] = queue[i]
    BY <1>1, <1>3
  <2>3. Len(queue) + 1 \in 1..Len(more)
    BY <1>1, <1>3
  <2>4. \A m \in e.used_write_nonces : \E i \in 1..Len(more) : m = more[i]
    BY <1>2, <2>2
  <2>5. \E i \in 1..Len(more) : k = more[i]
    BY <1>3, <2>3
  <2>6. QED
    BY <2>1, <2>4, <2>5
<1>7. \A m \in e.used_write_nonces \cup {k} : m < k + 1
  <2>1. \A m \in e.used_write_nonces : m \in Nat /\ m < k
    BY <1>1, <1>2
  <2>2. QED
    BY <1>1, <2>1
<1>8. Len(more) <= MaxNonceCache + 1
  BY <1>1, <1>3, RecordLayerConstants DEF queue
<1>9. t.nonce_eviction_queue = more /\ t.write_seq = k + 1
  BY DEF more, queue, k
<1>10. QED
  BY <1>5, <1>6, <1>7, <1>8, <1>9 DEF CacheBelow, k

(* Taking a nonce moves the sequence number by one and nothing else that   *)
(* the invariants look at.                                                 *)
LEMMA NonceTakenLemma ==
    ASSUME NEW s \in Streams
    PROVE  /\ check_and_record_nonce(s) \in Streams
           /\ NonceTaken(s) \in Streams
           /\ check_and_record_nonce(s).write_seq = s.write_seq
           /\ check_and_record_nonce(s).write_epoch = s.write_epoch
           /\ NonceTaken(s).write_epoch = s.write_epoch
           /\ NonceTaken(s).write_seq = s.write_seq + 1
           /\ NonceTaken(s).used_write_nonces
                 = Evicted(s).used_write_nonces \cup {s.write_seq}
           /\ NonceTaken(s).nonce_eviction_queue
                 = Append(Evicted(s).nonce_eviction_queue, s.write_seq)
           /\ NonceTaken(s).traffic_secrets = s.traffic_secrets
           /\ NonceTaken(s).stage = s.stage
           /\ NonceTaken(s).write_err = s.write_err
           /\ NonceTaken(s).read_epoch = s.read_epoch
           /\ NonceTaken(s).read_seq = s.read_seq
<1> DEFINE e == Evicted(s)
<1>1. e \in Streams /\ s.write_seq \in Nat
  BY EvictedLemma DEF Streams
<1>2. Append(e.nonce_eviction_queue, s.write_seq) \in Seq(Nat)
  BY <1>1 DEF Streams
<1>3. e.used_write_nonces \cup {s.write_seq} \in SUBSET Nat
  BY <1>1 DEF Streams
<1> HIDE DEF e
<1>4. check_and_record_nonce(s) =
        [e EXCEPT !.nonce_eviction_queue = Append(@, s.write_seq),
                  !.used_write_nonces = @ \cup {s.write_seq}]
  BY DEF check_and_record_nonce, e
<1>5. /\ e.write_epoch = s.write_epoch /\ e.write_seq = s.write_seq
      /\ e.traffic_secrets = s.traffic_secrets /\ e.stage = s.stage
      /\ e.write_err = s.write_err
      /\ e.read_epoch = s.read_epoch /\ e.read_seq = s.read_seq
  BY EvictedLemma DEF e
<1> DEFINE c == check_and_record_nonce(s)
<1>6. c \in Streams
  BY <1>1, <1>2, <1>3, <1>4 DEF Streams
<1>7. /\ c.write_epoch = s.write_epoch /\ c.write_seq = s.write_seq
      /\ c.traffic_secrets = s.traffic_secrets /\ c.stage = s.stage
      /\ c.write_err = s.write_err
      /\ c.read_epoch = s.read_epoch /\ c.read_seq = s.read_seq
      /\ c.used_write_nonces = e.used_write_nonces \cup {s.write_seq}
      /\ c.nonce_eviction_queue = Append(e.nonce_eviction_queue, s.write_seq)
  BY <1>1, <1>4, <1>5 DEF Streams
<1>8. NonceTaken(s) = [c EXCEPT !.write_seq = @ + 1]
  BY DEF NonceTaken
<1> HIDE DEF c
<1>9. c.write_seq + 1 \in Nat
  BY <1>6 DEF Streams
<1>10. NonceTaken(s) \in Streams
  BY <1>6, <1>8, <1>9 DEF Streams
<1>11. QED
  BY <1>6, <1>7, <1>8, <1>10 DEF Streams, c, e

(* An empty cache is as it should be. *)
LEMMA EmptyCache ==
    ASSUME NEW s, s.used_write_nonces = {}, s.nonce_eviction_queue = << >>
    PROVE  CacheBelow(s)
<1>1. Len(<< >>) = 0 /\ 1..0 = {}
  OBVIOUS
<1>2. QED
  BY <1>1, RecordLayerConstants DEF CacheBelow

(* Rotation starts a new key with an empty cache. *)
LEMMA RotateLemma ==
    ASSUME NEW s \in Streams
    PROVE  /\ rotate_write_key(s) \in Streams
           /\ rotate_write_key(s).write_epoch = s.write_epoch + 1
           /\ rotate_write_key(s).write_seq = 0
           /\ rotate_write_key(s).used_write_nonces = {}
           /\ rotate_write_key(s).nonce_eviction_queue = << >>
           /\ rotate_write_key(s).write_err = s.write_err
           /\ rotate_write_key(s).traffic_secrets = s.traffic_secrets
<1>1. << >> \in Seq(Nat) /\ s.write_epoch + 1 \in Nat
  BY DEF Streams
<1>2. QED
  BY <1>1 DEF rotate_write_key, Streams

(* WriterStep preserves the invariant. *)
LEMMA WriterStepLemma ==
    ASSUME Inv, TypeOK', NEW p \in Peers, WriterStep(p)
    PROVE  Inv'
<1> USE DEF Inv
<1>1. \A q \in Peers : q # p => st'[q] = st[q] /\ log'[q] = log[q]
  BY DEF WriterStep, TypeOK
<1>2. CachesBelow' /\ NonceGuardSilent'
  BY <1>1 DEF WriterStep, CachesBelow, NonceGuardSilent, TypeOK
<1>3. CASE log' = log /\ \A e, n \in Nat :
                 Ahead(st[p], e, n) => Ahead(st'[p], e, n)
  <2>1. NonceUnique'
    BY <1>3 DEF NonceUnique
  <2>2. RecordsBehind'
    <3>1. SUFFICES ASSUME NEW q \in Peers, NEW i \in 1..Len(log[q])
                   PROVE  Ahead(st'[q], log[q][i].epoch, log[q][i].seq)
      BY <1>3 DEF RecordsBehind, Ahead
    <3>2. log[q][i] \in Records
      BY DEF TypeOK
    <3>3. Ahead(st[q], log[q][i].epoch, log[q][i].seq)
      BY DEF RecordsBehind
    <3>4. QED
      BY <1>1, <1>3, <3>2, <3>3 DEF Records
  <2>3. QED
    BY <1>2, <2>1, <2>2
<1>4. CASE \E r \in Records :
             /\ log' = [log EXCEPT ![p] = Append(@, r)]
             /\ r.epoch = st[p].write_epoch /\ r.seq = st[p].write_seq
             /\ Ahead(st'[p], r.epoch, r.seq)
  <2>1. PICK r \in Records :
             /\ log' = [log EXCEPT ![p] = Append(@, r)]
             /\ r.epoch = st[p].write_epoch /\ r.seq = st[p].write_seq
             /\ Ahead(st'[p], r.epoch, r.seq)
    BY <1>4
  <2>2. log[p] \in Seq(Records) /\ log'[p] = Append(log[p], r)
    BY <2>1 DEF TypeOK
  <2>3. /\ Len(log'[p]) = Len(log[p]) + 1
        /\ log'[p][Len(log[p]) + 1] = r
        /\ \A i \in 1..Len(log[p]) : log'[p][i] = log[p][i]
    BY <2>2
  <2>4. \A i \in 1..Len(log[p]) :
            /\ log[p][i].epoch \in Nat /\ log[p][i].seq \in Nat
            /\ Ahead(st[p], log[p][i].epoch, log[p][i].seq)
    <3>1. TAKE i \in 1..Len(log[p])
    <3>2. log[p][i] \in Records
      BY <2>2
    <3>3. QED
      BY <3>2 DEF RecordsBehind, Records
  <2>5. /\ st[p].write_epoch \in Nat /\ st[p].write_seq \in Nat
        /\ st'[p].write_epoch \in Nat /\ st'[p].write_seq \in Nat
    BY DEF TypeOK, Streams
  <2>6. RecordsBehind'
    <3>1. SUFFICES ASSUME NEW q \in Peers, NEW i \in 1..Len(log'[q])
                   PROVE  Ahead(st'[q], log'[q][i].epoch, log'[q][i].seq)
      BY DEF RecordsBehind, Ahead
    <3>2. CASE q # p
      BY <1>1, <3>2 DEF RecordsBehind
    <3>3. CASE q = p /\ i = Len(log[p]) + 1
      BY <2>1, <2>3, <3>3
    <3>4. CASE q = p /\ i # Len(log[p]) + 1
      <4>1. i \in 1..Len(log[p])
        BY <2>2, <2>3, <3>4
      <4>2. /\ log'[p][i] = log[p][i]
            /\ log[p][i].epoch \in Nat /\ log[p][i].seq \in Nat
        BY <2>3, <2>4, <4>1
      <4>3. Ahead(st[p], log[p][i].epoch, log[p][i].seq)
        BY <2>4, <4>1
      <4>4. QED
        BY <2>1, <2>5, <3>4, <4>2, <4>3 DEF Ahead
    <3>5. QED
      BY <3>2, <3>3, <3>4
  <2>7. NonceUnique'
    <3>1. SUFFICES ASSUME NEW q \in Peers, NEW i \in 1..Len(log'[q]),
                          NEW j \in 1..Len(log'[q]), i # j
                   PROVE  \/ log'[q][i].epoch # log'[q][j].epoch
                          \/ log'[q][i].seq # log'[q][j].seq
      BY DEF NonceUnique
    <3>2. CASE q # p
      BY <1>1, <3>1, <3>2 DEF NonceUnique
    <3>3. CASE q = p /\ i \in 1..Len(log[p]) /\ j \in 1..Len(log[p])
      <4>1. log'[p][i] = log[p][i] /\ log'[p][j] = log[p][j]
        BY <2>3, <3>3
      <4>2. \/ log[p][i].epoch # log[p][j].epoch
            \/ log[p][i].seq # log[p][j].seq
        BY <3>1, <3>3 DEF NonceUnique
      <4>3. QED
        BY <3>3, <4>1, <4>2
    <3>4. CASE q = p /\ i = Len(log[p]) + 1 /\ j \in 1..Len(log[p])
      <4>1. log'[p][i] = r /\ log'[p][j] = log[p][j]
        BY <2>3, <3>4
      <4>2. /\ Ahead(st[p], log[p][j].epoch, log[p][j].seq)
            /\ log[p][j].epoch \in Nat /\ log[p][j].seq \in Nat
        BY <2>4, <3>4
      <4>3. QED
        BY <2>1, <2>5, <3>4, <4>1, <4>2 DEF Ahead
    <3>5. CASE q = p /\ j = Len(log[p]) + 1 /\ i \in 1..Len(log[p])
      <4>1. log'[p][j] = r /\ log'[p][i] = log[p][i]
        BY <2>3, <3>5
      <4>2. /\ Ahead(st[p], log[p][i].epoch, log[p][i].seq)
            /\ log[p][i].epoch \in Nat /\ log[p][i].seq \in Nat
        BY <2>4, <3>5
      <4>3. QED
        BY <2>1, <2>5, <3>5, <4>1, <4>2 DEF Ahead
    <3>6. Len(log[p]) \in Nat
      BY <2>2
    <3>7. QED
      BY <2>3, <3>1, <3>2, <3>3, <3>4, <3>5, <3>6
  <2>8. QED
    BY <1>2, <2>6, <2>7
<1>5. QED
  BY <1>3, <1>4 DEF WriterStep

(* An error return keeps the keys, the numbers and the cache. *)
LEMMA FailsLemma ==
    ASSUME NEW s \in Streams, NEW e \in Errors
    PROVE  /\ WriteFails(s, e) \in Streams
           /\ WriteFails(s, e).write_epoch = s.write_epoch
           /\ WriteFails(s, e).write_seq = s.write_seq
           /\ WriteFails(s, e).used_write_nonces = s.used_write_nonces
           /\ WriteFails(s, e).nonce_eviction_queue = s.nonce_eviction_queue
           /\ WriteFails(s, e).write_err = e
           /\ WriteFails(s, e).traffic_secrets = s.traffic_secrets
           /\ WriteFails(s, e).stage = "idle"
BY DEF WriteFails, Streams, Stages

(* The record a stream seals carries the stream's own key and number. *)
LEMMA RecordLemma ==
    ASSUME NEW s \in Streams, NEW kind \in Kinds, NEW body \in Seq(Nat)
    PROVE  /\ Record(s, kind, body) \in Records
           /\ Record(s, kind, body).epoch = s.write_epoch
           /\ Record(s, kind, body).seq = s.write_seq
           /\ Record(s, kind, body).kind = kind
BY DEF Record, Records, Streams

(* Using up a number keeps the cache below it. *)
LEMMA TakenBelow ==
    ASSUME NEW s \in Streams, CacheBelow(s)
    PROVE  /\ CacheBelow(NonceTaken(s))
           /\ Ahead(NonceTaken(s), s.write_epoch, s.write_seq)
           /\ \A e, n \in Nat : Ahead(s, e, n) => Ahead(NonceTaken(s), e, n)
<1> DEFINE t == NonceTaken(s)
<1> DEFINE left == Evicted(s)
<1>1. /\ t.write_epoch = s.write_epoch /\ t.write_seq = s.write_seq + 1
      /\ t.used_write_nonces = left.used_write_nonces \cup {s.write_seq}
      /\ t.nonce_eviction_queue = Append(left.nonce_eviction_queue,
                                        s.write_seq)
      /\ left \in Streams /\ left.write_seq = s.write_seq
  BY NonceTakenLemma, EvictedLemma
<1>7. CacheBelow(left) /\ Len(left.nonce_eviction_queue) <= MaxNonceCache
  BY EvictedCache
<1>2. /\ s.write_epoch \in Nat /\ s.write_seq \in Nat
      /\ s.used_write_nonces \subseteq Nat
  BY DEF Streams
<1> HIDE DEF t, left
<1>3. CacheBelow(t)
  BY <1>1, <1>7, RecordedCache
<1>4. Ahead(t, s.write_epoch, s.write_seq)
  BY <1>1, <1>2 DEF Ahead
<1>5. \A e, n \in Nat : Ahead(s, e, n) => Ahead(t, e, n)
  BY <1>1, <1>2 DEF Ahead
<1>6. QED
  BY <1>3, <1>4, <1>5 DEF t

(* TrackedRecord, the one way the async functions write. *)
LEMMA TrackedLemma ==
    ASSUME Inv, NEW p \in Peers, NEW s \in Streams, NEW kind \in Kinds,
           NEW body \in Seq(Nat), NEW done \in Streams,
           s.write_epoch = st[p].write_epoch, s.write_seq = st[p].write_seq,
           s.used_write_nonces = st[p].used_write_nonces,
           s.nonce_eviction_queue = st[p].nonce_eviction_queue,
           Ahead(done, s.write_epoch, s.write_seq), CacheBelow(done),
           done.write_err # "NonceReuse",
           TrackedRecord(p, s, kind, body, done)
    PROVE  /\ WriterStep(p)
           /\ st' \in [Peers -> Streams]
           /\ log' \in [Peers -> Seq(Records)]
           /\ down' \in [Peers -> BOOLEAN]
           /\ sent' \in [Peers -> Nat]
<1>1. /\ st \in [Peers -> Streams] /\ log \in [Peers -> Seq(Records)]
      /\ down \in [Peers -> BOOLEAN] /\ sent \in [Peers -> Nat]
      /\ CacheBelow(s)
  BY DEF Inv, TypeOK, CachesBelow, CacheBelow
<1>2. s.write_seq \in Nat /\ ~NonceSeen(s)
  <2>1. Evicted(s).used_write_nonces \subseteq s.used_write_nonces
    BY EvictedLemma
  <2>2. s.write_seq \in Nat
    BY DEF Streams
  <2>3. \A n \in s.used_write_nonces : n < s.write_seq
    BY <1>1 DEF CacheBelow
  <2>4. QED
    BY <2>1, <2>2, <2>3 DEF NonceSeen
<1> DEFINE r == Record(s, kind, body)
           torn == Record(s, "torn", << >>)
           failed == WriteFails(NonceTaken(s), "IoError")
<1>3. /\ r \in Records /\ torn \in Records
      /\ r.epoch = st[p].write_epoch /\ r.seq = st[p].write_seq
      /\ torn.epoch = st[p].write_epoch /\ torn.seq = st[p].write_seq
  <2>1. "torn" \in Kinds /\ << >> \in Seq(Nat)
    BY DEF Kinds
  <2>2. QED
    BY <2>1, RecordLemma
<1>4. /\ failed \in Streams /\ failed.write_err = "IoError"
      /\ CacheBelow(failed)
      /\ Ahead(failed, s.write_epoch, s.write_seq)
      /\ \A e, n \in Nat : Ahead(s, e, n) => Ahead(failed, e, n)
  <2>1. NonceTaken(s) \in Streams /\ "IoError" \in Errors
    BY NonceTakenLemma DEF Errors
  <2>2. /\ CacheBelow(NonceTaken(s))
        /\ Ahead(NonceTaken(s), s.write_epoch, s.write_seq)
        /\ \A e, n \in Nat : Ahead(s, e, n) => Ahead(NonceTaken(s), e, n)
    BY <1>1, TakenBelow
  <2>3. QED
    BY <2>1, <2>2, FailsLemma DEF CacheBelow, Ahead
<1>5. \A e, n \in Nat : Ahead(st[p], e, n) <=> Ahead(s, e, n)
  BY DEF Ahead
<1>6. \A x \in Records : [log EXCEPT ![p] = Append(@, x)] \in [Peers -> Seq(Records)]
  BY <1>1
<1>7. Len(body) \in Nat /\ [sent EXCEPT ![p] = @ + Len(body)] \in [Peers -> Nat]
  BY <1>1
<1> HIDE DEF r, torn, failed
<1>8. CASE /\ s.write_seq = MaxSeq
           /\ st' = [st EXCEPT ![p] = WriteFails(s, "SequenceOverflow")]
           /\ UNCHANGED <<log, down, sent>>
  <2> DEFINE f == WriteFails(s, "SequenceOverflow")
  <2>1. /\ f \in Streams /\ f.write_err = "SequenceOverflow"
        /\ f.write_epoch = s.write_epoch /\ f.write_seq = s.write_seq
        /\ f.used_write_nonces = s.used_write_nonces
        /\ f.nonce_eviction_queue = s.nonce_eviction_queue
    BY FailsLemma DEF Errors
  <2> HIDE DEF f
  <2>2. st' = [st EXCEPT ![p] = f]
    BY <1>8 DEF f
  <2>3. CacheBelow(f) /\ \A e, n \in Nat : Ahead(s, e, n) => Ahead(f, e, n)
    BY <1>1, <2>1 DEF CacheBelow, Ahead
  <2>4. st'[p] = f /\ st' \in [Peers -> Streams]
    BY <1>1, <2>1, <2>2
  <2>5. QED
    BY <1>1, <1>5, <1>8, <2>1, <2>2, <2>3, <2>4 DEF WriterStep
<1>9. CASE /\ st' = [st EXCEPT ![p] = done]
           /\ log' = [log EXCEPT ![p] = Append(@, r)]
           /\ sent' = [sent EXCEPT ![p] = @ + Len(body)]
           /\ UNCHANGED down
  <2>1. st'[p] = done /\ st' \in [Peers -> Streams]
    BY <1>1, <1>9
  <2>2. QED
    BY <1>1, <1>3, <1>6, <1>7, <1>9, <2>1 DEF WriterStep
<1>10. CASE /\ st' = [st EXCEPT ![p] = failed]
            /\ down' = [down EXCEPT ![p] = TRUE]
            /\ \/ UNCHANGED <<log, sent>>
               \/ /\ log' = [log EXCEPT ![p] = Append(@, torn)]
                  /\ UNCHANGED sent
               \/ /\ log' = [log EXCEPT ![p] = Append(@, r)]
                  /\ sent' = [sent EXCEPT ![p] = @ + Len(body)]
  <2>1. st'[p] = failed /\ st' \in [Peers -> Streams]
    BY <1>1, <1>4, <1>10
  <2>2. down' \in [Peers -> BOOLEAN] /\ sent' \in [Peers -> Nat]
    BY <1>1, <1>7, <1>10
  <2>3. log' \in [Peers -> Seq(Records)]
    BY <1>1, <1>3, <1>6, <1>10
  <2>4. WriterStep(p)
    BY <1>3, <1>4, <1>5, <1>10, <2>1 DEF WriterStep
  <2>5. QED
    BY <2>1, <2>2, <2>3, <2>4
<1>11. QED
  BY <1>2, <1>8, <1>9, <1>10 DEF TrackedRecord, Put, r, torn, failed

(* send_key_update, once its record is out. *)
LEMMA KeyUpdateSentLemma ==
    ASSUME NEW s \in Streams, NEW stage \in Stages, CacheBelow(s),
           s.write_err # "NonceReuse"
    PROVE  /\ KeyUpdateSent(s, stage) \in Streams
           /\ CacheBelow(KeyUpdateSent(s, stage))
           /\ KeyUpdateSent(s, stage).write_err # "NonceReuse"
           /\ Ahead(KeyUpdateSent(s, stage), s.write_epoch, s.write_seq)
<1>1. CASE s.traffic_secrets
  <2> DEFINE w == rotate_write_key(s)
  <2>1. /\ w \in Streams /\ w.write_epoch = s.write_epoch + 1
        /\ w.used_write_nonces = {} /\ w.nonce_eviction_queue = << >>
        /\ w.write_err = s.write_err
    BY RotateLemma
  <2> HIDE DEF w
  <2>2. KeyUpdateSent(s, stage) = [w EXCEPT !.stage = stage]
    BY <1>1 DEF KeyUpdateSent, w
  <2>3. /\ KeyUpdateSent(s, stage) \in Streams
        /\ KeyUpdateSent(s, stage).write_epoch = s.write_epoch + 1
        /\ KeyUpdateSent(s, stage).used_write_nonces = {}
        /\ KeyUpdateSent(s, stage).nonce_eviction_queue = << >>
        /\ KeyUpdateSent(s, stage).write_err = s.write_err
    BY <2>1, <2>2 DEF Streams
  <2>4. s.write_epoch \in Nat
    BY DEF Streams
  <2>5. QED
    BY <2>3, <2>4, EmptyCache DEF Ahead
<1>2. CASE ~s.traffic_secrets
  <2> DEFINE t == NonceTaken(s)
  <2>1. t \in Streams /\ "NoSecret" \in Errors
    BY NonceTakenLemma DEF Errors
  <2>2. CacheBelow(t) /\ Ahead(t, s.write_epoch, s.write_seq)
    BY TakenBelow
  <2> HIDE DEF t
  <2>3. KeyUpdateSent(s, stage) = WriteFails(t, "NoSecret")
    BY <1>2 DEF KeyUpdateSent, t
  <2>4. QED
    BY <2>1, <2>2, <2>3, FailsLemma DEF CacheBelow, Ahead
<1>3. QED
  BY <1>1, <1>2 DEF Streams

(* A step that leaves p's writing half and the log alone. *)
LEMMA IdleWriter ==
    ASSUME Inv, NEW p \in Peers, NEW s \in Streams,
           s.write_epoch = st[p].write_epoch, s.write_seq = st[p].write_seq,
           s.used_write_nonces = st[p].used_write_nonces,
           s.nonce_eviction_queue = st[p].nonce_eviction_queue,
           s.write_err # "NonceReuse",
           st' = [st EXCEPT ![p] = s], UNCHANGED log
    PROVE  WriterStep(p) /\ st' \in [Peers -> Streams]
<1>1. st \in [Peers -> Streams] /\ CacheBelow(st[p])
  BY DEF Inv, TypeOK, CachesBelow
<1>2. st'[p] = s /\ st' \in [Peers -> Streams]
  BY <1>1
<1>3. CacheBelow(s) /\ \A e, n \in Nat : Ahead(st[p], e, n) => Ahead(s, e, n)
  BY <1>1 DEF CacheBelow, Ahead
<1>4. QED
  BY <1>2, <1>3 DEF WriterStep

(* t is s with at most its reading half and its flags changed. *)
SameWriter(s, t) ==
    /\ t \in Streams
    /\ t.write_epoch = s.write_epoch /\ t.write_seq = s.write_seq
    /\ t.used_write_nonces = s.used_write_nonces
    /\ t.nonce_eviction_queue = s.nonce_eviction_queue
    /\ t.write_err = s.write_err
    /\ t.traffic_secrets = s.traffic_secrets
    /\ t.close_notify_sent = s.close_notify_sent
    /\ t.stage = s.stage

(* The functions the readers apply to their stream. *)
LEMMA ReaderFunctions ==
    ASSUME NEW s \in Streams
    PROVE  /\ SameWriter(s, Opened(s))
           /\ \A e \in Errors : SameWriter(s, ReadFails(s, e))
           /\ \A e \in Errors : SameWriter(s, ReadFails(Opened(s), e))
           /\ \A k \in Kinds : SameWriter(s, process_key_update(Opened(s), k))
           /\ \A b \in Seq(Nat) : SameWriter(s, [s EXCEPT !.read_buf = b])
           /\ \A b \in Seq(Nat) : SameWriter(s, [Opened(s) EXCEPT !.read_buf = b])
           /\ SameWriter(s, [s EXCEPT !.close_result = "false"])
           /\ SameWriter(s, [Opened(s) EXCEPT !.close_result = "true"])
<1> DEFINE o == Opened(s)
<1>1. s.read_seq + 1 \in Nat
  BY DEF Streams
<1>2. SameWriter(s, o)
  BY <1>1 DEF Opened, SameWriter, Streams
<1>3. o \in Streams
  BY <1>2 DEF SameWriter
<1>4. \A t \in Streams : \A e \in Errors : SameWriter(t, ReadFails(t, e))
  BY DEF ReadFails, SameWriter, Streams
<1>5. \A t \in Streams : \A b \in Seq(Nat) :
          SameWriter(t, [t EXCEPT !.read_buf = b])
  BY DEF SameWriter, Streams
<1>6. \A t \in Streams : SameWriter(t, [t EXCEPT !.close_result = "true"])
  BY DEF SameWriter, Streams
<1>7. SameWriter(s, [s EXCEPT !.close_result = "false"])
  BY DEF SameWriter, Streams
<1>8. \A t \in Streams : \A k \in Kinds : SameWriter(t, process_key_update(t, k))
  <2>1. SUFFICES ASSUME NEW t \in Streams, NEW k \in Kinds
                 PROVE  SameWriter(t, process_key_update(t, k))
    OBVIOUS
  <2>2. t.read_epoch + 1 \in Nat /\ "NoSecret" \in Errors
    BY DEF Streams, Errors
  <2> DEFINE v == rotate_read_key(t)
  <2>3. SameWriter(t, v)
    BY <2>2 DEF rotate_read_key, SameWriter, Streams
  <2> HIDE DEF v
  <2>4. (v.key_update_pending \/ k = "ku_req") \in BOOLEAN
    OBVIOUS
  <2>5. SameWriter(v, [v EXCEPT !.key_update_pending = @ \/ k = "ku_req"])
    BY <2>3, <2>4 DEF SameWriter, Streams
  <2>6. QED
    BY <1>4, <2>2, <2>3, <2>5 DEF process_key_update, SameWriter, v
<1> HIDE DEF o
<1>9. \A t : SameWriter(o, t) => SameWriter(s, t)
  BY <1>2 DEF SameWriter
<1>10. /\ \A e \in Errors : SameWriter(s, ReadFails(o, e))
       /\ \A k \in Kinds : SameWriter(s, process_key_update(o, k))
       /\ \A b \in Seq(Nat) : SameWriter(s, [o EXCEPT !.read_buf = b])
       /\ SameWriter(s, [o EXCEPT !.close_result = "true"])
  BY <1>3, <1>4, <1>5, <1>6, <1>8, <1>9
<1>11. QED
  BY <1>2, <1>4, <1>5, <1>7, <1>10 DEF o

(* A step that changes only the reading half of q's stream. *)
LEMMA ReaderStep ==
    ASSUME Inv, NEW q \in Peers, NEW t, SameWriter(st[q], t),
           st' = [st EXCEPT ![q] = t], UNCHANGED log
    PROVE  WriterStep(q) /\ st' \in [Peers -> Streams]
<1>1. st[q].write_err # "NonceReuse"
  BY DEF Inv, NonceGuardSilent
<1>2. QED
  BY <1>1, IdleWriter DEF SameWriter

(* What a reader finds on the transport. *)
LEMMA IncomingLemma ==
    ASSUME Inv, NEW q \in Peers, Available(q)
    PROVE  /\ Incoming(q) \in Records
           /\ Incoming(q).kind \in Kinds
           /\ Incoming(q).body \in Seq(Nat)
<1>1. Other(q) \in Peers
  BY DEF Other, Peers
<1>2. log[Other(q)] \in Seq(Records) /\ rpos[q] \in Nat
  BY <1>1 DEF Inv, TypeOK
<1>3. rpos[q] + 1 \in 1..Len(log[Other(q)])
  BY <1>2 DEF Available
<1>4. Incoming(q) \in Records
  BY <1>2, <1>3 DEF Incoming
<1>5. QED
  BY <1>4 DEF Records

(* The two halves of a buffer are buffers. *)
LEMMA TakeDrop ==
    ASSUME NEW b \in Seq(Nat), NEW n \in Nat
    PROVE  Take(b, n) \in Seq(Nat) /\ Drop(b, n) \in Seq(Nat)
BY DEF Take, Drop

-----------------------------------------------------------------------------
(* An error exit of a reader. *)
LEMMA ReadErrorStep ==
    ASSUME Inv, NEW q \in Peers, NEW eof, SameWriter(st[q], eof),
           ReadError(q, eof)
    PROVE  WriterStep(q) /\ TypeOK'
<1>1. st[q] \in Streams /\ rpos \in [Peers -> Nat]
  BY DEF Inv, TypeOK
<1>2. PICK t : SameWriter(st[q], t) /\ st' = [st EXCEPT ![q] = t]
  <2>1. /\ SameWriter(st[q], ReadFails(st[q], "IoError"))
        /\ SameWriter(st[q], ReadFails(st[q], "SequenceOverflow"))
        /\ SameWriter(st[q], ReadFails(Opened(st[q]), "CipherError"))
    BY <1>1, ReaderFunctions DEF Errors
  <2>2. QED
    BY <2>1 DEF ReadError
<1>3. WriterStep(q) /\ st' \in [Peers -> Streams]
  BY <1>2, ReaderStep DEF ReadError
<1>4. rpos' \in [Peers -> Nat]
  BY <1>1 DEF ReadError, Consumed
<1>5. QED
  BY <1>3, <1>4 DEF ReadError, Inv, TypeOK

(* A KeyUpdate that is read. *)
LEMMA HandshakeStep ==
    ASSUME Inv, NEW q \in Peers, process_inner_handshake(q)
    PROVE  WriterStep(q) /\ TypeOK'
<1>1. st[q] \in Streams /\ rpos \in [Peers -> Nat]
  BY DEF Inv, TypeOK
<1>2. Incoming(q).kind \in Kinds
  BY IncomingLemma DEF process_inner_handshake, Receives
<1>3. SameWriter(st[q], process_key_update(Opened(st[q]), Incoming(q).kind))
  BY <1>1, <1>2, ReaderFunctions
<1>4. st' = [st EXCEPT ![q] =
                process_key_update(Opened(st[q]), Incoming(q).kind)]
  BY DEF process_inner_handshake
<1>5. WriterStep(q) /\ st' \in [Peers -> Streams]
  BY <1>3, <1>4, ReaderStep DEF process_inner_handshake, Receives
<1>6. rpos' \in [Peers -> Nat]
  BY <1>1 DEF process_inner_handshake, Receives, Consumed
<1>7. QED
  BY <1>5, <1>6 DEF process_inner_handshake, Receives, Inv, TypeOK

(* The rest of a reader's successful branch, given what it makes of the    *)
(* stream and what it hands to the user.                                   *)
LEMMA ReceiveStep ==
    ASSUME Inv, NEW q \in Peers, NEW kinds, Receives(q, kinds),
           NEW t, SameWriter(st[q], t), st' = [st EXCEPT ![q] = t],
           delivered' \in [Peers -> Seq(Nat)],
           ended' \in [Peers -> BOOLEAN]
    PROVE  WriterStep(q) /\ TypeOK'
<1>1. WriterStep(q) /\ st' \in [Peers -> Streams]
  BY ReaderStep DEF Receives
<1>2. rpos' \in [Peers -> Nat]
  BY DEF Receives, Consumed, Inv, TypeOK
<1>3. QED
  BY <1>1, <1>2 DEF Receives, Inv, TypeOK

(* What is handed to the user is a sequence of bytes. *)
LEMMA DeliveredLemma ==
    ASSUME Inv, NEW q \in Peers, NEW b \in Seq(Nat), Delivered(q, b)
    PROVE  delivered' \in [Peers -> Seq(Nat)]
<1>1. delivered \in [Peers -> Seq(Nat)]
  BY DEF Inv, TypeOK
<1>2. delivered[q] \o b \in Seq(Nat)
  BY <1>1
<1>3. QED
  BY <1>1, <1>2 DEF Delivered

(* read_application_data leaves the writing half alone. *)
LEMMA ReadApplicationDataStep ==
    ASSUME Inv, NEW q \in Peers, read_application_data(q)
    PROVE  WriterStep(q) /\ TypeOK'
<1>1. /\ st[q] \in Streams /\ delivered \in [Peers -> Seq(Nat)]
      /\ ended \in [Peers -> BOOLEAN]
  BY DEF Inv, TypeOK
<1>2. /\ SameWriter(st[q], ReadFails(st[q], "IoError"))
      /\ SameWriter(st[q], ReadFails(Opened(st[q]), "InvalidMessage"))
      /\ SameWriter(st[q], Opened(st[q]))
  BY <1>1, ReaderFunctions DEF Errors
<1>3. CASE ReadError(q, ReadFails(st[q], "IoError"))
  BY <1>2, <1>3, ReadErrorStep
<1>4. CASE process_inner_handshake(q)
  BY <1>4, HandshakeStep
<1>5. CASE /\ Receives(q, {"data"})
           /\ st' = [st EXCEPT ![q] = Opened(@)]
           /\ Delivered(q, Plaintext(Incoming(q)))
           /\ UNCHANGED ended
  <2>1. Plaintext(Incoming(q)) \in Seq(Nat)
    BY <1>5, IncomingLemma DEF Receives, Plaintext
  <2>2. delivered' \in [Peers -> Seq(Nat)]
    BY <1>5, <2>1, DeliveredLemma
  <2>3. QED
    BY <1>1, <1>2, <1>5, <2>2, ReceiveStep
<1>6. CASE /\ Receives(q, {"alert"})
           /\ st' = [st EXCEPT ![q] = ReadFails(Opened(@), "InvalidMessage")]
           /\ UNCHANGED <<delivered, ended>>
  BY <1>1, <1>2, <1>6, ReceiveStep
<1>7. QED
  BY <1>3, <1>4, <1>5, <1>6 DEF read_application_data

(* recv_close_notify leaves the writing half alone. *)
LEMMA RecvCloseNotifyStep ==
    ASSUME Inv, NEW q \in Peers, recv_close_notify(q)
    PROVE  WriterStep(q) /\ TypeOK'
<1>1. /\ st[q] \in Streams /\ delivered \in [Peers -> Seq(Nat)]
      /\ ended \in [Peers -> BOOLEAN]
  BY DEF Inv, TypeOK
<1>2. CASE ReadError(q, [st[q] EXCEPT !.close_result = "false"])
  BY <1>1, <1>2, ReaderFunctions, ReadErrorStep
<1>3. CASE /\ Receives(q, Kinds \ {"torn"})
           /\ st' = [st EXCEPT ![q] = [Opened(@) EXCEPT
                        !.close_result = "true"]]
           /\ UNCHANGED <<delivered, ended>>
  <2>1. SameWriter(st[q], [Opened(st[q]) EXCEPT !.close_result = "true"])
    BY <1>1, ReaderFunctions
  <2>2. QED
    BY <1>1, <1>3, <2>1, ReceiveStep
<1>4. QED
  BY <1>2, <1>3 DEF recv_close_notify

(* poll_read leaves the writing half alone. *)
LEMMA PollReadStep ==
    ASSUME Inv, NEW q \in Peers, NEW cap \in Caps, poll_read(q, cap)
    PROVE  WriterStep(q) /\ TypeOK'
<1>1. /\ st[q] \in Streams /\ delivered \in [Peers -> Seq(Nat)]
      /\ ended \in [Peers -> BOOLEAN] /\ cap \in Nat
  BY RecordLayerConstants DEF Inv, TypeOK
<1>2. CASE /\ Delivered(q, Take(st[q].read_buf, cap))
           /\ st' = [st EXCEPT ![q].read_buf = Drop(@, cap)]
           /\ UNCHANGED <<log, rpos, down, sent, ended>>
  <2>1. st[q].read_buf \in Seq(Nat)
    BY <1>1 DEF Streams
  <2>2. /\ Take(st[q].read_buf, cap) \in Seq(Nat)
        /\ Drop(st[q].read_buf, cap) \in Seq(Nat)
    BY <1>1, <2>1, TakeDrop
  <2> DEFINE t == [st[q] EXCEPT !.read_buf = Drop(st[q].read_buf, cap)]
  <2>3. SameWriter(st[q], t)
    BY <1>1, <2>2, ReaderFunctions
  <2>4. st' = [st EXCEPT ![q] = t]
    BY <1>2 DEF Inv, TypeOK
  <2>5. WriterStep(q) /\ st' \in [Peers -> Streams]
    BY <1>2, <2>3, <2>4, ReaderStep
  <2>6. delivered' \in [Peers -> Seq(Nat)]
    BY <1>2, <2>2, DeliveredLemma
  <2>7. QED
    BY <1>2, <2>5, <2>6 DEF Inv, TypeOK
<1>3. CASE ReadError(q, ReadFails(st[q], "IoError"))
  <2>1. SameWriter(st[q], ReadFails(st[q], "IoError"))
    BY <1>1, ReaderFunctions DEF Errors
  <2>2. QED
    BY <1>3, <2>1, ReadErrorStep
<1>4. CASE process_inner_handshake(q)
  BY <1>4, HandshakeStep
<1>5. CASE /\ Receives(q, {"data"})
           /\ Delivered(q, Take(Plaintext(Incoming(q)), cap))
           /\ st' = [st EXCEPT ![q] = [Opened(@) EXCEPT
                        !.read_buf = Drop(Plaintext(Incoming(q)), cap)]]
           /\ ended' = [ended EXCEPT
                           ![q] = @ \/ Plaintext(Incoming(q)) = << >>]
  <2>1. Plaintext(Incoming(q)) \in Seq(Nat)
    BY <1>5, IncomingLemma DEF Receives, Plaintext
  <2>2. /\ Take(Plaintext(Incoming(q)), cap) \in Seq(Nat)
        /\ Drop(Plaintext(Incoming(q)), cap) \in Seq(Nat)
    BY <1>1, <2>1, TakeDrop
  <2>3. SameWriter(st[q], [Opened(st[q]) EXCEPT
            !.read_buf = Drop(Plaintext(Incoming(q)), cap)])
    BY <1>1, <2>2, ReaderFunctions
  <2>4. delivered' \in [Peers -> Seq(Nat)]
    BY <1>5, <2>2, DeliveredLemma
  <2>5. ended' \in [Peers -> BOOLEAN]
    BY <1>1, <1>5
  <2>6. QED
    BY <1>5, <2>3, <2>4, <2>5, ReceiveStep
<1>6. CASE /\ Receives(q, {"alert"})
           /\ st' = [st EXCEPT ![q] = Opened(@)]
           /\ ended' = [ended EXCEPT ![q] = TRUE]
           /\ UNCHANGED delivered
  <2>1. SameWriter(st[q], Opened(st[q]))
    BY <1>1, ReaderFunctions
  <2>2. ended' \in [Peers -> BOOLEAN]
    BY <1>1, <1>6
  <2>3. QED
    BY <1>1, <1>6, <2>1, <2>2, ReceiveStep
<1>7. QED
  BY <1>2, <1>3, <1>4, <1>5, <1>6 DEF poll_read

-----------------------------------------------------------------------------
(* A writer that goes through TrackedRecord takes a WriterStep. *)
LEMMA TrackedStep ==
    ASSUME Inv, NEW p \in Peers, NEW s \in Streams, NEW kind \in Kinds,
           NEW body \in Seq(Nat), NEW done \in Streams,
           s.write_epoch = st[p].write_epoch, s.write_seq = st[p].write_seq,
           s.used_write_nonces = st[p].used_write_nonces,
           s.nonce_eviction_queue = st[p].nonce_eviction_queue,
           Ahead(done, s.write_epoch, s.write_seq), CacheBelow(done),
           done.write_err # "NonceReuse",
           TrackedRecord(p, s, kind, body, done),
           UNCHANGED <<rpos, delivered, ended>>
    PROVE  WriterStep(p) /\ TypeOK'
<1>1. /\ WriterStep(p)
      /\ st' \in [Peers -> Streams] /\ log' \in [Peers -> Seq(Records)]
      /\ down' \in [Peers -> BOOLEAN] /\ sent' \in [Peers -> Nat]
  BY TrackedLemma
<1>2. QED
  BY <1>1 DEF Inv, TypeOK

(* Sending a KeyUpdate from the stream s, which differs from p's stream at *)
(* most in its flags, is a WriterStep.                                     *)
LEMMA KeyUpdateStep ==
    ASSUME Inv, NEW p \in Peers, NEW s, SameWriter(st[p], s),
           NEW kind \in {"ku", "ku_req"}, NEW stage \in Stages,
           TrackedRecord(p, s, kind, << >>, KeyUpdateSent(s, stage)),
           UNCHANGED <<rpos, delivered, ended>>
    PROVE  WriterStep(p) /\ TypeOK'
<1>1. kind \in Kinds /\ << >> \in Seq(Nat)
  BY DEF Kinds
<1>2. s \in Streams /\ CacheBelow(s) /\ s.write_err # "NonceReuse"
  BY DEF SameWriter, Inv, CachesBelow, CacheBelow, NonceGuardSilent
<1>3. /\ KeyUpdateSent(s, stage) \in Streams
      /\ CacheBelow(KeyUpdateSent(s, stage))
      /\ KeyUpdateSent(s, stage).write_err # "NonceReuse"
      /\ Ahead(KeyUpdateSent(s, stage), s.write_epoch, s.write_seq)
  BY <1>2, KeyUpdateSentLemma
<1>4. QED
  BY <1>1, <1>2, <1>3, TrackedStep DEF SameWriter

(* The stages of write_application_data are WriterSteps. *)
LEMMA WriteStages ==
    ASSUME Inv, NEW p \in Peers,
           \/ \E n \in Lens : write_application_data(p, n)
           \/ flush_pending_key_update(p)
           \/ AutoKeyUpdate(p)
           \/ WriteData(p)
    PROVE  WriterStep(p) /\ TypeOK'
<1> DEFINE s == st[p]
<1>1. /\ s \in Streams /\ s.write_err # "NonceReuse" /\ CacheBelow(s)
      /\ st \in [Peers -> Streams] /\ sent \in [Peers -> Nat]
  BY DEF Inv, TypeOK, NonceGuardSilent, CachesBelow
<1>2. SameWriter(s, s)
  BY <1>1 DEF SameWriter
<1>3. \A g \in Stages : [s EXCEPT !.stage = g] \in Streams
  BY <1>1 DEF Streams
<1>4. \A g \in Stages :
          /\ [s EXCEPT !.stage = g].write_epoch = s.write_epoch
          /\ [s EXCEPT !.stage = g].write_seq = s.write_seq
          /\ [s EXCEPT !.stage = g].used_write_nonces = s.used_write_nonces
          /\ [s EXCEPT !.stage = g].nonce_eviction_queue = s.nonce_eviction_queue
          /\ [s EXCEPT !.stage = g].write_err = s.write_err
  BY <1>1 DEF Streams
<1>5. ASSUME NEW g \in Stages, st' = [st EXCEPT ![p].stage = g],
             UNCHANGED <<log, rpos, down, sent, delivered, ended>>
      PROVE  WriterStep(p) /\ TypeOK'
  <2> DEFINE t == [s EXCEPT !.stage = g]
  <2>1. st' = [st EXCEPT ![p] = t]
    BY <1>1, <1>5
  <2>2. WriterStep(p) /\ st' \in [Peers -> Streams]
    BY <1>1, <1>3, <1>4, <1>5, <2>1, IdleWriter
  <2>3. QED
    BY <1>5, <2>2 DEF Inv, TypeOK
<1>6. CASE \E n \in Lens : write_application_data(p, n)
  <2>1. PICK n \in Lens : write_application_data(p, n)
    BY <1>6
  <2> DEFINE t == [s EXCEPT !.stage = "flush", !.len = n, !.write_err = "none"]
  <2>2. n \in Nat /\ "flush" \in Stages /\ "none" \in Errors
    BY RecordLayerConstants DEF Stages, Errors
  <2>3. /\ t \in Streams /\ t.write_err = "none"
        /\ t.write_epoch = s.write_epoch /\ t.write_seq = s.write_seq
        /\ t.used_write_nonces = s.used_write_nonces
        /\ t.nonce_eviction_queue = s.nonce_eviction_queue
    BY <1>1, <2>2 DEF Streams
  <2>4. st' = [st EXCEPT ![p] = t] /\ UNCHANGED log
    BY <1>1, <2>1 DEF write_application_data
  <2> HIDE DEF t
  <2>5. WriterStep(p) /\ st' \in [Peers -> Streams]
    BY <2>3, <2>4, IdleWriter
  <2>6. QED
    BY <2>1, <2>5 DEF write_application_data, Inv, TypeOK
<1>7. CASE flush_pending_key_update(p)
  <2> DEFINE t == [s EXCEPT !.key_update_pending = FALSE]
  <2>1. SameWriter(s, t)
    BY <1>1 DEF SameWriter, Streams
  <2>2. CASE s.key_update_pending
    <3>1. /\ TrackedRecord(p, t, "ku", << >>, KeyUpdateSent(t, "auto"))
          /\ UNCHANGED <<rpos, delivered, ended>>
      BY <1>7, <2>2 DEF flush_pending_key_update
    <3>2. "auto" \in Stages
      BY DEF Stages
    <3> HIDE DEF t
    <3>3. QED
      BY <2>1, <3>1, <3>2, KeyUpdateStep
  <2>3. CASE ~s.key_update_pending
    BY <1>5, <1>7, <2>3 DEF flush_pending_key_update, Stages
  <2>4. QED
    BY <2>2, <2>3
<1>8. CASE AutoKeyUpdate(p)
  <2>1. CASE is_key_exhausted(s)
    <3> DEFINE t == WriteFails(s, "Exhausted")
    <3>1. /\ st' = [st EXCEPT ![p] = t]
          /\ UNCHANGED <<log, rpos, down, sent, delivered, ended>>
      BY <1>8, <2>1 DEF AutoKeyUpdate
    <3>2. /\ t \in Streams /\ t.write_err = "Exhausted"
          /\ t.write_epoch = s.write_epoch /\ t.write_seq = s.write_seq
          /\ t.used_write_nonces = s.used_write_nonces
          /\ t.nonce_eviction_queue = s.nonce_eviction_queue
      BY <1>1, FailsLemma DEF Errors
    <3> HIDE DEF t
    <3>3. WriterStep(p) /\ st' \in [Peers -> Streams]
      BY <3>1, <3>2, IdleWriter
    <3>4. QED
      BY <3>1, <3>3 DEF Inv, TypeOK
  <2>2. CASE /\ ~is_key_exhausted(s)
             /\ should_update_key(s) /\ s.traffic_secrets
    <3>1. /\ TrackedRecord(p, s, "ku", << >>, KeyUpdateSent(s, "data"))
          /\ UNCHANGED <<rpos, delivered, ended>>
      BY <1>8, <2>2 DEF AutoKeyUpdate
    <3>2. "data" \in Stages
      BY DEF Stages
    <3>3. QED
      BY <1>2, <3>1, <3>2, KeyUpdateStep
  <2>3. CASE ~is_key_exhausted(s) /\ ~(should_update_key(s) /\ s.traffic_secrets)
    <3>1. /\ st' = [st EXCEPT ![p].stage = "data"]
          /\ UNCHANGED <<log, rpos, down, sent, delivered, ended>>
      BY <1>8, <2>3 DEF AutoKeyUpdate
    <3>2. QED
      BY <1>5, <3>1 DEF Stages
  <2>4. QED
    BY <2>1, <2>2, <2>3
<1>9. CASE WriteData(p)
  <2> DEFINE t == NonceTaken(s)
             done == [t EXCEPT !.stage = "idle"]
             body == NextBytes(p, s.len)
  <2>1. t \in Streams /\ CacheBelow(t) /\ Ahead(t, s.write_epoch, s.write_seq)
    BY <1>1, NonceTakenLemma, TakenBelow
  <2>2. t.write_err = s.write_err
    BY <1>1, NonceTakenLemma
  <2>3. body \in Seq(Nat)
    <3>1. s.len \in Nat
      BY <1>1 DEF Streams
    <3> DEFINE n == s.len
               m == sent[p]
    <3>2. m \in Nat
      BY <1>1
    <3> HIDE DEF n, m
    <3>3. [i \in 1..n |-> m + i] \in Seq(Nat)
      BY <3>1, <3>2 DEF n
    <3>4. QED
      BY <3>3 DEF NextBytes, n, m
  <2>4. /\ TrackedRecord(p, s, "data", body, done)
        /\ UNCHANGED <<rpos, delivered, ended>>
    BY <1>9 DEF WriteData
  <2> HIDE DEF t, body
  <2>5. /\ done \in Streams /\ done.write_err = t.write_err
        /\ done.write_epoch = t.write_epoch /\ done.write_seq = t.write_seq
        /\ done.used_write_nonces = t.used_write_nonces
        /\ done.nonce_eviction_queue = t.nonce_eviction_queue
    BY <2>1 DEF Streams, Stages
  <2>6. CacheBelow(done) /\ Ahead(done, s.write_epoch, s.write_seq)
    BY <2>1, <2>5 DEF CacheBelow, Ahead
  <2>7. "data" \in Kinds
    BY DEF Kinds
  <2> HIDE DEF done
  <2>8. QED
    BY <1>1, <2>2, <2>3, <2>4, <2>5, <2>6, <2>7, TrackedStep
<1>10. QED
  BY <1>6, <1>7, <1>8, <1>9

(* close and send_key_update are WriterSteps. *)
LEMMA CloseAndKeyUpdate ==
    ASSUME Inv, NEW p \in Peers,
           close(p) \/ \E b \in BOOLEAN : send_key_update(p, b)
    PROVE  WriterStep(p) /\ TypeOK'
<1> DEFINE s == st[p]
<1>1. s \in Streams /\ s.write_err # "NonceReuse" /\ CacheBelow(s)
  BY DEF Inv, TypeOK, NonceGuardSilent, CachesBelow
<1>2. CASE close(p)
  <2> DEFINE t == NonceTaken(s)
             done == [t EXCEPT !.close_notify_sent = TRUE]
  <2>1. /\ t \in Streams /\ t.write_err = s.write_err
        /\ CacheBelow(t) /\ Ahead(t, s.write_epoch, s.write_seq)
    BY <1>1, NonceTakenLemma, TakenBelow
  <2>2. /\ TrackedRecord(p, s, "alert", << >>, done)
        /\ UNCHANGED <<rpos, delivered, ended>>
    BY <1>2 DEF close
  <2> HIDE DEF t
  <2>3. /\ done \in Streams /\ done.write_err = t.write_err
        /\ done.write_epoch = t.write_epoch /\ done.write_seq = t.write_seq
        /\ done.used_write_nonces = t.used_write_nonces
        /\ done.nonce_eviction_queue = t.nonce_eviction_queue
    BY <2>1 DEF Streams
  <2>4. CacheBelow(done) /\ Ahead(done, s.write_epoch, s.write_seq)
    BY <2>1, <2>3 DEF CacheBelow, Ahead
  <2>5. "alert" \in Kinds /\ << >> \in Seq(Nat)
    BY DEF Kinds
  <2> HIDE DEF done
  <2>6. QED
    BY <1>1, <2>1, <2>2, <2>3, <2>4, <2>5, TrackedStep
<1>3. CASE \E b \in BOOLEAN : send_key_update(p, b)
  <2>1. PICK b \in BOOLEAN : send_key_update(p, b)
    BY <1>3
  <2> DEFINE kind == IF b THEN "ku_req" ELSE "ku"
  <2>2. /\ TrackedRecord(p, s, kind, << >>, KeyUpdateSent(s, "idle"))
        /\ UNCHANGED <<rpos, delivered, ended>>
    BY <2>1 DEF send_key_update
  <2>3. kind \in {"ku", "ku_req"} /\ "idle" \in Stages /\ SameWriter(s, s)
    BY <1>1 DEF Stages, SameWriter
  <2> HIDE DEF kind
  <2>4. QED
    BY <2>2, <2>3, KeyUpdateStep
<1>4. QED
  BY <1>2, <1>3

(* What poll_write and poll_shutdown do to the stream value. *)
StreamWrites(s, e) ==
    {SeqTaken(s), WriteFails(SeqTaken(s), e),
     [SeqTaken(s) EXCEPT !.close_notify_sent = TRUE]}

LEMMA SeqTakenLemma ==
    ASSUME NEW s \in Streams, CacheBelow(s), NEW e \in Errors
    PROVE  \A t \in StreamWrites(s, e) :
               /\ t \in Streams
               /\ t.write_err \in {s.write_err, e}
               /\ CacheBelow(t)
               /\ Ahead(t, s.write_epoch, s.write_seq)
               /\ \A a, b \in Nat : Ahead(s, a, b) => Ahead(t, a, b)
<1> DEFINE q == SeqTaken(s)
           c == [q EXCEPT !.close_notify_sent = TRUE]
           w == WriteFails(q, e)
<1>1. /\ s.write_epoch \in Nat /\ s.write_seq \in Nat
      /\ s.used_write_nonces \subseteq Nat
  BY DEF Streams
<1>2. /\ q \in Streams /\ q.write_epoch = s.write_epoch
      /\ q.write_seq = s.write_seq + 1 /\ q.write_err = s.write_err
      /\ q.used_write_nonces = s.used_write_nonces
      /\ q.nonce_eviction_queue = s.nonce_eviction_queue
  <2>1. ASSUME NEW n \in Nat
        PROVE  [s EXCEPT !.write_seq = n] \in Streams
    BY DEF Streams
  <2>2. q = [s EXCEPT !.write_seq = s.write_seq + 1] /\ s.write_seq + 1 \in Nat
    BY <1>1 DEF SeqTaken
  <2>3. QED
    BY <1>1, <2>1, <2>2 DEF Streams
<1> HIDE DEF q
<1>3. /\ c \in Streams /\ c.write_epoch = q.write_epoch
      /\ c.write_seq = q.write_seq /\ c.write_err = q.write_err
      /\ c.used_write_nonces = q.used_write_nonces
      /\ c.nonce_eviction_queue = q.nonce_eviction_queue
  BY <1>2 DEF Streams
<1>4. /\ w \in Streams /\ w.write_epoch = q.write_epoch
      /\ w.write_seq = q.write_seq /\ w.write_err = e
      /\ w.used_write_nonces = q.used_write_nonces
      /\ w.nonce_eviction_queue = q.nonce_eviction_queue
  BY <1>2, FailsLemma
<1> HIDE DEF c, w
<1>5. ASSUME NEW t \in {q, w, c}
      PROVE  /\ t \in Streams
             /\ t.write_err \in {s.write_err, e}
             /\ CacheBelow(t)
             /\ Ahead(t, s.write_epoch, s.write_seq)
             /\ \A a, b \in Nat : Ahead(s, a, b) => Ahead(t, a, b)
  <2>1. /\ t \in Streams /\ t.write_err \in {s.write_err, e}
        /\ t.write_epoch = s.write_epoch /\ t.write_seq = s.write_seq + 1
        /\ t.used_write_nonces = s.used_write_nonces
        /\ t.nonce_eviction_queue = s.nonce_eviction_queue
    BY <1>2, <1>3, <1>4
  <2>2. CacheBelow(t)
    <3>1. \A n \in s.used_write_nonces : n \in Nat /\ n < s.write_seq
      BY <1>1 DEF CacheBelow
    <3>2. \A n \in t.used_write_nonces : n < t.write_seq
      BY <1>1, <2>1, <3>1
    <3>3. QED
      BY <2>1, <3>2 DEF CacheBelow
  <2>3. Ahead(t, s.write_epoch, s.write_seq)
    BY <1>1, <2>1 DEF Ahead
  <2>4. \A a, b \in Nat : Ahead(s, a, b) => Ahead(t, a, b)
    BY <1>1, <2>1 DEF Ahead
  <2>5. QED
    BY <2>1, <2>2, <2>3, <2>4
<1>6. QED
  BY <1>5 DEF StreamWrites, q, w, c

(* The new stream value is t, and the log is unchanged or has one record   *)
(* more, sealed by the old one.                                            *)
LEMMA StreamWrite ==
    ASSUME Inv, NEW p \in Peers, NEW t \in Streams, CacheBelow(t),
           t.write_err # "NonceReuse",
           Ahead(t, st[p].write_epoch, st[p].write_seq),
           \A a, b \in Nat : Ahead(st[p], a, b) => Ahead(t, a, b),
           st' = [st EXCEPT ![p] = t],
           \/ UNCHANGED log
           \/ \E kind \in Kinds : \E body \in Seq(Nat) :
                 Put(p, Record(st[p], kind, body))
    PROVE  /\ WriterStep(p) /\ st' \in [Peers -> Streams]
           /\ log' \in [Peers -> Seq(Records)]
<1>1. st \in [Peers -> Streams] /\ log \in [Peers -> Seq(Records)]
  BY DEF Inv, TypeOK
<1>2. st'[p] = t /\ st' \in [Peers -> Streams] /\ st[p] \in Streams
  BY <1>1
<1>3. CASE UNCHANGED log
  BY <1>1, <1>2, <1>3 DEF WriterStep
<1>4. CASE \E kind \in Kinds : \E body \in Seq(Nat) :
             Put(p, Record(st[p], kind, body))
  <2>1. PICK kind \in Kinds, body \in Seq(Nat) :
             Put(p, Record(st[p], kind, body))
    BY <1>4
  <2> DEFINE r == Record(st[p], kind, body)
  <2>2. /\ r \in Records /\ r.epoch = st[p].write_epoch
        /\ r.seq = st[p].write_seq
    BY <1>2, RecordLemma
  <2> HIDE DEF r
  <2>3. log' = [log EXCEPT ![p] = Append(@, r)]
    BY <2>1 DEF Put, r
  <2>4. log' \in [Peers -> Seq(Records)]
    BY <1>1, <2>2, <2>3
  <2>5. WriterStep(p)
    BY <1>2, <2>2, <2>3 DEF WriterStep
  <2>6. QED
    BY <1>2, <2>4, <2>5
<1>5. QED
  BY <1>3, <1>4

(* AsyncWrite: poll_write and poll_shutdown are WriterSteps. *)
LEMMA StreamApiStep ==
    ASSUME Inv, NEW p \in Peers,
           poll_shutdown(p) \/ \E n \in Lens : poll_write(p, n)
    PROVE  WriterStep(p) /\ TypeOK'
<1> DEFINE s == st[p]
           q == SeqTaken(s)
           c == [q EXCEPT !.close_notify_sent = TRUE]
           w == WriteFails(q, "IoError")
           o == WriteFails(s, "SequenceOverflow")
<1>1. /\ s \in Streams /\ s.write_err # "NonceReuse" /\ CacheBelow(s)
      /\ st \in [Peers -> Streams] /\ sent \in [Peers -> Nat]
      /\ down \in [Peers -> BOOLEAN] /\ log \in [Peers -> Seq(Records)]
  BY DEF Inv, TypeOK, NonceGuardSilent, CachesBelow
<1>2. "IoError" \in Errors /\ "SequenceOverflow" \in Errors
  BY DEF Errors
<1>3. \A t \in {q, w, c} :
          /\ t \in Streams /\ t.write_err \in {s.write_err, "IoError"}
          /\ CacheBelow(t) /\ Ahead(t, s.write_epoch, s.write_seq)
          /\ \A a, b \in Nat : Ahead(s, a, b) => Ahead(t, a, b)
  <2>1. \A t \in StreamWrites(s, "IoError") :
          /\ t \in Streams /\ t.write_err \in {s.write_err, "IoError"}
          /\ CacheBelow(t) /\ Ahead(t, s.write_epoch, s.write_seq)
          /\ \A a, b \in Nat : Ahead(s, a, b) => Ahead(t, a, b)
    BY <1>1, <1>2, SeqTakenLemma
  <2>2. {q, w, c} = StreamWrites(s, "IoError")
    BY DEF StreamWrites
  <2> HIDE DEF s, q, w, c
  <2>3. QED
    BY <2>1, <2>2
<1>4. /\ o \in Streams /\ o.write_err = "SequenceOverflow"
      /\ o.write_epoch = s.write_epoch /\ o.write_seq = s.write_seq
      /\ o.used_write_nonces = s.used_write_nonces
      /\ o.nonce_eviction_queue = s.nonce_eviction_queue
  BY <1>1, <1>2, FailsLemma
<1>5. {"data", "torn", "alert"} \subseteq Kinds /\ << >> \in Seq(Nat)
  BY DEF Kinds
<1> HIDE DEF q, w, c, o
<1>6. ASSUME NEW t \in {q, w, c}, st' = [st EXCEPT ![p] = t],
             \/ UNCHANGED log
             \/ \E kind \in Kinds : \E body \in Seq(Nat) :
                   Put(p, Record(s, kind, body))
      PROVE  /\ WriterStep(p) /\ st' \in [Peers -> Streams]
             /\ log' \in [Peers -> Seq(Records)]
  <2>1. t.write_err # "NonceReuse"
    BY <1>1, <1>3, <1>6
  <2>2. QED
    BY <1>3, <1>6, <2>1, StreamWrite
<1>7. ASSUME NEW n \in Nat
      PROVE  NextBytes(p, n) \in Seq(Nat) /\ sent[p] + n \in Nat
  <2> DEFINE m == sent[p]
  <2>1. m \in Nat
    BY <1>1
  <2> HIDE DEF m
  <2>2. [i \in 1..n |-> m + i] \in Seq(Nat) /\ m + n \in Nat
    BY <1>7, <2>1
  <2>3. QED
    BY <2>2 DEF NextBytes, m
<1>8. CASE \E n \in Lens : poll_write(p, n)
  <2>1. PICK n \in Lens : poll_write(p, n)
    BY <1>8
  <2>2. n \in Nat
    BY RecordLayerConstants
  <2>3. UNCHANGED <<rpos, delivered, ended>>
    BY <2>1 DEF poll_write
  <2>4. CASE st' = [st EXCEPT ![p] = o] /\ UNCHANGED <<log, down, sent>>
    <3>1. WriterStep(p) /\ st' \in [Peers -> Streams]
      BY <1>4, <2>4, IdleWriter
    <3>2. QED
      BY <2>3, <2>4, <3>1 DEF Inv, TypeOK
  <2>5. CASE /\ st' = [st EXCEPT ![p] = q]
             /\ Put(p, Record(s, "data", NextBytes(p, n)))
             /\ sent' = [sent EXCEPT ![p] = @ + n] /\ UNCHANGED down
    <3>1. sent' \in [Peers -> Nat]
      BY <1>1, <1>7, <2>2, <2>5
    <3>2. /\ WriterStep(p) /\ st' \in [Peers -> Streams]
          /\ log' \in [Peers -> Seq(Records)]
      BY <1>5, <1>6, <1>7, <2>2, <2>5
    <3>3. QED
      BY <2>3, <2>5, <3>1, <3>2 DEF Inv, TypeOK
  <2>6. CASE /\ \E t \in {q, w} : st' = [st EXCEPT ![p] = t]
             /\ UNCHANGED log \/ Put(p, Record(s, "torn", << >>))
             /\ down' \in {down, [down EXCEPT ![p] = TRUE]}
             /\ UNCHANGED sent
    <3>1. down' \in [Peers -> BOOLEAN]
      BY <1>1, <2>6
    <3>2. /\ WriterStep(p) /\ st' \in [Peers -> Streams]
          /\ log' \in [Peers -> Seq(Records)]
      BY <1>5, <1>6, <2>6
    <3>3. QED
      BY <2>3, <2>6, <3>1, <3>2 DEF Inv, TypeOK
  <2>7. QED
    BY <2>1, <2>4, <2>5, <2>6 DEF poll_write, q, w, o
<1>9. CASE poll_shutdown(p)
  <2>1. UNCHANGED <<rpos, sent, delivered, ended>>
    BY <1>9 DEF poll_shutdown
  <2>2. CASE down' = [down EXCEPT ![p] = TRUE] /\ UNCHANGED <<st, log>>
    <3>1. down' \in [Peers -> BOOLEAN] /\ st' = [st EXCEPT ![p] = s]
      BY <1>1, <2>2
    <3>2. WriterStep(p)
      BY <1>1, <2>2, <3>1, IdleWriter
    <3>3. QED
      BY <2>1, <2>2, <3>1, <3>2 DEF Inv, TypeOK
  <2>3. CASE /\ \E t \in {q, c} : st' = [st EXCEPT ![p] = t]
             /\ \/ UNCHANGED log
                \/ \E kind \in {"torn", "alert"} :
                      Put(p, Record(s, kind, << >>))
             /\ down' \in {down, [down EXCEPT ![p] = TRUE]}
    <3>1. down' \in [Peers -> BOOLEAN]
      BY <1>1, <2>3
    <3>2. /\ WriterStep(p) /\ st' \in [Peers -> Streams]
          /\ log' \in [Peers -> Seq(Records)]
      BY <1>5, <1>6, <2>3
    <3>3. QED
      BY <2>1, <3>1, <3>2 DEF Inv, TypeOK
  <2>4. QED
    BY <1>9, <2>2, <2>3 DEF poll_shutdown, q, c
<1>10. QED
  BY <1>8, <1>9

-----------------------------------------------------------------------------
LEMMA InitInv == Init => Inv
<1> SUFFICES ASSUME Init PROVE Inv
  OBVIOUS
<1>1. PICK secrets \in [Peers -> BOOLEAN] :
          st = [p \in Peers |-> NewStream(secrets[p])]
  BY DEF Init
<1>2. ASSUME NEW b \in BOOLEAN
      PROVE  /\ NewStream(b) \in Streams
             /\ NewStream(b).used_write_nonces = {}
             /\ NewStream(b).nonce_eviction_queue = << >>
             /\ NewStream(b).write_err = "none"
  <2>1. << >> \in Seq(Nat)
    OBVIOUS
  <2>2. QED
    BY <2>1 DEF NewStream, Streams, Stages, Errors
<1>3. \A p \in Peers : /\ st[p] \in Streams /\ st[p].used_write_nonces = {}
                       /\ st[p].nonce_eviction_queue = << >>
                       /\ st[p].write_err = "none"
  BY <1>1, <1>2
<1>4. TypeOK
  <2>1. st \in [Peers -> Streams]
    BY <1>1, <1>2
  <2>2. QED
    BY <2>1 DEF Init, TypeOK
<1>5. \A p \in Peers : Len(log[p]) = 0
  BY DEF Init
<1>6. RecordsBehind /\ NonceUnique
  BY <1>5 DEF RecordsBehind, NonceUnique
<1>7. CachesBelow /\ NonceGuardSilent
  BY <1>3, EmptyCache DEF CachesBelow, NonceGuardSilent
<1>8. QED
  BY <1>4, <1>6, <1>7 DEF Inv

(* Every call of either peer preserves the invariant. *)
LEMMA NextInv == Inv /\ [Next]_vars => Inv'
<1> SUFFICES ASSUME Inv, [Next]_vars PROVE Inv'
  OBVIOUS
<1>1. CASE UNCHANGED vars
  BY <1>1 DEF vars, Inv, TypeOK, RecordsBehind, NonceUnique, CachesBelow,
              NonceGuardSilent
<1>2. ASSUME NEW p \in Peers, WriterStep(p), TypeOK'
      PROVE  Inv'
  BY <1>2, WriterStepLemma DEF Inv
<1>3. CASE Next
  <2>1. PICK p \in Peers :
          \/ \E n \in Lens : write_application_data(p, n) \/ poll_write(p, n)
          \/ flush_pending_key_update(p)
          \/ AutoKeyUpdate(p)
          \/ WriteData(p)
          \/ \E b \in BOOLEAN : send_key_update(p, b)
          \/ close(p)
          \/ poll_shutdown(p)
          \/ read_application_data(p)
          \/ recv_close_notify(p)
          \/ \E cap \in Caps : poll_read(p, cap)
    BY <1>3 DEF Next
  <2>2. CASE \/ \E n \in Lens : write_application_data(p, n)
             \/ flush_pending_key_update(p)
             \/ AutoKeyUpdate(p)
             \/ WriteData(p)
    BY <1>2, <2>2, WriteStages
  <2>3. CASE close(p) \/ \E b \in BOOLEAN : send_key_update(p, b)
    BY <1>2, <2>3, CloseAndKeyUpdate
  <2>4. CASE poll_shutdown(p) \/ \E n \in Lens : poll_write(p, n)
    BY <1>2, <2>4, StreamApiStep
  <2>5. CASE read_application_data(p)
    BY <1>2, <2>5, ReadApplicationDataStep
  <2>6. CASE recv_close_notify(p)
    BY <1>2, <2>6, RecvCloseNotifyStep
  <2>7. CASE \E cap \in Caps : poll_read(p, cap)
    BY <1>2, <2>7, PollReadStep
  <2>8. QED
    BY <2>1, <2>2, <2>3, <2>4, <2>5, <2>6, <2>7
<1>4. QED
  BY <1>1, <1>3

(* The fields have their types, every record is behind its writer, and the *)
(* cache of used nonces holds only numbers below the next one, whatever    *)
(* the callers of the two GmTlsStream values do.                           *)
THEOREM Safety == Spec => []Inv
<1>1. Init => Inv
  BY InitInv
<1>2. Inv /\ [Next]_vars => Inv'
  BY NextInv
<1>3. QED
  BY <1>1, <1>2, PTL DEF Spec

(* The fields of both streams, the transport and the histories keep their  *)
(* types under every mixture of the record and the stream interface.       *)
THEOREM TypeCorrect == Spec => []TypeOK
<1>1. Inv => TypeOK
  BY DEF Inv
<1>2. QED
  BY <1>1, Safety, PTL

(* No key and nonce seal two records, for every threshold, limit, cache    *)
(* size and number of records.                                             *)
THEOREM NonceUniqueness == Spec => []NonceUnique
<1>1. Inv => NonceUnique
  BY DEF Inv
<1>2. QED
  BY <1>1, Safety, PTL

(* The set of remembered nonces and its queue stay together and within     *)
(* MAX_NONCE_CACHE + 1 entries, whatever is written and whatever fails.    *)
THEOREM CacheStaysBounded == Spec => []NonceCacheBounded
<1>1. Inv => NonceCacheBounded
  BY DEF Inv, CachesBelow, CacheBelow, NonceCacheBounded
<1>2. QED
  BY <1>1, Safety, PTL

(* The nonce cache never refuses a record of a correct stream, whatever    *)
(* its size and the size of its eviction batch.                            *)
THEOREM NonceGuard == Spec => []NonceGuardSilent
<1>1. Inv => NonceGuardSilent
  BY DEF Inv
<1>2. QED
  BY <1>1, Safety, PTL

-----------------------------------------------------------------------------
(* Keys in step.  A direction is what one peer has written, L, the         *)
(* stream w that wrote it, the state d of the transport's direction, how   *)
(* many records n the other peer has taken, and its stream r.              *)

Updates == {"ku", "ku_req"}

(* No write of a record is held up by the transport but at its end. *)
Smooth == ~Backpressure \/ "stream" \notin Apis

(* The key and the number that come after the first n records. *)
Follows(L, n, epoch, seq) ==
    IF n = 0 THEN epoch = 0 /\ seq = 0
    ELSE IF L[n].kind \in Updates THEN epoch = L[n].epoch + 1 /\ seq = 0
    ELSE epoch = L[n].epoch /\ seq = L[n].seq + 1

Chained(L) == \A i \in 1..Len(L) : Follows(L, i - 1, L[i].epoch, L[i].seq)

(* Intact, of a log. *)
Whole(L) ==
    \A i \in 1..Len(L) :
        /\ L[i].kind # "torn"
        /\ \/ i = 1 /\ L[i].epoch = 0 /\ L[i].seq = 0
           \/ i > 1 /\ L[i].epoch = L[i - 1].epoch /\ L[i].seq = L[i - 1].seq + 1
           \/ /\ i > 1 /\ L[i - 1].kind \in Updates
              /\ L[i].epoch = L[i - 1].epoch + 1 /\ L[i].seq = 0

Marked(L, w, d) ==
    \A i \in 1..Len(L) :
        /\ L[i].seq # MaxSeq
        /\ L[i].kind = "alert" => d \/ w.close_notify_sent

(* Nothing follows a KeyUpdate under its own key. *)
Rotates(L, w, d) ==
    \A i \in 1..Len(L) : L[i].kind \in Updates =>
        IF i = Len(L) THEN d \/ w.write_epoch > L[i].epoch
        ELSE L[i + 1].epoch > L[i].epoch

WriterFollows(L, w, d) ==
    Chained(L) /\ (d \/ Follows(L, Len(L), w.write_epoch, w.write_seq))

ReaderFollows(L, n, r) ==
    Chained(L) /\ r.close_result = "none" =>
        Follows(L, n, r.read_epoch, r.read_seq) /\ r.read_err # "CipherError"

Direction(L, w, d, n, r) ==
    /\ n <= Len(L)
    /\ Marked(L, w, d)
    /\ w.traffic_secrets => Rotates(L, w, d)
    /\ Smooth /\ w.traffic_secrets => WriterFollows(L, w, d)
    /\ w.traffic_secrets /\ r.traffic_secrets =>
          /\ ReaderFollows(L, n, r)
          /\ ~d /\ Whole(L) /\ ~w.close_notify_sent => r.read_err = "none"

(* The answer to a requested KeyUpdate has left before the data does, and  *)
(* the data in progress is a buffer some caller passed.                    *)
Flushed(L, w) ==
    /\ w.stage # "idle" => w.len \in Lens
    /\ w.stage \in {"auto", "data"} => ~w.key_update_pending
    /\ "stream" \notin Apis =>
          \A i \in 1..Len(L) : L[i].kind = "data" => ~L[i].pending

Sync ==
    \A p \in Peers :
        /\ Direction(log[p], st[p], down[p], rpos[Other(p)], st[Other(p)])
        /\ Flushed(log[p], st[p])

-----------------------------------------------------------------------------
(* What a call of the writer does to its direction. *)

SameReader(s, t) ==
    /\ t.read_epoch = s.read_epoch /\ t.read_seq = s.read_seq
    /\ t.read_err = s.read_err /\ t.close_result = s.close_result
    /\ t.traffic_secrets <=> s.traffic_secrets
    /\ t.read_buf = s.read_buf

(* A reader that has taken no record; its buffer may have been emptied. *)
Unmoved(s, t) ==
    /\ t.read_epoch = s.read_epoch /\ t.read_seq = s.read_seq
    /\ t.read_err = s.read_err /\ t.close_result = s.close_result
    /\ t.traffic_secrets <=> s.traffic_secrets

(* The writer went from w to t, by sealing x. *)
Sealed(x, w, t, d2) ==
    /\ x.epoch = w.write_epoch /\ x.seq = w.write_seq /\ x.seq # MaxSeq
    /\ x.kind = "alert" => d2 \/ t.close_notify_sent
    /\ x.kind = "data" /\ "stream" \notin Apis => ~x.pending
    /\ \/ /\ x.kind \in Updates /\ w.traffic_secrets
          /\ t.write_epoch = x.epoch + 1 /\ t.write_seq = 0
       \/ /\ d2 \/ ~(x.kind \in Updates /\ w.traffic_secrets)
          /\ t.write_epoch = x.epoch /\ t.write_seq = x.seq + 1

Moves(L, w, d, L2, t, d2) ==
    /\ SameReader(w, t)
    /\ d => d2
    /\ w.close_notify_sent => t.close_notify_sent
    /\ t.stage \in {"auto", "data"} => ~t.key_update_pending
    /\ t.stage # "idle" => t.len \in Lens
    /\ \/ /\ L2 = L /\ t.write_epoch = w.write_epoch
          /\ \/ t.write_seq = w.write_seq
             \/ t.write_seq = w.write_seq + 1 /\ (d2 \/ ~Smooth)
       \/ ~d /\ \E x \in Records : L2 = Append(L, x) /\ Sealed(x, w, t, d2)

(* n bytes after the first b. *)
Bytes(b, n) == [i \in 1..n |-> b + i]

(* The bytes of x, sent when se bytes of data had gone before. *)
Carries(x, se, d2) ==
    /\ IF x.kind = "data"
       THEN Len(x.body) \in Lens /\ x.body = Bytes(se, Len(x.body))
       ELSE x.body = << >>
    /\ x.kind = "alert" => d2 \/ "record" \in Apis

Fills(L, se, L2, d2, se2) ==
    \/ L2 = L /\ se2 = se
    \/ \E x \in Records : /\ L2 = Append(L, x) /\ Carries(x, se, d2)
                          /\ se2 = se + Len(x.body)

LEMMA Appended ==
    ASSUME NEW L \in Seq(Records), NEW x \in Records
    PROVE  /\ Append(L, x) \in Seq(Records)
           /\ Len(Append(L, x)) = Len(L) + 1 /\ Len(L) \in Nat
           /\ \A i \in 1..Len(L) : Append(L, x)[i] = L[i] /\ i \in 1..Len(L) + 1
           /\ Append(L, x)[Len(L) + 1] = x /\ Len(L) + 1 \in 1..Len(L) + 1
           /\ \A i \in 1..Len(L) + 1 : i \in 1..Len(L) \/ i = Len(L) + 1
  OBVIOUS

(* A longer log chains and is whole only if the shorter one was; the first *)
(* n records say the same of what follows them.                            *)
LEMMA Longer ==
    ASSUME NEW L \in Seq(Records), NEW x \in Records, NEW L2, L2 = Append(L, x)
    PROVE  /\ \A n \in 0..Len(L) : \A e, k : Follows(L2, n, e, k) <=> Follows(L, n, e, k)
           /\ Chained(L2) <=> Chained(L) /\ Follows(L, Len(L), x.epoch, x.seq)
           /\ Whole(L2) => Whole(L)
<1>1. PICK n \in Nat : n = Len(L)
  OBVIOUS
<1>2. /\ Len(L2) = n + 1 /\ L2[n + 1] = x /\ n + 1 \in 1..n + 1
      /\ \A i \in 1..n : L2[i] = L[i] /\ i \in 1..n + 1
      /\ \A i \in 1..n + 1 : i \in 1..n \/ i = n + 1
  BY <1>1, Appended
<1>3. \A m \in 0..n : \A e, k : Follows(L2, m, e, k) <=> Follows(L, m, e, k)
  <2>1. SUFFICES ASSUME NEW m \in 0..n, m # 0
                 PROVE  L2[m] = L[m]
    BY DEF Follows
  <2>2. m \in 1..n
    BY <1>1, <2>1
  <2>3. QED
    BY <1>2, <2>2
<1>4. \A i \in 1..n : i - 1 \in 0..n
  BY <1>1
<1>5. Chained(L2) <=> Chained(L) /\ Follows(L, n, x.epoch, x.seq)
  <2>1. ASSUME Chained(L2) PROVE Chained(L) /\ Follows(L, n, x.epoch, x.seq)
    <3>1. ASSUME NEW i \in 1..n PROVE Follows(L, i - 1, L[i].epoch, L[i].seq)
      BY <1>2, <1>3, <1>4, <2>1 DEF Chained
    <3>2. Follows(L2, (n + 1) - 1, x.epoch, x.seq)
      BY <1>2, <2>1 DEF Chained
    <3>3. (n + 1) - 1 = n /\ n \in 0..n
      BY <1>1
    <3>4. QED
      BY <1>1, <1>3, <3>1, <3>2, <3>3 DEF Chained
  <2>2. ASSUME Chained(L), Follows(L, n, x.epoch, x.seq) PROVE Chained(L2)
    <3>1. ASSUME NEW i \in 1..n PROVE Follows(L2, i - 1, L2[i].epoch, L2[i].seq)
      BY <1>1, <1>2, <1>3, <1>4, <2>2 DEF Chained
    <3>2. (n + 1) - 1 = n /\ n \in 0..n
      BY <1>1
    <3>3. Follows(L2, (n + 1) - 1, L2[n + 1].epoch, L2[n + 1].seq)
      BY <1>2, <1>3, <2>2, <3>2
    <3>4. QED
      BY <1>2, <3>1, <3>3 DEF Chained
  <2>3. QED
    BY <2>1, <2>2
<1>6. ASSUME Whole(L2) PROVE Whole(L)
  <2>1. SUFFICES ASSUME NEW i \in 1..n
                 PROVE  /\ L[i].kind # "torn"
                        /\ \/ i = 1 /\ L[i].epoch = 0 /\ L[i].seq = 0
                           \/ /\ i > 1 /\ L[i].epoch = L[i - 1].epoch
                              /\ L[i].seq = L[i - 1].seq + 1
                           \/ /\ i > 1 /\ L[i - 1].kind \in Updates
                              /\ L[i].epoch = L[i - 1].epoch + 1 /\ L[i].seq = 0
    BY <1>1 DEF Whole
  <2>2. i > 1 => i - 1 \in 1..n
    BY <1>1
  <2>3. L2[i] = L[i] /\ (i > 1 => L2[i - 1] = L[i - 1])
    BY <1>2, <2>2
  <2>4. i \in 1..Len(L2)
    BY <1>2
  <2>5. QED
    BY <1>6, <2>3, <2>4 DEF Whole
<1>7. QED
  BY <1>1, <1>3, <1>5, <1>6

(* An intact log of a writer that rotates is chained. *)
LEMMA WholeChained ==
    ASSUME NEW L \in Seq(Records), NEW w, NEW d, Whole(L), Rotates(L, w, d)
    PROVE  Chained(L)
<1>1. PICK n \in Nat : n = Len(L)
  OBVIOUS
<1>2. SUFFICES ASSUME NEW i \in 1..n
               PROVE  Follows(L, i - 1, L[i].epoch, L[i].seq)
  BY <1>1 DEF Chained
<1>3. CASE i = 1
  BY <1>1, <1>2, <1>3 DEF Whole, Follows
<1>4. CASE i # 1
  <2>1. PICK j \in 1..n : j = i - 1
    BY <1>2, <1>4
  <2>2. j # n /\ j + 1 = i /\ j # 0 /\ i > 1
    BY <1>2, <1>4, <2>1
  <2>3. L[j] \in Records /\ L[i] \in Records
    BY <1>1, <1>2, <2>1
  <2>4. \/ L[i].epoch = L[j].epoch /\ L[i].seq = L[j].seq + 1
        \/ /\ L[j].kind \in Updates
           /\ L[i].epoch = L[j].epoch + 1 /\ L[i].seq = 0
    BY <1>1, <1>2, <1>4, <2>1 DEF Whole
  <2>5. L[j].kind \in Updates => L[i].epoch > L[j].epoch
    BY <1>1, <2>1, <2>2 DEF Rotates
  <2>6. L[j].epoch \in Nat
    BY <2>3 DEF Records
  <2>7. Follows(L, j, L[i].epoch, L[i].seq)
    BY <2>2, <2>4, <2>5, <2>6 DEF Follows
  <2>8. QED
    BY <2>1, <2>7
<1>5. QED
  BY <1>3, <1>4

LEMMA DirectionWritten ==
    ASSUME NEW L \in Seq(Records), NEW w \in Streams, NEW t \in Streams,
           NEW d \in BOOLEAN, NEW d2 \in BOOLEAN, NEW n \in Nat, NEW r \in Streams,
           NEW L2, Direction(L, w, d, n, r), Moves(L, w, d, L2, t, d2)
    PROVE  Direction(L2, t, d2, n, r)
<1>1. PICK len \in Nat : len = Len(L)
  OBVIOUS
<1>2. /\ d => d2
      /\ t.traffic_secrets <=> w.traffic_secrets
      /\ w.close_notify_sent => t.close_notify_sent
  BY DEF Moves, SameReader
<1>3. /\ n <= len /\ Marked(L, w, d)
      /\ w.traffic_secrets => Rotates(L, w, d)
      /\ Smooth /\ w.traffic_secrets => WriterFollows(L, w, d)
      /\ w.traffic_secrets /\ r.traffic_secrets =>
            /\ ReaderFollows(L, n, r)
            /\ ~d /\ Whole(L) /\ ~w.close_notify_sent => r.read_err = "none"
  BY <1>1 DEF Direction
<1>4. CASE /\ L2 = L /\ t.write_epoch = w.write_epoch
           /\ \/ t.write_seq = w.write_seq
              \/ t.write_seq = w.write_seq + 1 /\ (d2 \/ ~Smooth)
  <2>1. Marked(L2, t, d2)
    BY <1>2, <1>3, <1>4 DEF Marked
  <2>2. t.traffic_secrets => Rotates(L2, t, d2)
    BY <1>2, <1>3, <1>4 DEF Rotates
  <2>3. Smooth /\ t.traffic_secrets => WriterFollows(L2, t, d2)
    BY <1>2, <1>3, <1>4 DEF WriterFollows
  <2>4. QED
    BY <1>1, <1>2, <1>3, <1>4, <2>1, <2>2, <2>3 DEF Direction
<1>5. CASE ~d /\ \E x \in Records : L2 = Append(L, x) /\ Sealed(x, w, t, d2)
  <2>1. PICK x \in Records : L2 = Append(L, x) /\ Sealed(x, w, t, d2)
    BY <1>5
  <2>2. /\ Len(L2) = len + 1 /\ L2[len + 1] = x
        /\ \A i \in 1..len : L2[i] = L[i]
        /\ \A i \in 1..len + 1 : i \in 1..len \/ i = len + 1
    BY <1>1, <2>1, Appended
  <2>3. /\ \A m \in 0..len : \A e, k : Follows(L2, m, e, k) <=> Follows(L, m, e, k)
        /\ Chained(L2) <=> Chained(L) /\ Follows(L, len, x.epoch, x.seq)
        /\ Whole(L2) => Whole(L)
    BY <1>1, <2>1, Longer
  <2>4. /\ x.epoch = w.write_epoch /\ x.seq = w.write_seq /\ x.seq # MaxSeq
        /\ x.kind = "alert" => d2 \/ t.close_notify_sent
        /\ \/ d2
           \/ IF x.kind \in Updates /\ w.traffic_secrets
              THEN t.write_epoch = x.epoch + 1 /\ t.write_seq = 0
              ELSE t.write_epoch = x.epoch /\ t.write_seq = x.seq + 1
    BY <2>1 DEF Sealed
  <2>5. Marked(L2, t, d2)
    <3>1. SUFFICES ASSUME NEW i \in 1..len + 1
                   PROVE  /\ L2[i].seq # MaxSeq
                          /\ L2[i].kind = "alert" => d2 \/ t.close_notify_sent
      BY <2>2 DEF Marked
    <3>2. CASE i \in 1..len
      BY <1>1, <1>2, <1>3, <2>2, <3>2 DEF Marked
    <3>3. CASE i = len + 1
      BY <2>2, <2>4, <3>3
    <3>4. QED
      BY <2>2, <3>2, <3>3
  <2>6. ASSUME t.traffic_secrets PROVE Rotates(L2, t, d2)
    <3>1. SUFFICES ASSUME NEW i \in 1..len + 1, L2[i].kind \in Updates
                   PROVE  IF i = len + 1 THEN d2 \/ t.write_epoch > L2[i].epoch
                          ELSE L2[i + 1].epoch > L2[i].epoch
      BY <2>2 DEF Rotates
    <3>2. CASE i = len + 1
      <4>1. x.epoch \in Nat
        BY DEF Records
      <4>2. QED
        BY <1>2, <2>2, <2>4, <2>6, <3>1, <3>2, <4>1
    <3>3. CASE i \in 1..len /\ i = len
      <4>1. w.write_epoch > L[i].epoch
        BY <1>1, <1>2, <1>3, <1>5, <2>2, <2>6, <3>1, <3>3 DEF Rotates
      <4>2. i # len + 1
        BY <3>3
      <4>3. QED
        BY <2>2, <2>4, <3>3, <4>1, <4>2
    <3>4. CASE i \in 1..len /\ i # len
      <4>1. L[i + 1].epoch > L[i].epoch
        BY <1>1, <1>2, <1>3, <2>2, <2>6, <3>1, <3>4 DEF Rotates
      <4>2. i + 1 \in 1..len /\ i # len + 1
        BY <3>4
      <4>3. QED
        BY <2>2, <3>4, <4>1, <4>2
    <3>5. QED
      BY <2>2, <3>2, <3>3, <3>4
  <2>7. ASSUME Smooth, t.traffic_secrets PROVE WriterFollows(L2, t, d2)
    <3>1. Chained(L) /\ Follows(L, len, w.write_epoch, w.write_seq)
      BY <1>1, <1>2, <1>3, <1>5, <2>7 DEF WriterFollows
    <3>2. Chained(L2)
      BY <2>3, <2>4, <3>1
    <3>3. d2 \/ Follows(L2, len + 1, t.write_epoch, t.write_seq)
      BY <1>1, <1>2, <2>2, <2>4, <2>7 DEF Follows
    <3>4. QED
      BY <2>2, <3>2, <3>3 DEF WriterFollows
  <2>8. ASSUME ReaderFollows(L, n, r) PROVE ReaderFollows(L2, n, r)
    <3>1. n \in 0..len
      BY <1>3
    <3>2. QED
      BY <2>3, <2>8, <3>1 DEF ReaderFollows
  <2>9. n <= Len(L2)
    BY <1>3, <2>2
  <2>10. ASSUME w.traffic_secrets, r.traffic_secrets,
                ~d2, Whole(L2), ~t.close_notify_sent
         PROVE  r.read_err = "none"
    BY <1>2, <1>3, <2>3, <2>10
  <2>11. QED
    BY <1>2, <1>3, <2>5, <2>6, <2>7, <2>8, <2>9, <2>10 DEF Direction
<1>6. QED
  BY <1>4, <1>5 DEF Moves

-----------------------------------------------------------------------------
(* What a call of the reader does to the direction it reads: r went to u.  *)

Erred(L, d, n, r, n2, u) ==
    /\ u.read_epoch = r.read_epoch
    /\ \/ /\ n2 = n /\ u.read_seq = r.read_seq
          /\ u.read_err # "CipherError" \/ u.read_err = r.read_err
          /\ d \/ (n < Len(L) /\ L[n + 1].kind = "torn")
       \/ /\ n2 = n + 1 /\ n < Len(L)
          /\ u.read_seq \in {r.read_seq, r.read_seq + 1}
          /\ \/ r.read_seq = MaxSeq
             \/ ~(L[n + 1].epoch = r.read_epoch /\ L[n + 1].seq = r.read_seq)

Took(L, n, r, n2, u) ==
    /\ n < Len(L) /\ n2 = n + 1
    /\ L[n + 1].epoch = r.read_epoch /\ L[n + 1].seq = r.read_seq
    /\ u.read_err = r.read_err \/ (L[n + 1].kind = "alert" /\ u.read_err # "CipherError")
       \/ ~r.traffic_secrets
    /\ IF /\ L[n + 1].kind \in Updates
          /\ r.traffic_secrets /\ u.close_result = "none"
       THEN u.read_epoch = r.read_epoch + 1 /\ u.read_seq = 0
       ELSE u.read_epoch = r.read_epoch /\ u.read_seq = r.read_seq + 1

ReadsOn(L, d, n, r, n2, u) ==
    /\ r.close_result = "none" /\ (u.traffic_secrets <=> r.traffic_secrets)
    /\ \/ n2 = n /\ Unmoved(r, u)
       \/ Erred(L, d, n, r, n2, u)
       \/ Took(L, n, r, n2, u)

(* What follows a prefix of the log is one key and one number. *)
LEMMA FollowsOnce ==
    ASSUME NEW L, NEW n, NEW e, NEW k, NEW e2, NEW k2,
           Follows(L, n, e, k), Follows(L, n, e2, k2)
    PROVE  e = e2 /\ k = k2
  BY DEF Follows

LEMMA DirectionRead ==
    ASSUME NEW L \in Seq(Records), NEW w \in Streams, NEW d \in BOOLEAN,
           NEW n \in Nat, NEW n2 \in Nat, NEW r \in Streams, NEW u \in Streams,
           Direction(L, w, d, n, r), ReadsOn(L, d, n, r, n2, u)
    PROVE  Direction(L, w, d, n2, u)
<1>1. PICK len \in Nat : len = Len(L)
  OBVIOUS
<1>2. /\ u.traffic_secrets <=> r.traffic_secrets
      /\ r.close_result = "none"
  BY DEF ReadsOn
<1>3. /\ n <= len /\ Marked(L, w, d)
      /\ w.traffic_secrets => Rotates(L, w, d)
      /\ w.traffic_secrets /\ r.traffic_secrets =>
            /\ ReaderFollows(L, n, r)
            /\ ~d /\ Whole(L) /\ ~w.close_notify_sent => r.read_err = "none"
  BY <1>1 DEF Direction
<1>4. SUFFICES /\ n2 <= len
               /\ w.traffic_secrets /\ r.traffic_secrets =>
                     /\ ReaderFollows(L, n2, u)
                     /\ ~d /\ Whole(L) /\ ~w.close_notify_sent =>
                           u.read_err = "none"
  BY <1>1, <1>2 DEF Direction
<1>5. n2 <= len
  BY <1>1, <1>3 DEF ReadsOn, Erred, Took
<1>6. ASSUME w.traffic_secrets, r.traffic_secrets
      PROVE  /\ ReaderFollows(L, n2, u)
             /\ ~d /\ Whole(L) /\ ~w.close_notify_sent => u.read_err = "none"
  <2>1. /\ Chained(L) => /\ Follows(L, n, r.read_epoch, r.read_seq)
                         /\ r.read_err # "CipherError"
        /\ ~d /\ Whole(L) /\ ~w.close_notify_sent => r.read_err = "none"
        /\ Whole(L) => Chained(L)
    BY <1>2, <1>3, <1>6, WholeChained DEF ReaderFollows
  <2>2. ASSUME n < len, Chained(L)
        PROVE  /\ L[n + 1].epoch = r.read_epoch /\ L[n + 1].seq = r.read_seq
               /\ r.read_seq # MaxSeq
    <3>1. PICK i \in 1..len : i = n + 1
      BY <2>2
    <3>2. i - 1 = n
      BY <3>1
    <3>3. Follows(L, n, L[i].epoch, L[i].seq)
      BY <1>1, <2>2, <3>1, <3>2 DEF Chained
    <3>4. L[i].seq # MaxSeq
      BY <1>1, <1>3, <3>1 DEF Marked
    <3>5. QED
      BY <2>1, <2>2, <3>1, <3>3, <3>4, FollowsOnce
  <2>3. CASE n2 = n /\ Unmoved(r, u)
    BY <1>2, <2>1, <2>3 DEF Unmoved, ReaderFollows
  <2>4. CASE Erred(L, d, n, r, n2, u)
    <3>1. CASE /\ n2 = n /\ u.read_seq = r.read_seq
               /\ u.read_err # "CipherError" \/ u.read_err = r.read_err
               /\ d \/ (n < len /\ L[n + 1].kind = "torn")
      <4>1. n < len /\ L[n + 1].kind = "torn" => ~Whole(L)
        BY <1>1 DEF Whole
      <4>2. u.read_epoch = r.read_epoch
        BY <2>4 DEF Erred
      <4>3. QED
        BY <2>1, <3>1, <4>1, <4>2 DEF ReaderFollows
    <3>2. CASE /\ n2 = n + 1 /\ n < len
               /\ \/ r.read_seq = MaxSeq
                  \/ ~(L[n + 1].epoch = r.read_epoch /\ L[n + 1].seq = r.read_seq)
      <4>1. ~Chained(L)
        BY <2>2, <3>2
      <4>2. QED
        BY <2>1, <4>1 DEF ReaderFollows
    <3>3. QED
      BY <1>1, <2>4, <3>1, <3>2 DEF Erred
  <2>5. CASE Took(L, n, r, n2, u)
    <3>1. /\ n < len /\ n2 = n + 1 /\ n2 # 0
          /\ L[n2].epoch = r.read_epoch /\ L[n2].seq = r.read_seq
          /\ u.read_err = r.read_err \/ (L[n2].kind = "alert" /\ u.read_err # "CipherError")
          /\ u.close_result # "none" \/ Follows(L, n2, u.read_epoch, u.read_seq)
      BY <1>1, <1>6, <2>5 DEF Took, Follows
    <3>2. L[n2].kind = "alert" => d \/ w.close_notify_sent
      <4>1. n2 \in 1..len
        BY <3>1
      <4>2. QED
        BY <1>1, <1>3, <4>1 DEF Marked
    <3>3. QED
      BY <2>1, <3>1, <3>2 DEF ReaderFollows
  <2>6. QED
    BY <2>3, <2>4, <2>5 DEF ReadsOn
<1>7. QED
  BY <1>4, <1>5, <1>6

(* Nothing of the other half is touched, and no flag. *)
Keeps(s, t) ==
    /\ SameReader(s, t)
    /\ t.key_update_pending <=> s.key_update_pending
    /\ t.close_notify_sent <=> s.close_notify_sent
    /\ t.len = s.len

LEMMA KeepsTwice ==
    ASSUME NEW s, NEW t, NEW v, Keeps(s, t), Keeps(t, v)
    PROVE  Keeps(s, v)
  BY DEF Keeps, SameReader

(* The functions the writers apply to their stream. *)
LEMMA WriterFunctions ==
    ASSUME NEW s \in Streams
    PROVE  /\ Keeps(s, check_and_record_nonce(s))
           /\ Keeps(s, NonceTaken(s))
           /\ \A e : Keeps(s, WriteFails(s, e))
           /\ Keeps(s, rotate_write_key(s))
           /\ \A g : Keeps(s, [s EXCEPT !.stage = g])
<1>1. Keeps(s, Evicted(s)) /\ Evicted(s) \in Streams
  <2>1. \A a, b : Keeps(s, [s EXCEPT !.used_write_nonces = a,
                                     !.nonce_eviction_queue = b])
    BY DEF Keeps, SameReader, Streams
  <2>2. Keeps(s, s)
    BY DEF Keeps, SameReader
  <2>3. QED
    BY <2>1, <2>2, EvictedLemma DEF Evicted
<1>2. Keeps(s, check_and_record_nonce(s))
  <2>1. \A v \in Streams : \A a, b :
            Keeps(v, [v EXCEPT !.nonce_eviction_queue = a,
                               !.used_write_nonces = b])
    BY DEF Keeps, SameReader, Streams
  <2>2. Keeps(Evicted(s), check_and_record_nonce(s))
    BY <1>1, <2>1 DEF check_and_record_nonce
  <2>3. QED
    BY <1>1, <2>2, KeepsTwice
<1>3. Keeps(s, NonceTaken(s))
  <2>1. \A v \in Streams : \A a : Keeps(v, [v EXCEPT !.write_seq = a])
    BY DEF Keeps, SameReader, Streams
  <2>2. check_and_record_nonce(s) \in Streams
    BY NonceTakenLemma
  <2>3. Keeps(check_and_record_nonce(s), NonceTaken(s))
    BY <2>1, <2>2 DEF NonceTaken
  <2>4. QED
    BY <1>2, <2>3, KeepsTwice
<1>4. \A e : Keeps(s, WriteFails(s, e))
  BY DEF Keeps, SameReader, WriteFails, Streams
<1>5. Keeps(s, rotate_write_key(s))
  BY DEF Keeps, SameReader, rotate_write_key, Streams
<1>6. \A g : Keeps(s, [s EXCEPT !.stage = g])
  BY DEF Keeps, SameReader, Streams
<1>7. QED
  BY <1>2, <1>3, <1>4, <1>5, <1>6

(* send_key_update rotates, or fails for want of a secret. *)
LEMMA KeyUpdateKeeps ==
    ASSUME NEW s \in Streams, NEW g \in Stages
    PROVE  /\ KeyUpdateSent(s, g) \in Streams
           /\ Keeps(s, KeyUpdateSent(s, g))
           /\ KeyUpdateSent(s, g).stage \in {g, "idle"}
           /\ IF s.traffic_secrets
              THEN /\ KeyUpdateSent(s, g).write_epoch = s.write_epoch + 1
                   /\ KeyUpdateSent(s, g).write_seq = 0
              ELSE /\ KeyUpdateSent(s, g).write_epoch = s.write_epoch
                   /\ KeyUpdateSent(s, g).write_seq = s.write_seq + 1
<1>1. CASE s.traffic_secrets
  <2> DEFINE v == rotate_write_key(s)
  <2>1. /\ v \in Streams /\ v.write_epoch = s.write_epoch + 1
        /\ v.write_seq = 0 /\ Keeps(s, v)
    BY RotateLemma, WriterFunctions
  <2> HIDE DEF v
  <2>2. KeyUpdateSent(s, g) = [v EXCEPT !.stage = g]
    BY <1>1 DEF KeyUpdateSent, v
  <2>3. /\ KeyUpdateSent(s, g) \in Streams
        /\ KeyUpdateSent(s, g).write_epoch = v.write_epoch
        /\ KeyUpdateSent(s, g).write_seq = v.write_seq
        /\ KeyUpdateSent(s, g).stage = g
    BY <2>1, <2>2 DEF Streams
  <2>4. Keeps(v, KeyUpdateSent(s, g))
    BY <2>1, <2>2, WriterFunctions
  <2>5. Keeps(s, KeyUpdateSent(s, g))
    BY <2>1, <2>4, KeepsTwice
  <2>6. QED
    BY <1>1, <2>1, <2>3, <2>5
<1>2. CASE ~s.traffic_secrets
  <2> DEFINE v == NonceTaken(s)
  <2>1. /\ v \in Streams /\ v.write_epoch = s.write_epoch
        /\ v.write_seq = s.write_seq + 1 /\ Keeps(s, v)
    BY NonceTakenLemma, WriterFunctions
  <2> HIDE DEF v
  <2>2. KeyUpdateSent(s, g) = WriteFails(v, "NoSecret")
    BY <1>2 DEF KeyUpdateSent, v
  <2>3. Keeps(s, WriteFails(v, "NoSecret"))
    <3>1. Keeps(v, WriteFails(v, "NoSecret"))
      BY <2>1, WriterFunctions
    <3>2. QED
      BY <2>1, <3>1, KeepsTwice
  <2>4. /\ WriteFails(v, "NoSecret") \in Streams
        /\ WriteFails(v, "NoSecret").write_epoch = v.write_epoch
        /\ WriteFails(v, "NoSecret").write_seq = v.write_seq
        /\ WriteFails(v, "NoSecret").stage = "idle"
    BY <2>1, FailsLemma DEF Errors
  <2>5. QED
    BY <1>2, <2>1, <2>2, <2>3, <2>4
<1>3. QED
  BY <1>1, <1>2

(* p's calls that write leave the other peer alone and what it has read. *)
WriterMoves(p) ==
    /\ Moves(log[p], st[p], down[p], log'[p], st'[p], down'[p])
    /\ Fills(log[p], sent[p], log'[p], down'[p], sent'[p])
    /\ \A q \in Peers \ {p} :
          /\ st'[q] = st[q] /\ log'[q] = log[q] /\ down'[q] = down[q]
          /\ sent'[q] = sent[q]
    /\ UNCHANGED <<rpos, delivered, ended>>

(* TrackedRecord moves the writer as Moves says. *)
LEMMA TrackedMoves ==
    ASSUME Inv, NEW p \in Peers, NEW s \in Streams, NEW kind \in Kinds,
           NEW body \in Seq(Nat), NEW done \in Streams,
           s.write_epoch = st[p].write_epoch, s.write_seq = st[p].write_seq,
           SameReader(st[p], s),
           s.close_notify_sent <=> st[p].close_notify_sent,
           SameReader(s, done), s.close_notify_sent => done.close_notify_sent,
           done.stage \in {"auto", "data"} => ~done.key_update_pending,
           done.stage # "idle" => done.len \in Lens,
           kind = "alert" => done.close_notify_sent /\ "record" \in Apis,
           kind = "data" => ~s.key_update_pending,
           IF kind = "data"
           THEN Len(body) \in Lens /\ body = Bytes(sent[p], Len(body))
           ELSE body = << >>,
           IF kind \in Updates /\ s.traffic_secrets
           THEN done.write_epoch = s.write_epoch + 1 /\ done.write_seq = 0
           ELSE /\ done.write_epoch = s.write_epoch
                /\ done.write_seq = s.write_seq + 1,
           TrackedRecord(p, s, kind, body, done),
           UNCHANGED <<rpos, delivered, ended>>
    PROVE  WriterMoves(p)
<1>1. /\ st \in [Peers -> Streams] /\ log \in [Peers -> Seq(Records)]
      /\ down \in [Peers -> BOOLEAN] /\ sent \in [Peers -> Nat]
  BY DEF Inv, TypeOK
<1> DEFINE x == Record(s, kind, body)
           torn == Record(s, "torn", << >>)
           failed == WriteFails(NonceTaken(s), "IoError")
           over == WriteFails(s, "SequenceOverflow")
           reuse == WriteFails(check_and_record_nonce(s), "NonceReuse")
<1>2. /\ over.write_epoch = s.write_epoch /\ over.write_seq = s.write_seq
      /\ over.stage = "idle" /\ Keeps(s, over)
  BY FailsLemma, WriterFunctions DEF Errors
<1>3. /\ reuse.write_epoch = s.write_epoch /\ reuse.write_seq = s.write_seq
      /\ reuse.stage = "idle" /\ Keeps(s, reuse)
  <2> DEFINE c == check_and_record_nonce(s)
  <2>1. /\ c \in Streams /\ c.write_epoch = s.write_epoch
        /\ c.write_seq = s.write_seq /\ Keeps(s, c)
    BY NonceTakenLemma, WriterFunctions
  <2> HIDE DEF c
  <2>2. /\ WriteFails(c, "NonceReuse").write_epoch = c.write_epoch
        /\ WriteFails(c, "NonceReuse").write_seq = c.write_seq
        /\ WriteFails(c, "NonceReuse").stage = "idle"
        /\ Keeps(c, WriteFails(c, "NonceReuse"))
    BY <2>1, FailsLemma, WriterFunctions DEF Errors
  <2>3. QED
    BY <2>1, <2>2, KeepsTwice DEF c
<1>4. /\ failed.write_epoch = s.write_epoch
      /\ failed.write_seq = s.write_seq + 1
      /\ failed.stage = "idle" /\ Keeps(s, failed)
  <2> DEFINE c == NonceTaken(s)
  <2>1. /\ c \in Streams /\ c.write_epoch = s.write_epoch
        /\ c.write_seq = s.write_seq + 1 /\ Keeps(s, c)
    BY NonceTakenLemma, WriterFunctions
  <2> HIDE DEF c
  <2>2. /\ WriteFails(c, "IoError").write_epoch = c.write_epoch
        /\ WriteFails(c, "IoError").write_seq = c.write_seq
        /\ WriteFails(c, "IoError").stage = "idle"
        /\ Keeps(c, WriteFails(c, "IoError"))
    BY <2>1, FailsLemma, WriterFunctions DEF Errors
  <2>3. QED
    BY <2>1, <2>2, KeepsTwice DEF c
<1>5. /\ x \in Records /\ torn \in Records
      /\ x.epoch = s.write_epoch /\ x.seq = s.write_seq /\ x.kind = kind
      /\ torn.epoch = s.write_epoch /\ torn.seq = s.write_seq
      /\ torn.kind = "torn" /\ (x.pending <=> s.key_update_pending)
      /\ x.body = body /\ torn.body = << >>
  <2>1. "torn" \in Kinds /\ << >> \in Seq(Nat)
    BY DEF Kinds
  <2>2. QED
    BY <2>1, RecordLemma DEF Record
<1>6. /\ SameReader(st[p], over) /\ SameReader(st[p], reuse)
      /\ SameReader(st[p], failed) /\ SameReader(st[p], done)
      /\ over.close_notify_sent <=> s.close_notify_sent
      /\ reuse.close_notify_sent <=> s.close_notify_sent
      /\ failed.close_notify_sent <=> s.close_notify_sent
  BY <1>2, <1>3, <1>4 DEF Keeps, SameReader
<1>7. st[p].traffic_secrets <=> s.traffic_secrets
  BY DEF SameReader
<1> HIDE DEF x, torn, failed, over, reuse
<1>7a. \A d2 : /\ Carries(x, sent[p], d2) /\ Carries(torn, sent[p], d2)
               /\ Len(torn.body) = 0
  BY <1>5 DEF Carries
<1>8. CASE /\ s.write_seq = MaxSeq
           /\ st' = [st EXCEPT ![p] = over]
           /\ UNCHANGED <<log, down, sent>>
  <2>1. st'[p] = over /\ \A q \in Peers \ {p} : st'[q] = st[q]
    BY <1>1, <1>8
  <2>2. Moves(log[p], st[p], down[p], log'[p], st'[p], down'[p])
    BY <1>2, <1>6, <1>8, <2>1 DEF Moves
  <2>3. QED
    BY <1>8, <2>1, <2>2 DEF WriterMoves, Fills
<1>9. CASE /\ st' = [st EXCEPT ![p] = reuse]
           /\ UNCHANGED <<log, down, sent>>
  <2>1. st'[p] = reuse /\ \A q \in Peers \ {p} : st'[q] = st[q]
    BY <1>1, <1>9
  <2>2. Moves(log[p], st[p], down[p], log'[p], st'[p], down'[p])
    BY <1>3, <1>6, <1>9, <2>1 DEF Moves
  <2>3. QED
    BY <1>9, <2>1, <2>2 DEF WriterMoves, Fills
<1>10. CASE /\ s.write_seq # MaxSeq /\ ~down[p]
            /\ st' = [st EXCEPT ![p] = done]
            /\ log' = [log EXCEPT ![p] = Append(@, x)]
            /\ sent' = [sent EXCEPT ![p] = @ + Len(body)]
            /\ UNCHANGED down
  <2>1. /\ st'[p] = done /\ log'[p] = Append(log[p], x)
        /\ sent'[p] = sent[p] + Len(x.body)
        /\ \A q \in Peers \ {p} :
              st'[q] = st[q] /\ log'[q] = log[q] /\ sent'[q] = sent[q]
    BY <1>1, <1>5, <1>10
  <2>2. Sealed(x, st[p], done, down'[p])
    BY <1>5, <1>7, <1>10 DEF Sealed
  <2>3. Moves(log[p], st[p], down[p], log'[p], st'[p], down'[p])
    BY <1>5, <1>6, <1>10, <2>1, <2>2 DEF Moves
  <2>4. QED
    BY <1>5, <1>10, <1>7a, <2>1, <2>3 DEF WriterMoves, Fills
<1>11. CASE /\ s.write_seq # MaxSeq
            /\ st' = [st EXCEPT ![p] = failed]
            /\ down' = [down EXCEPT ![p] = TRUE]
            /\ \/ UNCHANGED <<log, sent>>
               \/ /\ ~down[p] /\ log' = [log EXCEPT ![p] = Append(@, torn)]
                  /\ UNCHANGED sent
               \/ /\ ~down[p] /\ log' = [log EXCEPT ![p] = Append(@, x)]
                  /\ sent' = [sent EXCEPT ![p] = @ + Len(body)]
  <2>1. /\ st'[p] = failed /\ down'[p] = TRUE
        /\ \A q \in Peers \ {p} : st'[q] = st[q] /\ down'[q] = down[q]
    BY <1>1, <1>11
  <2>2. /\ \A q \in Peers \ {p} : log'[q] = log[q] /\ sent'[q] = sent[q]
        /\ \/ log'[p] = log[p] /\ sent'[p] = sent[p]
           \/ /\ ~down[p] /\ log'[p] = Append(log[p], torn)
              /\ sent'[p] = sent[p] + Len(torn.body)
           \/ /\ ~down[p] /\ log'[p] = Append(log[p], x)
              /\ sent'[p] = sent[p] + Len(x.body)
    BY <1>1, <1>5, <1>11, <1>7a
  <2>3. /\ Sealed(x, st[p], failed, down'[p])
        /\ Sealed(torn, st[p], failed, down'[p])
    BY <1>4, <1>5, <1>11, <2>1 DEF Sealed
  <2>4. Moves(log[p], st[p], down[p], log'[p], st'[p], down'[p])
    BY <1>4, <1>5, <1>6, <2>1, <2>2, <2>3 DEF Moves
  <2>5. QED
    BY <1>5, <1>7a, <2>1, <2>2, <2>4 DEF WriterMoves, Fills
<1>12. QED
  BY <1>8, <1>9, <1>10, <1>11
     DEF TrackedRecord, Put, x, torn, failed, over, reuse

LEMMA NextBytesLemma ==
    ASSUME NEW p \in Peers, NEW n \in Lens, sent \in [Peers -> Nat]
    PROVE  /\ NextBytes(p, n) \in Seq(Nat) /\ Len(NextBytes(p, n)) = n
           /\ NextBytes(p, n) = Bytes(sent[p], n)
<1>1. PICK m \in Nat : m = sent[p]
  OBVIOUS
<1>2. n \in Nat
  BY RecordLayerConstants
<1>3. [i \in 1..n |-> m + i] \in Seq(Nat) /\ Len([i \in 1..n |-> m + i]) = n
  BY <1>1, <1>2
<1>4. QED
  BY <1>1, <1>3 DEF NextBytes, Bytes

(* A step of p that writes nothing and takes no number. *)
LEMMA StageMoves ==
    ASSUME Inv, NEW p \in Peers, NEW t, SameReader(st[p], t),
           st[p].close_notify_sent => t.close_notify_sent,
           t.write_epoch = st[p].write_epoch, t.write_seq = st[p].write_seq,
           t.stage \in {"auto", "data"} => ~t.key_update_pending,
           t.stage # "idle" => t.len \in Lens,
           st' = [st EXCEPT ![p] = t],
           UNCHANGED <<log, down, sent, rpos, delivered, ended>>
    PROVE  WriterMoves(p)
<1>1. st'[p] = t /\ \A q \in Peers \ {p} : st'[q] = st[q]
  BY DEF Inv, TypeOK
<1>2. QED
  BY <1>1 DEF WriterMoves, Moves, Fills

(* Sending a KeyUpdate from the stream s. *)
LEMMA KeyUpdateMoves ==
    ASSUME Inv, NEW p \in Peers, NEW s, SameWriter(st[p], s), SameReader(st[p], s),
           NEW kind \in Updates, NEW g \in Stages,
           g \in {"auto", "data"} => ~s.key_update_pending,
           g # "idle" => s.len \in Lens,
           TrackedRecord(p, s, kind, << >>, KeyUpdateSent(s, g)),
           UNCHANGED <<rpos, delivered, ended>>
    PROVE  WriterMoves(p)
<1>1. kind \in Kinds /\ << >> \in Seq(Nat) /\ kind # "alert" /\ kind # "data"
  BY DEF Updates, Kinds
<1>2. s \in Streams
  BY DEF SameWriter
<1>3. PICK done : done = KeyUpdateSent(s, g)
  OBVIOUS
<1>4. /\ done \in Streams /\ Keeps(s, done) /\ done.stage \in {g, "idle"}
      /\ IF s.traffic_secrets
         THEN done.write_epoch = s.write_epoch + 1 /\ done.write_seq = 0
         ELSE done.write_epoch = s.write_epoch /\ done.write_seq = s.write_seq + 1
  BY <1>2, <1>3, KeyUpdateKeeps
<1>5. /\ SameReader(s, done)
      /\ s.close_notify_sent => done.close_notify_sent
      /\ done.stage \in {"auto", "data"} => ~done.key_update_pending
      /\ done.stage # "idle" => done.len \in Lens
  BY <1>4 DEF Keeps
<1>6. s.close_notify_sent <=> st[p].close_notify_sent
  BY DEF SameWriter
<1>7. TrackedRecord(p, s, kind, << >>, done)
  BY <1>3
<1>8. s.write_epoch = st[p].write_epoch /\ s.write_seq = st[p].write_seq
  BY DEF SameWriter
<1>9. QED
  BY <1>1, <1>2, <1>4, <1>5, <1>6, <1>7, <1>8, TrackedMoves

(* The stages of write_application_data. *)
LEMMA WriteStagesMove ==
    ASSUME Inv, NEW p \in Peers, Flushed(log[p], st[p]),
           \/ \E n \in Lens : write_application_data(p, n)
           \/ flush_pending_key_update(p)
           \/ AutoKeyUpdate(p)
           \/ WriteData(p)
    PROVE  WriterMoves(p)
<1> DEFINE s == st[p]
<1>1. /\ s \in Streams /\ st \in [Peers -> Streams] /\ sent \in [Peers -> Nat]
      /\ s.stage \in {"auto", "data"} => ~s.key_update_pending
      /\ s.stage # "idle" => s.len \in Lens
  BY DEF Inv, TypeOK, Flushed
<1>2. SameWriter(s, s) /\ SameReader(s, s)
  BY <1>1 DEF SameWriter, SameReader
<1>3. ASSUME NEW g \in Stages, ~s.key_update_pending, s.stage # "idle",
             st' = [st EXCEPT ![p].stage = g],
             UNCHANGED <<log, down, sent, rpos, delivered, ended>>
      PROVE  WriterMoves(p)
  <2> DEFINE t == [s EXCEPT !.stage = g]
  <2>1. st' = [st EXCEPT ![p] = t]
    BY <1>1, <1>3
  <2>2. Keeps(s, t)
    BY <1>1, WriterFunctions
  <2>3. t.write_epoch = s.write_epoch /\ t.write_seq = s.write_seq
    BY <1>1 DEF Streams
  <2>4. /\ ~t.key_update_pending /\ t.len \in Lens /\ SameReader(s, t)
        /\ s.close_notify_sent => t.close_notify_sent
    BY <1>1, <1>3, <2>2 DEF Keeps
  <2> HIDE DEF t
  <2>5. QED
    BY <1>3, <2>1, <2>3, <2>4, StageMoves
<1>4. CASE \E n \in Lens : write_application_data(p, n)
  <2>1. PICK n \in Lens : write_application_data(p, n)
    BY <1>4
  <2> DEFINE t == [s EXCEPT !.stage = "flush", !.len = n, !.write_err = "none"]
  <2>2. /\ t.stage = "flush" /\ SameReader(s, t) /\ t.len = n
        /\ s.close_notify_sent => t.close_notify_sent
        /\ t.write_epoch = s.write_epoch /\ t.write_seq = s.write_seq
    BY <1>1 DEF Streams, SameReader
  <2>3. /\ st' = [st EXCEPT ![p] = t]
        /\ UNCHANGED <<log, down, sent, rpos, delivered, ended>>
    BY <1>1, <2>1 DEF write_application_data
  <2> HIDE DEF t
  <2>4. QED
    BY <2>2, <2>3, StageMoves
<1>5. CASE flush_pending_key_update(p)
  <2> DEFINE t == [s EXCEPT !.key_update_pending = FALSE]
  <2>1. /\ SameWriter(s, t) /\ SameReader(s, t) /\ ~t.key_update_pending
        /\ t.len = s.len /\ s.len \in Lens
    BY <1>1, <1>5 DEF SameWriter, SameReader, Streams, flush_pending_key_update
  <2>2. CASE s.key_update_pending
    <3>1. /\ TrackedRecord(p, t, "ku", << >>, KeyUpdateSent(t, "auto"))
          /\ UNCHANGED <<rpos, delivered, ended>>
      BY <1>5, <2>2 DEF flush_pending_key_update
    <3>2. "auto" \in Stages /\ "ku" \in Updates
      BY DEF Stages, Updates
    <3> HIDE DEF t
    <3>3. QED
      BY <2>1, <3>1, <3>2, KeyUpdateMoves
  <2>3. CASE ~s.key_update_pending
    BY <1>3, <1>5, <2>3 DEF flush_pending_key_update, Stages
  <2>4. QED
    BY <2>2, <2>3
<1>6. CASE AutoKeyUpdate(p)
  <2>1. ~s.key_update_pending /\ s.len \in Lens /\ s.stage # "idle"
    BY <1>1, <1>6 DEF AutoKeyUpdate
  <2>2. CASE is_key_exhausted(s)
    <3> DEFINE t == WriteFails(s, "Exhausted")
    <3>1. /\ st' = [st EXCEPT ![p] = t]
          /\ UNCHANGED <<log, down, sent, rpos, delivered, ended>>
      BY <1>6, <2>2 DEF AutoKeyUpdate
    <3>2. /\ t.write_epoch = s.write_epoch /\ t.write_seq = s.write_seq
          /\ t.stage = "idle" /\ SameReader(s, t)
          /\ s.close_notify_sent => t.close_notify_sent
      BY <1>1, FailsLemma, WriterFunctions DEF Errors, Keeps
    <3> HIDE DEF t
    <3>3. QED
      BY <3>1, <3>2, StageMoves
  <2>3. CASE /\ ~is_key_exhausted(s)
             /\ should_update_key(s) /\ s.traffic_secrets
    <3>1. /\ TrackedRecord(p, s, "ku", << >>, KeyUpdateSent(s, "data"))
          /\ UNCHANGED <<rpos, delivered, ended>>
      BY <1>6, <2>3 DEF AutoKeyUpdate
    <3>2. "data" \in Stages /\ "ku" \in Updates
      BY DEF Stages, Updates
    <3>3. QED
      BY <1>2, <2>1, <3>1, <3>2, KeyUpdateMoves
  <2>4. CASE ~is_key_exhausted(s) /\ ~(should_update_key(s) /\ s.traffic_secrets)
    <3>1. /\ st' = [st EXCEPT ![p].stage = "data"]
          /\ UNCHANGED <<log, down, sent, rpos, delivered, ended>>
      BY <1>6, <2>4 DEF AutoKeyUpdate
    <3>2. QED
      BY <1>3, <2>1, <3>1 DEF Stages
  <2>5. QED
    BY <2>2, <2>3, <2>4
<1>7. CASE WriteData(p)
  <2> DEFINE t == NonceTaken(s)
             done == [t EXCEPT !.stage = "idle"]
             body == NextBytes(p, s.len)
  <2>1. /\ t \in Streams /\ Keeps(s, t)
        /\ t.write_epoch = s.write_epoch /\ t.write_seq = s.write_seq + 1
    BY <1>1, NonceTakenLemma, WriterFunctions
  <2>2. /\ body \in Seq(Nat) /\ Len(body) \in Lens
        /\ body = Bytes(sent[p], Len(body))
    <3>1. s.len \in Lens
      BY <1>1, <1>7 DEF WriteData
    <3>2. QED
      BY <1>1, <3>1, NextBytesLemma
  <2>3. /\ TrackedRecord(p, s, "data", body, done)
        /\ UNCHANGED <<rpos, delivered, ended>>
        /\ ~s.key_update_pending
    BY <1>1, <1>7 DEF WriteData
  <2> HIDE DEF t, body
  <2>4. /\ done \in Streams /\ done.stage = "idle" /\ Keeps(t, done)
        /\ done.write_epoch = t.write_epoch /\ done.write_seq = t.write_seq
    BY <2>1, WriterFunctions DEF Streams, Stages
  <2>5. Keeps(s, done)
    BY <2>1, <2>4, KeepsTwice
  <2>6. /\ SameReader(s, done)
        /\ s.close_notify_sent => done.close_notify_sent
    BY <2>5 DEF Keeps
  <2>7. "data" \in Kinds /\ "data" \notin Updates
    BY DEF Kinds, Updates
  <2> HIDE DEF done
  <2>8. QED
    BY <1>1, <1>2, <2>1, <2>2, <2>3, <2>4, <2>6, <2>7, TrackedMoves
<1>8. QED
  BY <1>4, <1>5, <1>6, <1>7

LEMMA CloseAndKeyUpdateMove ==
    ASSUME Inv, NEW p \in Peers, Flushed(log[p], st[p]),
           close(p) \/ \E b \in BOOLEAN : send_key_update(p, b)
    PROVE  WriterMoves(p)
<1> DEFINE s == st[p]
<1>1. s \in Streams /\ SameReader(s, s) /\ SameWriter(s, s)
  BY DEF Inv, TypeOK, SameReader, SameWriter
<1>2. CASE close(p)
  <2> DEFINE t == NonceTaken(s)
             done == [t EXCEPT !.close_notify_sent = TRUE]
  <2>1. /\ t \in Streams /\ Keeps(s, t) /\ t.stage = s.stage
        /\ t.write_epoch = s.write_epoch /\ t.write_seq = s.write_seq + 1
    BY <1>1, NonceTakenLemma, WriterFunctions
  <2>2. /\ TrackedRecord(p, s, "alert", << >>, done)
        /\ UNCHANGED <<rpos, delivered, ended>>
        /\ s.stage = "idle" /\ "record" \in Apis
    BY <1>2 DEF close
  <2> HIDE DEF t
  <2>3. /\ done \in Streams /\ SameReader(t, done) /\ done.stage = t.stage
        /\ done.write_epoch = t.write_epoch /\ done.write_seq = t.write_seq
        /\ done.close_notify_sent
    BY <2>1 DEF Streams, SameReader
  <2>4. SameReader(s, done)
    BY <2>1, <2>3 DEF Keeps, SameReader
  <2>5. "alert" \in Kinds /\ << >> \in Seq(Nat) /\ "alert" \notin Updates
    BY DEF Kinds, Updates
  <2> HIDE DEF done
  <2>6. QED
    BY <1>1, <2>1, <2>2, <2>3, <2>4, <2>5, TrackedMoves
<1>3. CASE \E b \in BOOLEAN : send_key_update(p, b)
  <2>1. PICK b \in BOOLEAN : send_key_update(p, b)
    BY <1>3
  <2> DEFINE kind == IF b THEN "ku_req" ELSE "ku"
  <2>2. /\ TrackedRecord(p, s, kind, << >>, KeyUpdateSent(s, "idle"))
        /\ UNCHANGED <<rpos, delivered, ended>>
    BY <2>1 DEF send_key_update
  <2>3. kind \in Updates /\ "idle" \in Stages
    BY DEF Stages, Updates
  <2> HIDE DEF kind
  <2>4. QED
    BY <1>1, <2>2, <2>3, KeyUpdateMoves
<1>4. QED
  BY <1>2, <1>3

(* A poll of AsyncWrite that has taken a number. *)
LEMMA StreamMoves ==
    ASSUME Inv, NEW p \in Peers, NEW t, SameReader(st[p], t),
           st[p].close_notify_sent => t.close_notify_sent,
           t.write_epoch = st[p].write_epoch,
           t.write_seq = st[p].write_seq + 1, t.stage = "idle",
           "stream" \in Apis, st[p].write_seq # MaxSeq,
           st' = [st EXCEPT ![p] = t], UNCHANGED <<rpos, delivered, ended>>,
           down' \in {down, [down EXCEPT ![p] = TRUE]},
           \/ UNCHANGED <<log, sent>> /\ (Backpressure \/ down'[p])
           \/ /\ ~down[p]
              /\ \E kind \in Kinds \ Updates : \E body \in Seq(Nat) :
                    /\ Put(p, Record(st[p], kind, body))
                    /\ sent' = [sent EXCEPT ![p] = @ + Len(body)]
                    /\ IF kind = "data"
                       THEN Len(body) \in Lens /\ body = Bytes(sent[p], Len(body))
                       ELSE body = << >>
                    /\ kind = "alert" => down'[p]
    PROVE  WriterMoves(p)
<1>1. /\ st \in [Peers -> Streams] /\ log \in [Peers -> Seq(Records)]
      /\ down \in [Peers -> BOOLEAN] /\ sent \in [Peers -> Nat]
  BY DEF Inv, TypeOK
<1>2. /\ st'[p] = t /\ (down[p] => down'[p])
      /\ \A q \in Peers \ {p} : st'[q] = st[q] /\ down'[q] = down[q]
  BY <1>1
<1>3. CASE UNCHANGED <<log, sent>> /\ (Backpressure \/ down'[p])
  BY <1>2, <1>3 DEF WriterMoves, Moves, Smooth, Fills
<1>4. CASE /\ ~down[p]
           /\ \E kind \in Kinds \ Updates : \E body \in Seq(Nat) :
                 /\ Put(p, Record(st[p], kind, body))
                 /\ sent' = [sent EXCEPT ![p] = @ + Len(body)]
                 /\ IF kind = "data"
                    THEN Len(body) \in Lens /\ body = Bytes(sent[p], Len(body))
                    ELSE body = << >>
                 /\ kind = "alert" => down'[p]
  <2>1. PICK kind \in Kinds \ Updates, body \in Seq(Nat) :
            /\ Put(p, Record(st[p], kind, body))
            /\ sent' = [sent EXCEPT ![p] = @ + Len(body)]
            /\ IF kind = "data"
               THEN Len(body) \in Lens /\ body = Bytes(sent[p], Len(body))
               ELSE body = << >>
            /\ kind = "alert" => down'[p]
    BY <1>4
  <2>2. PICK x : x = Record(st[p], kind, body)
    OBVIOUS
  <2>3. /\ x \in Records /\ x.epoch = st[p].write_epoch
        /\ x.seq = st[p].write_seq /\ x.kind = kind /\ x.body = body
    BY <1>1, <2>2, RecordLemma DEF Record
  <2>4. /\ log'[p] = Append(log[p], x) /\ sent'[p] = sent[p] + Len(x.body)
        /\ \A q \in Peers \ {p} : log'[q] = log[q] /\ sent'[q] = sent[q]
    BY <1>1, <2>1, <2>2, <2>3 DEF Put
  <2>5. Sealed(x, st[p], t, down'[p])
    BY <2>1, <2>3 DEF Sealed
  <2>6. Carries(x, sent[p], down'[p])
    BY <2>1, <2>3 DEF Carries
  <2>7. Moves(log[p], st[p], down[p], log'[p], st'[p], down'[p])
    BY <1>2, <1>4, <2>3, <2>4, <2>5 DEF Moves
  <2>8. QED
    BY <1>2, <2>3, <2>4, <2>6, <2>7 DEF WriterMoves, Fills
<1>5. QED
  BY <1>3, <1>4

LEMMA StreamApiMoves ==
    ASSUME Inv, NEW p \in Peers,
           poll_shutdown(p) \/ \E n \in Lens : poll_write(p, n)
    PROVE  WriterMoves(p)
<1> DEFINE s == st[p]
           q == SeqTaken(s)
           c == [q EXCEPT !.close_notify_sent = TRUE]
           w == WriteFails(q, "IoError")
           o == WriteFails(s, "SequenceOverflow")
<1>1. /\ s \in Streams /\ st \in [Peers -> Streams] /\ sent \in [Peers -> Nat]
      /\ down \in [Peers -> BOOLEAN] /\ log \in [Peers -> Seq(Records)]
      /\ "stream" \in Apis /\ s.stage = "idle"
  BY DEF Inv, TypeOK, poll_write, poll_shutdown
<1>2. /\ q \in Streams /\ q.write_epoch = s.write_epoch
      /\ q.write_seq = s.write_seq + 1 /\ q.stage = s.stage /\ Keeps(s, q)
  <2>1. q = [s EXCEPT !.write_seq = s.write_seq + 1] /\ s.write_seq + 1 \in Nat
    BY <1>1 DEF SeqTaken, Streams
  <2>2. \A n \in Nat : LET v == [s EXCEPT !.write_seq = n] IN
            /\ v \in Streams /\ v.write_epoch = s.write_epoch
            /\ v.write_seq = n /\ v.stage = s.stage /\ Keeps(s, v)
    BY <1>1 DEF Streams, Keeps, SameReader
  <2>3. QED
    BY <2>1, <2>2
<1> HIDE DEF q
<1>3. /\ SameReader(q, c) /\ c.close_notify_sent
      /\ c.write_epoch = q.write_epoch /\ c.write_seq = q.write_seq
      /\ c.stage = q.stage
  BY <1>2 DEF Streams, SameReader
<1>4. /\ Keeps(q, w) /\ w.stage = "idle"
      /\ w.write_epoch = q.write_epoch /\ w.write_seq = q.write_seq
  BY <1>2, FailsLemma, WriterFunctions DEF Errors
<1>5. /\ o.write_epoch = s.write_epoch /\ o.write_seq = s.write_seq
      /\ o.stage = "idle" /\ SameReader(s, o)
      /\ s.close_notify_sent => o.close_notify_sent
  BY <1>1, FailsLemma, WriterFunctions DEF Errors, Keeps
<1> HIDE DEF c, w, o
<1>6. \A t \in {q, w, c} :
          /\ SameReader(s, t) /\ t.stage = "idle"
          /\ s.close_notify_sent => t.close_notify_sent
          /\ t.write_epoch = s.write_epoch /\ t.write_seq = s.write_seq + 1
  BY <1>1, <1>2, <1>3, <1>4 DEF Keeps, SameReader
<1>7. {"data", "torn", "alert"} \subseteq Kinds \ Updates /\ << >> \in Seq(Nat)
  BY DEF Kinds, Updates
<1>7a. UNCHANGED sent => sent' = [sent EXCEPT ![p] = @ + Len(<< >>)]
  BY <1>1
<1>8. CASE \E n \in Lens : poll_write(p, n)
  <2>1. PICK n \in Lens : poll_write(p, n)
    BY <1>8
  <2>2. /\ NextBytes(p, n) \in Seq(Nat) /\ Len(NextBytes(p, n)) = n
        /\ NextBytes(p, n) = Bytes(sent[p], n)
    BY <1>1, NextBytesLemma
  <2>3. UNCHANGED <<rpos, delivered, ended>>
    BY <2>1 DEF poll_write
  <2>4. CASE st' = [st EXCEPT ![p] = o] /\ UNCHANGED <<log, down, sent>>
    BY <1>5, <2>3, <2>4, StageMoves
  <2>5. CASE /\ s.write_seq # MaxSeq /\ ~down[p]
             /\ st' = [st EXCEPT ![p] = q]
             /\ Put(p, Record(s, "data", NextBytes(p, n)))
             /\ sent' = [sent EXCEPT ![p] = @ + n] /\ UNCHANGED down
    BY <1>1, <1>6, <1>7, <2>2, <2>3, <2>5, StreamMoves
  <2>6. CASE /\ s.write_seq # MaxSeq /\ ~down[p] /\ Backpressure
             /\ \E t \in {q, w} : st' = [st EXCEPT ![p] = t]
             /\ UNCHANGED log \/ Put(p, Record(s, "torn", << >>))
             /\ UNCHANGED <<down, sent>>
    BY <1>1, <1>6, <1>7, <1>7a, <2>3, <2>6, StreamMoves
  <2>7. CASE /\ s.write_seq # MaxSeq
             /\ st' = [st EXCEPT ![p] = w]
             /\ down' = [down EXCEPT ![p] = TRUE]
             /\ \/ UNCHANGED log
                \/ ~down[p] /\ Put(p, Record(s, "torn", << >>))
             /\ UNCHANGED sent
    <3>1. down'[p]
      BY <1>1, <2>7
    <3>2. QED
      BY <1>1, <1>6, <1>7, <1>7a, <2>3, <2>7, <3>1, StreamMoves
  <2>8. QED
    BY <2>1, <2>4, <2>5, <2>6, <2>7 DEF poll_write, q, w, o
<1>9. CASE poll_shutdown(p)
  <2>1. UNCHANGED <<rpos, sent, delivered, ended>>
    BY <1>9 DEF poll_shutdown
  <2>2. CASE down' = [down EXCEPT ![p] = TRUE] /\ UNCHANGED <<st, log>>
    <3>1. down'[p] /\ \A r \in Peers \ {p} : down'[r] = down[r]
      BY <1>1, <2>2
    <3>2. SameReader(s, s)
      BY DEF SameReader
    <3>3. QED
      BY <1>1, <2>1, <2>2, <3>1, <3>2 DEF WriterMoves, Moves, Fills
  <2>3. CASE /\ s.write_seq # MaxSeq
             /\ st' = [st EXCEPT ![p] = c]
             /\ down' = [down EXCEPT ![p] = TRUE]
             /\ \/ UNCHANGED log
                \/ ~down[p] /\ \E kind \in {"torn", "alert"} :
                      Put(p, Record(s, kind, << >>))
    <3>1. down'[p]
      BY <1>1, <2>3
    <3>2. QED
      BY <1>1, <1>6, <1>7, <1>7a, <2>1, <2>3, <3>1, StreamMoves
  <2>4. CASE /\ s.write_seq # MaxSeq /\ ~down[p] /\ Backpressure
             /\ st' = [st EXCEPT ![p] = q]
             /\ Put(p, Record(s, "torn", << >>)) \/ UNCHANGED log
             /\ UNCHANGED down
    BY <1>1, <1>6, <1>7, <1>7a, <2>1, <2>4, StreamMoves
  <2>5. QED
    BY <1>9, <2>2, <2>3, <2>4 DEF poll_shutdown, q, c
<1>10. QED
  BY <1>8, <1>9

(* q's calls that read leave the transport and the other peer alone. *)
ReaderMoves(q) ==
    /\ st[q].stage = "idle" /\ SameWriter(st[q], st'[q])
    /\ ReadsOn(log[Other(q)], down[Other(q)], rpos[q], st[q], rpos'[q], st'[q])
    /\ \A p \in Peers \ {q} : st'[p] = st[p] /\ rpos'[p] = rpos[p]
    /\ UNCHANGED <<log, down>>

(* t holds the keys, the number and the secrets of s. *)
SameKeys(s, t) ==
    /\ t.read_epoch = s.read_epoch /\ t.read_seq = s.read_seq
    /\ t.traffic_secrets <=> s.traffic_secrets

LEMMA ReaderFields ==
    ASSUME NEW s \in Streams
    PROVE  /\ Opened(s) \in Streams
           /\ Opened(s).read_epoch = s.read_epoch
           /\ Opened(s).read_seq = s.read_seq + 1
           /\ Opened(s).read_err = s.read_err
           /\ Opened(s).traffic_secrets <=> s.traffic_secrets
           /\ Opened(s).close_result = s.close_result
           /\ \A e : /\ SameKeys(s, ReadFails(s, e)) /\ ReadFails(s, e).read_err = e
                     /\ ReadFails(s, e).close_result = s.close_result
           /\ \A b : Unmoved(s, [s EXCEPT !.read_buf = b])
           /\ \A g : /\ SameKeys(s, [s EXCEPT !.close_result = g])
                     /\ [s EXCEPT !.close_result = g].read_err = s.read_err
                     /\ [s EXCEPT !.close_result = g].close_result = g
<1>1. s.read_seq + 1 \in Nat
  BY DEF Streams
<1>2. /\ Opened(s) \in Streams
      /\ Opened(s).read_epoch = s.read_epoch
      /\ Opened(s).read_seq = s.read_seq + 1
      /\ Opened(s).read_err = s.read_err
      /\ Opened(s).traffic_secrets <=> s.traffic_secrets
      /\ Opened(s).close_result = s.close_result
  BY <1>1 DEF Opened, Streams
<1>3. \A e : /\ SameKeys(s, ReadFails(s, e)) /\ ReadFails(s, e).read_err = e
             /\ ReadFails(s, e).close_result = s.close_result
  BY DEF ReadFails, Streams, SameKeys
<1>4. \A b : Unmoved(s, [s EXCEPT !.read_buf = b])
  BY DEF Streams, Unmoved
<1>5. \A g : /\ SameKeys(s, [s EXCEPT !.close_result = g])
             /\ [s EXCEPT !.close_result = g].read_err = s.read_err
             /\ [s EXCEPT !.close_result = g].close_result = g
  BY DEF Streams, SameKeys
<1>6. QED
  BY <1>2, <1>3, <1>4, <1>5

(* What process_key_update makes of the reader's keys. *)
LEMMA ProcessFields ==
    ASSUME NEW s \in Streams, NEW k
    PROVE  LET u == process_key_update(s, k) IN
           /\ u.traffic_secrets <=> s.traffic_secrets
           /\ u.close_result = s.close_result
           /\ s.traffic_secrets =>
                 /\ u.read_epoch = s.read_epoch + 1 /\ u.read_seq = 0
                 /\ u.read_err = s.read_err
           /\ ~s.traffic_secrets => SameKeys(s, u)
<1>1. CASE s.traffic_secrets
  <2> DEFINE v == rotate_read_key(s)
  <2>1. s.read_epoch + 1 \in Nat
    BY DEF Streams
  <2>2. /\ v \in Streams /\ v.read_err = s.read_err
        /\ v.close_result = s.close_result
        /\ v.read_epoch = s.read_epoch + 1 /\ v.read_seq = 0
        /\ v.traffic_secrets <=> s.traffic_secrets
    BY <2>1 DEF rotate_read_key, Streams
  <2> HIDE DEF v
  <2>3. process_key_update(s, k) =
            [v EXCEPT !.key_update_pending = @ \/ k = "ku_req"]
    BY <1>1 DEF process_key_update, v
  <2>4. QED
    BY <1>1, <2>2, <2>3 DEF Streams
<1>2. CASE ~s.traffic_secrets
  <2>1. process_key_update(s, k) = ReadFails(s, "NoSecret")
    BY <1>2 DEF process_key_update
  <2>2. QED
    BY <1>2, <2>1, ReaderFields DEF SameKeys
<1>3. QED
  BY <1>1, <1>2

(* An error exit of a reader. *)
LEMMA ReadErrorMoves ==
    ASSUME Inv, NEW q \in Peers, NEW eof, MayRead(q), SameWriter(st[q], eof),
           SameKeys(st[q], eof),
           eof.read_err # "CipherError" \/ eof.read_err = st[q].read_err,
           ReadError(q, eof)
    PROVE  ReaderMoves(q)
<1> DEFINE s == st[q]
           L == log[Other(q)]
           n == rpos[q]
<1>1. /\ s \in Streams /\ rpos \in [Peers -> Nat] /\ st \in [Peers -> Streams]
      /\ s.stage = "idle" /\ s.close_result = "none"
  BY DEF Inv, TypeOK, MayRead
<1>2. UNCHANGED <<log, down>>
  BY DEF ReadError
<1>3. ASSUME NEW u, SameWriter(s, u), st' = [st EXCEPT ![q] = u],
             u.traffic_secrets <=> s.traffic_secrets,
             \/ UNCHANGED rpos /\ Erred(L, down[Other(q)], n, s, n, u)
             \/ Consumed(q) /\ Erred(L, down[Other(q)], n, s, n + 1, u)
      PROVE  ReaderMoves(q)
  <2>1. st'[q] = u /\ \A p \in Peers \ {q} : st'[p] = st[p]
    BY <1>1, <1>3
  <2>2. /\ \A p \in Peers \ {q} : rpos'[p] = rpos[p]
        /\ Erred(L, down[Other(q)], n, s, rpos'[q], u)
    BY <1>1, <1>3 DEF Consumed
  <2>3. QED
    BY <1>1, <1>2, <1>3, <2>1, <2>2 DEF ReaderMoves, ReadsOn
<1>4. \A e \in Errors : SameWriter(s, ReadFails(s, e))
  BY <1>1, ReaderFunctions
<1>5. \A e : SameKeys(s, ReadFails(s, e)) /\ ReadFails(s, e).read_err = e
  BY <1>1, ReaderFields
<1>6. CASE /\ ~Available(q) /\ down[Other(q)]
           /\ st' = [st EXCEPT ![q] = eof] /\ UNCHANGED rpos
  BY <1>3, <1>6 DEF SameKeys, Erred
<1>7. CASE /\ Available(q) /\ Incoming(q).kind = "torn"
           /\ st' = [st EXCEPT ![q] = ReadFails(@, "IoError")]
           /\ UNCHANGED rpos
  <2>1. "IoError" \in Errors /\ n < Len(L) /\ L[n + 1].kind = "torn"
    BY <1>7 DEF Errors, Available, Incoming
  <2>2. PICK u : u = ReadFails(s, "IoError")
    OBVIOUS
  <2>3. SameWriter(s, u) /\ SameKeys(s, u) /\ u.read_err = "IoError"
    BY <1>4, <1>5, <2>1, <2>2
  <2>4. Erred(L, down[Other(q)], n, s, n, u)
    BY <2>1, <2>3 DEF SameKeys, Erred
  <2>5. QED
    BY <1>3, <1>7, <2>2, <2>3, <2>4 DEF SameKeys
<1>8. CASE /\ Available(q) /\ s.read_seq = MaxSeq
           /\ st' = [st EXCEPT ![q] = ReadFails(@, "SequenceOverflow")]
           /\ Consumed(q)
  <2>1. "SequenceOverflow" \in Errors /\ n < Len(L)
    BY <1>8 DEF Errors, Available
  <2>2. PICK u : u = ReadFails(s, "SequenceOverflow")
    OBVIOUS
  <2>3. SameWriter(s, u) /\ SameKeys(s, u)
    BY <1>4, <1>5, <2>1, <2>2
  <2>4. Erred(L, down[Other(q)], n, s, n + 1, u)
    BY <1>8, <2>1, <2>3 DEF SameKeys, Erred
  <2>5. QED
    BY <1>3, <1>8, <2>2, <2>3, <2>4 DEF SameKeys
<1>9. CASE /\ Available(q) /\ ~Decrypts(q)
           /\ st' = [st EXCEPT ![q] = ReadFails(Opened(@), "CipherError")]
           /\ Consumed(q)
  <2>1. /\ "CipherError" \in Errors /\ n < Len(L)
        /\ ~(L[n + 1].epoch = s.read_epoch /\ L[n + 1].seq = s.read_seq)
    BY <1>9 DEF Errors, Available, Decrypts, Incoming
  <2>2. PICK u : u = ReadFails(Opened(s), "CipherError")
    OBVIOUS
  <2>3. SameWriter(s, u)
    BY <1>1, <2>1, <2>2, ReaderFunctions
  <2>4. /\ u.read_epoch = s.read_epoch /\ u.read_seq = s.read_seq + 1
        /\ u.traffic_secrets <=> s.traffic_secrets
    BY <1>1, <2>2, ReaderFields DEF SameKeys
  <2>5. Erred(L, down[Other(q)], n, s, n + 1, u)
    BY <2>1, <2>4 DEF Erred
  <2>6. QED
    BY <1>3, <1>9, <2>2, <2>3, <2>4, <2>5
<1>10. QED
  BY <1>6, <1>7, <1>8, <1>9 DEF ReadError

(* A record that is read. *)
LEMMA ReceiveMoves ==
    ASSUME Inv, NEW q \in Peers, MayRead(q), NEW kinds, Receives(q, kinds),
           NEW u, SameWriter(st[q], u), st' = [st EXCEPT ![q] = u],
           u.traffic_secrets <=> st[q].traffic_secrets,
           \/ u.read_err = st[q].read_err
           \/ Incoming(q).kind = "alert" /\ u.read_err # "CipherError"
           \/ ~st[q].traffic_secrets,
           IF /\ Incoming(q).kind \in Updates
              /\ st[q].traffic_secrets /\ u.close_result = "none"
           THEN u.read_epoch = st[q].read_epoch + 1 /\ u.read_seq = 0
           ELSE /\ u.read_epoch = st[q].read_epoch
                /\ u.read_seq = st[q].read_seq + 1
    PROVE  ReaderMoves(q)
<1>1. /\ rpos \in [Peers -> Nat] /\ st \in [Peers -> Streams]
      /\ st[q].stage = "idle" /\ st[q].close_result = "none"
  BY DEF Inv, TypeOK, MayRead
<1>2. /\ st'[q] = u /\ rpos'[q] = rpos[q] + 1 /\ UNCHANGED <<log, down>>
      /\ \A p \in Peers \ {q} : st'[p] = st[p] /\ rpos'[p] = rpos[p]
  BY <1>1 DEF Receives, Consumed
<1>3. Took(log[Other(q)], rpos[q], st[q], rpos'[q], u)
  BY <1>2 DEF Took, Receives, Available, Decrypts, Incoming
<1>4. QED
  BY <1>1, <1>2, <1>3 DEF ReaderMoves, ReadsOn

LEMMA HandshakeMoves ==
    ASSUME Inv, NEW q \in Peers, MayRead(q), process_inner_handshake(q)
    PROVE  ReaderMoves(q)
<1>1. st[q] \in Streams
  BY DEF Inv, TypeOK
<1>2. /\ Incoming(q).kind \in Kinds /\ Incoming(q).kind \in Updates
      /\ Receives(q, {"ku", "ku_req"})
  BY IncomingLemma DEF process_inner_handshake, Receives, Updates
<1>3. PICK u : u = process_key_update(Opened(st[q]), Incoming(q).kind)
  OBVIOUS
<1>4. SameWriter(st[q], u)
  BY <1>1, <1>2, <1>3, ReaderFunctions
<1>5. PICK v \in Streams :
          /\ v = Opened(st[q]) /\ v.read_epoch = st[q].read_epoch
          /\ v.read_seq = st[q].read_seq + 1 /\ v.read_err = st[q].read_err
          /\ v.close_result = st[q].close_result
          /\ v.traffic_secrets <=> st[q].traffic_secrets
  BY <1>1, ReaderFields
<1>6. /\ u.traffic_secrets <=> v.traffic_secrets
      /\ u.close_result = v.close_result
      /\ ~v.traffic_secrets => SameKeys(v, u)
      /\ v.traffic_secrets =>
            /\ u.read_epoch = v.read_epoch + 1 /\ u.read_seq = 0
            /\ u.read_err = v.read_err
  BY <1>3, <1>5, ProcessFields
<1>7. st' = [st EXCEPT ![q] = u]
  BY <1>3 DEF process_inner_handshake
<1>8. IF st[q].traffic_secrets /\ u.close_result = "none"
      THEN u.read_epoch = st[q].read_epoch + 1 /\ u.read_seq = 0
      ELSE u.read_epoch = st[q].read_epoch /\ u.read_seq = st[q].read_seq + 1
  BY <1>5, <1>6 DEF SameKeys, MayRead
<1>9. QED
  BY <1>2, <1>4, <1>5, <1>6, <1>7, <1>8, ReceiveMoves

(* The three readers. *)
LEMMA ReadersMove ==
    ASSUME Inv, NEW q \in Peers,
           \/ read_application_data(q)
           \/ recv_close_notify(q)
           \/ \E cap \in Caps : poll_read(q, cap)
    PROVE  ReaderMoves(q)
<1> DEFINE s == st[q]
<1>1. s \in Streams /\ st \in [Peers -> Streams] /\ MayRead(q)
  BY DEF Inv, TypeOK, read_application_data, recv_close_notify, poll_read
<1>2. CASE ReadError(q, ReadFails(s, "IoError"))
  <2>1. PICK u : u = ReadFails(s, "IoError")
    OBVIOUS
  <2>2. SameWriter(s, u) /\ SameKeys(s, u) /\ u.read_err = "IoError"
    BY <1>1, <2>1, ReaderFunctions, ReaderFields DEF Errors
  <2>3. QED
    BY <1>1, <1>2, <2>1, <2>2, ReadErrorMoves
<1>3. CASE process_inner_handshake(q)
  BY <1>1, <1>3, HandshakeMoves
<1>4. CASE /\ Receives(q, {"data"})
           /\ \E b \in Seq(Nat) : st' = [st EXCEPT ![q] = [Opened(s) EXCEPT !.read_buf = b]]
  <2>1. PICK b \in Seq(Nat) : st' = [st EXCEPT ![q] = [Opened(s) EXCEPT !.read_buf = b]]
    BY <1>4
  <2>2. PICK v \in Streams :
            /\ v = Opened(s) /\ v.read_epoch = s.read_epoch
            /\ v.read_seq = s.read_seq + 1 /\ v.read_err = s.read_err
            /\ v.traffic_secrets <=> s.traffic_secrets
    BY <1>1, ReaderFields
  <2>3. PICK u : u = [v EXCEPT !.read_buf = b]
    OBVIOUS
  <2>4. Unmoved(v, u)
    BY <2>2, <2>3, ReaderFields
  <2>5. SameWriter(s, u)
    BY <1>1, <2>2, <2>3, ReaderFunctions
  <2>6. Incoming(q).kind \notin Updates
    BY <1>4 DEF Receives, Updates
  <2>7. /\ u.read_epoch = s.read_epoch /\ u.read_seq = s.read_seq + 1
        /\ u.read_err = s.read_err
        /\ u.traffic_secrets <=> s.traffic_secrets
    BY <2>2, <2>4 DEF Unmoved
  <2>8. st' = [st EXCEPT ![q] = u] /\ Receives(q, {"data"})
    BY <1>4, <2>1, <2>2, <2>3
  <2>9. QED
    BY <1>1, <2>5, <2>6, <2>7, <2>8, ReceiveMoves
<1>5. CASE /\ Receives(q, {"data"}) \/ Receives(q, {"alert"})
           /\ st' = [st EXCEPT ![q] = Opened(s)]
  <2>1. PICK v \in Streams :
            /\ v = Opened(s) /\ v.read_epoch = s.read_epoch
            /\ v.read_seq = s.read_seq + 1 /\ v.read_err = s.read_err
            /\ v.traffic_secrets <=> s.traffic_secrets
    BY <1>1, ReaderFields
  <2>2. SameWriter(s, v)
    BY <1>1, <2>1, ReaderFunctions
  <2>3. Incoming(q).kind \notin Updates
    BY <1>5 DEF Receives, Updates
  <2>4. st' = [st EXCEPT ![q] = v]
    BY <1>5, <2>1
  <2>5. QED
    BY <1>1, <1>5, <2>1, <2>2, <2>3, <2>4, ReceiveMoves
<1>6. CASE read_application_data(q)
  <2>1. CASE /\ Receives(q, {"alert"})
             /\ st' = [st EXCEPT ![q] = ReadFails(Opened(@), "InvalidMessage")]
    <3>1. PICK v \in Streams :
              /\ v = Opened(s) /\ v.read_epoch = s.read_epoch
              /\ v.read_seq = s.read_seq + 1
              /\ v.traffic_secrets <=> s.traffic_secrets
      BY <1>1, ReaderFields
    <3>2. PICK u : u = ReadFails(v, "InvalidMessage")
      OBVIOUS
    <3>3. SameKeys(v, u) /\ u.read_err = "InvalidMessage"
      BY <3>2, ReaderFields
    <3>4. SameWriter(s, u)
      BY <1>1, <3>1, <3>2, ReaderFunctions DEF Errors
    <3>5. Incoming(q).kind = "alert" /\ Incoming(q).kind \notin Updates
      BY <2>1 DEF Receives, Updates
    <3>6. /\ u.read_epoch = s.read_epoch /\ u.read_seq = s.read_seq + 1
          /\ u.traffic_secrets <=> s.traffic_secrets
      BY <3>1, <3>3 DEF SameKeys
    <3>7. st' = [st EXCEPT ![q] = u]
      BY <2>1, <3>1, <3>2
    <3>8. QED
      BY <1>1, <2>1, <3>3, <3>4, <3>5, <3>6, <3>7, ReceiveMoves
  <2>2. QED
    BY <1>2, <1>3, <1>5, <1>6, <2>1 DEF read_application_data
<1>7. CASE recv_close_notify(q)
  <2>1. CASE ReadError(q, [s EXCEPT !.close_result = "false"])
    <3>1. PICK u : u = [s EXCEPT !.close_result = "false"]
      OBVIOUS
    <3>2. SameWriter(s, u) /\ SameKeys(s, u) /\ u.read_err = s.read_err
      BY <1>1, <3>1, ReaderFunctions, ReaderFields
    <3>3. QED
      BY <1>1, <2>1, <3>1, <3>2, ReadErrorMoves
  <2>2. CASE /\ Receives(q, Kinds \ {"torn"})
             /\ st' = [st EXCEPT ![q] = [Opened(@) EXCEPT !.close_result = "true"]]
    <3>1. PICK v \in Streams :
              /\ v = Opened(s) /\ v.read_err = s.read_err
              /\ v.read_epoch = s.read_epoch /\ v.read_seq = s.read_seq + 1
              /\ v.traffic_secrets <=> s.traffic_secrets
      BY <1>1, ReaderFields
    <3>2. PICK u : u = [v EXCEPT !.close_result = "true"]
      OBVIOUS
    <3>3. SameKeys(v, u) /\ u.read_err = v.read_err /\ u.close_result # "none"
      BY <3>2, ReaderFields
    <3>4. SameWriter(s, u)
      BY <1>1, <3>1, <3>2, ReaderFunctions
    <3>5. /\ u.read_epoch = s.read_epoch /\ u.read_seq = s.read_seq + 1
          /\ u.traffic_secrets <=> s.traffic_secrets
      BY <3>1, <3>3 DEF SameKeys
    <3>6. st' = [st EXCEPT ![q] = u]
      BY <2>2, <3>1, <3>2
    <3>7. QED
      BY <1>1, <2>2, <3>1, <3>3, <3>4, <3>5, <3>6, ReceiveMoves
  <2>3. QED
    BY <1>7, <2>1, <2>2 DEF recv_close_notify
<1>8. CASE \E cap \in Caps : poll_read(q, cap)
  <2>1. PICK cap \in Caps : poll_read(q, cap)
    BY <1>8
  <2>2. cap \in Nat
    BY RecordLayerConstants
  <2>3. CASE /\ st' = [st EXCEPT ![q].read_buf = Drop(@, cap)]
             /\ UNCHANGED <<log, rpos, down>>
    <3>1. Drop(s.read_buf, cap) \in Seq(Nat)
      BY <1>1, <2>2, TakeDrop DEF Streams
    <3>2. PICK u : u = [s EXCEPT !.read_buf = Drop(s.read_buf, cap)]
      OBVIOUS
    <3>3. SameWriter(s, u) /\ Unmoved(s, u)
      BY <1>1, <3>1, <3>2, ReaderFunctions, ReaderFields
    <3>4. st'[q] = u /\ \A p \in Peers \ {q} : st'[p] = st[p]
      BY <1>1, <2>3, <3>2
    <3>5. u.traffic_secrets <=> s.traffic_secrets
      BY <3>3 DEF Unmoved
    <3>6. QED
      BY <1>1, <2>3, <3>3, <3>4, <3>5 DEF ReaderMoves, ReadsOn, MayRead
  <2>4. CASE /\ Receives(q, {"data"})
             /\ st' = [st EXCEPT ![q] = [Opened(@) EXCEPT
                          !.read_buf = Drop(Plaintext(Incoming(q)), cap)]]
    <3>1. Incoming(q).body \in Seq(Nat)
      BY <2>4, IncomingLemma DEF Receives
    <3>2. Drop(Plaintext(Incoming(q)), cap) \in Seq(Nat)
      BY <2>2, <3>1, TakeDrop DEF Plaintext
    <3>3. QED
      BY <1>4, <2>4, <3>2
  <2>5. QED
    BY <1>2, <1>3, <1>5, <2>1, <2>3, <2>4 DEF poll_read
<1>9. QED
  BY <1>6, <1>7, <1>8

-----------------------------------------------------------------------------
(* Neither half of a stream disturbs the direction of the other. *)
LEMMA DirectionKept ==
    ASSUME NEW L, NEW w, NEW t, NEW d, NEW n, NEW r, NEW u,
           Direction(L, w, d, n, r)
    PROVE  /\ SameReader(r, u) => Direction(L, w, d, n, u)
           /\ SameWriter(w, t) => Direction(L, t, d, n, r)
<1>1. ASSUME SameReader(r, u) PROVE Direction(L, w, d, n, u)
  BY <1>1 DEF SameReader, Direction, ReaderFollows
<1>2. ASSUME SameWriter(w, t) PROVE Direction(L, t, d, n, r)
  BY <1>2 DEF SameWriter, Direction, Marked, Rotates, WriterFollows
<1>3. QED
  BY <1>1, <1>2

LEMMA FlushedMoves ==
    ASSUME NEW L \in Seq(Records), NEW w, NEW t, NEW d, NEW d2, NEW L2,
           Flushed(L, w), Moves(L, w, d, L2, t, d2)
    PROVE  Flushed(L2, t)
<1>1. /\ t.stage \in {"auto", "data"} => ~t.key_update_pending
      /\ t.stage # "idle" => t.len \in Lens
  BY DEF Moves
<1>2. ASSUME "stream" \notin Apis, NEW i \in 1..Len(L2), L2[i].kind = "data"
      PROVE  ~L2[i].pending
  <2>1. CASE L2 = L
    BY <1>2, <2>1 DEF Flushed
  <2>2. CASE \E x \in Records : L2 = Append(L, x) /\ Sealed(x, w, t, d2)
    <3>1. PICK x \in Records : L2 = Append(L, x) /\ Sealed(x, w, t, d2)
      BY <2>2
    <3>2. \/ i \in 1..Len(L) /\ L2[i] = L[i]
          \/ L2[i] = x
      BY <1>2, <3>1, Appended
    <3>3. QED
      BY <1>2, <3>1, <3>2 DEF Flushed, Sealed
  <2>3. QED
    BY <2>1, <2>2 DEF Moves
<1>3. QED
  BY <1>1, <1>2 DEF Flushed

LEMMA SyncWritten ==
    ASSUME Inv, TypeOK', Sync, NEW p \in Peers, WriterMoves(p)
    PROVE  Sync'
<1>1. /\ st \in [Peers -> Streams] /\ log \in [Peers -> Seq(Records)]
      /\ down \in [Peers -> BOOLEAN] /\ rpos \in [Peers -> Nat]
      /\ st' \in [Peers -> Streams] /\ down' \in [Peers -> BOOLEAN]
  BY DEF Inv, TypeOK
<1>2. SUFFICES ASSUME NEW q \in Peers
               PROVE  /\ Direction(log'[q], st'[q], down'[q],
                                   rpos'[Other(q)], st'[Other(q)])
                      /\ Flushed(log'[q], st'[q])
  BY DEF Sync
<1>3. /\ Direction(log[q], st[q], down[q], rpos[Other(q)], st[Other(q)])
      /\ Flushed(log[q], st[q])
  BY DEF Sync
<1>4. /\ Moves(log[p], st[p], down[p], log'[p], st'[p], down'[p])
      /\ rpos' = rpos
      /\ \A x \in Peers \ {p} :
            st'[x] = st[x] /\ log'[x] = log[x] /\ down'[x] = down[x]
  BY DEF WriterMoves
<1>5. Other(q) \in Peers /\ Other(q) # q /\ (q # p => Other(q) = p)
  BY DEF Other, Peers
<1>6. CASE q = p
  <2>1. st'[Other(q)] = st[Other(q)]
    BY <1>4, <1>5, <1>6
  <2>2. Direction(log'[q], st'[q], down'[q], rpos[Other(q)], st[Other(q)])
    BY <1>1, <1>3, <1>4, <1>5, <1>6, DirectionWritten
  <2>3. Flushed(log'[q], st'[q])
    BY <1>1, <1>3, <1>4, <1>6, FlushedMoves
  <2>4. QED
    BY <1>4, <2>1, <2>2, <2>3
<1>7. CASE q # p
  <2>1. st'[q] = st[q] /\ log'[q] = log[q] /\ down'[q] = down[q] /\ Other(q) = p
    BY <1>4, <1>5, <1>7
  <2>2. SameReader(st[p], st'[p])
    BY <1>4 DEF Moves
  <2>3. QED
    BY <1>3, <1>4, <2>1, <2>2, DirectionKept
<1>8. QED
  BY <1>6, <1>7

LEMMA SyncRead ==
    ASSUME Inv, TypeOK', Sync, NEW p \in Peers, ReaderMoves(p)
    PROVE  Sync'
<1>1. /\ st \in [Peers -> Streams] /\ log \in [Peers -> Seq(Records)]
      /\ down \in [Peers -> BOOLEAN] /\ rpos \in [Peers -> Nat]
      /\ st' \in [Peers -> Streams] /\ rpos' \in [Peers -> Nat]
  BY DEF Inv, TypeOK
<1>2. SUFFICES ASSUME NEW q \in Peers
               PROVE  /\ Direction(log'[q], st'[q], down'[q],
                                   rpos'[Other(q)], st'[Other(q)])
                      /\ Flushed(log'[q], st'[q])
  BY DEF Sync
<1>3. /\ Direction(log[q], st[q], down[q], rpos[Other(q)], st[Other(q)])
      /\ Flushed(log[q], st[q])
  BY DEF Sync
<1>4. /\ st[p].stage = "idle" /\ SameWriter(st[p], st'[p])
      /\ ReadsOn(log[Other(p)], down[Other(p)], rpos[p], st[p], rpos'[p], st'[p])
      /\ \A x \in Peers \ {p} : st'[x] = st[x] /\ rpos'[x] = rpos[x]
      /\ log' = log /\ down' = down
  BY DEF ReaderMoves
<1>5. Other(q) \in Peers /\ Other(q) # q /\ (q # p => Other(q) = p /\ Other(p) = q)
  BY DEF Other, Peers
<1>6. CASE q = p
  <2>1. /\ st'[Other(q)] = st[Other(q)] /\ rpos'[Other(q)] = rpos[Other(q)]
        /\ SameWriter(st[q], st'[q]) /\ st'[q].stage = "idle"
    BY <1>4, <1>5, <1>6 DEF SameWriter
  <2>2. Direction(log[q], st'[q], down[q], rpos[Other(q)], st[Other(q)])
    BY <1>3, <2>1, DirectionKept
  <2>3. Flushed(log[q], st'[q])
    BY <1>3, <2>1 DEF Flushed
  <2>4. QED
    BY <1>4, <2>1, <2>2, <2>3
<1>7. CASE q # p
  <2>1. st'[q] = st[q] /\ Other(q) = p /\ Other(p) = q
    BY <1>4, <1>5, <1>7
  <2>2. Direction(log[q], st[q], down[q], rpos'[p], st'[p])
    BY <1>1, <1>3, <1>4, <2>1, DirectionRead
  <2>3. QED
    BY <1>3, <1>4, <2>1, <2>2
<1>8. QED
  BY <1>6, <1>7

LEMMA InitSync == Init => Sync
<1> SUFFICES ASSUME Init, NEW p \in Peers
             PROVE  /\ Direction(log[p], st[p], down[p], rpos[Other(p)], st[Other(p)])
                    /\ Flushed(log[p], st[p])
  BY DEF Sync
<1>1. Other(p) \in Peers
  BY DEF Other, Peers
<1>2. PICK secrets \in [Peers -> BOOLEAN] :
          st = [q \in Peers |-> NewStream(secrets[q])]
  BY DEF Init
<1>3. \A q \in Peers : /\ st[q].write_epoch = 0 /\ st[q].write_seq = 0
                       /\ st[q].read_epoch = 0 /\ st[q].read_seq = 0
                       /\ st[q].read_err = "none" /\ st[q].stage = "idle"
  BY <1>2 DEF NewStream
<1>4. Len(log[p]) = 0 /\ rpos[Other(p)] = 0
  BY <1>1 DEF Init
<1>5. PICK L : L = log[p]
  OBVIOUS
<1>6. Len(L) = 0
  BY <1>4, <1>5
<1>7. Chained(L) /\ Marked(L, st[p], down[p]) /\ Rotates(L, st[p], down[p])
  BY <1>6 DEF Chained, Marked, Rotates
<1>8. Direction(L, st[p], down[p], 0, st[Other(p)])
  BY <1>1, <1>3, <1>6, <1>7 DEF Direction, WriterFollows, ReaderFollows, Follows
<1>9. Flushed(L, st[p])
  BY <1>3, <1>6 DEF Flushed
<1>10. QED
  BY <1>4, <1>5, <1>8, <1>9

(* Every call of either peer keeps the two directions in step. *)
LEMMA NextSync == Inv /\ TypeOK' /\ Sync /\ [Next]_vars => Sync'
<1> SUFFICES ASSUME Inv, TypeOK', Sync, [Next]_vars PROVE Sync'
  OBVIOUS
<1>1. CASE UNCHANGED vars
  BY <1>1 DEF vars, Sync
<1>2. CASE Next
  <2>1. PICK p \in Peers :
          \/ \E n \in Lens : write_application_data(p, n) \/ poll_write(p, n)
          \/ flush_pending_key_update(p)
          \/ AutoKeyUpdate(p)
          \/ WriteData(p)
          \/ \E b \in BOOLEAN : send_key_update(p, b)
          \/ close(p)
          \/ poll_shutdown(p)
          \/ read_application_data(p)
          \/ recv_close_notify(p)
          \/ \E cap \in Caps : poll_read(p, cap)
    BY <1>2 DEF Next
  <2>2. Flushed(log[p], st[p])
    BY DEF Sync
  <2>3. CASE \/ \E n \in Lens : write_application_data(p, n)
             \/ flush_pending_key_update(p)
             \/ AutoKeyUpdate(p)
             \/ WriteData(p)
    BY <2>2, <2>3, WriteStagesMove, SyncWritten
  <2>4. CASE close(p) \/ \E b \in BOOLEAN : send_key_update(p, b)
    BY <2>2, <2>4, CloseAndKeyUpdateMove, SyncWritten
  <2>5. CASE poll_shutdown(p) \/ \E n \in Lens : poll_write(p, n)
    BY <2>5, StreamApiMoves, SyncWritten
  <2>6. CASE \/ read_application_data(p)
             \/ recv_close_notify(p)
             \/ \E cap \in Caps : poll_read(p, cap)
    BY <2>6, ReadersMove, SyncRead
  <2>7. QED
    BY <2>1, <2>3, <2>4, <2>5, <2>6
<1>3. QED
  BY <1>1, <1>2

(* Each direction of the connection stays in step: the reader's key and    *)
(* number are the ones that follow the records it has taken, and the       *)
(* writer's, while its transport holds up no write, the ones that follow   *)
(* all it has written.                                                     *)
THEOREM InStep == Spec => []Sync
<1>1. Init => Inv /\ Sync
  BY InitInv, InitSync
<1>2. Inv /\ Sync /\ [Next]_vars => (Inv /\ Sync)'
  <2>1. Inv' => TypeOK'
    BY DEF Inv
  <2>2. QED
    BY <2>1, NextInv, NextSync
<1>3. QED
  BY <1>1, <1>2, PTL DEF Spec

(* Whoever rotates its keys when, and however the rotations of the two     *)
(* sides cross, the reader holds the key and the number of the next        *)
(* record: rotate_write_key and rotate_read_key are called at the same     *)
(* place of the byte stream.  Smooth is needed because poll_write, polled  *)
(* again after Poll::Pending, skips a number.                              *)
THEOREM KeysStayInSync == ASSUME Smooth PROVE Spec => []KeysInSync
<1>1. Inv /\ Sync => KeysInSync
  <2>1. SUFFICES ASSUME Inv, Sync, NEW q \in Peers,
                        st[q].traffic_secrets, st[Other(q)].traffic_secrets,
                        st[q].close_result = "none"
                 PROVE  /\ st[q].read_err # "CipherError"
                        /\ Available(q) => Decrypts(q)
    BY DEF KeysInSync
  <2>2. Other(q) \in Peers /\ Other(Other(q)) = q
    BY DEF Other, Peers
  <2>3. PICK L, n, r : L = log[Other(q)] /\ n = rpos[q] /\ r = st[q]
    OBVIOUS
  <2>4. Direction(L, st[Other(q)], down[Other(q)], n, r)
    BY <2>1, <2>2, <2>3 DEF Sync
  <2>5. Chained(L) /\ ReaderFollows(L, n, r)
    BY <2>1, <2>3, <2>4 DEF Direction, WriterFollows
  <2>6. Follows(L, n, r.read_epoch, r.read_seq) /\ r.read_err # "CipherError"
    BY <2>1, <2>3, <2>5 DEF ReaderFollows
  <2>7. L \in Seq(Records) /\ n \in Nat
    BY <2>1, <2>2, <2>3 DEF Inv, TypeOK
  <2>8. ASSUME n < Len(L)
        PROVE  L[n + 1].epoch = r.read_epoch /\ L[n + 1].seq = r.read_seq
    <3>1. PICK i \in 1..Len(L) : i = n + 1 /\ i - 1 = n
      BY <2>7, <2>8
    <3>2. Follows(L, n, L[i].epoch, L[i].seq)
      BY <2>5, <3>1 DEF Chained
    <3>3. QED
      BY <2>6, <3>1, <3>2, FollowsOnce
  <2>9. QED
    BY <2>3, <2>6, <2>8 DEF Available, Decrypts, Incoming
<1>2. QED
  BY <1>1, Safety, InStep, PTL

(* While the transport is up and no write was held up, no read of either   *)
(* interface fails before the writer has closed, for every mixture of the  *)
(* calls and every threshold and limit.                                    *)
THEOREM NoReadFails == Spec => []ReadsSucceed
<1>1. Sync => ReadsSucceed
  <2>1. SUFFICES ASSUME Sync, NEW q \in Peers,
                        st[q].traffic_secrets, st[Other(q)].traffic_secrets,
                        ~down[Other(q)], Intact(Other(q)),
                        ~st[Other(q)].close_notify_sent
                 PROVE  st[q].read_err = "none"
    BY DEF ReadsSucceed
  <2>2. Other(q) \in Peers /\ Other(Other(q)) = q
    BY DEF Other, Peers
  <2>3. Direction(log[Other(q)], st[Other(q)], down[Other(q)], rpos[q], st[q])
    BY <2>1, <2>2 DEF Sync
  <2>4. Whole(log[Other(q)])
    BY <2>1 DEF Intact, Whole, Updates
  <2>5. QED
    BY <2>1, <2>3, <2>4 DEF Direction
<1>2. QED
  BY <1>1, InStep, PTL

(* write_application_data never sends data while the answer to a requested *)
(* KeyUpdate is outstanding, however the calls of the two sides meet and   *)
(* whichever of its stages failed before.  poll_write does not look at     *)
(* key_update_pending, so callers of the stream interface have no such     *)
(* promise.                                                                *)
THEOREM AnswersFirst ==
    ASSUME "stream" \notin Apis
    PROVE  Spec => []PendingUpdateFirst
<1>1. Sync => PendingUpdateFirst
  BY DEF Sync, Flushed, PendingUpdateFirst
<1>2. QED
  BY <1>1, InStep, PTL

-----------------------------------------------------------------------------
(* The reliable channel.  Key and number of a record are those of an       *)
(* earlier one, n records further, or lie behind a later rotation.         *)

Later(e, k, e2, k2, n) == e2 > e \/ (e2 = e /\ k2 >= k + n)

Spaced(L, w) ==
    \A i \in 1..Len(L) :
        /\ \A j \in 1..Len(L) :
              i < j => Later(L[i].epoch, L[i].seq, L[j].epoch, L[j].seq, j - i)
        /\ Later(L[i].epoch, L[i].seq, w.write_epoch, w.write_seq,
                 (Len(L) + 1) - i)

(* Without a secret the first key is the only one. *)
Unrotated(L, w) ==
    ~w.traffic_secrets =>
        w.write_epoch = 0 /\ \A i \in 1..Len(L) : L[i].epoch = 0

(* The record with key e and number k, for which the reader will have read *)
(* n others, is at the reader's number or past it.                         *)
Past(e, k, n, w, r) ==
    \/ e > r.read_epoch
    \/ e < r.read_epoch /\ ~w.traffic_secrets
    \/ e = r.read_epoch /\ k >= r.read_seq + n

(* The records that the reader has still to take, and those still to be    *)
(* written, are at its number (x = 0), or past it for ever (x = 1).        *)
Coming(L, w, d, n, r, x) ==
    /\ \A i \in 1..Len(L) :
          i > n => Past(L[i].epoch, L[i].seq, ((i - n) - 1) + x, w, r)
    /\ d \/ Past(w.write_epoch, w.write_seq, (Len(L) - n) + x, w, r)

LEMMA SpacedWritten ==
    ASSUME NEW L \in Seq(Records), NEW w \in Streams, NEW t \in Streams,
           NEW d, NEW d2, NEW L2,
           Spaced(L, w), Unrotated(L, w), Moves(L, w, d, L2, t, d2)
    PROVE  Spaced(L2, t) /\ Unrotated(L2, t)
<1>1. PICK len \in Nat : len = Len(L)
  OBVIOUS
<1>2. /\ w.write_epoch \in Nat /\ w.write_seq \in Nat
      /\ t.write_epoch \in Nat /\ t.write_seq \in Nat
      /\ t.traffic_secrets <=> w.traffic_secrets
      /\ \A i \in 1..len : L[i].epoch \in Nat /\ L[i].seq \in Nat
  <2>1. \A i \in 1..len : L[i] \in Records
    BY <1>1
  <2>2. \A i \in 1..len : L[i].epoch \in Nat /\ L[i].seq \in Nat
    BY <2>1 DEF Records
  <2>3. QED
    BY <2>2 DEF Streams, Moves, SameReader
<1>3. \A i \in 1..len :
          /\ \A j \in 1..len :
                i < j => Later(L[i].epoch, L[i].seq, L[j].epoch, L[j].seq, j - i)
          /\ Later(L[i].epoch, L[i].seq, w.write_epoch, w.write_seq, (len + 1) - i)
  BY <1>1 DEF Spaced
<1>4. CASE /\ L2 = L /\ t.write_epoch = w.write_epoch
           /\ t.write_seq = w.write_seq \/ t.write_seq = w.write_seq + 1
  <2>1. \A i \in 1..len :
            Later(L[i].epoch, L[i].seq, t.write_epoch, t.write_seq, (len + 1) - i)
    BY <1>2, <1>3, <1>4 DEF Later
  <2>2. QED
    BY <1>1, <1>2, <1>3, <1>4, <2>1 DEF Spaced, Unrotated
<1>5. CASE \E x \in Records : L2 = Append(L, x) /\ Sealed(x, w, t, d2)
  <2>1. PICK x \in Records : L2 = Append(L, x) /\ Sealed(x, w, t, d2)
    BY <1>5
  <2>2. /\ Len(L2) = len + 1 /\ L2[len + 1] = x
        /\ \A i \in 1..len : L2[i] = L[i]
        /\ \A i \in 1..len + 1 : i \in 1..len \/ i = len + 1
    BY <1>1, <2>1, Appended
  <2>3. /\ x.epoch = w.write_epoch /\ x.seq = w.write_seq
        /\ \/ w.traffic_secrets /\ t.write_epoch = x.epoch + 1
           \/ t.write_epoch = x.epoch /\ t.write_seq = x.seq + 1
    BY <2>1 DEF Sealed
  <2>4. ASSUME NEW i \in 1..len + 1
        PROVE  /\ \A j \in 1..len + 1 :
                     i < j => Later(L2[i].epoch, L2[i].seq,
                                    L2[j].epoch, L2[j].seq, j - i)
               /\ Later(L2[i].epoch, L2[i].seq, t.write_epoch, t.write_seq,
                        ((len + 1) + 1) - i)
    <3>1. CASE i = len + 1
      BY <1>2, <2>2, <2>3, <3>1 DEF Later
    <3>2. CASE i \in 1..len
      <4>1. Later(L[i].epoch, L[i].seq, x.epoch, x.seq, (len + 1) - i)
        BY <1>3, <2>3, <3>2
      <4>2. Later(L[i].epoch, L[i].seq, t.write_epoch, t.write_seq,
                  ((len + 1) + 1) - i)
        BY <1>2, <2>3, <3>2, <4>1 DEF Later
      <4>3. QED
        BY <1>3, <2>2, <3>2, <4>1, <4>2
    <3>3. QED
      BY <2>2, <3>1, <3>2
  <2>5. Unrotated(L2, t)
    BY <1>1, <1>2, <2>2, <2>3 DEF Unrotated
  <2>6. QED
    BY <2>2, <2>4, <2>5 DEF Spaced
<1>6. QED
  BY <1>4, <1>5 DEF Moves

LEMMA ComingWritten ==
    ASSUME NEW L \in Seq(Records), NEW w \in Streams, NEW t \in Streams,
           NEW d \in BOOLEAN, NEW d2 \in BOOLEAN, NEW L2, NEW n \in Nat,
           n <= Len(L), NEW r \in Streams, NEW x \in {0, 1},
           Unrotated(L, w), Coming(L, w, d, n, r, x), Moves(L, w, d, L2, t, d2)
    PROVE  Coming(L2, t, d2, n, r, x)
<1>1. PICK len \in Nat : len = Len(L)
  OBVIOUS
<1>2. /\ w.write_epoch \in Nat /\ w.write_seq \in Nat
      /\ t.write_epoch \in Nat /\ t.write_seq \in Nat
      /\ r.read_epoch \in Nat /\ r.read_seq \in Nat
      /\ t.traffic_secrets <=> w.traffic_secrets
      /\ d => d2
  BY DEF Streams, Moves, SameReader
<1>3. /\ \A i \in 1..len :
            i > n => Past(L[i].epoch, L[i].seq, ((i - n) - 1) + x, t, r)
      /\ d \/ Past(w.write_epoch, w.write_seq, (len - n) + x, w, r)
  BY <1>1, <1>2 DEF Coming, Past
<1>4. CASE /\ L2 = L /\ t.write_epoch = w.write_epoch
           /\ t.write_seq = w.write_seq \/ t.write_seq = w.write_seq + 1
  <2>1. d2 \/ Past(t.write_epoch, t.write_seq, (len - n) + x, t, r)
    BY <1>1, <1>2, <1>3, <1>4 DEF Past
  <2>2. QED
    BY <1>1, <1>3, <1>4, <2>1 DEF Coming
<1>5. CASE ~d /\ \E y \in Records : L2 = Append(L, y) /\ Sealed(y, w, t, d2)
  <2>1. PICK y \in Records : L2 = Append(L, y) /\ Sealed(y, w, t, d2)
    BY <1>5
  <2>2. /\ Len(L2) = len + 1 /\ L2[len + 1] = y
        /\ \A i \in 1..len : L2[i] = L[i]
        /\ \A i \in 1..len + 1 : i \in 1..len \/ i = len + 1
    BY <1>1, <2>1, Appended
  <2>3. /\ y.epoch = w.write_epoch /\ y.seq = w.write_seq
        /\ \/ w.traffic_secrets /\ t.write_epoch = y.epoch + 1
           \/ t.write_epoch = y.epoch /\ t.write_seq = y.seq + 1
    BY <2>1 DEF Sealed
  <2>4. Past(w.write_epoch, w.write_seq, (len - n) + x, w, r)
    BY <1>3, <1>5
  <2>5. Past(y.epoch, y.seq, (((len + 1) - n) - 1) + x, t, r)
    BY <1>1, <1>2, <2>3, <2>4 DEF Past
  <2>6. Past(t.write_epoch, t.write_seq, ((len + 1) - n) + x, t, r)
    BY <1>1, <1>2, <2>3, <2>4 DEF Past
  <2>7. ASSUME NEW i \in 1..len + 1, i > n
        PROVE  Past(L2[i].epoch, L2[i].seq, ((i - n) - 1) + x, t, r)
    BY <1>3, <2>2, <2>5, <2>7
  <2>8. QED
    BY <2>2, <2>6, <2>7 DEF Coming
<1>6. QED
  BY <1>4, <1>5 DEF Moves

(* A reader whose next record does not open will open none that follows. *)
LEMMA ComingMissed ==
    ASSUME NEW L \in Seq(Records), NEW w \in Streams, NEW d, NEW n \in Nat,
           NEW r \in Streams, NEW u \in Streams,
           n < Len(L), Spaced(L, w), Unrotated(L, w), Marked(L, w, d),
           Coming(L, w, d, n, r, 0),
           u.read_epoch = r.read_epoch, u.read_seq \in {r.read_seq, r.read_seq + 1},
           \/ r.read_seq = MaxSeq
           \/ ~(L[n + 1].epoch = r.read_epoch /\ L[n + 1].seq = r.read_seq)
    PROVE  Coming(L, w, d, n + 1, u, 1)
<1>1. PICK len \in Nat : len = Len(L)
  OBVIOUS
<1>2. PICK c \in 1..len : c = n + 1
  BY <1>1
<1>3. \A i \in 1..len : L[i] \in Records
  BY <1>1
<1>4. /\ w.write_epoch \in Nat /\ w.write_seq \in Nat
      /\ r.read_epoch \in Nat /\ r.read_seq \in Nat /\ u.read_seq \in Nat
      /\ \A i \in 1..len : L[i].epoch \in Nat /\ L[i].seq \in Nat
  BY <1>3 DEF Streams, Records
<1>5. Past(L[c].epoch, L[c].seq, 0, w, r)
  <2>1. Past(L[c].epoch, L[c].seq, ((c - n) - 1) + 0, w, r)
    BY <1>1, <1>2 DEF Coming
  <2>2. ((c - n) - 1) + 0 = 0
    BY <1>2
  <2>3. QED
    BY <2>1, <2>2
<1>6. L[c].seq # MaxSeq
  BY <1>1 DEF Marked
<1>7. \/ L[c].epoch > r.read_epoch
      \/ L[c].epoch < r.read_epoch /\ ~w.traffic_secrets
      \/ L[c].epoch = r.read_epoch /\ L[c].seq >= r.read_seq + 1
  BY <1>2, <1>4, <1>5, <1>6 DEF Past
<1>8. ASSUME NEW e \in Nat, NEW k \in Nat, NEW m \in Nat,
             Later(L[c].epoch, L[c].seq, e, k, m), ~w.traffic_secrets => e = 0
      PROVE  Past(e, k, m, w, u)
  <2>1. CASE L[c].epoch > r.read_epoch
    BY <1>4, <1>8, <2>1 DEF Later, Past
  <2>2. CASE L[c].epoch < r.read_epoch /\ ~w.traffic_secrets
    BY <1>4, <1>8, <2>2 DEF Later, Past
  <2>3. CASE L[c].epoch = r.read_epoch /\ L[c].seq >= r.read_seq + 1
    <3>1. \/ e > u.read_epoch
          \/ e = u.read_epoch /\ k >= L[c].seq + m
      BY <1>8, <2>3 DEF Later
    <3>2. L[c].seq >= u.read_seq /\ L[c].seq \in Nat
      BY <1>4, <2>3
    <3>3. k >= L[c].seq + m => k >= u.read_seq + m
      BY <1>4, <3>2
    <3>4. QED
      BY <3>1, <3>3 DEF Past
  <2>4. QED
    BY <1>7, <2>1, <2>2, <2>3
<1>9. ASSUME NEW i \in 1..len, i > n + 1
      PROVE  Past(L[i].epoch, L[i].seq, ((i - (n + 1)) - 1) + 1, w, u)
  <2>1. Later(L[c].epoch, L[c].seq, L[i].epoch, L[i].seq, i - c)
    BY <1>1, <1>2, <1>9 DEF Spaced
  <2>2. i - c \in Nat /\ ((i - (n + 1)) - 1) + 1 = i - c
    BY <1>2, <1>9
  <2>3. ~w.traffic_secrets => L[i].epoch = 0
    BY <1>1 DEF Unrotated
  <2>4. QED
    BY <1>4, <1>8, <2>1, <2>2, <2>3
<1>10. Past(w.write_epoch, w.write_seq, (len - (n + 1)) + 1, w, u)
  <2>1. Later(L[c].epoch, L[c].seq, w.write_epoch, w.write_seq, (len + 1) - c)
    BY <1>1, <1>2 DEF Spaced
  <2>2. (len + 1) - c \in Nat /\ (len - (n + 1)) + 1 = (len + 1) - c
    BY <1>1, <1>2
  <2>3. ~w.traffic_secrets => w.write_epoch = 0
    BY DEF Unrotated
  <2>4. QED
    BY <1>4, <1>8, <2>1, <2>2, <2>3
<1>11. QED
  BY <1>1, <1>9, <1>10 DEF Coming

(* A record that opens is followed by the reader's next. *)
LEMMA ComingTook ==
    ASSUME NEW L \in Seq(Records), NEW w \in Streams, NEW d, NEW n \in Nat,
           NEW r \in Streams, NEW u \in Streams, NEW n2,
           Spaced(L, w), Unrotated(L, w), w.traffic_secrets => Rotates(L, w, d),
           Coming(L, w, d, n, r, 0), Took(L, n, r, n2, u)
    PROVE  Coming(L, w, d, n2, u, 0)
<1>1. PICK len \in Nat : len = Len(L)
  OBVIOUS
<1>2. /\ n2 = n + 1 /\ n < len
      /\ L[n + 1].epoch = r.read_epoch /\ L[n + 1].seq = r.read_seq
      /\ \/ L[n + 1].kind \in Updates /\ u.read_epoch = r.read_epoch + 1 /\ u.read_seq = 0
         \/ u.read_epoch = r.read_epoch /\ u.read_seq = r.read_seq + 1
  BY <1>1 DEF Took
<1>3. \A i \in 1..len : L[i] \in Records
  BY <1>1
<1>4. /\ w.write_epoch \in Nat /\ w.write_seq \in Nat
      /\ r.read_epoch \in Nat /\ r.read_seq \in Nat
      /\ \A i \in 1..len : L[i].epoch \in Nat /\ L[i].seq \in Nat
  BY <1>3 DEF Streams, Records
<1>5. /\ \A i \in 1..len : i > n => Past(L[i].epoch, L[i].seq, ((i - n) - 1) + 0, w, r)
      /\ d \/ Past(w.write_epoch, w.write_seq, (len - n) + 0, w, r)
  BY <1>1 DEF Coming
<1>6. PICK c \in 1..len : c = n + 1
  BY <1>1, <1>2
<1>7. CASE u.read_epoch = r.read_epoch /\ u.read_seq = r.read_seq + 1
  <2>1. ASSUME NEW i \in 1..len, i > n + 1
        PROVE  Past(L[i].epoch, L[i].seq, ((i - (n + 1)) - 1) + 0, w, u)
    <3>1. Past(L[i].epoch, L[i].seq, ((i - n) - 1) + 0, w, r)
      BY <1>5, <2>1
    <3>2. QED
      BY <1>4, <1>7, <2>1, <3>1 DEF Past
  <2>2. d \/ Past(w.write_epoch, w.write_seq, (len - (n + 1)) + 0, w, u)
    BY <1>1, <1>2, <1>4, <1>5, <1>7 DEF Past
  <2>3. QED
    BY <1>1, <1>2, <2>1, <2>2 DEF Coming
<1>8. CASE /\ L[n + 1].kind \in Updates /\ ~w.traffic_secrets
           /\ u.read_epoch = r.read_epoch + 1
  <2>1. w.write_epoch = 0 /\ \A i \in 1..len : L[i].epoch = 0
    BY <1>1, <1>8 DEF Unrotated
  <2>2. u.read_epoch > 0
    BY <1>4, <1>8
  <2>3. QED
    BY <1>1, <1>8, <2>1, <2>2 DEF Coming, Past
<1>9. CASE /\ L[n + 1].kind \in Updates /\ w.traffic_secrets
           /\ u.read_epoch = r.read_epoch + 1 /\ u.read_seq = 0
  <2>1. IF c = len THEN d \/ w.write_epoch > L[c].epoch
        ELSE L[c + 1].epoch > L[c].epoch
    BY <1>1, <1>6, <1>9 DEF Rotates
  <2>2. CASE c = len
    <3>1. d \/ Past(w.write_epoch, w.write_seq, (len - (n + 1)) + 0, w, u)
      BY <1>2, <1>4, <1>6, <1>9, <2>1, <2>2 DEF Past
    <3>2. \A i \in 1..len : ~(i > n + 1)
      BY <1>6, <2>2
    <3>3. QED
      BY <1>1, <1>2, <3>1, <3>2 DEF Coming
  <2>3. CASE c # len
    <3>1. PICK f \in 1..len : f = c + 1
      BY <2>3
    <3>2. L[f].epoch >= r.read_epoch + 1 /\ L[f].epoch \in Nat /\ L[f].seq \in Nat
      BY <1>2, <1>4, <1>6, <2>1, <2>3, <3>1
    <3>3. ASSUME NEW i \in 1..len, i > n + 1
          PROVE  Past(L[i].epoch, L[i].seq, ((i - (n + 1)) - 1) + 0, w, u)
      <4>1. CASE i = f
        BY <1>4, <1>6, <1>9, <3>1, <3>2, <4>1 DEF Past
      <4>2. CASE i > f
        <5>1. Later(L[f].epoch, L[f].seq, L[i].epoch, L[i].seq, i - f)
          BY <1>1, <3>1, <4>2 DEF Spaced
        <5>2. /\ ((i - (n + 1)) - 1) + 0 = i - f /\ i - f \in Nat
              /\ L[i].epoch \in Nat /\ L[i].seq \in Nat
          BY <1>4, <1>6, <3>1, <4>2
        <5>3. PICK m \in Nat : m = i - f
          BY <5>2
        <5>4. \/ L[i].epoch > L[f].epoch
              \/ L[i].epoch = L[f].epoch /\ L[i].seq >= L[f].seq + m
          BY <5>1, <5>3 DEF Later
        <5>5. \/ L[i].epoch > u.read_epoch
              \/ L[i].epoch = u.read_epoch /\ L[i].seq >= 0 + m
          <6>1. u.read_epoch \in Nat /\ L[f].epoch >= u.read_epoch
            BY <1>4, <1>9, <3>2
          <6>2. CASE L[i].epoch > L[f].epoch
            BY <3>2, <5>2, <6>1, <6>2
          <6>3. CASE L[i].epoch = L[f].epoch /\ L[i].seq >= L[f].seq + m
            <7>1. L[i].seq >= 0 + m
              BY <3>2, <5>2, <5>3, <6>3
            <7>2. QED
              BY <3>2, <6>1, <6>3, <7>1
          <6>4. QED
            BY <5>4, <6>2, <6>3
        <5>6. QED
          BY <1>9, <5>2, <5>3, <5>5 DEF Past
      <4>3. QED
        BY <1>6, <3>1, <3>3, <4>1, <4>2
    <3>4. Past(w.write_epoch, w.write_seq, (len - (n + 1)) + 0, w, u)
      <4>1. Later(L[f].epoch, L[f].seq, w.write_epoch, w.write_seq, (len + 1) - f)
        BY <1>1, <3>1 DEF Spaced
      <4>2. QED
        BY <1>1, <1>4, <1>6, <1>9, <3>1, <3>2, <4>1 DEF Past, Later
    <3>5. QED
      BY <1>1, <1>2, <3>3, <3>4 DEF Coming
  <2>4. QED
    BY <2>2, <2>3
<1>10. QED
  BY <1>2, <1>7, <1>8, <1>9

LEMMA ComingRead ==
    ASSUME NEW L \in Seq(Records), NEW w \in Streams, NEW d, NEW n \in Nat,
           NEW r \in Streams, NEW u \in Streams, NEW n2 \in Nat, n <= Len(L),
           Spaced(L, w), Unrotated(L, w), Marked(L, w, d),
           w.traffic_secrets => Rotates(L, w, d),
           Coming(L, w, d, n, r, 0), ReadsOn(L, d, n, r, n2, u)
    PROVE  /\ Coming(L, w, d, n2, u, 0)
           /\ Coming(L, w, d, n, r, 1) => Coming(L, w, d, n2, u, 1)
           /\ Took(L, n, r, n2, u) => ~Coming(L, w, d, n, r, 1)
           /\ n2 # n => Took(L, n, r, n2, u) \/ Coming(L, w, d, n2, u, 1)
<1>1. PICK len \in Nat : len = Len(L)
  OBVIOUS
<1>2. ASSUME NEW v \in Streams, NEW m \in Nat, Coming(L, w, d, m, v, 1)
      PROVE  Coming(L, w, d, m, v, 0)
  <2>1. \A i \in 1..len : L[i] \in Records
    BY <1>1
  <2>2. /\ w.write_seq \in Nat /\ v.read_seq \in Nat
        /\ \A i \in 1..len : L[i].seq \in Nat
    BY <2>1 DEF Streams, Records
  <2>3. \A e : \A k \in Nat : \A a \in Int :
            Past(e, k, a + 1, w, v) => Past(e, k, a + 0, w, v)
    BY <2>2 DEF Past
  <2>4. /\ (len - m) \in Int
        /\ \A i \in 1..len : ((i - m) - 1) \in Int
    BY <1>1
  <2>5. QED
    BY <1>1, <1>2, <2>2, <2>3, <2>4 DEF Coming
<1>3. ASSUME n2 = n, u.read_epoch = r.read_epoch, u.read_seq = r.read_seq
      PROVE  \A x : Coming(L, w, d, n, r, x) => Coming(L, w, d, n2, u, x)
  BY <1>3 DEF Coming, Past
<1>4. CASE n2 = n /\ u.read_epoch = r.read_epoch /\ u.read_seq = r.read_seq
  <2>1. ~Took(L, n, r, n2, u)
    BY <1>4 DEF Took
  <2>2. QED
    BY <1>3, <1>4, <2>1
<1>5. CASE Took(L, n, r, n2, u)
  <2>1. Coming(L, w, d, n2, u, 0)
    BY <1>5, ComingTook
  <2>2. ASSUME Coming(L, w, d, n, r, 1) PROVE FALSE
    <3>1. PICK c \in 1..len : c = n + 1
      BY <1>1, <1>5 DEF Took
    <3>2. Past(L[c].epoch, L[c].seq, ((c - n) - 1) + 1, w, r)
      BY <1>1, <2>2, <3>1 DEF Coming
    <3>3. /\ L[c].epoch = r.read_epoch /\ L[c].seq = r.read_seq
          /\ ((c - n) - 1) + 1 = 1
      BY <1>5, <3>1 DEF Took
    <3>4. r.read_epoch \in Nat /\ r.read_seq \in Nat
      BY DEF Streams
    <3>5. QED
      BY <3>2, <3>3, <3>4 DEF Past
  <2>3. QED
    BY <1>5, <2>1, <2>2
<1>6. CASE /\ Erred(L, d, n, r, n2, u) /\ n2 = n + 1
  <2>1. Coming(L, w, d, n2, u, 1)
    <3>1. /\ n < Len(L) /\ u.read_epoch = r.read_epoch
          /\ u.read_seq \in {r.read_seq, r.read_seq + 1}
          /\ \/ r.read_seq = MaxSeq
             \/ ~(L[n + 1].epoch = r.read_epoch /\ L[n + 1].seq = r.read_seq)
      BY <1>6 DEF Erred
    <3>2. QED
      BY <1>6, <3>1, ComingMissed
  <2>2. Coming(L, w, d, n2, u, 0)
    BY <1>2, <2>1
  <2>3. QED
    BY <1>5, <2>1, <2>2
<1>7. QED
  BY <1>4, <1>5, <1>6 DEF ReadsOn, Erred, Unmoved

-----------------------------------------------------------------------------
(* The bytes.  No caller writes an empty buffer, which poll_read reports   *)
(* as the end of the stream, and no stream is used through both            *)
(* interfaces: close lets later writes pass, and poll_read takes the alert *)
(* it sent for the end.                                                    *)
Unmixed == 0 \notin Lens /\ ("record" \notin Apis \/ "stream" \notin Apis)

(* base[i] bytes go before the i-th record, se bytes before the next. *)
Offsets(L, se, d, base) ==
    /\ base \in [1..Len(L) + 1 -> Nat]
    /\ base[1] = 0 /\ base[Len(L) + 1] = se
    /\ \A i \in 1..Len(L) :
          /\ base[i + 1] = base[i] + Len(L[i].body) /\ base[i + 1] <= se
          /\ IF L[i].kind = "data"
             THEN /\ L[i].body # << >>
                  /\ L[i].body = Bytes(base[i], Len(L[i].body))
             ELSE L[i].body = << >>
          /\ L[i].kind = "alert" =>
                (d /\ base[i] = se) \/ "stream" \notin Apis

(* The user was given the bytes before those in the buffer, and these come *)
(* before the next record, unless no record will open any more.            *)
Handed(L, w, d, se, n, r, dl, base) ==
    /\ dl = Bytes(0, Len(dl))
    /\ r.read_buf = Bytes(Len(dl), Len(r.read_buf))
    /\ Len(dl) + Len(r.read_buf) <= se
    /\ "stream" \notin Apis => r.read_buf = << >>
    /\ r.close_result = "none" =>
          \/ Coming(L, w, d, n, r, 1)
          \/ Len(dl) + Len(r.read_buf) = base[n + 1]

Order(L, w, d, se, n, r, dl) ==
    /\ Spaced(L, w) /\ Unrotated(L, w) /\ Coming(L, w, d, n, r, 0)
    /\ \E base : Offsets(L, se, d, base) /\ Handed(L, w, d, se, n, r, dl, base)

InOrder ==
    \A q \in Peers : Order(log[Other(q)], st[Other(q)], down[Other(q)],
                           sent[Other(q)], rpos[q], st[q], delivered[q])

LEMMA BytesType ==
    ASSUME NEW b \in Nat, NEW n \in Nat
    PROVE  /\ Bytes(b, n) \in Seq(Nat) /\ Len(Bytes(b, n)) = n
           /\ \A i \in 1..n : Bytes(b, n)[i] = b + i
  BY DEF Bytes

LEMMA BytesAre ==
    ASSUME NEW s \in Seq(Nat), NEW b \in Nat,
           \A i \in 1..Len(s) : s[i] = b + i
    PROVE  s = Bytes(b, Len(s))
<1>1. PICK n \in Nat : n = Len(s)
  OBVIOUS
<1>2. s = [i \in 1..n |-> s[i]]
  BY <1>1
<1>3. QED
  BY <1>1, <1>2 DEF Bytes

LEMMA Joined ==
    ASSUME NEW s \in Seq(Nat), NEW t \in Seq(Nat)
    PROVE  /\ s \o t \in Seq(Nat) /\ Len(s \o t) = Len(s) + Len(t)
           /\ \A i \in 1..Len(s) : (s \o t)[i] = s[i] /\ i \in 1..Len(s) + Len(t)
           /\ \A i \in 1..Len(t) : /\ (s \o t)[Len(s) + i] = t[i]
                                   /\ Len(s) + i \in 1..Len(s) + Len(t)
  OBVIOUS

(* Bytes in two parts. *)
LEMMA BytesCut ==
    ASSUME NEW b \in Nat, NEW front \in Seq(Nat), NEW back \in Seq(Nat),
           front \o back = Bytes(b, Len(front) + Len(back))
    PROVE  /\ front = Bytes(b, Len(front))
           /\ back = Bytes(b + Len(front), Len(back))
<1>1. PICK j \in Nat, k \in Nat : j = Len(front) /\ k = Len(back)
  OBVIOUS
<1>2. \A i \in 1..j + k : (front \o back)[i] = b + i
  <2>1. j + k \in Nat /\ front \o back = Bytes(b, j + k)
    BY <1>1
  <2>2. QED
    BY <2>1, BytesType
<1>3. \A i \in 1..j : front[i] = b + i
  BY <1>1, <1>2, Joined
<1>4. \A i \in 1..k : back[i] = (b + j) + i
  <2> TAKE i \in 1..k
  <2>1. back[i] = b + (j + i)
    BY <1>1, <1>2, Joined
  <2>2. QED
    BY <2>1
<1>5. b + j \in Nat
  OBVIOUS
<1>6. QED
  BY <1>1, <1>3, <1>4, <1>5, BytesAre

LEMMA BytesJoin ==
    ASSUME NEW s \in Seq(Nat), s = Bytes(0, Len(s)),
           NEW t \in Seq(Nat), t = Bytes(Len(s), Len(t))
    PROVE  /\ s \o t \in Seq(Nat) /\ Len(s \o t) = Len(s) + Len(t)
           /\ s \o t = Bytes(0, Len(s \o t))
<1>1. PICK j \in Nat, k \in Nat : j = Len(s) /\ k = Len(t)
  OBVIOUS
<1>2. /\ \A i \in 1..j : s[i] = 0 + i
      /\ \A i \in 1..k : t[i] = j + i
  <2>1. 0 \in Nat /\ s = Bytes(0, j) /\ t = Bytes(j, k)
    BY <1>1
  <2>2. QED
    BY <2>1, BytesType
<1>3. PICK c \in Seq(Nat) : c = s \o t /\ Len(c) = j + k
  BY <1>1, Joined
<1>4. \A i \in 1..j + k : c[i] = 0 + i
  <2> TAKE i \in 1..j + k
  <2>1. CASE i \in 1..j
    BY <1>1, <1>2, <1>3, <2>1, Joined
  <2>2. CASE i \notin 1..j
    <3>1. PICK m \in 1..k : i = j + m
      <4>1. i - j \in 1..k /\ i = j + (i - j)
        BY <2>2
      <4>2. QED
        BY <4>1
    <3>2. QED
      BY <1>1, <1>2, <1>3, <3>1, Joined
  <2>3. QED
    BY <2>1, <2>2
<1>5. QED
  BY <1>1, <1>3, <1>4, BytesAre

(* One more record on the wire, whose bytes follow the bytes before. *)
LEMMA OffsetsWritten ==
    ASSUME Unmixed, NEW L \in Seq(Records), NEW se \in Nat, NEW d \in BOOLEAN,
           NEW base, Offsets(L, se, d, base), NEW x \in Records,
           NEW d2 \in BOOLEAN, ~d, Carries(x, se, d2),
           NEW se2 \in Nat, se2 = se + Len(x.body)
    PROVE  \E base2 : /\ Offsets(Append(L, x), se2, d2, base2)
                      /\ \A i \in 1..Len(L) + 1 : base2[i] = base[i]
<1>1. PICK len \in Nat : len = Len(L)
  OBVIOUS
<1>2. PICK L2 : L2 = Append(L, x)
  OBVIOUS
<1>3. /\ Len(L2) = len + 1 /\ L2[len + 1] = x
      /\ \A i \in 1..len : L2[i] = L[i]
      /\ \A i \in 1..len + 1 : i \in 1..len \/ i = len + 1
  BY <1>1, <1>2, Appended
<1>4. /\ base \in [1..len + 1 -> Nat] /\ base[1] = 0 /\ base[len + 1] = se
      /\ \A i \in 1..len :
            /\ base[i + 1] = base[i] + Len(L[i].body) /\ base[i + 1] <= se
            /\ IF L[i].kind = "data"
               THEN /\ L[i].body # << >>
                    /\ L[i].body = Bytes(base[i], Len(L[i].body))
               ELSE L[i].body = << >>
            /\ L[i].kind = "alert" =>
                  (d /\ base[i] = se) \/ "stream" \notin Apis
  BY <1>1 DEF Offsets
<1>5. PICK base2 :
          base2 = [i \in 1..len + 2 |-> IF i = len + 2 THEN se2 ELSE base[i]]
  OBVIOUS
<1>6. /\ base2 \in [1..len + 2 -> Nat] /\ base2[len + 2] = se2
      /\ \A i \in 1..len + 1 : base2[i] = base[i]
  <2>1. /\ \A i \in 1..len + 1 : i \in 1..len + 2 /\ i # len + 2
        /\ \A i \in 1..len + 2 : i \in 1..len + 1 \/ i = len + 2
        /\ len + 2 \in 1..len + 2
    OBVIOUS
  <2>2. \A i \in 1..len + 1 : base2[i] = base[i] /\ base2[i] \in Nat
    BY <1>4, <1>5, <2>1
  <2>3. base2[len + 2] = se2
    BY <1>5, <2>1
  <2>4. QED
    BY <1>5, <2>1, <2>2, <2>3
<1>7. x.body \in Seq(Nat) /\ Len(x.body) \in Nat /\ se <= se2
  <2>1. x.body \in Seq(Nat)
    BY DEF Records
  <2>2. Len(x.body) \in Nat
    BY <2>1
  <2>3. QED
    BY <2>1, <2>2
<1>8. IF x.kind = "data"
      THEN x.body # << >> /\ x.body = Bytes(se, Len(x.body))
      ELSE x.body = << >>
  <2>1. Len(x.body) \in Lens => x.body # << >>
    BY DEF Unmixed
  <2>2. QED
    BY <2>1 DEF Carries
<1>9. x.kind = "alert" => (d2 /\ se = se2) \/ "stream" \notin Apis
  <2>1. ASSUME x.kind = "alert" PROVE se = se2
    <3>1. Len(x.body) = 0
      BY <1>8, <2>1
    <3>2. QED
      BY <3>1
  <2>2. QED
    BY <2>1 DEF Carries, Unmixed
<1>10. ASSUME NEW i \in 1..len + 1
       PROVE  /\ base2[i + 1] = base2[i] + Len(L2[i].body) /\ base2[i + 1] <= se2
              /\ IF L2[i].kind = "data"
                 THEN /\ L2[i].body # << >>
                      /\ L2[i].body = Bytes(base2[i], Len(L2[i].body))
                 ELSE L2[i].body = << >>
              /\ L2[i].kind = "alert" =>
                    (d2 /\ base2[i] = se2) \/ "stream" \notin Apis
  <2>1. CASE i = len + 1
    <3>1. i + 1 = len + 2 /\ base2[i] = se /\ L2[i] = x
      BY <1>3, <1>4, <1>6, <2>1
    <3>2. QED
      BY <1>6, <1>7, <1>8, <1>9, <3>1
  <2>2. CASE i \in 1..len
    <3>1. /\ i + 1 \in 1..len + 1 /\ base2[i] = base[i]
          /\ base2[i + 1] = base[i + 1] /\ L2[i] = L[i] /\ base[i + 1] \in Nat
      <4>1. i + 1 \in 1..len + 1
        BY <2>2
      <4>2. QED
        BY <1>3, <1>4, <1>6, <2>2, <4>1
    <3>2. base[i + 1] <= se
      BY <1>4, <2>2
    <3>3. base2[i + 1] <= se2
      BY <1>7, <3>1, <3>2
    <3>4. QED
      BY <1>4, <2>2, <3>1, <3>3
  <2>3. QED
    BY <1>3, <2>1, <2>2
<1>11. Offsets(L2, se2, d2, base2)
  <2>1. Len(L2) + 1 = len + 2 /\ 1 \in 1..len + 1
    BY <1>3
  <2>2. base2[1] = 0
    BY <1>4, <1>6, <2>1
  <2>3. QED
    BY <1>3, <1>6, <1>10, <2>1, <2>2 DEF Offsets
<1>12. QED
  BY <1>1, <1>2, <1>6, <1>11

(* A writing step keeps its direction in order. *)
LEMMA OrderWritten ==
    ASSUME Unmixed, NEW L \in Seq(Records), NEW w \in Streams, NEW t \in Streams,
           NEW d \in BOOLEAN, NEW d2 \in BOOLEAN, NEW L2, NEW n \in Nat,
           n <= Len(L), NEW r \in Streams, NEW se \in Nat, NEW se2 \in Nat,
           NEW dl \in Seq(Nat), Order(L, w, d, se, n, r, dl),
           Moves(L, w, d, L2, t, d2), Fills(L, se, L2, d2, se2)
    PROVE  Order(L2, t, d2, se2, n, r, dl) /\ se <= se2
<1>1. PICK len \in Nat : len = Len(L)
  OBVIOUS
<1>2. /\ Spaced(L, w) /\ Unrotated(L, w)
      /\ Coming(L, w, d, n, r, 0)
  BY DEF Order
<1>3. Spaced(L2, t) /\ Unrotated(L2, t)
  BY <1>2, SpacedWritten
<1>4. /\ Coming(L2, t, d2, n, r, 0)
      /\ Coming(L, w, d, n, r, 1) => Coming(L2, t, d2, n, r, 1)
  BY <1>2, ComingWritten
<1>5. PICK base : Offsets(L, se, d, base) /\ Handed(L, w, d, se, n, r, dl, base)
  BY DEF Order
<1>6. SUFFICES /\ se <= se2
               /\ \E base2 : /\ Offsets(L2, se2, d2, base2)
                             /\ base2[n + 1] = base[n + 1]
  <2>1. PICK base2 : Offsets(L2, se2, d2, base2) /\ base2[n + 1] = base[n + 1]
    BY <1>6
  <2>2. PICK j \in Nat, k \in Nat : j = Len(dl) /\ k = Len(r.read_buf)
    <3>1. r.read_buf \in Seq(Nat)
      BY DEF Streams
    <3>2. QED
      BY <3>1
  <2>3. j + k <= se /\ j + k <= se2
    BY <1>5, <1>6, <2>2 DEF Handed
  <2>4. Handed(L2, t, d2, se2, n, r, dl, base2)
    BY <1>4, <1>5, <2>1, <2>2, <2>3 DEF Handed
  <2>5. QED
    BY <1>3, <1>4, <1>6, <2>1, <2>4 DEF Order
<1>7. CASE L2 = L /\ se2 = se
  <2>1. d => d2
    BY DEF Moves
  <2>2. Offsets(L2, se2, d2, base)
    BY <1>5, <1>7, <2>1 DEF Offsets
  <2>3. QED
    BY <1>7, <2>2
<1>8. CASE \E x \in Records : /\ L2 = Append(L, x) /\ Carries(x, se, d2)
                              /\ se2 = se + Len(x.body)
  <2>1. PICK x \in Records : /\ L2 = Append(L, x) /\ Carries(x, se, d2)
                             /\ se2 = se + Len(x.body)
    BY <1>8
  <2>2. L2 # L
    BY <2>1, Appended
  <2>3. ~d
    BY <2>2 DEF Moves
  <2>4. PICK base2 : /\ Offsets(L2, se2, d2, base2)
                     /\ \A i \in 1..Len(L) + 1 : base2[i] = base[i]
    BY <1>5, <2>1, <2>3, OffsetsWritten
  <2>5. n + 1 \in 1..Len(L) + 1
    BY <1>1
  <2>6. Len(x.body) \in Nat
    <3>1. x.body \in Seq(Nat)
      BY DEF Records
    <3>2. QED
      BY <3>1
  <2>7. se <= se2
    BY <2>1, <2>6
  <2>8. QED
    BY <2>4, <2>5, <2>7
<1>9. QED
  BY <1>7, <1>8 DEF Fills

(* What a reading step does to the bytes: the first of those in the buffer *)
(* or in the record are handed over, the rest are kept; or none are, and   *)
(* the user may learn of the end.                                          *)
HandsOver(L, n, r, dl, en, n2, u, dl2, en2) ==
    \/ \E front, back \in Seq(Nat) :
          /\ dl2 = dl \o front /\ u.read_buf = back
          /\ \/ /\ n2 = n /\ r.read_buf = front \o back
                /\ "stream" \in Apis /\ (en2 <=> en)
                /\ Unmoved(r, u)
             \/ /\ Took(L, n, r, n2, u) /\ L[n + 1].kind = "data"
                /\ r.read_buf = << >> /\ L[n + 1].body = front \o back
                /\ "stream" \notin Apis => back = << >>
                /\ L[n + 1].body # << >> => (en2 <=> en)
    \/ /\ dl2 = dl /\ u.read_buf = r.read_buf
       /\ \/ n2 = n
          \/ /\ n2 = n + 1
             /\ \/ r.read_seq = MaxSeq
                \/ L[n + 1].epoch # r.read_epoch \/ L[n + 1].seq # r.read_seq
          \/ u.close_result # "none"
          \/ n2 = n + 1 /\ L[n + 1].kind # "data"
       /\ \/ en2 <=> en
          \/ /\ en2 /\ Took(L, n, r, n2, u) /\ L[n + 1].kind = "alert"
             /\ "stream" \in Apis /\ r.read_buf = << >>

(* A reading step keeps the direction in order: what is handed over are    *)
(* the next bytes that were sent, and the end is reported after the last.  *)
LEMMA OrderRead ==
    ASSUME NEW L \in Seq(Records), NEW w \in Streams, NEW d,
           NEW n \in Nat, n <= Len(L), NEW n2 \in Nat, NEW r \in Streams,
           NEW u \in Streams, NEW se \in Nat, NEW dl \in Seq(Nat), NEW dl2,
           NEW en, NEW en2,
           Marked(L, w, d), w.traffic_secrets => Rotates(L, w, d),
           Order(L, w, d, se, n, r, dl), ReadsOn(L, d, n, r, n2, u),
           HandsOver(L, n, r, dl, en, n2, u, dl2, en2)
    PROVE  /\ Order(L, w, d, se, n2, u, dl2)
           /\ dl2 = Bytes(0, Len(dl2)) /\ Len(dl2) \in Len(dl)..se
           /\ (en2 <=> en) \/ (en2 /\ dl2 = dl /\ Len(dl) = se)
<1>1. PICK len \in Nat : len = Len(L)
  OBVIOUS
<1>2. Spaced(L, w) /\ Unrotated(L, w) /\ Coming(L, w, d, n, r, 0)
  BY DEF Order
<1>3. /\ Coming(L, w, d, n2, u, 0)
      /\ Coming(L, w, d, n, r, 1) => Coming(L, w, d, n2, u, 1)
      /\ Took(L, n, r, n2, u) => ~Coming(L, w, d, n, r, 1)
      /\ n2 # n => Took(L, n, r, n2, u) \/ Coming(L, w, d, n2, u, 1)
  BY <1>2, ComingRead
<1>4. PICK base : Offsets(L, se, d, base) /\ Handed(L, w, d, se, n, r, dl, base)
  BY DEF Order
<1>5. PICK j \in Nat, k \in Nat : j = Len(dl) /\ k = Len(r.read_buf)
  <2>1. r.read_buf \in Seq(Nat)
    BY DEF Streams
  <2>2. QED
    BY <2>1
<1>6. /\ dl = Bytes(0, j) /\ r.read_buf = Bytes(j, k) /\ j + k <= se
      /\ "stream" \notin Apis => r.read_buf = << >>
      /\ Coming(L, w, d, n, r, 1) \/ j + k = base[n + 1]
      /\ r.close_result = "none"
  BY <1>4, <1>5 DEF Handed, ReadsOn
<1>7. ASSUME Took(L, n, r, n2, u)
      PROVE  /\ n2 = n + 1 /\ n + 1 \in 1..len /\ j + k = base[n + 1]
             /\ base[(n + 1) + 1] = base[n + 1] + Len(L[n + 1].body)
             /\ base[(n + 1) + 1] <= se
             /\ IF L[n + 1].kind = "data"
                THEN /\ L[n + 1].body # << >>
                     /\ L[n + 1].body = Bytes(base[n + 1], Len(L[n + 1].body))
                ELSE L[n + 1].body = << >>
             /\ L[n + 1].kind = "alert" =>
                   (d /\ base[n + 1] = se) \/ "stream" \notin Apis
  <2>1. n2 = n + 1 /\ n + 1 \in 1..len /\ j + k = base[n + 1]
    BY <1>1, <1>3, <1>6, <1>7 DEF Took
  <2>2. QED
    BY <1>1, <1>4, <2>1 DEF Offsets
<1>8. ASSUME NEW m \in Nat, m = Len(dl2), NEW b \in Nat, b = Len(u.read_buf),
             dl2 = Bytes(0, m), u.read_buf = Bytes(m, b), m + b <= se,
             "stream" \notin Apis => u.read_buf = << >>,
             u.close_result = "none" =>
                Coming(L, w, d, n2, u, 1) \/ m + b = base[n2 + 1]
      PROVE  Order(L, w, d, se, n2, u, dl2)
  <2>1. Handed(L, w, d, se, n2, u, dl2, base)
    BY <1>8 DEF Handed
  <2>2. QED
    BY <1>2, <1>3, <1>4, <2>1 DEF Order
<1>9. CASE /\ dl2 = dl /\ u.read_buf = r.read_buf
           /\ \/ n2 = n
              \/ /\ n2 = n + 1
                 /\ \/ r.read_seq = MaxSeq
                    \/ L[n + 1].epoch # r.read_epoch \/ L[n + 1].seq # r.read_seq
              \/ u.close_result # "none"
              \/ n2 = n + 1 /\ L[n + 1].kind # "data"
           /\ \/ en2 <=> en
              \/ /\ en2 /\ Took(L, n, r, n2, u) /\ L[n + 1].kind = "alert"
                 /\ "stream" \in Apis /\ r.read_buf = << >>
  <2>1. u.close_result = "none" =>
            Coming(L, w, d, n2, u, 1) \/ j + k = base[n2 + 1]
    <3>1. CASE n2 = n
      BY <1>3, <1>6, <3>1
    <3>2. CASE ~Took(L, n, r, n2, u)
      BY <1>3, <1>6, <3>1, <3>2
    <3>3. CASE Took(L, n, r, n2, u) /\ n2 # n
      <4>1. L[n + 1].seq # MaxSeq
        BY <1>1, <1>7, <3>3 DEF Marked
      <4>2. L[n + 1].epoch = r.read_epoch /\ L[n + 1].seq = r.read_seq
        BY <3>3 DEF Took
      <4>3. CASE u.close_result = "none"
        <5>1. L[n + 1].kind # "data"
          BY <1>9, <3>3, <4>1, <4>2, <4>3
        <5>2. L[n + 1].body = << >> /\ base[n + 1] \in Nat
          BY <1>7, <3>3, <5>1
        <5>3. Len(L[n + 1].body) = 0
          BY <5>2
        <5>4. base[n2 + 1] = j + k
          BY <1>7, <3>3, <5>2, <5>3
        <5>5. QED
          BY <5>4
      <4>4. QED
        BY <4>3
    <3>4. QED
      BY <3>1, <3>2, <3>3
  <2>2. Order(L, w, d, se, n2, u, dl2)
    BY <1>5, <1>6, <1>8, <1>9, <2>1
  <2>3. Len(dl) \in Len(dl)..se
    BY <1>5, <1>6
  <2>4. (en2 <=> en) \/ (en2 /\ Len(dl) = se)
    <3>1. CASE /\ en2 /\ Took(L, n, r, n2, u) /\ L[n + 1].kind = "alert"
               /\ "stream" \in Apis /\ r.read_buf = << >>
      <4>1. base[n + 1] = se /\ j + k = base[n + 1]
        BY <1>7, <3>1
      <4>2. k = 0
        BY <1>5, <3>1
      <4>3. QED
        BY <1>5, <3>1, <4>1, <4>2
    <3>2. QED
      BY <1>9, <3>1
  <2>5. QED
    BY <1>5, <1>6, <1>9, <2>2, <2>3, <2>4
<1>10. ASSUME NEW front \in Seq(Nat), NEW back \in Seq(Nat), NEW b \in Nat,
              front \o back = Bytes(j, b), b = Len(front \o back), j + b <= se,
              dl2 = dl \o front, u.read_buf = back,
              "stream" \notin Apis => back = << >>,
              u.close_result = "none" =>
                 Coming(L, w, d, n2, u, 1) \/ j + b = base[n2 + 1]
       PROVE  /\ Order(L, w, d, se, n2, u, dl2)
              /\ dl2 = Bytes(0, Len(dl2)) /\ Len(dl2) \in Len(dl)..se
  <2>1. PICK f \in Nat, g \in Nat : f = Len(front) /\ g = Len(back)
    OBVIOUS
  <2>2. b = f + g
    BY <1>10, <2>1, Joined
  <2>3. front = Bytes(j, f) /\ back = Bytes(j + f, g)
    <3>1. front \o back = Bytes(j, Len(front) + Len(back))
      BY <1>10, <2>1, <2>2
    <3>2. QED
      BY <2>1, <3>1, BytesCut
  <2>4. Len(dl2) = j + f /\ dl2 = Bytes(0, j + f)
    <3>1. dl = Bytes(0, Len(dl)) /\ front = Bytes(Len(dl), Len(front))
      BY <1>5, <1>6, <2>1, <2>3
    <3>2. Len(dl \o front) = j + f /\ dl \o front = Bytes(0, Len(dl \o front))
      BY <1>5, <2>1, <3>1, BytesJoin
    <3>3. QED
      BY <1>10, <3>2
  <2>5. j + f \in Nat /\ (j + f) + g = j + b /\ (j + f) + g <= se
    BY <1>10, <2>2
  <2>6. Order(L, w, d, se, n2, u, dl2)
    BY <1>8, <1>10, <2>1, <2>3, <2>4, <2>5
  <2>7. QED
    BY <1>5, <2>4, <2>5, <2>6
<1>11. ASSUME NEW front \in Seq(Nat), NEW back \in Seq(Nat),
              dl2 = dl \o front, u.read_buf = back,
              n2 = n, r.read_buf = front \o back, "stream" \in Apis, en2 <=> en,
              Unmoved(r, u)
       PROVE  /\ Order(L, w, d, se, n2, u, dl2)
              /\ dl2 = Bytes(0, Len(dl2)) /\ Len(dl2) \in Len(dl)..se
              /\ (en2 <=> en)
  <2>1. Coming(L, w, d, n2, u, 1) \/ j + k = base[n2 + 1]
    BY <1>3, <1>6, <1>11
  <2>2. QED
    BY <1>5, <1>6, <1>10, <1>11, <2>1
<1>12. ASSUME NEW front \in Seq(Nat), NEW back \in Seq(Nat),
              dl2 = dl \o front, u.read_buf = back,
              Took(L, n, r, n2, u), L[n + 1].kind = "data",
              r.read_buf = << >>, L[n + 1].body = front \o back,
              "stream" \notin Apis => back = << >>,
              L[n + 1].body # << >> => (en2 <=> en)
       PROVE  /\ Order(L, w, d, se, n2, u, dl2)
              /\ dl2 = Bytes(0, Len(dl2)) /\ Len(dl2) \in Len(dl)..se
              /\ (en2 <=> en)
  <2>1. PICK b \in Nat : b = Len(L[n + 1].body)
    BY <1>12, Joined
  <2>2. k = 0
    BY <1>5, <1>12
  <2>3. /\ n2 = n + 1 /\ j = base[n + 1] /\ base[n2 + 1] = j + b /\ j + b <= se
        /\ L[n + 1].body # << >> /\ L[n + 1].body = Bytes(j, b)
    <3>1. j + k = j
      BY <2>2
    <3>2. QED
      BY <1>7, <1>12, <2>1, <3>1
  <2>4. QED
    BY <1>10, <1>12, <2>1, <2>3
<1>13. QED
  BY <1>9, <1>11, <1>12 DEF HandsOver

(* poll_read's two parts of a buffer or a record. *)
LEMMA TakeAndDrop ==
    ASSUME NEW s \in Seq(Nat), NEW c \in Nat
    PROVE  Take(s, c) \o Drop(s, c) = s
<1>1. PICK n \in Nat : n = Len(s)
  OBVIOUS
<1>2. CASE c < n
  <2>1. Take(s, c) = SubSeq(s, 1, c) /\ Drop(s, c) = SubSeq(s, c + 1, n)
    BY <1>1, <1>2 DEF Take, Drop
  <2>2. 1 \in 1..n + 1 /\ c \in 1 - 1..n /\ n \in c..n
    BY <1>2
  <2>3. SubSeq(s, 1, c) \o SubSeq(s, c + 1, n) = SubSeq(s, 1, n)
    BY <1>1, <2>2, ConcatAdjacentSubSeq
  <2>4. QED
    BY <1>1, <2>1, <2>3, SubSeqFull
<1>3. CASE ~(c < n)
  <2>1. Take(s, c) = SubSeq(s, 1, n) /\ Drop(s, c) = SubSeq(s, c + 1, n)
    BY <1>1, <1>3 DEF Take, Drop
  <2>2. SubSeq(s, 1, n) = s
    BY <1>1
  <2>3. SubSeq(s, c + 1, n) = << >>
    BY <1>1, <1>3
  <2>4. s \o << >> = s
    OBVIOUS
  <2>5. QED
    BY <2>1, <2>2, <2>3, <2>4
<1>4. QED
  BY <1>2, <1>3

(* A record that a reader opens is one it took. *)
LEMMA ReceivesTook ==
    ASSUME Inv, NEW q \in Peers, NEW kinds, Receives(q, kinds), ReaderMoves(q)
    PROVE  /\ Took(log[Other(q)], rpos[q], st[q], rpos'[q], st'[q])
           /\ Incoming(q) = log[Other(q)][rpos[q] + 1]
           /\ Incoming(q) \in Records /\ Incoming(q).kind \in kinds
           /\ rpos'[q] = rpos[q] + 1 /\ UNCHANGED sent
<1>1. rpos \in [Peers -> Nat]
  BY DEF Inv, TypeOK
<1>2. /\ rpos'[q] = rpos[q] + 1 /\ rpos'[q] # rpos[q]
      /\ st[q].read_seq # MaxSeq /\ Decrypts(q) /\ UNCHANGED sent
      /\ Incoming(q).kind \in kinds
  BY <1>1 DEF Receives, Consumed
<1>3. Incoming(q) \in Records
  BY IncomingLemma DEF Receives
<1>4. QED
  BY <1>2, <1>3 DEF ReaderMoves, ReadsOn, Erred, Decrypts, Incoming

(* q's calls that read hand bytes to q's user only, and send none. *)
ReaderHands(q) ==
    /\ HandsOver(log[Other(q)], rpos[q], st[q], delivered[q], ended[q],
                 rpos'[q], st'[q], delivered'[q], ended'[q])
    /\ \A p \in Peers \ {q} : delivered'[p] = delivered[p] /\ ended'[p] = ended[p]
    /\ UNCHANGED sent

(* The functions the readers apply to their stream keep the buffer. *)
LEMMA BufferKept ==
    ASSUME NEW s \in Streams
    PROVE  /\ Opened(s).read_buf = s.read_buf
           /\ \A e : ReadFails(s, e).read_buf = s.read_buf
           /\ \A g : [s EXCEPT !.close_result = g].read_buf = s.read_buf
           /\ \A b : [s EXCEPT !.read_buf = b].read_buf = b
           /\ \A k : process_key_update(s, k).read_buf = s.read_buf
<1>1. /\ Opened(s).read_buf = s.read_buf
      /\ \A e : ReadFails(s, e).read_buf = s.read_buf
      /\ \A g : [s EXCEPT !.close_result = g].read_buf = s.read_buf
      /\ \A b : [s EXCEPT !.read_buf = b].read_buf = b
  BY DEF Opened, ReadFails, Streams
<1>2. ASSUME NEW k PROVE process_key_update(s, k).read_buf = s.read_buf
  <2>1. PICK v : v = rotate_read_key(s)
    OBVIOUS
  <2>2. v \in Streams /\ v.read_buf = s.read_buf
    <3>1. s.read_epoch + 1 \in Nat
      BY DEF Streams
    <3>2. QED
      BY <2>1, <3>1 DEF rotate_read_key, Streams
  <2>3. [v EXCEPT !.key_update_pending = @ \/ k = "ku_req"].read_buf = s.read_buf
    BY <2>2 DEF Streams
  <2>4. QED
    BY <1>1, <2>1, <2>3 DEF process_key_update
<1>3. QED
  BY <1>1, <1>2

LEMMA ReadErrorHands ==
    ASSUME Inv, NEW q \in Peers, NEW eof, eof.read_buf = st[q].read_buf,
           ReadError(q, eof)
    PROVE  ReaderHands(q)
<1> DEFINE s == st[q]
           L == log[Other(q)]
           n == rpos[q]
<1>1. s \in Streams /\ rpos \in [Peers -> Nat] /\ st \in [Peers -> Streams]
  BY DEF Inv, TypeOK
<1>2. UNCHANGED <<delivered, ended, sent>>
  BY DEF ReadError
<1>3. st'[q].read_buf = s.read_buf
  <2>1. PICK o \in Streams : o = Opened(s) /\ o.read_buf = s.read_buf
    BY <1>1, BufferKept, ReaderFields
  <2>2. /\ \A e : ReadFails(s, e).read_buf = s.read_buf
        /\ \A e : ReadFails(o, e).read_buf = s.read_buf
    BY <1>1, <2>1, BufferKept
  <2>3. \/ st'[q] = eof
        \/ \E e : st'[q] = ReadFails(s, e)
        \/ \E e : st'[q] = ReadFails(o, e)
    BY <1>1, <2>1 DEF ReadError
  <2>4. QED
    BY <2>2, <2>3
<1>4. \/ rpos'[q] = n
      \/ /\ rpos'[q] = n + 1
         /\ \/ s.read_seq = MaxSeq
            \/ L[n + 1].epoch # s.read_epoch \/ L[n + 1].seq # s.read_seq
  BY <1>1 DEF ReadError, Consumed, Decrypts, Incoming
<1>5. QED
  BY <1>2, <1>3, <1>4 DEF ReaderHands, HandsOver

(* Nothing is handed over but the end of the stream, or not even that. *)
LEMMA SilentHands ==
    ASSUME Inv, NEW q \in Peers, NEW kinds, Receives(q, kinds), ReaderMoves(q),
           st'[q].read_buf = st[q].read_buf, UNCHANGED delivered,
           \/ Incoming(q).kind # "data"
           \/ st'[q].close_result # "none",
           \/ UNCHANGED ended
           \/ /\ ended' = [ended EXCEPT ![q] = TRUE] /\ Incoming(q).kind = "alert"
              /\ "stream" \in Apis /\ st[q].read_buf = << >>
    PROVE  ReaderHands(q)
<1>1. ended \in [Peers -> BOOLEAN]
  BY DEF Inv, TypeOK
<1>2. /\ Took(log[Other(q)], rpos[q], st[q], rpos'[q], st'[q])
      /\ Incoming(q) = log[Other(q)][rpos[q] + 1]
      /\ rpos'[q] = rpos[q] + 1 /\ UNCHANGED sent
  BY ReceivesTook
<1>3. \A p \in Peers \ {q} : delivered'[p] = delivered[p] /\ ended'[p] = ended[p]
  BY <1>1
<1>4. \/ ended'[q] <=> ended[q]
      \/ /\ ended'[q] /\ log[Other(q)][rpos[q] + 1].kind = "alert"
         /\ "stream" \in Apis /\ st[q].read_buf = << >>
  BY <1>1, <1>2
<1>5. QED
  BY <1>2, <1>3, <1>4 DEF ReaderHands, HandsOver

(* The bytes of a record. *)
LEMMA DataHands ==
    ASSUME Inv, NEW q \in Peers, Receives(q, {"data"}), ReaderMoves(q),
           NEW front \in Seq(Nat), NEW back \in Seq(Nat),
           st[q].read_buf = << >>, Incoming(q).body = front \o back,
           st'[q].read_buf = back, "stream" \notin Apis => back = << >>,
           Delivered(q, front),
           \/ UNCHANGED ended
           \/ ended' = [ended EXCEPT ![q] = @ \/ Incoming(q).body = << >>]
    PROVE  ReaderHands(q)
<1>1. ended \in [Peers -> BOOLEAN] /\ delivered \in [Peers -> Seq(Nat)]
  BY DEF Inv, TypeOK
<1>2. /\ Took(log[Other(q)], rpos[q], st[q], rpos'[q], st'[q])
      /\ Incoming(q) = log[Other(q)][rpos[q] + 1]
      /\ Incoming(q).kind = "data" /\ UNCHANGED sent
  BY ReceivesTook
<1>3. /\ delivered'[q] = delivered[q] \o front
      /\ \A p \in Peers \ {q} : delivered'[p] = delivered[p]
  BY <1>1 DEF Delivered
<1>4. /\ Incoming(q).body # << >> => (ended'[q] <=> ended[q])
      /\ \A p \in Peers \ {q} : ended'[p] = ended[p]
  BY <1>1
<1>5. QED
  BY <1>2, <1>3, <1>4 DEF ReaderHands, HandsOver

(* The three readers. *)
LEMMA ReadersHand ==
    ASSUME Inv, Unmixed, NEW q \in Peers, ReaderMoves(q),
           "stream" \notin Apis => st[q].read_buf = << >>,
           \/ read_application_data(q)
           \/ recv_close_notify(q)
           \/ \E cap \in Caps : poll_read(q, cap)
    PROVE  ReaderHands(q)
<1> DEFINE s == st[q]
<1>1. /\ s \in Streams /\ st \in [Peers -> Streams]
      /\ delivered \in [Peers -> Seq(Nat)]
  BY DEF Inv, TypeOK
<1>2. PICK o \in Streams : o = Opened(s) /\ o.read_buf = s.read_buf
  BY <1>1, BufferKept, ReaderFields
<1>3. CASE ReadError(q, ReadFails(s, "IoError"))
  <2>1. ReadFails(s, "IoError").read_buf = s.read_buf
    BY <1>1, BufferKept
  <2>2. QED
    BY <1>3, <2>1, ReadErrorHands
<1>4. CASE process_inner_handshake(q)
  <2>1. /\ Receives(q, {"ku", "ku_req"}) /\ UNCHANGED <<delivered, ended>>
        /\ st'[q] = process_key_update(o, Incoming(q).kind)
        /\ Incoming(q).kind # "data"
    BY <1>1, <1>2, <1>4 DEF process_inner_handshake, Receives
  <2>2. st'[q].read_buf = s.read_buf
    BY <1>2, <2>1, BufferKept
  <2>3. QED
    BY <2>1, <2>2, SilentHands
<1>5. CASE read_application_data(q)
  <2>1. "stream" \notin Apis /\ s.read_buf = << >>
    BY <1>5 DEF Unmixed, read_application_data
  <2>2. CASE /\ Receives(q, {"data"})
             /\ st' = [st EXCEPT ![q] = Opened(@)]
             /\ Delivered(q, Plaintext(Incoming(q)))
             /\ UNCHANGED ended
    <3>1. PICK b \in Seq(Nat) : b = Incoming(q).body
      BY <2>2, IncomingLemma DEF Receives
    <3>2. << >> \in Seq(Nat) /\ b = b \o << >>
      OBVIOUS
    <3>3. st'[q].read_buf = << >> /\ Delivered(q, b)
      BY <1>1, <1>2, <2>1, <2>2, <3>1 DEF Plaintext
    <3>4. QED
      BY <2>1, <2>2, <3>1, <3>2, <3>3, DataHands
  <2>3. CASE /\ Receives(q, {"alert"})
             /\ st' = [st EXCEPT ![q] = ReadFails(Opened(@), "InvalidMessage")]
             /\ UNCHANGED <<delivered, ended>>
    <3>1. st'[q] = ReadFails(o, "InvalidMessage")
      BY <1>1, <1>2, <2>3
    <3>2. st'[q].read_buf = s.read_buf
      BY <1>2, <3>1, BufferKept
    <3>3. Incoming(q).kind # "data"
      BY <2>3 DEF Receives
    <3>4. QED
      BY <2>3, <3>2, <3>3, SilentHands
  <2>4. QED
    BY <1>3, <1>4, <1>5, <2>2, <2>3 DEF read_application_data
<1>6. CASE recv_close_notify(q)
  <2>1. CASE ReadError(q, [s EXCEPT !.close_result = "false"])
    <3>1. [s EXCEPT !.close_result = "false"].read_buf = s.read_buf
      BY <1>1, BufferKept
    <3>2. QED
      BY <2>1, <3>1, ReadErrorHands
  <2>2. CASE /\ Receives(q, Kinds \ {"torn"})
             /\ st' = [st EXCEPT ![q] = [Opened(@) EXCEPT !.close_result = "true"]]
             /\ UNCHANGED <<delivered, ended>>
    <3>1. PICK u : u = [o EXCEPT !.close_result = "true"]
      OBVIOUS
    <3>2. u.read_buf = s.read_buf /\ u.close_result # "none"
      BY <1>2, <3>1, BufferKept, ReaderFields
    <3>3. st'[q] = u
      BY <1>1, <1>2, <2>2, <3>1
    <3>4. QED
      BY <2>2, <3>2, <3>3, SilentHands
  <2>3. QED
    BY <1>6, <2>1, <2>2 DEF recv_close_notify
<1>7. CASE \E cap \in Caps : poll_read(q, cap)
  <2>1. PICK cap \in Caps : poll_read(q, cap)
    BY <1>7
  <2>2. cap \in Nat /\ "stream" \in Apis
    BY <2>1, RecordLayerConstants DEF poll_read
  <2>3. CASE /\ s.read_buf # << >>
             /\ Delivered(q, Take(s.read_buf, cap))
             /\ st' = [st EXCEPT ![q].read_buf = Drop(@, cap)]
             /\ UNCHANGED <<log, rpos, down, sent, ended>>
    <3>1. PICK b \in Seq(Nat) : b = s.read_buf
      BY <1>1 DEF Streams
    <3>2. PICK front \in Seq(Nat), back \in Seq(Nat) :
              front = Take(b, cap) /\ back = Drop(b, cap) /\ b = front \o back
      BY <2>2, TakeDrop, TakeAndDrop
    <3>3. PICK u : u = [s EXCEPT !.read_buf = back]
      OBVIOUS
    <3>4. u.read_buf = back /\ Unmoved(s, u)
      <4>1. \A c : Unmoved(s, [s EXCEPT !.read_buf = c])
        BY <1>1, ReaderFields
      <4>2. \A c : [s EXCEPT !.read_buf = c].read_buf = c
        BY <1>1, BufferKept
      <4>3. QED
        BY <3>3, <4>1, <4>2
    <3>5. st'[q] = u
      BY <1>1, <2>3, <3>1, <3>2, <3>3
    <3>6. /\ delivered'[q] = delivered[q] \o front
          /\ \A p \in Peers \ {q} : delivered'[p] = delivered[p]
      BY <1>1, <2>3, <3>1, <3>2 DEF Delivered
    <3>7. QED
      BY <2>2, <2>3, <3>1, <3>2, <3>4, <3>5, <3>6 DEF ReaderHands, HandsOver
  <2>4. CASE /\ s.read_buf = << >>
             /\ Receives(q, {"data"})
             /\ Delivered(q, Take(Plaintext(Incoming(q)), cap))
             /\ st' = [st EXCEPT ![q] = [Opened(@) EXCEPT
                          !.read_buf = Drop(Plaintext(Incoming(q)), cap)]]
             /\ ended' = [ended EXCEPT
                             ![q] = @ \/ Plaintext(Incoming(q)) = << >>]
    <3>1. PICK b \in Seq(Nat) : b = Incoming(q).body /\ b = Plaintext(Incoming(q))
      BY <2>4, IncomingLemma DEF Receives, Plaintext
    <3>2. PICK front \in Seq(Nat), back \in Seq(Nat) :
              front = Take(b, cap) /\ back = Drop(b, cap) /\ b = front \o back
      BY <2>2, TakeDrop, TakeAndDrop
    <3>3. PICK u : u = [o EXCEPT !.read_buf = back]
      OBVIOUS
    <3>4. u.read_buf = back
      BY <1>2, <3>3, BufferKept
    <3>5. st'[q] = u
      BY <1>1, <1>2, <2>4, <3>1, <3>2, <3>3
    <3>6. QED
      BY <2>2, <2>4, <3>1, <3>2, <3>4, <3>5, DataHands
  <2>5. CASE /\ s.read_buf = << >>
             /\ Receives(q, {"alert"})
             /\ st' = [st EXCEPT ![q] = Opened(@)]
             /\ ended' = [ended EXCEPT ![q] = TRUE]
             /\ UNCHANGED delivered
    <3>1. st'[q].read_buf = s.read_buf
      BY <1>1, <1>2, <2>5
    <3>2. Incoming(q).kind = "alert" /\ Incoming(q).kind # "data"
      BY <2>5 DEF Receives
    <3>3. QED
      BY <2>2, <2>5, <3>1, <3>2, SilentHands
  <2>6. QED
    BY <1>3, <1>4, <2>1, <2>3, <2>4, <2>5 DEF poll_read
<1>8. QED
  BY <1>5, <1>6, <1>7

-----------------------------------------------------------------------------
(* Neither half of a stream disturbs the order of the other. *)
LEMMA OrderKept ==
    ASSUME NEW L, NEW w, NEW t, NEW d, NEW se, NEW n, NEW r, NEW u, NEW dl,
           Order(L, w, d, se, n, r, dl)
    PROVE  /\ SameReader(r, u) => Order(L, w, d, se, n, u, dl)
           /\ SameWriter(w, t) => Order(L, t, d, se, n, r, dl)
<1>1. PICK base : Offsets(L, se, d, base) /\ Handed(L, w, d, se, n, r, dl, base)
  BY DEF Order
<1>2. ASSUME SameReader(r, u) PROVE Order(L, w, d, se, n, u, dl)
  <2>1. \A x : Coming(L, w, d, n, r, x) => Coming(L, w, d, n, u, x)
    BY <1>2 DEF SameReader, Coming, Past
  <2>2. Handed(L, w, d, se, n, u, dl, base)
    BY <1>1, <1>2, <2>1 DEF SameReader, Handed
  <2>3. QED
    BY <1>1, <2>1, <2>2 DEF Order
<1>3. ASSUME SameWriter(w, t) PROVE Order(L, t, d, se, n, r, dl)
  <2>1. \A x : Coming(L, w, d, n, r, x) => Coming(L, t, d, n, r, x)
    BY <1>3 DEF SameWriter, Coming, Past
  <2>2. Handed(L, t, d, se, n, r, dl, base)
    BY <1>1, <2>1 DEF Handed
  <2>3. Spaced(L, t) /\ Unrotated(L, t)
    BY <1>3 DEF SameWriter, Order, Spaced, Unrotated
  <2>4. QED
    BY <1>1, <2>1, <2>2, <2>3 DEF Order
<1>4. QED
  BY <1>2, <1>3

(* A writing step sends more bytes, or none. *)
LEMMA WriterRefines ==
    ASSUME Inv, TypeOK', Sync, InOrder, Unmixed, NEW p \in Peers, WriterMoves(p)
    PROVE  InOrder' /\ Chan!ChanNext
<1>1. /\ st \in [Peers -> Streams] /\ log \in [Peers -> Seq(Records)]
      /\ down \in [Peers -> BOOLEAN] /\ rpos \in [Peers -> Nat]
      /\ sent \in [Peers -> Nat] /\ delivered \in [Peers -> Seq(Nat)]
      /\ st' \in [Peers -> Streams] /\ down' \in [Peers -> BOOLEAN]
      /\ sent' \in [Peers -> Nat]
  BY DEF Inv, TypeOK
<1>2. /\ Moves(log[p], st[p], down[p], log'[p], st'[p], down'[p])
      /\ Fills(log[p], sent[p], log'[p], down'[p], sent'[p])
      /\ \A x \in Peers \ {p} : /\ st'[x] = st[x] /\ log'[x] = log[x]
                                /\ down'[x] = down[x] /\ sent'[x] = sent[x]
      /\ UNCHANGED <<rpos, delivered, ended>>
  BY DEF WriterMoves
<1>3. PICK o \in Peers : o = Other(p) /\ o # p /\ Other(o) = p
                         /\ \A x \in Peers : x = p \/ x = o
  BY DEF Other, Peers
<1>4. /\ Order(log'[p], st'[p], down'[p], sent'[p], rpos[o], st[o], delivered[o])
      /\ sent[p] <= sent'[p]
  <2>1. Order(log[p], st[p], down[p], sent[p], rpos[o], st[o], delivered[o])
    BY <1>3 DEF InOrder
  <2>2. rpos[o] <= Len(log[p])
    BY <1>3 DEF Sync, Direction
  <2>3. QED
    BY <1>1, <1>2, <1>3, <2>1, <2>2, OrderWritten
<1>5. Order(log[o], st[o], down[o], sent[o], rpos[p], st'[p], delivered[p])
  <2>1. Order(log[o], st[o], down[o], sent[o], rpos[p], st[p], delivered[p])
    BY <1>3 DEF InOrder
  <2>2. SameReader(st[p], st'[p])
    BY <1>2 DEF Moves
  <2>3. QED
    BY <2>1, <2>2, OrderKept
<1>6. InOrder'
  <2>1. /\ st'[o] = st[o] /\ log'[o] = log[o] /\ down'[o] = down[o]
        /\ sent'[o] = sent[o]
    BY <1>2, <1>3
  <2>2. \A q \in Peers : Order(log'[Other(q)], st'[Other(q)], down'[Other(q)],
                               sent'[Other(q)], rpos'[q], st'[q], delivered'[q])
    BY <1>2, <1>3, <1>4, <1>5, <2>1
  <2>3. QED
    BY <2>2 DEF InOrder
<1>7. Chan!ChanSend(p)
  <2>1. sent'[p] \in Nat /\ sent'[p] >= sent[p]
    BY <1>1, <1>4
  <2>2. sent' = [sent EXCEPT ![p] = sent'[p]]
    BY <1>1, <1>2
  <2>3. QED
    BY <1>2, <2>1, <2>2 DEF Chan!ChanSend
<1>8. QED
  BY <1>6, <1>7 DEF Chan!ChanNext

(* A reading step hands over the next bytes, reports the end after the     *)
(* last, or does nothing the users can see.                                *)
LEMMA ReaderRefines ==
    ASSUME Inv, TypeOK', Sync, InOrder, NEW q \in Peers,
           ReaderMoves(q), ReaderHands(q)
    PROVE  InOrder' /\ Chan!ChanNext
<1>1. /\ st \in [Peers -> Streams] /\ log \in [Peers -> Seq(Records)]
      /\ down \in [Peers -> BOOLEAN] /\ rpos \in [Peers -> Nat]
      /\ sent \in [Peers -> Nat] /\ delivered \in [Peers -> Seq(Nat)]
      /\ ended \in [Peers -> BOOLEAN]
      /\ st' \in [Peers -> Streams] /\ rpos' \in [Peers -> Nat]
      /\ delivered' \in [Peers -> Seq(Nat)] /\ ended' \in [Peers -> BOOLEAN]
  BY DEF Inv, TypeOK
<1>2. PICK o \in Peers : o = Other(q) /\ o # q /\ Other(o) = q
                         /\ \A x \in Peers : x = q \/ x = o
  BY DEF Other, Peers
<1>3. /\ SameWriter(st[q], st'[q]) /\ log' = log /\ down' = down /\ sent' = sent
      /\ ReadsOn(log[o], down[o], rpos[q], st[q], rpos'[q], st'[q])
      /\ HandsOver(log[o], rpos[q], st[q], delivered[q], ended[q],
                   rpos'[q], st'[q], delivered'[q], ended'[q])
      /\ st'[o] = st[o] /\ rpos'[o] = rpos[o]
      /\ delivered'[o] = delivered[o] /\ ended'[o] = ended[o]
  BY <1>2 DEF ReaderMoves, ReaderHands
<1>4. /\ Order(log[o], st[o], down[o], sent[o], rpos'[q], st'[q], delivered'[q])
      /\ delivered'[q] = Bytes(0, Len(delivered'[q]))
      /\ Len(delivered'[q]) \in Len(delivered[q])..sent[o]
      /\ \/ ended'[q] <=> ended[q]
         \/ ended'[q] /\ delivered'[q] = delivered[q] /\ Len(delivered[q]) = sent[o]
  <2>1. Order(log[o], st[o], down[o], sent[o], rpos[q], st[q], delivered[q])
    BY <1>2 DEF InOrder
  <2>2. /\ rpos[q] <= Len(log[o]) /\ Marked(log[o], st[o], down[o])
        /\ st[o].traffic_secrets => Rotates(log[o], st[o], down[o])
    BY <1>2 DEF Sync, Direction
  <2>3. /\ log[o] \in Seq(Records) /\ st[o] \in Streams /\ down[o] \in BOOLEAN
        /\ rpos[q] \in Nat /\ rpos'[q] \in Nat /\ st[q] \in Streams
        /\ st'[q] \in Streams /\ sent[o] \in Nat /\ delivered[q] \in Seq(Nat)
        /\ delivered'[q] \in Seq(Nat)
    BY <1>1
  <2>4. ended[q] \in BOOLEAN /\ ended'[q] \in BOOLEAN
    BY <1>1
  <2>5. PICK en \in BOOLEAN, en2 \in BOOLEAN : en = ended[q] /\ en2 = ended'[q]
    BY <2>4
  <2>6. PICK L \in Seq(Records), w \in Streams, d \in BOOLEAN, se \in Nat :
            L = log[o] /\ w = st[o] /\ d = down[o] /\ se = sent[o]
    BY <2>3
  <2>7. PICK n \in Nat, r \in Streams, dl \in Seq(Nat) :
            n = rpos[q] /\ r = st[q] /\ dl = delivered[q]
    BY <2>3
  <2>8. PICK n2 \in Nat, u \in Streams, dl2 \in Seq(Nat) :
            n2 = rpos'[q] /\ u = st'[q] /\ dl2 = delivered'[q]
    BY <2>3
  <2>9. /\ HandsOver(L, n, r, dl, en, n2, u, dl2, en2)
        /\ ReadsOn(L, d, n, r, n2, u) /\ Order(L, w, d, se, n, r, dl)
        /\ n <= Len(L) /\ Marked(L, w, d) /\ (w.traffic_secrets => Rotates(L, w, d))
    BY <1>3, <2>1, <2>2, <2>5, <2>6, <2>7, <2>8
  <2>10. /\ Order(L, w, d, se, n2, u, dl2)
         /\ dl2 = Bytes(0, Len(dl2)) /\ Len(dl2) \in Len(dl)..se
         /\ (en2 <=> en) \/ (en2 /\ dl2 = dl /\ Len(dl) = se)
    <3>1. /\ L \in Seq(Records) /\ w \in Streams /\ d \in BOOLEAN /\ se \in Nat
          /\ n \in Nat /\ r \in Streams /\ dl \in Seq(Nat)
          /\ n2 \in Nat /\ u \in Streams /\ en \in BOOLEAN /\ en2 \in BOOLEAN
      BY <2>5, <2>6, <2>7, <2>8
    <3>2. QED
      BY <2>9, <3>1, OrderRead
  <2>11. QED
    BY <2>5, <2>6, <2>7, <2>8, <2>10
<1>5. Order(log[q], st'[q], down[q], sent[q], rpos[o], st[o], delivered[o])
  <2>1. Order(log[q], st[q], down[q], sent[q], rpos[o], st[o], delivered[o])
    BY <1>2 DEF InOrder
  <2>2. QED
    BY <1>3, <2>1, OrderKept
<1>6. InOrder'
  <2>1. \A x \in Peers : Order(log'[Other(x)], st'[Other(x)], down'[Other(x)],
                               sent'[Other(x)], rpos'[x], st'[x], delivered'[x])
    BY <1>2, <1>3, <1>4, <1>5
  <2>2. QED
    BY <2>1 DEF InOrder
<1>7. CASE ended'[q] <=> ended[q]
  <2>1. ended' = ended
    <3>1. ended'[q] = ended[q]
      BY <1>1, <1>7
    <3>2. \A x \in Peers : ended'[x] = ended[x]
      BY <1>2, <1>3, <3>1
    <3>3. QED
      BY <1>1, <3>2
  <2>2. PICK m \in Len(delivered[q])..sent[o] : m = Len(delivered'[q])
    BY <1>4
  <2>3. delivered'[q] = Chan!Numbers(m)
    <3>1. Bytes(0, m) = [i \in 1..m |-> i]
      BY DEF Bytes
    <3>2. QED
      BY <1>4, <2>2, <3>1 DEF Chan!Numbers
  <2>4. delivered' = [delivered EXCEPT ![q] = Chan!Numbers(m)]
    BY <1>1, <1>2, <1>3, <2>3
  <2>5. Chan!ChanDeliver(o, q)
    BY <1>2, <1>3, <2>1, <2>4 DEF Chan!ChanDeliver
  <2>6. QED
    BY <1>6, <2>5 DEF Chan!ChanNext
<1>8. CASE ended'[q] /\ delivered'[q] = delivered[q] /\ Len(delivered[q]) = sent[o]
  <2>1. ended' = [ended EXCEPT ![q] = TRUE] /\ delivered' = delivered
    <3>1. ended'[q] = TRUE
      BY <1>1, <1>8
    <3>2. \A x \in Peers : ended'[x] = [ended EXCEPT ![q] = TRUE][x]
      BY <1>1, <1>2, <1>3, <3>1
    <3>3. \A x \in Peers : delivered'[x] = delivered[x]
      BY <1>2, <1>3, <1>8
    <3>4. delivered' = delivered
      BY <1>1, <3>3
    <3>5. [ended EXCEPT ![q] = TRUE] \in [Peers -> BOOLEAN]
      BY <1>1
    <3>6. ended' = [ended EXCEPT ![q] = TRUE]
      BY <1>1, <3>2, <3>5
    <3>7. QED
      BY <3>4, <3>6
  <2>2. Chan!ChanEnd(o, q)
    BY <1>2, <1>3, <1>8, <2>1 DEF Chan!ChanEnd
  <2>3. QED
    BY <1>6, <2>2 DEF Chan!ChanNext
<1>9. QED
  BY <1>4, <1>7, <1>8

LEMMA InitOrder ==
    ASSUME Init
    PROVE  InOrder /\ Chan!ChanInit
<1>1. PICK secrets \in [Peers -> BOOLEAN] :
          st = [q \in Peers |-> NewStream(secrets[q])]
  BY DEF Init
<1>2. \A q \in Peers : /\ st[q].write_epoch = 0 /\ st[q].write_seq = 0
                       /\ st[q].read_epoch = 0 /\ st[q].read_seq = 0
                       /\ st[q].read_buf = << >>
  BY <1>1 DEF NewStream
<1>3. SUFFICES ASSUME NEW q \in Peers
               PROVE  Order(log[Other(q)], st[Other(q)], down[Other(q)],
                            sent[Other(q)], rpos[q], st[q], delivered[q])
  BY DEF InOrder, Init, Chan!ChanInit
<1>4. PICK o \in Peers : o = Other(q)
  BY DEF Other, Peers
<1>5. /\ log[o] = << >> /\ sent[o] = 0 /\ rpos[q] = 0 /\ delivered[q] = << >>
  BY DEF Init
<1>6. PICK w, r, d : w = st[o] /\ r = st[q] /\ d = down[o]
  OBVIOUS
<1>7. PICK L : L = << >> /\ Len(L) = 0
  OBVIOUS
<1>8. /\ Spaced(L, w) /\ Unrotated(L, w) /\ Coming(L, w, d, 0, r, 0)
  BY <1>2, <1>6, <1>7 DEF Spaced, Unrotated, Coming, Past
<1>9. PICK base : base = [i \in 1..1 |-> 0]
  OBVIOUS
<1>10. Offsets(L, 0, d, base)
  <2>1. base \in [1..1 -> Nat] /\ base[1] = 0
    BY <1>9
  <2>2. Len(L) + 1 = 1 /\ 1..Len(L) = {}
    BY <1>7
  <2>3. QED
    BY <2>1, <2>2 DEF Offsets
<1>11. Handed(L, w, d, 0, 0, r, L, base)
  <2>1. Bytes(0, 0) = << >>
    BY DEF Bytes
  <2>2. r.read_buf = L /\ base[0 + 1] = 0 /\ 0 + 0 = 0
    BY <1>2, <1>6, <1>7, <1>9
  <2>3. QED
    BY <1>7, <2>1, <2>2 DEF Handed
<1>12. Order(L, w, d, 0, 0, r, L)
  BY <1>8, <1>10, <1>11 DEF Order
<1>13. QED
  BY <1>4, <1>5, <1>6, <1>7, <1>12

LEMMA NextRefines ==
    ASSUME Inv, TypeOK', Sync, InOrder, Unmixed, [Next]_vars
    PROVE  InOrder' /\ [Chan!ChanNext]_(Chan!chanVars)
<1>1. CASE UNCHANGED vars
  <2>1. InOrder'
    BY <1>1 DEF vars, InOrder
  <2>2. UNCHANGED Chan!chanVars
    BY <1>1 DEF vars, Chan!chanVars
  <2>3. QED
    BY <2>1, <2>2
<1>2. CASE Next
  <2>1. PICK p \in Peers :
          \/ \E n \in Lens : write_application_data(p, n) \/ poll_write(p, n)
          \/ flush_pending_key_update(p)
          \/ AutoKeyUpdate(p)
          \/ WriteData(p)
          \/ \E b \in BOOLEAN : send_key_update(p, b)
          \/ close(p)
          \/ poll_shutdown(p)
          \/ read_application_data(p)
          \/ recv_close_notify(p)
          \/ \E cap \in Caps : poll_read(p, cap)
    BY <1>2 DEF Next
  <2>2. Flushed(log[p], st[p])
    BY DEF Sync
  <2>3. CASE \/ \E n \in Lens : write_application_data(p, n)
             \/ flush_pending_key_update(p)
             \/ AutoKeyUpdate(p)
             \/ WriteData(p)
    BY <2>2, <2>3, WriteStagesMove, WriterRefines
  <2>4. CASE close(p) \/ \E b \in BOOLEAN : send_key_update(p, b)
    BY <2>2, <2>4, CloseAndKeyUpdateMove, WriterRefines
  <2>5. CASE poll_shutdown(p) \/ \E n \in Lens : poll_write(p, n)
    BY <2>5, StreamApiMoves, WriterRefines
  <2>6. CASE \/ read_application_data(p)
             \/ recv_close_notify(p)
             \/ \E cap \in Caps : poll_read(p, cap)
    <3>1. ReaderMoves(p)
      BY <2>6, ReadersMove
    <3>2. "stream" \notin Apis => st[p].read_buf = << >>
      BY DEF InOrder, Order, Handed
    <3>3. ReaderHands(p)
      BY <2>6, <3>1, <3>2, ReadersHand
    <3>4. QED
      BY <3>1, <3>3, ReaderRefines
  <2>7. QED
    BY <2>1, <2>3, <2>4, <2>5, <2>6
<1>3. QED
  BY <1>1, <1>2

(* The GM/TLS record layer implements the reliable channel, whatever is    *)
(* torn off, skipped, refused or rotated, with or without traffic secrets  *)
(* and a transport that holds writes up: bytes that reach a user are the   *)
(* ones sent, in order and without a gap, and poll_read reports the end    *)
(* only after the last.                                                    *)
THEOREM Refinement == ASSUME Unmixed PROVE Spec => ReliableDelivery
<1>1. Init => InOrder /\ Chan!ChanInit
  BY InitOrder
<1>2. Inv /\ Inv' /\ Sync /\ InOrder /\ [Next]_vars
        => InOrder' /\ [Chan!ChanNext]_(Chan!chanVars)
  <2>1. Inv' => TypeOK'
    BY DEF Inv
  <2>2. QED
    BY <2>1, NextRefines
<1>3. QED
  BY <1>1, <1>2, Safety, InStep, PTL DEF Spec, ReliableDelivery, Chan!ChanSpec
=============================================================================
