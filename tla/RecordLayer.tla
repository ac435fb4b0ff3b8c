---------------------------- MODULE RecordLayer ----------------------------
(***************************************************************************)
(* The GM/TLS record layer after the handshake: two GmTlsStream values     *)
(* (gm-tls/src/record_layer.rs) joined by a transport that carries bytes   *)
(* in order, with SM4-GCM keys that the KeyUpdate message rotates          *)
(* (gm-tls/src/key_update.rs).                                             *)
(*                                                                         *)
(* A key is named by the number of rotations of its direction (its epoch): *)
(* equal epochs are equal keys and base nonces.  The nonce is the base     *)
(* nonce XORed with the sequence number, so under one key nonces and       *)
(* sequence numbers correspond one to one, and a record decrypts exactly   *)
(* when epoch and sequence number are the ones the reader holds.           *)
(*                                                                         *)
(* Every async function takes &mut self, so a stream runs one call at a    *)
(* time; the calls of the two peers interleave at every record.            *)
(***************************************************************************)
EXTENDS Integers, Sequences, FiniteSets

CONSTANTS
    Threshold,      \* KEY_UPDATE_THRESHOLD: rotate from this sequence number
    Limit,          \* GCM_CONFIDENTIALITY_LIMIT: refuse from this one
    MaxSeq,         \* u64::MAX: next_nonce fails here
    MaxNonceCache,  \* MAX_NONCE_CACHE
    EvictBatch,     \* NONCE_EVICT_BATCH
    Apis,           \* what the callers use: "record" (the async functions),
                    \* "stream" (AsyncRead/AsyncWrite), "rekey" (the function
                    \* send_key_update), "close" (recv_close_notify)
    Backpressure,   \* the transport may answer a write with Poll::Pending,
                    \* or take only part of it
    Lens,           \* lengths of the buffers that are written
    Caps,           \* capacities of the buffers that poll_read fills
    MaxRecords      \* bound, per peer: records it puts on the transport

ASSUME RecordLayerConstants ==
    /\ Threshold \in Nat /\ Limit \in Nat /\ MaxSeq \in Nat
    /\ 0 < Threshold /\ Threshold < Limit /\ Limit < MaxSeq
    /\ MaxNonceCache \in Nat /\ EvictBatch \in Nat \ {0}
    /\ Apis \subseteq {"record", "stream", "rekey", "close"}
    /\ Backpressure \in BOOLEAN
    /\ Lens \subseteq Nat /\ Caps \subseteq Nat \ {0}
    /\ MaxRecords \in [{"client", "server"} -> Nat]

Peers == {"client", "server"}
Other(p) == IF p = "client" THEN "server" ELSE "client"

VARIABLES
    st,         \* [Peers -> Stream]: the fields of each GmTlsStream
    log,        \* [Peers -> Seq(Record)]: what p has put on the transport
    rpos,       \* [Peers -> Nat]: how many records of Other(q)'s log q took
    down,       \* [Peers -> BOOLEAN]: p's direction of the transport ended
    sent,       \* history: bytes p put on the transport in whole records
    delivered,  \* history: bytes handed to the user at q
    ended       \* [Peers -> BOOLEAN]: poll_read returned 0 bytes to q's user

vars == <<st, log, rpos, down, sent, delivered, ended>>

Kinds == {"data", "ku", "ku_req", "alert", "torn"}

(* A record on the wire; "torn" is part of a record that was never       *)
(* finished.  pending is history: the writer's key_update_pending.         *)
Records == [kind : Kinds, epoch : Nat, seq : Nat, body : Seq(Nat),
            pending : BOOLEAN]

(* How far a call has come ("idle": no call in progress). *)
Stages == {"idle", "flush", "auto", "data"}

Errors == {"none", "SequenceOverflow", "NonceReuse", "Exhausted", "NoSecret",
           "IoError", "CipherError", "InvalidMessage"}

Streams ==
    [write_epoch : Nat, write_seq : Nat,
     used_write_nonces : SUBSET Nat, nonce_eviction_queue : Seq(Nat),
     read_epoch : Nat, read_seq : Nat, read_buf : Seq(Nat),
     traffic_secrets : BOOLEAN, key_update_pending : BOOLEAN,
     close_notify_sent : BOOLEAN,
     stage : Stages, len : Nat,             \* the call in progress
     write_err : Errors, read_err : Errors, \* the last error returned
     close_result : {"none", "true", "false"}]

(* GmTlsStream::new, then set_traffic_secrets where the secrets are known: *)
(* a session resumed from an old ticket has none.                          *)
NewStream(secrets) ==
    [write_epoch |-> 0, write_seq |-> 0,
     used_write_nonces |-> {}, nonce_eviction_queue |-> << >>,
     read_epoch |-> 0, read_seq |-> 0, read_buf |-> << >>,
     traffic_secrets |-> secrets, key_update_pending |-> FALSE,
     close_notify_sent |-> FALSE, stage |-> "idle", len |-> 0,
     write_err |-> "none", read_err |-> "none",
     close_result |-> "none"]

Init ==
    /\ \E secrets \in [Peers -> BOOLEAN] :
          st = [p \in Peers |-> NewStream(secrets[p])]
    /\ log = [p \in Peers |-> << >>]
    /\ rpos = [p \in Peers |-> 0]
    /\ down = [p \in Peers |-> FALSE]
    /\ sent = [p \in Peers |-> 0]
    /\ delivered = [p \in Peers |-> << >>]
    /\ ended = [p \in Peers |-> FALSE]

-----------------------------------------------------------------------------
(* Functions of one stream value. *)

should_update_key(s) == s.write_seq >= Threshold
is_key_exhausted(s) == s.write_seq >= Limit

(* The eviction at the head of check_and_record_nonce. *)
Evicted(s) ==
    IF Cardinality(s.used_write_nonces) > MaxNonceCache
    THEN LET queue == s.nonce_eviction_queue
             n == IF EvictBatch < Len(queue) THEN EvictBatch ELSE Len(queue)
         IN  [s EXCEPT !.used_write_nonces = @ \ {queue[i] : i \in 1..n},
                       !.nonce_eviction_queue = SubSeq(queue, n + 1, Len(queue))]
    ELSE s

(* check_and_record_nonce: the queue is extended before the set refuses. *)
check_and_record_nonce(s) ==
    [Evicted(s) EXCEPT !.nonce_eviction_queue = Append(@, s.write_seq),
                       !.used_write_nonces = @ \cup {s.write_seq}]

NonceSeen(s) == s.write_seq \in Evicted(s).used_write_nonces

(* The sequence number moves before anything is written. *)
NonceTaken(s) == [check_and_record_nonce(s) EXCEPT !.write_seq = @ + 1]

(* Seeded faults: the sequence number restarts under the old key; the      *)
(* nonces of the old key are kept, in the set and the queue or in the      *)
(* queue alone.                                                            *)
rotate_write_key_same_key(s) ==
    [s EXCEPT !.write_seq = 0,
              !.used_write_nonces = {}, !.nonce_eviction_queue = << >>]
rotate_write_key_old_nonces(s) ==
    [s EXCEPT !.write_epoch = @ + 1, !.write_seq = 0]
rotate_write_key_old_queue(s) ==
    [s EXCEPT !.write_epoch = @ + 1, !.write_seq = 0, !.used_write_nonces = {}]

rotate_write_key(s) ==
    [s EXCEPT !.write_epoch = @ + 1, !.write_seq = 0,
              !.used_write_nonces = {}, !.nonce_eviction_queue = << >>]

rotate_read_key(s) == [s EXCEPT !.read_epoch = @ + 1, !.read_seq = 0]

WriteFails(s, e) == [s EXCEPT !.stage = "idle", !.write_err = e]

Record(s, kind, body) ==
    [kind |-> kind, epoch |-> s.write_epoch, seq |-> s.write_seq,
     body |-> body, pending |-> s.key_update_pending]

(* The next bytes of p's direction, as many as the caller's buffer holds. *)
NextBytes(p, n) == [i \in 1..n |-> sent[p] + i]

-----------------------------------------------------------------------------
(* Writing through write_handshake_record, write_application_data, close.  *)

Put(p, r) == log' = [log EXCEPT ![p] = Append(@, r)]

(* One record written by the async functions.  s is the stream when the    *)
(* record is started, done the stream when it has been written.  next_nonce *)
(* and the nonce check may refuse; the transport may fail, leaving nothing, *)
(* part of the record or (when only flush fails) all of it on the wire.    *)
TrackedRecord(p, s, kind, body, done) ==
    \/ /\ s.write_seq = MaxSeq
       /\ st' = [st EXCEPT ![p] = WriteFails(s, "SequenceOverflow")]
       /\ UNCHANGED <<log, down, sent>>
    \/ /\ s.write_seq # MaxSeq
       /\ NonceSeen(s)
       /\ st' = [st EXCEPT ![p] =
                    WriteFails(check_and_record_nonce(s), "NonceReuse")]
       /\ UNCHANGED <<log, down, sent>>
    \/ /\ s.write_seq # MaxSeq
       /\ ~NonceSeen(s)
       /\ ~down[p]
       /\ st' = [st EXCEPT ![p] = done]
       /\ Put(p, Record(s, kind, body))
       /\ sent' = [sent EXCEPT ![p] = @ + Len(body)]
       /\ UNCHANGED down
    \/ /\ s.write_seq # MaxSeq
       /\ ~NonceSeen(s)
       /\ st' = [st EXCEPT ![p] = WriteFails(NonceTaken(s), "IoError")]
       /\ down' = [down EXCEPT ![p] = TRUE]
       /\ \/ UNCHANGED <<log, sent>>
          \/ /\ ~down[p]
             /\ Put(p, Record(s, "torn", << >>))
             /\ UNCHANGED sent
          \/ /\ ~down[p]
             /\ Put(p, Record(s, kind, body))
             /\ sent' = [sent EXCEPT ![p] = @ + Len(body)]

(* send_key_update: the record goes out under the old key, then the key is *)
(* rotated; without a traffic secret that fails after the record has gone. *)
KeyUpdateSent(s, stage) ==
    IF s.traffic_secrets
    THEN [rotate_write_key(s) EXCEPT !.stage = stage]
    ELSE WriteFails(NonceTaken(s), "NoSecret")

Room(p) == Len(log[p]) < MaxRecords[p]

send_key_update(p, request_peer_update) ==
    /\ "rekey" \in Apis
    /\ st[p].stage = "idle" /\ Room(p)
    /\ TrackedRecord(p, st[p], IF request_peer_update THEN "ku_req" ELSE "ku",
                     << >>, KeyUpdateSent(st[p], "idle"))
    /\ UNCHANGED <<rpos, delivered, ended>>

(* write_application_data, in its three stages. *)
write_application_data(p, n) ==
    /\ "record" \in Apis
    /\ st[p].stage = "idle" /\ Room(p)
    /\ st' = [st EXCEPT ![p].stage = "flush", ![p].len = n,
                        ![p].write_err = "none"]
    /\ UNCHANGED <<log, rpos, down, sent, delivered, ended>>

(* Seeded fault: the pending KeyUpdate is not flushed. *)
flush_pending_key_update_skipped(p) ==
    /\ st[p].stage = "flush"
    /\ st' = [st EXCEPT ![p].stage = "auto"]
    /\ UNCHANGED <<log, rpos, down, sent, delivered, ended>>

flush_pending_key_update(p) ==
    /\ st[p].stage = "flush"
    /\ IF st[p].key_update_pending
       THEN LET s == [st[p] EXCEPT !.key_update_pending = FALSE]
            IN  TrackedRecord(p, s, "ku", << >>, KeyUpdateSent(s, "auto"))
       ELSE /\ st' = [st EXCEPT ![p].stage = "auto"]
            /\ UNCHANGED <<log, down, sent>>
    /\ UNCHANGED <<rpos, delivered, ended>>

AutoKeyUpdate(p) ==
    /\ st[p].stage = "auto"
    /\ CASE is_key_exhausted(st[p]) ->
              /\ st' = [st EXCEPT ![p] = WriteFails(@, "Exhausted")]
              /\ UNCHANGED <<log, down, sent>>
         [] /\ ~is_key_exhausted(st[p])
            /\ should_update_key(st[p]) /\ st[p].traffic_secrets ->
              TrackedRecord(p, st[p], "ku", << >>, KeyUpdateSent(st[p], "data"))
         [] OTHER ->
              /\ st' = [st EXCEPT ![p].stage = "data"]
              /\ UNCHANGED <<log, down, sent>>
    /\ UNCHANGED <<rpos, delivered, ended>>

WriteData(p) ==
    /\ st[p].stage = "data"
    /\ TrackedRecord(p, st[p], "data", NextBytes(p, st[p].len),
                     [NonceTaken(st[p]) EXCEPT !.stage = "idle"])
    /\ UNCHANGED <<rpos, delivered, ended>>

(* close: the alert is sent once; close_notify_sent is set when it is out. *)
close(p) ==
    /\ "record" \in Apis
    /\ st[p].stage = "idle" /\ ~st[p].close_notify_sent /\ Room(p)
    /\ TrackedRecord(p, st[p], "alert", << >>,
                     [NonceTaken(st[p]) EXCEPT !.close_notify_sent = TRUE])
    /\ UNCHANGED <<rpos, delivered, ended>>

-----------------------------------------------------------------------------
(* Writing through AsyncWrite.  Neither function consults the limits, the  *)
(* pending flag or the nonce cache, and neither keeps the record it was    *)
(* writing when the transport answers Poll::Pending: the next poll starts  *)
(* a new record with the next sequence number.  A transport that takes     *)
(* only part of the header makes poll_write fail, with the part sent.      *)

SeqTaken(s) == [s EXCEPT !.write_seq = @ + 1]

poll_write(p, n) ==
    /\ "stream" \in Apis
    /\ st[p].stage = "idle" /\ Room(p)
    /\ LET s == st[p] IN
       \/ /\ s.write_seq = MaxSeq
          /\ st' = [st EXCEPT ![p] = WriteFails(s, "SequenceOverflow")]
          /\ UNCHANGED <<log, down, sent>>
       \/ /\ s.write_seq # MaxSeq /\ ~down[p]
          /\ st' = [st EXCEPT ![p] = SeqTaken(s)]
          /\ Put(p, Record(s, "data", NextBytes(p, n)))
          /\ sent' = [sent EXCEPT ![p] = @ + n]
          /\ UNCHANGED down
       \/ /\ s.write_seq # MaxSeq /\ ~down[p] /\ Backpressure
          /\ st' = [st EXCEPT ![p] = SeqTaken(s)]
          /\ Put(p, Record(s, "torn", << >>)) \/ UNCHANGED log
          /\ UNCHANGED <<down, sent>>
       \/ /\ s.write_seq # MaxSeq /\ ~down[p] /\ Backpressure
          /\ st' = [st EXCEPT ![p] = WriteFails(SeqTaken(s), "IoError")]
          /\ Put(p, Record(s, "torn", << >>))
          /\ UNCHANGED <<down, sent>>
       \/ /\ s.write_seq # MaxSeq
          /\ st' = [st EXCEPT ![p] = WriteFails(SeqTaken(s), "IoError")]
          /\ down' = [down EXCEPT ![p] = TRUE]
          /\ UNCHANGED log \/ (~down[p] /\ Put(p, Record(s, "torn", << >>)))
          /\ UNCHANGED sent
    /\ UNCHANGED <<rpos, delivered, ended>>

(* poll_shutdown: an I/O error ends the loop and still counts as sent; the *)
(* transport is shut down in every case but Poll::Pending.                 *)
poll_shutdown(p) ==
    /\ "stream" \in Apis
    /\ st[p].stage = "idle" /\ Room(p)
    /\ LET s == st[p]
           shut == [st EXCEPT ![p] =
                       [SeqTaken(s) EXCEPT !.close_notify_sent = TRUE]]
       IN
       \/ /\ s.close_notify_sent \/ s.write_seq = MaxSeq
          /\ down' = [down EXCEPT ![p] = TRUE]
          /\ UNCHANGED <<st, log>>
       \/ /\ ~s.close_notify_sent /\ s.write_seq # MaxSeq
          /\ st' = shut
          /\ down' = [down EXCEPT ![p] = TRUE]
          /\ \/ ~down[p] /\ Put(p, Record(s, "alert", << >>))
             \/ ~down[p] /\ Put(p, Record(s, "torn", << >>))
             \/ UNCHANGED log
       \/ /\ ~s.close_notify_sent /\ s.write_seq # MaxSeq
          /\ ~down[p] /\ Backpressure
          /\ st' = [st EXCEPT ![p] = SeqTaken(s)]
          /\ Put(p, Record(s, "torn", << >>)) \/ UNCHANGED log
          /\ UNCHANGED down
    /\ UNCHANGED <<rpos, sent, delivered, ended>>

-----------------------------------------------------------------------------
(* Reading. *)

Available(q) == rpos[q] < Len(log[Other(q)])
Incoming(q) == log[Other(q)][rpos[q] + 1]
Consumed(q) == rpos' = [rpos EXCEPT ![q] = @ + 1]

(* A record decrypts under the key and sequence number the reader holds.   *)
Decrypts(q) ==
    /\ Incoming(q).epoch = st[q].read_epoch
    /\ Incoming(q).seq = st[q].read_seq

(* A user reads between its writes; one who has called recv_close_notify   *)
(* reads no more.                                                          *)
MayRead(q) == st[q].stage = "idle" /\ st[q].close_result = "none"

(* The reader's stream once the record it takes has used up its number.    *)
Opened(s) == [s EXCEPT !.read_seq = @ + 1]

ReadFails(s, e) == [s EXCEPT !.read_err = e]

(* The error exits the three readers share, eof being what each makes of   *)
(* the end of the transport.  A reader that meets part of a record takes   *)
(* its length from whatever bytes are there, and waits for as many: it     *)
(* fails when the direction ends, or once enough bytes have followed (how  *)
(* many that is depends on the bytes, so it may also wait for ever).       *)
(* Nothing behind part of a record is ever opened, and what the reader's   *)
(* counter does there makes no difference.                                 *)
ReadError(q, eof) ==
    /\ \/ /\ ~Available(q) /\ down[Other(q)]
          /\ st' = [st EXCEPT ![q] = eof]
          /\ UNCHANGED rpos
       \/ /\ Available(q) /\ Incoming(q).kind = "torn"
          /\ down[Other(q)] \/ rpos[q] + 1 < Len(log[Other(q)])
          /\ st' = [st EXCEPT ![q] = ReadFails(@, "IoError")]
          /\ UNCHANGED rpos
       \/ /\ Available(q) /\ Incoming(q).kind # "torn"
          /\ st[q].read_seq = MaxSeq
          /\ st' = [st EXCEPT ![q] = ReadFails(@, "SequenceOverflow")]
          /\ Consumed(q)
       \/ /\ Available(q) /\ Incoming(q).kind # "torn"
          /\ st[q].read_seq # MaxSeq /\ ~Decrypts(q)
          /\ st' = [st EXCEPT ![q] = ReadFails(Opened(@), "CipherError")]
          /\ Consumed(q)
    /\ UNCHANGED <<log, down, sent, delivered, ended>>

Receives(q, kinds) ==
    /\ Available(q) /\ Incoming(q).kind \in kinds
    /\ st[q].read_seq # MaxSeq /\ Decrypts(q)
    /\ Consumed(q)
    /\ UNCHANGED <<log, down, sent>>

(* Seeded fault: only a requested update rotates the read key. *)
process_key_update_if_requested(s, kind) ==
    IF kind = "ku_req"
    THEN [rotate_read_key(s) EXCEPT !.key_update_pending = TRUE]
    ELSE s

(* process_key_update: rotate the read key, remember to answer a request.  *)
process_key_update(s, kind) ==
    IF s.traffic_secrets
    THEN [rotate_read_key(s) EXCEPT
            !.key_update_pending = @ \/ kind = "ku_req"]
    ELSE ReadFails(s, "NoSecret")

(* Seeded fault: the reader is not woken for what follows a KeyUpdate. *)
process_inner_handshake_stuck(q) ==
    /\ Available(q) /\ Incoming(q).kind \in {"ku", "ku_req"}
    /\ UNCHANGED vars

process_inner_handshake(q) ==
    /\ Receives(q, {"ku", "ku_req"})
    /\ st' = [st EXCEPT ![q] = process_key_update(Opened(@), Incoming(q).kind)]
    /\ UNCHANGED <<delivered, ended>>

(* The decrypted record without its trailing inner content type.  Seeded   *)
(* fault: the type byte stays on.                                          *)
Plaintext_with_type(r) == Append(r.body, 0)
Plaintext(r) == r.body

Delivered(q, bytes) == delivered' = [delivered EXCEPT ![q] = @ \o bytes]

read_application_data(q) ==
    /\ "record" \in Apis
    /\ MayRead(q)
    /\ \/ ReadError(q, ReadFails(st[q], "IoError"))
       \/ process_inner_handshake(q)
       \/ /\ Receives(q, {"data"})
          /\ st' = [st EXCEPT ![q] = Opened(@)]
          /\ Delivered(q, Plaintext(Incoming(q)))
          /\ UNCHANGED ended
       \/ /\ Receives(q, {"alert"})
          /\ st' = [st EXCEPT ![q] = ReadFails(Opened(@), "InvalidMessage")]
          /\ UNCHANGED <<delivered, ended>>

(* recv_close_notify: any record that decrypts counts as the close_notify, *)
(* whatever its kind, and what it carried is dropped.                      *)
recv_close_notify(q) ==
    /\ "close" \in Apis
    /\ MayRead(q)
    /\ \/ ReadError(q, [st[q] EXCEPT !.close_result = "false"])
       \/ /\ Receives(q, Kinds \ {"torn"})
          /\ st' = [st EXCEPT ![q] = [Opened(@) EXCEPT
                       !.close_result = "true"]]
          /\ UNCHANGED <<delivered, ended>>

Take(s, n) == SubSeq(s, 1, IF n < Len(s) THEN n ELSE Len(s))
(* Seeded fault: the last byte that fitted stays in the buffer. *)
Drop_short(s, n) == SubSeq(s, n, Len(s))
Drop(s, n) == SubSeq(s, n + 1, Len(s))

(* poll_read into a buffer with room for cap bytes: first what an earlier  *)
(* record left over, else the next record.                                 *)
poll_read(q, cap) ==
    /\ "stream" \in Apis
    /\ MayRead(q)
    /\ \/ /\ st[q].read_buf # << >>
          /\ Delivered(q, Take(st[q].read_buf, cap))
          /\ st' = [st EXCEPT ![q].read_buf = Drop(@, cap)]
          /\ UNCHANGED <<log, rpos, down, sent, ended>>
       \/ /\ st[q].read_buf = << >>
          /\ ReadError(q, ReadFails(st[q], "IoError"))
       \/ /\ st[q].read_buf = << >>
          /\ process_inner_handshake(q)
       \/ /\ st[q].read_buf = << >>
          /\ Receives(q, {"data"})
          /\ Delivered(q, Take(Plaintext(Incoming(q)), cap))
          /\ st' = [st EXCEPT ![q] = [Opened(@) EXCEPT
                       !.read_buf = Drop(Plaintext(Incoming(q)), cap)]]
          /\ ended' = [ended EXCEPT
                          ![q] = @ \/ Plaintext(Incoming(q)) = << >>]
       \/ /\ st[q].read_buf = << >>
          /\ Receives(q, {"alert"})
          /\ st' = [st EXCEPT ![q] = Opened(@)]
          /\ ended' = [ended EXCEPT ![q] = TRUE]
          /\ UNCHANGED delivered

-----------------------------------------------------------------------------
Next ==
    \E p \in Peers :
        \/ \E n \in Lens : write_application_data(p, n) \/ poll_write(p, n)
        \/ flush_pending_key_update(p)
        \/ AutoKeyUpdate(p)
        \/ WriteData(p)
        \/ \E b \in BOOLEAN : send_key_update(p, b)
        \/ close(p)
        \/ poll_shutdown(p)
        \/ read_application_data(p)
        \/ recv_close_notify(p)
        \/ \E cap \in Caps : poll_read(p, cap)

Spec == Init /\ [][Next]_vars

(* The reader stands before part of a record, in a direction that is still *)
(* up: it may be waiting for more bytes than will ever come.               *)
Stalled(q) ==
    /\ Available(q) /\ Incoming(q).kind = "torn"
    /\ ~down[Other(q)]

(* Both users keep calling their read function, which the stream serves    *)
(* whenever no write is in progress and the reader is not Stalled, and     *)
(* tokio runs a started call to its end.  Nobody is obliged to write.      *)
Reads(p) == read_application_data(p) \/ \E cap \in Caps : poll_read(p, cap)
Proceeds(p) ==
    flush_pending_key_update(p) \/ AutoKeyUpdate(p) \/ WriteData(p)
Fairness ==
    \A p \in Peers : /\ SF_vars(~Stalled(p) /\ Reads(p))
                     /\ WF_vars(Proceeds(p))

FairSpec == Spec /\ Fairness

-----------------------------------------------------------------------------
(* Properties. *)

TypeOK ==
    /\ st \in [Peers -> Streams]
    /\ log \in [Peers -> Seq(Records)]
    /\ rpos \in [Peers -> Nat]
    /\ down \in [Peers -> BOOLEAN]
    /\ sent \in [Peers -> Nat]
    /\ delivered \in [Peers -> Seq(Nat)]
    /\ ended \in [Peers -> BOOLEAN]

(* No two records of one direction, finished or torn, are sealed under the *)
(* same key and nonce, whatever mixture of write_application_data,         *)
(* send_key_update, close, poll_write and poll_shutdown produced them and  *)
(* however often keys were rotated (record_layer.rs: "nonce reuse in GCM   *)
(* is a catastrophic security failure").                                   *)
NonceUnique ==
    \A p \in Peers : \A i, j \in 1..Len(log[p]) :
        i # j => \/ log[p][i].epoch # log[p][j].epoch
                 \/ log[p][i].seq # log[p][j].seq

(* check_and_record_nonce never refuses a record of a correct stream: the  *)
(* cache of used nonces is emptied with every key, and evicting its oldest *)
(* entries never leaves it wrong.                                          *)
NonceGuardSilent == \A p \in Peers : st[p].write_err # "NonceReuse"

(* The nonces a stream remembers stay within the cache, and the set that   *)
(* is searched and the queue that says what to forget hold the same ones,  *)
(* through eviction, rotation and writes that fail half way: else the set  *)
(* would grow with the connection, or forget the wrong nonces              *)
(* (record_layer.rs, check_and_record_nonce and rotate_write_key).         *)
NonceCacheBounded ==
    \A p \in Peers :
        LET queue == st[p].nonce_eviction_queue
        IN  /\ Len(queue) <= MaxNonceCache + 1
            /\ st[p].used_write_nonces = {queue[i] : i \in 1..Len(queue)}

(* Reader and writer rotate in step: while both hold their secrets, the    *)
(* next record of a stream, wherever KeyUpdates were inserted and whoever  *)
(* asked for them, is sealed under the key and number its reader holds.    *)
(* (recv_close_notify takes a KeyUpdate for the close_notify and does not  *)
(* rotate: after it the stream can only be dropped.)                       *)
KeysInSync ==
    \A q \in Peers :
        (/\ st[q].traffic_secrets /\ st[Other(q)].traffic_secrets
         /\ st[q].close_result = "none") =>
            /\ st[q].read_err # "CipherError"
            /\ Available(q) => Decrypts(q)

(* A KeyUpdate the peer asked for goes out before the next data record     *)
(* (record_layer.rs on key_update_pending: "we need to send our own        *)
(* KeyUpdate before the next write").                                      *)
PendingUpdateFirst ==
    \A p \in Peers : \A i \in 1..Len(log[p]) :
        log[p][i].kind = "data" => ~log[p][i].pending

(* What p has put on the transport is without a gap: no part of a record,  *)
(* and numbers that follow each other, beginning again after a KeyUpdate.  *)
Intact(p) ==
    \A i \in 1..Len(log[p]) :
        LET r == log[p][i]
        IN  /\ r.kind # "torn"
            /\ \/ i = 1 /\ r.epoch = 0 /\ r.seq = 0
               \/ /\ i > 1 /\ r.epoch = log[p][i - 1].epoch
                  /\ r.seq = log[p][i - 1].seq + 1
               \/ /\ i > 1 /\ log[p][i - 1].kind \in {"ku", "ku_req"}
                  /\ r.epoch = log[p][i - 1].epoch + 1 /\ r.seq = 0

(* While the transport is up, both sides hold their secrets, no write was  *)
(* held up by the transport (which skips a number or tears a record) and   *)
(* the writer has not closed, no read fails, however the calls of the two  *)
(* sides meet (docs/gm-tls.en.md: GmTlsStream is "usable as a regular      *)
(* tokio stream").                                                         *)
ReadsSucceed ==
    \A q \in Peers :
        /\ st[q].traffic_secrets /\ st[Other(q)].traffic_secrets
        /\ ~down[Other(q)] /\ Intact(Other(q))
        /\ ~st[Other(q)].close_notify_sent
        => st[q].read_err = "none"

(* The two streams together are a reliable channel: bytes are delivered in *)
(* order without loss, and end of stream is reported only after the last.  *)
Chan == INSTANCE ReliableChannel
            WITH sent <- sent, delivered <- delivered, ended <- ended
ReliableDelivery == Chan!ChanSpec

(* Every byte that reached the transport in a whole record is delivered,   *)
(* unless a read has failed or the reader is stalled for good on a record  *)
(* that a held-up write left unfinished: KeyUpdates on the way never stall *)
(* it, and the end of the direction frees it.                              *)
EventuallyDelivered ==
    \A p \in Peers : \A n \in 1..MaxRecords[p] :
        (sent[p] >= n) ~> \/ Len(delivered[Other(p)]) >= n
                         \/ st[Other(p)].read_err # "none"
                         \/ []Stalled(Other(p))
=============================================================================
