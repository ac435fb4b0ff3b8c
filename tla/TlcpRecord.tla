---------------------------- MODULE TlcpRecord ----------------------------
(***************************************************************************)
(* The TLCP record layer after the handshake: two TlcpStream values        *)
(* (gm-tlcp/src/tlcp/mod.rs) joined by a transport that carries bytes in   *)
(* order.  Each user works with the async functions ("record") or with     *)
(* AsyncRead and AsyncWrite ("stream").                                    *)
(*                                                                         *)
(* There is one key per direction.  The SM4-GCM nonce and associated data, *)
(* and the HMAC of SM4-CBC, hold the sequence number, so a record opens    *)
(* exactly when its number is the one the reader expects; the explicit     *)
(* nonce on the wire is not looked at.  The two Finished have number 0.    *)
(*                                                                         *)
(* What the code does not keep between two calls is the point: a write     *)
(* that is polled again seals a new record, and a read that is polled      *)
(* again has forgotten the bytes it had taken.                             *)
(***************************************************************************)
EXTENDS Integers, Sequences, FiniteSets

CONSTANTS
    MaxSeq,         \* u64::MAX: checked_add fails here
    MaxLen,         \* TLCP_MAX_RECORD_SIZE, less what the record adds
    Lens,           \* lengths of the buffers that are written
    Caps,           \* capacities of the buffers that poll_read fills
    MaxRecords      \* bound, per peer: records it puts on the transport

Peers == {"client", "server"}
Other(p) == IF p = "client" THEN "server" ELSE "client"
Apis == {"record", "stream"}

ASSUME TlcpRecordConstants ==
    /\ MaxSeq \in Nat \ {0} /\ MaxLen \in Nat
    /\ Lens \subseteq Nat /\ Caps \subseteq Nat \ {0}
    /\ MaxRecords \in [Peers -> Nat]

VARIABLES
    api,        \* [Peers -> Apis]: the functions the user of p calls
    st,         \* [Peers -> TlcpStream]: the fields of each stream
    log,        \* [Peers -> Seq(Record)]: what p has put on the transport
    rpos,       \* [Peers -> Nat]: how many records of Other(q)'s log q took
    aligned,    \* [Peers -> BOOLEAN]: q's next byte starts a record
    down,       \* [Peers -> BOOLEAN]: p's direction of the transport ended
    sent,       \* history: bytes p put on the transport in whole records
    delivered,  \* history: bytes handed to the user at q
    ended       \* [Peers -> BOOLEAN]: poll_read returned 0 bytes to q's user

vars == <<api, st, log, rpos, aligned, down, sent, delivered, ended>>

(* The payload of close_notify, which travels as application data.  Bytes  *)
(* of data are numbered from 1; no user writes these two alone.            *)
close_notify == <<0, 0>>

(* closing is history: the user has asked for the end of the stream. *)
TlcpStream ==
    [write_seq |-> 1, read_seq |-> 1, read_buf |-> << >>,
     close_notify_sent |-> FALSE, closing |-> FALSE,
     write_err |-> "none", read_err |-> "none"]

Init ==
    /\ api \in [Peers -> Apis]
    /\ st = [p \in Peers |-> TlcpStream]
    /\ log = [p \in Peers |-> << >>]
    /\ rpos = [p \in Peers |-> 0]
    /\ aligned = [p \in Peers |-> TRUE]
    /\ down = [p \in Peers |-> FALSE]
    /\ sent = [p \in Peers |-> 0]
    /\ delivered = [p \in Peers |-> << >>]
    /\ ended = [p \in Peers |-> FALSE]

-----------------------------------------------------------------------------
(* Writing.  Nothing fragments a buffer: it becomes one record. *)

(* encrypt_gcm_record, encrypt_cbc_record and the async writers of both. *)
encrypt_record(s, body) == [torn |-> FALSE, seq |-> s.write_seq, body |-> body]

(* Part of a record whose rest never follows. *)
Part(r) == [r EXCEPT !.torn = TRUE]

(* Seeded fault: the number is given back when the transport is busy. *)
SeqTaken_back(s) == s

(* write_seq moves before the record is made. *)
SeqTaken(s) == [s EXCEPT !.write_seq = @ + 1]

WriteFails(s, e) == [s EXCEPT !.write_err = e]

(* The bytes of data a record holds. *)
DataBytes(body) == IF body = close_notify THEN 0 ELSE Len(body)

Whole(p, r) ==
    /\ log' = [log EXCEPT ![p] = Append(@, r)]
    /\ sent' = [sent EXCEPT ![p] = @ + DataBytes(r.body)]
Torn(p, r) ==
    /\ log' = [log EXCEPT ![p] = Append(@, Part(r))]
    /\ UNCHANGED sent
Unwritten == UNCHANGED <<log, sent>>

(* One record written by an async function, done being the stream when it  *)
(* returns.  The transport may fail, and the caller may drop the future at *)
(* any of its awaits (a timeout or a select! around it): both leave        *)
(* nothing, part of the record, or, at the flush, all of it on the wire,   *)
(* and a used number.                                                      *)
AsyncWrites(p, s, body, done) ==
    LET r == encrypt_record(s, body) IN
    /\ \/ /\ s.write_seq = MaxSeq
          /\ st' = [st EXCEPT ![p] = WriteFails(s, "SequenceOverflow")]
          /\ Unwritten /\ UNCHANGED down
       \/ /\ s.write_seq # MaxSeq /\ ~down[p]
          /\ st' = [st EXCEPT ![p] = done]
          /\ Whole(p, r) /\ UNCHANGED down
       \/ /\ s.write_seq # MaxSeq /\ ~down[p]
          /\ st' = [st EXCEPT ![p] = SeqTaken(s)]
          /\ Whole(p, r) \/ Torn(p, r) \/ Unwritten
          /\ UNCHANGED down
       \/ /\ s.write_seq # MaxSeq
          /\ st' = [st EXCEPT ![p] = WriteFails(SeqTaken(s), "IoError")]
          /\ Unwritten \/ (~down[p] /\ (Whole(p, r) \/ Torn(p, r)))
          /\ down' = [down EXCEPT ![p] = TRUE]
    /\ UNCHANGED <<api, rpos, aligned, delivered, ended>>

NextBytes(p, n) == [i \in 1..n |-> sent[p] + i]

(* No user writes once it has asked for the end. *)
MayWrite(p, how) ==
    api[p] = how /\ Len(log[p]) < MaxRecords[p] /\ ~st[p].closing

write_application_data(p, n) ==
    /\ MayWrite(p, "record")
    /\ AsyncWrites(p, st[p], NextBytes(p, n), SeqTaken(st[p]))

(* The alert goes out once, as application data; a failed or dropped close *)
(* may be called again.                                                    *)
close(p) ==
    /\ api[p] = "record" /\ Len(log[p]) < MaxRecords[p]
    /\ ~st[p].close_notify_sent
    /\ LET s == [st[p] EXCEPT !.closing = TRUE] IN
       AsyncWrites(p, s, close_notify,
                   [SeqTaken(s) EXCEPT !.close_notify_sent = TRUE])

(* poll_write gives up its record when the transport is not ready for the  *)
(* rest of it; the caller polls again and a record with the next number is *)
(* made.                                                                   *)
poll_write(p, n) ==
    /\ MayWrite(p, "stream")
    /\ LET s == st[p]
           r == encrypt_record(s, NextBytes(p, n)) IN
       \/ /\ s.write_seq = MaxSeq
          /\ st' = [st EXCEPT ![p] = WriteFails(s, "SequenceOverflow")]
          /\ Unwritten /\ UNCHANGED down
       \/ /\ s.write_seq # MaxSeq /\ ~down[p]
          /\ st' = [st EXCEPT ![p] = SeqTaken(s)]
          /\ Whole(p, r) \/ Torn(p, r) \/ Unwritten
          /\ UNCHANGED down
       \/ /\ s.write_seq # MaxSeq
          /\ st' = [st EXCEPT ![p] = WriteFails(SeqTaken(s), "IoError")]
          /\ Unwritten \/ (~down[p] /\ Torn(p, r))
          /\ down' = [down EXCEPT ![p] = TRUE]
    /\ UNCHANGED <<api, rpos, aligned, delivered, ended>>

(* Seeded fault: a failed alert leaves the transport open. *)
poll_shutdown_open(p) ==
    /\ api[p] = "stream" /\ ~st[p].close_notify_sent
    /\ st' = [st EXCEPT ![p].closing = TRUE, ![p].close_notify_sent = TRUE]
    /\ UNCHANGED <<api, log, rpos, aligned, down, sent, delivered, ended>>

(* A failed write of the alert still counts as sent; the transport is shut *)
(* down in every case but Poll::Pending.                                   *)
poll_shutdown(p) ==
    /\ api[p] = "stream" /\ Len(log[p]) < MaxRecords[p]
    /\ LET s == [st[p] EXCEPT !.closing = TRUE]
           r == encrypt_record(s, close_notify) IN
       \/ /\ s.close_notify_sent \/ s.write_seq = MaxSeq
          /\ st' = [st EXCEPT ![p] = s]
          /\ down' = [down EXCEPT ![p] = TRUE]
          /\ Unwritten
       \/ /\ ~s.close_notify_sent /\ s.write_seq # MaxSeq
          /\ st' = [st EXCEPT ![p] =
                       [SeqTaken(s) EXCEPT !.close_notify_sent = TRUE]]
          /\ down' = [down EXCEPT ![p] = TRUE]
          /\ Unwritten \/ (~down[p] /\ (Whole(p, r) \/ Torn(p, r)))
       \/ /\ ~s.close_notify_sent /\ s.write_seq # MaxSeq /\ ~down[p]
          /\ st' = [st EXCEPT ![p] = SeqTaken(s)]
          /\ Torn(p, r) \/ Unwritten
          /\ UNCHANGED down
    /\ UNCHANGED <<api, rpos, aligned, delivered, ended>>

-----------------------------------------------------------------------------
(* Reading.  A user stops at the first error. *)

Available(q) == rpos[q] < Len(log[Other(q)])
Incoming(q) == log[Other(q)][rpos[q] + 1]
Consumed(q) == rpos' = [rpos EXCEPT ![q] = @ + 1]
MayRead(q, how) == api[q] = how /\ st[q].read_err = "none"

(* Seeded fault: the reader does not count the record. *)
Opened_uncounted(s) == s

(* read_seq moves before the record is opened. *)
Opened(s) == [s EXCEPT !.read_seq = @ + 1]
ReadFails(s, e) == [s EXCEPT !.read_err = e]

(* The version and the length in the header are right. *)
Framed(q) ==
    /\ Available(q) /\ aligned[q]
    /\ ~Incoming(q).torn /\ Len(Incoming(q).body) <= MaxLen

decrypt(q) == Incoming(q).seq = st[q].read_seq

(* The error exits both readers share: the transport has ended; what is    *)
(* taken for a header is none, or announces too long a record; the number  *)
(* is not the expected one.  Part of a record is waited on until more      *)
(* bytes follow, by poll_read only when its header is complete; how many   *)
(* depends on the length read from it, so the wait may have no end: none   *)
(* of these exits is obliged to happen while the reader is Lost.           *)
ReadError(q) ==
    /\ \/ /\ ~Available(q) /\ down[Other(q)]
          /\ st' = [st EXCEPT ![q] = ReadFails(@, "IoError")]
          /\ UNCHANGED <<rpos, aligned>>
       \/ /\ Available(q) /\ aligned[q] /\ Incoming(q).torn
          /\ \/ rpos[q] + 1 < Len(log[Other(q)])
             \/ down[Other(q)]
             \/ api[q] = "stream"
          /\ st' = [st EXCEPT ![q] = ReadFails(@, "TlsRecordError")]
          /\ aligned' = [aligned EXCEPT ![q] = FALSE]
          /\ UNCHANGED rpos
       \/ /\ Available(q) /\ ~aligned[q]
          /\ st' = [st EXCEPT ![q] = ReadFails(@, "TlsRecordError")]
          /\ UNCHANGED <<rpos, aligned>>
       \/ /\ Available(q) /\ aligned[q] /\ Len(Incoming(q).body) > MaxLen
          /\ ~Incoming(q).torn
          /\ st' = [st EXCEPT ![q] = ReadFails(@, "TlsRecordError")]
          /\ aligned' = [aligned EXCEPT ![q] = FALSE]
          /\ UNCHANGED rpos
       \/ /\ Framed(q) /\ (st[q].read_seq = MaxSeq \/ ~decrypt(q))
          /\ st' = [st EXCEPT ![q] =
                       IF st[q].read_seq = MaxSeq
                       THEN ReadFails(@, "SequenceOverflow")
                       ELSE ReadFails(Opened(@), "CipherError")]
          /\ Consumed(q) /\ UNCHANGED aligned
    /\ UNCHANGED <<delivered, ended>>

Opens(q) ==
    /\ Framed(q) /\ st[q].read_seq # MaxSeq /\ decrypt(q)
    /\ Consumed(q) /\ UNCHANGED aligned

Delivered(q, bytes) == delivered' = [delivered EXCEPT ![q] = @ \o bytes]

(* One whole record.  close_notify comes out like data.  A future that is  *)
(* dropped when it has read the header has lost it.                        *)
read_application_data(q) ==
    /\ MayRead(q, "record")
    /\ \/ ReadError(q)
       \/ /\ Opens(q)
          /\ st' = [st EXCEPT ![q] = Opened(@)]
          /\ Delivered(q, Incoming(q).body)
          /\ UNCHANGED ended
       \/ /\ Available(q) /\ aligned[q]
          /\ aligned' = [aligned EXCEPT ![q] = FALSE]
          /\ UNCHANGED <<st, rpos, delivered, ended>>
    /\ UNCHANGED <<api, log, down, sent>>

Take(s, n) == SubSeq(s, 1, IF n < Len(s) THEN n ELSE Len(s))
(* Seeded fault: the last byte that fitted stays in the buffer. *)
Drop_short(s, n) == SubSeq(s, n, Len(s))
Drop(s, n) == SubSeq(s, n + 1, Len(s))

(* What an earlier record left over, else a record if all of it is there.  *)
(* With only part of a header there the missing bytes are taken for zeros, *)
(* and with a header and part of the body there the call answers           *)
(* Poll::Pending and forgets both.                                         *)
poll_read(q, cap) ==
    /\ MayRead(q, "stream")
    /\ \/ /\ st[q].read_buf # << >>
          /\ Delivered(q, Take(st[q].read_buf, cap))
          /\ st' = [st EXCEPT ![q].read_buf = Drop(@, cap)]
          /\ UNCHANGED <<rpos, aligned, ended>>
       \/ st[q].read_buf = << >> /\ ReadError(q)
       \/ /\ st[q].read_buf = << >> /\ Opens(q)
          /\ LET body == Incoming(q).body IN
             IF body = close_notify
             THEN /\ st' = [st EXCEPT ![q] = Opened(@)]
                  /\ ended' = [ended EXCEPT ![q] = TRUE]
                  /\ UNCHANGED delivered
             ELSE /\ st' = [st EXCEPT ![q] = [Opened(@) EXCEPT
                               !.read_buf = Drop(body, cap)]]
                  /\ Delivered(q, Take(body, cap))
                  /\ ended' = [ended EXCEPT ![q] = @ \/ body = << >>]
       \/ /\ st[q].read_buf = << >> /\ Available(q) /\ aligned[q]
          /\ aligned' = [aligned EXCEPT ![q] = FALSE]
          /\ \/ st' = [st EXCEPT ![q] = ReadFails(@, "TlsRecordError")]
             \/ UNCHANGED st
          /\ UNCHANGED <<rpos, delivered, ended>>
    /\ UNCHANGED <<api, log, down, sent>>

-----------------------------------------------------------------------------
Reads(p) == read_application_data(p) \/ \E cap \in Caps : poll_read(p, cap)

Next ==
    \E p \in Peers :
        \/ \E n \in Lens : write_application_data(p, n) \/ poll_write(p, n)
        \/ close(p) \/ poll_shutdown(p)
        \/ Reads(p)

Spec == Init /\ [][Next]_vars

(* In a direction that is still up, the reader stands inside a record, or  *)
(* before part of one: the length it reads there may announce more bytes   *)
(* than will ever come.                                                    *)
Lost(q) ==
    /\ Available(q) /\ (~aligned[q] \/ Incoming(q).torn)
    /\ ~down[Other(q)]

(* Both users keep reading until an error or the end, and a read that is   *)
(* not Lost is served; nobody is obliged to write.                         *)
FairSpec == Spec /\ \A p \in Peers : SF_vars(~Lost(p) /\ Reads(p))

-----------------------------------------------------------------------------
(* Properties. *)

(* A user of read_application_data can tell the end by its payload only.   *)
Told(q) == ended[q] \/ \E i \in 1..Len(delivered[q]) : delivered[q][i] = 0

(* Whatever the transport does with the pieces of a record, whoever drops  *)
(* a call or polls it again, and whichever functions the two users chose:  *)
(* what a user is given is a prefix of what the other has sent, and the    *)
(* end is reported only after the last byte.  The data among the bytes a   *)
(* user was given are as many as are not of an alert, from the first on:   *)
(* with an alert's bytes before data this is no run of consecutive bytes.  *)
Data(bytes) == SubSeq(bytes, 1, Cardinality({i \in 1..Len(bytes) : bytes[i] # 0}))
Chan == INSTANCE ReliableChannel
            WITH sent <- sent,
                 delivered <- [q \in Peers |-> Data(delivered[q])],
                 ended <- [q \in Peers |-> Told(q)]
ReliableDelivery == Chan!ChanSpec

(* No two records of one direction, finished or torn, are sealed under the *)
(* same number, hence none under the same GCM nonce: neither the poll that *)
(* makes a record again nor a dropped or failed write gives a number back  *)
(* (record.rs, next_nonce: each call must use an increasing seq).       *)
NonceUnique ==
    \A p \in Peers : \A i, j \in 1..Len(log[p]) :
        i # j => log[p][i].seq # log[p][j].seq

(* The writer p has put out nothing but whole records of legal length,     *)
(* with consecutive numbers.                                               *)
Intact(p) ==
    \A i \in 1..Len(log[p]) :
        /\ ~log[p][i].torn
        /\ log[p][i].seq = i
        /\ Len(log[p][i].body) <= MaxLen

(* A read fails only for a reason that can be named: the transport ended,  *)
(* the writer tore a record, skipped a number or wrote too long a record,  *)
(* or the reader had part of a record taken from it.  The numbers of the   *)
(* two ends never drift apart by themselves, up to the last one.           *)
ReadsSucceed ==
    \A q \in Peers :
        (Intact(Other(q)) /\ aligned[q] /\ ~down[Other(q)])
            => st[q].read_err = "none"

(* Every byte in a whole record on the wire is delivered, and every end    *)
(* that was asked for and counts as sent is reported, or else the reader   *)
(* gets an error, or is Lost for good: once the direction has ended        *)
(* neither a torn record nor a lost header nor a failed shutdown leaves it *)
(* waiting for ever, and before that nothing but the first two does.       *)
EventuallyDelivered ==
    \A p \in Peers :
        /\ \A n \in 1..MaxRecords[p] :
             (sent[p] >= n) ~> \/ Len(delivered[Other(p)]) >= n
                              \/ st[Other(p)].read_err # "none"
                              \/ []Lost(Other(p))
        /\ st[p].close_notify_sent ~> \/ Told(Other(p))
                                      \/ st[Other(p)].read_err # "none"
                                      \/ []Lost(Other(p))
=============================================================================
