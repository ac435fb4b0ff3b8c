----------------------------- MODULE TlcpProofs -----------------------------
(* Machine-checked proofs about the two parts of a TLCP connection that    *)
(* outlive its handshake, for every value of their constants: the streams  *)
(* (TlcpRecord) and the session cache of an acceptor (TlcpSessions).       *)
EXTENDS TlcpRecord, TlcpSessions, VecProofs, SequenceTheorems

-----------------------------------------------------------------------------
(* Types. *)

Streams ==
    [write_seq : Nat, read_seq : Nat, read_buf : Seq(Nat),
     close_notify_sent : BOOLEAN, closing : BOOLEAN,
     write_err : {"none", "SequenceOverflow", "IoError"},
     read_err : {"none", "IoError", "TlsRecordError", "SequenceOverflow",
                 "CipherError"}]
Records == [torn : BOOLEAN, seq : Nat, body : Seq(Nat)]

TypeOK ==
    /\ api \in [Peers -> Apis]
    /\ st \in [Peers -> Streams]
    /\ log \in [Peers -> Seq(Records)]
    /\ rpos \in [Peers -> Nat]
    /\ aligned \in [Peers -> BOOLEAN] /\ down \in [Peers -> BOOLEAN]
    /\ sent \in [Peers -> Nat]
    /\ delivered \in [Peers -> Seq(Nat)]
    /\ ended \in [Peers -> BOOLEAN]

-----------------------------------------------------------------------------
(* The inductive invariant of the numbers: those on the wire are below the *)
(* writer's, and a reader without an error expects the number of records   *)
(* it has taken, counted from the Finished.                                *)

Behind ==
    \A p \in Peers :
        /\ st[p].write_seq <= MaxSeq
        /\ \A i \in 1..Len(log[p]) : log[p][i].seq < st[p].write_seq

InStep ==
    \A q \in Peers :
        /\ rpos[q] <= Len(log[Other(q)])
        /\ st[q].read_err = "none" => st[q].read_seq = rpos[q] + 1

(* Only poll_read leaves bytes behind. *)
RecordUnbuffered ==
    \A q \in Peers : api[q] = "record" => st[q].read_buf = << >>

Inv ==
    /\ TypeOK
    /\ Behind
    /\ InStep
    /\ RecordUnbuffered
    /\ NonceUnique
    /\ ReadsSucceed

-----------------------------------------------------------------------------
(* The inductive invariant of the bytes.  base[i] is how many bytes of     *)
(* data the writer p had sent when it made its record i.                   *)

Bytes(b, n) == [i \in 1..n |-> b + i]

Offsets(p, base) ==
    /\ base \in [1..Len(log[p]) + 1 -> 0..sent[p]]
    /\ base[1] = 0 /\ base[Len(log[p]) + 1] = sent[p]
    /\ \A i \in 1..Len(log[p]) :
          LET body == log[p][i].body IN
          \/ log[p][i].torn /\ base[i + 1] = base[i]
          \/ /\ ~log[p][i].torn /\ body = close_notify
             /\ base[i + 1] = base[i] /\ base[i] = sent[p] /\ st[p].closing
          \/ /\ ~log[p][i].torn /\ Len(body) \in Lens
             /\ body = Bytes(base[i], Len(body))
             /\ base[i + 1] = base[i] + Len(body)

(* The user at q has been given the first m bytes, then perhaps the bytes  *)
(* of alerts; what follows those m is in its buffer, or in records it has  *)
(* not taken; and once it has been told of the end there is no more.       *)
Handed(q, base, m) ==
    LET n == Len(delivered[q])
        s == st[q]
    IN  /\ m <= n /\ m <= sent[Other(q)]
        /\ \A i \in 1..n : delivered[q][i] = IF i <= m THEN i ELSE 0
        /\ api[q] = "stream" => n = m
        /\ s.read_err = "none" =>
              /\ s.read_buf = Bytes(m, Len(s.read_buf))
              /\ m + Len(s.read_buf) = base[rpos[q] + 1]
        /\ ended[q] \/ m < n => m = sent[Other(q)] /\ st[Other(q)].closing

InOrder ==
    \A q \in Peers :
        \E base \in [1..Len(log[Other(q)]) + 1 -> 0..sent[Other(q)]] :
            /\ Offsets(Other(q), base)
            /\ \E m \in 0..Len(delivered[q]) : Handed(q, base, m)

-----------------------------------------------------------------------------
(* What the actions do, as far as the invariants look at it. *)

(* The record r goes out: part of it, the whole alert, or whole data. *)
Files(p, s, r) ==
    /\ log' = [log EXCEPT ![p] = Append(@, r)]
    /\ r.seq = st[p].write_seq /\ s.write_seq = r.seq + 1
    /\ \/ r.torn /\ sent' = sent
       \/ ~r.torn /\ r.body = close_notify /\ s.closing /\ sent' = sent
       \/ /\ ~r.torn /\ ~st[p].closing
          /\ \E n \in Lens : /\ r.body = Bytes(sent[p], n)
                            /\ sent' = [sent EXCEPT ![p] = @ + n]

WriterStep(p, s) ==
    /\ st' = [st EXCEPT ![p] = s]
    /\ s.read_seq = st[p].read_seq /\ s.read_buf = st[p].read_buf
    /\ s.read_err = st[p].read_err
    /\ st[p].closing => s.closing
    /\ st[p].write_seq <= s.write_seq /\ s.write_seq <= MaxSeq
    /\ down' = down \/ down' = [down EXCEPT ![p] = TRUE]
    /\ UNCHANGED <<api, rpos, aligned, delivered, ended>>
    /\ UNCHANGED <<log, sent>> \/ \E r \in Records : Files(p, s, r)

(* An error at the reader, and why there is one. *)
GivesUp(q, s) ==
    /\ s.read_err # "none" /\ s.read_buf = st[q].read_buf
    /\ ~aligned'[q] \/ down[Other(q)] \/ ~Intact(Other(q))
    /\ aligned' = aligned \/ aligned' = [aligned EXCEPT ![q] = FALSE]
    /\ rpos' = rpos \/ (Available(q) /\ rpos' = [rpos EXCEPT ![q] = @ + 1])
    /\ UNCHANGED <<delivered, ended>>

(* A record is opened: its data are handed over or kept, or it is the end. *)
TakesRecord(q, s) ==
    LET body == Incoming(q).body IN
    /\ s.read_err = "none" /\ s.read_seq = st[q].read_seq + 1
    /\ st[q].read_buf = << >>
    /\ Available(q) /\ ~Incoming(q).torn
    /\ rpos' = [rpos EXCEPT ![q] = @ + 1] /\ aligned' = aligned
    /\ \/ /\ api[q] = "record" /\ s.read_buf = << >>
          /\ delivered' = [delivered EXCEPT ![q] = @ \o body]
          /\ ended' = ended
       \/ /\ api[q] = "stream" /\ body = close_notify
          /\ s.read_buf = << >>
          /\ delivered' = delivered
          /\ ended' = [ended EXCEPT ![q] = TRUE]
       \/ /\ api[q] = "stream" /\ body # close_notify
          /\ \E k \in 0..Len(body) :
                /\ s.read_buf = SubSeq(body, k + 1, Len(body))
                /\ delivered' = [delivered EXCEPT ![q] = @ \o SubSeq(body, 1, k)]
          /\ ended' = [ended EXCEPT ![q] = @ \/ body = << >>]

TakesBuffered(q, s) ==
    /\ s.read_err = "none" /\ s.read_seq = st[q].read_seq
    /\ api[q] = "stream"
    /\ UNCHANGED <<rpos, aligned, ended>>
    /\ LET buf == st[q].read_buf IN
       \E k \in 0..Len(buf) :
          /\ s.read_buf = SubSeq(buf, k + 1, Len(buf))
          /\ delivered' = [delivered EXCEPT ![q] = @ \o SubSeq(buf, 1, k)]

(* The reader has lost its place and does not know. *)
LosesHeader(q, s) ==
    /\ s = st[q]
    /\ aligned' = [aligned EXCEPT ![q] = FALSE]
    /\ UNCHANGED <<rpos, delivered, ended>>

ReaderStep(q, s) ==
    /\ st' = [st EXCEPT ![q] = s]
    /\ st[q].read_err = "none"
    /\ s.write_seq = st[q].write_seq /\ s.closing = st[q].closing
    /\ UNCHANGED <<api, log, down, sent>>
    /\ \/ GivesUp(q, s) \/ TakesRecord(q, s)
       \/ TakesBuffered(q, s) \/ LosesHeader(q, s)

-----------------------------------------------------------------------------
(* The writing actions. *)

LEMMA StreamFields ==
    ASSUME NEW s \in Streams
    PROVE  /\ s.write_seq \in Nat /\ s.read_seq \in Nat /\ s.read_buf \in Seq(Nat)
           /\ s.close_notify_sent \in BOOLEAN /\ s.closing \in BOOLEAN
  BY DEF Streams

LEMMA WriterFunctions ==
    ASSUME NEW s \in Streams
    PROVE  /\ SeqTaken(s) \in Streams /\ SeqTaken(s).write_seq = s.write_seq + 1
           /\ SeqTaken(s).closing = s.closing
           /\ SeqTaken(s).read_seq = s.read_seq
           /\ SeqTaken(s).read_buf = s.read_buf
           /\ SeqTaken(s).read_err = s.read_err
           /\ \A e \in {"SequenceOverflow", "IoError"} :
                 /\ WriteFails(s, e) \in Streams
                 /\ WriteFails(s, e).write_seq = s.write_seq
                 /\ WriteFails(s, e).closing = s.closing
                 /\ WriteFails(s, e).read_seq = s.read_seq
                 /\ WriteFails(s, e).read_buf = s.read_buf
                 /\ WriteFails(s, e).read_err = s.read_err
<1>1. s.write_seq + 1 \in Nat
  BY DEF Streams
<1>2. /\ SeqTaken(s) \in Streams /\ SeqTaken(s).write_seq = s.write_seq + 1
      /\ SeqTaken(s).closing = s.closing
      /\ SeqTaken(s).read_seq = s.read_seq
      /\ SeqTaken(s).read_buf = s.read_buf
      /\ SeqTaken(s).read_err = s.read_err
  BY <1>1 DEF SeqTaken, Streams
<1>3. ASSUME NEW e \in {"SequenceOverflow", "IoError"}
      PROVE  /\ WriteFails(s, e) \in Streams
             /\ WriteFails(s, e).write_seq = s.write_seq
             /\ WriteFails(s, e).closing = s.closing
             /\ WriteFails(s, e).read_seq = s.read_seq
             /\ WriteFails(s, e).read_buf = s.read_buf
             /\ WriteFails(s, e).read_err = s.read_err
  BY <1>3 DEF WriteFails, Streams
<1>4. QED
  BY <1>2, <1>3

LEMMA CloseType ==
    /\ close_notify \in Seq(Nat) /\ Len(close_notify) = 2
    /\ close_notify[1] = 0 /\ close_notify[2] = 0
  BY DEF close_notify

(* Data is no alert. *)
LEMMA BytesType ==
    ASSUME NEW b \in Nat, NEW n \in Nat
    PROVE  /\ Bytes(b, n) \in Seq(Nat) /\ Len(Bytes(b, n)) = n
           /\ \A i \in 1..n : Bytes(b, n)[i] = b + i
           /\ Bytes(b, n) # close_notify
           /\ DataBytes(Bytes(b, n)) = n
<1>1. Bytes(b, n) \in Seq(Nat) /\ Len(Bytes(b, n)) = n
      /\ \A i \in 1..n : Bytes(b, n)[i] = b + i
  BY DEF Bytes
<1>2. Bytes(b, n) # close_notify
  <2> SUFFICES ASSUME Bytes(b, n) = close_notify PROVE FALSE
    OBVIOUS
  <2>1. n = 2
    BY <1>1, CloseType
  <2>2. Bytes(b, n)[1] = b + 1
    BY <1>1, <2>1
  <2>3. QED
    BY <2>2, CloseType
<1>3. QED
  BY <1>1, <1>2 DEF DataBytes

(* Every outcome of a write that uses the number of the stream for body,   *)
(* which is the alert of a stream that closes or the next data.            *)
LEMMA WriteOutcome ==
    ASSUME TypeOK, Behind, NEW p \in Peers, NEW s \in Streams,
           NEW s2 \in Streams, NEW body,
           s.write_seq = st[p].write_seq, s.read_seq = st[p].read_seq,
           s.read_buf = st[p].read_buf, s.read_err = st[p].read_err,
           st[p].closing => s.closing,
           \/ body = close_notify /\ s.closing
           \/ ~st[p].closing /\ \E n \in Lens : body = Bytes(sent[p], n),
           s2.read_seq = s.read_seq, s2.read_buf = s.read_buf,
           s2.read_err = s.read_err, s2.closing = s.closing,
           st' = [st EXCEPT ![p] = s2],
           down' = down \/ down' = [down EXCEPT ![p] = TRUE],
           UNCHANGED <<api, rpos, aligned, delivered, ended>>,
           \/ /\ s2.write_seq \in {s.write_seq, s.write_seq + 1}
              /\ s2.write_seq # s.write_seq => s.write_seq # MaxSeq
              /\ Unwritten
           \/ /\ s2.write_seq = s.write_seq + 1 /\ s.write_seq # MaxSeq
              /\ \/ Whole(p, encrypt_record(s, body))
                 \/ Torn(p, encrypt_record(s, body))
    PROVE  WriterStep(p, s2)
<1> DEFINE r == encrypt_record(s, body)
<1>1. /\ s.write_seq \in Nat /\ s2.write_seq \in Nat /\ st[p].write_seq <= MaxSeq
      /\ MaxSeq \in Nat /\ sent[p] \in Nat
  BY TlcpRecordConstants DEF Streams, TypeOK, Behind
<1>2. body \in Seq(Nat)
  <2>1. \A n \in Lens : Bytes(sent[p], n) \in Seq(Nat)
    BY <1>1, BytesType, TlcpRecordConstants
  <2>2. QED
    BY <2>1, CloseType
<1>3. /\ r \in Records /\ r.seq = s.write_seq /\ r.body = body /\ r.torn = FALSE
      /\ Part(r) \in Records /\ Part(r).seq = s.write_seq /\ Part(r).torn = TRUE
  BY <1>1, <1>2 DEF encrypt_record, Part, Records
<1>4. st[p].write_seq <= s2.write_seq /\ s2.write_seq <= MaxSeq
  BY <1>1
<1>5. CASE Unwritten
  BY <1>4, <1>5 DEF WriterStep, Unwritten
<1>6. CASE s2.write_seq = s.write_seq + 1 /\ Torn(p, r)
  <2> HIDE DEF r
  <2>1. Files(p, s2, Part(r))
    BY <1>3, <1>6 DEF Files, Torn
  <2>2. QED
    BY <1>3, <1>4, <2>1 DEF WriterStep
<1>7. CASE s2.write_seq = s.write_seq + 1 /\ Whole(p, r)
  <2>1. CASE body = close_notify /\ s.closing
    <3>1. DataBytes(r.body) = 0 /\ sent' = [sent EXCEPT ![p] = @ + 0]
      BY <1>3, <1>7, <2>1 DEF DataBytes, Whole
    <3>2. sent' = sent
      BY <1>1, <3>1 DEF TypeOK
    <3> HIDE DEF r
    <3>3. Files(p, s2, r)
      BY <1>3, <1>7, <2>1, <3>2 DEF Files, Whole
    <3>4. QED
      BY <1>3, <1>4, <3>3 DEF WriterStep
  <2>2. ASSUME ~st[p].closing, NEW n \in Lens, body = Bytes(sent[p], n)
        PROVE  WriterStep(p, s2)
    <3>1. DataBytes(r.body) = n
      BY <1>1, <1>3, <2>2, BytesType, TlcpRecordConstants
    <3>2. sent' = [sent EXCEPT ![p] = @ + n]
      BY <1>7, <3>1 DEF Whole
    <3> HIDE DEF r
    <3>3. Files(p, s2, r)
      BY <1>3, <1>7, <2>2, <3>2 DEF Files, Whole
    <3>4. QED
      BY <1>3, <1>4, <3>3 DEF WriterStep
  <2>3. QED
    BY <2>1, <2>2
<1>8. QED
  BY <1>5, <1>6, <1>7

LEMMA AsyncWritesStep ==
    ASSUME TypeOK, Behind, NEW p \in Peers, NEW s \in Streams,
           NEW done \in Streams, NEW body,
           s.write_seq = st[p].write_seq, s.read_seq = st[p].read_seq,
           s.read_buf = st[p].read_buf, s.read_err = st[p].read_err,
           st[p].closing => s.closing,
           \/ body = close_notify /\ s.closing
           \/ ~st[p].closing /\ \E n \in Lens : body = Bytes(sent[p], n),
           done.read_seq = s.read_seq, done.read_buf = s.read_buf,
           done.read_err = s.read_err, done.closing = s.closing,
           done.write_seq = s.write_seq + 1,
           AsyncWrites(p, s, body, done)
    PROVE  \E t \in Streams : WriterStep(p, t)
<1> DEFINE r == encrypt_record(s, body)
           fail == WriteFails(s, "SequenceOverflow")
           taken == SeqTaken(s)
           broken == WriteFails(taken, "IoError")
<1>0. UNCHANGED <<api, rpos, aligned, delivered, ended>>
  BY DEF AsyncWrites
<1>1. /\ fail \in Streams /\ fail.write_seq = s.write_seq
      /\ fail.read_seq = s.read_seq /\ fail.read_buf = s.read_buf
      /\ fail.read_err = s.read_err /\ fail.closing = s.closing
  BY WriterFunctions
<1>2. /\ taken \in Streams /\ taken.write_seq = s.write_seq + 1
      /\ taken.read_seq = s.read_seq /\ taken.read_buf = s.read_buf
      /\ taken.read_err = s.read_err /\ taken.closing = s.closing
  BY WriterFunctions
<1> HIDE DEF taken
<1>3. /\ broken \in Streams /\ broken.write_seq = s.write_seq + 1
      /\ broken.read_seq = s.read_seq /\ broken.read_buf = s.read_buf
      /\ broken.read_err = s.read_err /\ broken.closing = s.closing
  BY <1>2, WriterFunctions
<1>4. \/ st' = [st EXCEPT ![p] = fail] /\ Unwritten /\ UNCHANGED down
      \/ /\ \/ st' = [st EXCEPT ![p] = done]
            \/ st' = [st EXCEPT ![p] = taken]
            \/ st' = [st EXCEPT ![p] = broken]
         /\ s.write_seq # MaxSeq
         /\ Whole(p, r) \/ Torn(p, r) \/ Unwritten
         /\ down' = down \/ down' = [down EXCEPT ![p] = TRUE]
  BY DEF AsyncWrites, taken
<1> HIDE DEF fail, broken, r
<1>5. CASE st' = [st EXCEPT ![p] = fail] /\ Unwritten /\ UNCHANGED down
  <2>1. WriterStep(p, fail)
    BY <1>0, <1>1, <1>5, WriteOutcome
  <2>2. QED
    BY <1>1, <2>1
<1>6. ASSUME NEW t \in Streams, t.write_seq = s.write_seq + 1,
             t.read_seq = s.read_seq, t.read_buf = s.read_buf,
             t.read_err = s.read_err, t.closing = s.closing,
             st' = [st EXCEPT ![p] = t], s.write_seq # MaxSeq,
             Whole(p, r) \/ Torn(p, r) \/ Unwritten,
             down' = down \/ down' = [down EXCEPT ![p] = TRUE]
      PROVE  WriterStep(p, t)
  BY <1>0, <1>6, WriteOutcome DEF r
<1>7. QED
  BY <1>2, <1>3, <1>4, <1>5, <1>6

LEMMA WriteApplicationDataStep ==
    ASSUME TypeOK, Behind, NEW p \in Peers, NEW n \in Lens,
           write_application_data(p, n)
    PROVE  \E t \in Streams : WriterStep(p, t)
<1>1. st[p] \in Streams /\ ~st[p].closing
  BY DEF TypeOK, write_application_data, MayWrite
<1>2. NextBytes(p, n) = Bytes(sent[p], n)
  BY DEF NextBytes, Bytes
<1>3. AsyncWrites(p, st[p], NextBytes(p, n), SeqTaken(st[p]))
  BY DEF write_application_data
<1>4. QED
  BY <1>1, <1>2, <1>3, WriterFunctions, AsyncWritesStep

(* The stream of a user that has asked for the end. *)
LEMMA ClosingStream ==
    ASSUME NEW s \in Streams
    PROVE  LET c == [s EXCEPT !.closing = TRUE] IN
           /\ c \in Streams /\ c.closing /\ c.write_seq = s.write_seq
           /\ c.read_seq = s.read_seq /\ c.read_buf = s.read_buf
           /\ c.read_err = s.read_err
           /\ c.close_notify_sent = s.close_notify_sent
  BY DEF Streams

LEMMA ClosedStream ==
    ASSUME NEW s \in Streams
    PROVE  LET c == [s EXCEPT !.close_notify_sent = TRUE] IN
           /\ c \in Streams /\ c.closing = s.closing /\ c.write_seq = s.write_seq
           /\ c.read_seq = s.read_seq /\ c.read_buf = s.read_buf
           /\ c.read_err = s.read_err
  BY DEF Streams

LEMMA CloseStep ==
    ASSUME TypeOK, Behind, NEW p \in Peers, close(p)
    PROVE  \E t \in Streams : WriterStep(p, t)
<1> DEFINE s == [st[p] EXCEPT !.closing = TRUE]
           taken == SeqTaken(s)
           done == [taken EXCEPT !.close_notify_sent = TRUE]
<1>1. st[p] \in Streams
  BY DEF TypeOK
<1>2. /\ s \in Streams /\ s.closing /\ s.write_seq = st[p].write_seq
      /\ s.read_seq = st[p].read_seq /\ s.read_buf = st[p].read_buf
      /\ s.read_err = st[p].read_err
  BY <1>1, ClosingStream
<1>3. AsyncWrites(p, s, close_notify, done)
  BY DEF close
<1> HIDE DEF s
<1>4. /\ taken \in Streams /\ taken.write_seq = s.write_seq + 1
      /\ taken.read_seq = s.read_seq /\ taken.read_buf = s.read_buf
      /\ taken.read_err = s.read_err /\ taken.closing = s.closing
  BY <1>2, WriterFunctions
<1> HIDE DEF taken
<1>5. /\ done \in Streams /\ done.closing = s.closing
      /\ done.write_seq = s.write_seq + 1 /\ done.read_seq = s.read_seq
      /\ done.read_buf = s.read_buf /\ done.read_err = s.read_err
  BY <1>4, ClosedStream
<1> HIDE DEF done
<1>6. QED
  BY <1>2, <1>3, <1>5, AsyncWritesStep

LEMMA PollWriteStep ==
    ASSUME TypeOK, Behind, NEW p \in Peers, NEW n \in Lens, poll_write(p, n)
    PROVE  \E t \in Streams : WriterStep(p, t)
<1> DEFINE s == st[p]
           body == NextBytes(p, n)
<1>1. s \in Streams /\ ~s.closing /\ body = Bytes(sent[p], n)
  BY DEF TypeOK, poll_write, MayWrite, NextBytes, Bytes
<1>2. AsyncWrites(p, s, body, SeqTaken(s))
  BY DEF poll_write, AsyncWrites
<1> HIDE DEF s, body
<1>3. QED
  BY <1>1, <1>2, WriterFunctions, AsyncWritesStep DEF s

LEMMA PollShutdownStep ==
    ASSUME TypeOK, Behind, NEW p \in Peers, poll_shutdown(p)
    PROVE  \E t \in Streams : WriterStep(p, t)
<1> DEFINE s == [st[p] EXCEPT !.closing = TRUE]
           taken == SeqTaken(s)
           done == [taken EXCEPT !.close_notify_sent = TRUE]
           r == encrypt_record(s, close_notify)
<1>1. /\ s \in Streams /\ s.closing /\ s.write_seq = st[p].write_seq
      /\ s.read_seq = st[p].read_seq /\ s.read_buf = st[p].read_buf
      /\ s.read_err = st[p].read_err
  BY ClosingStream DEF TypeOK
<1>2. UNCHANGED <<api, rpos, aligned, delivered, ended>>
  BY DEF poll_shutdown
<1>3. \/ /\ st' = [st EXCEPT ![p] = s] /\ Unwritten
         /\ down' = [down EXCEPT ![p] = TRUE]
      \/ /\ st' = [st EXCEPT ![p] = done] \/ st' = [st EXCEPT ![p] = taken]
         /\ s.write_seq # MaxSeq
         /\ Whole(p, r) \/ Torn(p, r) \/ Unwritten
         /\ down' = down \/ down' = [down EXCEPT ![p] = TRUE]
  BY DEF poll_shutdown
<1> HIDE DEF s
<1>4. /\ taken \in Streams /\ taken.write_seq = s.write_seq + 1
      /\ taken.read_seq = s.read_seq /\ taken.read_buf = s.read_buf
      /\ taken.read_err = s.read_err /\ taken.closing = s.closing
  BY <1>1, WriterFunctions
<1> HIDE DEF taken
<1>5. /\ done \in Streams /\ done.write_seq = s.write_seq + 1
      /\ done.read_seq = s.read_seq /\ done.read_buf = s.read_buf
      /\ done.read_err = s.read_err /\ done.closing = s.closing
  BY <1>4, ClosedStream
<1> HIDE DEF done, r
<1>6. CASE st' = [st EXCEPT ![p] = s] /\ Unwritten
           /\ down' = [down EXCEPT ![p] = TRUE]
  <2>1. WriterStep(p, s)
    BY <1>1, <1>2, <1>6, WriteOutcome
  <2>2. QED
    BY <1>1, <2>1
<1>7. ASSUME NEW t \in Streams, t.write_seq = s.write_seq + 1,
             t.read_seq = s.read_seq, t.read_buf = s.read_buf,
             t.read_err = s.read_err, t.closing = s.closing,
             st' = [st EXCEPT ![p] = t], s.write_seq # MaxSeq,
             Whole(p, r) \/ Torn(p, r) \/ Unwritten,
             down' = down \/ down' = [down EXCEPT ![p] = TRUE]
      PROVE  WriterStep(p, t)
  BY <1>1, <1>2, <1>7, WriteOutcome DEF r
<1>8. QED
  BY <1>3, <1>4, <1>5, <1>6, <1>7

-----------------------------------------------------------------------------
(* The reading actions. *)

LEMMA ReaderFunctions ==
    ASSUME NEW s \in Streams
    PROVE  /\ Opened(s) \in Streams /\ Opened(s).read_seq = s.read_seq + 1
           /\ Opened(s).write_seq = s.write_seq /\ Opened(s).closing = s.closing
           /\ Opened(s).read_buf = s.read_buf /\ Opened(s).read_err = s.read_err
           /\ \A e \in {"IoError", "TlsRecordError", "SequenceOverflow",
                        "CipherError"} :
                 /\ ReadFails(s, e) \in Streams /\ ReadFails(s, e).read_err # "none"
                 /\ ReadFails(s, e).write_seq = s.write_seq
                 /\ ReadFails(s, e).closing = s.closing
                 /\ ReadFails(s, e).read_buf = s.read_buf
<1>1. s.read_seq + 1 \in Nat
  BY DEF Streams
<1>2. /\ Opened(s) \in Streams /\ Opened(s).read_seq = s.read_seq + 1
      /\ Opened(s).write_seq = s.write_seq /\ Opened(s).closing = s.closing
      /\ Opened(s).read_buf = s.read_buf /\ Opened(s).read_err = s.read_err
  BY <1>1 DEF Opened, Streams
<1>3. ASSUME NEW e \in {"IoError", "TlsRecordError", "SequenceOverflow",
                        "CipherError"}
      PROVE  /\ ReadFails(s, e) \in Streams /\ ReadFails(s, e).read_err # "none"
             /\ ReadFails(s, e).write_seq = s.write_seq
             /\ ReadFails(s, e).closing = s.closing
             /\ ReadFails(s, e).read_buf = s.read_buf
  BY <1>3 DEF ReadFails, Streams
<1>4. QED
  BY <1>2, <1>3

LEMMA BufferedStream ==
    ASSUME NEW s \in Streams, NEW b \in Seq(Nat)
    PROVE  LET c == [s EXCEPT !.read_buf = b] IN
           /\ c \in Streams /\ c.read_buf = b
           /\ c.write_seq = s.write_seq /\ c.closing = s.closing
           /\ c.read_seq = s.read_seq /\ c.read_err = s.read_err
  BY DEF Streams

LEMMA OtherPeer ==
    ASSUME NEW q \in Peers
    PROVE  Other(q) \in Peers /\ Other(q) # q /\ Other(Other(q)) = q
           /\ \A p \in Peers : p = q \/ p = Other(q)
  BY DEF Peers, Other

LEMMA IncomingType ==
    ASSUME TypeOK, NEW q \in Peers, Available(q)
    PROVE  Incoming(q) \in Records /\ rpos[q] + 1 \in 1..Len(log[Other(q)])
<1>1. rpos[q] \in Nat /\ log[Other(q)] \in Seq(Records)
  BY OtherPeer DEF TypeOK
<1>2. rpos[q] + 1 \in 1..Len(log[Other(q)])
  BY <1>1 DEF Available
<1>3. QED
  BY <1>1, <1>2 DEF Incoming

(* A record of an intact writer opens: its number is the expected one, and *)
(* below the last.                                                         *)
LEMMA IntactOpens ==
    ASSUME Inv, NEW q \in Peers, st[q].read_err = "none", Framed(q),
           Intact(Other(q))
    PROVE  st[q].read_seq # MaxSeq /\ decrypt(q)
<1> DEFINE p == Other(q)
           i == rpos[q] + 1
<1>1. p \in Peers /\ i \in 1..Len(log[p]) /\ Incoming(q) = log[p][i]
      /\ Incoming(q) \in Records
  BY OtherPeer, IncomingType DEF Inv, Framed, Incoming
<1>2. Incoming(q).seq = i /\ st[q].read_seq = i
  BY <1>1 DEF Intact, Inv, InStep
<1>3. i < st[p].write_seq /\ st[p].write_seq <= MaxSeq
  <2>1. log[p][i].seq = i
    BY <1>1, <1>2
  <2> HIDE DEF p, i
  <2>2. QED
    BY <1>1, <2>1 DEF Inv, Behind
<1>4. i \in Nat /\ st[p].write_seq \in Nat /\ MaxSeq \in Nat
  <2>1. rpos[q] \in Nat /\ MaxSeq \in Nat
    BY TlcpRecordConstants DEF Inv, TypeOK
  <2>2. st[p] \in Streams
    BY <1>1 DEF Inv, TypeOK
  <2>3. QED
    BY <2>1, <2>2 DEF Streams
<1>5. QED
  BY <1>2, <1>3, <1>4 DEF decrypt

LEMMA ReadErrorStep ==
    ASSUME Inv, NEW q \in Peers, st[q].read_err = "none", ReadError(q),
           UNCHANGED <<api, log, down, sent>>
    PROVE  \E s \in Streams : ReaderStep(q, s)
<1> DEFINE Err == {"IoError", "TlsRecordError", "SequenceOverflow", "CipherError"}
<1>1. st[q] \in Streams /\ aligned \in [Peers -> BOOLEAN] /\ st \in [Peers -> Streams]
  BY DEF Inv, TypeOK
<1>2. ASSUME NEW s \in Streams, NEW e \in Err, st' = [st EXCEPT ![q] = ReadFails(s, e)],
             s.write_seq = st[q].write_seq, s.closing = st[q].closing,
             s.read_buf = st[q].read_buf,
             ~aligned'[q] \/ down[Other(q)] \/ ~Intact(Other(q)),
             aligned' = aligned \/ aligned' = [aligned EXCEPT ![q] = FALSE],
             rpos' = rpos \/ (Available(q) /\ rpos' = [rpos EXCEPT ![q] = @ + 1])
      PROVE  \E t \in Streams : ReaderStep(q, t)
  <2> DEFINE t == ReadFails(s, e)
  <2>1. t \in Streams /\ t.read_err # "none" /\ t.write_seq = st[q].write_seq
        /\ t.closing = st[q].closing /\ t.read_buf = st[q].read_buf
    BY <1>2, ReaderFunctions
  <2>2. UNCHANGED <<delivered, ended>>
    BY DEF ReadError
  <2> HIDE DEF t
  <2>3. GivesUp(q, t)
    BY <1>2, <2>1, <2>2 DEF GivesUp
  <2>4. ReaderStep(q, t)
    BY <1>2, <2>1, <2>3 DEF ReaderStep, t
  <2>5. QED
    BY <2>1, <2>4
<1>3. CASE ~Available(q) /\ down[Other(q)] /\ UNCHANGED <<rpos, aligned>>
           /\ st' = [st EXCEPT ![q] = ReadFails(@, "IoError")]
  BY <1>1, <1>2, <1>3
<1>4. CASE /\ st' = [st EXCEPT ![q] = ReadFails(@, "TlsRecordError")]
           /\ aligned' = [aligned EXCEPT ![q] = FALSE] /\ UNCHANGED rpos
  BY <1>1, <1>2, <1>4
<1>5. CASE /\ Available(q) /\ ~aligned[q] /\ UNCHANGED <<rpos, aligned>>
           /\ st' = [st EXCEPT ![q] = ReadFails(@, "TlsRecordError")]
  BY <1>1, <1>2, <1>5
<1>6. CASE /\ Framed(q) /\ (st[q].read_seq = MaxSeq \/ ~decrypt(q))
           /\ st' = [st EXCEPT ![q] = IF st[q].read_seq = MaxSeq
                                      THEN ReadFails(@, "SequenceOverflow")
                                      ELSE ReadFails(Opened(@), "CipherError")]
           /\ Consumed(q) /\ UNCHANGED aligned
  <2>1. ~Intact(Other(q))
    BY <1>6, IntactOpens
  <2>2. Available(q) /\ rpos' = [rpos EXCEPT ![q] = @ + 1]
    BY <1>6 DEF Framed, Consumed
  <2>3. CASE st[q].read_seq = MaxSeq
    BY <1>1, <1>2, <1>6, <2>1, <2>2, <2>3
  <2>4. CASE st[q].read_seq # MaxSeq
    <3>1. Opened(st[q]) \in Streams /\ Opened(st[q]).write_seq = st[q].write_seq
          /\ Opened(st[q]).closing = st[q].closing
          /\ Opened(st[q]).read_buf = st[q].read_buf
      BY <1>1, ReaderFunctions
    <3>2. QED
      BY <1>1, <1>2, <1>6, <2>1, <2>2, <2>4, <3>1
  <2>5. QED
    BY <2>3, <2>4
<1>7. QED
  BY <1>3, <1>4, <1>5, <1>6 DEF ReadError

LEMMA LosesHeaderStep ==
    ASSUME Inv, NEW q \in Peers, st[q].read_err = "none",
           aligned' = [aligned EXCEPT ![q] = FALSE],
           UNCHANGED <<api, log, down, sent, st, rpos, delivered, ended>>
    PROVE  \E s \in Streams : ReaderStep(q, s)
<1>1. st[q] \in Streams /\ st' = [st EXCEPT ![q] = st[q]]
  BY DEF Inv, TypeOK
<1>2. ReaderStep(q, st[q])
  BY <1>1 DEF ReaderStep, LosesHeader
<1>3. QED
  BY <1>1, <1>2

LEMMA ReadApplicationDataStep ==
    ASSUME Inv, NEW q \in Peers, read_application_data(q)
    PROVE  \E s \in Streams : ReaderStep(q, s)
<1>1. /\ st[q] \in Streams /\ st[q].read_err = "none" /\ api[q] = "record"
      /\ st[q].read_buf = << >> /\ UNCHANGED <<api, log, down, sent>>
  BY DEF read_application_data, MayRead, Inv, TypeOK, RecordUnbuffered
<1>2. CASE ReadError(q)
  BY <1>1, <1>2, ReadErrorStep
<1>3. CASE /\ Opens(q) /\ st' = [st EXCEPT ![q] = Opened(@)]
           /\ Delivered(q, Incoming(q).body) /\ UNCHANGED ended
  <2> DEFINE s == Opened(st[q])
  <2>1. /\ s \in Streams /\ s.read_seq = st[q].read_seq + 1
        /\ s.write_seq = st[q].write_seq /\ s.closing = st[q].closing
        /\ s.read_buf = << >> /\ s.read_err = "none"
    BY <1>1, ReaderFunctions
  <2>2. st' = [st EXCEPT ![q] = s]
    BY <1>3
  <2> HIDE DEF s
  <2>3. TakesRecord(q, s)
    BY <1>1, <1>3, <2>1 DEF TakesRecord, Opens, Framed, Consumed, Delivered
  <2>4. QED
    BY <1>1, <2>1, <2>2, <2>3 DEF ReaderStep
<1>4. CASE /\ aligned' = [aligned EXCEPT ![q] = FALSE]
           /\ UNCHANGED <<st, rpos, delivered, ended>>
  BY <1>1, <1>4, LosesHeaderStep
<1>5. QED
  BY <1>2, <1>3, <1>4 DEF read_application_data

(* Take and Drop cut a sequence in two. *)
LEMMA TakeDrop ==
    ASSUME NEW b \in Seq(Nat), NEW cap \in Nat
    PROVE  \E k \in 0..Len(b) : /\ Take(b, cap) = SubSeq(b, 1, k)
                                /\ Drop(b, cap) = SubSeq(b, k + 1, Len(b))
<1>1. CASE cap < Len(b)
  BY <1>1 DEF Take, Drop
<1>2. CASE ~(cap < Len(b))
  <2>1. SubSeq(b, cap + 1, Len(b)) = << >> /\ SubSeq(b, Len(b) + 1, Len(b)) = << >>
    BY <1>2, SubSeqEmpty
  <2>2. QED
    BY <1>2, <2>1 DEF Take, Drop
<1>3. QED
  BY <1>1, <1>2

LEMMA DropType ==
    ASSUME NEW b \in Seq(Nat), NEW k \in 0..Len(b)
    PROVE  /\ SubSeq(b, k + 1, Len(b)) \in Seq(Nat)
           /\ Len(SubSeq(b, k + 1, Len(b))) = Len(b) - k
           /\ \A i \in 1..(Len(b) - k) : SubSeq(b, k + 1, Len(b))[i] = b[k + i]
           /\ SubSeq(b, 1, k) \in Seq(Nat) /\ Len(SubSeq(b, 1, k)) = k
           /\ \A i \in 1..k : SubSeq(b, 1, k)[i] = b[i]
<1>1. \A i \in k + 1..Len(b) : b[i] \in Nat
  OBVIOUS
<1>2. \A i \in 1..k : b[i] \in Nat
  OBVIOUS
<1>3. QED
  BY <1>1, <1>2, SubSeqProperties

LEMMA PollReadStep ==
    ASSUME Inv, NEW q \in Peers, NEW cap \in Caps, poll_read(q, cap)
    PROVE  \E s \in Streams : ReaderStep(q, s)
<1>1. /\ st[q] \in Streams /\ st[q].read_err = "none" /\ api[q] = "stream"
      /\ UNCHANGED <<api, log, down, sent>> /\ cap \in Nat
      /\ st[q].read_buf \in Seq(Nat)
  BY TlcpRecordConstants DEF poll_read, MayRead, Inv, TypeOK, Streams
<1>2. CASE ReadError(q)
  BY <1>1, <1>2, ReadErrorStep
<1>3. CASE /\ st[q].read_buf # << >> /\ UNCHANGED <<rpos, aligned, ended>>
           /\ Delivered(q, Take(st[q].read_buf, cap))
           /\ st' = [st EXCEPT ![q].read_buf = Drop(@, cap)]
  <2> DEFINE buf == st[q].read_buf
  <2>1. PICK k \in 0..Len(buf) : /\ Take(buf, cap) = SubSeq(buf, 1, k)
                                 /\ Drop(buf, cap) = SubSeq(buf, k + 1, Len(buf))
    BY <1>1, TakeDrop
  <2> DEFINE d == SubSeq(buf, k + 1, Len(buf))
             s == [st[q] EXCEPT !.read_buf = d]
  <2>2. d \in Seq(Nat)
    BY <1>1, DropType
  <2>3. st' = [st EXCEPT ![q] = s]
    BY <1>3, <2>1
  <2>4. delivered' = [delivered EXCEPT ![q] = @ \o SubSeq(buf, 1, k)]
    BY <1>3, <2>1 DEF Delivered
  <2> HIDE DEF d
  <2>5. /\ s \in Streams /\ s.read_buf = d /\ s.write_seq = st[q].write_seq
        /\ s.closing = st[q].closing /\ s.read_seq = st[q].read_seq
        /\ s.read_err = "none"
    BY <1>1, <2>2, BufferedStream
  <2> HIDE DEF s
  <2>6. TakesBuffered(q, s)
    BY <1>1, <1>3, <2>4, <2>5 DEF TakesBuffered, d
  <2>7. QED
    BY <1>1, <2>3, <2>5, <2>6 DEF ReaderStep
<1>4. ASSUME st[q].read_buf = << >>, Opens(q), Incoming(q).body = close_notify,
             st' = [st EXCEPT ![q] = Opened(@)],
             ended' = [ended EXCEPT ![q] = TRUE], UNCHANGED delivered
      PROVE  \E s \in Streams : ReaderStep(q, s)
  <2> DEFINE s == Opened(st[q])
  <2>1. /\ s \in Streams /\ s.read_seq = st[q].read_seq + 1
        /\ s.write_seq = st[q].write_seq /\ s.closing = st[q].closing
        /\ s.read_buf = << >> /\ s.read_err = "none"
    BY <1>1, <1>4, ReaderFunctions
  <2>2. st' = [st EXCEPT ![q] = s]
    BY <1>4
  <2> HIDE DEF s
  <2>3. TakesRecord(q, s)
    BY <1>1, <1>4, <2>1 DEF TakesRecord, Opens, Framed, Consumed
  <2>4. QED
    BY <1>1, <2>1, <2>2, <2>3 DEF ReaderStep
<1>5. ASSUME st[q].read_buf = << >>, Opens(q), Incoming(q).body # close_notify,
             st' = [st EXCEPT ![q] = [Opened(@) EXCEPT
                                        !.read_buf = Drop(Incoming(q).body, cap)]],
             Delivered(q, Take(Incoming(q).body, cap)),
             ended' = [ended EXCEPT ![q] = @ \/ Incoming(q).body = << >>]
      PROVE  \E s \in Streams : ReaderStep(q, s)
  <2> DEFINE body == Incoming(q).body
  <2>1. body \in Seq(Nat) /\ Available(q)
    BY <1>5, IncomingType DEF Opens, Framed, Records, Inv
  <2>2. PICK k \in 0..Len(body) : /\ Take(body, cap) = SubSeq(body, 1, k)
                                  /\ Drop(body, cap) = SubSeq(body, k + 1, Len(body))
    BY <1>1, <2>1, TakeDrop
  <2> DEFINE d == SubSeq(body, k + 1, Len(body))
             o == Opened(st[q])
             s == [o EXCEPT !.read_buf = d]
  <2>3. d \in Seq(Nat)
    BY <2>1, DropType
  <2>4. st' = [st EXCEPT ![q] = s]
    BY <1>5, <2>2
  <2>5. delivered' = [delivered EXCEPT ![q] = @ \o SubSeq(body, 1, k)]
    BY <1>5, <2>2 DEF Delivered
  <2>6. /\ o \in Streams /\ o.write_seq = st[q].write_seq
        /\ o.closing = st[q].closing /\ o.read_seq = st[q].read_seq + 1
        /\ o.read_err = "none"
    BY <1>1, ReaderFunctions
  <2> HIDE DEF o, d
  <2>7. /\ s \in Streams /\ s.read_buf = d /\ s.write_seq = st[q].write_seq
        /\ s.closing = st[q].closing /\ s.read_seq = st[q].read_seq + 1
        /\ s.read_err = "none"
    BY <2>3, <2>6, BufferedStream
  <2> HIDE DEF s
  <2>8. TakesRecord(q, s)
    BY <1>1, <1>5, <2>5, <2>7 DEF TakesRecord, Opens, Framed, Consumed, d
  <2>9. QED
    BY <1>1, <2>4, <2>7, <2>8 DEF ReaderStep
<1>6. CASE /\ aligned' = [aligned EXCEPT ![q] = FALSE]
           /\ st' = [st EXCEPT ![q] = ReadFails(@, "TlsRecordError")]
           /\ UNCHANGED <<rpos, delivered, ended>>
  <2> DEFINE t == ReadFails(st[q], "TlsRecordError")
  <2>1. t \in Streams /\ t.read_err # "none" /\ t.write_seq = st[q].write_seq
        /\ t.closing = st[q].closing /\ t.read_buf = st[q].read_buf
    BY <1>1, ReaderFunctions
  <2>2. st' = [st EXCEPT ![q] = t] /\ ~aligned'[q]
    BY <1>6 DEF Inv, TypeOK
  <2> HIDE DEF t
  <2>3. GivesUp(q, t)
    BY <1>6, <2>1, <2>2 DEF GivesUp
  <2>4. QED
    BY <1>1, <2>1, <2>2, <2>3 DEF ReaderStep
<1>7. CASE /\ aligned' = [aligned EXCEPT ![q] = FALSE]
           /\ UNCHANGED <<st, rpos, delivered, ended>>
  BY <1>1, <1>7, LosesHeaderStep
<1>8. QED
  BY <1>2, <1>3, <1>4, <1>5, <1>6, <1>7 DEF poll_read

-----------------------------------------------------------------------------
(* The numbers. *)

LEMMA LogType ==
    ASSUME TypeOK, NEW p \in Peers
    PROVE  /\ log[p] \in Seq(Records) /\ Len(log[p]) \in Nat
           /\ \A i \in 1..Len(log[p]) : log[p][i] \in Records
                                      /\ log[p][i].seq \in Nat
<1>1. /\ log[p] \in Seq(Records) /\ Len(log[p]) \in Nat
      /\ \A i \in 1..Len(log[p]) : log[p][i] \in Records
  BY DEF TypeOK
<1>2. \A x \in Records : x.seq \in Nat
  BY DEF Records
<1>3. QED
  BY <1>1, <1>2

LEMMA AppendLog ==
    ASSUME TypeOK, NEW p \in Peers, NEW r \in Records,
           log' = [log EXCEPT ![p] = Append(@, r)]
    PROVE  /\ log' \in [Peers -> Seq(Records)]
           /\ Len(log'[p]) = Len(log[p]) + 1 /\ Len(log[p]) \in Nat
           /\ log'[p][Len(log[p]) + 1] = r
           /\ \A i \in 1..Len(log[p]) : log'[p][i] = log[p][i]
           /\ \A q \in Peers : q # p => log'[q] = log[q]
  BY DEF TypeOK

LEMMA WriterInv ==
    ASSUME Inv, NEW p \in Peers, NEW s \in Streams, WriterStep(p, s)
    PROVE  Inv'
<1> USE DEF Inv
<1>1. /\ st' \in [Peers -> Streams] /\ st'[p] = s
      /\ \A q \in Peers : q # p => st'[q] = st[q]
      /\ UNCHANGED <<api, rpos, aligned, delivered, ended>>
  BY DEF WriterStep, TypeOK
<1>2. \A q \in Peers : /\ st'[q].read_seq = st[q].read_seq
                       /\ st'[q].read_buf = st[q].read_buf
                       /\ st'[q].read_err = st[q].read_err
  BY <1>1 DEF WriterStep
<1>3. /\ down' \in [Peers -> BOOLEAN]
      /\ \A q \in Peers : down[q] => down'[q]
  BY DEF WriterStep, TypeOK
<1>4. /\ s.write_seq \in Nat /\ st[p].write_seq \in Nat
      /\ st[p].write_seq <= s.write_seq /\ s.write_seq <= MaxSeq
  BY DEF WriterStep, TypeOK, Streams
<1>5. RecordUnbuffered'
  BY <1>1, <1>2 DEF RecordUnbuffered
<1>6. CASE UNCHANGED <<log, sent>>
  <2>1. TypeOK'
    BY <1>1, <1>3, <1>6 DEF TypeOK
  <2>2. Behind'
    <3>1. \A i \in 1..Len(log[p]) : log[p][i].seq \in Nat
      BY LogType
    <3>2. \A i \in 1..Len(log[p]) : log[p][i].seq < s.write_seq
      BY <1>4, <3>1 DEF Behind
    <3>3. QED
      BY <1>1, <1>4, <1>6, <3>2 DEF Behind
  <2>3. InStep' /\ NonceUnique'
    BY <1>1, <1>2, <1>6 DEF InStep, NonceUnique
  <2>4. ReadsSucceed'
    BY <1>1, <1>2, <1>3, <1>6, OtherPeer DEF ReadsSucceed, Intact
  <2>5. QED
    BY <1>5, <2>1, <2>2, <2>3, <2>4
<1>7. ASSUME NEW r \in Records, Files(p, s, r)
      PROVE  Inv'
  <2>1. log' = [log EXCEPT ![p] = Append(@, r)] /\ r.seq = st[p].write_seq
        /\ s.write_seq = r.seq + 1
    BY <1>7 DEF Files
  <2> DEFINE n == Len(log[p])
  <2>2. /\ log' \in [Peers -> Seq(Records)]
        /\ Len(log'[p]) = n + 1 /\ n \in Nat /\ log'[p][n + 1] = r
        /\ \A i \in 1..n : log'[p][i] = log[p][i]
        /\ \A q \in Peers : q # p => log'[q] = log[q]
    BY <2>1, AppendLog
  <2>3. sent' \in [Peers -> Nat]
    BY <1>7, TlcpRecordConstants DEF Files, TypeOK
  <2>4. TypeOK'
    BY <1>1, <1>3, <2>2, <2>3 DEF TypeOK
  <2>5. \A i \in 1..n : log[p][i].seq \in Nat /\ log[p][i].seq < r.seq
    BY <2>1, LogType DEF Behind
  <2>6. r.seq \in Nat
    BY DEF Records
  <2>7. Behind'
    <3>1. \A i \in 1..n + 1 : log'[p][i].seq < s.write_seq
      BY <2>1, <2>2, <2>5, <2>6
    <3>2. QED
      BY <1>1, <1>4, <2>2, <3>1 DEF Behind
  <2>8. NonceUnique'
    <3> SUFFICES ASSUME NEW q \in Peers, NEW i \in 1..Len(log'[q]),
                        NEW j \in 1..Len(log'[q]), i # j
                 PROVE  log'[q][i].seq # log'[q][j].seq
      BY DEF NonceUnique
    <3>1. CASE q # p
      BY <2>2, <3>1 DEF NonceUnique
    <3>2. CASE q = p /\ i \in 1..n /\ j \in 1..n
      BY <2>2, <3>2 DEF NonceUnique
    <3>3. CASE q = p /\ (i = n + 1 \/ j = n + 1)
      <4>1. ASSUME NEW k \in 1..n
            PROVE  log'[p][k].seq # r.seq
        <5>1. log'[p][k] = log[p][k]
          BY <2>2
        <5>2. log[p][k].seq \in Nat /\ log[p][k].seq < r.seq
          BY <2>5
        <5>3. log[p][k].seq # r.seq
          BY <5>2, <2>6
        <5>4. QED
          BY <5>1, <5>3
      <4>2. QED
        BY <2>2, <3>3, <4>1
    <3>4. QED
      BY <2>2, <3>1, <3>2, <3>3
  <2>9. InStep'
    <3>1. \A q \in Peers : Len(log[q]) <= Len(log'[q]) /\ Len(log[q]) \in Nat
                           /\ Len(log'[q]) \in Nat
      <4>1. \A q \in Peers : Len(log[q]) \in Nat
        BY LogType
      <4>2. QED
        BY <2>2, <4>1
    <3>2. \A q \in Peers : rpos[q] \in Nat /\ rpos[q] <= Len(log'[Other(q)])
      <4>1. \A q \in Peers : rpos[q] \in Nat /\ rpos[q] <= Len(log[Other(q)])
        BY DEF InStep, TypeOK
      <4>2. QED
        BY <3>1, <4>1, OtherPeer
    <3>3. QED
      BY <1>1, <1>2, <3>2 DEF InStep
  <2>10. \A q \in Peers : Intact(q)' => Intact(q)
    <3>1. \A q \in Peers : \A i \in 1..Len(log[q]) :
             i \in 1..Len(log'[q]) /\ log'[q][i] = log[q][i]
      BY <2>2
    <3>2. QED
      BY <3>1 DEF Intact
  <2>11. ReadsSucceed'
    BY <1>1, <1>2, <1>3, <2>10, OtherPeer DEF ReadsSucceed
  <2>12. QED
    BY <1>5, <2>4, <2>7, <2>8, <2>9, <2>11
<1>8. QED
  BY <1>6, <1>7 DEF WriterStep

LEMMA ReaderInv ==
    ASSUME Inv, NEW q \in Peers, NEW s \in Streams, ReaderStep(q, s)
    PROVE  Inv'
<1> USE DEF Inv
<1>1. /\ st' \in [Peers -> Streams] /\ st'[q] = s
      /\ \A p \in Peers : p # q => st'[p] = st[p]
      /\ UNCHANGED <<api, log, down, sent>>
  BY DEF ReaderStep, TypeOK
<1>2. \A p \in Peers : st'[p].write_seq = st[p].write_seq
  BY <1>1 DEF ReaderStep
<1>3. Behind' /\ NonceUnique'
  BY <1>1, <1>2 DEF Behind, NonceUnique
<1>4. /\ aligned' \in [Peers -> BOOLEAN]
      /\ \A p \in Peers : aligned'[p] => aligned[p]
      /\ \A p \in Peers : p # q => aligned'[p] = aligned[p]
  BY DEF ReaderStep, GivesUp, TakesRecord, TakesBuffered, LosesHeader, TypeOK
<1>5. rpos' = rpos \/ (Available(q) /\ rpos' = [rpos EXCEPT ![q] = @ + 1])
  BY DEF ReaderStep, GivesUp, TakesRecord, TakesBuffered, LosesHeader
<1>6. rpos' \in [Peers -> Nat] /\ \A p \in Peers : rpos'[p] <= Len(log[Other(p)])
  <2>1. \A p \in Peers : rpos[p] \in Nat /\ rpos[p] <= Len(log[Other(p)])
                         /\ Len(log[Other(p)]) \in Nat
    BY OtherPeer, LogType DEF TypeOK, InStep
  <2>2. rpos \in [Peers -> Nat]
    BY DEF TypeOK
  <2>3. CASE Available(q) /\ rpos' = [rpos EXCEPT ![q] = @ + 1]
    BY <2>1, <2>2, <2>3 DEF Available
  <2>4. QED
    BY <1>5, <2>1, <2>2, <2>3
<1>7. \A p \in Peers : p # q => rpos'[p] = rpos[p]
  BY <1>5 DEF TypeOK
<1>8. \A p \in Peers : Intact(p)' <=> Intact(p)
  BY <1>1 DEF Intact
<1>9. ReadsSucceed'
  <2>1. s.read_err # "none" => ~aligned'[q] \/ down[Other(q)] \/ ~Intact(Other(q))
    BY DEF ReaderStep, GivesUp, TakesRecord, TakesBuffered, LosesHeader
  <2>2. QED
    BY <1>1, <1>4, <1>8, <2>1, OtherPeer DEF ReadsSucceed
<1>10. InStep'
  <2>1. s.read_err = "none" => s.read_seq = rpos'[q] + 1
    BY DEF ReaderStep, GivesUp, TakesRecord, TakesBuffered, LosesHeader, InStep,
           TypeOK
  <2>2. QED
    BY <1>1, <1>6, <1>7, <2>1 DEF InStep
<1>11. \A b \in Seq(Nat) : \A k \in 0..Len(b) : SubSeq(b, 1, k) \in Seq(Nat)
  BY DropType
<1>12. /\ delivered' \in [Peers -> Seq(Nat)]
       /\ ended' \in [Peers -> BOOLEAN]
  <2>1. CASE GivesUp(q, s) \/ LosesHeader(q, s)
    BY <2>1 DEF GivesUp, LosesHeader, TypeOK
  <2>2. CASE TakesBuffered(q, s)
    BY <2>2, <1>11, StreamFields DEF TakesBuffered, TypeOK
  <2>3. CASE TakesRecord(q, s)
    <3>1. Incoming(q).body \in Seq(Nat)
      BY <2>3, IncomingType DEF TakesRecord, Records
    <3>2. QED
      <4>1. delivered \in [Peers -> Seq(Nat)] /\ ended \in [Peers -> BOOLEAN]
        BY DEF TypeOK
      <4>2. \A k \in 0..Len(Incoming(q).body) :
               SubSeq(Incoming(q).body, 1, k) \in Seq(Nat)
        BY <1>11, <3>1
      <4>3. ended' \in [Peers -> BOOLEAN]
        BY <2>3, <4>1 DEF TakesRecord
      <4>4. \/ delivered' = delivered
            \/ \E b \in Seq(Nat) : delivered' = [delivered EXCEPT ![q] = @ \o b]
        BY <2>3, <3>1, <4>2 DEF TakesRecord
      <4>5. delivered[q] \in Seq(Nat)
        BY <4>1
      <4>6. \A b \in Seq(Nat) : delivered[q] \o b \in Seq(Nat)
        BY <4>5, ConcatProperties
      <4>7. QED
        BY <4>1, <4>3, <4>4, <4>6
  <2>4. QED
    BY <2>1, <2>2, <2>3 DEF ReaderStep
<1>13. TypeOK'
  BY <1>1, <1>4, <1>6, <1>12 DEF TypeOK
<1>14. RecordUnbuffered'
  BY <1>1 DEF RecordUnbuffered, ReaderStep, GivesUp, TakesRecord, TakesBuffered,
              LosesHeader
<1>15. QED
  BY <1>3, <1>9, <1>10, <1>13, <1>14

LEMMA InitInv ==
    ASSUME Init
    PROVE  Inv
<1>1. TlcpStream \in Streams /\ TlcpStream.write_seq = 1
      /\ TlcpStream.read_seq = 1 /\ TlcpStream.read_buf = << >>
      /\ TlcpStream.read_err = "none"
  BY DEF TlcpStream, Streams
<1>2. \A p \in Peers : /\ st[p] = TlcpStream /\ log[p] = << >>
                       /\ Len(log[p]) = 0 /\ rpos[p] = 0
  BY DEF Init
<1>3. TypeOK
  BY <1>1 DEF Init, TypeOK
<1>4. Behind /\ InStep /\ NonceUnique
  BY <1>1, <1>2, OtherPeer, TlcpRecordConstants DEF Behind, InStep, NonceUnique
<1>5. RecordUnbuffered /\ ReadsSucceed
  BY <1>1, <1>2 DEF RecordUnbuffered, ReadsSucceed
<1>6. QED
  BY <1>3, <1>4, <1>5 DEF Inv

(* Every step is a writer's or a reader's. *)
LEMMA NextSteps ==
    ASSUME Inv, Next
    PROVE  \E p \in Peers, s \in Streams : WriterStep(p, s) \/ ReaderStep(p, s)
<1>1. PICK p \in Peers :
         \/ \E n \in Lens : write_application_data(p, n) \/ poll_write(p, n)
         \/ close(p) \/ poll_shutdown(p)
         \/ Reads(p)
  BY DEF Next
<1>2. CASE \E n \in Lens : write_application_data(p, n) \/ poll_write(p, n)
  BY <1>2, WriteApplicationDataStep, PollWriteStep DEF Inv
<1>3. CASE close(p) \/ poll_shutdown(p)
  BY <1>3, CloseStep, PollShutdownStep DEF Inv
<1>4. CASE Reads(p)
  BY <1>4, ReadApplicationDataStep, PollReadStep DEF Reads
<1>5. QED
  BY <1>1, <1>2, <1>3, <1>4

LEMMA NextInv ==
    ASSUME Inv, [Next]_vars
    PROVE  Inv'
<1>1. CASE Next
  BY <1>1, NextSteps, WriterInv, ReaderInv
<1>2. CASE UNCHANGED vars
  <2>1. \A p \in Peers : Intact(p)' <=> Intact(p)
    BY <1>2 DEF vars, Intact
  <2>2. TypeOK' /\ Behind' /\ InStep' /\ RecordUnbuffered' /\ NonceUnique'
    BY <1>2 DEF Inv, vars, TypeOK, Behind, InStep, RecordUnbuffered, NonceUnique
  <2>3. ReadsSucceed'
    BY <1>2, <2>1, OtherPeer DEF Inv, vars, ReadsSucceed
  <2>4. QED
    BY <2>2, <2>3 DEF Inv
<1>3. QED
  BY <1>1, <1>2

(* The numbers on the wire stay below the writer's and a reader without an *)
(* error expects the number after those it took, whatever the transport    *)
(* and the callers of TlcpStream do.                                       *)
THEOREM Safety == Spec => []Inv
<1>1. Init => Inv
  BY InitInv
<1>2. Inv /\ [Next]_vars => Inv'
  BY NextInv
<1>3. QED
  BY <1>1, <1>2, PTL DEF Spec

(* No two records of a direction carry the same sequence number: no write, *)
(* dropped, failed or polled again, gives one back.                        *)
THEOREM NoncesUnique == Spec => []NonceUnique
<1>1. Inv => NonceUnique
  BY DEF Inv
<1>2. QED
  BY <1>1, Safety, PTL

(* read_application_data and poll_read fail only when the transport ended, *)
(* a record was torn, skipped or too long, or a header was lost.           *)
THEOREM ReadsSound == Spec => []ReadsSucceed
<1>1. Inv => ReadsSucceed
  BY DEF Inv
<1>2. QED
  BY <1>1, Safety, PTL

-----------------------------------------------------------------------------
(* The bytes. *)

LEMMA BytesCut ==
    ASSUME NEW b \in Nat, NEW n \in Nat, NEW k \in 0..n
    PROVE  /\ SubSeq(Bytes(b, n), k + 1, n) = Bytes(b + k, n - k)
           /\ SubSeq(Bytes(b, n), 1, k) = Bytes(b, k)
<1> DEFINE s == Bytes(b, n)
<1>1. s \in Seq(Nat) /\ Len(s) = n /\ \A i \in 1..n : s[i] = b + i
  BY BytesType
<1> HIDE DEF s
<1>2. /\ SubSeq(s, k + 1, n) \in Seq(Nat) /\ Len(SubSeq(s, k + 1, n)) = n - k
      /\ \A i \in 1..(n - k) : SubSeq(s, k + 1, n)[i] = s[k + i]
      /\ SubSeq(s, 1, k) \in Seq(Nat) /\ Len(SubSeq(s, 1, k)) = k
      /\ \A i \in 1..k : SubSeq(s, 1, k)[i] = s[i]
  BY <1>1, DropType
<1>3. /\ Bytes(b + k, n - k) \in Seq(Nat) /\ Len(Bytes(b + k, n - k)) = n - k
      /\ \A i \in 1..(n - k) : Bytes(b + k, n - k)[i] = (b + k) + i
      /\ Bytes(b, k) \in Seq(Nat) /\ Len(Bytes(b, k)) = k
      /\ \A i \in 1..k : Bytes(b, k)[i] = b + i
  <2>1. b + k \in Nat /\ n - k \in Nat /\ k \in Nat
    OBVIOUS
  <2>2. QED
    BY <2>1, BytesType
<1>4. \A i \in 1..(n - k) : SubSeq(s, k + 1, n)[i] = Bytes(b + k, n - k)[i]
  <2> TAKE i \in 1..(n - k)
  <2>1. k + i \in 1..n
    OBVIOUS
  <2>2. QED
    BY <1>1, <1>2, <1>3, <2>1
<1>5. \A i \in 1..k : SubSeq(s, 1, k)[i] = Bytes(b, k)[i]
  BY <1>1, <1>2, <1>3
<1>6. QED
  BY <1>2, <1>3, <1>4, <1>5, SeqEqual DEF s

(* The data follow on what was handed over before. *)
LEMMA HandOver ==
    ASSUME NEW d \in Seq(Nat), \A i \in 1..Len(d) : d[i] = i, NEW k \in Nat
    PROVE  /\ d \o Bytes(Len(d), k) \in Seq(Nat)
           /\ Len(d \o Bytes(Len(d), k)) = Len(d) + k
           /\ \A i \in 1..Len(d) + k : (d \o Bytes(Len(d), k))[i] = i
<1> DEFINE c == Bytes(Len(d), k)
<1>1. Len(d) \in Nat
  OBVIOUS
<1>2. c \in Seq(Nat) /\ Len(c) = k /\ \A i \in 1..k : c[i] = Len(d) + i
  BY <1>1, BytesType
<1> HIDE DEF c
<1>3. /\ d \o c \in Seq(Nat) /\ Len(d \o c) = Len(d) + k
      /\ \A i \in 1..Len(d) + k :
            (d \o c)[i] = IF i <= Len(d) THEN d[i] ELSE c[i - Len(d)]
  BY <1>2, ConcatProperties
<1>4. ASSUME NEW i \in 1..Len(d) + k
      PROVE  (d \o c)[i] = i
  <2>1. CASE i <= Len(d)
    BY <1>1, <1>3, <2>1
  <2>2. CASE ~(i <= Len(d))
    <3>1. i - Len(d) \in 1..k
      BY <1>1, <2>2
    <3>2. c[i - Len(d)] = i
      BY <1>1, <1>2, <3>1
    <3>3. QED
      BY <1>3, <2>2, <3>2
  <2>3. QED
    BY <2>1, <2>2
<1>5. QED
  BY <1>3, <1>4 DEF c

(* What Offsets says of one record. *)
LEMMA OffsetsAt ==
    ASSUME TypeOK, NEW p \in Peers, NEW base, Offsets(p, base),
           NEW i \in 1..Len(log[p])
    PROVE  /\ base[i] \in Nat /\ base[i + 1] \in Nat
           /\ base[i] <= sent[p] /\ base[i + 1] <= sent[p]
           /\ ~log[p][i].torn =>
                \/ /\ log[p][i].body = close_notify
                   /\ base[i + 1] = base[i] /\ base[i] = sent[p] /\ st[p].closing
                \/ \E n \in Lens : /\ log[p][i].body = Bytes(base[i], n)
                                   /\ base[i + 1] = base[i] + n
<1>1. i \in 1..Len(log[p]) + 1 /\ i + 1 \in 1..Len(log[p]) + 1 /\ sent[p] \in Nat
  BY LogType DEF TypeOK
<1>2. base[i] \in 0..sent[p] /\ base[i + 1] \in 0..sent[p]
  BY <1>1 DEF Offsets
<1>3. QED
  BY <1>1, <1>2 DEF Offsets

(* One more record on the wire, whose bytes, if it has any, follow on the  *)
(* bytes before.                                                           *)
LEMMA OffsetsGrow ==
    ASSUME Inv, NEW p \in Peers, NEW s \in Streams, WriterStep(p, s),
           NEW r \in Records, Files(p, s, r), NEW base, Offsets(p, base)
    PROVE  \E base2 : /\ Offsets(p, base2)'
                      /\ \A i \in 1..Len(log[p]) + 1 : base2[i] = base[i]
<1> DEFINE n == Len(log[p])
           top == sent'[p]
<1>1. /\ Len(log'[p]) = n + 1 /\ n \in Nat /\ log'[p][n + 1] = r
      /\ \A i \in 1..n : log'[p][i] = log[p][i]
  BY AppendLog DEF Files, Inv
<1>2. sent[p] \in Nat /\ sent \in [Peers -> Nat] /\ st'[p] = s
  BY DEF Inv, TypeOK, WriterStep
<1>3. top \in Nat /\ sent[p] <= top
  BY <1>2, TlcpRecordConstants DEF Files
<1>4. /\ \A i \in 1..n + 1 : base[i] \in 0..sent[p]
      /\ base[1] = 0 /\ base[n + 1] = sent[p]
  BY <1>1 DEF Offsets
<1> HIDE DEF top
<1>5. PICK base2 : base2 = [i \in 1..n + 2 |-> IF i = n + 2 THEN top ELSE base[i]]
  OBVIOUS
<1>6. \A i \in 1..n + 1 : base2[i] = base[i] /\ base2[i] \in 0..top
  <2>1. n \in Nat /\ 0..sent[p] \subseteq 0..top
    BY <1>1, <1>2, <1>3
  <2> HIDE DEF n
  <2>2. \A i \in 1..n + 1 : i \in 1..n + 2 /\ i # n + 2
    BY <2>1
  <2>3. QED
    BY <1>4, <1>5, <2>1, <2>2
<1>7. base2[n + 2] = top /\ base2 \in [1..n + 2 -> 0..top]
  <2>1. n + 2 \in 1..n + 2 /\ top \in 0..top
        /\ \A i \in 1..n + 2 : i # n + 2 => i \in 1..n + 1
    BY <1>1, <1>3
  <2>2. base2[n + 2] = top
    BY <1>5, <2>1
  <2>3. \A i \in 1..n + 2 : base2[i] \in 0..top
    BY <1>6, <2>1, <2>2
  <2>4. QED
    BY <1>5, <2>2, <2>3
<1>8. base2[1] = 0
  BY <1>1, <1>4, <1>6
<1>9. ASSUME NEW i \in 1..n
      PROVE  LET body == log[p][i].body IN
             \/ log[p][i].torn /\ base2[i + 1] = base2[i]
             \/ /\ ~log[p][i].torn /\ body = close_notify
                /\ base2[i + 1] = base2[i] /\ base2[i] = top /\ s.closing
             \/ /\ ~log[p][i].torn /\ Len(body) \in Lens
                /\ body = Bytes(base2[i], Len(body))
                /\ base2[i + 1] = base2[i] + Len(body)
  <2>1. base2[i] = base[i] /\ base2[i + 1] = base[i + 1]
    <3>1. i \in 1..n + 1 /\ i + 1 \in 1..n + 1
      BY <1>1
    <3>2. QED
      BY <1>6, <3>1
  <2>2. st[p].closing => s.closing /\ top = sent[p]
    BY <1>2 DEF Files, WriterStep, top
  <2>3. QED
    BY <2>1, <2>2 DEF Offsets
<1>10. \/ r.torn /\ base2[n + 2] = base2[n + 1]
      \/ /\ ~r.torn /\ r.body = close_notify
         /\ base2[n + 2] = base2[n + 1] /\ base2[n + 1] = top /\ s.closing
      \/ /\ ~r.torn /\ Len(r.body) \in Lens
         /\ r.body = Bytes(base2[n + 1], Len(r.body))
         /\ base2[n + 2] = base2[n + 1] + Len(r.body)
  <2>1. base2[n + 1] = sent[p]
    BY <1>1, <1>4, <1>6
  <2>2. ASSUME NEW k \in Lens, r.body = Bytes(sent[p], k),
               sent' = [sent EXCEPT ![p] = @ + k]
        PROVE  Len(r.body) = k /\ top = sent[p] + k
    BY <1>2, <2>2, BytesType, TlcpRecordConstants DEF top
  <2>3. sent' = sent => top = sent[p]
    BY DEF top
  <2>4. QED
    BY <1>7, <2>1, <2>2, <2>3 DEF Files
<1>11. Offsets(p, base2)'
  <2>1. \A i \in 1..n + 1 :
           LET body == log'[p][i].body IN
           \/ log'[p][i].torn /\ base2[i + 1] = base2[i]
           \/ /\ ~log'[p][i].torn /\ body = close_notify
              /\ base2[i + 1] = base2[i] /\ base2[i] = top /\ s.closing
           \/ /\ ~log'[p][i].torn /\ Len(body) \in Lens
              /\ body = Bytes(base2[i], Len(body))
              /\ base2[i + 1] = base2[i] + Len(body)
    <3> TAKE i \in 1..n + 1
    <3>1. CASE i \in 1..n
      BY <1>1, <1>9, <3>1
    <3>2. CASE i = n + 1
      <4>1. i + 1 = n + 2
        BY <1>1, <3>2
      <4>2. QED
        BY <1>1, <1>10, <3>2, <4>1
    <3>3. QED
      BY <1>1, <3>1, <3>2
  <2>2. Len(log'[p]) + 1 = n + 2
    BY <1>1
  <2>3. QED
    BY <1>1, <1>2, <1>7, <1>8, <2>1, <2>2 DEF Offsets, top
<1>12. QED
  BY <1>6, <1>11

LEMMA WriterBytes ==
    ASSUME Inv, NEW q \in Peers, NEW s \in Streams, WriterStep(Other(q), s),
           NEW base, Offsets(Other(q), base),
           NEW m \in 0..Len(delivered[q]), Handed(q, base, m)
    PROVE  \E base2 : Offsets(Other(q), base2)' /\ Handed(q, base2, m)'
<1> DEFINE p == Other(q)
<1>1. p \in Peers /\ p # q
  BY OtherPeer
<1> HIDE DEF p
<1>2. /\ st' = [st EXCEPT ![p] = s] /\ st'[p] = s /\ st'[q] = st[q]
      /\ UNCHANGED <<api, rpos, delivered, ended>>
      /\ st[p].closing => s.closing
      /\ sent \in [Peers -> Nat]
  BY <1>1 DEF WriterStep, Inv, TypeOK, p
<1>3. rpos[q] \in Nat /\ rpos[q] <= Len(log[p]) /\ Len(log[p]) \in Nat
  BY <1>1, LogType DEF Inv, InStep, TypeOK, p
<1>4. CASE UNCHANGED <<log, sent>>
  <2>1. Offsets(p, base)'
    BY <1>2, <1>4 DEF Offsets, p
  <2>2. Handed(q, base, m)'
    BY <1>2, <1>4 DEF Handed, p
  <2>3. QED
    BY <2>1, <2>2 DEF p
<1>5. ASSUME NEW r \in Records, Files(p, s, r)
      PROVE  \E base2 : Offsets(p, base2)' /\ Handed(q, base2, m)'
  <2>1. PICK base2 : /\ Offsets(p, base2)'
                     /\ \A i \in 1..Len(log[p]) + 1 : base2[i] = base[i]
    BY <1>1, <1>5, OffsetsGrow DEF p
  <2>2. base2[rpos[q] + 1] = base[rpos[q] + 1]
    BY <1>3, <2>1
  <2>3. /\ sent[p] \in Nat /\ sent'[p] \in Nat /\ sent[p] <= sent'[p]
        /\ st[p].closing => sent'[p] = sent[p]
    BY <1>1, <1>2, <1>5, TlcpRecordConstants DEF Files
  <2>4. Handed(q, base2, m)'
    <3>1. m \in Nat /\ m <= sent[p] /\ m <= sent'[p]
      <4>1. Len(delivered[q]) \in Nat
        BY DEF Inv, TypeOK
      <4>2. m \in Nat /\ m <= sent[p]
        BY <4>1 DEF Handed, p
      <4>3. QED
        BY <2>3, <4>2
    <3>2. ended[q] \/ m < Len(delivered[q]) => m = sent'[p] /\ s.closing
      BY <1>2, <2>3 DEF Handed, p
    <3>3. QED
      BY <1>2, <2>2, <3>1, <3>2 DEF Handed, p
  <2>5. QED
    BY <2>1, <2>4
<1>6. QED
  BY <1>4, <1>5 DEF WriterStep, p

(* What a reading step does to the bytes that were handed over: more of    *)
(* them follow, or all of them have been and the user learns of the end.   *)
EndTold(q, m) == ended[q] \/ m < Len(delivered[q])

ReaderGoal(q, base, m) ==
    \E m2 \in Nat :
        /\ m2 <= Len(delivered'[q]) /\ Handed(q, base, m2)'
        /\ m <= m2 /\ m2 <= sent[Other(q)]
        /\ EndTold(q, m) => EndTold(q, m2)'
        /\ ~EndTold(q, m) /\ EndTold(q, m2)' => m2 = m /\ m = sent[Other(q)]

LEMMA BufferBytes ==
    ASSUME Inv, NEW q \in Peers, NEW s \in Streams, ReaderStep(q, s),
           TakesBuffered(q, s), NEW base, Offsets(Other(q), base),
           NEW m \in Nat, Handed(q, base, m)
    PROVE  ReaderGoal(q, base, m)
<1> DEFINE p == Other(q)
           d == delivered[q]
           buf == st[q].read_buf
           L == Len(buf)
<1>1. p \in Peers /\ p # q
  BY OtherPeer
<1>2. /\ d \in Seq(Nat) /\ Len(d) \in Nat /\ buf \in Seq(Nat) /\ L \in Nat
      /\ sent[p] \in Nat /\ st'[q] = s /\ st'[p] = st[p] /\ sent' = sent
      /\ rpos' = rpos /\ ended' = ended /\ api' = api /\ log' = log
      /\ delivered \in [Peers -> Seq(Nat)]
      /\ st[q].read_err = "none" /\ s.read_err = "none" /\ api[q] = "stream"
  <2>1. st[q] \in Streams
    BY DEF Inv, TypeOK
  <2>2. /\ d \in Seq(Nat) /\ Len(d) \in Nat /\ sent[p] \in Nat
        /\ delivered \in [Peers -> Seq(Nat)] /\ st \in [Peers -> Streams]
    BY <1>1 DEF Inv, TypeOK
  <2>3. buf \in Seq(Nat) /\ L \in Nat
    BY <2>1, StreamFields
  <2>4. QED
    BY <1>1, <2>2, <2>3 DEF ReaderStep, TakesBuffered
<1>3. PICK k \in 0..L : /\ s.read_buf = SubSeq(buf, k + 1, L)
                        /\ delivered' = [delivered EXCEPT ![q] = @ \o SubSeq(buf, 1, k)]
  BY DEF TakesBuffered
<1>4. /\ m = Len(d) /\ m <= sent[p] /\ \A i \in 1..Len(d) : d[i] = i
      /\ buf = Bytes(m, L) /\ m + L = base[rpos[q] + 1]
      /\ ended[q] => m = sent[p] /\ st[p].closing
  BY <1>2 DEF Handed
<1>5. base[rpos[q] + 1] <= sent[p] /\ base[rpos[q] + 1] \in Nat
  <2>1. rpos[q] + 1 \in 1..Len(log[p]) + 1
    BY <1>1, LogType DEF Inv, InStep, TypeOK
  <2>2. base[rpos[q] + 1] \in 0..sent[p]
    BY <2>1 DEF Offsets
  <2>3. QED
    BY <1>2, <2>2
<1> HIDE DEF d, buf, L, p
<1>6. k \in Nat /\ L - k \in Nat /\ m + k \in Nat
  BY <1>2
<1>7. s.read_buf = Bytes(m + k, L - k) /\ SubSeq(buf, 1, k) = Bytes(m, k)
  BY <1>2, <1>3, <1>4, BytesCut
<1>8. delivered'[q] = d \o Bytes(Len(d), k)
  BY <1>2, <1>3, <1>4, <1>7 DEF d
<1>9. /\ Len(delivered'[q]) = m + k
      /\ \A i \in 1..m + k : delivered'[q][i] = i
  <2>1. /\ Len(d \o Bytes(Len(d), k)) = Len(d) + k
        /\ \A i \in 1..Len(d) + k : (d \o Bytes(Len(d), k))[i] = i
    BY <1>2, <1>4, <1>6, HandOver
  <2>2. QED
    BY <1>4, <1>8, <2>1
<1>10. Len(s.read_buf) = L - k /\ (m + k) + (L - k) = m + L
  <2>1. (m + k) + (L - k) = m + L
    BY <1>2, <1>6
  <2>2. Len(Bytes(m + k, L - k)) = L - k
    BY <1>6, BytesType
  <2>3. QED
    BY <1>7, <2>1, <2>2
<1>11. ended[q] => k = 0 /\ m + k = sent[p]
  BY <1>2, <1>4, <1>5, <1>6
<1>12. Handed(q, base, m + k)'
  <2>1. m + k <= sent[p]
    BY <1>2, <1>4, <1>5, <1>6
  <2>2. \A i \in 1..m + k : delivered'[q][i] = IF i <= m + k THEN i ELSE 0
    BY <1>6, <1>9
  <2>3. ~(m + k < m + k) /\ m + k <= m + k
    BY <1>6
  <2>4. ended[q] => st[p].closing
    BY <1>4
  <2>5. QED
    BY <1>2, <1>4, <1>7, <1>9, <1>10, <1>11, <2>1, <2>2, <2>3, <2>4 DEF Handed, p
<1>13. QED
  <2>1. m + k <= sent[p] /\ m <= m + k
    BY <1>2, <1>4, <1>5, <1>6
  <2>2. EndTold(q, m) <=> ended[q]
    BY <1>4 DEF EndTold, d
  <2>3. EndTold(q, m + k)' <=> ended[q]
    BY <1>2, <1>6, <1>9 DEF EndTold
  <2>4. QED
    BY <1>6, <1>9, <1>12, <2>1, <2>2, <2>3 DEF ReaderGoal, p

(* A user that gets an error or loses its place is handed nothing. *)
LEMMA StillBytes ==
    ASSUME Inv, NEW q \in Peers, NEW s \in Streams, ReaderStep(q, s),
           GivesUp(q, s) \/ LosesHeader(q, s), NEW base,
           NEW m \in Nat, Handed(q, base, m)
    PROVE  ReaderGoal(q, base, m)
<1> DEFINE p == Other(q)
<1>1. p \in Peers /\ p # q
  BY OtherPeer
<1>2. /\ st'[q] = s /\ st'[p] = st[p] /\ sent' = sent /\ api' = api
      /\ delivered' = delivered /\ ended' = ended
      /\ s.read_err # "none" \/ (s = st[q] /\ rpos' = rpos)
  BY <1>1 DEF Inv, TypeOK, ReaderStep, GivesUp, LosesHeader
<1>3. Handed(q, base, m)'
  BY <1>2 DEF Handed
<1>4. m <= Len(delivered'[q]) /\ m <= sent[p] /\ (EndTold(q, m)' <=> EndTold(q, m))
  BY <1>2 DEF Handed, EndTold
<1>5. QED
  BY <1>3, <1>4 DEF ReaderGoal

(* A record is opened.  One with data comes while the user has been given  *)
(* data only, and not been told of the end: after that none follow.        *)
LEMMA RecordBytes ==
    ASSUME Inv, 0 \notin Lens, NEW q \in Peers, NEW s \in Streams,
           ReaderStep(q, s), TakesRecord(q, s),
           NEW base, Offsets(Other(q), base), NEW m \in Nat, Handed(q, base, m)
    PROVE  ReaderGoal(q, base, m)
<1> DEFINE p == Other(q)
           d == delivered[q]
           i == rpos[q] + 1
           body == Incoming(q).body
<1>1. p \in Peers /\ p # q
  BY OtherPeer
<1>2. /\ d \in Seq(Nat) /\ Len(d) \in Nat /\ sent[p] \in Nat /\ rpos[q] \in Nat
      /\ delivered \in [Peers -> Seq(Nat)] /\ ended \in [Peers -> BOOLEAN]
  BY <1>1 DEF Inv, TypeOK
<1>3. /\ st'[q] = s /\ st'[p] = st[p] /\ sent' = sent /\ api' = api
      /\ rpos'[q] = i /\ s.read_err = "none" /\ st[q].read_err = "none"
      /\ st[q].read_buf = << >>
  BY <1>1, <1>2 DEF Inv, TypeOK, ReaderStep, TakesRecord
<1>4. i \in 1..Len(log[p]) /\ Incoming(q) = log[p][i] /\ ~Incoming(q).torn
  BY IncomingType DEF Inv, Incoming, TakesRecord
<1>5. /\ base[i] \in Nat /\ base[i + 1] \in Nat
      /\ base[i] <= sent[p] /\ base[i + 1] <= sent[p]
      /\ \/ /\ body = close_notify
            /\ base[i + 1] = base[i] /\ base[i] = sent[p] /\ st[p].closing
         \/ \E n \in Lens : body = Bytes(base[i], n) /\ base[i + 1] = base[i] + n
  <2> HIDE DEF p, i
  <2>1. TypeOK /\ Offsets(p, base)
    BY DEF Inv, p
  <2>2. /\ base[i] \in Nat /\ base[i + 1] \in Nat
        /\ base[i] <= sent[p] /\ base[i + 1] <= sent[p]
        /\ ~log[p][i].torn =>
             \/ /\ log[p][i].body = close_notify
                /\ base[i + 1] = base[i] /\ base[i] = sent[p] /\ st[p].closing
             \/ \E n \in Lens : /\ log[p][i].body = Bytes(base[i], n)
                                /\ base[i + 1] = base[i] + n
    BY <1>1, <1>4, <2>1, OffsetsAt
  <2>3. QED
    BY <1>4, <2>2
<1>6. /\ m <= Len(d) /\ m <= sent[p]
      /\ \A j \in 1..Len(d) : d[j] = IF j <= m THEN j ELSE 0
      /\ api[q] = "stream" => Len(d) = m
      /\ m = base[i]
      /\ EndTold(q, m) => m = sent[p] /\ st[p].closing
  BY <1>2, <1>3 DEF Handed, EndTold
<1>7. Bytes(base[i + 1], 0) = << >>
  BY DEF Bytes
<1> HIDE DEF p, d, i, body
<1>8. CASE body = close_notify
  <2>1. base[i + 1] = m /\ m = sent[p] /\ st[p].closing
    <3>1. \A n \in Lens : Bytes(base[i], n) # close_notify
      BY <1>5, BytesType, TlcpRecordConstants
    <3>2. QED
      BY <1>5, <1>6, <1>8, <3>1
  <2>2. s.read_buf = << >>
    BY <1>8 DEF TakesRecord, body
  <2>3. /\ Len(delivered'[q]) \in Nat /\ m <= Len(delivered'[q])
        /\ \A j \in 1..Len(delivered'[q]) :
              delivered'[q][j] = IF j <= m THEN j ELSE 0
        /\ api[q] = "stream" => Len(delivered'[q]) = m
        /\ ended'[q] \/ m < Len(delivered'[q])
    <3>1. CASE api[q] = "record"
      <4>1. delivered'[q] = d \o close_notify
        BY <1>2, <1>8, <3>1 DEF TakesRecord, d, body
      <4>2. /\ Len(d \o close_notify) = Len(d) + 2
            /\ \A j \in 1..Len(d) + 2 : (d \o close_notify)[j] =
                  IF j <= Len(d) THEN d[j] ELSE close_notify[j - Len(d)]
        <5>1. /\ Len(d \o close_notify) = Len(d) + Len(close_notify)
              /\ \A j \in 1..Len(d) + Len(close_notify) : (d \o close_notify)[j] =
                    IF j <= Len(d) THEN d[j] ELSE close_notify[j - Len(d)]
          BY <1>2, CloseType, ConcatProperties
        <5>2. QED
          BY <5>1, CloseType
      <4>3. ASSUME NEW j \in 1..Len(d) + 2
            PROVE  (d \o close_notify)[j] = IF j <= m THEN j ELSE 0
        <5>1. CASE j <= Len(d)
          BY <1>2, <1>6, <4>2, <5>1
        <5>2. CASE ~(j <= Len(d))
          <6>1. j - Len(d) \in {1, 2} /\ ~(j <= m)
            <7>1. j \in Nat /\ j > Len(d) /\ j <= Len(d) + 2
              BY <1>2, <5>2
            <7>2. PICK k \in Nat : k = Len(d)
              BY <1>2
            <7>3. j - k \in {1, 2}
              BY <7>1, <7>2
            <7>4. QED
              BY <1>2, <1>6, <7>1, <7>2, <7>3
          <6>2. QED
            BY <4>2, <5>2, <6>1, CloseType
        <5>3. QED
          BY <5>1, <5>2
      <4>4. Len(d) + 2 \in Nat /\ m <= Len(d) + 2 /\ m < Len(d) + 2
        BY <1>2, <1>6
      <4>5. QED
        BY <3>1, <4>1, <4>2, <4>3, <4>4
    <3>2. CASE api[q] = "stream"
      <4>1. delivered' = delivered /\ ended'[q]
        BY <1>2, <1>8, <3>2 DEF TakesRecord, body
      <4>2. QED
        BY <1>2, <1>6, <4>1 DEF d
    <3>3. QED
      BY <3>1, <3>2 DEF TakesRecord
  <2>4. Handed(q, base, m)'
    <3>1. << >> = Bytes(m, 0) /\ Len(<< >>) = 0 /\ m + 0 = m
      BY <1>7, <2>1
    <3>2. QED
      BY <1>3, <1>6, <2>1, <2>2, <2>3, <3>1 DEF Handed, p, i
  <2>5. EndTold(q, m)'
    BY <2>3 DEF EndTold
  <2>6. QED
    BY <1>6, <2>1, <2>3, <2>4, <2>5 DEF ReaderGoal, p
<1>9. ASSUME NEW n \in Lens, body = Bytes(m, n), base[i + 1] = m + n
      PROVE  ReaderGoal(q, base, m)
  <2>1. n \in Nat \ {0} /\ m + n <= sent[p] /\ m < sent[p]
    BY <1>2, <1>5, <1>9, TlcpRecordConstants
  <2>2. ~ended[q] /\ Len(d) = m
    BY <1>2, <1>6, <2>1 DEF EndTold, d
  <2>3. \A j \in 1..Len(d) : d[j] = j
    BY <1>6, <2>2
  <2>4. body # close_notify /\ Len(body) = n /\ body # << >>
    BY <1>9, <2>1, BytesType
  <2>5. ended' = ended
    BY <1>2, <2>4 DEF TakesRecord, body
  <2>6. PICK k \in 0..n : /\ s.read_buf = Bytes(m + k, n - k)
                          /\ delivered'[q] = d \o Bytes(Len(d), k)
    <3>1. CASE api[q] = "record"
      <4>1. s.read_buf = << >> /\ delivered'[q] = d \o Bytes(Len(d), n)
        BY <1>2, <1>9, <2>2, <3>1 DEF TakesRecord, body, d
      <4>2. n - n = 0 /\ n \in 0..n /\ m + n = base[i + 1]
        BY <1>9, <2>1
      <4>3. QED
        BY <1>7, <4>1, <4>2
    <3>2. CASE api[q] = "stream"
      <4>1. PICK k \in 0..n :
               /\ s.read_buf = SubSeq(body, k + 1, n)
               /\ delivered' = [delivered EXCEPT ![q] = @ \o SubSeq(body, 1, k)]
        BY <2>4, <3>2 DEF TakesRecord, body
      <4>2. s.read_buf = Bytes(m + k, n - k) /\ SubSeq(body, 1, k) = Bytes(m, k)
        BY <1>9, <2>1, <4>1, BytesCut
      <4>3. delivered'[q] = d \o Bytes(Len(d), k)
        BY <1>2, <2>2, <4>1, <4>2 DEF d
      <4>4. QED
        BY <4>2, <4>3
    <3>3. QED
      BY <3>1, <3>2 DEF TakesRecord
  <2>7. k \in Nat /\ n - k \in Nat /\ m + k \in Nat /\ m + k <= sent[p] /\ m <= m + k
    BY <1>2, <2>1
  <2>8. /\ Len(delivered'[q]) = m + k
        /\ \A j \in 1..m + k : delivered'[q][j] = j
    <3>1. /\ Len(d \o Bytes(Len(d), k)) = Len(d) + k
          /\ \A j \in 1..Len(d) + k : (d \o Bytes(Len(d), k))[j] = j
      BY <1>2, <2>3, <2>7, HandOver
    <3>2. QED
      BY <2>2, <2>6, <3>1
  <2>9. Len(s.read_buf) = n - k /\ (m + k) + (n - k) = base[i + 1]
    <3>1. (m + k) + (n - k) = m + n
      BY <2>1, <2>7
    <3>2. Len(Bytes(m + k, n - k)) = n - k
      BY <2>7, BytesType
    <3>3. QED
      BY <1>9, <2>6, <3>1, <3>2
  <2>10. Handed(q, base, m + k)'
    <3>1. \A j \in 1..m + k : delivered'[q][j] = IF j <= m + k THEN j ELSE 0
      BY <2>7, <2>8
    <3>2. ~(m + k < m + k) /\ m + k <= m + k
      BY <2>7
    <3>3. QED
      BY <1>3, <2>2, <2>5, <2>6, <2>7, <2>8, <2>9, <3>1, <3>2 DEF Handed, p, i
  <2>11. ~EndTold(q, m + k)' /\ ~EndTold(q, m)
    BY <2>2, <2>5, <2>7, <2>8 DEF EndTold, d
  <2>12. QED
    BY <2>7, <2>8, <2>10, <2>11 DEF ReaderGoal, p
<1>10. QED
  BY <1>5, <1>6, <1>8, <1>9

LEMMA NumbersType ==
    ASSUME NEW m \in Nat
    PROVE  /\ Chan!Numbers(m) \in Seq(Nat) /\ Len(Chan!Numbers(m)) = m
           /\ \A i \in 1..m : Chan!Numbers(m)[i] = i
  BY DEF Chan!Numbers

(* The refinement mapping, in terms of the bytes handed over. *)
LEMMA MappedBytes ==
    ASSUME TypeOK, NEW q \in Peers, NEW base, NEW m \in Nat, Handed(q, base, m)
    PROVE  /\ Data(delivered[q]) = Chan!Numbers(m)
           /\ Told(q) <=> EndTold(q, m)
           /\ m <= sent[Other(q)]
<1> DEFINE d == delivered[q]
<1>1. d \in Seq(Nat) /\ Len(d) \in Nat
  BY DEF TypeOK
<1>2. /\ m <= Len(d) /\ m <= sent[Other(q)]
      /\ \A i \in 1..Len(d) : d[i] = IF i <= m THEN i ELSE 0
  BY DEF Handed
<1> HIDE DEF d
<1>3. {i \in 1..Len(d) : d[i] # 0} = 1..m
  BY <1>1, <1>2
<1>4. Cardinality(1..m) = m
  BY FS_Interval
<1>5. SubSeq(d, 1, m) = Chan!Numbers(m)
  <2>1. m \in 0..Len(d)
    BY <1>1, <1>2
  <2>2. /\ SubSeq(d, 1, m) \in Seq(Nat) /\ Len(SubSeq(d, 1, m)) = m
        /\ \A i \in 1..m : SubSeq(d, 1, m)[i] = d[i]
    BY <1>1, <2>1, DropType
  <2>3. \A i \in 1..m : d[i] = i
    BY <1>1, <1>2
  <2>4. QED
    BY <2>2, <2>3, NumbersType, SeqEqual
<1>6. Data(d) = Chan!Numbers(m)
  BY <1>3, <1>4, <1>5 DEF Data
<1>7. (\E i \in 1..Len(d) : d[i] = 0) <=> m < Len(d)
  <2>1. m < Len(d) => Len(d) \in 1..Len(d) /\ d[Len(d)] = 0
    BY <1>1, <1>2
  <2>2. \A i \in 1..Len(d) : d[i] = 0 => m < Len(d)
    BY <1>1, <1>2
  <2>3. QED
    BY <2>1, <2>2
<1>8. QED
  BY <1>2, <1>6, <1>7 DEF Told, EndTold, d

LEMMA MappedBytesAll ==
    TypeOK => \A r \in Peers : \A b : \A n \in Nat : Handed(r, b, n) =>
                 /\ Data(delivered[r]) = Chan!Numbers(n)
                 /\ Told(r) <=> EndTold(r, n)
  BY MappedBytes

(* The direction whose two ends a step leaves alone. *)
LEMMA OtherDirection ==
    ASSUME Inv, NEW q \in Peers, NEW base, NEW m, Offsets(Other(q), base),
           Handed(q, base, m),
           log'[Other(q)] = log[Other(q)], sent'[Other(q)] = sent[Other(q)],
           st'[Other(q)].closing = st[Other(q)].closing,
           delivered'[q] = delivered[q], ended'[q] = ended[q],
           rpos'[q] = rpos[q], api'[q] = api[q],
           st'[q].read_err = st[q].read_err, st'[q].read_buf = st[q].read_buf
    PROVE  Offsets(Other(q), base)' /\ Handed(q, base, m)'
<1>1. Offsets(Other(q), base)'
  BY DEF Offsets
<1>2. Handed(q, base, m)'
  BY DEF Handed
<1>3. QED
  BY <1>1, <1>2

(* InOrder, one direction at a time. *)
Ordered(q) ==
    \E base : Offsets(Other(q), base) /\ \E m \in Nat : Handed(q, base, m)

LEMMA OrderedDirections ==
    ASSUME TypeOK
    PROVE  InOrder <=> \A r \in Peers : Ordered(r)
<1>1. ASSUME NEW q \in Peers, NEW base, NEW m \in Nat, Handed(q, base, m)
      PROVE  m \in 0..Len(delivered[q])
  BY <1>1 DEF Handed, TypeOK
<1>2. \A q \in Peers : 0..Len(delivered[q]) \subseteq Nat
  BY DEF TypeOK
<1>3. \A q \in Peers : \A base : Offsets(Other(q), base) =>
         base \in [1..Len(log[Other(q)]) + 1 -> 0..sent[Other(q)]]
  BY DEF Offsets
<1>4. QED
  BY <1>1, <1>2, <1>3 DEF InOrder, Ordered

(* A writing step sends more bytes, or none. *)
LEMMA WriterRefines ==
    ASSUME Inv, Inv', InOrder, NEW p \in Peers, NEW s \in Streams, WriterStep(p, s)
    PROVE  InOrder' /\ [Chan!ChanNext]_(Chan!chanVars)
<1>1. TypeOK /\ TypeOK' /\ \A q \in Peers : Ordered(q)
  BY OrderedDirections DEF Inv
<1>2. Ordered(Other(p))'
  <2> DEFINE q == Other(p)
  <2>1. q \in Peers /\ p = Other(q)
    BY OtherPeer
  <2> HIDE DEF q
  <2>2. PICK base : Offsets(p, base) /\ \E m \in Nat : Handed(q, base, m)
    BY <1>1, <2>1 DEF Ordered
  <2>3. PICK m \in Nat : Handed(q, base, m)
    BY <2>2
  <2>4. m \in 0..Len(delivered[q])
    BY <1>1, <2>1, <2>3 DEF Handed, TypeOK
  <2>5. \E base2 : Offsets(p, base2)' /\ Handed(q, base2, m)'
    BY <2>1, <2>2, <2>3, <2>4, WriterBytes
  <2>6. QED
    BY <2>1, <2>5 DEF Ordered, q
<1>3. Ordered(p)'
  <2> DEFINE w == Other(p)
  <2>1. w \in Peers /\ w # p
    BY OtherPeer
  <2>2. PICK base : Offsets(w, base) /\ \E m \in Nat : Handed(p, base, m)
    BY <1>1 DEF Ordered
  <2>3. PICK m \in Nat : Handed(p, base, m)
    BY <2>2
  <2>4. /\ log'[w] = log[w] /\ sent'[w] = sent[w] /\ st'[w] = st[w]
        /\ UNCHANGED <<delivered, ended, rpos, api>>
        /\ st'[p].read_err = st[p].read_err /\ st'[p].read_buf = st[p].read_buf
    BY <1>1, <2>1 DEF WriterStep, Files, TypeOK
  <2>5. Offsets(w, base)' /\ Handed(p, base, m)'
    BY <2>2, <2>3, <2>4, OtherDirection
  <2>6. QED
    BY <2>5 DEF Ordered
<1>4. InOrder'
  <2>1. \A r \in Peers : Ordered(r)'
    BY <1>2, <1>3, OtherPeer
  <2>2. (InOrder <=> \A r \in Peers : Ordered(r))'
    BY <1>1, OrderedDirections, PTL
  <2>3. QED
    BY <2>1, <2>2
<1>5. UNCHANGED <<delivered, ended>>
  BY DEF WriterStep
<1>6. /\ [q \in Peers |-> Data(delivered[q])]' = [q \in Peers |-> Data(delivered[q])]
      /\ [q \in Peers |-> Told(q)]' = [q \in Peers |-> Told(q)]
  BY <1>5 DEF Told
<1>7. CASE sent' = sent
  BY <1>4, <1>6, <1>7 DEF Chan!chanVars
<1>8. ASSUME NEW n \in Lens, sent' = [sent EXCEPT ![p] = @ + n]
      PROVE  Chan!ChanNext
  <2>1. sent[p] \in Nat /\ sent'[p] \in Nat /\ sent'[p] = sent[p] + n /\ n \in Nat
    BY <1>1, <1>8, TlcpRecordConstants DEF TypeOK
  <2>2. sent'[p] >= sent[p] /\ sent' = [sent EXCEPT ![p] = sent'[p]]
    <3>1. sent'[p] >= sent[p]
      BY <2>1
    <3>2. sent' = [sent EXCEPT ![p] = sent[p] + n]
      BY <1>8
    <3>3. QED
      BY <2>1, <3>1, <3>2
  <2>3. Chan!ChanSend(p)
    BY <1>6, <2>1, <2>2 DEF Chan!ChanSend
  <2>4. QED
    BY <2>3 DEF Chan!ChanNext
<1>9. QED
  BY <1>4, <1>7, <1>8 DEF WriterStep, Files

(* A reading step hands over the next bytes, reports the end after the     *)
(* last, or does nothing the users can see.                                *)
LEMMA ReaderRefines ==
    ASSUME Inv, Inv', InOrder, 0 \notin Lens,
           NEW q \in Peers, NEW s \in Streams, ReaderStep(q, s)
    PROVE  InOrder' /\ [Chan!ChanNext]_(Chan!chanVars)
<1> DEFINE p == Other(q)
<1>1. /\ TypeOK /\ TypeOK' /\ \A r \in Peers : Ordered(r)
      /\ p \in Peers /\ p # q /\ Other(p) = q
  BY OrderedDirections, OtherPeer DEF Inv
<1>2. /\ st' = [st EXCEPT ![q] = s] /\ st'[q] = s /\ st'[p] = st[p]
      /\ s.closing = st[q].closing /\ UNCHANGED <<api, log, sent>>
  BY <1>1 DEF ReaderStep, TypeOK
<1>3. \A r \in Peers : r # q => /\ delivered'[r] = delivered[r]
                                /\ ended'[r] = ended[r] /\ rpos'[r] = rpos[r]
  <2>1. \/ delivered' = delivered
        \/ \E b : delivered' = [delivered EXCEPT ![q] = b]
    BY DEF ReaderStep, GivesUp, TakesRecord, TakesBuffered, LosesHeader
  <2>2. ended' = ended \/ \E b : ended' = [ended EXCEPT ![q] = b]
    BY DEF ReaderStep, GivesUp, TakesRecord, TakesBuffered, LosesHeader
  <2>3. rpos' = rpos \/ \E b : rpos' = [rpos EXCEPT ![q] = b]
    BY DEF ReaderStep, GivesUp, TakesRecord, TakesBuffered, LosesHeader
  <2>4. QED
    BY <1>1, <2>1, <2>2, <2>3 DEF TypeOK
<1>4. Ordered(p)'
  <2>1. PICK base : Offsets(q, base) /\ \E m \in Nat : Handed(p, base, m)
    BY <1>1 DEF Ordered
  <2>2. PICK m \in Nat : Handed(p, base, m)
    BY <2>1
  <2>3. Offsets(q, base)' /\ Handed(p, base, m)'
    BY <1>1, <1>2, <1>3, <2>1, <2>2, OtherDirection
  <2>4. QED
    BY <1>1, <2>3 DEF Ordered
<1>5. PICK base : Offsets(p, base) /\ \E m \in Nat : Handed(q, base, m)
  BY <1>1 DEF Ordered
<1>6. PICK m \in Nat : Handed(q, base, m)
  BY <1>5
<1>7. ReaderGoal(q, base, m)
  BY <1>5, <1>6, StillBytes, RecordBytes, BufferBytes DEF ReaderStep
<1>8. PICK m2 \in Nat :
         /\ Handed(q, base, m2)' /\ m <= m2 /\ m2 <= sent[p]
         /\ EndTold(q, m) => EndTold(q, m2)'
         /\ ~EndTold(q, m) /\ EndTold(q, m2)' => m2 = m /\ m = sent[p]
  BY <1>7 DEF ReaderGoal
<1>9. Offsets(p, base)'
  BY <1>2, <1>5 DEF Offsets
<1>10. InOrder'
  <2>1. Ordered(q)'
    BY <1>8, <1>9 DEF Ordered
  <2>2. \A r \in Peers : Ordered(r)'
    BY <1>4, <2>1, OtherPeer
  <2>3. (InOrder <=> \A r \in Peers : Ordered(r))'
    <3>1. TypeOK'
      BY <1>1
    <3>2. QED
      BY <3>1, OrderedDirections, PTL
  <2>4. QED
    BY <2>2, <2>3
<1> DEFINE D == [r \in Peers |-> Data(delivered[r])]
           E == [r \in Peers |-> Told(r)]
<1>11. D[q] = Chan!Numbers(m) /\ E[q] = Told(q) /\ (Told(q) <=> EndTold(q, m))
  BY <1>1, <1>6, MappedBytes
<1>12. D'[q] = Chan!Numbers(m2) /\ E'[q] = Told(q)'
       /\ (Told(q)' <=> EndTold(q, m2)')
  <2>1. (Data(delivered[q]) = Chan!Numbers(m2))' /\ (Told(q) <=> EndTold(q, m2))'
    <3>1. (\A r \in Peers : \A b : \A n \in Nat : Handed(r, b, n) =>
              /\ Data(delivered[r]) = Chan!Numbers(n)
              /\ Told(r) <=> EndTold(r, n))'
      BY <1>1, MappedBytesAll, PTL
    <3>2. QED
      BY <1>8, <3>1
  <2>2. QED
    BY <2>1
<1>13. \A r \in Peers : r # q => D'[r] = D[r] /\ E'[r] = E[r]
  BY <1>3 DEF Told
<1>14. Len(D[q]) = m
  BY <1>11, NumbersType
<1>15. CASE Told(q)' <=> Told(q)
  <2>1. E' = E
    BY <1>13, <1>15 DEF Told
  <2>2. D' = [D EXCEPT ![q] = Chan!Numbers(m2)]
    BY <1>12, <1>13
  <2>3. m2 \in Len(D[q])..sent[p]
    BY <1>1, <1>8, <1>14 DEF TypeOK
  <2>4. Chan!ChanDeliver(p, q)
    BY <1>1, <1>2, <2>1, <2>2, <2>3 DEF Chan!ChanDeliver
  <2>5. QED
    BY <1>1, <1>10, <2>4 DEF Chan!ChanNext
<1>16. CASE ~(Told(q)' <=> Told(q))
  <2>1. m2 = m /\ m = sent[p] /\ Told(q)'
    BY <1>8, <1>11, <1>12, <1>16
  <2>2. E' = [E EXCEPT ![q] = TRUE]
    BY <1>12, <1>13, <2>1
  <2>3. D' = D
    BY <1>11, <1>12, <1>13, <2>1
  <2>4. Chan!ChanEnd(p, q)
    BY <1>1, <1>2, <1>14, <2>1, <2>2, <2>3 DEF Chan!ChanEnd
  <2>5. QED
    BY <1>1, <1>10, <2>4 DEF Chan!ChanNext
<1>17. QED
  BY <1>15, <1>16

LEMMA InitOrder ==
    ASSUME Init
    PROVE  InOrder /\ Chan!ChanInit
<1>1. ASSUME NEW q \in Peers
      PROVE  /\ Len(log[Other(q)]) = 0 /\ sent[Other(q)] = 0 /\ rpos[q] = 0
             /\ Len(delivered[q]) = 0 /\ ~ended[q] /\ Len(st[q].read_buf) = 0
  BY <1>1, OtherPeer DEF Init, TlcpStream
<1>2. \A q \in Peers : delivered[q] = << >> /\ st[q].read_buf = << >>
  BY DEF Init, TlcpStream
<1>3. InOrder
  <2> SUFFICES ASSUME NEW q \in Peers
               PROVE  \E base \in [1..Len(log[Other(q)]) + 1 -> 0..sent[Other(q)]] :
                         /\ Offsets(Other(q), base)
                         /\ \E m \in 0..Len(delivered[q]) : Handed(q, base, m)
    BY DEF InOrder
  <2> DEFINE n == Len(log[Other(q)])
             base == [i \in 1..1 |-> 0]
  <2>1. /\ n = 0 /\ n + 1 = 1 /\ 1..n = {} /\ sent[Other(q)] = 0
        /\ Len(delivered[q]) = 0 /\ 1..Len(delivered[q]) = {}
    BY <1>1
  <2>2. base \in [1..1 -> 0..0] /\ base[1] = 0
    OBVIOUS
  <2> HIDE DEF base, n
  <2>3. Offsets(Other(q), base)
    BY <2>1, <2>2 DEF Offsets, n
  <2>4. Bytes(0, 0) = << >>
    BY DEF Bytes
  <2>5. Handed(q, base, 0)
    <3>1. base[rpos[q] + 1] = 0
      BY <1>1, <2>2
    <3>2. QED
      BY <1>1, <1>2, <2>1, <2>4, <3>1 DEF Handed
  <2>6. QED
    BY <2>1, <2>2, <2>3, <2>5 DEF n
<1>4. Chan!ChanInit
  <2>1. ASSUME NEW q \in Peers
        PROVE  Data(delivered[q]) = << >> /\ Told(q) = FALSE
    <3>1. {i \in 1..0 : << >>[i] # 0} = {}
      OBVIOUS
    <3>2. SubSeq(<< >>, 1, 0) = << >>
      BY SubSeqEmpty
    <3>3. Data(<< >>) = << >>
      BY <3>1, <3>2, FS_EmptySet DEF Data
    <3>4. QED
      <4>1. 1..Len(delivered[q]) = {} /\ ~ended[q]
        BY <1>1
      <4>2. QED
        BY <1>2, <3>3, <4>1 DEF Told
  <2>2. QED
    BY <2>1 DEF Chan!ChanInit, Init
<1>5. QED
  BY <1>3, <1>4

LEMMA NextRefines ==
    ASSUME Inv, Inv', InOrder, 0 \notin Lens, [Next]_vars
    PROVE  InOrder' /\ [Chan!ChanNext]_(Chan!chanVars)
<1>1. CASE Next
  BY <1>1, NextSteps, WriterRefines, ReaderRefines
<1>2. CASE UNCHANGED vars
  <2>1. InOrder'
    <3>1. \A q \in Peers : \A base : Offsets(q, base)' <=> Offsets(q, base)
      BY <1>2 DEF vars, Offsets
    <3>2. \A q \in Peers : \A base, m : Handed(q, base, m)' <=> Handed(q, base, m)
      BY <1>2 DEF vars, Handed
    <3>3. QED
      BY <1>2, <3>1, <3>2, OtherPeer DEF vars, InOrder
  <2>2. UNCHANGED Chan!chanVars
    BY <1>2 DEF vars, Chan!chanVars, Told
  <2>3. QED
    BY <2>1, <2>2
<1>3. QED
  BY <1>1, <1>2

(* The TLCP record layer implements the reliable channel, whatever is torn *)
(* off, dropped, polled again or closed, as long as no user writes an      *)
(* empty buffer: poll_read reports an empty record as the end.             *)
THEOREM Refinement ==
    ASSUME 0 \notin Lens
    PROVE  Spec => ReliableDelivery
<1>1. Init => InOrder /\ Chan!ChanInit
  BY InitOrder
<1>2. Inv /\ Inv' /\ InOrder /\ [Next]_vars
        => InOrder' /\ [Chan!ChanNext]_(Chan!chanVars)
  BY NextRefines
<1>3. QED
  BY <1>1, <1>2, Safety, PTL DEF Spec, ReliableDelivery, Chan!ChanSpec

-----------------------------------------------------------------------------
(* The session cache: the inductive invariant. *)

Suites == {Head(offered) : offered \in Offers} \cup {"none"}
Puts == [id : Ids, suite : Suites, at : Nat]
Conns == [stage : {"idle", "hello", "established", "failed"},
          session_id : Ids \cup {"none"}, suite : Suites,
          is_resumed : BOOLEAN, at : Nat, offered : Offers \cup {<< >>}]

SessionsTypeOK ==
    /\ now \in Nat
    /\ conn \in [Connections -> Conns]
    /\ puts \in Seq(Puts)

Named == \A t \in Connections : conn[t].stage = "hello" => conn[t].session_id \in Ids
Past == \A i \in 1..Len(puts) : puts[i].at <= now

(* The Vec holds the keys of the HashMap, the one put last at the end;     *)
(* last[id] is the number of the last put of id.                           *)
Listed(map, order, last) ==
    /\ order \in Seq(Ids)
    /\ \A i \in 1..Len(order) : order[i] \in DOMAIN map
    /\ \A id \in DOMAIN map : \E i \in 1..Len(order) : order[i] = id
    /\ \A i, j \in 1..Len(order) : i < j => last[order[i]] < last[order[j]]

(* The HashMap holds what was put last under each of its keys. *)
Latest(map, last) ==
    \A id \in DOMAIN map :
        /\ id \in Ids /\ last[id] \in 1..Len(puts)
        /\ puts[last[id]].id = id /\ puts[last[id]].suite = map[id].suite
        /\ puts[last[id]].at = map[id].created_at
        /\ \A i \in last[id] + 1..Len(puts) : puts[i].id # id

Holds(map, order, last) == Listed(map, order, last) /\ Latest(map, last)

Cached == \E last \in [Ids -> Nat] : Holds(sessions, insertion_order, last)

SessionsInv == SessionsTypeOK /\ Named /\ Past /\ Cached /\ ResumedSound

-----------------------------------------------------------------------------
(* The operations of the cache. *)

(* What removing some ids from the map and the Vec leaves. *)
LEMMA RetainHolds ==
    ASSUME NEW map, NEW order, NEW last, Holds(map, order, last), NEW ids
    PROVE  Holds(Without(map, ids), Retain(order, ids), last)
<1> DEFINE keep == {i \in 1..Len(order) : order[i] \notin ids}
           c == Cardinality(keep)
           new == Retain(order, ids)
<1>1. order \in Seq(Ids) /\ Len(order) \in Nat /\ keep \in SUBSET (1..Len(order))
  BY DEF Holds, Listed
<1>2. /\ new \in Seq(Ids) /\ Len(new) = c
      /\ \A k \in 1..c : new[k] = order[Nth(keep, k)]
  BY <1>1, RetainType DEF Retain
<1>3. /\ c \in Nat /\ \A k \in 1..c : Nth(keep, k) \in keep
      /\ \A j, k \in 1..c : j < k => Nth(keep, j) < Nth(keep, k)
      /\ \A i \in keep : \E k \in 1..c : Nth(keep, k) = i
  BY <1>1, NthPosition
<1>4. \A k \in 1..c : /\ Nth(keep, k) \in 1..Len(order)
                      /\ order[Nth(keep, k)] \notin ids
  BY <1>3
<1>5. DOMAIN Without(map, ids) = DOMAIN map \ ids
      /\ \A id \in DOMAIN map \ ids : Without(map, ids)[id] = map[id]
  BY DEF Without
<1>6. \A id \in DOMAIN map \ ids : \E k \in 1..c : new[k] = id
  <2> TAKE id \in DOMAIN map \ ids
  <2>1. PICK i \in 1..Len(order) : order[i] = id
    BY DEF Holds, Listed
  <2>2. i \in keep
    BY <2>1
  <2>3. QED
    BY <1>2, <1>3, <2>1, <2>2
<1> HIDE DEF keep, c, new
<1>7. Listed(Without(map, ids), new, last)
  <2>1. \A k \in 1..c : new[k] \in DOMAIN map \ ids
    BY <1>2, <1>4 DEF Holds, Listed
  <2>2. \A j, k \in 1..c : j < k => last[new[j]] < last[new[k]]
    <3> SUFFICES ASSUME NEW j \in 1..c, NEW k \in 1..c, j < k
                 PROVE  last[new[j]] < last[new[k]]
      OBVIOUS
    <3>1. /\ Nth(keep, j) < Nth(keep, k)
          /\ Nth(keep, j) \in 1..Len(order) /\ Nth(keep, k) \in 1..Len(order)
      BY <1>3, <1>4
    <3>2. last[order[Nth(keep, j)]] < last[order[Nth(keep, k)]]
      BY <3>1 DEF Holds, Listed
    <3>3. QED
      BY <1>2, <3>2
  <2>3. QED
    BY <1>2, <1>5, <1>6, <2>1, <2>2 DEF Listed
<1>8. Latest(Without(map, ids), last)
  BY <1>5 DEF Holds, Latest
<1>9. QED
  BY <1>7, <1>8 DEF Holds, new

(* The first id of the Vec goes. *)
LEMMA OldestHolds ==
    ASSUME NEW map, NEW order, NEW last, Holds(map, order, last), order # << >>
    PROVE  /\ Holds(Without(map, {Head(order)}), Tail(order), last)
           /\ \A id \in DOMAIN map \ {Head(order)} : last[Head(order)] < last[id]
           /\ Head(order) \in DOMAIN map
<1> DEFINE n == Len(order)
           rest == Tail(order)
<1>1. order \in Seq(Ids) /\ n \in Nat /\ n # 0 /\ Head(order) = order[1]
      /\ 1 \in 1..n
  BY EmptySeq DEF Holds, Listed
<1>2. /\ rest \in Seq(Ids) /\ Len(rest) = n - 1
      /\ \A i \in 1..n - 1 : rest[i] = order[i + 1]
  BY <1>1, HeadTailProperties
<1>3. \A i \in 1..n : i # 1 => last[order[1]] < last[order[i]]
  BY <1>1 DEF Holds, Listed
<1>4. \A i \in 1..n : order[i] \in Ids /\ last[order[i]] \in Nat
  BY <1>1 DEF Holds, Listed, Latest
<1>5. \A i \in 1..n : i # 1 => order[i] # order[1]
  BY <1>1, <1>3, <1>4
<1>6. DOMAIN Without(map, {order[1]}) = DOMAIN map \ {order[1]}
      /\ \A id \in DOMAIN map \ {order[1]} : Without(map, {order[1]})[id] = map[id]
  BY DEF Without
<1>7. \A i \in 1..n - 1 : i + 1 \in 1..n /\ i + 1 # 1
  BY <1>1
<1>8. ASSUME NEW id \in DOMAIN map \ {order[1]}
      PROVE  (\E i \in 1..n - 1 : rest[i] = id) /\ last[order[1]] < last[id]
  <2>1. PICK i \in 1..n : order[i] = id
    BY DEF Holds, Listed
  <2>2. i # 1 /\ i - 1 \in 1..n - 1 /\ (i - 1) + 1 = i
    BY <1>1, <2>1
  <2>3. rest[i - 1] = id
    BY <1>2, <2>1, <2>2
  <2>4. QED
    BY <1>3, <2>1, <2>2, <2>3
<1> HIDE DEF n, rest
<1>9. Listed(Without(map, {order[1]}), rest, last)
  <2>1. \A i \in 1..n - 1 : rest[i] \in DOMAIN map \ {order[1]}
    BY <1>2, <1>5, <1>7 DEF Holds, Listed, n
  <2>2. \A i, j \in 1..n - 1 : i < j => last[rest[i]] < last[rest[j]]
    <3> SUFFICES ASSUME NEW i \in 1..n - 1, NEW j \in 1..n - 1, i < j
                 PROVE  last[rest[i]] < last[rest[j]]
      OBVIOUS
    <3>1. i + 1 < j + 1
      BY <1>1
    <3>2. QED
      BY <1>2, <1>7, <3>1 DEF Holds, Listed, n
  <2>3. QED
    BY <1>2, <1>6, <1>8, <2>1, <2>2 DEF Listed
<1>10. Latest(Without(map, {order[1]}), last)
  BY <1>6 DEF Holds, Latest
<1>11. order[1] \in DOMAIN map
  BY <1>1 DEF Holds, Listed, n
<1>12. QED
  BY <1>1, <1>8, <1>9, <1>10, <1>11 DEF Holds, rest

(* A put: the id is listed once, at the end. *)
LEMMA InsertHolds ==
    ASSUME NEW map, NEW order, NEW last \in [Ids -> Nat],
           Holds(map, order, last), puts \in Seq(Puts),
           NEW id \in Ids, NEW e \in Puts, e.id = id, puts' = Append(puts, e),
           NEW session, session.suite = e.suite, session.created_at = e.at,
           NEW c, c = Inserted(Cache(map, order), id, session)
    PROVE  \E last2 \in [Ids -> Nat] : Holds(c.map, c.order, last2)'
<1> DEFINE n == Len(puts)
           old == IF id \in DOMAIN map THEN Retain(order, {id}) ELSE order
<1>1. /\ n \in Nat /\ Len(puts') = n + 1 /\ puts'[n + 1] = e
      /\ \A i \in 1..n : puts'[i] = puts[i]
  OBVIOUS
<1>2. Holds(Without(map, {id}), old, last)
  <2>1. CASE id \in DOMAIN map
    BY <2>1, RetainHolds
  <2>2. CASE id \notin DOMAIN map
    <3>1. /\ DOMAIN Without(map, {id}) = DOMAIN map
          /\ \A x \in DOMAIN map : Without(map, {id})[x] = map[x]
      BY <2>2 DEF Without
    <3>2. Listed(Without(map, {id}), order, last)
      BY <3>1 DEF Holds, Listed
    <3>3. Latest(Without(map, {id}), last)
      BY <3>1 DEF Holds, Latest
    <3>4. QED
      BY <2>2, <3>2, <3>3 DEF Holds
  <2>3. QED
    BY <2>1, <2>2
<1>3. PICK last2 : last2 = [last EXCEPT ![id] = n + 1]
  OBVIOUS
<1>4. last2 \in [Ids -> Nat] /\ last2[id] = n + 1
      /\ \A x \in Ids : x # id => last2[x] = last[x]
  BY <1>1, <1>3
<1>5. /\ DOMAIN c.map = DOMAIN map \cup {id}
      /\ \A x \in DOMAIN map \cup {id} :
            c.map[x] = IF x = id THEN session ELSE map[x]
      /\ c.order = Append(old, id)
  BY DEF Inserted, Cache
<1> HIDE DEF old
<1> DEFINE k == Len(old)
<1>6. /\ old \in Seq(Ids) /\ k \in Nat
      /\ \A i \in 1..k : old[i] \in DOMAIN map \ {id} /\ old[i] \in Ids
      /\ \A x \in DOMAIN map \ {id} : \E i \in 1..k : old[i] = x
      /\ \A i, j \in 1..k : i < j => last[old[i]] < last[old[j]]
  <2>1. DOMAIN Without(map, {id}) = DOMAIN map \ {id}
    BY DEF Without
  <2>2. old \in Seq(Ids) /\ k \in Nat
    BY <1>2 DEF Holds, Listed
  <2>3. \A i \in 1..k : old[i] \in Ids
    BY <2>2
  <2>4. QED
    BY <1>2, <2>1, <2>2, <2>3 DEF Holds, Listed
<1>7. /\ c.order \in Seq(Ids) /\ Len(c.order) = k + 1 /\ c.order[k + 1] = id
      /\ \A i \in 1..k : c.order[i] = old[i]
  BY <1>5, <1>6
<1>8. \A x \in DOMAIN map \ {id} :
         /\ x \in Ids /\ last[x] \in 1..n
         /\ puts[last[x]].id = x /\ puts[last[x]].suite = map[x].suite
         /\ puts[last[x]].at = map[x].created_at
         /\ \A i \in last[x] + 1..n : puts[i].id # x
  <2>1. /\ DOMAIN Without(map, {id}) = DOMAIN map \ {id}
        /\ \A x \in DOMAIN map \ {id} : Without(map, {id})[x] = map[x]
    BY DEF Without
  <2>2. QED
    BY <1>2, <2>1 DEF Holds, Latest
<1> HIDE DEF n, k
<1>9. Listed(c.map, c.order, last2)
  <2>1. \A i \in 1..k : last2[old[i]] = last[old[i]] /\ last[old[i]] \in 1..n
    BY <1>4, <1>6, <1>8
  <2>2. \A i \in 1..k + 1 : i \in 1..k \/ i = k + 1
    BY <1>6
  <2>3. \A i, j \in 1..k + 1 : i < j => i \in 1..k
    BY <1>6
  <2>4. \A i, j \in 1..k + 1 : i < j => last2[c.order[i]] < last2[c.order[j]]
    <3> SUFFICES ASSUME NEW i \in 1..k + 1, NEW j \in 1..k + 1, i < j
                 PROVE  last2[c.order[i]] < last2[c.order[j]]
      OBVIOUS
    <3>1. i \in 1..k /\ last2[c.order[i]] = last[old[i]] /\ last[old[i]] \in 1..n
      BY <1>7, <2>1, <2>3
    <3>2. CASE j = k + 1
      BY <1>1, <1>4, <1>7, <3>1, <3>2
    <3>3. CASE j \in 1..k
      <4>1. last2[c.order[j]] = last[old[j]]
        BY <1>7, <2>1, <3>3
      <4>2. QED
        BY <1>6, <3>1, <3>3, <4>1
    <3>4. QED
      BY <2>2, <3>2, <3>3
  <2>5. \A i \in 1..k + 1 : c.order[i] \in DOMAIN c.map
    BY <1>5, <1>6, <1>7, <2>2
  <2>6. \A x \in DOMAIN c.map : \E i \in 1..k + 1 : c.order[i] = x
    <3> TAKE x \in DOMAIN c.map
    <3>1. CASE x = id
      <4>1. k + 1 \in 1..k + 1
        BY <1>6
      <4>2. QED
        BY <1>7, <3>1, <4>1
    <3>2. CASE x # id
      <4>1. PICK i \in 1..k : old[i] = x
        BY <1>5, <1>6, <3>2
      <4>2. i \in 1..k + 1
        BY <1>6
      <4>3. QED
        BY <1>7, <4>1, <4>2
    <3>3. QED
      BY <3>1, <3>2
  <2>7. QED
    BY <1>7, <2>4, <2>5, <2>6 DEF Listed
<1>10. Latest(c.map, last2)'
  <2> SUFFICES ASSUME NEW x \in DOMAIN c.map
               PROVE  /\ x \in Ids /\ last2[x] \in 1..n + 1
                      /\ puts'[last2[x]].id = x
                      /\ puts'[last2[x]].suite = c.map[x].suite
                      /\ puts'[last2[x]].at = c.map[x].created_at
                      /\ \A i \in last2[x] + 1..n + 1 : puts'[i].id # x
    BY <1>1 DEF Latest
  <2>1. CASE x = id
    <3>1. n + 1 \in 1..n + 1 /\ \A i \in (n + 1) + 1..n + 1 : FALSE
      BY <1>1
    <3>2. QED
      BY <1>1, <1>4, <1>5, <2>1, <3>1
  <2>2. CASE x # id
    <3>1. x \in DOMAIN map \ {id} /\ last2[x] = last[x] /\ c.map[x] = map[x]
      BY <1>4, <1>5, <1>8, <2>2
    <3>2. last[x] \in 1..n /\ last[x] \in 1..n + 1 /\ puts'[last[x]] = puts[last[x]]
      BY <1>1, <1>8, <3>1
    <3>3. \A i \in last[x] + 1..n + 1 : puts'[i].id # x
      <4> TAKE i \in last[x] + 1..n + 1
      <4>1. i \in last[x] + 1..n \/ i = n + 1
        BY <1>1, <3>2
      <4>2. i \in last[x] + 1..n => i \in 1..n
        BY <1>1, <3>2
      <4>3. QED
        BY <1>1, <1>8, <2>2, <3>1, <4>1, <4>2
    <3>4. QED
      <4>1. /\ x \in Ids /\ puts[last[x]].id = x
            /\ puts[last[x]].suite = map[x].suite
            /\ puts[last[x]].at = map[x].created_at
        BY <1>8, <3>1
      <4>2. QED
        BY <3>1, <3>2, <3>3, <4>1
  <2>3. QED
    BY <2>1, <2>2
<1>11. QED
  BY <1>4, <1>9, <1>10 DEF Holds, Listed

(* Those that were put after the oldest fill the rest of the cache. *)
LEMMA OldestCount ==
    ASSUME NEW map, NEW order, NEW last, Holds(map, order, last), order # << >>,
           puts \in Seq(Puts)
    PROVE  /\ Cardinality(DOMAIN map) \in Nat /\ last[Head(order)] \in Nat
           /\ Cardinality(DOMAIN map) <= (Len(puts) + 1) - last[Head(order)]
<1> DEFINE h == Head(order)
           n == Len(puts)
           D == DOMAIN map \ {h}
           T == last[h] + 1..n
           f == [x \in D |-> last[x]]
<1>1. h \in DOMAIN map /\ \A x \in D : last[h] < last[x]
  BY OldestHolds
<1>2. n \in Nat
  OBVIOUS
<1> HIDE DEF h, n
<1>3. \A x \in DOMAIN map : last[x] \in 1..n /\ puts[last[x]].id = x
  BY DEF Holds, Latest, n
<1>4. f \in [D -> T]
  <2>1. \A x \in D : last[x] \in T
    BY <1>1, <1>2, <1>3
  <2>2. QED
    BY <2>1
<1>5. f \in Injection(D, T)
  <2>1. \A x, y \in D : f[x] = f[y] => x = y
    BY <1>3
  <2>2. QED
    BY <1>4, <2>1 DEF Injection, IsInjective
<1>6. last[h] \in 1..n
  BY <1>1, <1>3
<1>7. IsFiniteSet(T) /\ Cardinality(T) = n - last[h]
  <2>1. /\ IsFiniteSet(T)
        /\ Cardinality(T) = IF last[h] + 1 > n THEN 0 ELSE n - (last[h] + 1) + 1
    <3>1. last[h] + 1 \in Int /\ n \in Int
      BY <1>2, <1>6
    <3>2. QED
      BY <3>1, FS_Interval
  <2>2. QED
    BY <1>2, <1>6, <2>1
<1> HIDE DEF T, f
<1>8. IsFiniteSet(D) /\ Cardinality(D) <= n - last[h]
  BY <1>5, <1>7, FS_Injection
<1>9. Cardinality(D) \in Nat
  BY <1>8, FS_CardinalityType
<1>10. DOMAIN map = D \cup {h} /\ h \notin D
  BY <1>1
<1> HIDE DEF D
<1>11. Cardinality(DOMAIN map) = Cardinality(D) + 1
  BY <1>8, <1>10, FS_AddElement
<1>12. QED
  BY <1>2, <1>6, <1>8, <1>9, <1>11 DEF h, n

(* A put keeps the map and the Vec together, and what it drops is old.     *)
LEMMA PutStep ==
    ASSUME SessionsTypeOK, NEW last \in [Ids -> Nat],
           Holds(sessions, insertion_order, last),
           NEW id \in Ids, NEW e \in Puts, e.id = id, puts' = Append(puts, e),
           NEW session, session.suite = e.suite, session.created_at = e.at,
           put(id, session)
    PROVE  /\ Cached'
           /\ \A x \in DOMAIN sessions \ DOMAIN sessions' :
                 \/ is_expired(sessions[x])
                 \/ Len(puts') - last[x] >= MaxEntries
<1> DEFINE old == {x \in DOMAIN sessions : is_expired(sessions[x])}
<1>1. PICK m1, o1 : /\ m1 = Without(sessions, old)
                    /\ o1 = Retain(insertion_order, old)
  OBVIOUS
<1>2. evict_expired(Cache(sessions, insertion_order)) = Cache(m1, o1)
  BY <1>1 DEF evict_expired, Cache
<1>3. Holds(m1, o1, last) /\ DOMAIN m1 = DOMAIN sessions \ old
  BY <1>1, RetainHolds DEF Without
<1>4. PICK m2, o2 :
         /\ EvictOldest(Cache(m1, o1)) = Cache(m2, o2)
         /\ \/ m2 = m1 /\ o2 = o1
            \/ /\ Cardinality(DOMAIN m1) >= MaxEntries /\ o1 # << >>
               /\ m2 = Without(m1, {Head(o1)}) /\ o2 = Tail(o1)
  BY DEF EvictOldest, Cache
<1>5. Holds(m2, o2, last)
  BY <1>3, <1>4, OldestHolds
<1>6. PICK c : c = Inserted(Cache(m2, o2), id, session)
  OBVIOUS
<1>7. sessions' = c.map /\ insertion_order' = c.order
  BY <1>2, <1>4, <1>6 DEF put, Becomes
<1>8. puts \in Seq(Puts)
  BY DEF SessionsTypeOK
<1>9. PICK last2 \in [Ids -> Nat] : Holds(c.map, c.order, last2)'
  BY <1>5, <1>6, <1>8, InsertHolds
<1>10. Cached'
  <2>1. Listed(sessions, insertion_order, last2)'
    BY <1>7, <1>9 DEF Holds, Listed
  <2>2. Latest(sessions, last2)'
    BY <1>7, <1>9 DEF Holds, Latest
  <2>3. Holds(sessions, insertion_order, last2)'
    BY <2>1, <2>2 DEF Holds
  <2>4. QED
    BY <2>3 DEF Cached
<1>11. ASSUME NEW x \in DOMAIN sessions \ DOMAIN sessions', ~is_expired(sessions[x])
       PROVE  Len(puts') - last[x] >= MaxEntries
  <2>1. x \in DOMAIN m1
    BY <1>3, <1>11
  <2>2. DOMAIN m2 \subseteq DOMAIN c.map
    BY <1>6 DEF Inserted, Cache
  <2>3. x \notin DOMAIN m2
    BY <1>7, <1>11, <2>2
  <2>4. /\ Cardinality(DOMAIN m1) >= MaxEntries /\ o1 # << >>
        /\ x = Head(o1)
    BY <1>4, <2>1, <2>3 DEF Without
  <2>5. /\ Cardinality(DOMAIN m1) \in Nat /\ last[x] \in Nat
        /\ Cardinality(DOMAIN m1) <= (Len(puts) + 1) - last[x]
    BY <1>3, <1>8, <2>4, OldestCount
  <2>6. Len(puts') = Len(puts) + 1 /\ Len(puts) \in Nat
    BY <1>8
  <2>7. QED
    BY <2>4, <2>5, <2>6, TlcpSessionsConstants
<1>12. QED
  BY <1>10, <1>11

(* get and remove take ids out. *)
LEMMA DropStep ==
    ASSUME Cached, NEW ids, puts' = puts,
           sessions' = Without(sessions, ids),
           insertion_order' = Retain(insertion_order, ids)
    PROVE  Cached'
<1>1. PICK last \in [Ids -> Nat] : Holds(sessions, insertion_order, last)
  BY DEF Cached
<1>2. Holds(Without(sessions, ids), Retain(insertion_order, ids), last)
  BY <1>1, RetainHolds
<1>3. Listed(sessions', insertion_order', last) /\ Latest(sessions', last)
  BY <1>2 DEF Holds
<1>4. Holds(sessions, insertion_order, last)'
  BY <1>3 DEF Holds, Listed, Latest
<1>5. QED
  BY <1>4 DEF Cached

LEMMA KeepStep ==
    ASSUME Cached, UNCHANGED <<sessions, insertion_order, puts>>
    PROVE  Cached'
<1>1. PICK last \in [Ids -> Nat] : Holds(sessions, insertion_order, last)
  BY DEF Cached
<1>2. Holds(sessions, insertion_order, last)'
  BY <1>1 DEF Holds, Listed, Latest
<1>3. QED
  BY <1>2 DEF Cached

-----------------------------------------------------------------------------
(* The connections. *)

LEMMA PutType ==
    ASSUME SessionsTypeOK, NEW i \in 1..Len(puts)
    PROVE  puts[i] \in Puts /\ puts[i].id \in Ids /\ puts[i].suite \in Suites
           /\ puts[i].at \in Nat
<1>1. puts[i] \in Puts
  BY DEF SessionsTypeOK
<1>2. QED
  BY <1>1 DEF Puts

LEMMA ConnType ==
    ASSUME SessionsTypeOK, NEW t \in Connections
    PROVE  /\ conn[t] \in Conns /\ conn[t].session_id \in Ids \cup {"none"}
           /\ conn[t].suite \in Suites /\ conn[t].at \in Nat
           /\ conn[t].is_resumed \in BOOLEAN
<1>1. conn[t] \in Conns
  BY DEF SessionsTypeOK
<1>2. QED
  BY <1>1 DEF Conns

(* A session that is there was put, under its id and with its suite. *)
LEMMA StoredPut ==
    ASSUME SessionsTypeOK, Past, Cached, NEW id \in DOMAIN sessions
    PROVE  /\ sessions[id].suite \in Suites
           /\ \E i \in 1..Len(puts) :
                 /\ puts[i].id = id /\ puts[i].suite = sessions[id].suite
                 /\ puts[i].at = sessions[id].created_at
                 /\ puts[i].at \in Nat /\ puts[i].at <= now
<1>1. PICK last : Latest(sessions, last)
  BY DEF Cached, Holds
<1>2. /\ last[id] \in 1..Len(puts) /\ puts[last[id]].id = id
      /\ puts[last[id]].suite = sessions[id].suite
      /\ puts[last[id]].at = sessions[id].created_at
  BY <1>1 DEF Latest
<1>3. QED
  BY <1>2, PutType DEF Past

(* What ResumedSound says of one connection. *)
Sound(c) ==
    c.is_resumed =>
        /\ c.suite \in ToSet(c.offered)
        /\ \E i \in 1..Len(puts) :
              /\ puts[i].id = c.session_id /\ puts[i].suite = c.suite
              /\ puts[i].at <= c.at /\ c.at - puts[i].at <= Lifetime

LEMMA HelloStep ==
    ASSUME SessionsInv, NEW t \in Connections, NEW id \in Ids \cup {"none"},
           NEW offered \in Offers, process_client_hello(t, id, offered)
    PROVE  SessionsInv'
<1>1. UNCHANGED <<now, puts>> /\ SessionsTypeOK /\ Past /\ Cached /\ now \in Nat
  BY DEF process_client_hello, SessionsInv, SessionsTypeOK
<1>2. PICK c : /\ conn' = [conn EXCEPT ![t] = c]
               /\ \/ /\ id # "none" /\ Resumes(id, offered)
                     /\ c = [stage |-> "hello", session_id |-> id,
                             suite |-> sessions[id].suite, is_resumed |-> TRUE,
                             at |-> now, offered |-> offered]
                  \/ c = [stage |-> "hello", session_id |-> t,
                          suite |-> Head(offered), is_resumed |-> FALSE,
                          at |-> now, offered |-> offered]
  BY DEF process_client_hello
<1>3. c \in Conns /\ c.session_id \in Ids /\ Sound(c)
  <2>1. CASE c = [stage |-> "hello", session_id |-> t,
                  suite |-> Head(offered), is_resumed |-> FALSE,
                  at |-> now, offered |-> offered]
    BY <1>1, <2>1 DEF Conns, Suites, Ids, Sound
  <2>2. CASE /\ id # "none" /\ Resumes(id, offered)
             /\ c = [stage |-> "hello", session_id |-> id,
                     suite |-> sessions[id].suite, is_resumed |-> TRUE,
                     at |-> now, offered |-> offered]
    <3>1. /\ id \in Ids /\ id \in DOMAIN sessions
          /\ ~(now - sessions[id].created_at > Lifetime)
          /\ sessions[id].suite \in ToSet(offered)
      BY <2>2 DEF Resumes, Found, is_expired
    <3>2. sessions[id].suite \in Suites
      BY <1>1, <3>1, StoredPut
    <3>3. PICK i \in 1..Len(puts) :
             /\ puts[i].id = id /\ puts[i].suite = sessions[id].suite
             /\ puts[i].at = sessions[id].created_at
             /\ puts[i].at \in Nat /\ puts[i].at <= now
      BY <1>1, <3>1, StoredPut
    <3>4. now - puts[i].at <= Lifetime
      BY <1>1, <3>1, <3>3, TlcpSessionsConstants
    <3>5. c \in Conns /\ c.session_id = id /\ c.suite = sessions[id].suite
          /\ c.at = now /\ c.offered = offered
      BY <1>1, <2>2, <3>1, <3>2 DEF Conns
    <3>6. QED
      BY <3>1, <3>3, <3>4, <3>5 DEF Sound
  <2>3. QED
    BY <1>2, <2>1, <2>2
<1>4. SessionsTypeOK' /\ Named' /\ Past'
  BY <1>1, <1>2, <1>3 DEF SessionsTypeOK, Named, Past, SessionsInv
<1>5. Cached'
  <2>1. CASE UNCHANGED <<sessions, insertion_order>>
    BY <1>1, <2>1, KeepStep
  <2>2. CASE /\ sessions' = Without(sessions, {id})
             /\ insertion_order' = Retain(insertion_order, {id})
    BY <1>1, <2>2, DropStep
  <2>3. QED
    BY <2>1, <2>2 DEF process_client_hello, get, Becomes, Cache
<1>6. ResumedSound'
  <2>1. \A u \in Connections : Sound(conn'[u])
    BY <1>1, <1>2, <1>3 DEF SessionsInv, ResumedSound, Sound, SessionsTypeOK
  <2>2. QED
    BY <1>1, <2>1 DEF ResumedSound, Sound
<1>7. QED
  BY <1>4, <1>5, <1>6 DEF SessionsInv

(* The number of the last put of a session that is there. *)
LEMMA LastPut ==
    ASSUME NEW id \in DOMAIN sessions, NEW last, Latest(sessions, last),
           puts \in Seq(Puts)
    PROVE  Max({i \in 1..Len(puts) : puts[i].id = id}) = last[id]
<1> DEFINE S == {i \in 1..Len(puts) : puts[i].id = id}
<1>1. /\ last[id] \in 1..Len(puts) /\ puts[last[id]].id = id
      /\ \A i \in last[id] + 1..Len(puts) : puts[i].id # id
  BY DEF Latest
<1>2. Len(puts) \in Nat
  OBVIOUS
<1>3. last[id] \in S /\ \A i \in S : last[id] >= i /\ i \in Int
  BY <1>1, <1>2
<1> HIDE DEF S
<1>4. \A x \in S : (\A y \in S : x >= y) => x = last[id]
  <2> SUFFICES ASSUME NEW x \in S, \A y \in S : x >= y
               PROVE  x = last[id]
    OBVIOUS
  <2>1. x >= last[id] /\ last[id] >= x /\ x \in Int /\ last[id] \in Int
    BY <1>3
  <2>2. QED
    BY <2>1
<1>5. Max(S) = last[id]
  BY <1>3, <1>4 DEF Max
<1>6. QED
  BY <1>5 DEF S

LEMMA StoreStep ==
    ASSUME SessionsInv, NEW t \in Connections, StoreSession(t)
    PROVE  SessionsInv' /\ LosesOnlyOldest
<1> DEFINE c == conn[t]
           e == [id |-> c.session_id, suite |-> c.suite, at |-> now]
           session == [suite |-> c.suite, created_at |-> now]
<1>1. /\ SessionsTypeOK /\ now \in Nat /\ now' = now /\ puts \in Seq(Puts)
      /\ c.stage = "hello" /\ c.session_id \in Ids
      /\ c \in Conns /\ c.suite \in Suites
  BY ConnType DEF StoreSession, SessionsInv, SessionsTypeOK, Named
<1>2. e \in Puts /\ e.id = c.session_id /\ e.suite = c.suite /\ e.at = now
  BY <1>1 DEF Puts
<1>3. puts' = Append(puts, e) /\ put(c.session_id, session)
  BY DEF StoreSession
<1>4. session.suite = e.suite /\ session.created_at = e.at
  OBVIOUS
<1>5. PICK last \in [Ids -> Nat] : Holds(sessions, insertion_order, last)
  BY DEF SessionsInv, Cached
<1> HIDE DEF c, e, session
<1>6. /\ Cached'
      /\ \A x \in DOMAIN sessions \ DOMAIN sessions' :
            is_expired(sessions[x]) \/ Len(puts') - last[x] >= MaxEntries
  BY <1>1, <1>2, <1>3, <1>4, <1>5, PutStep
<1>7. LosesOnlyOldest
  BY <1>1, <1>5, <1>6, LastPut DEF LosesOnlyOldest, Holds
<1>8. /\ puts' \in Seq(Puts) /\ Len(puts') = Len(puts) + 1 /\ Len(puts) \in Nat
      /\ \A i \in 1..Len(puts) : puts'[i] = puts[i]
      /\ puts'[Len(puts) + 1] = e
  BY <1>1, <1>2, <1>3
<1>9. PICK d : d = [c EXCEPT !.stage = "established"]
  OBVIOUS
<1>10. conn' = [conn EXCEPT ![t] = d]
  BY <1>9 DEF StoreSession, c
<1>11. /\ d \in Conns /\ d.stage = "established" /\ d.is_resumed = c.is_resumed
       /\ d.suite = c.suite /\ d.offered = c.offered
       /\ d.session_id = c.session_id /\ d.at = c.at
  BY <1>1, <1>9 DEF Conns
<1>12. SessionsTypeOK'
  BY <1>1, <1>8, <1>10, <1>11 DEF SessionsTypeOK
<1>13. Named'
  BY <1>1, <1>10, <1>11 DEF Named, SessionsInv, SessionsTypeOK
<1>14. Past'
  <2>1. \A i \in 1..Len(puts) + 1 : i \in 1..Len(puts) \/ i = Len(puts) + 1
    BY <1>8
  <2>2. QED
    BY <1>1, <1>2, <1>8, <2>1 DEF Past, SessionsInv
<1>15. ResumedSound'
  <2>1. \A u \in Connections : Sound(conn[u])
    BY DEF SessionsInv, ResumedSound, Sound
  <2>2. \A u \in Connections : Sound(conn'[u])
    BY <1>1, <1>10, <1>11, <2>1 DEF Sound, SessionsTypeOK, c
  <2>3. \A i \in 1..Len(puts) : i \in 1..Len(puts') /\ puts'[i] = puts[i]
    BY <1>8
  <2>4. QED
    BY <2>2, <2>3 DEF ResumedSound, Sound
<1>16. QED
  BY <1>6, <1>7, <1>12, <1>13, <1>14, <1>15 DEF SessionsInv

(* A step that leaves what was put and changes the stage of a connection   *)
(* at most.                                                                *)
LEMMA QuietStep ==
    ASSUME SessionsInv, puts' = puts, now' \in Nat, now <= now', Cached',
           conn' \in [Connections -> Conns],
           \A t \in Connections :
              /\ conn'[t].stage \in {conn[t].stage, "failed"}
              /\ conn'[t].is_resumed = conn[t].is_resumed
              /\ conn'[t].suite = conn[t].suite
              /\ conn'[t].offered = conn[t].offered
              /\ conn'[t].session_id = conn[t].session_id
              /\ conn'[t].at = conn[t].at
    PROVE  SessionsInv'
<1>1. SessionsTypeOK'
  BY DEF SessionsInv, SessionsTypeOK
<1>2. Named'
  BY DEF SessionsInv, Named
<1>3. Past'
  <2>1. \A i \in 1..Len(puts) : puts[i].at \in Nat /\ puts[i].at <= now
    BY PutType DEF SessionsInv, Past
  <2>2. now \in Nat
    BY DEF SessionsInv, SessionsTypeOK
  <2>3. QED
    BY <2>1, <2>2 DEF Past
<1>4. ResumedSound'
  BY DEF SessionsInv, ResumedSound
<1>5. QED
  BY <1>1, <1>2, <1>3, <1>4 DEF SessionsInv

LEMMA FailsStep ==
    ASSUME SessionsInv, NEW t \in Connections, Fails(t)
    PROVE  SessionsInv'
<1>1. PICK d : d = [conn[t] EXCEPT !.stage = "failed"]
  OBVIOUS
<1>2. conn' = [conn EXCEPT ![t] = d] /\ conn \in [Connections -> Conns]
      /\ conn[t] \in Conns
  BY <1>1 DEF Fails, SessionsInv, SessionsTypeOK
<1>3. /\ d \in Conns /\ d.stage = "failed" /\ d.is_resumed = conn[t].is_resumed
      /\ d.suite = conn[t].suite /\ d.offered = conn[t].offered
      /\ d.session_id = conn[t].session_id /\ d.at = conn[t].at
  BY <1>1, <1>2 DEF Conns
<1>4. Cached' /\ now' = now /\ puts' = puts /\ now \in Nat
  BY KeepStep DEF Fails, SessionsInv, SessionsTypeOK
<1>5. now <= now'
  BY <1>4
<1>6. conn' \in [Connections -> Conns]
  BY <1>2, <1>3
<1>7. \A u \in Connections :
         /\ conn'[u].stage \in {conn[u].stage, "failed"}
         /\ conn'[u].is_resumed = conn[u].is_resumed
         /\ conn'[u].suite = conn[u].suite
         /\ conn'[u].offered = conn[u].offered
         /\ conn'[u].session_id = conn[u].session_id
         /\ conn'[u].at = conn[u].at
  BY <1>2, <1>3
<1>8. QED
  BY <1>4, <1>5, <1>6, <1>7, QuietStep

LEMMA SessionsInitInv ==
    ASSUME SessionsInit
    PROVE  SessionsInv
<1>1. Conn \in Conns /\ Conn.stage = "idle" /\ ~Conn.is_resumed
  BY DEF Conn, Conns, Suites
<1>2. puts = << >> /\ puts \in Seq(Puts) /\ Len(puts) = 0 /\ 1..Len(puts) = {}
  BY DEF SessionsInit
<1>3. \A t \in Connections : conn[t] = Conn
  BY DEF SessionsInit
<1>4. SessionsTypeOK
  BY <1>1, <1>2 DEF SessionsInit, SessionsTypeOK
<1>5. Named /\ ResumedSound
  BY <1>1, <1>3 DEF Named, ResumedSound
<1>6. Past
  BY <1>2 DEF Past
<1>7. Cached
  <2>1. [id \in Ids |-> 0] \in [Ids -> Nat]
    OBVIOUS
  <2>2. DOMAIN sessions = {} /\ insertion_order = << >>
        /\ insertion_order \in Seq(Ids) /\ 1..Len(insertion_order) = {}
    BY DEF SessionsInit
  <2>3. \A last : Listed(sessions, insertion_order, last) /\ Latest(sessions, last)
    BY <2>2 DEF Listed, Latest
  <2>4. QED
    BY <2>1, <2>3 DEF Cached, Holds
<1>8. QED
  BY <1>4, <1>5, <1>6, <1>7 DEF SessionsInv

(* Every step, and what it may lose. *)
LEMMA NextStep ==
    ASSUME SessionsInv, [SessionsNext]_sessions_vars
    PROVE  SessionsInv' /\ [LosesOnlyOldest]_sessions_vars
<1>1. SessionsTypeOK /\ Cached /\ now \in Nat
  BY DEF SessionsInv, SessionsTypeOK
<1>2. ASSUME UNCHANGED <<conn, puts>>, Cached', now' \in Nat, now <= now'
      PROVE  SessionsInv'
  <2>1. conn' \in [Connections -> Conns]
    BY <1>1, <1>2 DEF SessionsTypeOK
  <2>2. QED
    BY <1>2, <2>1, QuietStep
<1>3. CASE Tick
  <2>1. /\ now' = now + 1 /\ sessions' = sessions
        /\ UNCHANGED <<sessions, insertion_order, conn, puts>>
    BY <1>3 DEF Tick
  <2>2. Cached' /\ now' \in Nat /\ now <= now'
    BY <1>1, <2>1, KeepStep
  <2>3. QED
    BY <1>2, <2>1, <2>2 DEF LosesOnlyOldest
<1>4. ASSUME NEW id \in Ids, remove(id)
      PROVE  SessionsInv' /\ LosesOnlyOldest
  <2>1. /\ sessions' = Without(sessions, {id})
        /\ insertion_order' = Retain(insertion_order, {id})
        /\ UNCHANGED <<now, conn, puts>>
    BY <1>4 DEF remove, Becomes, Cache
  <2>2. Cached' /\ now' \in Nat /\ now <= now'
    BY <1>1, <2>1, DropStep
  <2>3. DOMAIN sessions \ DOMAIN sessions' \subseteq {id}
    BY <2>1 DEF Without
  <2>4. QED
    BY <1>2, <1>4, <2>1, <2>2, <2>3 DEF LosesOnlyOldest
<1>5. ASSUME NEW t \in Connections, NEW id \in Ids \cup {"none"},
             NEW offered \in Offers, process_client_hello(t, id, offered)
      PROVE  SessionsInv' /\ LosesOnlyOldest
  <2>1. \/ sessions' = sessions
        \/ sessions' = Without(sessions, {id}) /\ is_expired(sessions[id])
    BY <1>5 DEF process_client_hello, get, Becomes, Cache
  <2>2. LosesOnlyOldest
    BY <2>1 DEF LosesOnlyOldest, Without
  <2>3. QED
    BY <1>5, <2>2, HelloStep
<1>6. ASSUME NEW t \in Connections, StoreSession(t)
      PROVE  SessionsInv' /\ LosesOnlyOldest
  BY <1>6, StoreStep
<1>7. ASSUME NEW t \in Connections, Fails(t)
      PROVE  SessionsInv' /\ LosesOnlyOldest
  BY <1>7, FailsStep DEF Fails, LosesOnlyOldest
<1>8. CASE UNCHANGED sessions_vars
  <2>1. UNCHANGED <<now, sessions, insertion_order, conn, puts>>
    BY <1>8 DEF sessions_vars
  <2>2. Cached' /\ now' \in Nat /\ now <= now'
    BY <1>1, <2>1, KeepStep
  <2>3. QED
    BY <1>2, <1>8, <2>1, <2>2
<1>9. QED
  BY <1>3, <1>4, <1>5, <1>6, <1>7, <1>8 DEF SessionsNext

(* The cache holds exactly what was put last under each of its keys, and   *)
(* the Vec lists the keys in that order, whatever the connections and the  *)
(* application do.                                                         *)
THEOREM SessionsSafety == SessionsSpec => []SessionsInv
<1>1. SessionsInit => SessionsInv
  BY SessionsInitInv
<1>2. SessionsInv /\ [SessionsNext]_sessions_vars => SessionsInv'
  BY NextStep
<1>3. QED
  BY <1>1, <1>2, PTL DEF SessionsSpec

(* process_client_hello resumes only a session that a completed handshake  *)
(* stored, that has not expired, and whose suite the client offers.        *)
THEOREM ResumptionSound == SessionsSpec => []ResumedSound
<1>1. SessionsInv => ResumedSound
  BY DEF SessionsInv
<1>2. QED
  BY <1>1, SessionsSafety, PTL

(* put drops a session that has not expired only when max_entries later    *)
(* puts have filled the cache: the eviction is first in, first out.        *)
THEOREM EvictionIsFifo == SessionsSpec => RetainedWhileRoom
<1>1. SessionsInv /\ [SessionsNext]_sessions_vars => [LosesOnlyOldest]_sessions_vars
  BY NextStep
<1>2. QED
  BY <1>1, SessionsSafety, PTL DEF SessionsSpec, RetainedWhileRoom
=============================================================================
