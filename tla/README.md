# TLA+ models of the GM toolkit

This directory holds TLA+ modules, TLC configurations and TLAPS proofs for the
GM toolkit: TLS and TLCP with the Chinese commercial algorithms (SM2, SM3,
SM4, SM9), a certificate authority, an HTTP client and their supporting
crates.  The definitions are translated from the Rust source; `PROJECT.json`
gives the lines each of them stands for.

## 1. Inventory

| component | state | operations | how it meets the others |
|---|---|---|---|
| GM/TLS record layer (`gm-tls/src/record_layer.rs`, `key_update.rs`) | per direction: key generation, sequence number, cache of used nonces; pending KeyUpdate; bytes of a record not yet read | `write_application_data`, `read_application_data`, `send_key_update`, `close`, `recv_close_notify`, `poll_read`, `poll_write`, `poll_shutdown` | built by the handshake from the traffic secrets; two streams meet over a byte transport |
| GM/TLS handshake (`gm.rs`, `handshake.rs`, `cert_verify.rs`) | stage of each side, transcript | `connect_gm_rust`, `accept_gm_rust`, each under `with_handshake_timeout` | calls the ticket code and X.509 verification, returns a stream |
| Session tickets and replay stores (`session_ticket.rs`, `session_store.rs`) | ordered key set; in-memory cache, or a table in SQLite, PostgreSQL, Redis | `encrypt_session_ticket`, `decrypt_session_ticket` (check, validate, mark), `add_key`, `remove_key`, `prune_expired` | called by `connect_gm_rust`, whose next step depends on the class of the error |
| TLCP handshake (`gm-tlcp/src/tlcp/mod.rs`, `handshake/`, `messages/`) | configuration, stage, transcript and secrets of each side | `TlcpConnector::connect`, `connect_with_certs`, `TlcpAcceptor::accept`, `accept_with_certs` | verifies certificates with the crypto crate, looks sessions up and stores them in the cache, returns a `TlcpStream` |
| TLCP session cache (`tlcp/session.rs`) | map of sessions, order of insertion | `put`, `get`, `remove` | shared by the connections of an acceptor |
| TLCP record layer (`record.rs`, `TlcpStream`) | sequence numbers, bytes not yet read, close flag | `write_application_data`, `read_application_data`, `close`, `poll_read`, `poll_write`, `poll_shutdown` | carries the last messages of the handshake and the data |
| X.509 (`gm-crypto/src/x509`) | none | path, role, name and CRL verification | used by both handshakes |
| CA service (`gm-ca/src/service.rs`, `db.rs`, `cert.rs`) | the certificate table, an in-memory CRL counter | sign, renew, revoke, get certificate, get CRL | gRPC requests run concurrently, every statement on the database is an await |
| CA rate limiter (`service.rs`) | a token bucket per caller under a mutex | `check` | in front of sign and renew |
| CA process (`main.rs`, `auth.rs`) | key file, process | start-up, signals | owns the service |
| HTTP client and pool (`gm-http-client`) | connections cached per host with their age | `request`, `get_connection`, `return_connection`, `cleanup` | requests are tasks that share the pool; every connection is a GM/TLS stream |
| gRPC integration (`gm-tls/src/grpc.rs`) | a semaphore, a stream of accepted connections | accept, handshake | runs server handshakes, one after the other |
| SM9 (`gm-sm9-rs`) | versions of master keys | key exchange, rotation | the IBC and IBSDH suites of TLCP |
| SM2, SM3, SM4, SM9 arithmetic, DER, metrics, audit log | little or none | pure functions, counters | used everywhere |

**What is hard here.**

* *Interleaving.*  KeyUpdates of the two directions cross on the wire;
  connections check one ticket before either marks it; a CA request is cut at
  every SQL statement; pooled connections are taken, returned, reaped and
  dropped with their request at once; connections look up and store sessions
  in one cache.
* *Failure.*  Transports that take part of a write or give part of a record,
  futures dropped in the middle of a record, statements that fail after they
  took effect, restarts that lose in-memory state, peers that go away, a side
  that finds out late that it cannot go on.
* *Time.*  Ticket lifetimes against the lifetimes of the entries that guard
  them, refills against reaping, idle ages against the clock read before a
  lock, handshake timeouts at any await, session expiry between look-up and
  store.
* *Limits.*  Update threshold, confidentiality limit and sequence overflow;
  nonce cache, ticket cache, session cache, connections per host.
* *Combinations.*  Five key exchanges, two sides with twenty settings each,
  and certificates in any order: what a side checks late, or the other side
  checks for it, decides whether both come to the same end.

**What makes each part correct.**  No nonce is used twice and both ends hold
the same key; delivered bytes are the written ones and all arrive.  A ticket
is accepted once and its first use succeeds.  Nobody completes a handshake
with a peer it could not verify, both ends hash the same messages and agree on
the outcome, configurations that fit succeed, and every handshake ends.  Only
what a completed handshake stored is resumed.  A certificate is accepted on a
path to a configured anchor.  A certificate in a client's hands is in the
table, and a revocation that was confirmed holds.  A caller is limited by its
own requests only.  A connection has one user, a request gets its own answer
and ends.

`PROJECT.json` lists the hazards line by line, with the properties aimed at
each of them.

## 2. Modules

| module | models | instance |
|---|---|---|
| `ReliableChannel` | abstract: bytes in order, end of stream after the last | |
| `RecordLayer` | the GM/TLS record layer, two peers; refines `ReliableChannel` | `MCRecordLayer` |
| `SessionTicket` | ticket keys, tickets, the four stores | `MCSessionTicket` |
| `Handshake` | both sides of the GM/TLS handshake | `MCHandshake` |
| `TlcpConnector`, `TlcpAcceptor` | the configurations of the two sides of TLCP | |
| `Sm9KeyExchange` | the SM9 key exchange, symbolic | |
| `TlcpKeyExchange` | the messages of the five key exchanges, on both sides | |
| `TlcpHandshake` | the TLCP handshake, composed of these and of `CertVerify` | `MCTlcpHandshake` |
| `TlcpRecord` | `TlcpStream`, two peers; refines `ReliableChannel` | `MCTlcpRecord` |
| `TlcpSessions` | the session cache and the connections that share it | `MCTlcpSessions` |
| `CertVerify` | path and CRL verification as operators | |
| `CertChecks` | questions about them | `MCCertChecks` |
| `CaService` | the CA's requests over its table | `MCCaService` |
| `RateLimiter` | the token buckets in front of them | `MCRateLimiter` |
| `HttpPool` | both HTTP clients, the pool, its cleanup | `MCHttpPool` |
| `Vec` | `Vec::retain`, used by the session cache, the pool and the certificate lists | |
| `RecordLayerProofs`, `SessionTicketProofs`, `HandshakeProofs`, `HttpPoolProofs`, `TlcpHandshakeProofs`, `VecProofs` | the theorems about the module each is named after | |
| `TlcpProofs` | the theorems about `TlcpRecord` and `TlcpSessions` | |
| `CertificateProofs` | the theorems about `CaService`, `RateLimiter` and `CertChecks` | |

An action stands for a function of the source, cut at its awaits where other
tasks can run, and keeps the function's name.  Definitions whose names end in
a fault (`find_key_primary`, `SeqTaken_back`, ...) are seeded
faults: plausible mistakes in the definition that follows them, each of which
makes one property fail; no specification uses them.

### RecordLayer

A key is named by the number of rotations of its direction (`write_epoch`,
`read_epoch`); base nonce XOR sequence number is one to one in the number, so
epoch and number identify a nonce, and a record decrypts exactly when both are
what the reader holds.  `log` keeps every record a peer has put on the
transport and `rpos` how far the other side has read it.  A call of
`write_application_data` is its start and up to three records (the pending
answer to a KeyUpdate, the automatic KeyUpdate, the data), a step each, since
the other peer can run in between.  `poll_write` is one call: it takes its
number and builds a new record every time, so with `Backpressure` a retried
call leaves a record that was never sent (a gap) or part of one (`torn`)
behind.  The reader of a torn record takes a length from what is there: it
fails, or waits for bytes that may never come (`Stalled`).  A stream without
traffic secrets (a session resumed from a ticket of an older version) cannot
rotate; `Init` chooses either for each peer.  A user calls `recv_close_notify`
last (`MayRead`).  `sent`, `delivered` and `pending` are history.

### SessionTicket

`decrypt_session_ticket` is three steps: the store is asked
(`is_ticket_replay`), the ticket is validated (`Validate`: key lookup,
decryption, lifetime, client authentication, in the source's order), the
ticket is marked (`mark_ticket_used`).  Between them other calls, the handshake
timeout, `prune_expired` and `Restart` can happen.  A store is a record of
what its constructor fixes (`SqliteSessionStore`, ...): table or memory, the
answer of a failed check, whether the column takes a ticket, whether entries
end by themselves.  A deployment fixes the store, whether `connect_gm_rust`
builds it or the callers share one, the lifetimes of the issuer, and whether
keys rotate and the database fails, at the construction of a store too.  A
handshake timeout of 0 is none, as `Duration::ZERO` is.  Time
counts seconds; the 24 hours of the source are `Day`.  `Decision` is what
`connect_gm_rust` does with the answer.

### Handshake

A message is its type, the transcript a signature in it covers and, for the
hellos, what reads back from their extensions: a field that is not among the
extensions is lost on the wire, which is what happens to the session ticket
(and to the server name, which the model leaves out).  The wire
format has no message type, so a reader takes what comes for what it expects,
and a wrong message fails its length or signature check; the model says so as
`Unexpected` and `Signature`.  `cfg` holds both configurations, what became of
the client's ticket (the outcomes of `SessionTicket!Decision`), the lists of
protocols and the state
of the revocation list.  A certificate may be missing, untrusted, revoked,
revoked without `verify_crl` finding it (`missed`, section 5), without the key
(`wrong_key`), or a client's that is somebody else's (`borrowed`: its key is
never asked for).  `cfg.peer` is the server: `accept_gm_rust`, or one of the
two a client with a ticket has code for and this repository has none of, which
resume the session (`resumes`: an empty key share, an immediate end) or decline
it with a Finished under the ephemeral key (`declines`); these two are external
(`TicketServerHello`).  Either side can time out at any await.  After the
handshake one user writes and the other reads, to see what the handshake left
in the stream.

### TlcpHandshake and what it is made of

`TlcpConnector` and `TlcpAcceptor` hold the builder methods of the two
configurations, so a configuration in `MCTlcpHandshake` is a sequence of the
calls an operator would make.  `TlcpKeyExchange` has one operator per message
and side: the server's ServerKeyExchange, the client's verdict on it, the
ClientKeyExchange with its pre-master secret, and the secret the server makes
of it.  Cryptography is symbolic: a signature is the key, the SM2 identity and
the data, a ciphertext its recipient and content, a pairing
(`Sm9KeyExchange`) its base and exponents, so that two sides come to the same
secret exactly when the same keys and identities went in.

A step of `TlcpHandshake` is one record written, or one record read with what
the task does before its next await.  `out` is what a side has still to write,
so a failure is seen by the other side after what was written before it.  Both
transcripts are sequences of messages.  Timeouts exist where the configuration
has one; `connect_with_certs` runs without.  The last step of the acceptor is
the store into the session cache.

Things of the code that the model keeps and a reader may not expect: the
ServerKeyExchange is verified with the pinned key, not with that of the
certificate; client authentication happens for ECDHE and ECC suites only; the
server picks the first suite it knows, whatever it was configured for; the
IBSDH exchange works only when both sides use the same identity; an acceptor
without certificates returns a stream without any I/O (`Simulation`); the
server's Finished goes out as application data, one record here (through
`poll_write`, section 5); the client loads its signing
key only when Certificate and ClientKeyExchange are out; the client drops the
Boolean answer of the check of an IBC signature, so that signature decides
nothing and the encryption to the identity does.

### TlcpRecord

What `TlcpStream` does not keep between two calls is the subject: `poll_write`
seals a new record whenever it is called again, `poll_read` forgets a header
or part of a body when the transport is pending (`aligned` says whether the
next byte starts a record) and takes a short header for a whole one.  A
dropped `write_application_data` leaves a torn record.  A reader that meets
one, or that has lost its place, fails or waits for the length it read there
(`Lost`).  `down` is the end of a direction of the transport.  A close_notify
is a record of application data with the content `01 00`, 0 in the model:
`poll_read` knows it, `read_application_data` hands it to its user.  Each user
keeps to one of the two APIs, stops reading at the first error, does not write
after asking for the end, and writes neither nothing nor exactly those two
bytes.

### TlcpSessions

The cache is behind one mutex, so `put`, `get` and `remove` are a step each;
the handshakes around them interleave.  `process_client_hello` resumes when
the id is known, not expired and its suite offered; a full handshake follows
all the same, with the suite and the id of the session.

### CertVerify and CertChecks

A certificate has the fields the checks look at; a signature is the key that
made it and the SM2 identity it was made under.  Serial numbers keep their
bytes, since the encodings are what is compared.  Host names are label
sequences.  A BasicConstraints extension may be one that does not parse, which
the check passes over.  `CertVerify` has one operator per function of
`verify.rs` and the order in which each side of TLCP calls them; `CertChecks`
lets a verifier meet a list of certificates in one step.

### CaService and RateLimiter

A request is cut at its statements: `renew_certificate` looks the certificate
up (`RenewLookup`), signs, inserts (`insert_certificate`) and answers
(`HandOut`); `get_crl` reads the rows and only then takes the number
(`generate_crl`).  A statement may fail before or after it took effect. Serial
numbers are drawn, never twice.  `Restart` drops the requests in progress, as
`select!` on a signal does, and the counter.  The profile of a certificate and
its validity, in days and in seconds, are the parts of a request the checks
look at.  A CRL whose signing fails has used up its number.
`RateLimiter!check` is one step, since it runs under a mutex: reaping, refill
of the whole bucket, and consumption.

### HttpPool

A request is a task with a stage per await.  A chunk is what one read returns;
a response with a body has one unit of it, laid out by the server (external)
in one of `Framings`; what follows the header in its chunk is dropped (`cut`).
A response may come without a Content-Length that parses (`chunked`): its body
stays unread, and the connection is `stray` from there on, as is whoever gets it
from the pool.  A request with a body sends it from the direct client only.
`return_connection`, `get_connection` and `cleanup` run
under the pool's lock and are one step each, but `cleanup` reads the clock
before it takes the lock (`CleanupTick`, `lag`).  Ages saturate at twice the
idle time.  A task can be dropped at any await.

## 3. Runs

| run | bounds | what it shows |
|---|---|---|
| `RecordApi` | threshold 1, limit 2, numbers up to 3, three records one way and one the other; nonce cache of 1 (2 117 402 states) | `NonceUnique`, `NonceGuardSilent`, `NonceCacheBounded`, `KeysInSync`, `PendingUpdateFirst`; the two streams refine `ReliableChannel` |
| `StreamApi` | records of two bytes, reads of one or two, three records, partial writes; fair (50 820) | `ReadsSucceed`, refinement, `EventuallyDelivered` |
| `TicketStores` | two callers, up to three tickets and a forged one, two keys, five seconds with a `Day` of three, six deployments (1 605 332) | `SingleUse`, `FirstUseSucceeds`, `RotationKeepsTickets` |
| `Handshakes` | 2200 pairs of configurations; fair (148 686) | `PeersVerified`, `TranscriptsAgree`, `GoodHandshakeSucceeds`, `HandshakeEnds` |
| `TlcpHandshakes` | 26 connectors, 20 acceptors, six offers of suites; fair (90 194) | `OutcomesAgree`, `PeersVerified`, `CompatibleSucceeds`, `HandshakeEnds` |
| `TlcpStreams` | four records, lengths at and above the limit of 2, reads of one or two bytes, numbers up to 4; fair (18 476) | `NonceUnique`, `ReadsSucceed`, refinement, `EventuallyDelivered` |
| `TlcpSessions` | four connections, cache of two, two suites, lifetime 1 of 2 (527 983) | `ResumedSound`, `RetainedWhileRoom` |
| `CertPaths` | eight chains, every certificate twisted in thirteen ways, seven sets of anchors, ten pools of CRLs (79 854) | `AcceptedIsTrusted`, `AnchorOrderIrrelevant`, `RootOptional`, `StrictCovered`, `NoPeerPanic` |
| `CaRequests` | two requests at once, two serial numbers, two CRL numbers a process, two issuer names, four validities, faults, restarts (1 686 853) | `IssuedIsRecorded`, `RevocationHolds`, `CrlSupersedes` |
| `RateLimits` | two callers, bucket of two, period two, TTL three, six instants (805 298) | `BurstBounded`, `NoStarvation` |
| `PoolRequests` | two requests in five workloads, limits one and two, all layouts of a response; fair (323 864) | `ExclusiveUse`, `PoolBounded`, `OwnResponse`, `RequestsEnd` |
| `RevokedSerials` | the serial numbers this CA draws, three bytes here, and a CRL that lists one | violates `RevokedRejected` |

**Why the bounds are enough.**  Threshold, limit and overflow are one apart,
so three records cross all of them; a nonce cache of one with eviction batches
of one evicts at the second record.  What one peer sends and what it is asked
for are symmetric, so one record of the second peer (an answer, or an update
of its own) gives every crossing of two KeyUpdates.  The stream functions of
the two directions do not meet, so in `StreamApi` and `TlcpStreams` one side
writes.  Two callers are enough
for a check-then-mark race, as a third would race with either in the same way;
five seconds let a ticket and its entry run past a `Day`.  In `TicketStores`
the Redis deployment issues tickets that live shorter than a `Day` by more
than the handshake timeout (section 5 says what happens at the boundary), the
SQLite one also tickets whose hint is longer than a `Day`; three tickets
overrun the memory store of two.  The twelve TLCP suites differ in their key
exchange, and every exchange is offered alone and among others; every setting
of a configuration is missing or wrong in one of the connectors or acceptors,
and every pair is tried, so a mistake of one side meets one of the other.
A chain of a leaf, two intermediates and a root has every kind of link, and
the maximal depth of four is crossed.  A cache of two with four connections
evicts twice.  Two CA requests
give every pair of statements in either order, and two serial numbers a
certificate and its renewal.  In the rate limiter six instants hold two
periods and a TTL.  Two tasks with a limit of one fill the pool, with a limit
of two they order it.  Symmetry is used over workers, tickets, connections,
callers and serial numbers, which
the specifications treat alike, and in no run that checks liveness.

Deadlock is not checked: each bounded specification stops when its records,
tickets, serial numbers or requests are used up, as the program may be idle.

**Fairness.**  `RecordLayer` and `TlcpRecord`: both users keep reading
(strong, since a write in progress or a pending transport disables a read from
time to time) unless they are `Stalled` or `Lost`, where the code may wait for
ever and `EventuallyDelivered` says no more than that they are; and in the
first a started write goes on, as tokio runs a woken task; nobody has to
write.  `Handshake` and `TlcpHandshake`: both tasks run and their timers,
where there are any, fire.  `HttpPool`: tasks, the cleanup interval and its
body run; the server answers every request it has received completely.  There
is no fairness on the server closing, on cancellation or on the clock.

**Refinement.**  `ReliableChannel` is what a user of a stream may rely on:
delivered bytes are a prefix of the sent ones, and the end comes after the
last.  `RecordLayer` and `TlcpRecord` both implement it
(`ReliableDelivery == Chan!ChanSpec`); the second maps the bytes a user of
`read_application_data` gets for a close_notify to the end of the stream
(`Data` and `Told`).  Torn records, gaps and dropped calls are part of both,
and make the reader stop or wait, not read something else.  Two uses are outside.  No
buffer that is written is empty, since `poll_read` reports a record without
bytes as the end.  And in `RecordLayer` the users keep to one of the two
interfaces (`Unmixed`): `close` does not stop later writes, so a `poll_read`
that meets its alert would report an end before the last byte, and
`read_application_data` passes over what `poll_read` left in the buffer.

## 4. Proofs

TLAPS checks the theorems below for every value of the constants; the runs
show the same properties on small instances, and the inductive invariants were
model-checked before they were proved, but for that of `TlcpHandshakeProofs`,
which quantifies over all values a side's fields may have and cannot be
evaluated.  Every invariant that a run checks is a theorem.  The constants are
restricted by the `ASSUME` of each module only, which gives them their types
and an order (the threshold is below the limit, the limit below the largest
number); sets of tasks, and of tickets, are finite; the lists in a
configuration or from a peer are sequences, and a configuration has the fields
its constructor gives it.  A further condition is an assumption of the theorem
itself, and said here.

| theorem | states | condition |
|---|---|---|
| `RecordLayerProofs!TypeCorrect` | `TypeOK` | |
| `NonceUniqueness`, `NonceGuard`, `CacheStaysBounded` | `NonceUnique`, `NonceGuardSilent`, `NonceCacheBounded` | |
| `KeysStayInSync` | `KeysInSync` | `Smooth` |
| `NoReadFails` | `ReadsSucceed` | |
| `AnswersFirst` | `PendingUpdateFirst` | only the record interface |
| `Refinement` | `ReliableDelivery` | `Unmixed` |
| `TlcpProofs!NoncesUnique`, `ReadsSound` | `NonceUnique`, `ReadsSucceed` | |
| `Refinement` | `ReliableDelivery` | `0 \notin Lens` |
| `ResumptionSound`, `EvictionIsFifo` | `ResumedSound`, `RetainedWhileRoom` | |
| `SessionTicketProofs!TicketsSingleUse` | `SingleUse` | `Lasting` |
| `FirstUse` | `FirstUseSucceeds` | |
| `RotationSafe` | `RotationKeepsTickets` | `UniqueIds` |
| `HandshakeProofs!VerifiedPeers`, `TranscriptAgreement` | `PeersVerified`, `TranscriptsAgree` | |
| `GoodHandshakes` | `GoodHandshakeSucceeds` | `FreshCrl` |
| `TlcpHandshakeProofs!OutcomesAreAgreed`, `PeersAreVerified`, `CompatibleSidesSucceed` | `OutcomesAgree`, `PeersVerified`, `CompatibleSucceeds` | |
| `CertificateProofs!IssuedRecorded`, `RevocationTakesHold`, `CrlsSupersede` | `IssuedIsRecorded`, `RevocationHolds`, `CrlSupersedes` | |
| `NobodyStarved` | `NoStarvation` | |
| `BurstsBounded` | `BurstBounded` | `Periodic` |
| `TrustFromAnchors`, `CoverageOfTheSent`, `PeersCannotPanic` | `AcceptedIsTrusted`, `StrictCovered`, `NoPeerPanic` | |
| `AnchorOrder`, `RootMayBeLeftOut` | `AnchorOrderIrrelevant`, `RootOptional` | |
| `HttpPoolProofs!ConnectionsExclusive`, `PoolStaysBounded`, `ResponsesOwn` | `ExclusiveUse`, `PoolBounded`, `OwnResponse` | |

A theorem with `Safety` in its name (`Safety`, `SessionsSafety`,
`HandshakeSafety`, `LimiterSafety`, `CheckSafety`) states the inductive
invariant of a specification; `InStep` is a second one in `RecordLayerProofs`.

**RecordLayerProofs.**  Three invariants, each resting on the one before.

*Nonces* (`Inv`).  `NonceUnique` is not inductive: it says nothing of the next
number.  `Inv` adds `RecordsBehind` (every record in a log has an older epoch
than its writer, or the same epoch and a number below the writer's) and
`CachesBelow` (what the nonce cache holds is below the next number, which
`NonceGuardSilent` needs, and its set is what its queue lists).  Sealing a
record appends one at the writer's number and moves the number past it, a
rotation moves the epoch past every record and empties the cache, and
everything else leaves the writing half alone (`SameWriter`).

*Keys* (`Sync`).  A direction is a log, the stream that wrote it, the state of
the transport, and the stream and the position of the reader.  `Follows` says
which key and number come after the first n records; the reader's are the ones
that follow what it took, and in a log that is `Chained` each record has the
ones that follow those before it.  The writer's follow the whole log only when
no write is held up (`Smooth`): `poll_write` skips a number after
`Poll::Pending`, so the condition is the code's.  `Rotates` (nothing follows a
KeyUpdate under its own key) and `Marked` (an alert is in the log only after
the writer closed or its transport ended) are what `NoReadFails` and the
refinement add.  The proof describes every writing call by `Moves` and every
reading call by `ReadsOn`, which mention one direction only, so the crossing of
the two needs no case analysis.  `AnswersFirst` needs `Flushed`: between
the flush and the data of a call no request is pending, as a peer reads and
writes by turns.

*Bytes* (`InOrder`).  In `Offsets` every record is given the number of bytes
before it; `Handed` says that what was delivered and what is in `read_buf` are
the bytes before the next record.  That must hold after errors too, and a
user may go on reading after one.  The argument is that a reader that has once
missed a record opens none ever after: `Coming(..., 1)` says that every record
left, and every one still to be written, has a number beyond the reader's, or a
later key (or an earlier one, if the writer has no secret and the reader
has).  It is preserved because the numbers of later records grow
at least as fast as the reader's (`Spaced`).  So either the
bytes meet, or nothing more is delivered, and a step of the streams is a step
of the channel or none.

**TlcpProofs.**  *Streams.*  `Inv` has the numbers of the wire below the writer's
(`Behind`) and, for a reader without an error, the number after the records it
took (`InStep`); without rotation that is enough for both invariants.  A
reader stops at its first error, so the refinement needs `Offsets` and `Handed`
of that reader only.  What has been handed over is a prefix of the bytes
followed by one 0 if a close_notify was handed out as data.

*Sessions.*  Map and list of the cache hold the same ids, the list in the
order of the last put (`Listed`), and each entry is the last put of its id.
`EvictionIsFifo` is a property of steps: it follows from the invariant before
the step and the definition of `put`.

**SessionTicketProofs.**  `Inv` says of every ticket where the memory of its
acceptance is: a row of the table, a member of the shared cache, or nowhere
because the ticket is past its lifetime and no call that could mark it is left
(`Kept`, `Timely`, `Dated`); and of calls in progress what their check
has seen (`CheckedBefore`).  `SingleUse` holds where that memory lasts
(`Lasting`): an in-memory store does not restart, and a table keeps its entry
as long as the ticket is good (`Outlives`): either there is a handshake timeout
and every lifetime and it together stay below 24 hours, or entries end by
`prune_expired` only and a check that fails refuses.  The attempt to prove less
showed that each condition is needed: with SQLite, which lets a
ticket pass when the check fails, and lifetimes of 24 hours, a ticket accepted
at its issue is accepted again 24 hours later, when the check fails, the
ticket is validated at its last second, a second passes and `prune_expired`
removes the row before the ticket is marked.  `RotationSafe` is about keys
with different identifiers (`UniqueIds`), section 5 says why.

**HandshakeProofs.**  The configuration determines what a side says
(`ServerSays`, `ClientSays`); the messages on their way are those one side has
sent and the other has not read (`FromServer`, `FromClient`), the transcripts are
those of the stage reached, and no side fails under a configuration that is
good for both unless it timed out (`Blame`).  This is the conversation with
`accept_gm_rust`; with the other two servers a client with a ticket meets one or
two messages of theirs and ends (`Unchecked`).  `VerifiedPeers` is about what
the code checks and has the exceptions the code has: a ticket client with
those servers, the key of a client's certificate, and a revocation that
`verify_crl` misses.  `GoodHandshakes` has the
condition that a configured revocation list counts as fresh
(`FreshCrl`): the code adds the grace period to the time of the check, so a list whose
age is within the grace period is not fresh (section 5).

**TlcpHandshakeProofs.**  The two configurations fix a conversation: what each
side says if nothing goes wrong before (`CHello`, `SCerts`, `CkeOf`, ...), and
with it what a side is at each of its stages (`ClientAt`, `ServerAt`), the
checks that have passed to get there (`ClientPassed`, `ServerPassed`), and what
it has still to hear and to say.  `HandshakeInv` says that there are two
stages such that

* a side that has not failed is what the conversation makes it at its stage,
  and has passed the checks before it;
* what is under way, what the other side has to write and what it has not made
  yet are together what this side still hears (`Flow`); a side that failed with
  nothing left to say had said it all and ran out of time (`ClientSpent`,
  `ServerSpent`);
* where the configurations fit, a side that failed ran out of time or met the
  end of the stream of one that did (`Blamed`).

A client that takes the end of the stream for the absence of a
CertificateRequest and goes on has a stage of its own (`lost`), which leads to
failure only.  The steps need what the checks mean.  `EccMeans`,
`EcdheMeans`, `RsaMeans`, `IbcMeans` and `IbsdhMeans` go through the five key
exchanges, their codecs, signatures and symbolic pairings, and show for each
that the messages pass their checks and give both sides one pre-master secret
exactly when the part of `Compatible` about it holds; `CompatibleMeans` puts
them together.  `FinishedMeans` shows that the Finished messages, over the
transcripts as they are, fail only for different secrets.  `OutcomesAgree` then
is about one record: a side that completed has heard the other's Finished, and
that one had passed its own checks before it sent it.

**CertificateProofs.**  *The CA.*  A certificate's status only grows because a
serial number is inserted by the request that drew it (`InsertsFresh`); what a
request has read is compared with what had been confirmed when it arrived
(`RenewalsSound`, `SelectionsSound`).

*The rate limiter.*  `Accounted` relates a bucket to the history of its caller:
the tokens it has given since it was filled are the admissions since then, so
an empty bucket means a full one's worth of admissions after the last refill,
which is `NoStarvation`.  `Paced` says that two buckets full and one more take
a period, and that the last bucket full and what came before it are a period
apart.  A reaped bucket is made anew with all its tokens, and it is reaped by
the age of its last refill; hence the condition `Periodic`, that a period is at
most the TTL and one instant.  Without it the property is false (section 5).

*Certificates.*  `WalkStep` says what `verify_chain` has established of an
element and the next one; from there `WalkTrusted` follows without an
induction over the path: every set of certificates that has the leaf in it and
no issuer leads out of has the anchor at the end in it too, which is how
`LeadsToAnchor` says that a leaf leads to an anchor.  `LeafCovered` finds the
CRL for each certificate that was sent, whose issuer's key verified it.  A
panic needs an element that does not parse behind the path, and those are the
anchors only. The last two theorems compare two runs of the verification.
Anchors are looked for by name and key, so for the path they matter as a set
(`SamePath`); for CRLs the first certificate of a name counts, so they matter
as a set if no two share a name (`SameRevocation`, `OnePerName`), which is the
condition in the properties themselves.  Leaving out a root shortens the path
by an element that is an anchor (`ShorterPath`, `LeafShorter`).

**HttpPoolProofs.**  A connection is held by one task, or idle in one list,
or neither (`Held`, `Idle`, `Apart`); `Exchange` says what is on its wire at
each stage of its user, so that an idle one has nothing left to read, of
connections that are not stray.  A stray one is only known to be held once; a
response without Content-Length makes its connection stray (`LeavesBody`), and
the pool hands the mark on with it, which is why both the connection and its
user carry it.
`Counted` (no more connections than tasks past their connect) bounds the
identifiers.

**VecProofs.**  `Vec::retain` keeps the positions that pass, in order and once
each.  It is defined by positions (`Nth`) and not by `SelectSeq`, about which no
prover knows anything.  `FirstPosition` is a search from the front, as the
lookup of a ticket key, the choice of an ALPN protocol and of a suite do it;
`RetainAppend` is for lists that grow at their end, as the material of a chain
without its duplicates.

**Only model-checked.**

`EventuallyDelivered`, `HandshakeEnds` and `RequestsEnd`: liveness under
fairness, which TLAPS cannot prove.  `RevokedRejected` is false, see below.

## 5. Where the code and its documents disagree

Shown by a run: `RevokedSerials`; `PROJECT.json` quotes the lines.  Certificate
serial numbers are compared without leading zero bytes, CRL entries as they are
in the list, which for this CA are the bytes it drew.  It clears the top bit of
the first byte (`cert.rs:224`) and keeps the byte when that leaves zero, so one
in 128 of its certificates is never found revoked; the trace has such a serial
number.  (A serial number of another CA whose top bit is set has a leading zero
in its encoding too; the run is not about those.)

Met while modelling and in the models, without a run of their own.

*GM/TLS record layer.*

* `poll_write` looks at neither `key_update_pending` nor the limits
  (`record_layer.rs:1120`), while `record_layer.rs:159` announces the answer
  "before the next write" and `:339` says "writing MUST NOT continue without a
  key update".  `PendingUpdateFirst` is therefore checked for the record API.
* `poll_write` encrypts again under the next number when the transport was
  pending or took a part (`record_layer.rs:1200`, against "usable as a regular
  tokio stream" in `docs/gm-tls.en.md:59`): the peer's next read fails.
  `ReadsSucceed` has whole, consecutive records as its condition (`Intact`).
  A reader may also take a length from a torn header and wait for as many bytes
  (`record_layer.rs:943`); `EventuallyDelivered` has that as its exception.
  `ReadsSucceed` ends with the writer's close, since `read_application_data` answers an
  alert with `InvalidMessage` (`record_layer.rs:725`).
* `recv_close_notify` answers `true` for any record that decrypts
  (`record_layer.rs:849`), so a KeyUpdate it meets is dropped and later reads
  would fail; `KeysInSync` is about users that have not called it.
* `read_application_data` does not look at bytes that `poll_read` left over
  (`record_layer.rs:703`); users keep to one of the two.

*Tickets.*

* Without a configured store every connect makes an in-memory one of its own
  (`gm.rs:270`, against "each ticket can only be used once" in
  `session_ticket.rs:188`); `SingleUse` is about stores that outlive a call.
* A full in-memory ticket store forgets the older half although those tickets
  are valid (`session_store.rs:127`); a Redis entry lives 86400 s from its use
  and the ticket is refused only past 86400 s from its issue, which meets at
  the boundary (`session_store.rs:501`); PostgreSQL's `VARCHAR(128)` is
  narrower than the hex form of a ticket (`session_store.rs:309`), so no ticket
  is ever accepted over it.
* Two keys with one identifier hide each other: only the first is tried
  (`session_ticket.rs:168`, against "All keys are tried" at `:119`).  After
  `add_key` and `remove_key` of the old key the old key still seals, since the
  primary key of several is not removed (`session_ticket.rs:150`).
* A replay falls back to a full handshake (`gm.rs:431`, against "ReplayDetected
  always aborts" at `:400`).

* Without a handshake timeout (`Duration::ZERO`, `gm.rs:81`) a call between check
  and mark has no end, so no lifetime is short enough for a store whose entries
  expire by themselves.

*GM/TLS handshake.*

* A client whose ticket decrypted does not look at a certificate: a ServerHello
  with an empty key share ends the handshake (`gm.rs:307`), and otherwise a
  Finished under the key of the ServerHello does (`gm.rs:327`).
  `accept_gm_rust` says neither.
* The server verifies the client's Finished with the key of its ClientHello
  (`gm.rs:797`), so a client need not have the key of the certificate it shows.
  `PeersVerified` says what is left: chain and revocation list.
* A server without a certificate sends none and goes on (`gm.rs:712`); a client
  then takes the next message for it.
* No handshake with a ticket completes: the client that presents one reads
  Finished next while the server sends Certificate (`gm.rs:335`, after "Server
  rejected ticket, performing full handshake" at `:328`), and the
  NewSessionTicket of an issuing server (`gm.rs:698`) is taken for the
  certificate.  `GoodHandshakeSucceeds` is about handshakes without tickets.
* A ticket, and the server name, are fields of the ClientHello that are never
  written among its extensions; a ticket extension would be read back with its
  length still in front.  `validate_downgrade_protection` has no caller in the
  handshake.
* A client with a certificate sends it unasked, and a server that does not
  require it meets it as its first record (`gm.rs:559`).
* `crl_grace_period` is added to the time of the check, which makes a list
  stale earlier (`gm.rs:519`, against `handshake.rs:1084`); the runs use a
  grace period of zero.

*TLCP.*

* `poll_read` and `poll_write` keep nothing over a pending transport (see
  `TlcpRecord` above), buffers above 16 KiB are neither split nor refused by
  the writer and refused by the reader, and `read_application_data` returns a
  close_notify as data.  A reader that takes a length from the middle of a record
  waits for as many bytes (`tlcp/mod.rs:990`, `:1235`).
* The server's Finished goes out through `poll_write` (`tlcp/mod.rs:5288`), which
  seals it again if the transport is pending.  `TlcpHandshake` takes the
  transport to have room for these few bytes; `TlcpRecord` is where resealing is
  studied.
* A `put` into a full cache evicts the oldest session even when the id is
  already there (`session.rs:172`).
* No connector ever presents a session, and `is_resumed` shortens nothing.

*X.509.*

* The last certificate before the anchor is held to neither CA:TRUE nor
  pathLen (`verify.rs:1209`: "Intermediate entries (index >= 1) are held to
  CA:TRUE plus ...").
* A BasicConstraints extension that does not parse is passed over
  (`verify.rs:1112`), so its certificate may issue.
* The walk is positional, so signing and encryption certificates of different
  intermediates cannot both be verified.
* The common name is tried whenever no alternative name matched, with
  wildcards (`verify.rs:950`: "only happens when no SAN is present").
* `with_server_name` applies without anchors too (`tlcp/mod.rs:2027`: "Applies
  only when ..."); `expected_uri` without anchors is not looked at.
* The connector passes over an encryption certificate of no bytes in the list
  of the server (`NoCert`); what needs its key fails later.
* A pool with the CRL of an issuer outside the chain fails the check.
  CRL signatures are checked under the standard SM2 identity only.
* An anchor that does not parse, behind one that fits, panics in the CRL step;
  two anchors of one name with CRLs depend on their order
  (`OneAnchorPerName`).

*CA and HTTP client.*

* CRL numbers start again with the process (`gm-ca/src/service.rs:77`, against
  `:33` "Monotonically increasing"): `CrlSupersedes` is about one process.  A
  CRL asked for under another issuer's name is signed in the CA's own name and
  empty (`service.rs:400`), and a
  revocation between the lookup and the insert of a renewal does not stop it
  (`service.rs:243`): `RevocationHolds` is about the CA's own name and
  revocations confirmed before
  the renewal arrived.  A renewal without a profile gets the default one
  (`service.rs:258`, against `proto/ca.proto:41`).  The service accepts 3650
  days, the signer 365 (`service.rs:166`, `cert.rs:309`).
* Buckets are reaped by the age of their last refill, however busy their caller
  is (`service.rs:501`, against "drop entries idle longer than `idle_ttl`" at
  `:500`), and made anew with all their tokens.  A `refill_period` above
  `idle_ttl` (600 s, `service.rs:84`) has therefore no effect: with a bucket of
  one, a TTL of one and a period of six TLC finds `BurstBounded` violated.  The
  theorem has `Periodic` as its condition, the run a TTL above its period.
* A body that arrives in the chunk that ends the header is dropped and waited
  for (`client.rs:172`, against `docs/gm-http-client.en.md:47` "Response body
  (raw bytes)"): `RequestsEnd` names this as its exception (`cut`). The pooled
  client announces the body of a request and never writes it (`pool.rs:199`);
  server and client wait for each other, the second exception of
  `RequestsEnd`.  A response without a Content-Length that parses is `Ok` with
  an empty body (`client.rs:462`), and its connection is pooled with the body
  unread (`pool.rs:208`) for the next request to read: the exception of
  `OwnResponse` and the third of `RequestsEnd` (`stray`).  A body cut short is
  `Ok` (`client.rs:179`) and its connection is pooled (`pool.rs:208`).
  `max_per_host` bounds what is cached, not what is open.

## 6. Not modelled

* The arithmetic of SM2, SM3, SM4 and SM9 and its FFI: out of TLC's reach.
* Metrics and the audit log: no influence on behaviour.  Certificate profiles,
  the DER codec and the layout of messages: pure construction of bytes.
* `GmTlsIncoming` (`grpc.rs:164`): a sequential loop around the server's
  handshake.  Its semaphore never has more than one permit out; a slow client
  holds up the next ones until its timeout.
* The start of the CA process: a crash between writing the key file and
  restricting its mode (`main.rs:59`) leaves a file that the next start
  refuses.
* SM9 key rotation and `KexSession` of `sm2_kex.rs`: rules that nothing but the
  self-tests calls.
* In TLCP: the abbreviated handshake (`new_client_with_session`,
  `derive_resumed_keys`), which no connector starts; GCM and CBC are not told
  apart, nor the hash functions of the RSA suites, which the code does not
  look at; buffers above 65 511 bytes, whose length field wraps.
* In GM/TLS: record lengths (the u16 length field, the reader's limit, records
  without bytes), a dropped future of the record API, SNI and SPIFFE matching
  in its handshake, the text of errors.
* In the HTTP client: validation of URLs and addresses, a step that may refuse.

## 7. What is left

1. Liveness is checked on small instances only.
2. Hazards without a property, in `PROJECT.json` with the reason for each: a
   KeyUpdate met by `recv_close_notify`, records without bytes, a dropped
   future of the record API, the sign of the grace period, CRL numbers over a
   restart, and the sequential accept loop of `GmTlsIncoming`.
3. The parts of section 6, of which `GmTlsIncoming` and `KexSession` are the
   ones with control of their own.
