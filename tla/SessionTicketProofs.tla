------------------------ MODULE SessionTicketProofs ------------------------
(* Machine-checked proofs about SessionTicket, for any number of callers,  *)
(* tickets, keys and seconds, and every way to deploy the stores.          *)
EXTENDS SessionTicket, VecProofs, SequenceTheorems

-----------------------------------------------------------------------------
(* Which deployments keep a ticket from being used twice. *)

(* An entry outlives the tickets it guards: calls are timed out, and       *)
(* either every call ends before the entry of a ticket as old as possible  *)
(* does, or entries stay until prune_expired and no check lets a ticket    *)
(* pass that has one.                                                      *)
Outlives ==
    /\ HandshakeTimeout # 0
    /\ \/ \A l \in deployment.lifetimes : l + HandshakeTimeout < Day
       \/ /\ ~deployment.store.ttl
          /\ deployment.store.fail_closed \/ ~deployment.faults

(* A call that started so long ago may be in progress. *)
InTime(age) == HandshakeTimeout # 0 => age <= HandshakeTimeout

InMemory == ~deployment.store.table /\ ~deployment.per_connect

(* A process with its tickets in memory does not restart. *)
Lasting ==
    /\ deployment.store.table => Outlives
    /\ InMemory => ~deployment.faults

-----------------------------------------------------------------------------
(* The inductive invariant. *)

(* A call in progress is no older than the handshake timeout and has a     *)
(* ticket that exists; past Validate, one that was valid when it started.  *)
Timely ==
    \A w \in Workers : call[w].stage # "idle" =>
        /\ call[w].start <= now /\ InTime(now - call[w].start)
        /\ Issued(call[w].ticket) \/ call[w].ticket \in Forged
Marking ==
    \A w \in Workers : call[w].stage = "mark" =>
        LET s == tickets[call[w].ticket] IN
        /\ Issued(call[w].ticket)
        /\ call[w].start - s.created_at <= MaxLifetime(s)

(* Entries are made after the tickets they are for. *)
Dated ==
    /\ \A t \in Tickets : Issued(t) =>
          /\ tickets[t].created_at <= now
          /\ tickets[t].lifetime_hint \in deployment.lifetimes
    /\ \A r \in rows :
          /\ deployment.store.table /\ r.created_at <= now
          /\ Issued(r.ticket)
          /\ tickets[r.ticket].created_at <= r.created_at

(* Only what was accepted, or failed on its way, is in a store. *)
Used(t) == t \in Tickets /\ accepted[t] >= 1
Accounted ==
    /\ \A r \in rows : r.ticket \in faulted \/ Used(r.ticket)
    /\ \A o \in Workers \cup {Shared} : \A i \in 1..Len(cache[o]) : Used(cache[o][i])
    /\ \A t \in Tickets : accepted[t] >= 1 => Issued(t)

(* A refused ticket was given to a call. *)
Answered ==
    \A w \in Workers : call[w].result = "Invalid" =>
        \/ call[w].ticket \in Forged
        \/ /\ Issued(call[w].ticket)
           /\ \/ tickets[call[w].ticket].require_client_auth
              \/ find_key(call[w].keys, tickets[call[w].ticket].key.id)
                    # tickets[call[w].ticket].key

(* Where entries stay until they are pruned, a call past the check of a    *)
(* ticket that has an entry by now is older than the entry.                *)
CheckedBefore ==
    ~deployment.store.ttl /\ (deployment.store.fail_closed \/ ~deployment.faults) =>
        \A w \in Workers : call[w].stage \in {"validate", "mark"} =>
            \A r \in rows : r.ticket = call[w].ticket => call[w].start <= r.created_at

(* An accepted ticket has an entry, or is past its lifetime and no call is *)
(* about to mark it.                                                       *)
Over(t) ==
    /\ now - tickets[t].created_at > MaxLifetime(tickets[t])
    /\ \A w \in Workers : call[w].stage = "mark" => call[w].ticket # t
Once ==
    deployment.store.table /\ Outlives =>
        \A t \in Tickets : /\ accepted[t] <= 1
                           /\ accepted[t] = 1 => Stored(t) \/ Over(t)

(* The in-memory store holds every accepted ticket, once, that was not     *)
(* crowded out by as many others as it has room for.                       *)
Crowded(t) == Cardinality({u \in Tickets \ {t} : accepted[u] > 0}) >= CacheSize
Kept ==
    InMemory /\ ~deployment.faults =>
        /\ \A i, j \in 1..Len(cache[Shared]) :
              cache[Shared][i] = cache[Shared][j] => i = j
        /\ \A t \in Tickets : accepted[t] >= 1 =>
              \/ Crowded(t)
              \/ accepted[t] = 1 /\ t \in Members(cache[Shared])

Inv ==
    /\ TypeOK
    /\ Timely /\ Marking /\ Dated /\ Accounted /\ Answered
    /\ CheckedBefore /\ Once /\ Kept
    /\ FirstUseSucceeds

-----------------------------------------------------------------------------
(* Types. *)

LEMMA CallType ==
    ASSUME TypeOK, NEW w \in Workers
    PROVE  /\ call[w] \in Calls /\ call[w].keys \in Seq(Keys)
           /\ call[w].stage \in {"idle", "check", "validate", "mark"}
           /\ call[w].ticket \in AllTickets \cup {Shared} /\ call[w].start \in Nat
           /\ call[w].result \in Results
<1>1. call[w] \in Calls
  BY DEF TypeOK
<1>2. QED
  BY <1>1 DEF Calls

LEMMA TicketType ==
    ASSUME TypeOK, NEW t \in Tickets
    PROVE  /\ tickets[t] \in States /\ tickets[t].created_at \in Nat
           /\ tickets[t].lifetime_hint \in Nat /\ MaxLifetime(tickets[t]) \in Nat
           /\ MaxLifetime(tickets[t]) <= Day
           /\ MaxLifetime(tickets[t]) <= tickets[t].lifetime_hint
<1>1. tickets[t] \in States
  BY DEF TypeOK
<1>2. tickets[t].created_at \in Nat /\ tickets[t].lifetime_hint \in Nat
  BY <1>1 DEF States
<1>3. QED
  BY <1>1, <1>2, SessionTicketConstants DEF MaxLifetime

LEMMA RowType ==
    ASSUME TypeOK, NEW r \in rows
    PROVE  r.ticket \in AllTickets /\ r.created_at \in Nat
  BY DEF TypeOK

LEMMA Constants ==
    /\ Day \in Nat /\ HandshakeTimeout \in Nat /\ HandshakeTimeout <= Day /\ Day >= 1
    /\ IsFiniteSet(Tickets) /\ Tickets \cap Forged = {} /\ CacheSize \in Nat
    /\ CacheSize >= 1 /\ MaxAccepted \in Nat /\ MaxAccepted >= 2
  BY SessionTicketConstants

LEMMA IssuedType == \A t : Issued(t) => t \in Tickets
  BY DEF Issued

(* What a step does to the call of a worker. *)
LEMMA CallEdit ==
    ASSUME TypeOK, NEW w \in Workers, NEW k \in Calls, call' = [call EXCEPT ![w] = k]
    PROVE  /\ call' \in [Workers -> Calls] /\ call'[w] = k
           /\ \A x \in Workers : x # w => call'[x] = call[x]
  BY DEF TypeOK

LEMMA FinishedCall ==
    ASSUME TypeOK, NEW w \in Workers, NEW result \in Results, Finished(w, result)
    PROVE  \E k \in Calls : /\ call' = [call EXCEPT ![w] = k]
                            /\ k.stage = "idle" /\ k.ticket = call[w].ticket
                            /\ k.keys = call[w].keys /\ k.result = result
<1> DEFINE k == [call[w] EXCEPT !.stage = "idle", !.start = 0, !.result = result,
                                !.next = Decision(result)]
<1>1. call[w] \in Calls
  BY CallType
<1>2. Decision(result) \in {"none", "resume", "fallback", "abort"}
  BY DEF Decision
<1>3. k \in Calls /\ k.stage = "idle" /\ k.ticket = call[w].ticket
      /\ k.keys = call[w].keys /\ k.result = result
  BY <1>1, <1>2 DEF Calls
<1>4. call' = [call EXCEPT ![w] = k]
  BY DEF Finished
<1>5. QED
  BY <1>3, <1>4

LEMMA StagedCall ==
    ASSUME TypeOK, NEW w \in Workers, NEW s \in {"validate", "mark"}
    PROVE  LET k == [call[w] EXCEPT !.stage = s] IN
           /\ k \in Calls /\ k.stage = s /\ k.ticket = call[w].ticket
           /\ k.keys = call[w].keys /\ k.result = call[w].result
           /\ k.start = call[w].start
<1>1. call[w] \in Calls
  BY CallType
<1>2. QED
  BY <1>1 DEF Calls

-----------------------------------------------------------------------------
(* A worker goes on without an entry being made.  k is the call after it.  *)

CallSound(k) ==
    /\ k.stage # "idle" =>
          /\ k.start <= now /\ InTime(now - k.start)
          /\ Issued(k.ticket) \/ k.ticket \in Forged
    /\ k.stage = "mark" =>
          LET s == tickets[k.ticket] IN
          /\ Issued(k.ticket) /\ k.start - s.created_at <= MaxLifetime(s)
          /\ now - s.created_at <= MaxLifetime(s)
    /\ k.result = "Invalid" =>
        \/ k.ticket \in Forged
        \/ /\ Issued(k.ticket)
           /\ \/ tickets[k.ticket].require_client_auth
              \/ find_key(k.keys, tickets[k.ticket].key.id) # tickets[k.ticket].key
    /\ ~deployment.store.ttl /\ (deployment.store.fail_closed \/ ~deployment.faults) =>
          (k.stage \in {"validate", "mark"} =>
              \A r \in rows : r.ticket = k.ticket => k.start <= r.created_at)

Excused(k) ==
    k.result \in {"Replay", "StoreError"} =>
        \/ ~deployment.store.fits
        \/ k.ticket \in faulted
        \/ k.ticket \in Tickets /\ accepted[k.ticket] >= 1

LEMMA CallStep ==
    ASSUME Inv, NEW w \in Workers, NEW k \in Calls,
           call' = [call EXCEPT ![w] = k],
           UNCHANGED <<now, keys, tickets, rows, accepted, deployment>>,
           \/ cache' = cache
           \/ deployment.per_connect /\ cache' = [cache EXCEPT ![w] = << >>],
           faulted \subseteq faulted', faulted' \subseteq AllTickets,
           CallSound(k), Excused(k)'
    PROVE  Inv'
<1>1. TypeOK /\ now \in Nat
  BY DEF Inv, TypeOK
<1>2. /\ call' \in [Workers -> Calls] /\ call'[w] = k
      /\ \A x \in Workers : x # w => call'[x] = call[x]
  BY <1>1, CallEdit
<1>3. TypeOK'
  <2>1. cache' \in [Workers \cup {Shared} -> Seq(AllTickets)]
    <3>1. cache \in [Workers \cup {Shared} -> Seq(AllTickets)]
      BY <1>1 DEF TypeOK
    <3>2. << >> \in Seq(AllTickets)
      OBVIOUS
    <3>3. QED
      BY <3>1, <3>2
  <2>2. QED
    BY <1>1, <1>2, <2>1 DEF TypeOK
<1>4. \A t : Issued(t)' <=> Issued(t)
  BY DEF Issued
<1>5. \A t : MaxLifetime(tickets[t])' = MaxLifetime(tickets[t])
  BY DEF MaxLifetime
<1>6. Timely' /\ Marking'
  <2>1. Timely'
    BY <1>2, <1>4 DEF Inv, Timely, CallSound
  <2>2. Marking'
    BY <1>2, <1>4 DEF Inv, Marking, CallSound, MaxLifetime
  <2>3. QED
    BY <2>1, <2>2
<1>7. Dated'
  BY <1>4 DEF Inv, Dated
<1>8. Accounted'
  <2>1. \A t : Used(t)' <=> Used(t)
    BY DEF Used
  <2>2. \A o \in Workers \cup {Shared} : cache'[o] = cache[o] \/ cache'[o] = << >>
    BY <1>1 DEF TypeOK
  <2>3. \A o \in Workers \cup {Shared} : \A i \in 1..Len(cache'[o]) : Used(cache'[o][i])
    BY <2>2 DEF Inv, Accounted
  <2>4. QED
    BY <1>4, <2>1, <2>3 DEF Inv, Accounted
<1>9. Answered'
  <2> SUFFICES ASSUME NEW x \in Workers, call'[x].result = "Invalid"
               PROVE  \/ call'[x].ticket \in Forged
                      \/ /\ Issued(call'[x].ticket)
                         /\ \/ tickets[call'[x].ticket].require_client_auth
                            \/ find_key(call'[x].keys, tickets[call'[x].ticket].key.id)
                                  # tickets[call'[x].ticket].key
    BY <1>4 DEF Answered
  <2>1. CASE x = w
    BY <1>2, <2>1 DEF CallSound
  <2>2. CASE x # w
    BY <1>2, <2>2 DEF Inv, Answered
  <2>3. QED
    BY <2>1, <2>2
<1>10. CheckedBefore'
  BY <1>2 DEF Inv, CheckedBefore, CallSound
<1>11. Once'
  <2>1. \A t : Stored(t)' <=> Stored(t)
    BY DEF Stored
  <2>2. Outlives' <=> Outlives
    BY DEF Outlives
  <2>3. ASSUME NEW t \in Tickets, Over(t)
        PROVE  Over(t)'
    <3>1. tickets[t].created_at \in Nat /\ MaxLifetime(tickets[t]) \in Nat
      BY <1>1, TicketType
    <3>2. k.stage = "mark" => k.ticket # t
      BY <1>1, <2>3, <3>1 DEF CallSound, Over
    <3>3. QED
      BY <1>2, <1>5, <2>3, <3>2 DEF Over
  <2>4. QED
    BY <2>1, <2>2, <2>3 DEF Inv, Once
<1>12. Kept'
  <2>1. \A t : Crowded(t)' <=> Crowded(t)
    BY DEF Crowded
  <2>2. InMemory => cache' = cache
    BY DEF InMemory
  <2>3. QED
    BY <2>1, <2>2 DEF Inv, Kept, InMemory, Members
<1>13. FirstUseSucceeds'
  BY <1>2 DEF Inv, FirstUseSucceeds, Excused
<1>14. QED
  BY <1>3, <1>6, <1>7, <1>8, <1>9, <1>10, <1>11, <1>12, <1>13 DEF Inv

(* A worker ends its call, and the database has an entry for its ticket    *)
(* now if it had none.                                                     *)
LEMMA InsertStep ==
    ASSUME Inv, NEW w \in Workers, NEW k \in Calls, NEW t,
           t = call[w].ticket, call[w].stage = "mark", deployment.store.table,
           k.stage = "idle", k.result # "Invalid",
           call' = [call EXCEPT ![w] = k], rows' = Inserted(t),
           UNCHANGED <<now, keys, tickets, cache, deployment>>,
           faulted \subseteq faulted', faulted' \subseteq AllTickets,
           \/ accepted' = accepted /\ t \in faulted'
           \/ /\ ~Stored(t)
              /\ accepted' = [accepted EXCEPT ![t] = IF @ < MaxAccepted THEN @ + 1 ELSE @],
           Excused(k)'
    PROVE  Inv'
<1>1. TypeOK /\ now \in Nat /\ accepted \in [Tickets -> Nat]
  BY DEF Inv, TypeOK
<1>2. /\ call' \in [Workers -> Calls] /\ call'[w] = k
      /\ \A x \in Workers : x # w => call'[x] = call[x]
  BY <1>1, CallEdit
<1>3. t \in Tickets /\ Issued(t) /\ tickets[t].created_at <= now
  BY IssuedType DEF Inv, Marking, Dated
<1>4. /\ accepted' \in [Tickets -> Nat]
      /\ \A u \in Tickets : u # t => accepted'[u] = accepted[u]
      /\ accepted'[t] >= accepted[t]
      /\ t \in faulted' \/ accepted'[t] >= 1
  BY <1>1, <1>3, Constants
<1> DEFINE new == [ticket |-> t, created_at |-> now]
<1>5. \/ rows' = rows /\ Stored(t)
      \/ ~Stored(t) /\ rows' = {r \in rows : r.ticket # t} \cup {new}
  BY DEF Inserted
<1>6. new.ticket = t /\ new.created_at = now
      /\ new \in [ticket : AllTickets, created_at : Nat]
  BY <1>1, <1>3 DEF AllTickets
<1> HIDE DEF new
<1>7. TypeOK'
  <2>1. rows' \subseteq [ticket : AllTickets, created_at : Nat]
    BY <1>1, <1>5, <1>6 DEF TypeOK
  <2>2. QED
    BY <1>1, <1>2, <1>4, <2>1 DEF TypeOK
<1>8. \A r \in rows' : r \in rows \/ r = new
  BY <1>5
<1>9. \A u : Issued(u)' <=> Issued(u)
  BY DEF Issued
<1>10. Timely' /\ Marking'
  <2>1. Timely'
    BY <1>2, <1>9 DEF Inv, Timely
  <2>2. Marking'
    BY <1>2, <1>9 DEF Inv, Marking, MaxLifetime
  <2>3. QED
    BY <2>1, <2>2
<1>11. Dated'
  <2>1. \A r \in rows' : /\ r.created_at <= now /\ Issued(r.ticket)
                         /\ tickets[r.ticket].created_at <= r.created_at
    BY <1>1, <1>3, <1>6, <1>8 DEF Inv, Dated
  <2>2. QED
    BY <1>9, <2>1 DEF Inv, Dated
<1>12. Accounted'
  <2>1. \A u : Used(u) => Used(u)'
    BY <1>1, <1>3, <1>4 DEF Used
  <2>2. \A r \in rows' : r.ticket \in faulted' \/ Used(r.ticket)'
    <3>1. t \in faulted' \/ Used(t)'
      BY <1>3, <1>4 DEF Used
    <3>2. \A r \in rows : r.ticket \in faulted' \/ Used(r.ticket)'
      BY <2>1 DEF Inv, Accounted
    <3>3. QED
      BY <1>6, <1>8, <3>1, <3>2
  <2>3. \A o \in Workers \cup {Shared} : \A i \in 1..Len(cache[o]) : Used(cache[o][i])'
    BY <2>1 DEF Inv, Accounted
  <2>4. \A u \in Tickets : accepted'[u] >= 1 => Issued(u)
    BY <1>3, <1>4 DEF Inv, Accounted
  <2>5. QED
    BY <1>9, <2>2, <2>3, <2>4 DEF Accounted
<1>13. Answered'
  <2>1. \A x \in Workers : call'[x].result = "Invalid" => call'[x] = call[x]
    BY <1>2
  <2>2. QED
    BY <1>9, <2>1 DEF Inv, Answered
<1>14. CheckedBefore'
  <2> SUFFICES ASSUME ~deployment.store.ttl,
                      deployment.store.fail_closed \/ ~deployment.faults,
                      NEW x \in Workers, call'[x].stage \in {"validate", "mark"},
                      NEW r \in rows', r.ticket = call'[x].ticket
               PROVE  call'[x].start <= r.created_at
    BY DEF CheckedBefore
  <2>1. call'[x] = call[x] /\ call[x].start <= now
    BY <1>2 DEF Inv, Timely
  <2>2. QED
    BY <1>6, <1>8, <2>1 DEF Inv, CheckedBefore
<1>15. Once'
  <2>1. Outlives' <=> Outlives
    BY DEF Outlives
  <2>2. Stored(t)'
    <3>1. CASE rows' = rows /\ Stored(t)
      BY <3>1 DEF Stored
    <3>2. CASE rows' = {r \in rows : r.ticket # t} \cup {new}
      <4>1. new \in rows' /\ now < now + Day
        BY <1>1, <3>2, Constants
      <4>2. QED
        BY <1>6, <4>1 DEF Stored
    <3>3. QED
      BY <1>5, <3>1, <3>2
  <2>3. ASSUME NEW u \in Tickets, u # t, Stored(u)
        PROVE  Stored(u)'
    <3>1. \A r \in rows : r.ticket = u => r \in rows'
      BY <1>5, <2>3
    <3>2. QED
      BY <2>3, <3>1 DEF Stored
  <2>4. ASSUME NEW u \in Tickets, Over(u)
        PROVE  Over(u)'
    BY <1>2, <2>4 DEF Over, MaxLifetime
  <2>5. ASSUME Outlives
        PROVE  accepted'[t] <= 1
    <3>1. accepted[t] <= 1 /\ accepted[t] \in Nat
          /\ (accepted[t] = 1 => Stored(t) \/ Over(t))
      BY <1>1, <1>3, <2>5 DEF Inv, Once
    <3>2. ~Over(t)
      BY DEF Over
    <3>3. CASE accepted' = accepted
      BY <3>1, <3>3
    <3>4. CASE /\ ~Stored(t)
               /\ accepted' = [accepted EXCEPT ![t] = IF @ < MaxAccepted THEN @ + 1 ELSE @]
      <4>1. accepted[t] = 0
        BY <3>1, <3>2, <3>4
      <4>2. QED
        BY <1>1, <1>3, <3>4, <4>1, Constants
    <3>5. QED
      BY <3>3, <3>4
  <2>6. QED
    BY <1>4, <2>1, <2>2, <2>3, <2>4, <2>5 DEF Inv, Once
<1>16. Kept'
  BY DEF Kept, InMemory
<1>17. FirstUseSucceeds'
  <2> SUFFICES ASSUME NEW x \in Workers, call'[x].result \in {"Replay", "StoreError"}
               PROVE  \/ ~deployment'.store.fits
                      \/ call'[x].ticket \in faulted'
                      \/ call'[x].ticket \in Tickets /\ accepted'[call'[x].ticket] >= 1
    BY DEF FirstUseSucceeds
  <2>1. CASE x = w
    BY <1>2, <2>1 DEF Excused
  <2>2. CASE x # w
    <3>1. \/ ~deployment.store.fits
          \/ call[x].ticket \in faulted
          \/ call[x].ticket \in Tickets /\ accepted[call[x].ticket] >= 1
      BY <1>2, <2>2 DEF Inv, FirstUseSucceeds
    <3>2. \A u \in Tickets : accepted[u] >= 1 => accepted'[u] >= 1
      BY <1>1, <1>3, <1>4
    <3>3. QED
      BY <1>2, <2>2, <3>1, <3>2
  <2>3. QED
    BY <2>1, <2>2
<1>18. QED
  BY <1>7, <1>10, <1>11, <1>12, <1>13, <1>14, <1>15, <1>16, <1>17 DEF Inv

-----------------------------------------------------------------------------
(* decrypt_session_ticket. *)

LEMMA DecryptInv ==
    ASSUME Inv, NEW w \in Workers, NEW t \in AllTickets, decrypt_session_ticket(w, t)
    PROVE  Inv'
<1>1. /\ TypeOK /\ now \in Nat /\ keys \in Seq(Keys) /\ faulted \subseteq AllTickets
      /\ Issued(t) \/ t \in Forged
      /\ UNCHANGED <<now, keys, tickets, rows, accepted, faulted, deployment>>
      /\ \/ cache' = cache
         \/ deployment.per_connect /\ cache' = [cache EXCEPT ![w] = << >>]
  BY DEF decrypt_session_ticket, Inv, TypeOK
<1>2. CASE call' = [call EXCEPT ![w] =
                      [stage |-> "check", ticket |-> t, keys |-> keys,
                       start |-> now, result |-> "none", next |-> "none"]]
  <2> DEFINE k == [stage |-> "check", ticket |-> t, keys |-> keys,
                   start |-> now, result |-> "none", next |-> "none"]
  <2>1. k \in Calls /\ k.stage = "check" /\ k.ticket = t /\ k.start = now
        /\ k.result = "none"
    BY <1>1 DEF Calls, Results
  <2>2. call' = [call EXCEPT ![w] = k]
    BY <1>2
  <2> HIDE DEF k
  <2>3. CallSound(k)
    BY <1>1, <2>1, Constants DEF CallSound, InTime
  <2>4. PICK c : c = k
    OBVIOUS
  <2>5. Excused(c)'
    BY <2>1, <2>4 DEF Excused
  <2>6. QED
    BY <1>1, <2>1, <2>2, <2>3, <2>4, <2>5, CallStep
<1>3. ASSUME NEW result \in {"Invalid", "NoStore"},
             result = "Invalid" => t \in Forged,
             call' = [call EXCEPT ![w] =
                        [stage |-> "idle", ticket |-> t, keys |-> keys,
                         start |-> 0, result |-> result,
                         next |-> Decision(result)]]
      PROVE  Inv'
  <2> DEFINE k == [stage |-> "idle", ticket |-> t, keys |-> keys, start |-> 0,
                   result |-> result, next |-> Decision(result)]
  <2>1. k \in Calls /\ k.stage = "idle" /\ k.ticket = t /\ k.result = result
    <3>1. Decision(result) \in {"none", "resume", "fallback", "abort"}
      BY DEF Decision
    <3>2. QED
      BY <1>1, <3>1 DEF Calls, Results
  <2>2. call' = [call EXCEPT ![w] = k]
    BY <1>3
  <2> HIDE DEF k
  <2>3. CallSound(k)
    BY <1>1, <1>3, <2>1 DEF CallSound
  <2>4. PICK c : c = k
    OBVIOUS
  <2>5. Excused(c)'
    BY <2>1, <2>4 DEF Excused
  <2>6. QED
    BY <1>1, <2>1, <2>2, <2>3, <2>4, <2>5, CallStep
<1>4. QED
  BY <1>2, <1>3 DEF decrypt_session_ticket

(* A call that ends without an entry made for its ticket. *)
LEMMA EndStep ==
    ASSUME Inv, NEW w \in Workers, NEW result \in Results, Finished(w, result),
           UNCHANGED <<now, keys, tickets, rows, accepted, cache, deployment>>,
           faulted \subseteq faulted', faulted' \subseteq AllTickets,
           result = "Invalid" =>
               \/ call[w].ticket \in Forged
               \/ /\ Issued(call[w].ticket)
                  /\ \/ tickets[call[w].ticket].require_client_auth
                     \/ find_key(call[w].keys, tickets[call[w].ticket].key.id)
                           # tickets[call[w].ticket].key,
           result \in {"Replay", "StoreError"} =>
               \/ ~deployment.store.fits
               \/ call[w].ticket \in faulted'
               \/ call[w].ticket \in Tickets /\ accepted[call[w].ticket] >= 1
    PROVE  Inv'
<1>1. PICK k \in Calls : /\ call' = [call EXCEPT ![w] = k]
                         /\ k.stage = "idle" /\ k.ticket = call[w].ticket
                         /\ k.keys = call[w].keys /\ k.result = result
  BY FinishedCall DEF Inv
<1>2. CallSound(k)
  BY <1>1 DEF CallSound
<1>3. Excused(k)'
  BY <1>1 DEF Excused
<1>4. QED
  BY <1>1, <1>2, <1>3, CallStep

LEMMA MembersUsed ==
    ASSUME Inv, NEW o \in Workers \cup {Shared}, NEW t \in Members(cache[o])
    PROVE  t \in Tickets /\ accepted[t] >= 1
  BY DEF Inv, Accounted, Used, Members

LEMMA StoredUsed ==
    ASSUME Inv, NEW t, Stored(t)
    PROVE  t \in faulted \/ (t \in Tickets /\ accepted[t] >= 1)
  BY DEF Inv, Accounted, Used, Stored

LEMMA ReplayInv ==
    ASSUME Inv, NEW w \in Workers, is_ticket_replay(w)
    PROVE  Inv'
<1> DEFINE t == call[w].ticket
           known == IF deployment.store.table THEN Stored(t)
                    ELSE t \in Members(cache[Store(w)])
           Passes == call' = [call EXCEPT ![w].stage = "validate"]
<1>1. /\ TypeOK /\ now \in Nat /\ call[w].stage = "check" /\ faulted \subseteq AllTickets
      /\ UNCHANGED <<now, keys, tickets, cache, rows, accepted, deployment>>
  BY DEF is_ticket_replay, Inv, TypeOK
<1>2. /\ call[w].start <= now /\ InTime(now - call[w].start)
      /\ Issued(t) \/ t \in Forged
  BY <1>1 DEF Inv, Timely
<1>3. t \in AllTickets
  BY <1>2, IssuedType DEF AllTickets
<1>4. known => \/ t \in faulted
               \/ t \in Tickets /\ accepted[t] >= 1
  <2>1. Store(w) \in Workers \cup {Shared}
    BY DEF Store
  <2>2. QED
    BY <2>1, MembersUsed, StoredUsed
<1>5. /\ faulted \subseteq faulted' /\ faulted' \subseteq AllTickets
      /\ \/ known /\ Finished(w, "Replay")
         \/ ~known /\ Passes
         \/ t \in faulted' /\ deployment.faults /\ deployment.store.fail_closed
              /\ Finished(w, "Replay")
         \/ deployment.faults /\ ~deployment.store.fail_closed /\ Passes
  BY <1>1, <1>3 DEF is_ticket_replay, Fault
<1>6. CASE Finished(w, "Replay") /\ (known \/ t \in faulted')
  <2>1. t \in faulted' \/ (t \in Tickets /\ accepted[t] >= 1)
    BY <1>4, <1>5, <1>6
  <2>2. "Replay" \in Results
    BY DEF Results
  <2> HIDE DEF known
  <2>3. QED
    BY <1>1, <1>5, <1>6, <2>1, <2>2, EndStep
<1>7. CASE Passes /\ (~known \/ (deployment.faults /\ ~deployment.store.fail_closed))
  <2> DEFINE k == [call[w] EXCEPT !.stage = "validate"]
  <2>1. /\ k \in Calls /\ k.stage = "validate" /\ k.ticket = t
        /\ k.keys = call[w].keys /\ k.result = call[w].result
        /\ k.start = call[w].start
    BY <1>1, StagedCall
  <2>2. call' = [call EXCEPT ![w] = k]
    BY <1>7
  <2> HIDE DEF k
  <2>3. ASSUME ~deployment.store.ttl, deployment.store.fail_closed \/ ~deployment.faults,
               NEW r \in rows, r.ticket = t
        PROVE  k.start <= r.created_at
    <3>1. CASE deployment.store.table
      BY <1>7, <2>3, <3>1 DEF Stored
    <3>2. CASE ~deployment.store.table
      BY <2>3, <3>2 DEF Inv, Dated
    <3>3. QED
      BY <3>1, <3>2
  <2>4. CallSound(k)
    BY <1>1, <1>2, <2>1, <2>3 DEF CallSound, Inv, Answered
  <2>5. PICK c : c = k
    OBVIOUS
  <2>6. Excused(c)'
    BY <1>1, <1>5, <2>1, <2>5 DEF Excused, Inv, FirstUseSucceeds
  <2>7. QED
    BY <1>1, <1>5, <2>1, <2>2, <2>4, <2>5, <2>6, CallStep
<1>8. QED
  BY <1>5, <1>6, <1>7

LEMMA ValidateInv ==
    ASSUME Inv, NEW w \in Workers, Validate(w)
    PROVE  Inv'
<1> DEFINE t == call[w].ticket
           s == tickets[t]
           result == Validated(t, call[w].keys)
<1>1. /\ TypeOK /\ now \in Nat /\ call[w].stage = "validate" /\ faulted \subseteq AllTickets
      /\ UNCHANGED <<now, keys, tickets, cache, rows, accepted, faulted, deployment>>
  BY DEF Validate, Inv, TypeOK
<1>2. /\ call[w].start <= now /\ InTime(now - call[w].start)
      /\ call[w].start \in Nat
      /\ Issued(t) \/ t \in Forged
  BY <1>1, CallType DEF Inv, Timely
<1>3. CASE result = "Ok"
  <2> DEFINE k == [call[w] EXCEPT !.stage = "mark"]
  <2>1. /\ k \in Calls /\ k.stage = "mark" /\ k.ticket = t
        /\ k.keys = call[w].keys /\ k.result = call[w].result
        /\ k.start = call[w].start
    BY <1>1, StagedCall
  <2>2. call' = [call EXCEPT ![w] = k]
    BY <1>3 DEF Validate
  <2> HIDE DEF k
  <2>3. Issued(t) /\ ~(now - s.created_at > MaxLifetime(s))
    BY <1>3 DEF Validated
  <2>4. now - s.created_at <= MaxLifetime(s) /\ call[w].start - s.created_at <= MaxLifetime(s)
    <3>1. t \in Tickets
      BY <2>3, IssuedType
    <3>2. s.created_at \in Nat /\ MaxLifetime(s) \in Nat
      BY <1>1, <3>1, TicketType
    <3>3. PICK c, m, b : c = s.created_at /\ m = MaxLifetime(s) /\ b = call[w].start
      OBVIOUS
    <3>4. /\ c \in Nat /\ m \in Nat /\ b \in Nat /\ now \in Nat
          /\ b <= now /\ ~(now - c > m)
      BY <1>1, <1>2, <2>3, <3>2, <3>3
    <3>5. now - c <= m /\ b - c <= m
      BY <3>4
    <3>6. QED
      BY <3>3, <3>5
  <2>5. CallSound(k)
    BY <1>1, <1>2, <2>1, <2>3, <2>4 DEF CallSound, Inv, Answered, CheckedBefore
  <2>6. PICK c : c = k
    OBVIOUS
  <2>7. Excused(c)'
    BY <1>1, <2>1, <2>6 DEF Excused, Inv, FirstUseSucceeds
  <2>8. QED
    BY <1>1, <2>1, <2>2, <2>5, <2>6, <2>7, CallStep
<1>4. CASE result # "Ok"
  <2>1. Finished(w, result) /\ result \in {"Invalid", "Expired"} /\ result \in Results
    BY <1>4 DEF Validate, Validated, Results
  <2>2. ASSUME result = "Invalid"
        PROVE  \/ t \in Forged
               \/ /\ Issued(t)
                  /\ \/ s.require_client_auth
                     \/ find_key(call[w].keys, s.key.id) # s.key
    BY <1>2, <2>2 DEF Validated
  <2> HIDE DEF result
  <2>3. QED
    BY <1>1, <2>1, <2>2, EndStep
<1>5. QED
  BY <1>3, <1>4

LEMMA DatabaseMarkInv ==
    ASSUME Inv, NEW w \in Workers, call[w].stage = "mark", deployment.store.table,
           DatabaseMark(w, call[w].ticket),
           UNCHANGED <<now, keys, tickets, cache, deployment>>
    PROVE  Inv'
<1> DEFINE t == call[w].ticket
<1>1. TypeOK /\ faulted \subseteq AllTickets /\ t \in Tickets /\ t \in AllTickets
      /\ accepted \in [Tickets -> Nat]
  BY IssuedType DEF Inv, TypeOK, Marking, AllTickets
<1>2. "StoreError" \in Results /\ "Ok" \in Results
  BY DEF Results
<1>3. CASE /\ TooWide \/ Stored(t)
           /\ Refuses(w) /\ UNCHANGED <<rows, faulted>>
  <2>1. ~deployment.store.fits \/ t \in faulted \/ accepted[t] >= 1
    BY <1>3, StoredUsed DEF TooWide
  <2>2. QED
    BY <1>1, <1>2, <1>3, <2>1, EndStep DEF Refuses
<1>4. CASE /\ ~TooWide /\ ~Stored(t)
           /\ Accepts(w, t) /\ rows' = Inserted(t) /\ UNCHANGED faulted
  <2>1. PICK k \in Calls : /\ call' = [call EXCEPT ![w] = k]
                           /\ k.stage = "idle" /\ k.ticket = t /\ k.result = "Ok"
    BY <1>1, <1>2, <1>4, FinishedCall DEF Accepts
  <2>2. Excused(k)'
    BY <2>1 DEF Excused
  <2>3. accepted' = [accepted EXCEPT ![t] = IF @ < MaxAccepted THEN @ + 1 ELSE @]
    BY <1>4 DEF Accepts
  <2>4. QED
    BY <1>1, <1>4, <2>1, <2>2, <2>3, InsertStep
<1>5. CASE Fault(t) /\ Refuses(w) /\ UNCHANGED rows
  <2>1. faulted \subseteq faulted' /\ faulted' \subseteq AllTickets /\ t \in faulted'
    BY <1>1, <1>5 DEF Fault
  <2>2. QED
    BY <1>1, <1>2, <1>5, <2>1, EndStep DEF Refuses
<1>6. CASE Fault(t) /\ Refuses(w) /\ rows' = Inserted(t)
  <2>1. faulted \subseteq faulted' /\ faulted' \subseteq AllTickets /\ t \in faulted'
    BY <1>1, <1>6 DEF Fault
  <2>2. PICK k \in Calls : /\ call' = [call EXCEPT ![w] = k]
                           /\ k.stage = "idle" /\ k.ticket = t /\ k.result = "StoreError"
    BY <1>1, <1>2, <1>6, FinishedCall DEF Refuses
  <2>3. Excused(k)'
    BY <2>1, <2>2 DEF Excused
  <2>4. accepted' = accepted
    BY <1>6 DEF Refuses
  <2>5. QED
    BY <1>1, <1>6, <2>1, <2>2, <2>3, <2>4, InsertStep
<1>7. QED
  BY <1>3, <1>4, <1>5, <1>6 DEF DatabaseMark

LEMMA TimeoutInv ==
    ASSUME Inv, NEW w \in Workers, HandshakeTimedOut(w)
    PROVE  Inv'
<1> DEFINE t == call[w].ticket
<1>1. /\ TypeOK /\ faulted \subseteq AllTickets /\ Finished(w, "Timeout")
      /\ UNCHANGED <<now, keys, tickets, cache, accepted, deployment>>
      /\ "Timeout" \in Results
  BY DEF HandshakeTimedOut, Inv, TypeOK, Results
<1>2. CASE UNCHANGED <<rows, faulted>>
  BY <1>1, <1>2, EndStep
<1>3. CASE call[w].stage = "mark" /\ Fault(t) /\ rows' = Inserted(t)
  <2>1. t \in AllTickets
    BY <1>3, IssuedType DEF Inv, Marking, AllTickets
  <2>2. faulted \subseteq faulted' /\ faulted' \subseteq AllTickets /\ t \in faulted'
        /\ deployment.store.table
    BY <1>1, <1>3, <2>1 DEF Fault
  <2>3. PICK k \in Calls : /\ call' = [call EXCEPT ![w] = k]
                           /\ k.stage = "idle" /\ k.ticket = t /\ k.result = "Timeout"
    BY <1>1, FinishedCall
  <2>4. Excused(k)'
    BY <2>3 DEF Excused
  <2>5. QED
    BY <1>1, <1>3, <2>2, <2>3, <2>4, InsertStep
<1>4. QED
  BY <1>2, <1>3 DEF HandshakeTimedOut

-----------------------------------------------------------------------------
(* Keys and tickets. *)

LEMMA WithoutType ==
    ASSUME NEW ks \in Seq(Keys), NEW id
    PROVE  Without(ks, id) \in Seq(Keys)
<1> DEFINE match == {i \in 1..Len(ks) : ks[i].id = id}
           pos == CHOOSE i \in match : \A j \in match : i <= j
<1>1. CASE match = {}
  BY <1>1 DEF Without
<1>2. CASE match # {}
  <2>1. pos \in 1..Len(ks)
    <3>1. Len(ks) \in Nat /\ match \in SUBSET (1..Len(ks))
      OBVIOUS
    <3> HIDE DEF match
    <3>2. pos \in match
      BY <1>2, <3>1, FirstPosition
    <3>3. QED
      BY <3>1, <3>2
  <2>2. Without(ks, id) = IF pos = 1 /\ Len(ks) > 1 THEN ks
                          ELSE SubSeq(ks, 1, pos - 1) \o SubSeq(ks, pos + 1, Len(ks))
    BY <1>2 DEF Without
  <2> HIDE DEF pos
  <2>3. SubSeq(ks, 1, pos - 1) \in Seq(Keys) /\ SubSeq(ks, pos + 1, Len(ks)) \in Seq(Keys)
    BY <2>1
  <2>4. QED
    BY <2>2, <2>3
<1>3. QED
  BY <1>1, <1>2

LEMMA KeysInv ==
    ASSUME Inv, keys' \in Seq(Keys),
           UNCHANGED <<now, tickets, cache, rows, call, accepted, faulted, deployment>>
    PROVE  Inv'
<1>1. TypeOK'
  BY DEF Inv, TypeOK
<1>2. \A t : /\ Issued(t)' <=> Issued(t)
             /\ MaxLifetime(tickets[t])' = MaxLifetime(tickets[t])
             /\ Used(t)' <=> Used(t)
             /\ Stored(t)' <=> Stored(t)
             /\ Crowded(t)' <=> Crowded(t)
             /\ Over(t)' <=> Over(t)
  BY DEF Issued, MaxLifetime, Used, Stored, Crowded, Over
<1>3. Timely' /\ Marking' /\ Dated' /\ Accounted' /\ Answered'
  BY <1>2 DEF Inv, Timely, Marking, Dated, Accounted, Answered
<1>4. CheckedBefore' /\ Once' /\ Kept' /\ FirstUseSucceeds'
  BY <1>2 DEF Inv, CheckedBefore, Once, Outlives, Kept, InMemory, Members, FirstUseSucceeds
<1>5. QED
  BY <1>1, <1>3, <1>4 DEF Inv

(* A new ticket: nothing is known of it yet. *)
LEMMA EncryptInv ==
    ASSUME Inv, NEW t \in Tickets, NEW l \in deployment.lifetimes, NEW a \in BOOLEAN,
           encrypt_session_ticket(t, l, a)
    PROVE  Inv'
<1> DEFINE s == [key |-> Head(keys), created_at |-> now, lifetime_hint |-> l,
                 require_client_auth |-> a]
<1>1. /\ TypeOK /\ now \in Nat /\ ~Issued(t) /\ keys # << >> /\ keys \in Seq(Keys)
      /\ tickets' = [tickets EXCEPT ![t] = s] /\ tickets \in [Tickets -> States]
      /\ UNCHANGED <<now, keys, cache, rows, call, accepted, faulted, deployment>>
  BY DEF encrypt_session_ticket, Inv, TypeOK
<1>2. s \in States /\ s.created_at = now /\ s.lifetime_hint = l
  <2>1. Head(keys) \in Keys
    BY <1>1
  <2>2. l \in Nat
    <3>1. deployment.lifetimes \in SUBSET Nat
      BY <1>1, SessionTicketConstants DEF TypeOK
    <3>2. QED
      BY <3>1
  <2>3. QED
    BY <1>1, <2>1, <2>2 DEF States
<1> HIDE DEF s
<1>3. /\ tickets' \in [Tickets -> States] /\ tickets'[t] = s
      /\ \A u \in Tickets : u # t => tickets'[u] = tickets[u]
  BY <1>1, <1>2
<1>4. TypeOK'
  BY <1>1, <1>3 DEF TypeOK
<1>5. \A u : Issued(u) => /\ u # t /\ Issued(u)' /\ tickets'[u] = tickets[u]
                          /\ MaxLifetime(tickets[u])' = MaxLifetime(tickets[u])
  BY <1>1, <1>3 DEF Issued, MaxLifetime
<1>6. \A u : Issued(u)' => Issued(u) \/ u = t
  BY <1>3 DEF Issued
<1>7. Timely' /\ Marking'
  BY <1>1, <1>5 DEF Inv, Timely, Marking
<1>8. Dated'
  BY <1>1, <1>2, <1>3, <1>5, <1>6 DEF Inv, Dated
<1>9. Accounted'
  <2>1. \A u : Used(u)' <=> Used(u)
    BY <1>1 DEF Used
  <2>2. QED
    BY <1>1, <1>5, <2>1 DEF Inv, Accounted
<1>10. Answered'
  BY <1>1, <1>5 DEF Inv, Answered
<1>11. CheckedBefore' /\ FirstUseSucceeds'
  BY <1>1 DEF Inv, CheckedBefore, FirstUseSucceeds
<1>12. Once'
  <2>1. \A u : Stored(u)' <=> Stored(u)
    BY <1>1 DEF Stored
  <2>2. \A u : Issued(u) /\ Over(u) => Over(u)'
    BY <1>1, <1>5 DEF Over
  <2>3. \A u \in Tickets : accepted[u] >= 1 => Issued(u)
    BY DEF Inv, Accounted
  <2>4. Outlives' <=> Outlives
    BY <1>1 DEF Outlives
  <2>5. QED
    BY <1>1, <2>1, <2>2, <2>3, <2>4 DEF Inv, Once
<1>13. Kept'
  <2>1. \A u : Crowded(u)' <=> Crowded(u)
    BY <1>1 DEF Crowded
  <2>2. QED
    BY <1>1, <2>1 DEF Inv, Kept, InMemory, Members
<1>14. QED
  BY <1>4, <1>7, <1>8, <1>9, <1>10, <1>11, <1>12, <1>13 DEF Inv

-----------------------------------------------------------------------------
(* Time, pruning and restarts. *)

(* A row that is gone by its age guarded a ticket that is past its         *)
(* lifetime, and no call that could still mark it is left.                 *)
LEMMA EntryOutlives ==
    ASSUME Inv, NEW n \in Nat, NEW r \in rows, Outlives,
           r.created_at < n - Day \/ (deployment.store.ttl /\ r.created_at + Day <= n),
           \A w \in Workers : call[w].stage = "mark" => InTime(n - call[w].start)
    PROVE  /\ n - tickets[r.ticket].created_at > MaxLifetime(tickets[r.ticket])
           /\ \A w \in Workers : call[w].stage = "mark" => call[w].ticket # r.ticket
<1> DEFINE t == r.ticket
<1>1. /\ TypeOK /\ t \in Tickets /\ Issued(t)
      /\ tickets[t].created_at <= r.created_at
      /\ tickets[t].lifetime_hint \in deployment.lifetimes
  BY IssuedType DEF Inv, Dated
<1>2. PICK c, m, e, h : /\ c = tickets[t].created_at /\ m = MaxLifetime(tickets[t])
                        /\ e = r.created_at /\ h = tickets[t].lifetime_hint
  OBVIOUS
<1>3. /\ c \in Nat /\ m \in Nat /\ e \in Nat /\ h \in Nat /\ m <= Day /\ m <= h
      /\ c <= e
  BY <1>1, <1>2, TicketType, RowType
<1>4. e + Day <= n /\ (e + Day < n \/ deployment.store.ttl)
  BY <1>2, <1>3, Constants
<1>5. \/ h + HandshakeTimeout < Day
      \/ /\ e + Day < n
         /\ ~deployment.store.ttl /\ (deployment.store.fail_closed \/ ~deployment.faults)
  BY <1>1, <1>2, <1>4 DEF Outlives
<1>6. n - c > m
  BY <1>3, <1>4, <1>5, Constants
<1>7. ASSUME NEW w \in Workers, call[w].stage = "mark", call[w].ticket = t
      PROVE  FALSE
  <2>1. PICK b : b = call[w].start
    OBVIOUS
  <2>2. b \in Nat /\ n - b <= HandshakeTimeout
    BY <1>1, <1>7, <2>1, CallType DEF InTime, Outlives
  <2>3. b - c <= m
    BY <1>2, <1>7, <2>1 DEF Inv, Marking
  <2>4. CASE h + HandshakeTimeout < Day
    BY <1>3, <1>4, <2>2, <2>3, <2>4, Constants
  <2>5. CASE e + Day < n /\ ~deployment.store.ttl
             /\ (deployment.store.fail_closed \/ ~deployment.faults)
    <3>1. b <= e
      BY <1>2, <1>7, <2>1, <2>5 DEF Inv, CheckedBefore
    <3>2. QED
      BY <1>3, <2>2, <2>5, <3>1, Constants
  <2>6. QED
    BY <1>5, <2>4, <2>5
<1>8. QED
  BY <1>2, <1>6, <1>7

LEMMA PruneInv ==
    ASSUME Inv, prune_expired
    PROVE  Inv'
<1>1. /\ TypeOK /\ now \in Nat /\ rows' = {r \in rows : ~(r.created_at < now - Day)}
      /\ UNCHANGED <<now, keys, tickets, cache, call, accepted, faulted, deployment>>
  BY DEF prune_expired, Inv, TypeOK
<1>2. TypeOK' /\ rows' \subseteq rows
  BY <1>1 DEF TypeOK
<1>3. \A t : /\ Issued(t)' <=> Issued(t)
             /\ MaxLifetime(tickets[t])' = MaxLifetime(tickets[t])
             /\ Used(t)' <=> Used(t)
             /\ Crowded(t)' <=> Crowded(t)
             /\ Over(t)' <=> Over(t)
  BY <1>1 DEF Issued, MaxLifetime, Used, Crowded, Over
<1>4. Timely' /\ Marking' /\ Dated' /\ Accounted' /\ Answered'
  BY <1>1, <1>2, <1>3 DEF Inv, Timely, Marking, Dated, Accounted, Answered
<1>5. CheckedBefore' /\ Kept' /\ FirstUseSucceeds'
  BY <1>1, <1>2, <1>3 DEF Inv, CheckedBefore, Kept, InMemory, Members, FirstUseSucceeds
<1>6. Once'
  <2>1. Outlives' <=> Outlives
    BY <1>1 DEF Outlives
  <2>2. ASSUME NEW t \in Tickets, Outlives, Stored(t), ~Stored(t)'
        PROVE  Over(t)
    <3>1. PICK r \in rows : /\ r.ticket = t
                            /\ deployment.store.ttl => now < r.created_at + Day
      BY <2>2 DEF Stored
    <3>2. r.created_at < now - Day
      BY <1>1, <2>2, <3>1 DEF Stored
    <3>3. \A w \in Workers : call[w].stage = "mark" => InTime(now - call[w].start)
      BY DEF Inv, Timely
    <3>4. QED
      BY <1>1, <2>2, <3>1, <3>2, <3>3, EntryOutlives DEF Over
  <2>3. QED
    BY <1>1, <1>3, <2>1, <2>2 DEF Inv, Once
<1>7. QED
  BY <1>2, <1>4, <1>5, <1>6 DEF Inv

LEMMA TickInv ==
    ASSUME Inv, Tick
    PROVE  Inv'
<1>1. /\ TypeOK /\ now \in Nat /\ now' = now + 1 /\ now' \in Nat
      /\ UNCHANGED <<keys, tickets, cache, rows, call, accepted, faulted, deployment>>
      /\ HandshakeTimeout # 0 => \A w \in Workers :
            call[w].stage # "idle" => now - call[w].start < HandshakeTimeout
  BY DEF Tick, Inv, TypeOK
<1>2. TypeOK'
  BY <1>1 DEF TypeOK
<1>3. \A t : /\ Issued(t)' <=> Issued(t)
             /\ MaxLifetime(tickets[t])' = MaxLifetime(tickets[t])
             /\ Used(t)' <=> Used(t)
             /\ Crowded(t)' <=> Crowded(t)
  BY <1>1 DEF Issued, MaxLifetime, Used, Crowded
<1>4. \A w \in Workers : call[w].stage # "idle" =>
         call[w].start <= now' /\ InTime(now' - call[w].start)
  <2> SUFFICES ASSUME NEW w \in Workers, call[w].stage # "idle"
               PROVE  call[w].start <= now' /\ InTime(now' - call[w].start)
    OBVIOUS
  <2>1. /\ call[w].start \in Nat /\ call[w].start <= now
        /\ HandshakeTimeout # 0 => now - call[w].start < HandshakeTimeout
    BY <1>1, CallType DEF Inv, Timely
  <2>2. QED
    BY <1>1, <2>1, Constants DEF InTime
<1>5. Timely' /\ Marking' /\ Accounted' /\ Answered'
  BY <1>1, <1>3, <1>4 DEF Inv, Timely, Marking, Accounted, Answered
<1>6. Dated'
  <2>1. \A t \in Tickets : Issued(t) => tickets[t].created_at <= now'
    BY <1>1, TicketType DEF Inv, Dated
  <2>2. \A r \in rows : r.created_at <= now'
    BY <1>1, RowType DEF Inv, Dated
  <2>3. QED
    BY <1>1, <1>3, <2>1, <2>2 DEF Inv, Dated
<1>7. CheckedBefore' /\ Kept' /\ FirstUseSucceeds'
  BY <1>1, <1>3 DEF Inv, CheckedBefore, Kept, InMemory, Members, FirstUseSucceeds
<1>8. Once'
  <2>1. Outlives' <=> Outlives
    BY <1>1 DEF Outlives
  <2>2. ASSUME NEW t \in Tickets, Over(t)
        PROVE  Over(t)'
    <3>1. tickets[t].created_at \in Nat /\ MaxLifetime(tickets[t]) \in Nat
          /\ now - tickets[t].created_at > MaxLifetime(tickets[t])
      BY <1>1, <2>2, TicketType DEF Over
    <3>2. now' - tickets[t].created_at > MaxLifetime(tickets[t])
      BY <1>1, <3>1
    <3>3. QED
      BY <1>1, <1>3, <2>2, <3>2 DEF Over
  <2>3. ASSUME NEW t \in Tickets, Outlives, Stored(t), ~Stored(t)'
        PROVE  Over(t)'
    <3>1. PICK r \in rows : /\ r.ticket = t
                            /\ deployment.store.ttl => now < r.created_at + Day
      BY <2>3 DEF Stored
    <3>2. deployment.store.ttl /\ ~(now' < r.created_at + Day)
      BY <1>1, <2>3, <3>1 DEF Stored
    <3>3. r.created_at + Day <= now'
      BY <1>1, <3>2, RowType, Constants
    <3>4. /\ now' - tickets[t].created_at > MaxLifetime(tickets[t])
          /\ \A w \in Workers : call[w].stage = "mark" => call[w].ticket # t
      <4>1. \A w \in Workers : call[w].stage = "mark" =>
               InTime(now' - call[w].start)
        BY <1>4
      <4>2. PICK n \in Nat : n = now'
        BY <1>1
      <4>3. QED
        BY <2>3, <3>1, <3>2, <3>3, <4>1, <4>2, EntryOutlives
    <3>5. QED
      BY <1>1, <1>3, <3>4 DEF Over
  <2>4. QED
    BY <1>1, <2>1, <2>2, <2>3 DEF Inv, Once
<1>9. QED
  BY <1>2, <1>5, <1>6, <1>7, <1>8 DEF Inv

LEMMA RestartInv ==
    ASSUME Inv, Restart
    PROVE  Inv'
<1>1. /\ TypeOK /\ deployment.faults
      /\ UNCHANGED <<now, keys, tickets, rows, accepted, faulted, deployment>>
      /\ call' = [w \in Workers |-> [call[w] EXCEPT !.stage = "idle", !.start = 0]]
      /\ cache' = [o \in Workers \cup {Shared} |-> << >>]
  BY DEF Restart, Inv
<1>2. \A w \in Workers : /\ call'[w] \in Calls /\ call'[w].stage = "idle"
                         /\ call'[w].ticket = call[w].ticket
                         /\ call'[w].keys = call[w].keys
                         /\ call'[w].result = call[w].result
  <2> SUFFICES ASSUME NEW w \in Workers
               PROVE  /\ call'[w] \in Calls /\ call'[w].stage = "idle"
                      /\ call'[w].ticket = call[w].ticket
                      /\ call'[w].keys = call[w].keys
                      /\ call'[w].result = call[w].result
    OBVIOUS
  <2>1. call[w] \in Calls
    BY <1>1, CallType
  <2> DEFINE k == [call[w] EXCEPT !.stage = "idle", !.start = 0]
  <2>2. call'[w] = k
    BY <1>1
  <2>3. /\ k \in Calls /\ k.stage = "idle" /\ k.ticket = call[w].ticket
        /\ k.keys = call[w].keys /\ k.result = call[w].result
    BY <2>1 DEF Calls
  <2> HIDE DEF k
  <2>4. QED
    BY <2>2, <2>3
<1>3. call' \in [Workers -> Calls]
  BY <1>1, <1>2
<1>4. \A o \in Workers \cup {Shared} : cache'[o] = << >>
  BY <1>1
<1>5. TypeOK'
  <2>1. cache' \in [Workers \cup {Shared} -> Seq(AllTickets)]
    <3>1. << >> \in Seq(AllTickets)
      OBVIOUS
    <3>2. QED
      BY <1>1, <3>1
  <2>2. QED
    BY <1>1, <1>3, <2>1 DEF TypeOK
<1>6. \A t : /\ Issued(t)' <=> Issued(t)
             /\ MaxLifetime(tickets[t])' = MaxLifetime(tickets[t])
             /\ Used(t)' <=> Used(t)
             /\ Stored(t)' <=> Stored(t)
  BY <1>1 DEF Issued, MaxLifetime, Used, Stored
<1>7. Timely' /\ Marking' /\ CheckedBefore'
  BY <1>2 DEF Timely, Marking, CheckedBefore
<1>8. Dated' /\ Answered' /\ FirstUseSucceeds'
  <2>1. Dated'
    BY <1>1, <1>6 DEF Inv, Dated
  <2>2. Answered'
    BY <1>1, <1>2, <1>6 DEF Inv, Answered
  <2>3. FirstUseSucceeds'
    <3>1. faulted' = faulted /\ accepted' = accepted /\ deployment' = deployment
      BY <1>1
    <3>2. FirstUseSucceeds
      BY DEF Inv
    <3>3. QED
      BY <1>2, <3>1, <3>2 DEF FirstUseSucceeds
  <2>4. QED
    BY <2>1, <2>2, <2>3
<1>9. Accounted'
  <2>1. \A o \in Workers \cup {Shared} : 1..Len(cache'[o]) = {}
    BY <1>4
  <2>2. QED
    BY <1>1, <1>6, <2>1 DEF Inv, Accounted
<1>10. Once'
  <2>1. Outlives' <=> Outlives
    BY <1>1 DEF Outlives
  <2>2. \A t : Over(t) => Over(t)'
    BY <1>1, <1>2, <1>6 DEF Over
  <2>3. QED
    BY <1>1, <1>6, <2>1, <2>2 DEF Inv, Once
<1>11. Kept'
  BY <1>1 DEF Kept
<1>12. QED
  BY <1>5, <1>7, <1>8, <1>9, <1>10, <1>11 DEF Inv

-----------------------------------------------------------------------------
(* The in-memory store. *)

LEMMA EvictType ==
    ASSUME NEW s \in Seq(AllTickets)
    PROVE  /\ Evict(s) \in Seq(AllTickets)
           /\ \E d \in Nat :
                 /\ d > 0 => Len(s) >= CacheSize
                 /\ Len(Evict(s)) = IF d <= Len(s) THEN Len(s) - d ELSE 0
                 /\ \A i \in 1..Len(Evict(s)) : Evict(s)[i] = s[i + d]
<1> DEFINE h == CacheSize \div 2
<1>1. h \in Nat /\ Len(s) \in Nat
  BY Constants
<1> HIDE DEF h
<1>2. CASE Len(s) >= CacheSize
  <2>1. Evict(s) = SubSeq(s, h + 1, Len(s))
    BY <1>2 DEF Evict, h
  <2>2. \A i \in h + 1..Len(s) : s[i] \in AllTickets
    BY <1>1
  <2>3. /\ Evict(s) \in Seq(AllTickets)
        /\ Len(Evict(s)) = IF h + 1 <= Len(s) THEN Len(s) - (h + 1) + 1 ELSE 0
        /\ \A i \in 1..Len(s) - (h + 1) + 1 : Evict(s)[i] = s[h + 1 + i - 1]
    <3>1. h + 1 \in Int /\ Len(s) \in Int
      BY <1>1
    <3>2. QED
      BY <2>1, <2>2, <3>1, SubSeqProperties
  <2>4. /\ Len(Evict(s)) = IF h <= Len(s) THEN Len(s) - h ELSE 0
        /\ \A i \in 1..Len(Evict(s)) : Evict(s)[i] = s[i + h]
    BY <1>1, <2>3
  <2>5. QED
    BY <1>1, <1>2, <2>3, <2>4
<1>3. CASE ~(Len(s) >= CacheSize)
  <2>1. Evict(s) = s
    BY <1>3 DEF Evict
  <2>2. /\ 0 \in Nat /\ ~(0 > 0) /\ Len(Evict(s)) = Len(s) - 0 /\ 0 <= Len(s)
        /\ \A i \in 1..Len(Evict(s)) : Evict(s)[i] = s[i + 0]
    BY <1>1, <2>1
  <2>3. QED
    BY <2>1, <2>2
<1>4. QED
  BY <1>2, <1>3

(* A sequence without repetitions has as many members as it is long. *)
LEMMA MembersCount ==
    ASSUME NEW S, NEW s \in Seq(S), \A i, j \in 1..Len(s) : s[i] = s[j] => i = j
    PROVE  IsFiniteSet(Members(s)) /\ Cardinality(Members(s)) = Len(s)
<1>1. PICK n \in Nat : n = Len(s)
  OBVIOUS
<1>2. IsFiniteSet(1..n) /\ Cardinality(1..n) = n
  BY FS_Interval
<1>3. s \in [1..n -> Members(s)]
  BY <1>1 DEF Members
<1>4. s \in Bijection(1..n, Members(s))
  <2>1. \A i, j \in 1..n : s[i] = s[j] => i = j
    BY <1>1
  <2>2. \A m \in Members(s) : \E i \in 1..n : s[i] = m
    BY <1>1 DEF Members
  <2>3. s \in Injection(1..n, Members(s))
    BY <1>3, <2>1 DEF Injection, IsInjective
  <2>4. s \in Surjection(1..n, Members(s))
    BY <1>3, <2>2 DEF Surjection
  <2>5. QED
    BY <2>3, <2>4 DEF Bijection
<1>5. ExistsBijection(1..n, Members(s))
  BY <1>4 DEF ExistsBijection
<1>6. QED
  BY <1>1, <1>2, <1>5, FS_Bijection

(* A ticket that a full cache forgets was crowded out. *)
LEMMA CrowdedOut ==
    ASSUME NEW S \in SUBSET Tickets, NEW u \in S, NEW t \in Tickets, t \notin S,
           IsFiniteSet(S), Cardinality(S) >= CacheSize,
           NEW A, A \in SUBSET (Tickets \ {u}), S \ {u} \subseteq A, t \in A
    PROVE  Cardinality(A) >= CacheSize
<1>1. IsFiniteSet(S \ {u}) /\ Cardinality(S \ {u}) = Cardinality(S) - 1
      /\ Cardinality(S) \in Nat
  BY FS_RemoveElement, FS_CardinalityType
<1>2. t \notin S \ {u}
  OBVIOUS
<1>3. IsFiniteSet((S \ {u}) \cup {t})
      /\ Cardinality((S \ {u}) \cup {t}) = Cardinality(S \ {u}) + 1
  BY <1>1, <1>2, FS_AddElement
<1>4. IsFiniteSet(A) /\ Cardinality(A) \in Nat
  <2>1. IsFiniteSet(Tickets) /\ A \in SUBSET Tickets
    BY Constants
  <2>2. QED
    BY <2>1, FS_Subset, FS_CardinalityType
<1>5. Cardinality((S \ {u}) \cup {t}) <= Cardinality(A)
  <2>1. (S \ {u}) \cup {t} \subseteq A
    OBVIOUS
  <2>2. QED
    BY <1>4, <2>1, FS_Subset
<1>6. QED
  BY <1>1, <1>3, <1>4, <1>5, Constants

LEMMA StillCrowded ==
    ASSUME NEW t \in Tickets, Crowded(t),
           \A u \in Tickets : accepted[u] > 0 => accepted'[u] > 0
    PROVE  Crowded(t)'
<1> DEFINE B == {u \in Tickets \ {t} : accepted[u] > 0}
           C == {u \in Tickets \ {t} : accepted'[u] > 0}
<1>1. B \subseteq C /\ IsFiniteSet(C)
  <2>1. IsFiniteSet(Tickets) /\ C \in SUBSET Tickets
    BY Constants
  <2>2. QED
    BY <2>1, FS_Subset
<1>2. Cardinality(B) <= Cardinality(C) /\ Cardinality(C) \in Nat /\ Cardinality(B) \in Nat
  BY <1>1, FS_Subset, FS_CardinalityType
<1>3. Cardinality(B) >= CacheSize
  BY DEF Crowded
<1> HIDE DEF B, C
<1>4. Cardinality(C) >= CacheSize
  BY <1>2, <1>3, Constants
<1>5. QED
  BY <1>4 DEF Crowded, C

(* n is what mark_used leaves in a store that held c, and t not. *)
Marks(c, t, n) ==
    /\ n \in Seq(AllTickets) /\ t \in Members(n)
    /\ \A i \in 1..Len(n) : n[i] = t \/ n[i] \in Members(c)
    /\ (\A i, j \in 1..Len(c) : c[i] = c[j] => i = j) =>
          \A i, j \in 1..Len(n) : n[i] = n[j] => i = j
    /\ \A u \in Members(c) : u \in Members(n) \/ Len(c) >= CacheSize

LEMMA MarkedType ==
    ASSUME NEW c \in Seq(AllTickets), NEW t \in AllTickets, t \notin Members(c),
           NEW n, n = Append(Evict(c), t)
    PROVE  Marks(c, t, n)
<1>1. PICK e \in Seq(AllTickets) : e = Evict(c)
  BY EvictType
<1>2. PICK d \in Nat : /\ d > 0 => Len(c) >= CacheSize
                       /\ Len(e) = IF d <= Len(c) THEN Len(c) - d ELSE 0
                       /\ \A i \in 1..Len(e) : e[i] = c[i + d]
  BY <1>1, EvictType
<1>3. PICK m \in Nat : m = Len(e)
  OBVIOUS
<1>4. PICK l \in Nat : l = Len(c)
  OBVIOUS
<1>5. /\ n \in Seq(AllTickets) /\ Len(n) = m + 1 /\ n[m + 1] = t
      /\ \A i \in 1..m : n[i] = e[i]
  BY <1>1, <1>3
<1>6. \A i \in 1..m : i + d \in 1..l /\ n[i] = c[i + d]
  BY <1>2, <1>3, <1>4, <1>5
<1>7. \A i \in 1..l : c[i] \in Members(c)
  BY <1>4 DEF Members
<1>8. \A i \in 1..m + 1 : i = m + 1 \/ i \in 1..m
  OBVIOUS
<1>9. t \in Members(n)
  BY <1>5 DEF Members
<1>10. \A i \in 1..Len(n) : n[i] = t \/ n[i] \in Members(c)
  BY <1>5, <1>6, <1>7, <1>8
<1>11. ASSUME \A i, j \in 1..Len(c) : c[i] = c[j] => i = j
       PROVE  \A i, j \in 1..Len(n) : n[i] = n[j] => i = j
  <2> SUFFICES ASSUME NEW i \in 1..m + 1, NEW j \in 1..m + 1, n[i] = n[j]
               PROVE  i = j
    BY <1>5
  <2>1. CASE i \in 1..m /\ j \in 1..m
    <3>1. c[i + d] = c[j + d] /\ i + d \in 1..l /\ j + d \in 1..l
      BY <1>6, <2>1
    <3>2. i + d = j + d
      BY <1>4, <1>11, <3>1
    <3>3. QED
      BY <2>1, <3>2
  <2>2. CASE i = m + 1 /\ j \in 1..m
    BY <1>5, <1>6, <1>7, <2>2
  <2>3. CASE i \in 1..m /\ j = m + 1
    BY <1>5, <1>6, <1>7, <2>3
  <2>4. QED
    BY <1>8, <2>1, <2>2, <2>3
<1>12. ASSUME NEW u \in Members(c), ~(Len(c) >= CacheSize)
       PROVE  u \in Members(n)
  <2>1. PICK i \in 1..l : c[i] = u
    BY <1>4 DEF Members
  <2>2. d = 0 /\ m = l
    BY <1>2, <1>3, <1>4, <1>12
  <2>3. n[i] = u /\ i \in 1..Len(n)
    BY <1>5, <1>6, <2>1, <2>2
  <2>4. QED
    BY <2>3 DEF Members
<1>13. QED
  BY <1>5, <1>9, <1>10, <1>11, <1>12 DEF Marks

LEMMA MemoryMarkInv ==
    ASSUME Inv, NEW w \in Workers, call[w].stage = "mark", ~deployment.store.table,
           InMemoryMark(w, call[w].ticket),
           UNCHANGED <<now, keys, tickets, rows, faulted, deployment>>
    PROVE  Inv'
<1>1. PICK t : t = call[w].ticket
  OBVIOUS
<1>2. PICK o : o = Store(w)
  OBVIOUS
<1>3. PICK c : c = cache[o]
  OBVIOUS
<1>4. /\ TypeOK /\ now \in Nat /\ faulted \subseteq AllTickets
      /\ t \in Tickets /\ t \in AllTickets /\ Issued(t)
      /\ accepted \in [Tickets -> Nat]
      /\ cache \in [Workers \cup {Shared} -> Seq(AllTickets)]
  BY <1>1, IssuedType DEF Inv, TypeOK, Marking, AllTickets
<1>5. o \in Workers \cup {Shared} /\ (InMemory => o = Shared)
  BY <1>2 DEF Store, InMemory
<1>6. c \in Seq(AllTickets) /\ "StoreError" \in Results /\ "Ok" \in Results
  BY <1>3, <1>4, <1>5 DEF Results
<1>7. CASE t \in Members(c) /\ Refuses(w) /\ UNCHANGED cache
  <2>1. accepted[t] >= 1
    BY <1>3, <1>5, <1>7, MembersUsed
  <2>2. QED
    BY <1>1, <1>4, <1>6, <1>7, <2>1, EndStep DEF Refuses
<1>8. CASE /\ t \notin Members(c) /\ Accepts(w, t)
           /\ cache' = [cache EXCEPT ![o] = Append(Evict(c), t)]
  <2>1. PICK k \in Calls : /\ call' = [call EXCEPT ![w] = k]
                           /\ k.stage = "idle" /\ k.ticket = t /\ k.result = "Ok"
    BY <1>1, <1>4, <1>6, <1>8, FinishedCall DEF Accepts
  <2>2. /\ call' \in [Workers -> Calls] /\ call'[w] = k
        /\ \A x \in Workers : x # w => call'[x] = call[x]
    BY <1>4, <2>1, CallEdit
  <2>3. /\ accepted' \in [Tickets -> Nat]
        /\ \A u \in Tickets : u # t => accepted'[u] = accepted[u]
        /\ accepted'[t] >= 1 /\ (accepted[t] = 0 => accepted'[t] = 1)
    BY <1>4, <1>8, Constants DEF Accepts
  <2>4. PICK n : n = Append(Evict(c), t) /\ Marks(c, t, n)
    BY <1>4, <1>6, <1>8, MarkedType
  <2>5. /\ n \in Seq(AllTickets) /\ t \in Members(n)
        /\ \A i \in 1..Len(n) : n[i] = t \/ n[i] \in Members(c)
        /\ (\A i, j \in 1..Len(c) : c[i] = c[j] => i = j) =>
              \A i, j \in 1..Len(n) : n[i] = n[j] => i = j
        /\ \A u \in Members(c) : u \in Members(n) \/ Len(c) >= CacheSize
    BY <2>4 DEF Marks
  <2>6. /\ cache' \in [Workers \cup {Shared} -> Seq(AllTickets)] /\ cache'[o] = n
        /\ \A p \in Workers \cup {Shared} : p # o => cache'[p] = cache[p]
    BY <1>4, <1>5, <1>8, <2>4, <2>5
  <2>7. TypeOK'
    BY <1>4, <2>2, <2>3, <2>6 DEF TypeOK
  <2>8. \A u : Issued(u)' <=> Issued(u)
    BY DEF Issued
  <2>9. Timely' /\ Marking' /\ Dated' /\ CheckedBefore'
    <3>1. Timely'
      BY <2>1, <2>2, <2>8 DEF Inv, Timely
    <3>2. Marking'
      BY <2>1, <2>2, <2>8 DEF Inv, Marking, MaxLifetime
    <3>3. Dated'
      BY <2>8 DEF Inv, Dated
    <3>4. CheckedBefore'
      BY <2>1, <2>2 DEF Inv, CheckedBefore
    <3>5. QED
      BY <3>1, <3>2, <3>3, <3>4
  <2>10. \A u \in Tickets : accepted[u] >= 1 => accepted'[u] >= 1
    BY <2>3
  <2>11. Accounted'
    <3>1. \A u : Used(u) => Used(u)'
      BY <2>10 DEF Used
    <3>2. Used(t)'
      BY <1>4, <2>3 DEF Used
    <3>3. (\A r \in rows : r.ticket \in faulted \/ Used(r.ticket))'
      BY <3>1 DEF Inv, Accounted
    <3>4. ASSUME NEW p \in Workers \cup {Shared}, NEW i \in 1..Len(cache'[p])
          PROVE  cache'[p][i] \in Tickets /\ accepted'[cache'[p][i]] >= 1
      <4>1. PICK v : v = cache'[p][i]
        OBVIOUS
      <4>2. v = t \/ Used(v)
        <5>1. CASE p = o
          <6>1. v = t \/ v \in Members(c)
            BY <2>5, <2>6, <3>4, <4>1, <5>1
          <6>2. QED
            BY <1>3, <1>5, <6>1, MembersUsed DEF Used
        <5>2. CASE p # o
          BY <2>6, <3>4, <4>1, <5>2 DEF Inv, Accounted
        <5>3. QED
          BY <5>1, <5>2
      <4>3. Used(v)'
        BY <3>1, <3>2, <4>2
      <4>4. QED
        BY <4>1, <4>3 DEF Used
    <3>5. \A u \in Tickets : accepted'[u] >= 1 => Issued(u)
      BY <1>4, <2>3 DEF Inv, Accounted
    <3>6. QED
      BY <2>8, <3>3, <3>4, <3>5 DEF Accounted, Used
  <2>12. Answered'
    <3>1. \A x \in Workers : call'[x].result = "Invalid" => call'[x] = call[x]
      BY <2>1, <2>2
    <3>2. QED
      BY <2>8, <3>1 DEF Inv, Answered
  <2>13. Once'
    BY DEF Once
  <2>14. Kept'
    <3> SUFFICES ASSUME InMemory, ~deployment.faults
                 PROVE  /\ \A i, j \in 1..Len(n) : n[i] = n[j] => i = j
                        /\ \A u \in Tickets : accepted'[u] >= 1 =>
                              \/ Crowded(u)'
                              \/ accepted'[u] = 1 /\ u \in Members(n)
      <4>1. InMemory => cache'[Shared] = n
        BY <1>5, <2>6
      <4>2. InMemory' <=> InMemory
        BY DEF InMemory
      <4>3. deployment'.faults = deployment.faults
        OBVIOUS
      <4>4. cache'[Shared] = n => Members(cache[Shared])' = Members(n)
        BY DEF Members
      <4>5. QED
        BY <4>1, <4>2, <4>3, <4>4 DEF Kept
    <3>1. c = cache[Shared]
      BY <1>3, <1>5
    <3>2. /\ \A i, j \in 1..Len(c) : c[i] = c[j] => i = j
          /\ \A u \in Tickets : accepted[u] >= 1 =>
                \/ Crowded(u)
                \/ accepted[u] = 1 /\ u \in Members(c)
      BY <3>1 DEF Inv, Kept
    <3>3. \A u \in Tickets : Crowded(u) => Crowded(u)'
      <4> SUFFICES ASSUME NEW u \in Tickets, Crowded(u)
                   PROVE  Crowded(u)'
        OBVIOUS
      <4>1. \A v \in Tickets : accepted[v] > 0 => accepted'[v] > 0
        BY <1>4, <2>3
      <4>2. QED
        BY <4>1, StillCrowded
    <3>4. ASSUME NEW u \in Tickets, accepted'[u] >= 1, ~Crowded(u)'
          PROVE  accepted'[u] = 1 /\ u \in Members(n)
      <4>1. ~Crowded(u)
        BY <3>3, <3>4
      <4>2. CASE u = t
        <5>1. accepted[t] = 0
          BY <1>4, <1>8, <3>2, <4>1, <4>2
        <5>2. QED
          BY <2>3, <2>5, <4>2, <5>1
      <4>3. CASE u # t
        <5>1. accepted'[u] = 1 /\ u \in Members(c)
          BY <2>3, <3>2, <3>4, <4>1, <4>3
        <5>2. ASSUME Len(c) >= CacheSize
              PROVE  FALSE
          <6>1. PICK S : S = Members(c)
            OBVIOUS
          <6>2. IsFiniteSet(S) /\ Cardinality(S) >= CacheSize
            BY <1>6, <3>2, <5>2, <6>1, MembersCount
          <6>3. S \in SUBSET Tickets /\ \A v \in S : accepted[v] >= 1
            BY <1>3, <1>5, <6>1, MembersUsed
          <6>4. PICK A : A = {v \in Tickets \ {u} : accepted'[v] > 0}
            OBVIOUS
          <6>5. A \in SUBSET (Tickets \ {u}) /\ S \ {u} \subseteq A /\ t \in A
            BY <1>4, <2>3, <4>3, <6>3, <6>4
          <6>6. Cardinality(A) >= CacheSize
            BY <1>4, <1>8, <5>1, <6>1, <6>2, <6>3, <6>5, CrowdedOut
          <6>7. QED
            BY <3>4, <6>4, <6>6 DEF Crowded
        <5>3. QED
          BY <2>5, <5>1, <5>2
      <4>4. QED
        BY <4>2, <4>3
    <3>5. QED
      BY <2>5, <3>2, <3>4
  <2>15. FirstUseSucceeds'
    <3> SUFFICES ASSUME NEW x \in Workers, call'[x].result \in {"Replay", "StoreError"}
                 PROVE  \/ ~deployment'.store.fits
                        \/ call'[x].ticket \in faulted'
                        \/ call'[x].ticket \in Tickets /\ accepted'[call'[x].ticket] >= 1
      BY DEF FirstUseSucceeds
    <3>1. x # w /\ call'[x] = call[x]
      BY <2>1, <2>2
    <3>2. QED
      BY <2>10, <3>1 DEF Inv, FirstUseSucceeds
  <2>16. QED
    BY <2>7, <2>9, <2>11, <2>12, <2>13, <2>14, <2>15 DEF Inv
<1>9. QED
  BY <1>1, <1>2, <1>3, <1>7, <1>8 DEF InMemoryMark

LEMMA MarkInv ==
    ASSUME Inv, NEW w \in Workers, mark_ticket_used(w)
    PROVE  Inv'
<1>1. call[w].stage = "mark" /\ UNCHANGED <<now, keys, tickets, deployment>>
  BY DEF mark_ticket_used
<1>2. CASE /\ ~deployment.store.table /\ InMemoryMark(w, call[w].ticket)
           /\ UNCHANGED <<rows, faulted>>
  BY <1>1, <1>2, MemoryMarkInv
<1>3. CASE /\ deployment.store.table /\ DatabaseMark(w, call[w].ticket)
           /\ UNCHANGED cache
  BY <1>1, <1>3, DatabaseMarkInv
<1>4. QED
  BY <1>2, <1>3 DEF mark_ticket_used

-----------------------------------------------------------------------------
(* The invariant. *)

LEMMA InitInv ==
    ASSUME Init
    PROVE  Inv
<1>1. PICK k \in Keys : keys = <<k>>
  BY DEF Init
<1>2. /\ now = 0 /\ tickets = [t \in Tickets |-> NoTicket] /\ rows = {}
      /\ cache = [w \in Workers \cup {Shared} |-> << >>]
      /\ accepted = [t \in Tickets |-> 0] /\ faulted = {}
      /\ deployment \in Deployments
  BY DEF Init
<1>3. call = [w \in Workers |->
                [stage |-> "idle", ticket |-> Shared, keys |-> << >>,
                 start |-> 0, result |-> "none", next |-> "none"]]
  BY DEF Init
<1>4. \A w \in Workers : /\ call[w] \in Calls /\ call[w].stage = "idle"
                         /\ call[w].result = "none"
  <2>1. << >> \in Seq(Keys)
    OBVIOUS
  <2> DEFINE c == [stage |-> "idle", ticket |-> Shared, keys |-> << >>,
                   start |-> 0, result |-> "none", next |-> "none"]
  <2>2. c \in Calls /\ c.stage = "idle" /\ c.result = "none"
    BY <2>1 DEF Calls, Results
  <2>3. \A w \in Workers : call[w] = c
    BY <1>3
  <2> HIDE DEF c
  <2>4. QED
    BY <2>2, <2>3
<1>5. call \in [Workers -> Calls]
  BY <1>3, <1>4
<1>6. \A t : ~Issued(t)
  BY <1>2 DEF Issued
<1>7. \A t \in Tickets : accepted[t] = 0
  BY <1>2
<1>8. \A o \in Workers \cup {Shared} : 1..Len(cache[o]) = {}
  BY <1>2
<1>9. TypeOK
  <2>1. keys \in Seq(Keys)
    BY <1>1
  <2>2. tickets \in [Tickets -> States]
    <3>1. NoTicket \in States
      BY DEF NoTicket, States
    <3>2. QED
      BY <1>2, <3>1
  <2>3. cache \in [Workers \cup {Shared} -> Seq(AllTickets)]
    <3>1. << >> \in Seq(AllTickets)
      OBVIOUS
    <3>2. QED
      BY <1>2, <3>1
  <2>4. QED
    BY <1>2, <1>5, <2>1, <2>2, <2>3 DEF TypeOK
<1>10. Timely /\ Marking /\ Answered /\ CheckedBefore /\ FirstUseSucceeds
  BY <1>4 DEF Timely, Marking, Answered, CheckedBefore, FirstUseSucceeds
<1>11. Dated
  BY <1>2, <1>6 DEF Dated
<1>12. Accounted
  BY <1>2, <1>7, <1>8 DEF Accounted
<1>13. Once
  BY <1>7 DEF Once
<1>14. Kept
  BY <1>7, <1>8 DEF Kept
<1>15. QED
  BY <1>9, <1>10, <1>11, <1>12, <1>13, <1>14 DEF Inv

LEMMA NextInv ==
    ASSUME Inv, [Next]_vars
    PROVE  Inv'
<1>1. ASSUME NEW k \in Keys, add_key(k)
      PROVE  Inv'
  <2>1. keys \in Seq(Keys)
    BY DEF Inv, TypeOK
  <2>2. keys' \in Seq(Keys)
    BY <1>1, <2>1 DEF add_key
  <2>3. QED
    BY <1>1, <2>2, KeysInv DEF add_key
<1>2. ASSUME NEW id \in KeyIds, remove_key(id)
      PROVE  Inv'
  <2>1. keys \in Seq(Keys)
    BY DEF Inv, TypeOK
  <2>2. keys' \in Seq(Keys)
    BY <1>2, <2>1, WithoutType DEF remove_key
  <2>3. QED
    BY <1>2, <2>2, KeysInv DEF remove_key
<1>3. ASSUME NEW t \in Tickets, NEW l \in deployment.lifetimes, NEW a \in BOOLEAN,
             encrypt_session_ticket(t, l, a)
      PROVE  Inv'
  BY <1>3, EncryptInv
<1>4. ASSUME NEW w \in Workers,
             \/ \E t \in AllTickets : decrypt_session_ticket(w, t)
             \/ is_ticket_replay(w)
             \/ Validate(w)
             \/ mark_ticket_used(w)
             \/ HandshakeTimedOut(w)
      PROVE  Inv'
  BY <1>4, DecryptInv, ReplayInv, ValidateInv, MarkInv, TimeoutInv
<1>5. CASE prune_expired
  BY <1>5, PruneInv
<1>6. CASE Restart
  BY <1>6, RestartInv
<1>7. CASE Tick
  BY <1>7, TickInv
<1>8. CASE UNCHANGED vars
  <2>1. keys \in Seq(Keys)
    BY DEF Inv, TypeOK
  <2>2. QED
    BY <1>8, <2>1, KeysInv DEF vars
<1>9. QED
  BY <1>1, <1>2, <1>3, <1>4, <1>5, <1>6, <1>7, <1>8 DEF Next

(* Every reachable state of the ticket code satisfies the invariant: a     *)
(* call in progress is young, entries are dated after their tickets, and   *)
(* what was accepted is either in the store or can no longer be marked.    *)
THEOREM Safety == Spec => []Inv
<1>1. Init => Inv
  BY InitInv
<1>2. Inv /\ [Next]_vars => Inv'
  BY NextInv
<1>3. QED
  BY <1>1, <1>2, PTL DEF Spec

(* However calls interleave between the replay check and the mark, and     *)
(* whatever the database does, a ticket is accepted once, in every         *)
(* deployment whose entries outlive the tickets they guard; the in-memory  *)
(* store forgets a ticket only when it was crowded out.                    *)
THEOREM TicketsSingleUse == Spec => [](Lasting => SingleUse)
<1>1. ASSUME Inv, Lasting
      PROVE  SingleUse
  <2> SUFFICES ASSUME NEW t \in Tickets, accepted[t] > 1, Remembers
               PROVE  /\ ~deployment.store.table
                      /\ Cardinality({u \in Tickets \ {t} : accepted[u] > 0}) >= CacheSize
    BY DEF SingleUse
  <2>1. accepted[t] \in Nat
    BY <1>1 DEF Inv, TypeOK
  <2>2. CASE deployment.store.table
    BY <1>1, <2>1, <2>2 DEF Inv, Once, Lasting
  <2>3. CASE ~deployment.store.table
    <3>1. InMemory /\ ~deployment.faults
      BY <1>1, <2>3 DEF Remembers, Lasting, InMemory
    <3>2. Crowded(t)
      BY <1>1, <2>1, <3>1 DEF Inv, Kept
    <3>3. QED
      BY <2>3, <3>2 DEF Crowded
  <2>4. QED
    BY <2>2, <2>3
<1>2. Inv => (Lasting => SingleUse)
  BY <1>1
<1>3. QED
  BY <1>2, Safety, PTL

(* Of the calls that race for a ticket one wins: a ticket is refused as    *)
(* used only after it was accepted or a store operation failed on it.      *)
THEOREM FirstUse == Spec => []FirstUseSucceeds
<1>1. Inv => FirstUseSucceeds
  BY DEF Inv
<1>2. QED
  BY <1>1, Safety, PTL

(* The key sets given to the calls hold no two keys with the same id.      *)
UniqueIds ==
    \A w \in Workers : \A k, l \in Members(call[w].keys) : k.id = l.id => k = l

(* Rotation costs nobody a session as long as an id names one key of the   *)
(* set: find_key takes the first key with the id, so a second one with it  *)
(* is never tried.                                                         *)
THEOREM RotationSafe == Spec => [](UniqueIds => RotationKeepsTickets)
<1>1. ASSUME NEW ks \in Seq(Keys), NEW k \in Members(ks),
             \A j, l \in Members(ks) : j.id = l.id => j = l
      PROVE  find_key(ks, k.id) = k
  <2> DEFINE match == {i \in 1..Len(ks) : ks[i].id = k.id}
             pos == CHOOSE i \in match : \A j \in match : i <= j
  <2>1. PICK n \in Nat : n = Len(ks)
    OBVIOUS
  <2>2. match \in SUBSET (1..n) /\ match # {}
    BY <1>1, <2>1 DEF Members
  <2>3. find_key(ks, k.id) = ks[pos]
    BY <2>2 DEF find_key
  <2>4. pos \in match
    <3> HIDE DEF match
    <3>1. QED
      BY <2>2, FirstPosition
  <2>5. ks[pos].id = k.id /\ pos \in 1..n
    BY <2>1, <2>4
  <2> HIDE DEF pos
  <2>6. ks[pos] \in Members(ks)
    BY <1>1, <2>1, <2>5 DEF Members
  <2>7. QED
    BY <1>1, <2>3, <2>5, <2>6
<1>2. ASSUME Inv, UniqueIds
      PROVE  RotationKeepsTickets
  <2> SUFFICES ASSUME NEW w \in Workers, call[w].result = "Invalid",
                      Issued(call[w].ticket),
                      tickets[call[w].ticket].key \in Members(call[w].keys)
               PROVE  tickets[call[w].ticket].require_client_auth
    BY DEF RotationKeepsTickets
  <2>1. call[w].keys \in Seq(Keys)
    BY <1>2, CallType DEF Inv
  <2>2. find_key(call[w].keys, tickets[call[w].ticket].key.id)
          = tickets[call[w].ticket].key
    BY <1>1, <1>2, <2>1 DEF UniqueIds
  <2>3. call[w].ticket \notin Forged
    BY IssuedType, Constants
  <2>4. QED
    BY <1>2, <2>2, <2>3 DEF Inv, Answered
<1>3. Inv => (UniqueIds => RotationKeepsTickets)
  BY <1>2
<1>4. QED
  BY <1>3, Safety, PTL
=============================================================================
