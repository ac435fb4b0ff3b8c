---------------------------- MODULE RateLimiter ----------------------------
(***************************************************************************)
(* The per-caller rate limiter of the certificate authority                *)
(* (gm-ca/src/service.rs: PerCallerLimiter and TokenBucket).  check runs   *)
(* under a mutex, so calls are one step each; the hard part is time: the   *)
(* whole bucket is refilled by the first check a period after the last     *)
(* refill, and every check reaps the buckets of all callers by the age of  *)
(* their last refill, which is not the time of their last use.             *)
(***************************************************************************)
EXTENDS Integers, Sequences, FiniteSets

CONSTANTS
    Callers,        \* peer IPs
    Capacity,
    RefillPeriod,
    IdleTtl,
    MaxTime         \* bound: the last instant

ASSUME RateLimiterConstants ==
    /\ Capacity \in Nat /\ RefillPeriod \in Nat \ {0}
    /\ IdleTtl \in Nat /\ MaxTime \in Nat

VARIABLES
    now,
    buckets,    \* the HashMap: [tokens, last_refill] by caller, or NoBucket
    admitted,   \* history: for each caller the instants it was admitted at
    refused     \* history: instants it was refused at

limiter_vars == <<now, buckets, admitted, refused>>

NoBucket == [tokens |-> 0, last_refill |-> -1]

LimiterInit ==
    /\ now = 0
    /\ buckets = [c \in Callers |-> NoBucket]
    /\ admitted = [c \in Callers |-> << >>]
    /\ refused = [c \in Callers |-> {}]

NewBucket == [tokens |-> Capacity, last_refill |-> now]

refill(b) ==
    IF now - b.last_refill >= RefillPeriod
    THEN [tokens |-> Capacity, last_refill |-> now] ELSE b

try_consume(b) == b.tokens > 0

(* Seeded fault: a bucket is reaped as soon as it is empty. *)
Reapable_empty(b) == b # NoBucket /\ b.tokens = 0

Reapable(b) == b # NoBucket /\ now - b.last_refill > IdleTtl

(* map.retain, then the entry of the caller, made if need be. *)
Retained(c) == IF Reapable(buckets[c]) THEN NoBucket ELSE buckets[c]

(* Seeded fault: one bucket for all callers, as before it was per caller. *)
Entry_shared(c) ==
    LET used == {Retained(d) : d \in Callers} \ {NoBucket}
    IN  IF used = {} THEN NewBucket
        ELSE CHOOSE b \in used : \A e \in used : b.tokens <= e.tokens

Entry(c) == IF Retained(c) = NoBucket THEN NewBucket ELSE Retained(c)

check(c) ==
    LET b == refill(Entry(c))
        ok == try_consume(b)
    IN
    /\ buckets' = [d \in Callers |->
                     IF d # c THEN Retained(d)
                     ELSE IF ok THEN [b EXCEPT !.tokens = @ - 1] ELSE b]
    /\ admitted' = IF ok THEN [admitted EXCEPT ![c] = Append(@, now)]
                   ELSE admitted
    /\ refused' = IF ok THEN refused
                  ELSE [refused EXCEPT ![c] = @ \cup {now}]
    /\ UNCHANGED now

Tick ==
    /\ now < MaxTime
    /\ now' = now + 1
    /\ UNCHANGED <<buckets, admitted, refused>>

LimiterNext == Tick \/ \E c \in Callers : check(c)

LimiterSpec == LimiterInit /\ [][LimiterNext]_limiter_vars

-----------------------------------------------------------------------------
(* Properties. *)

LimiterTypeOK ==
    /\ now \in Nat
    /\ buckets \in [Callers -> [tokens : Nat, last_refill : Nat \cup {-1}]]
    /\ admitted \in [Callers -> Seq(Nat)]
    /\ refused \in [Callers -> SUBSET Nat]

(* How many admissions of c fall into the period that starts at t. *)
AdmittedIn(c, t) ==
    Cardinality({i \in 1..Len(admitted[c]) :
                    admitted[c][i] >= t /\ admitted[c][i] < t + RefillPeriod})

(* However a caller times its requests around the refill, and whenever its *)
(* bucket is reaped and made anew, no period admits more than two buckets  *)
(* full (service.rs: "capacity and refill_period apply per caller").       *)
BurstBounded ==
    \A c \in Callers : \A t \in 0..now : AdmittedIn(c, t) <= 2 * Capacity

(* A caller is refused only because of its own requests: within the last   *)
(* period it was admitted a bucket full (service.rs: "one client's         *)
(* exhaustion no longer blocks other clients").                            *)
NoStarvation ==
    \A c \in Callers : \A t \in refused[c] :
        \E u \in 0..t : t - u < RefillPeriod /\ AdmittedIn(c, u) >= Capacity
=============================================================================
