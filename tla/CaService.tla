----------------------------- MODULE CaService -----------------------------
(***************************************************************************)
(* The certificate authority's gRPC service (gm-ca/src/service.rs) over    *)
(* its certificate table (gm-ca/src/db.rs).  tonic runs requests           *)
(* concurrently; a request is cut at its database calls, each of which is  *)
(* one SQL statement and atomic.  Certificates are their serial numbers,   *)
(* which the signer draws at random and never twice.                       *)
(*                                                                         *)
(* The rate limiter in front of sign and renew (module RateLimiter) may    *)
(* refuse any request; a refused request changes nothing here.             *)
(***************************************************************************)
EXTENDS Integers, Sequences, FiniteSets

CONSTANTS
    Workers,        \* requests that can be in progress at once
    Serials,        \* serial numbers the signer may draw
    Own,            \* the service's ca_subject_cn
    IssuerCns,      \* values of GetCrlRequest.issuer_cn
    Profiles,       \* certificate profiles a caller may supply
    DefaultProfile, \* CertProfile::default()
    Validities,     \* values of validity_days and validity_seconds
    SecondsPerDay,  \* 86400
    MaxDays,        \* 3650: what the service accepts
    MaxSeconds,     \* 31_536_000 (365 days): what the signer accepts
    Faults,         \* database statements may fail
    Restarts,       \* the process may end and start again
    MaxCrls         \* bound: CRL numbers a process takes

NoProfile == "empty"    \* profile_json = ""
NoSerial == "none"

ASSUME CaServiceConstants ==
    /\ DefaultProfile \in Profiles /\ NoProfile \notin Profiles
    /\ Validities # {} /\ Validities \subseteq [days : Int, seconds : Int]
    /\ {SecondsPerDay, MaxDays, MaxSeconds} \subseteq Nat
    /\ {Faults, Restarts} \subseteq BOOLEAN
    /\ MaxCrls \in Nat

VARIABLES
    table,      \* the rows of certificates, by serial number
    drawn,      \* serial numbers the signer has used
    expired,    \* serial numbers whose not_after has passed
    crl_number, \* the AtomicU64
    req,        \* [Workers -> the request in progress]
    issued,     \* history: certificates in an Ok response
    revoked_ok, \* history: serials a revocation answered success for
    renewals,   \* history: the Ok renewals and what was known before them
    crls        \* history: the CRLs this process handed out, in order

vars == <<table, drawn, expired, crl_number, req, issued, revoked_ok,
          renewals, crls>>

NoRow == [status |-> "none", issuer_cn |-> Own, profile |-> DefaultProfile]
Rows == [status : {"none", "active", "revoked"}, issuer_cn : {Own},
         profile : Profiles]

(* known and after are history: revoked_ok and Len(crls) when the request  *)
(* arrived.                                                                *)
Requests ==
    [stage : {"idle", "insert", "lookup", "number"},
     op : {"sign", "renew", "crl"},
     parent : Serials \cup {NoSerial}, new : Serials \cup {NoSerial},
     profile : Profiles, validity : Validities,
     issuer_cn : IssuerCns \cup {Own},
     known : SUBSET Serials, after : Nat, revoked : SUBSET Serials]

Idle == [stage |-> "idle", op |-> "sign", parent |-> NoSerial,
         new |-> NoSerial, profile |-> DefaultProfile,
         validity |-> CHOOSE v \in Validities : TRUE, issuer_cn |-> Own,
         known |-> {}, after |-> 0, revoked |-> {}]

Init ==
    /\ table = [s \in Serials |-> NoRow]
    /\ drawn = {} /\ expired = {}
    /\ crl_number = 1
    /\ req = [w \in Workers |-> Idle]
    /\ issued = {} /\ revoked_ok = {} /\ renewals = {}
    /\ crls = << >>

Exists(s) == table[s].status # "none"

(* The request is answered: with a response, or with an error status. *)
Answered(w) == req' = [req EXCEPT ![w] = Idle]

Proceed(w, r) == req' = [req EXCEPT ![w] = r]

-----------------------------------------------------------------------------
(* Signing. *)

(* An empty profile_json means the default profile. *)
RequestProfile(asked) == IF asked = NoProfile THEN DefaultProfile ELSE asked

(* validity_seconds goes before validity_days, which the service checks;   *)
(* the signer checks the seconds that come of either.                      *)
ValidityAccepted(v) ==
    IF v.seconds > 0 THEN v.seconds <= MaxSeconds
    ELSE /\ v.days > 0 /\ v.days <= MaxDays
         /\ v.days * SecondsPerDay \in 1..MaxSeconds

(* The part of sign and renew between the checks and the insert: the       *)
(* signer draws a serial number and signs, or refuses the request.         *)
Sign(w, r) ==
    \/ /\ ValidityAccepted(r.validity)
       /\ \E s \in Serials \ drawn :
             /\ drawn' = drawn \cup {s}
             /\ Proceed(w, [r EXCEPT !.stage = "insert", !.new = s])
    \/ /\ ~ValidityAccepted(r.validity)
       /\ Answered(w) /\ UNCHANGED drawn

(* A request over the rate limit, one whose CSR or profile does not parse  *)
(* and one whose CSR signature does not verify leave no trace.             *)
sign_certificate(w, asked, v) ==
    /\ req[w].stage = "idle"
    /\ Sign(w, [Idle EXCEPT !.op = "sign", !.validity = v,
                            !.profile = RequestProfile(asked)])
    /\ UNCHANGED <<table, expired, crl_number, issued, revoked_ok, renewals,
                   crls>>

(* renew_certificate up to its lookup. *)
renew_certificate(w, s, asked, v) ==
    /\ req[w].stage = "idle"
    /\ Proceed(w, [Idle EXCEPT
                     !.stage = "lookup", !.op = "renew", !.parent = s,
                     !.profile = RequestProfile(asked), !.validity = v,
                     !.known = revoked_ok])
    /\ UNCHANGED <<table, drawn, expired, crl_number, issued,
                   revoked_ok, renewals, crls>>

(* The lookup, the checks that follow it and the signature. *)
RenewLookup(w) ==
    LET s == req[w].parent
        renewable == table[s].status = "active" /\ s \notin expired
    IN
    /\ req[w].stage = "lookup"
    /\ \/ renewable /\ Sign(w, req[w])
       \/ ~renewable /\ Answered(w) /\ UNCHANGED drawn
       \/ Faults /\ Answered(w) /\ UNCHANGED drawn
    /\ UNCHANGED <<table, expired, crl_number, issued, revoked_ok, renewals,
                   crls>>

Row(r) == [status |-> "active", issuer_cn |-> Own, profile |-> r.profile]

HandOut(w) ==
    /\ Answered(w)
    /\ issued' = issued \cup {req[w].new}
    /\ renewals' =
         IF req[w].op # "renew" THEN renewals
         ELSE renewals \cup
              {[parent |-> req[w].parent, serial |-> req[w].new,
                known |-> req[w].known]}

(* Seeded fault: an insert that failed does not fail the request. *)
insert_certificate_unchecked(w) ==
    /\ req[w].stage = "insert"
    /\ HandOut(w)
    /\ \/ table' = [table EXCEPT ![req[w].new] = Row(req[w])]
       \/ Faults /\ UNCHANGED table
    /\ UNCHANGED <<drawn, expired, crl_number, revoked_ok, crls>>

(* INSERT, then the response.  A statement that fails may have been done.  *)
insert_certificate(w) ==
    /\ req[w].stage = "insert"
    /\ \/ /\ table' = [table EXCEPT ![req[w].new] = Row(req[w])]
          /\ HandOut(w)
       \/ /\ Faults
          /\ \/ table' = [table EXCEPT ![req[w].new] = Row(req[w])]
             \/ UNCHANGED table
          /\ Answered(w)
          /\ UNCHANGED <<issued, renewals>>
    /\ UNCHANGED <<drawn, expired, crl_number, revoked_ok, crls>>

-----------------------------------------------------------------------------
(* Revocation and the revocation list.  get_certificate only reads.        *)

Revoked == {s \in Serials : table[s].status = "revoked"}

(* Seeded fault: an UPDATE that found no active row counts as success. *)
revoke_certificate_no_count(w, s) ==
    /\ req[w].stage = "idle"
    /\ table' = IF table[s].status = "active"
                THEN [table EXCEPT ![s].status = "revoked"] ELSE table
    /\ revoked_ok' = revoked_ok \cup {s}
    /\ UNCHANGED <<drawn, expired, crl_number, req, issued, renewals,
                   crls>>

(* UPDATE ... WHERE status = 'active', and an error when that changed no   *)
(* row.  A statement that fails may have been done.                        *)
revoke_certificate(w, s) ==
    /\ req[w].stage = "idle"
    /\ table[s].status = "active"
    /\ table' = [table EXCEPT ![s].status = "revoked"]
    /\ \/ revoked_ok' = revoked_ok \cup {s}
       \/ Faults /\ UNCHANGED revoked_ok
    /\ UNCHANGED <<drawn, expired, crl_number, req, issued, renewals,
                   crls>>

(* get_crl up to its SELECT, which takes the issuer from the request. *)
get_crl(w, issuer_cn) ==
    /\ req[w].stage = "idle"
    /\ Proceed(w, [Idle EXCEPT
                     !.stage = "number", !.op = "crl",
                     !.issuer_cn = issuer_cn,
                     !.known = revoked_ok, !.after = Len(crls),
                     !.revoked = {s \in Revoked :
                                     table[s].issuer_cn = issuer_cn}])
    /\ UNCHANGED <<table, drawn, expired, crl_number, issued,
                   revoked_ok, renewals, crls>>

(* Seeded fault: the number is read and not advanced. *)
NextCrlNumber_stuck == crl_number

NextCrlNumber == crl_number + 1

(* fetch_add and generate_crl: the CRL is signed in the service's own      *)
(* name.  The number is used up also when the signer fails.                *)
generate_crl(w) ==
    /\ req[w].stage = "number"
    /\ crl_number <= MaxCrls
    /\ crl_number' = NextCrlNumber
    /\ \/ crls' = Append(crls, [number |-> crl_number, revoked |-> req[w].revoked,
                                known |-> req[w].known, after |-> req[w].after,
                                issuer_cn |-> req[w].issuer_cn])
       \/ UNCHANGED crls
    /\ Answered(w)
    /\ UNCHANGED <<table, drawn, expired, issued, revoked_ok, renewals>>

-----------------------------------------------------------------------------
(* A certificate's not_after passes. *)
Expire(s) ==
    /\ Exists(s) /\ s \notin expired
    /\ expired' = expired \cup {s}
    /\ UNCHANGED <<table, drawn, crl_number, req, issued, revoked_ok,
                   renewals, crls>>

(* SIGTERM and SIGINT drop the server future with every request in it; the *)
(* next process starts with a new counter.                                 *)
Restart ==
    /\ Restarts
    /\ crl_number' = 1
    /\ req' = [w \in Workers |-> Idle]
    /\ crls' = << >>
    /\ UNCHANGED <<table, drawn, expired, issued, revoked_ok, renewals>>

Next ==
    \/ \E w \in Workers :
          \/ \E p \in Profiles \cup {NoProfile}, v \in Validities :
                \/ sign_certificate(w, p, v)
                \/ \E s \in Serials : renew_certificate(w, s, p, v)
          \/ RenewLookup(w)
          \/ insert_certificate(w)
          \/ \E s \in Serials : revoke_certificate(w, s)
          \/ \E cn \in IssuerCns : get_crl(w, cn)
          \/ generate_crl(w)
    \/ \E s \in Serials : Expire(s)
    \/ Restart

Spec == Init /\ [][Next]_vars

-----------------------------------------------------------------------------
(* Properties. *)

TypeOK ==
    /\ table \in [Serials -> Rows]
    /\ drawn \subseteq Serials /\ expired \subseteq Serials
    /\ crl_number \in Nat
    /\ req \in [Workers -> Requests]
    /\ issued \subseteq Serials /\ revoked_ok \subseteq Serials
    /\ renewals \subseteq [parent : Serials, serial : Serials,
                           known : SUBSET Serials]
    /\ crls \in Seq([number : Nat, revoked : SUBSET Serials,
                     known : SUBSET Serials, after : Nat,
                     issuer_cn : IssuerCns])

(* A certificate in a client's hands has a row, so it can be revoked and   *)
(* will be listed, whatever statements failed (service.rs: "Persist        *)
(* renewed certificate to database (previously missing)").                 *)
IssuedIsRecorded == \A s \in issued : Exists(s)

(* A confirmed revocation takes hold: a CRL that is asked for afterwards   *)
(* under the service's own name lists the certificate (docs/gm-ca.en.md:   *)
(* "Retrieve the CRL for a given CA"), and no request that comes after it  *)
(* renews the certificate.                                                 *)
RevocationHolds ==
    /\ \A i \in 1..Len(crls) :
          crls[i].issuer_cn = Own => crls[i].known \subseteq crls[i].revoked
    /\ \A r \in renewals : r.parent \notin r.known

(* Of the CRLs of one process, one that is asked for after another was     *)
(* handed out supersedes it: its number is higher and it still lists what  *)
(* the other did, whatever was served in between (service.rs:              *)
(* "Monotonically increasing CRL number (RFC 5280 5.2.3)").                *)
CrlSupersedes ==
    \A i, j \in 1..Len(crls) :
        i <= crls[j].after =>
            /\ crls[i].number < crls[j].number
            /\ crls[i].issuer_cn = crls[j].issuer_cn
                  => crls[i].revoked \subseteq crls[j].revoked
=============================================================================
