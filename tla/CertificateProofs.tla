-------------------------- MODULE CertificateProofs --------------------------
(* Certificates, issued and verified, for every value of the constants.    *)
(* CaService: any number of requests in progress, of serial numbers, of    *)
(* CRLs, with failing statements and restarts.  RateLimiter: any number of *)
(* callers, however they time their requests.  CertChecks: every list of   *)
(* certificates and every configuration of a verifier.                     *)
EXTENDS CaService, RateLimiter, CertChecks, VecProofs, SequenceTheorems

-----------------------------------------------------------------------------
(* The inductive invariant.  A certificate's life is: drawn by the signer, *)
(* row inserted, row revoked; its status never goes back because a serial  *)
(* number is inserted by the one request that drew it.  What a request has *)
(* read from the table is compared with what was confirmed before it.      *)

(* A row belongs to a serial number that was drawn. *)
RowsDrawn == \A s \in Serials : Exists(s) => s \in drawn

(* A request about to insert is the only one with its serial number, and   *)
(* there is no row for it yet.                                             *)
InsertsFresh ==
    /\ \A w \in Workers : req[w].stage = "insert" =>
          /\ req[w].new \in Serials /\ req[w].new \in drawn
          /\ ~Exists(req[w].new)
    /\ \A v, w \in Workers :
          v # w /\ req[v].stage = "insert" /\ req[w].stage = "insert"
             => req[v].new # req[w].new

(* A confirmed revocation is in the table. *)
ConfirmedRevoked == revoked_ok \subseteq Revoked

(* A renewal that has passed its lookup was not of a certificate whose     *)
(* revocation had been confirmed when it arrived.                          *)
RenewalsSound ==
    \A w \in Workers :
        /\ req[w].stage = "lookup" =>
              /\ req[w].op = "renew" /\ req[w].parent \in Serials
              /\ req[w].known \subseteq revoked_ok
        /\ req[w].stage = "insert" /\ req[w].op = "renew" =>
              req[w].parent \in Serials /\ req[w].parent \notin req[w].known

(* What a CRL lists is revoked in the table, under the issuer of the CRL.  *)
ListedIn(revoked, issuer_cn) ==
    \A s \in revoked : s \in Revoked /\ table[s].issuer_cn = issuer_cn

(* A CRL request between its SELECT and its number: what it has read       *)
(* covers what was confirmed before and every CRL handed out before.       *)
SelectionsSound ==
    \A w \in Workers : req[w].stage = "number" =>
        LET r == req[w] IN
        /\ r.issuer_cn \in IssuerCns
        /\ r.issuer_cn = Own => r.known \subseteq r.revoked
        /\ ListedIn(r.revoked, r.issuer_cn)
        /\ r.after <= Len(crls)
        /\ \A i \in 1..r.after : crls[i].issuer_cn = r.issuer_cn =>
              crls[i].revoked \subseteq r.revoked

(* The CRLs that were handed out. *)
CrlsSound ==
    \A i \in 1..Len(crls) :
        /\ crls[i].number < crl_number
        /\ crls[i].after < i
        /\ ListedIn(crls[i].revoked, crls[i].issuer_cn)

Inv ==
    /\ TypeOK
    /\ RowsDrawn
    /\ InsertsFresh
    /\ ConfirmedRevoked
    /\ RenewalsSound
    /\ SelectionsSound
    /\ CrlsSound
    /\ IssuedIsRecorded
    /\ RevocationHolds
    /\ CrlSupersedes

-----------------------------------------------------------------------------
(* Lemmas. *)

LEMMA IdleType == Idle \in Requests /\ Idle.stage = "idle"
<1>1. (CHOOSE v \in Validities : TRUE) \in Validities
  BY CaServiceConstants
<1>2. DefaultProfile \in Profiles
  BY CaServiceConstants
<1>3. QED
  BY <1>1, <1>2 DEF Idle, Requests

LEMMA CrlTypes ==
    ASSUME TypeOK
    PROVE  \A i \in 1..Len(crls) : crls[i].number \in Nat /\ crls[i].after \in Nat
<1> DEFINE Crls == [number : Nat, revoked : SUBSET Serials,
                    known : SUBSET Serials, after : Nat, issuer_cn : IssuerCns]
<1>1. \A c \in Crls : c.number \in Nat /\ c.after \in Nat
  OBVIOUS
<1>2. crls \in Seq(Crls)
  BY DEF TypeOK
<1> HIDE DEF Crls
<1>3. QED
  BY <1>1, <1>2

(* All that has to be known of a request that w moves on to. *)
Sound(w, r) ==
    /\ r.stage = "insert" =>
          /\ r.new \in Serials /\ r.new \in drawn' /\ ~Exists(r.new)
          /\ \A v \in Workers : v # w /\ req[v].stage = "insert"
                => req[v].new # r.new
    /\ r.stage = "lookup" =>
          r.op = "renew" /\ r.parent \in Serials /\ r.known \subseteq revoked_ok
    /\ r.stage = "insert" /\ r.op = "renew" =>
          r.parent \in Serials /\ r.parent \notin r.known
    /\ r.stage = "number" =>
          /\ r.issuer_cn \in IssuerCns
          /\ r.issuer_cn = Own => r.known \subseteq r.revoked
          /\ ListedIn(r.revoked, r.issuer_cn)
          /\ r.after <= Len(crls)
          /\ \A i \in 1..r.after : crls[i].issuer_cn = r.issuer_cn =>
                crls[i].revoked \subseteq r.revoked

(* A step that moves one request, may use up numbers, and touches neither  *)
(* the table nor what was handed out.                                      *)
LEMMA RequestStep ==
    ASSUME Inv, NEW w \in Workers, NEW r \in Requests, Proceed(w, r),
           Sound(w, r), drawn \subseteq drawn', drawn' \subseteq Serials,
           crl_number' \in Nat, crl_number <= crl_number',
           UNCHANGED <<table, expired, issued, revoked_ok, renewals, crls>>
    PROVE  Inv'
<1> USE DEF Inv
<1>1. req' = [req EXCEPT ![w] = r] /\ req \in [Workers -> Requests]
  BY DEF Proceed, TypeOK
<1>2. TypeOK'
  BY <1>1 DEF TypeOK
<1>3. RowsDrawn' /\ ConfirmedRevoked' /\ CrlsSound'
  <2>1. \A i \in 1..Len(crls) : crls[i].number < crl_number'
    <3>1. \A i \in 1..Len(crls) : crls[i].number \in Nat
      BY CrlTypes
    <3>2. crl_number \in Nat
      BY DEF TypeOK
    <3>3. QED
      BY <3>1, <3>2 DEF CrlsSound
  <2>2. QED
    BY <2>1 DEF RowsDrawn, ConfirmedRevoked, CrlsSound, Exists, Revoked, ListedIn
<1>4. InsertsFresh'
  BY <1>1 DEF InsertsFresh, Sound, Exists
<1>5. RenewalsSound'
  BY <1>1 DEF RenewalsSound, Sound
<1>6. SelectionsSound'
  BY <1>1 DEF SelectionsSound, Sound, ListedIn, Revoked
<1>7. IssuedIsRecorded' /\ RevocationHolds' /\ CrlSupersedes'
  BY DEF IssuedIsRecorded, RevocationHolds, CrlSupersedes, Exists
<1>8. QED
  BY <1>2, <1>3, <1>4, <1>5, <1>6, <1>7

LEMMA ProceedStep ==
    ASSUME Inv, NEW w \in Workers, NEW r \in Requests, Proceed(w, r),
           Sound(w, r), drawn \subseteq drawn', drawn' \subseteq Serials,
           UNCHANGED <<table, expired, crl_number, issued, revoked_ok,
                       renewals, crls>>
    PROVE  Inv'
<1>1. crl_number' \in Nat /\ crl_number <= crl_number'
  BY DEF Inv, TypeOK
<1>2. QED
  BY <1>1, RequestStep

LEMMA AnsweredStep ==
    ASSUME Inv, NEW w \in Workers, Answered(w), drawn' = drawn,
           UNCHANGED <<table, expired, crl_number, issued, revoked_ok,
                       renewals, crls>>
    PROVE  Inv'
<1>1. Proceed(w, Idle)
  BY DEF Answered, Proceed
<1>2. Sound(w, Idle)
  BY IdleType DEF Sound
<1>3. drawn' \subseteq Serials
  BY DEF Inv, TypeOK
<1>4. QED
  BY <1>1, <1>2, <1>3, ProceedStep, IdleType

(* The signer's serial number is new to the table and to every request.    *)
LEMMA SignStep ==
    ASSUME Inv, NEW w \in Workers, NEW r \in Requests, Sign(w, r),
           r.op = "renew" => r.parent \in Serials /\ r.parent \notin r.known,
           UNCHANGED <<table, expired, crl_number, issued, revoked_ok,
                       renewals, crls>>
    PROVE  Inv'
<1>1. CASE Answered(w) /\ UNCHANGED drawn
  BY <1>1, AnsweredStep
<1>2. ASSUME NEW s \in Serials \ drawn, drawn' = drawn \cup {s},
             Proceed(w, [r EXCEPT !.stage = "insert", !.new = s])
      PROVE  Inv'
  <2> DEFINE n == [r EXCEPT !.stage = "insert", !.new = s]
  <2>1. n \in Requests /\ n.stage = "insert" /\ n.new = s /\ n.op = r.op
        /\ n.parent = r.parent /\ n.known = r.known
    BY DEF Requests
  <2>2. ~Exists(s)
    BY <1>2 DEF Inv, RowsDrawn
  <2>3. \A v \in Workers : req[v].stage = "insert" => req[v].new # s
    BY <1>2 DEF Inv, InsertsFresh
  <2> HIDE DEF n
  <2>4. Sound(w, n)
    BY <1>2, <2>1, <2>2, <2>3 DEF Sound
  <2>5. drawn' \subseteq Serials
    BY <1>2 DEF Inv, TypeOK
  <2>6. QED
    BY <1>2, <2>1, <2>4, <2>5, ProceedStep DEF n
<1>3. QED
  BY <1>1, <1>2 DEF Sign

-----------------------------------------------------------------------------
(* One lemma per action. *)

LEMMA SignCertificateInv ==
    ASSUME Inv, NEW w \in Workers, NEW p \in Profiles \cup {NoProfile},
           NEW d \in Validities, sign_certificate(w, p, d)
    PROVE  Inv'
<1> DEFINE r == [Idle EXCEPT !.op = "sign", !.validity = d,
                             !.profile = RequestProfile(p)]
<1>1. RequestProfile(p) \in Profiles
  BY CaServiceConstants DEF RequestProfile
<1>2. r \in Requests /\ r.op = "sign"
  BY <1>1, IdleType DEF Requests
<1> HIDE DEF r
<1>3. Sign(w, r)
  BY DEF sign_certificate, r
<1>4. QED
  BY <1>2, <1>3, SignStep DEF sign_certificate

LEMMA RenewCertificateInv ==
    ASSUME Inv, NEW w \in Workers, NEW s \in Serials,
           NEW p \in Profiles \cup {NoProfile}, NEW d \in Validities,
           renew_certificate(w, s, p, d)
    PROVE  Inv'
<1> DEFINE r == [Idle EXCEPT
                   !.stage = "lookup", !.op = "renew", !.parent = s,
                   !.profile = RequestProfile(p), !.validity = d,
                   !.known = revoked_ok]
<1>1. RequestProfile(p) \in Profiles /\ revoked_ok \subseteq Serials
      /\ drawn \subseteq Serials
  BY CaServiceConstants DEF RequestProfile, Inv, TypeOK
<1>2. /\ r \in Requests /\ r.stage = "lookup" /\ r.op = "renew"
      /\ r.parent = s /\ r.known = revoked_ok
  BY <1>1, IdleType DEF Requests
<1> HIDE DEF r
<1>3. Sound(w, r)
  BY <1>2 DEF Sound
<1>4. Proceed(w, r)
  BY DEF renew_certificate, r
<1>5. QED
  BY <1>1, <1>2, <1>3, <1>4, ProceedStep DEF renew_certificate

(* An active certificate is in no set of confirmed revocations. *)
LEMMA RenewLookupInv ==
    ASSUME Inv, NEW w \in Workers, RenewLookup(w)
    PROVE  Inv'
<1>1. CASE Answered(w) /\ UNCHANGED drawn
  BY <1>1, AnsweredStep DEF RenewLookup
<1>2. CASE table[req[w].parent].status = "active" /\ Sign(w, req[w])
  <2>1. req[w].parent \in Serials /\ req[w].known \subseteq revoked_ok
    BY DEF Inv, RenewalsSound, RenewLookup
  <2>2. req[w].parent \notin req[w].known
    BY <1>2, <2>1 DEF Inv, ConfirmedRevoked, Revoked
  <2>3. req[w] \in Requests
    BY DEF Inv, TypeOK
  <2>4. QED
    BY <1>2, <2>1, <2>2, <2>3, SignStep DEF RenewLookup
<1>3. QED
  BY <1>1, <1>2 DEF RenewLookup

(* The row of a certificate that had none. *)
LEMMA InsertCertificateInv ==
    ASSUME Inv, NEW w \in Workers, insert_certificate(w)
    PROVE  Inv'
<1> DEFINE new == req[w].new
<1> USE DEF Inv
<1>1. new \in Serials /\ new \in drawn /\ ~Exists(new) /\ req[w].stage = "insert"
      /\ req[w] \in Requests
  BY DEF insert_certificate, InsertsFresh, TypeOK
<1>2. table' = [table EXCEPT ![new] = Row(req[w])] \/ table' = table
  BY DEF insert_certificate, HandOut
<1>3. req' = [req EXCEPT ![w] = Idle]
  BY DEF insert_certificate, HandOut, Answered
<1>4. Row(req[w]) \in Rows /\ Row(req[w]).status = "active"
  BY <1>1 DEF Row, Rows, Requests
<1>5. \A s \in Serials : s # new => table'[s] = table[s]
  BY <1>2 DEF TypeOK
<1>6. \A s \in Serials : Exists(s) => Exists(s)' /\ table'[s] = table[s]
  BY <1>1, <1>5 DEF Exists
<1>7. \A s \in Revoked : s \in Revoked' /\ table'[s] = table[s]
  BY <1>1, <1>5 DEF Exists, Revoked
<1>8. UNCHANGED <<drawn, expired, crl_number, revoked_ok, crls>>
  BY DEF insert_certificate
<1>9. \/ UNCHANGED <<issued, renewals>>
      \/ /\ HandOut(w) /\ table' = [table EXCEPT ![new] = Row(req[w])]
         /\ issued' = issued \cup {new}
  BY DEF insert_certificate, HandOut
<1>10. \A v \in Workers : req'[v] = IF v = w THEN Idle ELSE req[v]
  BY <1>3 DEF TypeOK
<1>11. renewals' = renewals \/
         /\ req[w].op = "renew" /\ req[w].parent \in Serials
         /\ req[w].parent \notin req[w].known
         /\ renewals' = renewals \cup {[parent |-> req[w].parent, serial |-> new,
                                       known |-> req[w].known]}
  BY <1>1, <1>9 DEF HandOut, RenewalsSound
<1>12. TypeOK'
  <2>1. table' \in [Serials -> Rows]
    BY <1>1, <1>2, <1>4 DEF TypeOK
  <2>2. req' \in [Workers -> Requests]
    BY <1>3, IdleType DEF TypeOK
  <2>3. issued' \subseteq Serials
    BY <1>1, <1>9 DEF TypeOK
  <2>4. renewals' \subseteq [parent : Serials, serial : Serials,
                             known : SUBSET Serials]
    BY <1>1, <1>11 DEF TypeOK, Requests
  <2>5. QED
    BY <1>8, <2>1, <2>2, <2>3, <2>4 DEF TypeOK
<1>13. RowsDrawn'
  BY <1>1, <1>5, <1>8 DEF RowsDrawn, Exists
<1>14. InsertsFresh'
  BY <1>1, <1>5, <1>8, <1>10, IdleType DEF InsertsFresh, Exists
<1>15. ConfirmedRevoked'
  BY <1>7, <1>8 DEF ConfirmedRevoked
<1>16. RenewalsSound'
  BY <1>8, <1>10, IdleType DEF RenewalsSound
<1>17. SelectionsSound'
  BY <1>7, <1>8, <1>10, IdleType DEF SelectionsSound, ListedIn
<1>18. CrlsSound'
  BY <1>7, <1>8 DEF CrlsSound, ListedIn
<1>19. IssuedIsRecorded'
  BY <1>1, <1>4, <1>6, <1>9 DEF IssuedIsRecorded, Exists, TypeOK
<1>20. RevocationHolds' /\ CrlSupersedes'
  BY <1>8, <1>11 DEF RevocationHolds, CrlSupersedes
<1>21. QED
  BY <1>12, <1>13, <1>14, <1>15, <1>16, <1>17, <1>18, <1>19, <1>20

LEMMA RevokeCertificateInv ==
    ASSUME Inv, NEW w \in Workers, NEW s \in Serials, revoke_certificate(w, s)
    PROVE  Inv'
<1> USE DEF Inv
<1>1. /\ table[s].status = "active" /\ table[s] \in Rows
      /\ table' = [table EXCEPT ![s].status = "revoked"]
      /\ UNCHANGED <<drawn, expired, crl_number, req, issued, renewals, crls>>
      /\ revoked_ok' \subseteq revoked_ok \cup {s}
  BY DEF revoke_certificate, TypeOK
<1>2. /\ table' \in [Serials -> Rows] /\ table'[s].status = "revoked"
      /\ \A t \in Serials : t # s => table'[t] = table[t]
  BY <1>1 DEF TypeOK, Rows
<1>3. \A t \in Serials : Exists(t) <=> Exists(t)'
  BY <1>1, <1>2 DEF Exists
<1>4. \A t \in Revoked : t \in Revoked' /\ table'[t] = table[t]
  BY <1>1, <1>2 DEF Revoked
<1>5. s \in Revoked'
  BY <1>2 DEF Revoked
<1>6. TypeOK'
  BY <1>1, <1>2 DEF TypeOK
<1>7. RowsDrawn' /\ InsertsFresh' /\ IssuedIsRecorded'
  BY <1>1, <1>3 DEF RowsDrawn, InsertsFresh, IssuedIsRecorded, TypeOK
<1>8. ConfirmedRevoked'
  BY <1>1, <1>4, <1>5 DEF ConfirmedRevoked
<1>9. RenewalsSound'
  BY <1>1, revoked_ok \subseteq revoked_ok' DEF RenewalsSound, revoke_certificate
<1>10. SelectionsSound' /\ CrlsSound'
  BY <1>1, <1>4 DEF SelectionsSound, CrlsSound, ListedIn
<1>11. RevocationHolds' /\ CrlSupersedes'
  BY <1>1 DEF RevocationHolds, CrlSupersedes
<1>12. QED
  BY <1>6, <1>7, <1>8, <1>9, <1>10, <1>11

(* All rows are the service's own, so a CRL of that name lists everything  *)
(* that is revoked.                                                        *)
LEMMA GetCrlInv ==
    ASSUME Inv, NEW w \in Workers, NEW cn \in IssuerCns, get_crl(w, cn)
    PROVE  Inv'
<1> DEFINE listed == {s \in Revoked : table[s].issuer_cn = cn}
           r == [Idle EXCEPT !.stage = "number", !.op = "crl",
                             !.issuer_cn = cn, !.known = revoked_ok,
                             !.after = Len(crls), !.revoked = listed]
<1> USE DEF Inv
<1>1. /\ listed \subseteq Serials /\ revoked_ok \subseteq Serials
      /\ Len(crls) \in Nat /\ drawn \subseteq Serials
  BY DEF Revoked, TypeOK
<1>2. /\ r \in Requests /\ r.stage = "number" /\ r.issuer_cn = cn
      /\ r.known = revoked_ok /\ r.after = Len(crls) /\ r.revoked = listed
  BY <1>1, IdleType DEF Requests
<1>3. cn = Own => revoked_ok \subseteq listed
  BY DEF ConfirmedRevoked, Revoked, TypeOK, Rows
<1>4. \A i \in 1..Len(crls) : crls[i].issuer_cn = cn => crls[i].revoked \subseteq listed
  BY DEF CrlsSound, ListedIn
<1>5. ListedIn(listed, cn)
  BY DEF ListedIn
<1>6. Proceed(w, r)
  BY DEF get_crl
<1> HIDE DEF r, listed
<1>7. Sound(w, r)
  BY <1>1, <1>2, <1>3, <1>4, <1>5 DEF Sound
<1>8. QED
  BY <1>1, <1>2, <1>6, <1>7, ProceedStep DEF get_crl

(* The new CRL is the last one and has the highest number; nothing that    *)
(* was handed out refers to it.                                            *)
LEMMA CrlSignedInv ==
    ASSUME Inv, NEW w \in Workers, generate_crl(w), ~UNCHANGED crls
    PROVE  Inv'
<1> DEFINE r == req[w]
           crl == [number |-> crl_number, revoked |-> r.revoked,
                   known |-> r.known, after |-> r.after,
                   issuer_cn |-> r.issuer_cn]
           n == Len(crls)
<1> USE DEF Inv
<1>1. /\ r.stage = "number" /\ r \in Requests /\ r.issuer_cn \in IssuerCns
      /\ n \in Nat /\ r.after <= n /\ r.after \in Nat /\ crl_number \in Nat
  BY DEF generate_crl, TypeOK, SelectionsSound, Requests
<1>2. /\ crls' = Append(crls, crl) /\ crl_number' = crl_number + 1
      /\ UNCHANGED <<table, drawn, expired, issued, revoked_ok, renewals>>
  BY DEF generate_crl, NextCrlNumber
<1>3. /\ Len(crls') = n + 1 /\ crls'[n + 1] = crl
      /\ \A i \in 1..n : crls'[i] = crls[i]
  BY <1>2 DEF TypeOK
<1>4. /\ \A v \in Workers : req'[v] = IF v = w THEN Idle ELSE req[v]
      /\ req' \in [Workers -> Requests]
  BY IdleType DEF generate_crl, Answered, TypeOK
<1>5. TypeOK'
  <2> HIDE DEF crl
  <2>1. crl \in [number : Nat, revoked : SUBSET Serials, known : SUBSET Serials,
                 after : Nat, issuer_cn : IssuerCns]
    BY <1>1 DEF crl, Requests
  <2>2. QED
    BY <1>1, <1>2, <1>4, <2>1 DEF TypeOK
<1>6. RowsDrawn' /\ ConfirmedRevoked' /\ IssuedIsRecorded'
  BY <1>2 DEF RowsDrawn, ConfirmedRevoked, IssuedIsRecorded, Exists, Revoked
<1>7. InsertsFresh' /\ RenewalsSound'
  BY <1>2, <1>4, IdleType DEF InsertsFresh, RenewalsSound, Exists
<1>8. SelectionsSound'
  <2>1. \A v \in Workers : req'[v].stage = "number" => req'[v] = req[v]
    BY <1>4, IdleType
  <2>2. \A v \in Workers : req[v].stage = "number" =>
           req[v].after \in Nat /\ req[v].after <= n
    BY DEF TypeOK, Requests, SelectionsSound
  <2>3. \A v \in Workers : req[v].stage = "number" =>
           \A i \in 1..req[v].after : crls'[i] = crls[i]
    BY <1>1, <1>3, <2>2
  <2>4. Revoked' = Revoked
    BY <1>2 DEF Revoked
  <2>5. ASSUME NEW v \in Workers, req'[v].stage = "number"
        PROVE  LET x == req'[v] IN
               /\ x.issuer_cn \in IssuerCns
               /\ x.issuer_cn = Own => x.known \subseteq x.revoked
               /\ \A s \in x.revoked : s \in Revoked' /\ table'[s].issuer_cn = x.issuer_cn
               /\ x.after <= Len(crls')
               /\ \A i \in 1..x.after : crls'[i].issuer_cn = x.issuer_cn =>
                     crls'[i].revoked \subseteq x.revoked
    <3>1. PICK x : x = req[v]
      OBVIOUS
    <3>2. /\ req'[v] = x /\ x.stage = "number" /\ x.after \in Nat /\ x.after <= n
          /\ \A i \in 1..x.after : crls'[i] = crls[i]
      BY <2>1, <2>2, <2>3, <2>5, <3>1
    <3>3. /\ x.issuer_cn \in IssuerCns
          /\ x.issuer_cn = Own => x.known \subseteq x.revoked
          /\ ListedIn(x.revoked, x.issuer_cn)
          /\ \A i \in 1..x.after : crls[i].issuer_cn = x.issuer_cn =>
                crls[i].revoked \subseteq x.revoked
      BY <3>1, <3>2 DEF SelectionsSound
    <3>4. \A i \in 1..x.after : crls'[i].issuer_cn = x.issuer_cn =>
             crls'[i].revoked \subseteq x.revoked
      BY <3>2, <3>3
    <3>5. x.after <= Len(crls')
      BY <1>1, <1>3, <3>2
    <3>6. \A s \in x.revoked : s \in Revoked' /\ table'[s].issuer_cn = x.issuer_cn
      BY <1>2, <2>4, <3>3 DEF ListedIn
    <3>7. QED
      BY <3>2, <3>3, <3>4, <3>5, <3>6
  <2>6. QED
    BY <2>5 DEF SelectionsSound, ListedIn
<1>9. CrlsSound'
  <2>1. \A i \in 1..n : crls[i].number \in Nat /\ crls[i].after \in Nat
    BY CrlTypes
  <2>2. \A i \in 1..n : /\ crls'[i].number < crl_number'
                        /\ crls'[i].after < i
                        /\ ListedIn(crls[i].revoked, crls[i].issuer_cn)
    BY <1>1, <1>2, <1>3, <2>1 DEF CrlsSound
  <2>3. /\ crl.number < crl_number' /\ crl.after < n + 1
        /\ ListedIn(crl.revoked, crl.issuer_cn)
    BY <1>1, <1>2 DEF SelectionsSound
  <2>4. Revoked' = Revoked
    BY <1>2 DEF Revoked
  <2> HIDE DEF crl
  <2>5. QED
    BY <1>1, <1>2, <1>3, <2>2, <2>3, <2>4 DEF CrlsSound, ListedIn
<1>10. RevocationHolds'
  BY <1>1, <1>2, <1>3 DEF RevocationHolds, SelectionsSound
<1>11. CrlSupersedes'
  <2> SUFFICES ASSUME NEW i \in 1..Len(crls'), NEW j \in 1..Len(crls'),
                      i <= crls'[j].after
               PROVE  /\ crls'[i].number < crls'[j].number
                      /\ crls'[i].issuer_cn = crls'[j].issuer_cn
                            => crls'[i].revoked \subseteq crls'[j].revoked
    BY DEF CrlSupersedes
  <2>1. CASE j = n + 1
    <3>1. i \in 1..n /\ i \in 1..r.after
      BY <1>1, <1>3, <2>1
    <3>2. QED
      BY <1>1, <1>3, <2>1, <3>1 DEF CrlsSound, SelectionsSound
  <2>2. CASE j \in 1..n
    <3>1. crls[j].after \in Nat /\ crls[j].after < j /\ crls'[j] = crls[j]
      BY <1>3, <2>2, CrlTypes DEF CrlsSound
    <3>2. i \in 1..n
      BY <1>1, <1>3, <2>2, <3>1
    <3>3. QED
      BY <1>3, <2>2, <3>1, <3>2 DEF CrlSupersedes
  <2>3. QED
    BY <1>1, <1>3, <2>1, <2>2
<1>12. QED
  BY <1>5, <1>6, <1>7, <1>8, <1>9, <1>10, <1>11

LEMMA GenerateCrlInv ==
    ASSUME Inv, NEW w \in Workers, generate_crl(w)
    PROVE  Inv'
<1>1. CASE UNCHANGED crls
  <2>1. /\ Proceed(w, Idle) /\ drawn' \subseteq Serials /\ drawn \subseteq drawn'
        /\ crl_number' \in Nat /\ crl_number <= crl_number'
    BY DEF generate_crl, NextCrlNumber, Answered, Proceed, Inv, TypeOK
  <2>2. Sound(w, Idle)
    BY IdleType DEF Sound
  <2>3. QED
    BY <1>1, <2>1, <2>2, IdleType, RequestStep DEF generate_crl
<1>2. QED
  BY <1>1, CrlSignedInv

LEMMA ExpireInv ==
    ASSUME Inv, NEW s \in Serials, Expire(s)
    PROVE  Inv'
  BY DEF Inv, Expire, TypeOK, RowsDrawn, InsertsFresh, ConfirmedRevoked,
         RenewalsSound, SelectionsSound, CrlsSound, IssuedIsRecorded,
         RevocationHolds, CrlSupersedes, Exists, Revoked, ListedIn

(* A restart forgets the requests and the CRLs with their counter. *)
LEMMA RestartInv ==
    ASSUME Inv, Restart
    PROVE  Inv'
<1> USE DEF Inv
<1>1. /\ req' \in [Workers -> Requests]
      /\ \A w \in Workers : req'[w].stage = "idle"
  BY IdleType DEF Restart
<1>2. /\ crls' = << >> /\ crl_number' = 1
      /\ UNCHANGED <<table, drawn, expired, issued, revoked_ok, renewals>>
  BY DEF Restart
<1>3. TypeOK'
  BY <1>1, <1>2 DEF TypeOK
<1>4. InsertsFresh' /\ RenewalsSound' /\ SelectionsSound'
  BY <1>1 DEF InsertsFresh, RenewalsSound, SelectionsSound
<1>5. RowsDrawn' /\ ConfirmedRevoked' /\ IssuedIsRecorded'
  BY <1>2 DEF RowsDrawn, ConfirmedRevoked, IssuedIsRecorded, Exists, Revoked
<1>6. CrlsSound' /\ CrlSupersedes'
  BY <1>2 DEF CrlsSound, CrlSupersedes
<1>7. RevocationHolds'
  BY <1>2 DEF RevocationHolds
<1>8. QED
  BY <1>3, <1>4, <1>5, <1>6, <1>7

-----------------------------------------------------------------------------
(* The theorems. *)

LEMMA InitInv == Init => Inv
<1> SUFFICES ASSUME Init PROVE Inv
  OBVIOUS
<1>1. NoRow \in Rows /\ NoRow.status = "none"
  BY CaServiceConstants DEF NoRow, Rows
<1>2. TypeOK
  BY <1>1, IdleType DEF Init, TypeOK
<1>3. InsertsFresh /\ RenewalsSound /\ SelectionsSound
  BY IdleType DEF Init, InsertsFresh, RenewalsSound, SelectionsSound
<1>4. RowsDrawn /\ ConfirmedRevoked /\ IssuedIsRecorded
  BY <1>1 DEF Init, RowsDrawn, ConfirmedRevoked, IssuedIsRecorded, Exists
<1>5. CrlsSound /\ CrlSupersedes /\ RevocationHolds
  BY DEF Init, CrlsSound, CrlSupersedes, RevocationHolds
<1>6. QED
  BY <1>2, <1>3, <1>4, <1>5 DEF Inv

LEMMA NextInv == Inv /\ [Next]_vars => Inv'
<1> SUFFICES ASSUME Inv, [Next]_vars PROVE Inv'
  OBVIOUS
<1>1. ASSUME NEW w \in Workers, NEW p \in Profiles \cup {NoProfile},
             NEW d \in Validities,
             \/ sign_certificate(w, p, d)
             \/ \E s \in Serials : renew_certificate(w, s, p, d)
      PROVE  Inv'
  BY <1>1, SignCertificateInv, RenewCertificateInv
<1>2. ASSUME NEW w \in Workers,
             \/ RenewLookup(w) \/ insert_certificate(w) \/ generate_crl(w)
             \/ \E s \in Serials : revoke_certificate(w, s)
             \/ \E cn \in IssuerCns : get_crl(w, cn)
      PROVE  Inv'
  BY <1>2, RenewLookupInv, InsertCertificateInv, GenerateCrlInv,
     RevokeCertificateInv, GetCrlInv
<1>3. CASE UNCHANGED vars
  BY <1>3 DEF vars, Inv, TypeOK, RowsDrawn, InsertsFresh, ConfirmedRevoked,
     RenewalsSound, SelectionsSound, CrlsSound, IssuedIsRecorded,
     RevocationHolds, CrlSupersedes, Exists, Revoked, ListedIn
<1>4. QED
  BY <1>1, <1>2, <1>3, ExpireInv, RestartInv DEF Next

(* The inductive invariant of the certificate authority holds in every     *)
(* reachable state.                                                        *)
THEOREM Safety == Spec => []Inv
<1>1. QED
  BY InitInv, NextInv, PTL DEF Spec

(* Every certificate in a client's hands has a row in the table            *)
(* (sign_certificate and renew_certificate answer after the insert).       *)
THEOREM IssuedRecorded == Spec => []IssuedIsRecorded
<1>1. Inv => IssuedIsRecorded
  BY DEF Inv
<1>2. QED
  BY <1>1, Safety, PTL

(* A confirmed revocation is listed by every CRL of the service's own name *)
(* that is asked for later, and stops every later renewal.                 *)
THEOREM RevocationTakesHold == Spec => []RevocationHolds
<1>1. Inv => RevocationHolds
  BY DEF Inv
<1>2. QED
  BY <1>1, Safety, PTL

(* A CRL asked for after another was handed out has a higher number and    *)
(* lists what that one listed, however requests overlap.                   *)
THEOREM CrlsSupersede == Spec => []CrlSupersedes
<1>1. Inv => CrlSupersedes
  BY DEF Inv
<1>2. QED
  BY <1>1, Safety, PTL

-----------------------------------------------------------------------------
(* The rate limiter.  For a caller with admissions a (instants, in order)  *)
(* and bucket b at instant t.                                              *)

Buckets == [tokens : Nat, last_refill : Nat \cup {-1}]

(* How many admissions there were when the bucket was last filled. *)
Before(a, b) == Len(a) - (Capacity - b.tokens)

(* What the bucket has given since it was filled is what its caller was    *)
(* admitted since then.                                                    *)
Accounted(a, b, t) ==
    /\ \A i \in 1..Len(a) : a[i] <= t
    /\ \A i, j \in 1..Len(a) : i < j => a[i] <= a[j]
    /\ b # NoBucket =>
          /\ b.last_refill \in 0..t
          /\ b.tokens <= Capacity /\ Before(a, b) >= 0
          /\ \A i \in 1..Len(a) :
                IF i <= Before(a, b) THEN a[i] <= b.last_refill
                ELSE a[i] >= b.last_refill

(* Two buckets full and one more take a period, and so does the last       *)
(* bucket full with what came before it.                                   *)
Paced(a, b, t) ==
    /\ \A i \in 1..Len(a) : i + 2 * Capacity <= Len(a) =>
          a[i + 2 * Capacity] - a[i] >= RefillPeriod
    /\ \A i \in 1..Len(a) :
          IF b = NoBucket
          THEN i <= Len(a) - Capacity => a[i] <= t - RefillPeriod
          ELSE i <= Before(a, b) - Capacity => a[i] <= b.last_refill - RefillPeriod

(* A bucket is not reaped before it would have been refilled. *)
Periodic == RefillPeriod <= IdleTtl + 1

LimiterInv ==
    /\ LimiterTypeOK
    /\ \A k \in Callers : Accounted(admitted[k], buckets[k], now)
    /\ NoStarvation

PacedInv == \A k \in Callers : Paced(admitted[k], buckets[k], now)

LEMMA RetainedAccounted ==
    ASSUME LimiterTypeOK, NEW k \in Callers, NEW a \in Seq(Nat),
           Accounted(a, buckets[k], now)
    PROVE  /\ Retained(k) \in Buckets /\ Accounted(a, Retained(k), now)
           /\ Periodic /\ Paced(a, buckets[k], now) => Paced(a, Retained(k), now)
<1>1. NoBucket \in Buckets /\ buckets[k] \in Buckets /\ now \in Nat
  BY DEF LimiterTypeOK, NoBucket, Buckets
<1>2. CASE ~Reapable(buckets[k])
  BY <1>1, <1>2 DEF Retained
<1>3. CASE Reapable(buckets[k])
  <2>1. Retained(k) = NoBucket /\ buckets[k] # NoBucket
        /\ now - buckets[k].last_refill > IdleTtl
    BY <1>3 DEF Retained, Reapable
  <2>2. Accounted(a, NoBucket, now)
    BY DEF Accounted
  <2>3. ASSUME Periodic, Paced(a, buckets[k], now)
        PROVE  Paced(a, NoBucket, now)
    <3>1. now - buckets[k].last_refill >= RefillPeriod
      BY <1>1, <2>1, <2>3, RateLimiterConstants DEF Periodic, Buckets
    <3>2. ASSUME NEW i \in 1..Len(a), i <= Len(a) - Capacity
          PROVE  a[i] <= now - RefillPeriod
      <4>1. i <= Before(a, buckets[k])
        BY <1>1, <3>2, RateLimiterConstants DEF Before, Buckets
      <4>2. a[i] <= buckets[k].last_refill
        BY <2>1, <4>1 DEF Accounted
      <4>3. a[i] \in Nat
        OBVIOUS
      <4>4. QED
        BY <1>1, <3>1, <4>2, <4>3, RateLimiterConstants DEF Buckets
    <3>3. QED
      BY <2>3, <3>2 DEF Paced
  <2>4. QED
    BY <1>1, <2>1, <2>2, <2>3
<1>4. QED
  BY <1>2, <1>3

(* A full bucket of this instant, new or refilled. *)
LEMMA FullAccounted ==
    ASSUME LimiterTypeOK, NEW a \in Seq(Nat), NEW b \in Buckets,
           Accounted(a, b, now)
    PROVE  /\ NewBucket \in Buckets /\ NewBucket # NoBucket
           /\ Accounted(a, NewBucket, now)
           /\ Paced(a, b, now) /\
              (b = NoBucket \/ now - b.last_refill >= RefillPeriod)
                => Paced(a, NewBucket, now)
<1>1. /\ now \in Nat /\ Capacity \in Nat /\ RefillPeriod \in Nat
      /\ Len(a) \in Nat /\ \A i \in 1..Len(a) : a[i] \in Nat
  BY RateLimiterConstants DEF LimiterTypeOK
<1>2. /\ NewBucket \in Buckets /\ NewBucket.tokens = Capacity
      /\ NewBucket.last_refill = now
  BY <1>1 DEF NewBucket, Buckets
<1>3. NewBucket # NoBucket
  BY <1>1, <1>2 DEF NoBucket
<1>4. Before(a, NewBucket) = Len(a)
  BY <1>1, <1>2 DEF Before
<1>5. Accounted(a, NewBucket, now)
  BY <1>1, <1>2, <1>4 DEF Accounted
<1>6. ASSUME Paced(a, b, now), b = NoBucket \/ now - b.last_refill >= RefillPeriod
      PROVE  Paced(a, NewBucket, now)
  <2>1. ASSUME NEW i \in 1..Len(a), i <= Len(a) - Capacity
        PROVE  a[i] <= now - RefillPeriod
    <3>1. CASE b = NoBucket
      BY <1>6, <2>1, <3>1 DEF Paced
    <3>2. CASE b # NoBucket
      <4>1. i <= Before(a, b)
        BY <1>1, <2>1 DEF Before, Buckets
      <4>2. a[i] <= b.last_refill
        BY <3>2, <4>1 DEF Accounted
      <4>3. QED
        BY <1>1, <1>6, <3>2, <4>2 DEF Buckets
    <3>3. QED
      BY <3>1, <3>2
  <2>2. QED
    BY <1>2, <1>3, <1>4, <1>6, <2>1 DEF Paced
<1>7. QED
  BY <1>2, <1>3, <1>5, <1>6

(* The bucket a token is asked of. *)
LEMMA AskedAccounted ==
    ASSUME LimiterTypeOK, NEW k \in Callers, NEW a \in Seq(Nat),
           Accounted(a, buckets[k], now)
    PROVE  /\ refill(Entry(k)) \in Buckets /\ refill(Entry(k)) # NoBucket
           /\ Accounted(a, refill(Entry(k)), now)
           /\ refill(Entry(k)).tokens = 0 =>
                 now - refill(Entry(k)).last_refill < RefillPeriod
           /\ Periodic /\ Paced(a, buckets[k], now) => Paced(a, refill(Entry(k)), now)
<1>1. /\ Retained(k) \in Buckets /\ Accounted(a, Retained(k), now)
      /\ Periodic /\ Paced(a, buckets[k], now) => Paced(a, Retained(k), now)
  BY RetainedAccounted
<1>2. /\ Entry(k) \in Buckets /\ Entry(k) # NoBucket /\ Accounted(a, Entry(k), now)
      /\ Periodic /\ Paced(a, buckets[k], now) => Paced(a, Entry(k), now)
  <2>1. CASE Retained(k) = NoBucket
    BY <1>1, <2>1, FullAccounted DEF Entry
  <2>2. CASE Retained(k) # NoBucket
    BY <1>1, <2>2 DEF Entry
  <2>3. QED
    BY <2>1, <2>2
<1> DEFINE e == Entry(k)
<1> HIDE DEF e
<1>3. CASE now - e.last_refill >= RefillPeriod
  <2>1. refill(e) = NewBucket
    BY <1>3 DEF refill, NewBucket
  <2>2. now - NewBucket.last_refill < RefillPeriod
    BY RateLimiterConstants DEF NewBucket, LimiterTypeOK
  <2>3. QED
    BY <1>2, <1>3, <2>1, <2>2, FullAccounted DEF e
<1>4. CASE ~(now - e.last_refill >= RefillPeriod)
  <2>1. refill(e) = e
    BY <1>4 DEF refill
  <2>2. e.last_refill \in Int /\ now \in Int
    BY <1>2 DEF e, Buckets, LimiterTypeOK
  <2>3. now - e.last_refill < RefillPeriod
    BY <1>4, <2>2, RateLimiterConstants
  <2>4. QED
    BY <1>2, <2>1, <2>3 DEF e
<1>5. QED
  BY <1>3, <1>4 DEF e

LEMMA TakenAccounted ==
    ASSUME LimiterTypeOK, NEW a \in Seq(Nat), NEW b \in Buckets, b # NoBucket,
           b.tokens > 0, Accounted(a, b, now),
           NEW a2, a2 = Append(a, now), NEW b2, b2 = [b EXCEPT !.tokens = @ - 1]
    PROVE  /\ a2 \in Seq(Nat) /\ b2 \in Buckets /\ Accounted(a2, b2, now)
           /\ Paced(a, b, now) => Paced(a2, b2, now)
<1>1. /\ now \in Nat /\ Capacity \in Nat /\ RefillPeriod \in Nat
      /\ Len(a) \in Nat /\ \A i \in 1..Len(a) : a[i] \in Nat
  BY RateLimiterConstants DEF LimiterTypeOK
<1>2. /\ a2 \in Seq(Nat) /\ Len(a2) = Len(a) + 1 /\ a2[Len(a) + 1] = now
      /\ \A i \in 1..Len(a) : a2[i] = a[i]
  BY <1>1
<1>3. /\ b2 \in Buckets /\ b2.tokens = b.tokens - 1 /\ b2.last_refill = b.last_refill
      /\ b.tokens \in Nat
  BY DEF Buckets
<1>4. /\ b.last_refill \in 0..now /\ b.tokens <= Capacity /\ Before(a, b) >= 0
      /\ \A i \in 1..Len(a) :
            IF i <= Before(a, b) THEN a[i] <= b.last_refill ELSE a[i] >= b.last_refill
  BY DEF Accounted
<1>5. b2 # NoBucket
  BY <1>1, <1>3, <1>4 DEF NoBucket
<1>6. /\ Before(a2, b2) = Before(a, b) /\ Before(a, b) \in Nat
      /\ Before(a, b) <= Len(a) /\ Before(a, b) = Len(a) - (Capacity - b.tokens)
  <2>1. PICK n \in Nat, k \in Nat, m \in Nat :
            n = Len(a) /\ k = b.tokens /\ m = Capacity
    BY <1>1, <1>3
  <2>2. Before(a, b) = n - (m - k) /\ Before(a2, b2) = n + 1 - (m - (k - 1))
    <3>1. Len(a2) = n + 1 /\ b2.tokens = k - 1 /\ Len(a) = n /\ b.tokens = k
      BY <1>2, <1>3, <2>1
    <3>2. Before(a, b) = n - (m - k)
      BY <2>1, <3>1 DEF Before
    <3>3. Before(a2, b2) = Len(a2) - (m - b2.tokens)
      BY <2>1 DEF Before
    <3>4. QED
      BY <3>1, <3>2, <3>3
  <2>3. n - (m - k) >= 0 /\ k <= m
    BY <1>4, <2>1, <2>2
  <2>4. QED
    BY <2>1, <2>2, <2>3
<1>7. Accounted(a2, b2, now)
  <2>1. \A i \in 1..Len(a2) : a2[i] <= now
    BY <1>1, <1>2 DEF Accounted
  <2>2. \A i, j \in 1..Len(a2) : i < j => a2[i] <= a2[j]
    <3>1. \A i, j \in 1..Len(a) : i < j => a[i] <= a[j]
      BY DEF Accounted
    <3>2. ASSUME NEW i \in 1..Len(a2), NEW j \in 1..Len(a2), i < j
          PROVE  a2[i] <= a2[j]
      <4>1. i \in 1..Len(a)
        BY <1>1, <1>2, <3>2
      <4>2. CASE j \in 1..Len(a)
        BY <1>2, <3>1, <3>2, <4>1, <4>2
      <4>3. CASE j = Len(a) + 1
        BY <1>2, <2>1, <4>1, <4>3
      <4>4. QED
        BY <1>1, <1>2, <4>2, <4>3
    <3>3. QED
      BY <3>2
  <2>3. ASSUME NEW i \in 1..Len(a2)
        PROVE  IF i <= Before(a2, b2) THEN a2[i] <= b2.last_refill
               ELSE a2[i] >= b2.last_refill
    <3>1. CASE i \in 1..Len(a)
      BY <1>2, <1>3, <1>4, <1>6, <3>1
    <3>2. CASE i = Len(a) + 1
      BY <1>1, <1>2, <1>3, <1>4, <1>6, <3>2
    <3>3. QED
      BY <1>1, <1>2, <3>1, <3>2
  <2>4. b2.tokens <= Capacity /\ b2.last_refill \in 0..now /\ Before(a2, b2) >= 0
    BY <1>1, <1>3, <1>4, <1>6
  <2>5. QED
    BY <2>1, <2>2, <2>3, <2>4 DEF Accounted
<1>8. ASSUME Paced(a, b, now)
      PROVE  Paced(a2, b2, now)
  <2>1. /\ \A i \in 1..Len(a) : i + 2 * Capacity <= Len(a) =>
              a[i + 2 * Capacity] - a[i] >= RefillPeriod
        /\ \A i \in 1..Len(a) : i <= Before(a, b) - Capacity =>
              a[i] <= b.last_refill - RefillPeriod
    BY <1>8 DEF Paced
  <2>2. ASSUME NEW i \in 1..Len(a2), i + 2 * Capacity <= Len(a2)
        PROVE  a2[i + 2 * Capacity] - a2[i] >= RefillPeriod
    <3>1. i \in 1..Len(a)
      BY <1>1, <1>2, <1>3, <1>4, <2>2
    <3>2. CASE i + 2 * Capacity <= Len(a)
      <4>1. i + 2 * Capacity \in 1..Len(a)
        BY <1>1, <3>1, <3>2
      <4>2. QED
        BY <1>2, <2>1, <3>1, <3>2, <4>1
    <3>3. CASE i + 2 * Capacity = Len(a) + 1
      <4>1. i <= Before(a, b) - Capacity
        <5>1. PICK n \in Nat, k \in Nat, m \in Nat :
                  n = Len(a) /\ k = b.tokens /\ m = Capacity
          BY <1>1, <1>3
        <5>2. Before(a, b) = n - (m - k) /\ k > 0 /\ i + 2 * m = n + 1 /\ i \in Nat
          BY <1>6, <3>1, <3>3, <5>1
        <5>3. i <= n - (m - k) - m
          BY <5>2
        <5>4. QED
          BY <5>1, <5>2, <5>3
      <4>2. a[i] <= b.last_refill - RefillPeriod
        BY <2>1, <3>1, <4>1
      <4>3. a2[i] = a[i] /\ a2[i + 2 * Capacity] = now /\ a[i] \in Nat
        BY <1>1, <1>2, <3>1, <3>3
      <4>4. PICK x \in Nat, f \in Nat : x = a[i] /\ f = b.last_refill
        BY <1>4, <4>3
      <4>5. x <= f - RefillPeriod /\ f <= now
        BY <1>4, <4>2, <4>4
      <4>6. now - x >= RefillPeriod
        BY <1>1, <4>5
      <4>7. QED
        BY <4>3, <4>4, <4>6
    <3>4. i + 2 * Capacity <= Len(a) \/ i + 2 * Capacity = Len(a) + 1
      <4>1. PICK n \in Nat, m \in Nat : n = Len(a) /\ m = Capacity
        BY <1>1
      <4>2. i + 2 * m <= n + 1 /\ i \in Nat
        BY <1>2, <2>2, <4>1
      <4>3. i + 2 * m <= n \/ i + 2 * m = n + 1
        BY <4>2
      <4>4. QED
        BY <4>1, <4>3
    <3>5. QED
      BY <3>2, <3>3, <3>4
  <2>3. ASSUME NEW i \in 1..Len(a2), i <= Before(a2, b2) - Capacity
        PROVE  a2[i] <= b2.last_refill - RefillPeriod
    <3>1. i \in 1..Len(a)
      BY <1>1, <1>2, <1>6, <2>3
    <3>2. QED
      BY <1>2, <1>3, <1>6, <2>1, <2>3, <3>1
  <2>4. QED
    BY <1>5, <2>2, <2>3 DEF Paced
<1>9. QED
  BY <1>2, <1>3, <1>7, <1>8

(* Another instant. *)
LEMMA LaterAccounted ==
    ASSUME NEW a \in Seq(Nat), NEW b, NEW t \in Nat, Accounted(a, b, t)
    PROVE  Accounted(a, b, t + 1) /\ (Paced(a, b, t) => Paced(a, b, t + 1))
<1>1. Len(a) \in Nat /\ \A i \in 1..Len(a) : a[i] \in Nat
  OBVIOUS
<1>2. Accounted(a, b, t + 1)
  BY <1>1 DEF Accounted
<1>3. ASSUME Paced(a, b, t)
      PROVE  Paced(a, b, t + 1)
  <2>1. RefillPeriod \in Nat
    BY RateLimiterConstants
  <2>2. QED
    BY <1>1, <1>3, <2>1 DEF Paced
<1>4. QED
  BY <1>2, <1>3

(* Counting admissions. *)
InPeriod(a, t) == {i \in 1..Len(a) : a[i] >= t /\ a[i] < t + RefillPeriod}

LEMMA PeriodFinite ==
    ASSUME NEW a \in Seq(Nat), NEW t \in Nat
    PROVE  /\ IsFiniteSet(InPeriod(a, t)) /\ Cardinality(InPeriod(a, t)) \in Nat
           /\ \A T \in SUBSET InPeriod(a, t) :
                 /\ IsFiniteSet(T) /\ Cardinality(T) \in Nat
                 /\ Cardinality(T) <= Cardinality(InPeriod(a, t))
<1>1. IsFiniteSet(1..Len(a))
  BY FS_Interval
<1>2. InPeriod(a, t) \in SUBSET (1..Len(a))
  BY DEF InPeriod
<1>3. IsFiniteSet(InPeriod(a, t))
  BY <1>1, <1>2, FS_Subset
<1>4. QED
  BY <1>3, FS_Subset, FS_CardinalityType

LEMMA PeriodGrows ==
    ASSUME NEW a \in Seq(Nat), NEW t \in Nat, NEW u \in Nat
    PROVE  Cardinality(InPeriod(Append(a, u), t)) >= Cardinality(InPeriod(a, t))
<1>1. Append(a, u) \in Seq(Nat) /\ InPeriod(a, t) \in SUBSET InPeriod(Append(a, u), t)
  BY DEF InPeriod
<1>2. QED
  BY <1>1, PeriodFinite

(* A bucket that is empty has given all it had since it was filled. *)
LEMMA EmptyMeansFull ==
    ASSUME NEW a \in Seq(Nat), NEW b \in Buckets, NEW t \in Nat, b # NoBucket,
           b.tokens = 0, Accounted(a, b, t), t - b.last_refill < RefillPeriod
    PROVE  /\ b.last_refill \in 0..t
           /\ Cardinality(InPeriod(a, b.last_refill)) >= Capacity
<1>1. /\ Len(a) \in Nat /\ Capacity \in Nat /\ RefillPeriod \in Nat
      /\ \A i \in 1..Len(a) : a[i] \in Nat
  BY RateLimiterConstants
<1>2. /\ b.last_refill \in 0..t /\ Before(a, b) >= 0
      /\ \A i \in 1..Len(a) : ~(i <= Before(a, b)) => a[i] >= b.last_refill
      /\ \A i \in 1..Len(a) : a[i] <= t
  BY DEF Accounted
<1>3. Before(a, b) = Len(a) - Capacity
  BY <1>1 DEF Before
<1> DEFINE T == Len(a) - Capacity + 1 .. Len(a)
<1>4. T \in SUBSET InPeriod(a, b.last_refill)
  <2>1. PICK f \in Nat : f = b.last_refill /\ t - f < RefillPeriod
    BY <1>2
  <2>2. ASSUME NEW i \in T
        PROVE  i \in 1..Len(a) /\ a[i] >= f /\ a[i] < f + RefillPeriod
    <3>1. i \in 1..Len(a) /\ ~(i <= Before(a, b))
      <4>1. PICK n \in Nat, m \in Nat : n = Len(a) /\ m = Capacity
        BY <1>1
      <4>2. i \in n - m + 1 .. n /\ n - m >= 0
        BY <1>2, <1>3, <2>2, <4>1
      <4>3. i \in 1..n /\ ~(i <= n - m)
        BY <4>2
      <4>4. QED
        BY <1>3, <4>1, <4>3
    <3>2. a[i] >= f /\ a[i] <= t /\ a[i] \in Nat
      BY <1>1, <1>2, <2>1, <3>1
    <3>3. QED
      BY <1>1, <2>1, <3>1, <3>2
  <2>3. QED
    BY <2>1, <2>2 DEF InPeriod
<1>5. Cardinality(T) = Capacity
  <2>1. /\ Len(a) - Capacity + 1 \in Int /\ Len(a) \in Int
        /\ ~(Len(a) - Capacity + 1 > Len(a)) \/ Capacity = 0
    BY <1>1
  <2>2. Cardinality(T) = IF Len(a) - Capacity + 1 > Len(a) THEN 0
                         ELSE Len(a) - (Len(a) - Capacity + 1) + 1
    BY <2>1, FS_Interval
  <2>3. QED
    BY <1>1, <2>1, <2>2
<1> HIDE DEF T
<1>6. QED
  <2>1. b.last_refill \in Nat
    BY <1>2
  <2>2. Cardinality(T) <= Cardinality(InPeriod(a, b.last_refill))
    BY <1>4, <2>1, PeriodFinite
  <2>3. QED
    BY <1>2, <1>5, <2>2

(* Who is paced has at most two buckets full in a period. *)
LEMMA PacedBounded ==
    ASSUME NEW a \in Seq(Nat), NEW b, NEW n \in Nat, NEW t \in Nat,
           Accounted(a, b, n), Paced(a, b, n)
    PROVE  Cardinality(InPeriod(a, t)) <= 2 * Capacity
<1> DEFINE match == InPeriod(a, t)
           two == 2 * Capacity
<1>1. /\ Len(a) \in Nat /\ two \in Nat /\ RefillPeriod \in Nat
      /\ \A i \in 1..Len(a) : a[i] \in Nat
  BY RateLimiterConstants
<1>2. match \in SUBSET (1..Len(a))
  BY DEF InPeriod
<1>3. CASE match = {}
  BY <1>1, <1>3, FS_EmptySet
<1>4. CASE match # {}
  <2> DEFINE pos == CHOOSE i \in match : \A j \in match : i <= j
  <2>1. pos \in match /\ \A j \in match : pos <= j
    <3> HIDE DEF match
    <3>1. QED
      BY <1>1, <1>2, <1>4, FirstPosition
  <2> HIDE DEF pos
  <2>2. pos \in 1..Len(a) /\ a[pos] >= t
    BY <2>1 DEF InPeriod
  <2>3. ASSUME NEW j \in match
        PROVE  j \in pos..pos + two - 1
    <3>1. j \in 1..Len(a) /\ a[j] < t + RefillPeriod /\ pos <= j
      BY <2>1, <2>3 DEF InPeriod
    <3>2. CASE j >= pos + two
      <4>1. pos + two \in 1..Len(a)
        BY <1>1, <2>2, <3>1, <3>2
      <4>2. a[pos + two] - a[pos] >= RefillPeriod
        BY <1>1, <2>2, <4>1 DEF Paced
      <4>3. a[pos + two] <= a[j]
        <5>1. CASE j = pos + two
          BY <1>1, <4>1, <5>1
        <5>2. CASE pos + two < j
          BY <3>1, <4>1, <5>2 DEF Accounted
        <5>3. QED
          BY <1>1, <2>2, <3>1, <3>2, <5>1, <5>2
      <4>4. /\ a[pos + two] \in Nat /\ a[pos] \in Nat /\ a[j] \in Nat
        BY <1>1, <2>2, <3>1, <4>1
      <4>5. PICK x \in Nat, y \in Nat, z \in Nat :
                x = a[pos] /\ y = a[pos + two] /\ z = a[j]
        BY <4>4
      <4>6. y - x >= RefillPeriod /\ y <= z /\ z < t + RefillPeriod /\ x >= t
        BY <2>2, <3>1, <4>2, <4>3, <4>5
      <4>7. QED
        BY <1>1, <4>6
    <3>3. QED
      BY <1>1, <2>2, <3>1, <3>2
  <2>4. /\ IsFiniteSet(pos..pos + two - 1)
        /\ Cardinality(pos..pos + two - 1) <= two
    <3> HIDE DEF two
    <3>1. pos \in Int /\ pos + two - 1 \in Int
      BY <1>1, <2>2
    <3>2. /\ IsFiniteSet(pos..pos + two - 1)
          /\ Cardinality(pos..pos + two - 1) =
                IF pos > pos + two - 1 THEN 0 ELSE (pos + two - 1) - pos + 1
      BY <3>1, FS_Interval
    <3>3. QED
      BY <1>1, <2>2, <3>2
  <2> HIDE DEF match, two
  <2>5. match \in SUBSET (pos..pos + two - 1)
    BY <2>3
  <2>6. Cardinality(match) <= Cardinality(pos..pos + two - 1)
        /\ IsFiniteSet(match)
    BY <2>4, <2>5, FS_Subset
  <2>7. Cardinality(match) \in Nat /\ Cardinality(pos..pos + two - 1) \in Nat
    BY <2>4, <2>6, FS_CardinalityType
  <2>8. QED
    BY <1>1, <2>4, <2>6, <2>7 DEF match, two
<1>5. QED
  BY <1>3, <1>4

LEMMA LimiterInitInv == LimiterInit => LimiterInv /\ PacedInv
<1> SUFFICES ASSUME LimiterInit PROVE LimiterInv /\ PacedInv
  OBVIOUS
<1>1. /\ now = 0 /\ buckets = [k \in Callers |-> NoBucket]
      /\ admitted = [k \in Callers |-> << >>] /\ refused = [k \in Callers |-> {}]
  BY DEF LimiterInit
<1>2. LimiterTypeOK
  <2>1. NoBucket \in Buckets
    BY DEF NoBucket, Buckets
  <2>2. QED
    BY <1>1, <2>1 DEF LimiterTypeOK, Buckets
<1>3. \A k \in Callers : /\ Accounted(admitted[k], buckets[k], now)
                         /\ Paced(admitted[k], buckets[k], now)
  BY <1>1 DEF Accounted, Paced
<1>4. NoStarvation
  BY <1>1 DEF NoStarvation
<1>5. QED
  BY <1>2, <1>3, <1>4 DEF LimiterInv, PacedInv

(* What a refusal needs stays so when admissions are added. *)
LEMMA RefusalsStay ==
    ASSUME LimiterInv, now' \in Nat,
           NEW k \in Callers,
           admitted'[k] = admitted[k] \/ admitted'[k] = Append(admitted[k], now),
           NEW t \in refused[k]
    PROVE  \E u \in 0..t : t - u < RefillPeriod /\ AdmittedIn(k, u)' >= Capacity
<1>1. PICK u \in 0..t : t - u < RefillPeriod /\ AdmittedIn(k, u) >= Capacity
  BY DEF LimiterInv, NoStarvation
<1>2. /\ t \in Nat /\ u \in Nat /\ now \in Nat /\ admitted[k] \in Seq(Nat)
      /\ Capacity \in Nat
  <2>1. t \in Nat
    BY DEF LimiterInv, LimiterTypeOK
  <2>2. QED
    BY <1>1, <2>1, RateLimiterConstants DEF LimiterInv, LimiterTypeOK
<1>3. /\ AdmittedIn(k, u) = Cardinality(InPeriod(admitted[k], u))
      /\ AdmittedIn(k, u)' = Cardinality(InPeriod(admitted'[k], u))
  BY DEF AdmittedIn, InPeriod
<1>4. CASE admitted'[k] = admitted[k]
  <2>1. AdmittedIn(k, u)' >= Capacity
    BY <1>1, <1>3, <1>4
  <2>2. QED
    BY <1>1, <2>1
<1>5. CASE admitted'[k] = Append(admitted[k], now)
  <2>1. PICK x \in Nat, y \in Nat : /\ x = Cardinality(InPeriod(admitted[k], u))
                                    /\ y = Cardinality(InPeriod(admitted'[k], u))
    <3>1. admitted'[k] \in Seq(Nat)
      BY <1>2, <1>5
    <3>2. QED
      BY <1>2, <3>1, PeriodFinite
  <2>2. y >= x
    BY <1>2, <1>5, <2>1, PeriodGrows
  <2>3. x >= Capacity
    BY <1>1, <1>3, <2>1
  <2>4. AdmittedIn(k, u)' >= Capacity
    BY <1>2, <1>3, <2>1, <2>2, <2>3
  <2>5. QED
    BY <1>1, <2>4
<1>6. QED
  BY <1>4, <1>5

LEMMA TickInv ==
    ASSUME LimiterInv, Tick
    PROVE  LimiterInv' /\ (PacedInv => PacedInv')
<1>1. /\ now \in Nat /\ now' = now + 1 /\ now' \in Nat
      /\ buckets' = buckets /\ admitted' = admitted /\ refused' = refused
  BY DEF LimiterInv, LimiterTypeOK, Tick
<1>2. LimiterTypeOK'
  BY <1>1 DEF LimiterInv, LimiterTypeOK
<1>3. ASSUME NEW k \in Callers
      PROVE  /\ Accounted(admitted'[k], buckets'[k], now')
             /\ PacedInv => Paced(admitted'[k], buckets'[k], now')
  <2>1. admitted[k] \in Seq(Nat) /\ Accounted(admitted[k], buckets[k], now)
    BY DEF LimiterInv, LimiterTypeOK
  <2>2. QED
    BY <1>1, <2>1, LaterAccounted DEF PacedInv
<1>4. NoStarvation'
  <2>1. \A k \in Callers : \A t \in refused[k] :
          \E u \in 0..t : t - u < RefillPeriod /\ AdmittedIn(k, u)' >= Capacity
    BY <1>1, RefusalsStay
  <2>2. QED
    BY <1>1, <2>1 DEF NoStarvation
<1>5. QED
  BY <1>2, <1>3, <1>4 DEF LimiterInv, PacedInv

LEMMA CheckStep ==
    ASSUME LimiterInv, NEW k \in Callers, check(k)
    PROVE  LimiterInv' /\ (Periodic /\ PacedInv => PacedInv')
<1> DEFINE b == refill(Entry(k))
           b2 == IF b.tokens > 0 THEN [b EXCEPT !.tokens = @ - 1] ELSE b
           a2 == IF b.tokens > 0 THEN Append(admitted[k], now) ELSE admitted[k]
<1>1. /\ LimiterTypeOK /\ now \in Nat /\ now' = now
      /\ buckets \in [Callers -> Buckets] /\ admitted \in [Callers -> Seq(Nat)]
      /\ refused \in [Callers -> SUBSET Nat]
      /\ \A d \in Callers : Accounted(admitted[d], buckets[d], now)
  BY DEF LimiterInv, LimiterTypeOK, check, Buckets
<1>2. /\ buckets' = [d \in Callers |-> IF d # k THEN Retained(d) ELSE b2]
      /\ admitted' = IF b.tokens > 0
                     THEN [admitted EXCEPT ![k] = Append(@, now)] ELSE admitted
      /\ refused' = IF b.tokens > 0 THEN refused
                    ELSE [refused EXCEPT ![k] = @ \cup {now}]
  BY DEF check, try_consume
<1>3. /\ b \in Buckets /\ b # NoBucket /\ Accounted(admitted[k], b, now)
      /\ b.tokens = 0 => now - b.last_refill < RefillPeriod
      /\ Periodic /\ Paced(admitted[k], buckets[k], now) => Paced(admitted[k], b, now)
  BY <1>1, AskedAccounted
<1> HIDE DEF b
<1>4. /\ a2 \in Seq(Nat) /\ b2 \in Buckets /\ Accounted(a2, b2, now)
      /\ Paced(admitted[k], b, now) => Paced(a2, b2, now)
  <2>1. CASE b.tokens > 0
    BY <1>1, <1>3, <2>1, TakenAccounted
  <2>2. CASE ~(b.tokens > 0)
    BY <1>1, <1>3, <2>2
  <2>3. QED
    BY <2>1, <2>2
<1>5. /\ admitted' = [admitted EXCEPT ![k] = a2] /\ buckets'[k] = b2
      /\ admitted'[k] = a2
      /\ \A d \in Callers \ {k} : buckets'[d] = Retained(d) /\ admitted'[d] = admitted[d]
  <2>1. admitted' = [admitted EXCEPT ![k] = a2]
    BY <1>1, <1>2
  <2> HIDE DEF a2, b2
  <2>2. QED
    BY <1>1, <1>2, <2>1
<1> HIDE DEF a2, b2
<1>6. ASSUME NEW d \in Callers
      PROVE  /\ buckets'[d] \in Buckets /\ admitted'[d] \in Seq(Nat)
             /\ Accounted(admitted'[d], buckets'[d], now')
             /\ Periodic /\ PacedInv => Paced(admitted'[d], buckets'[d], now')
  <2>1. CASE d = k
    BY <1>1, <1>3, <1>4, <1>5, <2>1 DEF PacedInv
  <2>2. CASE d # k
    <3>1. /\ Retained(d) \in Buckets /\ Accounted(admitted[d], Retained(d), now)
          /\ Periodic /\ Paced(admitted[d], buckets[d], now)
                => Paced(admitted[d], Retained(d), now)
      BY <1>1, RetainedAccounted
    <3>2. QED
      BY <1>1, <1>5, <2>2, <3>1 DEF PacedInv
  <2>3. QED
    BY <2>1, <2>2
<1>7. LimiterTypeOK'
  <2>1. refused' \in [Callers -> SUBSET Nat]
    BY <1>1, <1>2
  <2>2. buckets' \in [Callers -> Buckets]
    BY <1>2, <1>6
  <2>3. admitted' \in [Callers -> Seq(Nat)]
    BY <1>1, <1>4, <1>5
  <2>4. QED
    BY <1>1, <2>1, <2>2, <2>3 DEF LimiterTypeOK, Buckets
<1>8. ASSUME NEW d \in Callers, NEW t \in refused'[d]
      PROVE  \E u \in 0..t : t - u < RefillPeriod /\ AdmittedIn(d, u)' >= Capacity
  <2>1. CASE t \in refused[d]
    <3>1. admitted'[d] = admitted[d] \/ admitted'[d] = Append(admitted[d], now)
      BY <1>5 DEF a2
    <3>2. QED
      BY <1>1, <2>1, <3>1, RefusalsStay
  <2>2. CASE t \notin refused[d]
    <3>1. d = k /\ t = now /\ ~(b.tokens > 0)
      BY <1>1, <1>2, <1>8, <2>2
    <3>2. b.tokens = 0 /\ now - b.last_refill < RefillPeriod
      BY <1>3, <3>1 DEF Buckets
    <3>3. /\ b.last_refill \in 0..now
          /\ Cardinality(InPeriod(admitted[k], b.last_refill)) >= Capacity
      BY <1>1, <1>3, <3>2, EmptyMeansFull
    <3>4. admitted'[k] = admitted[k]
      BY <1>5, <3>1 DEF a2
    <3>5. PICK u \in 0..now : u = b.last_refill
      BY <3>3
    <3>6. AdmittedIn(k, u)' = Cardinality(InPeriod(admitted'[k], u))
      BY DEF AdmittedIn, InPeriod
    <3>7. AdmittedIn(k, u)' >= Capacity /\ t - u < RefillPeriod
      BY <3>1, <3>2, <3>3, <3>4, <3>5, <3>6
    <3>8. QED
      BY <3>1, <3>7
  <2>3. QED
    BY <2>1, <2>2
<1>9. QED
  BY <1>6, <1>7, <1>8 DEF LimiterInv, PacedInv, NoStarvation

(* The inductive invariant of the rate limiter: what a bucket has given    *)
(* since it was filled is what its caller was admitted since then          *)
(* (PerCallerLimiter::check).                                              *)
THEOREM LimiterSafety == LimiterSpec => []LimiterInv
<1>1. LimiterInv /\ [LimiterNext]_limiter_vars => LimiterInv'
  <2> SUFFICES ASSUME LimiterInv, [LimiterNext]_limiter_vars PROVE LimiterInv'
    OBVIOUS
  <2>1. CASE UNCHANGED limiter_vars
    BY <2>1 DEF limiter_vars, LimiterInv, LimiterTypeOK, NoStarvation, AdmittedIn
  <2>2. QED
    BY <2>1, TickInv, CheckStep DEF LimiterNext
<1>2. QED
  BY <1>1, LimiterInitInv, PTL DEF LimiterSpec

(* A caller is refused only when it was admitted a bucket full within the  *)
(* last period, whatever the other callers do (service.rs: "one client's   *)
(* exhaustion no longer blocks other clients").                            *)
THEOREM NobodyStarved == LimiterSpec => []NoStarvation
<1>1. LimiterInv => NoStarvation
  BY DEF LimiterInv
<1>2. QED
  BY <1>1, LimiterSafety, PTL

(* No period admits more than two buckets full, however a caller times its *)
(* requests around refills and reaping, where a bucket is not reaped       *)
(* before it would be refilled (PerCallerLimiter::check).                  *)
THEOREM BurstsBounded ==
    ASSUME Periodic
    PROVE  LimiterSpec => []BurstBounded
<1>1. LimiterInv /\ PacedInv /\ [LimiterNext]_limiter_vars => PacedInv'
  <2> SUFFICES ASSUME LimiterInv, PacedInv, [LimiterNext]_limiter_vars
               PROVE  PacedInv'
    OBVIOUS
  <2>1. CASE UNCHANGED limiter_vars
    BY <2>1 DEF limiter_vars, PacedInv
  <2>2. QED
    BY <2>1, TickInv, CheckStep DEF LimiterNext
<1>2. LimiterInv /\ PacedInv => BurstBounded
  <2> SUFFICES ASSUME LimiterInv, PacedInv, NEW k \in Callers, NEW t \in 0..now
               PROVE  AdmittedIn(k, t) <= 2 * Capacity
    BY DEF BurstBounded
  <2>1. now \in Nat /\ t \in Nat /\ admitted[k] \in Seq(Nat)
    BY DEF LimiterInv, LimiterTypeOK
  <2>2. AdmittedIn(k, t) = Cardinality(InPeriod(admitted[k], t))
    BY DEF AdmittedIn, InPeriod
  <2>3. QED
    BY <2>1, <2>2, PacedBounded DEF LimiterInv, PacedInv
<1>3. QED
  BY <1>1, <1>2, LimiterInitInv, LimiterSafety, PTL DEF LimiterSpec

-----------------------------------------------------------------------------
(* Sequences. *)

(* The first of some positions. *)
LEMMA MinPosition ==
    ASSUME NEW n \in Nat, NEW match \in SUBSET (1..n), match # {}
    PROVE  Min(match) \in match /\ \A j \in match : Min(match) <= j
  BY FirstPosition DEF Min

(* A position with a property that holds of no earlier one. *)
LEMMA FirstSuch ==
    ASSUME NEW n \in Nat, NEW match \in SUBSET (1..n), match # {}
    PROVE  \E i \in match : \A j \in 1..(i - 1) : j \notin match
<1>1. Min(match) \in match /\ \A j \in match : Min(match) <= j
  BY MinPosition
<1>2. PICK i \in match : \A j \in match : i <= j
  BY <1>1
<1>3. i \in Int /\ match \subseteq Int
  OBVIOUS
<1>4. \A j \in 1..(i - 1) : j \notin match
  BY <1>2, <1>3
<1>5. QED
  BY <1>4

(* The elements of a sequence, and of two put together. *)
LEMMA Elements ==
    ASSUME NEW S, NEW q \in Seq(S)
    PROVE  /\ ToSet(q) = {q[i] : i \in 1..Len(q)}
           /\ ToSet(q) \subseteq S
           /\ q \in Seq(ToSet(q))
           /\ Len(q) \in Nat
<1>1. DOMAIN q = 1..Len(q) /\ Len(q) \in Nat
  OBVIOUS
<1>2. ToSet(q) = {q[i] : i \in 1..Len(q)}
  BY <1>1 DEF ToSet
<1>3. \A i \in 1..Len(q) : q[i] \in S /\ q[i] \in ToSet(q)
  BY <1>2
<1>4. q = [i \in 1..Len(q) |-> q[i]]
  BY <1>1
<1>5. q \in Seq(ToSet(q))
  BY <1>1, <1>3, <1>4
<1>6. QED
  BY <1>1, <1>2, <1>3, <1>5

LEMMA JoinedElements ==
    ASSUME NEW S, NEW q \in Seq(S), NEW r \in Seq(S)
    PROVE  /\ q \o r \in Seq(S) /\ Len(q \o r) = Len(q) + Len(r)
           /\ ToSet(q \o r) = ToSet(q) \cup ToSet(r)
           /\ \A i \in 1..Len(q) : (q \o r)[i] = q[i]
           /\ \A i \in 1..Len(r) : (q \o r)[Len(q) + i] = r[i]
<1> DEFINE w == q \o r
<1>1. /\ w \in Seq(S) /\ Len(w) = Len(q) + Len(r)
      /\ Len(q) \in Nat /\ Len(r) \in Nat
  OBVIOUS
<1>2. \A i \in 1..Len(q) : w[i] = q[i]
  OBVIOUS
<1>3. \A i \in 1..Len(r) : w[Len(q) + i] = r[i]
  OBVIOUS
<1> HIDE DEF w
<1>4. /\ ToSet(w) = {w[i] : i \in 1..Len(w)}
      /\ ToSet(q) = {q[i] : i \in 1..Len(q)}
      /\ ToSet(r) = {r[i] : i \in 1..Len(r)}
  BY <1>1, Elements
<1>5. PICK n \in Nat, m \in Nat : n = Len(q) /\ m = Len(r)
  BY <1>1
<1>6. ToSet(w) \subseteq ToSet(q) \cup ToSet(r)
  <2> SUFFICES ASSUME NEW i \in 1..(n + m)
               PROVE  w[i] \in ToSet(q) \cup ToSet(r)
    BY <1>1, <1>4, <1>5
  <2>1. CASE i \in 1..n
    BY <1>2, <1>4, <1>5, <2>1
  <2>2. CASE i \notin 1..n
    <3>1. i - n \in 1..m /\ n + (i - n) = i
      BY <2>2
    <3>2. QED
      BY <1>3, <1>4, <1>5, <3>1
  <2>3. QED
    BY <2>1, <2>2
<1>7. ToSet(q) \subseteq ToSet(w)
  <2> SUFFICES ASSUME NEW i \in 1..n PROVE  q[i] \in ToSet(w)
    BY <1>4, <1>5
  <2>1. i \in 1..(n + m)
    OBVIOUS
  <2>2. QED
    BY <1>1, <1>2, <1>4, <1>5, <2>1
<1>8. ToSet(r) \subseteq ToSet(w)
  <2> SUFFICES ASSUME NEW i \in 1..m PROVE  r[i] \in ToSet(w)
    BY <1>4, <1>5
  <2>1. n + i \in 1..(n + m)
    OBVIOUS
  <2>2. QED
    BY <1>1, <1>3, <1>4, <1>5, <2>1
<1>9. QED
  BY <1>1, <1>2, <1>3, <1>6, <1>7, <1>8 DEF w

(* Nothing is lost by taking the repetitions out. *)
LEMMA DedupElements ==
    ASSUME NEW S, NEW q \in Seq(S)
    PROVE  Dedup(q) \in Seq(S) /\ ToSet(Dedup(q)) = ToSet(q)
<1> DEFINE keep == {i \in 1..Len(q) : \A j \in 1..(i - 1) : q[j] # q[i]}
           w == RetainAt(q, keep)
<1>1. keep \in SUBSET (1..Len(q)) /\ Len(q) \in Nat
  OBVIOUS
<1> HIDE DEF keep, w
<1>2. /\ w \in Seq(S) /\ Len(w) = Cardinality(keep)
      /\ \A k \in 1..Cardinality(keep) : w[k] = q[Nth(keep, k)]
  BY <1>1, RetainType DEF w
<1>3. /\ \A k \in 1..Cardinality(keep) : Nth(keep, k) \in keep
      /\ \A i \in keep : \E k \in 1..Cardinality(keep) : Nth(keep, k) = i
  BY <1>1, NthPosition
<1>4. /\ ToSet(w) = {w[k] : k \in 1..Cardinality(keep)}
      /\ ToSet(q) = {q[i] : i \in 1..Len(q)}
  BY <1>2, Elements
<1>5. ToSet(w) \subseteq ToSet(q)
  BY <1>1, <1>2, <1>3, <1>4
<1>6. ASSUME NEW i \in 1..Len(q)
      PROVE  q[i] \in ToSet(w)
  <2> DEFINE same == {j \in 1..Len(q) : q[j] = q[i]}
  <2>1. /\ same \in SUBSET (1..Len(q)) /\ i \in same
        /\ \A j \in 1..Len(q) : j \in same <=> q[j] = q[i]
    OBVIOUS
  <2> HIDE DEF same
  <2>2. PICK k \in same : \A j \in 1..(k - 1) : j \notin same
    BY <1>1, <2>1, FirstSuch
  <2>3. k \in 1..Len(q) /\ q[k] = q[i]
    BY <2>1
  <2>4. k \in keep
    <3>1. \A j \in 1..(k - 1) : j \in 1..Len(q)
      BY <1>1, <2>3
    <3>2. QED
      BY <2>1, <2>2, <2>3, <3>1 DEF keep
  <2>5. QED
    BY <1>2, <1>3, <1>4, <2>3, <2>4
<1>7. QED
  BY <1>2, <1>4, <1>5, <1>6 DEF Dedup, keep, w

-----------------------------------------------------------------------------
(* The path. *)

(* One step of the walk: what is known of an element and of the next one,  *)
(* and, at the end, of an anchor.                                          *)
LEMMA WalkStep ==
    ASSUME NEW chain, NEW anchors, NEW domain, NEW role, NEW policy,
           verify_chain(chain, anchors, domain, role, policy),
           Len(chain) \in Nat,
           NEW i \in 1..Len(chain)
    PROVE  /\ chain[i].parses /\ InValidity(chain[i])
           /\ i < Len(chain) =>
                 /\ chain[i + 1].subject = chain[i].issuer
                 /\ chain[i + 1].key = chain[i].signer
           /\ i = Len(chain) =>
                 \E k \in 1..Len(anchors) :
                    /\ anchors[k].parses /\ InValidity(anchors[k])
                    /\ anchors[k].subject = chain[i].issuer
                    /\ anchors[k].key = chain[i].signer
<1> DEFINE d == IF i = 1 THEN domain ELSE << >>
<1>1. /\ chain[i].parses
      /\ IF i < Len(chain)
         THEN verify_link(chain[i], chain[i + 1], d, policy)
         ELSE ReachesAnchor(chain[i], anchors, d, policy)
  BY DEF verify_chain
<1> HIDE DEF d
<1>2. ASSUME NEW x, NEW y, verify_link(x, y, d, policy)
      PROVE  /\ y.parses /\ InValidity(x) /\ InValidity(y)
             /\ y.subject = x.issuer /\ y.key = x.signer
  <2>1. /\ y.parses /\ InValidity(x) /\ InValidity(y) /\ y.subject = x.issuer
        /\ SignatureVerifies(x, y.key, policy)
    BY <1>2 DEF verify_link, validate_cert_parsed
  <2>2. y.key = x.signer
    BY <2>1 DEF SignatureVerifies, verify_with_distid_fallbacks
  <2>3. QED
    BY <2>1, <2>2
<1>3. CASE i < Len(chain)
  <2>1. verify_link(chain[i], chain[i + 1], d, policy)
    BY <1>1, <1>3
  <2>2. i # Len(chain)
    BY <1>3
  <2>3. QED
    BY <1>1, <1>2, <1>3, <2>1, <2>2
<1>4. CASE ~(i < Len(chain))
  <2>1. PICK k \in 1..Len(anchors) : verify_link(chain[i], anchors[k], d, policy)
    BY <1>1, <1>4 DEF ReachesAnchor
  <2>2. QED
    BY <1>1, <1>2, <1>4, <2>1
<1>5. QED
  BY <1>3, <1>4

(* The walk never leaves a set that holds its first element and, with a    *)
(* certificate, whoever of those at hand may have issued it.               *)
LEMMA WalkTrusted ==
    ASSUME NEW L, NEW chain \in Seq(L), NEW anchors \in Seq(L),
           NEW domain, NEW role, NEW policy,
           verify_chain(chain, anchors, domain, role, policy),
           NEW S, chain[1] \in S,
           \A d \in S : \A p \in L :
              p.parses /\ p.subject = d.issuer /\ p.key = d.signer => p \in S
    PROVE  \E a \in S : a \in ToSet(anchors) /\ InValidity(a)
<1>1. PICK n \in Nat : n = Len(chain)
  OBVIOUS
<1>2. chain # << >>
  BY DEF verify_chain
<1>3. n >= 1 /\ \A i \in 1..n : chain[i] \in L
  BY <1>1, <1>2
<1>4. \A i \in 1..n : chain[i] \in S
  <2> DEFINE out == {i \in 1..n : chain[i] \notin S}
  <2> SUFFICES ASSUME out # {} PROVE FALSE
    OBVIOUS
  <2>1. /\ out \in SUBSET (1..n)
        /\ \A i \in 1..n : i \in out <=> chain[i] \notin S
    OBVIOUS
  <2> HIDE DEF out
  <2>2. PICK i \in out : \A j \in 1..(i - 1) : j \notin out
    BY <2>1, FirstSuch
  <2>3. i \in 1..n /\ i # 1 /\ chain[i] \notin S
    BY <2>1
  <2>4. i - 1 \in 1..n /\ i - 1 < n /\ (i - 1) + 1 = i /\ i - 1 \in 1..(i - 1)
    BY <2>3
  <2>5. chain[i - 1] \in S
    BY <2>1, <2>2, <2>4
  <2>6. /\ chain[i].parses
        /\ chain[i].subject = chain[i - 1].issuer
        /\ chain[i].key = chain[i - 1].signer
    BY <1>1, <2>3, <2>4, WalkStep
  <2>7. QED
    BY <1>3, <2>3, <2>5, <2>6
<1>5. PICK k \in 1..Len(anchors) :
            /\ anchors[k].parses /\ InValidity(anchors[k])
            /\ anchors[k].subject = chain[n].issuer
            /\ anchors[k].key = chain[n].signer
  <2>1. n \in 1..n
    BY <1>3
  <2>2. QED
    BY <1>1, <2>1, WalkStep
<1>6. anchors[k] \in L /\ anchors[k] \in ToSet(anchors)
  BY Elements
<1>7. n \in 1..n
  BY <1>3
<1>8. QED
  BY <1>4, <1>5, <1>6, <1>7

-----------------------------------------------------------------------------
(* The verdict on a list. *)

(* What is asked of the i-th entry, a leaf: the chain material goes with   *)
(* each leaf, the name with the first of a server's.                       *)
Behind(side, list) ==
    LET rest == SubSeq(list, 3, Len(list))
    IN  IF side = "server" THEN Dedup(rest) ELSE rest
AskedName(side, v, i) == IF side = "server" /\ i = 1 THEN v.name ELSE << >>
AskedRole(side, i) ==
    IF side = "server" THEN IF i = 1 THEN "TlcServer" ELSE "TlcEncServer"
    ELSE IF i = 1 THEN "TlcClient" ELSE "TlcEncClient"
LeafOf(side, list, v, i) ==
    LeafVerdict(v, list[i], Behind(side, list), AskedName(side, v, i), AskedRole(side, i))

(* The name and the URI a server's first certificate must carry. *)
Named(list, v) ==
    v.name # << >> => validate_hostname_only(list[1], v.name)
Identified(list, v) ==
    v.uri # NoUri => validate_uri_only(list[1], v.uri, "Prefix")

LEMMA ServerVerdict ==
    ASSUME NEW L, NEW list \in Seq(L), list # << >>, NEW v
    PROVE  VerdictOn("server", list, v) =
              IF list[1] = NoCert THEN "missing"
              ELSE IF ~Named(list, v) THEN "name"
              ELSE IF ~v.anchored THEN "ok"
              ELSE IF v.anchors = << >> THEN "anchors"
              ELSE IF LeafOf("server", list, v, 1) # "ok"
              THEN LeafOf("server", list, v, 1)
              ELSE IF ~Identified(list, v) THEN "uri"
              ELSE IF Len(list) = 1 \/ list[2] = NoCert THEN "ok"
              ELSE LeafOf("server", list, v, 2)
<1> DEFINE pair == from_certificate_message(list)
           rest == SubSeq(list, 3, Len(list))
<1>1. Len(list) \in Nat /\ Len(list) # 0
  OBVIOUS
<1>2. rest \in Seq(L)
  BY <1>1
<1>3. Len(list) = 1 => rest = << >>
  BY <1>1
<1> HIDE DEF rest
<1>4. /\ pair.sign = list[1]
      /\ pair.enc = IF Len(list) = 1 THEN NoCert ELSE list[2]
      /\ pair.sign_chain \o pair.enc_chain = rest
  <2>1. CASE Len(list) = 1
    BY <1>3, <2>1 DEF from_certificate_message, SinglePair
  <2>2. CASE Len(list) # 1
    <3>1. rest \o << >> = rest
      BY <1>2
    <3>2. pair = CertPair(list[1], list[2], rest, << >>)
      BY <2>2 DEF from_certificate_message, rest
    <3>3. QED
      BY <2>2, <3>1, <3>2 DEF CertPair
  <2>3. QED
    BY <2>1, <2>2
<1>5. Dedup(pair.sign_chain \o pair.enc_chain) = Behind("server", list)
  BY <1>4 DEF Behind, rest
<1>6. /\ AskedName("server", v, 1) = v.name /\ AskedName("server", v, 2) = << >>
      /\ AskedRole("server", 1) = "TlcServer" /\ AskedRole("server", 2) = "TlcEncServer"
  BY DEF AskedName, AskedRole
<1>7. VerdictOn("server", list, v) = ServerCertsVerdict(v, pair)
  BY DEF VerdictOn
<1> HIDE DEF pair
<1>8. CASE Len(list) = 1
  BY <1>4, <1>5, <1>6, <1>7, <1>8 DEF ServerCertsVerdict, LeafOf, Named, Identified
<1>9. CASE Len(list) # 1
  BY <1>4, <1>5, <1>6, <1>7, <1>9 DEF ServerCertsVerdict, LeafOf, Named, Identified
<1>10. QED
  BY <1>8, <1>9

LEMMA ClientVerdict ==
    ASSUME NEW L, NEW list \in Seq(L), list # << >>, NEW v
    PROVE  VerdictOn("client", list, v) =
              IF ~v.anchored THEN "ok"
              ELSE IF v.anchors = << >> THEN "anchors"
              ELSE IF LeafOf("client", list, v, 1) # "ok"
              THEN LeafOf("client", list, v, 1)
              ELSE IF Len(list) = 1 THEN "ok"
              ELSE LeafOf("client", list, v, 2)
<1> DEFINE leaf(i) == LeafVerdict(v, list[i], SubSeq(list, 3, Len(list)), << >>,
                                  IF i = 1 THEN "TlcClient" ELSE "TlcEncClient")
           few == Min({Len(list), 2})
           bad == {i \in 1..few : leaf(i) # "ok"}
<1>1. Len(list) \in Nat /\ Len(list) # 0
  OBVIOUS
<1>2. VerdictOn("client", list, v) =
         IF ~v.anchored THEN "ok"
         ELSE IF v.anchors = << >> THEN "anchors"
         ELSE IF bad # {} THEN leaf(Min(bad)) ELSE "ok"
  BY DEF VerdictOn, ClientCertsVerdict
<1>3. leaf(1) = LeafOf("client", list, v, 1) /\ leaf(2) = LeafOf("client", list, v, 2)
  BY DEF LeafOf, AskedName, AskedRole, Behind
<1>4. few = IF Len(list) = 1 THEN 1 ELSE 2
  <2> DEFINE two == {Len(list), 2}
             n == Len(list) + 2
  <2>1. n \in Nat /\ two \in SUBSET (1..n) /\ two # {}
    BY <1>1
  <2> HIDE DEF n
  <2>2. few \in two /\ few <= 2 /\ few <= Len(list)
    <3>1. Min(two) \in two /\ \A j \in two : Min(two) <= j
      BY <2>1, MinPosition
    <3>2. QED
      BY <3>1
  <2>3. few = Len(list) \/ few = 2
    BY <2>2
  <2> HIDE DEF few
  <2>4. PICK len \in Nat : len = Len(list) /\ len # 0
    BY <1>1
  <2>5. CASE few = Len(list)
    BY <2>2, <2>4, <2>5
  <2>6. CASE few = 2
    BY <2>2, <2>4, <2>6
  <2>7. QED
    BY <2>3, <2>5, <2>6
<1>5. /\ bad \in SUBSET (1..2)
      /\ 1 \in bad <=> leaf(1) # "ok"
      /\ 2 \in bad <=> Len(list) # 1 /\ leaf(2) # "ok"
  BY <1>4
<1> HIDE DEF bad, few, leaf
<1>6. bad # {} => Min(bad) = IF 1 \in bad THEN 1 ELSE 2
  <2> SUFFICES ASSUME bad # {} PROVE Min(bad) = IF 1 \in bad THEN 1 ELSE 2
    OBVIOUS
  <2>1. Min(bad) \in bad /\ \A j \in bad : Min(bad) <= j
    BY <1>5, MinPosition
  <2>2. \A j \in bad : j = 1 \/ j = 2
    BY <1>5
  <2>3. QED
    BY <2>1, <2>2
<1>7. bad # {} <=> 1 \in bad \/ 2 \in bad
  <2>1. \A j \in bad : j = 1 \/ j = 2
    BY <1>5
  <2>2. QED
    BY <2>1
<1>8. QED
  BY <1>2, <1>3, <1>5, <1>6, <1>7

(* A message without an entry. *)
LEMMA EmptyVerdict ==
    ASSUME NEW side \in Sides, NEW v
    PROVE  VerdictOn(side, << >>, v) =
              IF side = "server" THEN "missing"
              ELSE IF ~v.anchored THEN "ok"
              ELSE IF v.anchors = << >> THEN "anchors" ELSE "missing"
<1>1. VerdictOn("server", << >>, v) = "missing"
  BY DEF VerdictOn, from_certificate_message, SinglePair, ServerCertsVerdict
<1>2. VerdictOn("client", << >>, v) =
         IF ~v.anchored THEN "ok"
         ELSE IF v.anchors = << >> THEN "anchors" ELSE "missing"
  BY DEF VerdictOn, ClientCertsVerdict
<1>3. QED
  BY <1>1, <1>2 DEF Sides

-----------------------------------------------------------------------------
(* The verdict on a leaf. *)

LEMMA LeafAccepted ==
    ASSUME NEW v, NEW leaf, NEW material, NEW domain, NEW role,
           LeafVerdict(v, leaf, material, domain, role) = "ok"
    PROVE  /\ verify_chain(<<leaf>> \o material, v.anchors, domain, role, v.distids)
           /\ v.strict => ensure_crl_coverage(<<leaf>> \o material \o v.anchors, v.crls)
           /\ check_revocations(<<leaf>> \o material \o v.anchors, v.crls, "Strict")
  BY DEF LeafVerdict, verify_against_anchors

(* The elements of what goes with the leaves. *)
FromThird(list) == {list[i] : i \in 3..Len(list)}

LEMMA BehindElements ==
    ASSUME NEW L, NEW list \in Seq(L), NEW side \in Sides
    PROVE  /\ Behind(side, list) \in Seq(L)
           /\ ToSet(Behind(side, list)) = FromThird(list)
<1> DEFINE rest == SubSeq(list, 3, Len(list))
<1>1. PICK n \in Nat : n = Len(list)
  OBVIOUS
<1>2. /\ rest \in Seq(L)
      /\ Len(rest) = IF 3 <= n THEN n - 2 ELSE 0
      /\ \A j \in 1..(n - 2) : rest[j] = list[j + 2]
  BY <1>1
<1> HIDE DEF rest
<1>3. 1..Len(rest) = 1..(n - 2)
  BY <1>2
<1>4. ToSet(rest) = {rest[j] : j \in 1..(n - 2)}
  BY <1>2, <1>3, Elements
<1>5. ToSet(rest) \subseteq {list[i] : i \in 3..n}
  <2> SUFFICES ASSUME NEW j \in 1..(n - 2) PROVE rest[j] \in {list[i] : i \in 3..n}
    BY <1>4
  <2>1. j + 2 \in 3..n
    OBVIOUS
  <2>2. QED
    BY <1>2, <2>1
<1>6. {list[i] : i \in 3..n} \subseteq ToSet(rest)
  <2> SUFFICES ASSUME NEW i \in 3..n PROVE list[i] \in ToSet(rest)
    OBVIOUS
  <2>1. i - 2 \in 1..(n - 2) /\ (i - 2) + 2 = i
    OBVIOUS
  <2>2. QED
    BY <1>2, <1>4, <2>1
<1>7. ToSet(Dedup(rest)) = ToSet(rest) /\ Dedup(rest) \in Seq(L)
  BY <1>2, DedupElements
<1>8. QED
  BY <1>1, <1>2, <1>5, <1>6, <1>7 DEF Behind, rest, FromThird

(* The path that is walked for a leaf, and the certificates revocation is  *)
(* asked of.                                                               *)
LEMMA FullElements ==
    ASSUME NEW L, NEW leaf \in L, NEW material \in Seq(L), NEW anchors \in Seq(L)
    PROVE  /\ <<leaf>> \o material \in Seq(L)
           /\ (<<leaf>> \o material)[1] = leaf
           /\ ToSet(<<leaf>> \o material) = {leaf} \cup ToSet(material)
           /\ <<leaf>> \o material \o anchors \in Seq(L)
           /\ ToSet(<<leaf>> \o material \o anchors) =
                 {leaf} \cup ToSet(material) \cup ToSet(anchors)
<1>1. <<leaf>> \in Seq(L) /\ Len(<<leaf>>) = 1 /\ <<leaf>>[1] = leaf
  OBVIOUS
<1>2. ToSet(<<leaf>>) = {leaf}
  <2>1. ToSet(<<leaf>>) = {<<leaf>>[i] : i \in 1..1}
    BY <1>1, Elements
  <2>2. QED
    BY <1>1, <2>1
<1> DEFINE q == <<leaf>>
<1>3. /\ q \in Seq(L) /\ Len(q) = 1 /\ q[1] = leaf /\ ToSet(q) = {leaf}
  BY <1>1, <1>2
<1> HIDE DEF q
<1>4. /\ q \o material \in Seq(L)
      /\ ToSet(q \o material) = {leaf} \cup ToSet(material)
      /\ (q \o material)[1] = leaf
  BY <1>3, JoinedElements
<1> DEFINE w == q \o material
<1>5. w \in Seq(L)
  BY <1>4
<1> HIDE DEF w
<1>6. w \o anchors \in Seq(L) /\ ToSet(w \o anchors) = ToSet(w) \cup ToSet(anchors)
  BY <1>5, JoinedElements
<1>7. QED
  BY <1>4, <1>6 DEF q, w

(* A leaf that is accepted: every element of its path parses, and so does  *)
(* what revocation was asked of under strict checking.                     *)
LEMMA PathParses ==
    ASSUME NEW L, NEW chain \in Seq(L), NEW anchors, NEW domain, NEW role, NEW policy,
           verify_chain(chain, anchors, domain, role, policy)
    PROVE  \A x \in ToSet(chain) : x.parses
<1>1. ToSet(chain) = {chain[i] : i \in 1..Len(chain)} /\ Len(chain) \in Nat
  BY Elements
<1>2. QED
  BY <1>1, WalkStep

(* Only an anchor of one's own can make the check panic. *)
LEMMA LeafPanics ==
    ASSUME NEW L, NEW v, NEW leaf \in L, NEW material \in Seq(L),
           v.anchors \in Seq(L), NEW domain, NEW role,
           LeafVerdict(v, leaf, material, domain, role) = "panic"
    PROVE  \E a \in ToSet(v.anchors) : ~a.parses
<1>1. /\ verify_chain(<<leaf>> \o material, v.anchors, domain, role, v.distids)
      /\ \E x \in ToSet(<<leaf>> \o material \o v.anchors) : ~x.parses
  BY DEF LeafVerdict, verify_against_anchors
<1>2. \A x \in ToSet(<<leaf>> \o material) : x.parses
  BY <1>1, FullElements, PathParses
<1>3. ToSet(<<leaf>> \o material \o v.anchors) =
         ToSet(<<leaf>> \o material) \cup ToSet(v.anchors)
  BY FullElements
<1>4. QED
  BY <1>1, <1>2, <1>3

(* The key that a CRL is verified with is that of a certificate of its     *)
(* issuer's name.                                                          *)
LEMMA SignedByHolder ==
    ASSUME NEW L, NEW chain \in Seq(L), NEW crl, CrlSigned(crl, chain)
    PROVE  \E p \in ToSet(chain) :
              p.parses /\ p.subject = crl.issuer /\ p.key = crl.signer
<1> DEFINE holders == {i \in 1..Len(chain) :
                          chain[i].parses /\ chain[i].subject = crl.issuer}
<1>1. Len(chain) \in Nat /\ ToSet(chain) = {chain[i] : i \in 1..Len(chain)}
  BY Elements
<1>2. /\ holders \in SUBSET (1..Len(chain)) /\ holders # {}
      /\ SignatureVerifies(crl, chain[Min(holders)].key, {})
  BY DEF CrlSigned
<1>3. \A i \in holders : chain[i].parses /\ chain[i].subject = crl.issuer
  OBVIOUS
<1> HIDE DEF holders
<1>4. Min(holders) \in holders
  BY <1>1, <1>2, MinPosition
<1>5. crl.signer = chain[Min(holders)].key
  BY <1>2 DEF SignatureVerifies, verify_with_distid_fallbacks
<1>6. QED
  BY <1>1, <1>2, <1>3, <1>4, <1>5

(* Under strict checking every certificate of the path that is not         *)
(* self-signed is covered by a CRL in date, signed by a key of the path.   *)
CoveredBy(x, lists, certs) ==
    \E i \in 1..Len(lists) :
        /\ lists[i].issuer = x.issuer
        /\ CrlInDate(lists[i])
        /\ \E p \in certs : p.parses /\ p.subject = x.issuer /\ p.key = lists[i].signer

LEMMA LeafCovered ==
    ASSUME NEW L, NEW v, NEW leaf \in L, NEW material \in Seq(L),
           v.anchors \in Seq(L), NEW domain, NEW role, v.strict,
           LeafVerdict(v, leaf, material, domain, role) = "ok",
           NEW x \in {leaf} \cup ToSet(material), x.subject # x.issuer
    PROVE  CoveredBy(x, v.crls, {leaf} \cup ToSet(material) \cup ToSet(v.anchors))
<1> DEFINE full == <<leaf>> \o material \o v.anchors
<1>1. /\ full \in Seq(L)
      /\ ToSet(full) = {leaf} \cup ToSet(material) \cup ToSet(v.anchors)
  BY FullElements
<1>2. ensure_crl_coverage(full, v.crls) /\ check_revocations(full, v.crls, "Strict")
  BY LeafAccepted
<1> HIDE DEF full
<1>3. PICK i \in 1..Len(v.crls) : v.crls[i].issuer = x.issuer
  BY <1>1, <1>2 DEF ensure_crl_coverage
<1>4. CrlPasses(v.crls[i], full, "Strict")
  BY <1>2 DEF check_revocations
<1>5. CrlSigned(v.crls[i], full) /\ CrlInDate(v.crls[i])
  BY <1>4 DEF CrlPasses
<1>6. QED
  BY <1>1, <1>3, <1>5, SignedByHolder DEF CoveredBy

-----------------------------------------------------------------------------
(* Accepted lists. *)

(* A list that is accepted has a first entry; each of its leaves has been  *)
(* accepted, an encryption certificate of no bytes apart.                  *)
LEMMA AcceptedLeaves ==
    ASSUME NEW L, NEW list \in Seq(L), NEW side \in Sides, NEW v, v.anchored,
           VerdictOn(side, list, v) = "ok"
    PROVE  /\ list # << >>
           /\ LeafOf(side, list, v, 1) = "ok"
           /\ Len(list) >= 2 /\ list[2] # NoCert => LeafOf(side, list, v, 2) = "ok"
<1>1. list # << >>
  BY EmptyVerdict
<1>2. Len(list) \in Nat
  OBVIOUS
<1>3. CASE side = "server"
  BY <1>1, <1>2, <1>3, ServerVerdict
<1>4. CASE side = "client"
  BY <1>1, <1>2, <1>4, ClientVerdict
<1>5. QED
  BY <1>3, <1>4, <1>1 DEF Sides

(* What can be met, and a decision that has been made. *)
Decided(x) == VerdictOn(x.side, x.list, x.v)
CheckInv == input \in Inputs /\ verdict \in {"none", Decided(input)}

LEMMA InputFacts ==
    ASSUME input \in Inputs
    PROVE  /\ input.side \in Sides
           /\ input.list \in Seq(ToSet(input.list) \cup ToSet(input.v.anchors))
           /\ input.v.anchors \in Seq(ToSet(input.list) \cup ToSet(input.v.anchors))
           /\ input.list \in Seq(ToSet(input.list))
           /\ input.v.anchors \in Seq(ToSet(input.v.anchors))
           /\ input.v = Verifier(input.v.anchored, input.v.anchors, input.v.name,
                                 input.v.uri, input.v.crls, input.v.strict,
                                 input.v.distids)
           /\ input.v.crls \in Seq(ToSet(input.v.crls))
<1>1. ASSUME NEW S, NEW T, NEW q \in Seq(S) PROVE q \in Seq(S \cup T) /\ q \in Seq(T \cup S)
  <2>1. DOMAIN q = 1..Len(q) /\ Len(q) \in Nat /\ \A i \in 1..Len(q) : q[i] \in S
    OBVIOUS
  <2>2. q = [i \in 1..Len(q) |-> q[i]]
    BY <2>1
  <2>3. QED
    BY <2>1, <2>2
<1>2. QED
  BY <1>1, CertChecksConstants

(* The decision is that of VerdictOn (Verify), and stands. *)
THEOREM CheckSafety == CheckSpec => []CheckInv
<1>1. CheckInit => CheckInv
  BY DEF CheckInit, CheckInv
<1>2. CheckInv /\ [CheckNext]_check_vars => CheckInv'
  <2> SUFFICES ASSUME CheckInv, [CheckNext]_check_vars PROVE CheckInv'
    OBVIOUS
  <2>1. CASE Verify
    BY <2>1 DEF CheckInv, Verify, Decided
  <2>2. CASE UNCHANGED check_vars
    BY <2>2 DEF CheckInv, check_vars
  <2>3. QED
    BY <2>1, <2>2 DEF CheckNext
<1>3. QED
  BY <1>1, <1>2, PTL DEF CheckSpec

(* The entries that the properties call leaves. *)
LEMMA TheLeaves ==
    ASSUME CheckInv, verdict = "ok", input.v.anchored
    PROVE  \A leaf \in Leaves : \E i \in 1..2 :
              /\ leaf = input.list[i] /\ i <= Len(input.list)
              /\ LeafOf(input.side, input.list, input.v, i) = "ok"
<1>1. /\ input.list # << >>
      /\ LeafOf(input.side, input.list, input.v, 1) = "ok"
      /\ Len(input.list) >= 2 /\ input.list[2] # NoCert =>
            LeafOf(input.side, input.list, input.v, 2) = "ok"
  <2>1. VerdictOn(input.side, input.list, input.v) = "ok"
    BY DEF CheckInv, Decided
  <2> HIDE DEF CheckInv
  <2>2. input.side \in Sides /\ input.list \in Seq(ToSet(input.list))
    BY InputFacts DEF CheckInv
  <2>3. QED
    BY <2>1, <2>2, AcceptedLeaves
<1>2. PICK n \in Nat : n = Len(input.list)
  BY InputFacts DEF CheckInv
<1>3. ASSUME NEW leaf \in Leaves
      PROVE  \E i \in 1..2 : leaf = input.list[i] /\ leaf # NoCert /\ i <= n
  <2>1. PICK i \in 1..Min({n, 2}) : leaf = input.list[i]
    BY <1>2 DEF Leaves
  <2>2. Min({n, 2}) <= n /\ Min({n, 2}) <= 2 /\ Min({n, 2}) \in Int
    <3> DEFINE two == {n, 2}
    <3>1. CASE n = 0
      <4>1. Min(two) \in two /\ \A j \in two : Min(two) <= j
        <5>1. \E x \in two : \A j \in two : x <= j
          BY <3>1
        <5>2. QED
          BY <5>1 DEF Min
      <4>2. QED
        BY <4>1
    <3>2. CASE n # 0
      <4>1. n + 2 \in Nat /\ two \in SUBSET (1..(n + 2)) /\ two # {}
        BY <3>2
      <4>2. Min(two) \in two /\ \A j \in two : Min(two) <= j
        BY <4>1, MinPosition
      <4>3. QED
        BY <4>2
    <3>3. QED
      BY <3>1, <3>2
  <2>3. i \in 1..2 /\ i <= n
    BY <2>2
  <2>4. QED
    BY <2>1, <2>3 DEF Leaves
<1>4. QED
  <2> SUFFICES ASSUME NEW leaf \in Leaves
               PROVE  \E i \in 1..2 :
                         /\ leaf = input.list[i] /\ i <= Len(input.list)
                         /\ LeafOf(input.side, input.list, input.v, i) = "ok"
    OBVIOUS
  <2>1. PICK i \in 1..2 : leaf = input.list[i] /\ leaf # NoCert /\ i <= n
    BY <1>3
  <2>2. i = 1 \/ (i = 2 /\ n >= 2)
    BY <2>1
  <2>3. QED
    BY <1>1, <1>2, <2>1, <2>2

(* An accepted leaf leads to an anchor: the walk of verify_chain is one of *)
(* the ways LeadsToAnchor allows.                                          *)
THEOREM TrustFromAnchors == CheckSpec => []AcceptedIsTrusted
<1>1. ASSUME CheckInv PROVE AcceptedIsTrusted
  <2> SUFFICES ASSUME verdict = "ok", input.v.anchored, NEW leaf \in Leaves
               PROVE  leaf \in Pool /\ InValidity(leaf) /\ LeadsToAnchor(leaf)
    BY DEF AcceptedIsTrusted
  <2> DEFINE L == ToSet(input.list) \cup ToSet(input.v.anchors)
             material == Behind(input.side, input.list)
             chain == <<leaf>> \o material
             anchors == input.v.anchors
  <2>1. PICK i \in 1..2 :
              /\ leaf = input.list[i] /\ i <= Len(input.list)
              /\ LeafOf(input.side, input.list, input.v, i) = "ok"
    BY <1>1, TheLeaves
  <2> DEFINE domain == AskedName(input.side, input.v, i)
             role == AskedRole(input.side, i)
  <2>2. /\ input.side \in Sides /\ input.list \in Seq(L) /\ anchors \in Seq(L)
        /\ Len(input.list) \in Nat
    BY <1>1, InputFacts DEF CheckInv
  <2>3. leaf \in L /\ leaf \in ToSet(input.list) /\ material \in Seq(L)
    <3>1. i \in 1..Len(input.list)
      BY <2>1, <2>2
    <3>2. leaf \in ToSet(input.list)
      BY <2>1, <2>2, <3>1, Elements
    <3>3. material \in Seq(L)
      BY <2>2, BehindElements
    <3>4. QED
      BY <3>2, <3>3
  <2>4. verify_chain(chain, anchors, domain, role, input.v.distids)
    BY <2>1, LeafAccepted DEF LeafOf
  <2>5. Pool = {p \in L : p.parses}
    BY DEF Pool
  <2> HIDE DEF L, material, anchors, domain, role
  <2>6. chain \in Seq(L) /\ chain[1] = leaf
    BY <2>2, <2>3, FullElements
  <2> HIDE DEF chain
  <2>7. leaf.parses /\ InValidity(leaf)
    <3>1. 1 \in 1..Len(chain) /\ Len(chain) \in Nat
      <4>1. chain # << >>
        BY <2>4 DEF verify_chain
      <4>2. QED
        BY <2>6, <4>1
    <3>2. QED
      BY <2>4, <2>6, <3>1, WalkStep
  <2>8. LeadsToAnchor(leaf)
    <3> SUFFICES ASSUME NEW S \in SUBSET Pool, leaf \in S,
                        \A d \in S : Issuers(d) \subseteq S
                 PROVE  \E a \in S : a \in ToSet(input.v.anchors) /\ InValidity(a)
      BY DEF LeadsToAnchor
    <3>1. \A d \in S : \A p \in L :
             p.parses /\ p.subject = d.issuer /\ p.key = d.signer => p \in S
      BY <2>5 DEF Issuers
    <3>2. \E a \in S : a \in ToSet(anchors) /\ InValidity(a)
      BY <2>2, <2>4, <2>6, <3>1, WalkTrusted
    <3>3. QED
      BY <3>2 DEF anchors
  <2>9. QED
    BY <2>3, <2>5, <2>7, <2>8
<1>2. QED
  BY <1>1, CheckSafety, PTL

(* Everything sent is behind some leaf or a leaf itself, and covered there *)
(* (ensure_crl_coverage with check_revocations).                           *)
THEOREM CoverageOfTheSent == CheckSpec => []StrictCovered
<1>1. ASSUME CheckInv PROVE StrictCovered
  <2> SUFFICES ASSUME verdict = "ok", input.v.anchored, input.v.strict,
                      NEW x \in Sent, x.subject # x.issuer
               PROVE  \E i \in 1..Len(input.v.crls) :
                         /\ input.v.crls[i].issuer = x.issuer
                         /\ CrlInDate(input.v.crls[i])
                         /\ \E p \in Pool : /\ p.subject = x.issuer
                                            /\ p.key = input.v.crls[i].signer
    BY DEF StrictCovered
  <2> DEFINE L == ToSet(input.list) \cup ToSet(input.v.anchors)
             material == Behind(input.side, input.list)
  <2>1. /\ input.side \in Sides /\ input.list \in Seq(L) /\ input.v.anchors \in Seq(L)
        /\ input.list \in Seq(ToSet(input.list))
        /\ Len(input.list) \in Nat
    BY <1>1, InputFacts DEF CheckInv
  <2>2. /\ ToSet(input.list) = {input.list[i] : i \in 1..Len(input.list)}
        /\ material \in Seq(L)
        /\ ToSet(material) = FromThird(input.list)
    BY <2>1, Elements, BehindElements
  <2>3. VerdictOn(input.side, input.list, input.v) = "ok"
    BY <1>1 DEF CheckInv, Decided
  <2>4. /\ LeafOf(input.side, input.list, input.v, 1) = "ok"
        /\ Len(input.list) >= 2 /\ input.list[2] # NoCert =>
              LeafOf(input.side, input.list, input.v, 2) = "ok"
        /\ input.list # << >>
    BY <2>1, <2>3, AcceptedLeaves
  <2>5. PICK k \in 1..Len(input.list) : x = input.list[k]
    BY <2>2 DEF Sent
  <2>6. \E j \in 1..Len(input.list) :
           /\ LeafOf(input.side, input.list, input.v, j) = "ok"
           /\ x \in {input.list[j]} \cup ToSet(material)
    <3>1. PICK n \in Nat : n = Len(input.list)
      BY <2>1
    <3>2. CASE k = 2
      <4>1. k >= 2 /\ n >= 2 /\ input.list[2] # NoCert
        BY <2>5, <3>1, <3>2 DEF Sent
      <4>2. QED
        BY <2>4, <2>5, <3>1, <3>2, <4>1
    <3>3. CASE k = 1
      BY <2>4, <2>5, <3>3
    <3>4. CASE k \notin {1, 2}
      <4>1. k \in 3..n /\ 1 \in 1..n
        BY <3>1, <3>4
      <4>2. x \in ToSet(material)
        BY <2>2, <2>5, <3>1, <4>1 DEF FromThird
      <4>3. QED
        BY <2>4, <3>1, <4>1, <4>2
    <3>5. QED
      BY <3>2, <3>3, <3>4
  <2>7. PICK j \in 1..Len(input.list) :
              /\ LeafOf(input.side, input.list, input.v, j) = "ok"
              /\ x \in {input.list[j]} \cup ToSet(material)
    BY <2>6
  <2>8. input.list[j] \in L
    BY <2>1
  <2>9. CoveredBy(x, input.v.crls,
                  {input.list[j]} \cup ToSet(material) \cup ToSet(input.v.anchors))
    <3> DEFINE domain == AskedName(input.side, input.v, j)
               role == AskedRole(input.side, j)
               leaf == input.list[j]
               v == input.v
    <3>1. /\ LeafVerdict(v, leaf, material, domain, role) = "ok" /\ v.strict
          /\ leaf \in L /\ material \in Seq(L) /\ v.anchors \in Seq(L)
          /\ x \in {leaf} \cup ToSet(material) /\ x.subject # x.issuer
      BY <2>1, <2>2, <2>7, <2>8 DEF LeafOf
    <3> HIDE DEF domain, role, material, L, leaf, v
    <3>2. CoveredBy(x, v.crls, {leaf} \cup ToSet(material) \cup ToSet(v.anchors))
      BY <3>1, LeafCovered
    <3>3. QED
      BY <3>2 DEF leaf, v
  <2>10. {input.list[j]} \cup ToSet(material) \cup ToSet(input.v.anchors) \subseteq L
    <3>1. 3..Len(input.list) \subseteq 1..Len(input.list)
      BY <2>1
    <3>2. QED
      BY <2>2, <2>8, <3>1 DEF FromThird
  <2>11. QED
    BY <2>9, <2>10 DEF Pool, CoveredBy
<1>2. QED
  BY <1>1, CheckSafety, PTL

(* Only the verifier's own anchors can make it panic: what a peer sent has *)
(* been parsed by the walk before OwnedCert::from_pem_or_der meets it.     *)
THEOREM PeersCannotPanic == CheckSpec => []NoPeerPanic
<1>1. ASSUME CheckInv PROVE NoPeerPanic
  <2> SUFFICES ASSUME verdict = "panic"
               PROVE  \E a \in ToSet(input.v.anchors) : ~a.parses
    BY DEF NoPeerPanic
  <2> DEFINE L == ToSet(input.list) \cup ToSet(input.v.anchors)
             material == Behind(input.side, input.list)
  <2>1. /\ input.side \in Sides /\ input.list \in Seq(L) /\ input.v.anchors \in Seq(L)
        /\ Len(input.list) \in Nat
    BY <1>1, InputFacts DEF CheckInv
  <2>2. material \in Seq(L)
    BY <2>1, BehindElements
  <2>3. VerdictOn(input.side, input.list, input.v) = "panic"
    BY <1>1 DEF CheckInv, Decided
  <2>4. input.list # << >>
    BY <2>1, <2>3, EmptyVerdict
  <2>5. \E j \in 1..Len(input.list) : LeafOf(input.side, input.list, input.v, j) = "panic"
    <3>1. 1 \in 1..Len(input.list) /\ (Len(input.list) # 1 => 2 \in 1..Len(input.list))
      <4>1. PICK n \in Nat : n = Len(input.list)
        BY <2>1
      <4>2. n # 0
        BY <2>1, <2>4, <4>1
      <4>3. 1 \in 1..n /\ (n # 1 => 2 \in 1..n)
        BY <4>2
      <4>4. QED
        BY <4>1, <4>3
    <3>2. CASE input.side = "server"
      BY <2>1, <2>3, <2>4, <3>1, <3>2, ServerVerdict
    <3>3. CASE input.side = "client"
      BY <2>1, <2>3, <2>4, <3>1, <3>3, ClientVerdict
    <3>4. QED
      BY <2>1, <3>2, <3>3 DEF Sides
  <2>6. PICK j \in 1..Len(input.list) :
              LeafOf(input.side, input.list, input.v, j) = "panic"
    BY <2>5
  <2>7. input.list[j] \in L
    BY <2>1
  <2> DEFINE domain == AskedName(input.side, input.v, j)
             role == AskedRole(input.side, j)
  <2>8. LeafVerdict(input.v, input.list[j], material, domain, role) = "panic"
    BY <2>6 DEF LeafOf
  <2> HIDE DEF domain, role, material, L
  <2>9. QED
    BY <2>1, <2>2, <2>7, <2>8, LeafPanics
<1>2. QED
  BY <1>1, CheckSafety, PTL

-----------------------------------------------------------------------------
(* What the anchors' order, and a root sent or left out, decide. *)

(* Revocation is asked of p followed by r.  Which certificate's key a CRL  *)
(* is verified with is settled by p, or else by the one certificate of     *)
(* that name among the elements of r.                                      *)
OnePerName(certs) ==
    \A a, b \in certs : a.parses /\ b.parses /\ a.subject = b.subject => a = b
Holders(crl, chain) ==
    {i \in 1..Len(chain) : chain[i].parses /\ chain[i].subject = crl.issuer}

LEMMA FirstHolder ==
    ASSUME NEW L, NEW p \in Seq(L), NEW r \in Seq(L), NEW crl,
           Holders(crl, p \o r) # {}
    PROVE  LET m == Min(Holders(crl, p \o r))
           IN  /\ Holders(crl, p) # {} =>
                     (p \o r)[m] = p[Min(Holders(crl, p))]
               /\ Holders(crl, p) = {} =>
                     /\ (p \o r)[m] \in ToSet(r)
                     /\ (p \o r)[m].parses
                     /\ (p \o r)[m].subject = crl.issuer
<1> DEFINE w == p \o r
           all == Holders(crl, w)
           m == Min(all)
           own == Holders(crl, p)
<1>1. PICK n \in Nat, k \in Nat : n = Len(p) /\ k = Len(r)
  OBVIOUS
<1>2. /\ w \in Seq(L) /\ Len(w) = n + k
      /\ \A i \in 1..n : w[i] = p[i]
      /\ \A i \in 1..k : w[n + i] = r[i]
  BY <1>1, JoinedElements
<1> HIDE DEF w
<1>3. /\ all \in SUBSET (1..(n + k)) /\ own \in SUBSET (1..n) /\ all # {}
      /\ \A i \in 1..(n + k) : i \in all <=> w[i].parses /\ w[i].subject = crl.issuer
      /\ \A i \in 1..n : i \in own <=> p[i].parses /\ p[i].subject = crl.issuer
  BY <1>1, <1>2 DEF Holders, w
<1> HIDE DEF all, own, m
<1>4. m \in all /\ \A j \in all : m <= j
  <2>1. n + k \in Nat
    OBVIOUS
  <2>2. QED
    BY <1>3, <2>1, MinPosition DEF m
<1>5. \A i \in 1..n : i \in 1..(n + k) /\ (i \in own <=> i \in all)
  <2> SUFFICES ASSUME NEW i \in 1..n PROVE i \in 1..(n + k) /\ (i \in own <=> i \in all)
    OBVIOUS
  <2>1. i \in 1..(n + k)
    OBVIOUS
  <2>2. QED
    BY <1>2, <1>3, <2>1
<1>6. m \in 1..(n + k) /\ w[m].parses /\ w[m].subject = crl.issuer
  BY <1>3, <1>4
<1>7. ASSUME own # {}
      PROVE  w[m] = p[Min(own)]
  <2>1. Min(own) \in own /\ \A j \in own : Min(own) <= j
    BY <1>3, <1>7, MinPosition
  <2>2. PICK o \in 1..n : o = Min(own)
    BY <1>3, <2>1
  <2>3. m <= o
    BY <1>4, <1>5, <2>1, <2>2
  <2>4. m \in 1..n
    BY <1>6, <2>2, <2>3
  <2>5. o <= m
    BY <1>4, <1>5, <2>1, <2>2, <2>4
  <2>6. m = o
    BY <2>3, <2>4, <2>5
  <2>7. QED
    BY <1>2, <2>2, <2>4, <2>6
<1>8. ASSUME own = {}
      PROVE  w[m] \in ToSet(r)
  <2>1. m \notin 1..n
    BY <1>4, <1>5, <1>8
  <2>2. m - n \in 1..k /\ n + (m - n) = m
    BY <1>6, <2>1
  <2>3. w[m] = r[m - n]
    BY <1>2, <2>2
  <2>4. QED
    BY <1>1, <2>2, <2>3, Elements
<1>9. QED
  BY <1>6, <1>7, <1>8 DEF w, all, m, own

LEMMA SameSigned ==
    ASSUME NEW L, NEW p \in Seq(L), NEW q \in Seq(L), NEW r \in Seq(L), NEW crl,
           ToSet(q) = ToSet(r), OnePerName(ToSet(q))
    PROVE  CrlSigned(crl, p \o q) => CrlSigned(crl, p \o r)
<1> SUFFICES ASSUME CrlSigned(crl, p \o q) PROVE CrlSigned(crl, p \o r)
  OBVIOUS
<1>1. /\ Holders(crl, p \o q) # {}
      /\ SignatureVerifies(crl, (p \o q)[Min(Holders(crl, p \o q))].key, {})
  BY DEF CrlSigned, Holders
<1>2. /\ p \o q \in Seq(L) /\ ToSet(p \o q) = ToSet(p) \cup ToSet(q)
      /\ p \o r \in Seq(L) /\ ToSet(p \o r) = ToSet(p) \cup ToSet(r)
  BY JoinedElements
<1>3. ASSUME NEW w \in Seq(L)
      PROVE  Holders(crl, w) # {} <=>
                \E x \in ToSet(w) : x.parses /\ x.subject = crl.issuer
  <2>1. ToSet(w) = {w[i] : i \in 1..Len(w)}
    BY Elements
  <2>2. QED
    BY <2>1 DEF Holders
<1>4. Holders(crl, p \o r) # {}
  <2>1. \E x \in ToSet(p \o q) : x.parses /\ x.subject = crl.issuer
    BY <1>1, <1>2, <1>3
  <2>2. \E x \in ToSet(p \o r) : x.parses /\ x.subject = crl.issuer
    BY <1>2, <2>1
  <2>3. QED
    BY <1>2, <1>3, <2>2
<1>5. (p \o q)[Min(Holders(crl, p \o q))] = (p \o r)[Min(Holders(crl, p \o r))]
  <2>1. CASE Holders(crl, p) # {}
    BY <1>1, <1>4, <2>1, FirstHolder
  <2>2. CASE Holders(crl, p) = {}
    <3> DEFINE x == (p \o q)[Min(Holders(crl, p \o q))]
               y == (p \o r)[Min(Holders(crl, p \o r))]
    <3>1. x \in ToSet(q) /\ x.parses /\ x.subject = crl.issuer
      BY <1>1, <2>2, FirstHolder
    <3>2. y \in ToSet(r) /\ y.parses /\ y.subject = crl.issuer
      BY <1>4, <2>2, FirstHolder
    <3> HIDE DEF x, y
    <3>3. x = y
      BY <3>1, <3>2 DEF OnePerName
    <3>4. QED
      BY <3>3 DEF x, y
  <2>3. QED
    BY <2>1, <2>2
<1>6. SignatureVerifies(crl, (p \o r)[Min(Holders(crl, p \o r))].key, {})
  BY <1>1, <1>5
<1>7. QED
  BY <1>4, <1>6 DEF CrlSigned, Holders

LEMMA SameRevocation ==
    ASSUME NEW L, NEW p \in Seq(L), NEW q \in Seq(L), NEW r \in Seq(L), NEW lists,
           ToSet(q) = ToSet(r), lists = << >> \/ OnePerName(ToSet(q))
    PROVE  /\ ToSet(p \o q) = ToSet(p \o r)
           /\ ensure_crl_coverage(p \o q, lists) <=> ensure_crl_coverage(p \o r, lists)
           /\ check_revocations(p \o q, lists, "Strict") =>
                 check_revocations(p \o r, lists, "Strict")
<1>1. ToSet(p \o q) = ToSet(p \o r)
  <2>1. ToSet(p \o q) = ToSet(p) \cup ToSet(q)
    BY JoinedElements
  <2>2. ToSet(p \o r) = ToSet(p) \cup ToSet(r)
    BY JoinedElements
  <2>3. QED
    BY <2>1, <2>2
<1>2. ensure_crl_coverage(p \o q, lists) <=> ensure_crl_coverage(p \o r, lists)
  BY <1>1 DEF ensure_crl_coverage
<1>3. ASSUME check_revocations(p \o q, lists, "Strict")
      PROVE  check_revocations(p \o r, lists, "Strict")
  <2>1. CASE lists = << >>
    BY <2>1 DEF check_revocations
  <2>2. CASE OnePerName(ToSet(q))
    <3> SUFFICES ASSUME NEW i \in 1..Len(lists)
                 PROVE  CrlPasses(lists[i], p \o r, "Strict")
      BY DEF check_revocations
    <3>1. CrlPasses(lists[i], p \o q, "Strict")
      BY <1>3 DEF check_revocations
    <3>2. CrlSigned(lists[i], p \o r)
      BY <2>2, <3>1, SameSigned DEF CrlPasses
    <3>3. QED
      BY <1>1, <3>1, <3>2 DEF CrlPasses
  <2>3. QED
    BY <2>1, <2>2
<1>4. QED
  BY <1>1, <1>2, <1>3

(* The anchors of a path matter as a set. *)
LEMMA SamePath ==
    ASSUME NEW L, NEW chain, NEW q \in Seq(L), NEW r \in Seq(L),
           ToSet(q) = ToSet(r), NEW domain, NEW role, NEW policy,
           verify_chain(chain, q, domain, role, policy)
    PROVE  verify_chain(chain, r, domain, role, policy)
<1>1. /\ ToSet(q) = {q[i] : i \in 1..Len(q)} /\ Len(q) \in Nat
      /\ ToSet(r) = {r[i] : i \in 1..Len(r)} /\ Len(r) \in Nat
  BY Elements
<1>2. q # << >>
  BY DEF verify_chain
<1>3. r # << >>
  <2>1. q[1] \in ToSet(q)
    BY <1>1, <1>2
  <2>2. 1..Len(<< >>) = {}
    OBVIOUS
  <2>3. QED
    BY <1>1, <2>1, <2>2
<1>4. ASSUME NEW x, NEW d, ReachesAnchor(x, q, d, policy)
      PROVE  ReachesAnchor(x, r, d, policy)
  <2>1. PICK k \in 1..Len(q) : verify_link(x, q[k], d, policy)
    BY <1>4 DEF ReachesAnchor
  <2>2. q[k] \in ToSet(r)
    BY <1>1
  <2>3. PICK j \in 1..Len(r) : q[k] = r[j]
    BY <1>1, <2>2
  <2>4. QED
    BY <2>1, <2>3 DEF ReachesAnchor
<1> DEFINE asked(i) == IF i = 1 THEN domain ELSE << >>
           need(i) == IF i = 1 THEN role ELSE "Ca"
           common(i) == /\ chain[i].parses
                        /\ check_unknown_critical_extensions(chain[i])
                        /\ verify_cert_role(chain[i], need(i))
           next(i) == /\ verify_link(chain[i], chain[i + 1], asked(i), policy)
                      /\ i >= 2 => ConstraintsMet(chain[i], i)
<1>5. /\ chain # << >> /\ Len(chain) <= MaxDepth
      /\ \A i \in 1..Len(chain) :
            /\ common(i)
            /\ IF i < Len(chain) THEN next(i)
               ELSE ReachesAnchor(chain[i], q, asked(i), policy)
  BY DEF verify_chain
<1>6. \A i \in 1..Len(chain) :
         /\ common(i)
         /\ IF i < Len(chain) THEN next(i)
            ELSE ReachesAnchor(chain[i], r, asked(i), policy)
  <2> HIDE DEF common, next, asked
  <2>1. QED
    BY <1>4, <1>5
<1>7. QED
  BY <1>3, <1>5, <1>6 DEF verify_chain

(* Two configurations that differ in the order of their anchors only. *)
LEMMA SameLeafOk ==
    ASSUME NEW L, NEW leaf \in L, NEW material \in Seq(L), NEW v, NEW w,
           v.anchors \in Seq(L), w.anchors \in Seq(L),
           ToSet(v.anchors) = ToSet(w.anchors),
           w.crls = v.crls, w.strict = v.strict, w.distids = v.distids,
           v.crls = << >> \/ OnePerName(ToSet(v.anchors)),
           NEW domain, NEW role
    PROVE  LeafVerdict(v, leaf, material, domain, role) =
              LeafVerdict(w, leaf, material, domain, role)
<1> DEFINE chain == <<leaf>> \o material
<1>1. chain \in Seq(L)
  BY FullElements
<1>2. LeafVerdict(v, leaf, material, domain, role) =
         IF ~verify_chain(chain, v.anchors, domain, role, v.distids) THEN "chain"
         ELSE IF /\ v.strict \/ v.crls # << >>
                 /\ \E x \in ToSet(chain \o v.anchors) : ~x.parses THEN "panic"
         ELSE IF v.strict /\ ~ensure_crl_coverage(chain \o v.anchors, v.crls) THEN "crl"
         ELSE IF ~check_revocations(chain \o v.anchors, v.crls, "Strict") THEN "crl"
         ELSE "ok"
  BY DEF LeafVerdict, verify_against_anchors
<1>3. LeafVerdict(w, leaf, material, domain, role) =
         IF ~verify_chain(chain, w.anchors, domain, role, v.distids) THEN "chain"
         ELSE IF /\ v.strict \/ v.crls # << >>
                 /\ \E x \in ToSet(chain \o w.anchors) : ~x.parses THEN "panic"
         ELSE IF v.strict /\ ~ensure_crl_coverage(chain \o w.anchors, v.crls) THEN "crl"
         ELSE IF ~check_revocations(chain \o w.anchors, v.crls, "Strict") THEN "crl"
         ELSE "ok"
  BY DEF LeafVerdict, verify_against_anchors
<1> HIDE DEF chain
<1> DEFINE q == v.anchors
           r == w.anchors
<1>4. /\ q \in Seq(L) /\ r \in Seq(L) /\ ToSet(q) = ToSet(r)
      /\ v.crls = << >> \/ OnePerName(ToSet(q))
      /\ v.crls = << >> \/ OnePerName(ToSet(r))
  OBVIOUS
<1> HIDE DEF q, r
<1>5. verify_chain(chain, q, domain, role, v.distids) <=>
         verify_chain(chain, r, domain, role, v.distids)
  BY <1>4, SamePath
<1>6. /\ ToSet(chain \o q) = ToSet(chain \o r)
      /\ ensure_crl_coverage(chain \o q, v.crls) <=> ensure_crl_coverage(chain \o r, v.crls)
      /\ check_revocations(chain \o q, v.crls, "Strict") =>
            check_revocations(chain \o r, v.crls, "Strict")
  BY <1>1, <1>4, SameRevocation
<1>7. check_revocations(chain \o r, v.crls, "Strict") =>
         check_revocations(chain \o q, v.crls, "Strict")
  BY <1>1, <1>4, SameRevocation
<1>8. QED
  BY <1>2, <1>3, <1>5, <1>6, <1>7 DEF q, r

(* The last element of a path left out, an anchor. *)
LEMMA ShorterPath ==
    ASSUME NEW L, NEW chain \in Seq(L), NEW root \in L, NEW anchors \in Seq(L),
           chain # << >>, root \in ToSet(anchors), NEW domain, NEW role, NEW policy,
           verify_chain(Append(chain, root), anchors, domain, role, policy)
    PROVE  verify_chain(chain, anchors, domain, role, policy)
<1> DEFINE w == Append(chain, root)
<1>1. PICK n \in Nat : n = Len(chain)
  OBVIOUS
<1>2. /\ Len(w) = n + 1 /\ w[n + 1] = root /\ \A i \in 1..n : w[i] = chain[i]
  BY <1>1
<1> DEFINE asked(i) == IF i = 1 THEN domain ELSE << >>
           need(i) == IF i = 1 THEN role ELSE "Ca"
           common(x, i) == /\ x.parses
                           /\ check_unknown_critical_extensions(x)
                           /\ verify_cert_role(x, need(i))
           next(x, y, i) == /\ verify_link(x, y, asked(i), policy)
                            /\ i >= 2 => ConstraintsMet(x, i)
<1>3. /\ anchors # << >> /\ Len(w) <= MaxDepth
      /\ \A i \in 1..Len(w) :
            /\ common(w[i], i)
            /\ IF i < Len(w) THEN next(w[i], w[i + 1], i)
               ELSE ReachesAnchor(w[i], anchors, asked(i), policy)
  BY DEF verify_chain
<1> HIDE DEF w, common
<1>4. \A i \in 1..n : common(chain[i], i) /\ next(chain[i], w[i + 1], i)
  <2> SUFFICES ASSUME NEW i \in 1..n
               PROVE  common(chain[i], i) /\ next(chain[i], w[i + 1], i)
    OBVIOUS
  <2> HIDE DEF next
  <2>1. i \in 1..(n + 1) /\ i < n + 1
    OBVIOUS
  <2>2. QED
    BY <1>2, <1>3, <2>1
<1>5. \A i \in 1..n :
         /\ common(chain[i], i)
         /\ IF i < n THEN next(chain[i], chain[i + 1], i)
            ELSE ReachesAnchor(chain[i], anchors, asked(i), policy)
  <2> SUFFICES ASSUME NEW i \in 1..n
               PROVE  IF i < n THEN next(chain[i], chain[i + 1], i)
                      ELSE ReachesAnchor(chain[i], anchors, asked(i), policy)
    BY <1>4
  <2>1. CASE i < n
    <3>1. i + 1 \in 1..n
      BY <2>1
    <3> HIDE DEF next
    <3>2. QED
      BY <1>2, <1>4, <2>1, <3>1
  <2>2. CASE ~(i < n)
    <3>1. i = n
      BY <2>2
    <3>2. verify_link(chain[i], root, asked(i), policy)
      BY <1>2, <1>4, <3>1
    <3>3. PICK k \in 1..Len(anchors) : anchors[k] = root
      BY Elements
    <3>4. QED
      BY <2>2, <3>2, <3>3 DEF ReachesAnchor
  <2>3. QED
    BY <2>1, <2>2
<1>6. n <= MaxDepth
  BY <1>2, <1>3, CertVerifyConstants
<1>7. QED
  BY <1>1, <1>3, <1>5, <1>6 DEF verify_chain, common

LEMMA ReverseElements ==
    ASSUME NEW L, NEW q \in Seq(L)
    PROVE  /\ Reverse(q) \in Seq(L) /\ Len(Reverse(q)) = Len(q)
           /\ ToSet(Reverse(q)) = ToSet(q)
           /\ Reverse(q) = << >> <=> q = << >>
<1> DEFINE r == Reverse(q)
<1>1. PICK n \in Nat : n = Len(q)
  OBVIOUS
<1>2. r = [i \in 1..n |-> q[(n - i) + 1]]
  BY <1>1 DEF Reverse
<1>3. \A i \in 1..n : (n - i) + 1 \in 1..n /\ (n - ((n - i) + 1)) + 1 = i
  OBVIOUS
<1>4. \A i \in 1..n : q[(n - i) + 1] \in L
  BY <1>1, <1>3
<1>5. r \in Seq(L) /\ Len(r) = n
  BY <1>2, <1>4
<1> HIDE DEF r
<1>6. \A i \in 1..n : r[i] = q[(n - i) + 1]
  BY <1>2
<1>7. ToSet(q) = {q[i] : i \in 1..n} /\ ToSet(r) = {r[i] : i \in 1..n}
  BY <1>1, <1>5, Elements
<1>8. \A i \in 1..n : q[i] = r[(n - i) + 1]
  BY <1>3, <1>6
<1>9. ToSet(r) = ToSet(q)
  <2>1. ToSet(r) \subseteq ToSet(q)
    BY <1>3, <1>6, <1>7
  <2>2. ToSet(q) \subseteq ToSet(r)
    BY <1>3, <1>7, <1>8
  <2>3. QED
    BY <2>1, <2>2
<1>10. r = << >> <=> q = << >>
  BY <1>1, <1>5
<1>11. QED
  BY <1>1, <1>5, <1>9, <1>10 DEF r

(* The order of the anchors decides nothing where no two of them are of    *)
(* one name, or there are no CRLs (the loop over trust_anchors).           *)
THEOREM AnchorOrder == CheckSpec => []AnchorOrderIrrelevant
<1>1. ASSUME CheckInv PROVE AnchorOrderIrrelevant
  <2> SUFFICES ASSUME verdict # "none", OneAnchorPerName
               PROVE  verdict = VerdictOn(input.side, input.list,
                                   [input.v EXCEPT !.anchors = Reverse(input.v.anchors)])
    BY DEF AnchorOrderIrrelevant
  <2> DEFINE L == ToSet(input.list) \cup ToSet(input.v.anchors)
             list == input.list
             side == input.side
             v == input.v
             w == [v EXCEPT !.anchors = Reverse(v.anchors)]
  <2>1. /\ side \in Sides /\ list \in Seq(L) /\ v.anchors \in Seq(L)
        /\ v = Verifier(v.anchored, v.anchors, v.name, v.uri, v.crls, v.strict, v.distids)
    BY <1>1, InputFacts DEF CheckInv
  <2>2. verdict = VerdictOn(side, list, v)
    BY <1>1 DEF CheckInv, Decided
  <2>3. v.crls = << >> \/ OnePerName(ToSet(v.anchors))
    BY DEF OneAnchorPerName, OnePerName
  <2> HIDE DEF L, list, side, v
  <2>4. /\ w.anchors = Reverse(v.anchors) /\ w.anchored = v.anchored
        /\ w.name = v.name /\ w.uri = v.uri /\ w.crls = v.crls
        /\ w.strict = v.strict /\ w.distids = v.distids
    <3> DEFINE q == Reverse(v.anchors)
    <3> HIDE DEF q
    <3>1. w = [v EXCEPT !.anchors = q]
      BY DEF q
    <3> HIDE DEF w
    <3>2. DOMAIN v = {"anchored", "anchors", "name", "uri", "crls", "strict", "distids"}
      BY <2>1 DEF Verifier
    <3>3. QED
      BY <3>1, <3>2 DEF q
  <2> HIDE DEF w
  <2>5. /\ w.anchors \in Seq(L) /\ ToSet(w.anchors) = ToSet(v.anchors)
        /\ w.anchors = << >> <=> v.anchors = << >>
    BY <2>1, <2>4, ReverseElements
  <2>6. ASSUME list = << >>
        PROVE  VerdictOn(side, list, v) = VerdictOn(side, list, w)
    BY <2>1, <2>4, <2>5, <2>6, EmptyVerdict
  <2>7. ASSUME list # << >>
        PROVE  VerdictOn(side, list, v) = VerdictOn(side, list, w)
    <3>1. Len(list) \in Nat /\ Len(list) # 0
      BY <2>1, <2>7
    <3>2. \A i \in 1..Len(list) : LeafOf(side, list, v, i) = LeafOf(side, list, w, i)
      <4> SUFFICES ASSUME NEW i \in 1..Len(list)
                   PROVE  LeafOf(side, list, v, i) = LeafOf(side, list, w, i)
        OBVIOUS
      <4> DEFINE leaf == list[i]
                 material == Behind(side, list)
                 domain == AskedName(side, v, i)
                 role == AskedRole(side, i)
      <4>1. leaf \in L /\ material \in Seq(L)
        BY <2>1, BehindElements
      <4>2. AskedName(side, w, i) = domain
        BY <2>4 DEF AskedName
      <4> HIDE DEF leaf, material, domain, role
      <4>3. LeafVerdict(v, leaf, material, domain, role) =
               LeafVerdict(w, leaf, material, domain, role)
        BY <2>1, <2>3, <2>4, <2>5, <4>1, SameLeafOk
      <4>4. QED
        BY <4>2, <4>3 DEF LeafOf, leaf, material, domain, role
    <3>3. /\ LeafOf(side, list, v, 1) = LeafOf(side, list, w, 1)
          /\ Len(list) # 1 => LeafOf(side, list, v, 2) = LeafOf(side, list, w, 2)
      <4>1. PICK n \in Nat : n = Len(list) /\ n # 0
        BY <3>1
      <4>2. 1 \in 1..n /\ (n # 1 => 2 \in 1..n)
        BY <4>1
      <4>3. QED
        BY <3>2, <4>1, <4>2
    <3>4. Named(list, v) = Named(list, w) /\ Identified(list, v) = Identified(list, w)
      BY <2>4 DEF Named, Identified
    <3>5. CASE side = "server"
      BY <2>1, <2>4, <2>5, <2>7, <3>3, <3>4, <3>5, ServerVerdict
    <3>6. CASE side = "client"
      BY <2>1, <2>4, <2>5, <2>7, <3>3, <3>6, ClientVerdict
    <3>7. QED
      BY <2>1, <3>5, <3>6 DEF Sides
  <2>8. VerdictOn(side, list, v) = VerdictOn(side, list, w)
    BY <2>6, <2>7
  <2>9. QED
    BY <2>2, <2>8 DEF side, list, w, v
<1>2. QED
  BY <1>1, CheckSafety, PTL

LEMMA DedupAppend ==
    ASSUME NEW S, NEW q \in Seq(S), NEW x \in S, x \notin ToSet(q)
    PROVE  Dedup(Append(q, x)) = Append(Dedup(q), x)
<1> DEFINE First(z) == {i \in 1..Len(z) : \A j \in 1..(i - 1) : z[j] # z[i]}
           w == Append(q, x)
<1>1. PICK n \in Nat : n = Len(q)
  OBVIOUS
<1>2. /\ w \in Seq(S) /\ Len(w) = n + 1 /\ w[n + 1] = x
      /\ \A i \in 1..n : w[i] = q[i]
  BY <1>1
<1>3. \A i \in 1..n : q[i] # x
  BY <1>1, Elements
<1> HIDE DEF w
<1>4. First(w) = First(q) \cup {n + 1}
  <2>1. \A i \in 1..n : i \in 1..(n + 1) /\ \A j \in 1..(i - 1) : j \in 1..n
    OBVIOUS
  <2>2. \A i \in 1..n : i \in First(w) <=> i \in First(q)
    BY <1>1, <1>2, <2>1
  <2>3. n + 1 \in First(w)
    <3>1. n + 1 \in 1..(n + 1) /\ (n + 1) - 1 = n
      OBVIOUS
    <3>2. QED
      BY <1>2, <1>3, <3>1
  <2>4. /\ \A i \in 1..(n + 1) : i \in 1..n \/ i = n + 1
        /\ First(w) \subseteq 1..(n + 1) /\ First(q) \subseteq 1..n
    BY <1>1, <1>2
  <2> HIDE DEF First
  <2>5. QED
    BY <2>2, <2>3, <2>4
<1>5. First(q) \in SUBSET (1..Len(q))
  OBVIOUS
<1>6. Dedup(w) = RetainAt(w, First(w)) /\ Dedup(q) = RetainAt(q, First(q))
  BY DEF Dedup
<1> HIDE DEF First
<1>7. QED
  BY <1>1, <1>4, <1>5, <1>6, RetainAppend DEF w

(* The chain material with its last entry left out. *)
LEMMA BehindShorter ==
    ASSUME NEW L, NEW list \in Seq(L), NEW side \in Sides, Len(list) >= 3,
           \A i \in 3..(Len(list) - 1) : list[i] # list[Len(list)]
    PROVE  LET front == SubSeq(list, 1, Len(list) - 1)
           IN  /\ front \in Seq(L) /\ Len(front) = Len(list) - 1
               /\ front[1] = list[1] /\ front[2] = list[2]
               /\ Behind(side, list) = Append(Behind(side, front), list[Len(list)])
<1>1. PICK n \in Nat : n = Len(list)
  OBVIOUS
<1> DEFINE front == SubSeq(list, 1, n - 1)
           root == list[n]
           more == SubSeq(list, 3, n)
           less == SubSeq(front, 3, n - 1)
<1>2. n >= 3 /\ n - 1 \in Nat /\ n - 1 >= 2
  BY <1>1
<1>3. front \in Seq(L) /\ Len(front) = n - 1 /\ \A i \in 1..(n - 1) : front[i] = list[i]
  BY <1>1, <1>2
<1>4. root \in L
  BY <1>1, <1>2
<1>5. more \in Seq(L) /\ Len(more) = n - 2 /\ \A j \in 1..(n - 2) : more[j] = list[j + 2]
  BY <1>1, <1>2
<1> HIDE DEF front, root, more
<1>6. /\ less \in Seq(L) /\ Len(less) = n - 3
      /\ \A j \in 1..(n - 3) : less[j] = front[j + 2]
  <2>1. CASE n = 3
    <3>1. less = << >>
      BY <1>3, <2>1
    <3>2. QED
      BY <2>1, <3>1
  <2>2. CASE n # 3
    BY <1>2, <1>3, <2>2
  <2>3. QED
    BY <2>1, <2>2
<1> HIDE DEF less
<1>7. \A j \in 1..(n - 3) : less[j] = list[j + 2] /\ less[j] # root
  <2> SUFFICES ASSUME NEW j \in 1..(n - 3) PROVE less[j] = list[j + 2] /\ less[j] # root
    OBVIOUS
  <2>1. j + 2 \in 3..(n - 1) /\ j + 2 \in 1..(n - 1)
    BY <1>2
  <2>2. QED
    BY <1>1, <1>3, <1>6, <2>1 DEF root
<1>8. more = Append(less, root)
  <2> DEFINE w == Append(less, root)
  <2>1. /\ w \in Seq(L) /\ Len(w) = n - 2 /\ w[n - 2] = root
        /\ \A j \in 1..(n - 3) : w[j] = less[j]
    BY <1>2, <1>4, <1>6
  <2> HIDE DEF w
  <2>2. \A j \in 1..(n - 2) : more[j] = w[j]
    <3> SUFFICES ASSUME NEW j \in 1..(n - 2) PROVE more[j] = w[j]
      OBVIOUS
    <3>1. CASE j = n - 2
      <4>1. j + 2 = n
        BY <1>2, <3>1
      <4>2. QED
        BY <1>5, <2>1, <3>1, <4>1 DEF root
    <3>2. CASE j # n - 2
      <4>1. j \in 1..(n - 3)
        BY <1>2, <3>2
      <4>2. QED
        BY <1>5, <1>7, <2>1, <4>1
    <3>3. QED
      BY <3>1, <3>2
  <2>3. more = [j \in 1..(n - 2) |-> more[j]] /\ w = [j \in 1..(n - 2) |-> w[j]]
    BY <1>5, <2>1
  <2>4. QED
    BY <2>2, <2>3 DEF w
<1>9. root \notin ToSet(less)
  <2>1. ToSet(less) = {less[j] : j \in 1..(n - 3)}
    BY <1>6, Elements
  <2>2. QED
    BY <1>7, <2>1
<1>10. Dedup(more) = Append(Dedup(less), root)
  BY <1>4, <1>6, <1>8, <1>9, DedupAppend
<1>11. Behind(side, list) = Append(Behind(side, front), root)
  BY <1>1, <1>3, <1>8, <1>10 DEF Behind, more, less
<1>12. front[1] = list[1] /\ front[2] = list[2]
  <2>1. 1 \in 1..(n - 1) /\ 2 \in 1..(n - 1)
    BY <1>2
  <2>2. QED
    BY <1>3, <2>1
<1>13. QED
  BY <1>1, <1>3, <1>11, <1>12 DEF front, root

(* A leaf accepted with an anchor behind its path is accepted without it. *)
LEMMA LeafShorter ==
    ASSUME NEW L, NEW leaf \in L, NEW material \in Seq(L), NEW root \in L, NEW v,
           v.anchors \in Seq(L), root \in ToSet(v.anchors),
           v.crls = << >> \/ OnePerName(ToSet(v.anchors)),
           NEW domain, NEW role,
           LeafVerdict(v, leaf, Append(material, root), domain, role) = "ok"
    PROVE  LeafVerdict(v, leaf, material, domain, role) = "ok"
<1> DEFINE chain == <<leaf>> \o material
           longer == <<leaf>> \o Append(material, root)
           anchors == v.anchors
           tail == <<root>> \o anchors
<1>1. /\ verify_chain(longer, anchors, domain, role, v.distids)
      /\ v.strict \/ v.crls # << >> => \A x \in ToSet(longer \o anchors) : x.parses
      /\ v.strict => ensure_crl_coverage(longer \o anchors, v.crls)
      /\ check_revocations(longer \o anchors, v.crls, "Strict")
  BY DEF LeafVerdict, verify_against_anchors
<1>2. chain \in Seq(L) /\ chain # << >>
  OBVIOUS
<1>3. longer = Append(chain, root)
  OBVIOUS
<1>4. longer \o anchors = chain \o tail
  <2> HIDE DEF anchors
  <2>1. anchors \in Seq(L) /\ Append(chain, root) = chain \o <<root>>
    BY <1>2 DEF anchors
  <2> HIDE DEF chain
  <2>2. (chain \o <<root>>) \o anchors = chain \o (<<root>> \o anchors)
    BY <1>2, <2>1
  <2>3. QED
    BY <1>3, <2>1, <2>2
<1>5. tail \in Seq(L) /\ ToSet(tail) = ToSet(anchors)
  <2> HIDE DEF anchors
  <2>1. anchors \in Seq(L) /\ root \in ToSet(anchors)
    BY DEF anchors
  <2>2. tail \in Seq(L) /\ ToSet(tail) = {root} \cup ToSet(anchors)
    BY <2>1, FullElements
  <2>3. QED
    BY <2>1, <2>2
<1>6. anchors \in Seq(L) /\ (v.crls = << >> \/ OnePerName(ToSet(tail)))
  BY <1>5
<1> HIDE DEF chain, longer, tail, anchors
<1>7. verify_chain(chain, anchors, domain, role, v.distids)
  BY <1>1, <1>2, <1>3, <1>6, ShorterPath DEF anchors
<1>8. /\ ToSet(chain \o tail) = ToSet(chain \o anchors)
      /\ ensure_crl_coverage(chain \o tail, v.crls) <=>
            ensure_crl_coverage(chain \o anchors, v.crls)
      /\ check_revocations(chain \o tail, v.crls, "Strict") =>
            check_revocations(chain \o anchors, v.crls, "Strict")
  BY <1>2, <1>5, <1>6, SameRevocation
<1>9. /\ v.strict \/ v.crls # << >> => \A x \in ToSet(chain \o anchors) : x.parses
      /\ v.strict => ensure_crl_coverage(chain \o anchors, v.crls)
      /\ check_revocations(chain \o anchors, v.crls, "Strict")
  BY <1>1, <1>4, <1>8
<1>10. QED
  BY <1>7, <1>9 DEF LeafVerdict, verify_against_anchors, chain, anchors

(* A root behind the other certificates may as well be left out:           *)
(* "[leaf, intermediate, ..., root?]".                                     *)
THEOREM RootMayBeLeftOut == CheckSpec => []RootOptional
<1>1. ASSUME CheckInv PROVE RootOptional
  <2> DEFINE L == ToSet(input.list) \cup ToSet(input.v.anchors)
             list == input.list
             side == input.side
             v == input.v
             n == Len(list)
             front == SubSeq(list, 1, n - 1)
  <2> SUFFICES ASSUME verdict = "ok", v.anchored, n >= 3, OneAnchorPerName,
                      list[n] \in ToSet(v.anchors),
                      \A i \in 3..(n - 1) : list[i] # list[n]
               PROVE  VerdictOn(side, front, v) = "ok"
    BY DEF RootOptional
  <2>1. side \in Sides /\ list \in Seq(L) /\ v.anchors \in Seq(L) /\ n \in Nat
    BY <1>1, InputFacts DEF CheckInv
  <2>2. VerdictOn(side, list, v) = "ok"
    BY <1>1 DEF CheckInv, Decided
  <2>3. v.crls = << >> \/ OnePerName(ToSet(v.anchors))
    BY DEF OneAnchorPerName, OnePerName
  <2> HIDE DEF L, list, side, v
  <2>4. /\ front \in Seq(L) /\ Len(front) = n - 1
        /\ front[1] = list[1] /\ front[2] = list[2]
        /\ Behind(side, list) = Append(Behind(side, front), list[n])
    BY <2>1, BehindShorter
  <2>5. list # << >> /\ front # << >> /\ n # 1 /\ Len(front) # 1
    <3>1. PICK k \in Nat : k = n /\ k >= 3
      BY <2>1
    <3>2. k # 0 /\ k # 1 /\ k - 1 # 0 /\ k - 1 # 1
      BY <3>1
    <3> HIDE DEF front
    <3>3. QED
      BY <2>1, <2>4, <3>1, <3>2
  <2>6. /\ list[n] \in L /\ list[1] \in L /\ list[2] \in L
    <3>1. n \in 1..n /\ 1 \in 1..n /\ 2 \in 1..n
      BY <2>1
    <3>2. QED
      BY <2>1, <3>1
  <2> HIDE DEF front, n
  <2>7. ASSUME NEW i \in {1, 2}, LeafOf(side, list, v, i) = "ok"
        PROVE  LeafOf(side, front, v, i) = "ok"
    <3> DEFINE leaf == list[i]
               root == list[n]
               material == Behind(side, front)
               domain == AskedName(side, v, i)
               role == AskedRole(side, i)
    <3>1. leaf \in L /\ root \in L /\ material \in Seq(L) /\ front[i] = leaf
      BY <2>1, <2>4, <2>6, BehindElements
    <3>2. LeafVerdict(v, leaf, Append(material, root), domain, role) = "ok"
      BY <2>4, <2>7 DEF LeafOf
    <3>3. root \in ToSet(v.anchors)
      OBVIOUS
    <3> HIDE DEF leaf, root, material, domain, role
    <3>4. LeafVerdict(v, leaf, material, domain, role) = "ok"
      BY <2>1, <2>3, <3>1, <3>2, <3>3, LeafShorter
    <3>5. QED
      BY <3>1, <3>4 DEF LeafOf, material, domain, role
  <2>8. Named(front, v) = Named(list, v) /\ Identified(front, v) = Identified(list, v)
    BY <2>4 DEF Named, Identified
  <2>9. CASE side = "server"
    <3>1. VerdictOn("server", list, v) = "ok"
      BY <2>2, <2>9
    <3>2. /\ list[1] # NoCert /\ Named(list, v) /\ Identified(list, v)
          /\ v.anchors # << >> /\ LeafOf("server", list, v, 1) = "ok"
          /\ list[2] = NoCert \/ LeafOf("server", list, v, 2) = "ok"
      BY <2>1, <2>5, <3>1, ServerVerdict DEF n
    <3>3. /\ LeafOf("server", front, v, 1) = "ok"
          /\ list[2] = NoCert \/ LeafOf("server", front, v, 2) = "ok"
      BY <2>7, <2>9, <3>2
    <3>4. QED
      BY <2>4, <2>5, <2>8, <2>9, <3>2, <3>3, ServerVerdict
  <2>10. CASE side = "client"
    <3>1. VerdictOn("client", list, v) = "ok"
      BY <2>2, <2>10
    <3>2. /\ v.anchors # << >> /\ LeafOf("client", list, v, 1) = "ok"
          /\ LeafOf("client", list, v, 2) = "ok"
      BY <2>1, <2>5, <3>1, ClientVerdict DEF n
    <3>3. LeafOf("client", front, v, 1) = "ok" /\ LeafOf("client", front, v, 2) = "ok"
      BY <2>7, <2>10, <3>2
    <3>4. QED
      BY <2>4, <2>5, <2>10, <3>2, <3>3, ClientVerdict
  <2>11. QED
    BY <2>1, <2>9, <2>10 DEF Sides
<1>2. QED
  BY <1>1, CheckSafety, PTL
=============================================================================
