----------------------------- MODULE CertChecks -----------------------------
(***************************************************************************)
(* Verification of a peer's certificates (module CertVerify): a connector  *)
(* or an acceptor with some configuration meets some certificates, and     *)
(* decides.                                                                *)
(***************************************************************************)
EXTENDS CertVerify

CONSTANTS
    Inputs      \* what is met: [side, list, v], side being the peer's

VARIABLES
    input,
    verdict     \* "none" before the check

check_vars == <<input, verdict>>

Sides == {"server", "client"}

(* Lists are sequences, and a configuration is that of a Verifier. *)
ASSUME CertChecksConstants ==
    \A x \in Inputs :
        /\ x.side \in Sides
        /\ x.list \in Seq(ToSet(x.list))
        /\ x.v = Verifier(x.v.anchored, x.v.anchors, x.v.name, x.v.uri,
                          x.v.crls, x.v.strict, x.v.distids)
        /\ x.v.anchors \in Seq(ToSet(x.v.anchors))
        /\ x.v.crls \in Seq(ToSet(x.v.crls))

CheckInit == input \in Inputs /\ verdict = "none"

(* What the verifier with configuration v says of the list of certificates *)
(* in a Certificate message.                                               *)
VerdictOn(side, list, v) ==
    IF side = "server" THEN ServerCertsVerdict(v, from_certificate_message(list))
    ELSE ClientCertsVerdict(v, list)

Verify ==
    /\ verdict = "none"
    /\ verdict' = VerdictOn(input.side, input.list, input.v)
    /\ UNCHANGED input

CheckNext == Verify

CheckSpec == CheckInit /\ [][CheckNext]_check_vars

-----------------------------------------------------------------------------
(* Properties. *)

(* The certificates in the message; an entry of no bytes is none, and the  *)
(* connector goes on without an encryption certificate.                    *)
Sent == ToSet(input.list) \ {NoCert}
Leaves == {input.list[i] : i \in 1..Min({Len(input.list), 2})} \ {NoCert}
Pool == {p \in ToSet(input.list) \cup ToSet(input.v.anchors) : p.parses}

(* Who may have issued c, judged by keys and names alone. *)
Issuers(c) == {p \in Pool : p.subject = c.issuer /\ p.key = c.signer}

(* A configured anchor that is in date is found from c by such steps: it   *)
(* is in every set that holds c and, with a certificate, its issuers.      *)
LeadsToAnchor(c) ==
    \A S \in SUBSET Pool :
        c \in S /\ (\A d \in S : Issuers(d) \subseteq S) =>
            \E a \in S : a \in ToSet(input.v.anchors) /\ InValidity(a)

(* With anchors configured, no leaf of a peer is accepted unless a chain   *)
(* of signatures and names leads from it to a configured anchor that is in *)
(* date, whatever order the peer sent its certificates in and whatever     *)
(* else it sent (the positional walk of                                    *)
(* verify_cert_chain_sm2_chain_with_distid_policy).                        *)
AcceptedIsTrusted ==
    verdict = "ok" /\ input.v.anchored =>
        \A leaf \in Leaves :
            leaf \in Pool /\ InValidity(leaf) /\ LeadsToAnchor(leaf)

(* A CRL is verified with the first certificate of its issuer's name only, *)
(* so with CRLs two anchors of one name (a CA that has changed its key) do *)
(* depend on their order.                                                  *)
OneAnchorPerName ==
    input.v.crls = << >> \/
        \A a, b \in {c \in ToSet(input.v.anchors) : c.parses} :
            a.subject = b.subject => a = b

(* The order of the configured anchors does not decide: the loop over      *)
(* trust_anchors keeps the last error and goes on, also past an anchor of  *)
(* the right name and another key.                                         *)
AnchorOrderIrrelevant ==
    verdict # "none" /\ OneAnchorPerName =>
        verdict = VerdictOn(input.side, input.list,
                      [input.v EXCEPT !.anchors = Reverse(input.v.anchors)])

(* A peer may send the root it ends in or leave it out ("[leaf,            *)
(* intermediate, ..., root?]"): accepted with the root, accepted without   *)
(* it.                                                                     *)
RootOptional ==
    LET n == Len(input.list)
    IN  /\ verdict = "ok" /\ input.v.anchored /\ n >= 3 /\ OneAnchorPerName
        /\ input.list[n] \in ToSet(input.v.anchors)
        /\ \A i \in 3..(n - 1) : input.list[i] # input.list[n]
        => VerdictOn(input.side, SubSeq(input.list, 1, n - 1), input.v) = "ok"

(* Under strict CRL checking an accepted peer has every certificate it     *)
(* sent, self-signed ones apart, covered by a CRL of its issuer that is in *)
(* date, and a CRL's word is only taken from a key of the path             *)
(* (ensure_crl_coverage together with check_revocations: neither is enough *)
(* alone).                                                                 *)
StrictCovered ==
    verdict = "ok" /\ input.v.anchored /\ input.v.strict =>
        \A c \in Sent : c.subject # c.issuer =>
            \E i \in 1..Len(input.v.crls) :
                LET crl == input.v.crls[i]
                IN  /\ crl.issuer = c.issuer
                    /\ CrlInDate(crl)
                    /\ \E p \in Pool : p.subject = c.issuer /\ p.key = crl.signer

(* Nothing a peer sends makes the verifier panic: only an anchor of its    *)
(* own configuration can (OwnedCert::from_pem_or_der).                     *)
NoPeerPanic ==
    verdict = "panic" => \E a \in ToSet(input.v.anchors) : ~a.parses

(* A certificate that the CRL of its issuer lists is refused: "checks      *)
(* whether the cert's serial appears in that CRL's revokedCertificates     *)
(* list" (check_revocations).                                              *)
RevokedRejected ==
    verdict = "ok" /\ input.v.anchored =>
        \A c \in Sent, i \in 1..Len(input.v.crls) :
            ~(input.v.crls[i].issuer = c.issuer /\ c.serial \in input.v.crls[i].revoked)

=============================================================================
