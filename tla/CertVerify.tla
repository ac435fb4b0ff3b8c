----------------------------- MODULE CertVerify -----------------------------
(***************************************************************************)
(* X.509 path and CRL verification (gm-crypto/src/x509/verify.rs) and the  *)
(* order in which the two sides of a TLCP handshake apply it to the        *)
(* certificates of the other one (gm-tlcp/src/tlcp/mod.rs).  Operators     *)
(* only: CertChecks asks questions about them, TlcpHandshake uses them.    *)
(*                                                                         *)
(* A signature is the key that made it and the SM2 identity (distid) it    *)
(* was made under.  A host name is its sequence of labels, a path of a     *)
(* SPIFFE ID its sequence of characters, a serial number the bytes of its  *)
(* DER INTEGER: 0 is a zero byte, 1 one below 0x80, 2 one from 0x80 on.    *)
(***************************************************************************)
EXTENDS Integers, SequencesExt, Vec

CONSTANTS
    MaxDepth,       \* MAX_CERT_CHAIN_DEPTH
    Now             \* the time of the check

ASSUME CertVerifyConstants == MaxDepth \in Nat \ {0} /\ Now \in Nat

GM_TLS_DISTID == "gm"
None == "none"
NoTime == -1

(* A certificate that parses.  ku and eku are {"absent"} when the extension *)
(* is not there; pathlen is NoTime when the constraint is not there; bc is *)
(* ca, absent (or CA:FALSE, which is refused as well) or unparsed.         *)
Cert(subject, issuer, key, signer) ==
    [parses |-> TRUE, subject |-> subject, issuer |-> issuer, key |-> key,
     signer |-> signer, distid |-> GM_TLS_DISTID, serial |-> <<1>>,
     from |-> 0, to |-> Now, unknown_critical |-> FALSE,
     bc |-> "absent", pathlen |-> NoTime, ku |-> {"absent"},
     eku |-> {"absent"}, dns |-> {}, cn |-> << >>, uri |-> {}]

(* No certificate (the empty byte string), and bytes that are none. *)
NoCert == [parses |-> FALSE, empty |-> TRUE]
Garbage == [parses |-> FALSE, empty |-> FALSE]

(* A CRL; next is NoTime when nextUpdate is not there.                     *)
Crl(issuer, signer, revoked) ==
    [parses |-> TRUE, issuer |-> issuer, signer |-> signer,
     distid |-> GM_TLS_DISTID, last |-> 0, next |-> Now, revoked |-> revoked]

-----------------------------------------------------------------------------
(* Serial numbers. *)

(* der_integer_positive: the CA's bytes as the content of an INTEGER.  A   *)
(* leading zero byte of the CA's is kept.                                  *)
der_integer_positive(bytes) ==
    IF bytes # << >> /\ bytes[1] = 2 THEN <<0>> \o bytes ELSE bytes

(* A serial number the CA draws: the top bit of the first byte is cleared. *)
CaSerials(n) ==
    {der_integer_positive(s) : s \in {t \in [1..n -> 0..2] : t[1] # 2}}

(* BigUint::to_bytes_be of an INTEGER: the shortest form of the number.    *)
to_bytes_be(content) ==
    LET nonzero == {i \in 1..Len(content) : content[i] # 0}
    IN  IF nonzero = {} THEN <<0>>
        ELSE SubSeq(content, Min(nonzero), Len(content))

(* CrlInfo::is_cert_revoked: the raw bytes of the entries are compared     *)
(* with the shortest form of the certificate's number.                     *)
is_cert_revoked(crl, serial) == serial \in crl.revoked

-----------------------------------------------------------------------------
(* One certificate. *)

(* hostname_matches: equal, or * for exactly the left-most label. *)
hostname_matches(entry, domain) ==
    \/ entry = domain
    \/ /\ Len(entry) >= 2 /\ entry[1] = "*"
       /\ Len(domain) >= 2
       /\ Tail(entry) = Tail(domain)

InValidity(cert) == cert.from <= Now /\ Now <= cert.to

(* validate_cert_parsed; domain << >> stands for none expected.  The CN is *)
(* looked at whenever no DNS name matched.                                 *)
validate_cert_parsed(cert, domain) ==
    /\ InValidity(cert)
    /\ domain # << >> =>
          \/ \E name \in cert.dns : hostname_matches(name, domain)
          \/ cert.cn # << >> /\ hostname_matches(cert.cn, domain)

check_unknown_critical_extensions(cert) == ~cert.unknown_critical

(* validate_hostname_only, and validate_cert_pem of the GM/TLS side. *)
validate_hostname_only(cert, domain) ==
    /\ cert.parses
    /\ check_unknown_critical_extensions(cert)
    /\ validate_cert_parsed(cert, domain)

(* SpiffeId::parse: a record [ok, domain, path]; what makes a URI no       *)
(* SPIFFE ID is abstracted to ok.                                          *)
SpiffeMatches(candidate, expected, policy) ==
    /\ candidate.ok
    /\ candidate.domain = expected.domain
    /\ IF policy = "Exact" THEN candidate.path = expected.path
       ELSE IsPrefix(expected.path, candidate.path)

validate_uri_only(cert, expected, policy) ==
    /\ cert.parses
    /\ check_unknown_critical_extensions(cert)
    /\ InValidity(cert)
    /\ IF policy = "Literal" THEN expected \in cert.uri
       ELSE expected.ok /\ \E u \in cert.uri : SpiffeMatches(u, expected, policy)

(* CertRole: the key usages one of which a role asks for, and the extended *)
(* ones; "any" is no role.                                                 *)
CertRole ==
    [TlcServer    |-> [ku |-> {"digitalSignature"}, eku |-> {"serverAuth"}],
     TlcClient    |-> [ku |-> {"digitalSignature"}, eku |-> {"clientAuth"}],
     TlcEncServer |-> [ku |-> {"keyAgreement", "keyEncipherment"}, eku |-> {}],
     TlcEncClient |-> [ku |-> {"keyAgreement", "keyEncipherment"}, eku |-> {}],
     Ca           |-> [ku |-> {"keyCertSign"}, eku |-> {}]]

(* verify_cert_role; an absent extension allows all. *)
verify_cert_role(cert, role) ==
    role # "any" =>
        LET r == CertRole[role]
        IN  /\ cert.ku = {"absent"} \/ cert.ku \cap r.ku # {}
            /\ \/ r.eku = {} \/ cert.eku = {"absent"}
               \/ cert.eku \cap (r.eku \cup {"any"}) # {}

(* verify_with_distid_fallbacks: any of the fallback distids will do. *)
verify_with_distid_fallbacks(signed, key, distids) ==
    \E d \in distids : signed.signer = key /\ signed.distid = d

(* Verification with the standard distid, then, under the permissive       *)
(* policy, with the fallback ones.  policy is the set of fallback distids: *)
(* {} is DistidPolicy::Strict.                                             *)
SignatureVerifies(signed, key, policy) ==
    \/ signed.signer = key /\ signed.distid = GM_TLS_DISTID
    \/ verify_with_distid_fallbacks(signed, key, policy)

-----------------------------------------------------------------------------
(* The path. *)

(* Seeded fault: the names are compared, the signature is not verified. *)
verify_link_names(cert, ca, domain, policy) ==
    /\ cert.parses /\ ca.parses
    /\ validate_cert_parsed(cert, domain)
    /\ validate_cert_parsed(ca, << >>)
    /\ cert.issuer = ca.subject

(* verify_cert_chain_sm2_with_distid: one certificate against its issuer. *)
verify_link(cert, ca, domain, policy) ==
    /\ cert.parses /\ ca.parses
    /\ validate_cert_parsed(cert, domain)
    /\ validate_cert_parsed(ca, << >>)
    /\ cert.issuer = ca.subject
    /\ SignatureVerifies(cert, ca.key, policy)

(* What is asked of an element that is not the last one, from the second   *)
(* on: CA:TRUE and no more intermediates below it than it allows.  A       *)
(* BasicConstraints that could not be parsed is passed over.               *)
ConstraintsMet(cert, i) ==
    \/ cert.bc = "unparsed"
    \/ /\ cert.bc = "ca"
       /\ cert.pathlen # NoTime => i - 2 <= cert.pathlen

(* Seeded fault: only the first anchor is tried. *)
ReachesAnchor_first(cert, anchors, domain, policy) ==
    verify_link(cert, anchors[1], domain, policy)

(* Seeded fault: the path must end in an anchor the peer has sent. *)
ReachesAnchor_sent(cert, anchors, domain, policy) ==
    cert \in ToSet(anchors)

ReachesAnchor(cert, anchors, domain, policy) ==
    \E k \in 1..Len(anchors) : verify_link(cert, anchors[k], domain, policy)

(* verify_cert_chain_sm2_chain_with_distid_policy: each element against    *)
(* the one that follows it, the last one against the anchors.              *)
verify_chain(chain, anchors, domain, role, policy) ==
    /\ chain # << >> /\ anchors # << >>
    /\ Len(chain) <= MaxDepth
    /\ \A i \in 1..Len(chain) :
          LET d == IF i = 1 THEN domain ELSE << >>
              r == IF i = 1 THEN role ELSE "Ca"
          IN  /\ chain[i].parses
              /\ check_unknown_critical_extensions(chain[i])
              /\ verify_cert_role(chain[i], r)
              /\ IF i < Len(chain)
                 THEN /\ verify_link(chain[i], chain[i + 1], d, policy)
                      /\ i >= 2 => ConstraintsMet(chain[i], i)
                 ELSE ReachesAnchor(chain[i], anchors, d, policy)

(* verify_against_anchors_with_distid_policy: the same over the bytes of   *)
(* the peer and of the configuration, which are parsed one by one when     *)
(* the walk reaches them.                                                  *)
verify_against_anchors(leaf, material, anchors, domain, role, policy) ==
    verify_chain(<<leaf>> \o material, anchors, domain, role, policy)

-----------------------------------------------------------------------------
(* Revocation. *)

CrlInDate(crl) ==
    crl.last <= Now /\ (crl.next # NoTime => Now <= crl.next)

(* The first certificate of the chain with the CRL's issuer as subject is  *)
(* the one whose key must have signed the CRL; distids are always strict.  *)
CrlSigned(crl, chain) ==
    LET holders == {i \in 1..Len(chain) :
                       chain[i].parses /\ chain[i].subject = crl.issuer}
    IN  /\ holders # {}
        /\ SignatureVerifies(crl, chain[Min(holders)].key, {})

IssuerKnown(crl, chain) ==
    \E c \in ToSet(chain) : c.parses /\ c.subject = crl.issuer

(* One turn of check_revocations_with_policy. *)
CrlPasses(crl, chain, policy) ==
    \/ policy = "Permissive" /\ (~crl.parses \/ ~IssuerKnown(crl, chain))
    \/ /\ crl.parses
       /\ CrlSigned(crl, chain)
       /\ CrlInDate(crl)
       /\ \A c \in ToSet(chain) :
             /\ c.parses \/ policy = "Permissive"
             /\ (c.parses /\ c.issuer = crl.issuer) =>
                   ~is_cert_revoked(crl, to_bytes_be(c.serial))

check_revocations(chain, crls, policy) ==
    \A i \in 1..Len(crls) : CrlPasses(crls[i], chain, policy)

(* Seeded fault: one CRL is enough for the whole chain. *)
ensure_crl_coverage_one(chain, crls) == crls # << >>

ensure_crl_coverage(chain, crls) ==
    /\ \A i \in 1..Len(crls) : crls[i].parses
    /\ \A c \in ToSet(chain) :
          /\ c.parses
          /\ c.subject # c.issuer =>
                \E i \in 1..Len(crls) : crls[i].issuer = c.issuer

-----------------------------------------------------------------------------
(* The certificates of a TLCP peer. *)

(* TlcpCertPair.  Through the Certificate message (to_certificate_message, *)
(* from_certificate_message) the two chains become one; a message without  *)
(* an entry is refused as one without a certificate is.                    *)
CertPair(sign, enc, sign_chain, enc_chain) ==
    [single |-> FALSE, sign |-> sign, enc |-> enc,
     sign_chain |-> sign_chain, enc_chain |-> enc_chain]
SinglePair(sign) ==
    [single |-> TRUE, sign |-> sign, enc |-> NoCert,
     sign_chain |-> << >>, enc_chain |-> << >>]

to_certificate_message(pair) ==
    IF pair.single THEN <<pair.sign>>
    ELSE <<pair.sign, pair.enc>> \o pair.sign_chain \o pair.enc_chain

from_certificate_message(list) ==
    IF list = << >> THEN SinglePair(NoCert)
    ELSE IF Len(list) = 1 THEN SinglePair(list[1])
    ELSE CertPair(list[1], list[2], SubSeq(list, 3, Len(list)), << >>)

(* The chain material with repeated entries taken out, first one kept. *)
Dedup(s) ==
    RetainAt(s, {i \in 1..Len(s) : \A j \in 1..(i - 1) : s[j] # s[i]})

(* What a verifier was configured with: anchored says whether trust        *)
(* anchors were given at all; name and uri are << >> and NoUri when        *)
(* nothing is expected.                                                    *)
NoUri == [ok |-> FALSE, domain |-> "", path |-> << >>]
Verifier(anchored, anchors, name, uri, crls, strict, distids) ==
    [anchored |-> anchored, anchors |-> anchors, name |-> name, uri |-> uri,
     crls |-> crls, strict |-> strict, distids |-> distids]

(* Seeded fault: revocation is looked at before the path. *)
LeafVerdict_crl_first(v, leaf, material, domain, role) ==
    LET chain == <<leaf>> \o material
        full  == chain \o v.anchors
        crl   == v.strict \/ v.crls # << >>
    IN  IF crl /\ \E c \in ToSet(full) : ~c.parses THEN "panic"
        ELSE IF crl /\ v.strict /\ ~ensure_crl_coverage(full, v.crls) THEN "crl"
        ELSE IF crl /\ ~check_revocations(full, v.crls, "Strict") THEN "crl"
        ELSE IF ~verify_against_anchors(leaf, material, v.anchors, domain, role,
                                        v.distids) THEN "chain"
        ELSE "ok"

(* One leaf with the intermediates that came with it: the path, the        *)
(* coverage under strict CRL checking, the CRLs if there are any.          *)
(* OwnedCert::from_pem_or_der panics on what does not parse; after the     *)
(* path that can only be an anchor behind the one that matched.            *)
LeafVerdict(v, leaf, material, domain, role) ==
    LET chain == <<leaf>> \o material
        full  == chain \o v.anchors
        crl   == v.strict \/ v.crls # << >>
    IN  IF ~verify_against_anchors(leaf, material, v.anchors, domain, role,
                                   v.distids) THEN "chain"
        ELSE IF crl /\ \E c \in ToSet(full) : ~c.parses THEN "panic"
        ELSE IF v.strict /\ ~ensure_crl_coverage(full, v.crls) THEN "crl"
        ELSE IF ~check_revocations(full, v.crls, "Strict") THEN "crl"
        ELSE "ok"

(* The connector's checks of the server's pair, in their order.  The host  *)
(* name is checked without anchors too, the URI only with them.            *)
ServerCertsVerdict(v, pair) ==
    LET material == Dedup(pair.sign_chain \o pair.enc_chain)
        sign == LeafVerdict(v, pair.sign, material, v.name, "TlcServer")
        enc  == LeafVerdict(v, pair.enc, material, << >>, "TlcEncServer")
    IN  IF pair.sign = NoCert THEN "missing"
        ELSE IF v.name # << >> /\ ~validate_hostname_only(pair.sign, v.name) THEN "name"
        ELSE IF ~v.anchored THEN "ok"
        ELSE IF v.anchors = << >> THEN "anchors"
        ELSE IF sign # "ok" THEN sign
        ELSE IF v.uri # NoUri /\ ~validate_uri_only(pair.sign, v.uri, "Prefix") THEN "uri"
        ELSE IF pair.enc = NoCert THEN "ok"
        ELSE enc

(* The acceptor's checks of the client's list: the first two entries are   *)
(* leaves, what follows is chain material.                                 *)
ClientCertsVerdict(v, list) ==
    LET material == SubSeq(list, 3, Len(list))
        verdict(i) == LeafVerdict(v, list[i], material, << >>,
                          IF i = 1 THEN "TlcClient" ELSE "TlcEncClient")
        bad == {i \in 1..Min({Len(list), 2}) : verdict(i) # "ok"}
    IN  IF ~v.anchored THEN "ok"
        ELSE IF v.anchors = << >> THEN "anchors"
        ELSE IF list = << >> THEN "missing"
        ELSE IF bad # {} THEN verdict(Min(bad))
        ELSE "ok"

=============================================================================
