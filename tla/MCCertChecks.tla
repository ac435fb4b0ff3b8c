---------------------------- MODULE MCCertChecks ----------------------------
(* A root R, intermediates I under R and J under I, a root Q nobody uses,  *)
(* and the root of R's name after a change of its key.                     *)
EXTENDS CertChecks

Ca(c) == [c EXCEPT !.bc = "ca", !.ku = {"keyCertSign"}]
R == Ca(Cert("R", "R", "kr", "kr"))
Renewed == Ca(Cert("R", "R", "kn", "kn"))
Q == Ca(Cert("Q", "Q", "kq", "kq"))
I == Ca(Cert("I", "R", "ki", "kr"))
J == Ca(Cert("J", "I", "kj", "ki"))

(* What can be wrong with a certificate. *)
Twisted(c) ==
    {c, Garbage, NoCert,
     [c EXCEPT !.to = Now - 1], [c EXCEPT !.from = Now + 1],
     [c EXCEPT !.signer = "kx"], [c EXCEPT !.issuer = "X"],
     [c EXCEPT !.distid = ""], [c EXCEPT !.unknown_critical = TRUE],
     [c EXCEPT !.ku = {"keyEncipherment"}], [c EXCEPT !.eku = {"emailProtection"}],
     [c EXCEPT !.bc = "absent"], [c EXCEPT !.bc = "unparsed"],
     [c EXCEPT !.pathlen = 0]}

Sign(by, key, serial) ==
    [Cert("S", by, "ks", key) EXCEPT !.serial = serial, !.dns = {<<"*", "x">>},
        !.ku = {"digitalSignature"}, !.uri = {[ok |-> TRUE, domain |-> "d", path |-> <<"/", "a">>]}]
Enc(by, key) == [Cert("E", by, "ke", key) EXCEPT !.serial = <<1, 1>>]

(* A leaf, its issuer and the way up. *)
Chains == {<<"R", "kr", << >>>>, <<"R", "kr", <<R>>>>, <<"I", "ki", <<I>>>>,
           <<"I", "ki", <<I, R>>>>, <<"J", "kj", <<J, I>>>>,
           <<"J", "kj", <<J, I, R>>>>, <<"J", "kj", <<I, J>>>>,
           <<"J", "kj", <<J, I, I>>>>}
AnchorSets == {<<R>>, <<Q, R>>, <<Renewed, R>>, <<R, Garbage>>, <<Garbage, R>>, <<I>>, <<Q>>}

(* Every certificate of every chain twisted in every way, one at a time. *)
Lists ==
    UNION {LET s == Sign(ch[1], ch[2], <<1>>)
               e == Enc(ch[1], ch[2])
               base == <<s, e>> \o ch[3]
           IN  UNION {{[base EXCEPT ![k] = t] : t \in Twisted(base[k])} :
                         k \in 1..Len(base)} : ch \in Chains}
    \cup {<< >>, <<Sign("R", "kr", <<1>>)>>}

(* Pools of CRLs. *)
CrlR == Crl("R", "kr", {})
CrlI == Crl("I", "ki", {})
Pools == {<< >>, <<CrlR>>, <<CrlI>>, <<CrlR, CrlI>>,
          <<CrlR, [CrlI EXCEPT !.revoked = {<<1>>}]>>,
          <<[CrlR EXCEPT !.next = Now - 1], CrlI>>,
          <<CrlR, [CrlI EXCEPT !.signer = "kx"]>>,
          <<CrlR, [CrlI EXCEPT !.distid = ""]>>,
          <<CrlR, Garbage>>, <<CrlR, CrlI, Crl("Q", "kq", {})>>}

(* Configurations: anchors and fallback distids, CRLs, names. *)
Anchored ==
    {Verifier(TRUE, a, << >>, NoUri, << >>, FALSE, d) : a \in AnchorSets, d \in {{}, {""}}}
Revoking ==
    {Verifier(TRUE, a, << >>, NoUri, p, strict, {}) :
        a \in {<<R>>, <<R, Garbage>>, <<Renewed, R>>}, p \in Pools, strict \in BOOLEAN}
Naming ==
    {Verifier(anchored, a, name, uri, << >>, FALSE, {}) :
        anchored \in BOOLEAN, a \in {<< >>, <<R>>},
        name \in {<< >>, <<"y", "x">>, <<"z", "y", "x">>},
        uri \in {NoUri, [ok |-> TRUE, domain |-> "d", path |-> <<"/">>],
                 [ok |-> TRUE, domain |-> "d", path |-> <<"/", "b">>],
                 [ok |-> TRUE, domain |-> "e", path |-> <<"/">>]}}

MCInputs ==
    [side : Sides, list : Lists, v : Anchored]
    \cup [side : Sides, list : {m \in Lists : Len(m) <= 4}, v : Revoking]
    \cup [side : {"server"}, list : {<<Sign("R", "kr", <<1>>), Enc("R", "kr")>>}, v : Naming]

(* A certificate of this CA with any serial number it can draw but zero,   *)
(* and a CRL of this CA that lists one or none.                            *)
DrawnSerials == {s \in CaSerials(3) : \E i \in 1..3 : s[i] # 0}

SerialInputs ==
    [side : Sides,
     list : {<<Sign("R", "kr", s), Enc("R", "kr")>> : s \in DrawnSerials},
     v : {Verifier(TRUE, <<R>>, << >>, NoUri, <<[CrlR EXCEPT !.revoked = r]>>, FALSE, {}) :
            r \in {{}} \cup {{t} : t \in DrawnSerials}}]

=============================================================================
