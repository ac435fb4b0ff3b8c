--------------------------- MODULE Sm9KeyExchange ---------------------------
(***************************************************************************)
(* The SM9 key exchange (gm-sm9-rs/src/key_exchange.rs), with the groups   *)
(* symbolic.  The key of a user, de, is <<id, kgc>>, a point r * Q is its  *)
(* scalar and its base, and an element of the target group is a base and   *)
(* the set of the exponents it was raised to.                              *)
(***************************************************************************)

EXTENDS Sequences

(* Q = H1(id) * P1 + Ppub, the point that the key <<id, ppub>> undoes. *)
compute_q(id, ppub) == <<id, ppub>>

Scaled(r, q) == [r |-> r, q |-> q]

(* e(r * Q, de), which is e(Ppub, P2)^r when de is the key of Q. *)
pairing(p, de) ==
    [base |-> IF p.q = de THEN <<de[2]>> ELSE p.q \o de, exponents |-> {p.r}]
PublishedPairing(ppub) == [base |-> <<ppub>>, exponents |-> {}]
pow(g, r) == [g EXCEPT !.exponents = @ \cup {r}]

(* Both hash everything: the shared key, and the confirmation S_B. *)
kdf_key_exchange(id_a, id_b, r_a, r_b, g1, g2, g3) ==
    <<"sk", id_a, id_b, r_a, r_b, g1, g2, g3>>
compute_sb(g1, g2, g3, id_a, id_b, r_a, r_b) ==
    <<"0x82", g1, g2, g3, id_a, id_b, r_a, r_b>>

initiator_begin(id_b, ppub) == Scaled("ra", compute_q(id_b, ppub))

responder_process(id_a, id_b, ppub, de_b, r_a) ==
    LET r_b == Scaled("rb", compute_q(id_a, ppub))
        g1 == pairing(r_a, de_b)
        g2 == pow(PublishedPairing(ppub), "rb")
        g3 == pow(g1, "rb")
    IN  [r_b |-> r_b,
         shared_key |-> kdf_key_exchange(id_a, id_b, r_a, r_b, g1, g2, g3),
         s_b |-> compute_sb(g1, g2, g3, id_a, id_b, r_a, r_b)]

(* << >> when the confirmation is not what the initiator computes. *)
initiator_finish(r_a, r_b, de_a, id_a, id_b, s_b) ==
    LET g1 == pow(PublishedPairing(de_a[2]), "ra")
        g2 == pairing(r_b, de_a)
        g3 == pow(g2, "ra")
    IN  IF s_b = compute_sb(g1, g2, g3, id_a, id_b, r_a, r_b)
        THEN kdf_key_exchange(id_a, id_b, r_a, r_b, g1, g2, g3)
        ELSE << >>

=============================================================================
