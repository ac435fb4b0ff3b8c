-------------------------- MODULE ReliableChannel --------------------------
(***************************************************************************)
(* What an established GM/TLS connection promises its two users: in each   *)
(* direction the bytes handed to the writer come out at the reader in      *)
(* order, none invented, none duplicated and none skipped, and a clean end *)
(* of stream is reported only when every byte has been handed over.        *)
(* Byte number i of a direction is the number i, so the first n bytes are  *)
(* the sequence <<1, ..., n>>.                                             *)
(***************************************************************************)
EXTENDS Naturals, Sequences

CONSTANT Peers

VARIABLES
    sent,       \* [Peers -> Nat]: bytes the writer p has handed over
    delivered,  \* [Peers -> Seq(Nat)]: bytes the user at q has been given
    ended       \* [Peers -> BOOLEAN]: q has been told "end of stream"

chanVars == <<sent, delivered, ended>>

Numbers(n) == [i \in 1..n |-> i]

ChanInit ==
    /\ sent = [p \in Peers |-> 0]
    /\ delivered = [p \in Peers |-> << >>]
    /\ ended = [p \in Peers |-> FALSE]

ChanSend(p) ==
    /\ sent'[p] \in Nat /\ sent'[p] >= sent[p]
    /\ sent' = [sent EXCEPT ![p] = sent'[p]]
    /\ UNCHANGED <<delivered, ended>>

ChanDeliver(p, q) ==
    /\ p # q
    /\ \E n \in Len(delivered[q])..sent[p] :
          delivered' = [delivered EXCEPT ![q] = Numbers(n)]
    /\ UNCHANGED <<sent, ended>>

ChanEnd(p, q) ==
    /\ p # q
    /\ Len(delivered[q]) = sent[p]
    /\ ended' = [ended EXCEPT ![q] = TRUE]
    /\ UNCHANGED <<sent, delivered>>

ChanNext ==
    \E p, q \in Peers : ChanSend(p) \/ ChanDeliver(p, q) \/ ChanEnd(p, q)

ChanSpec == ChanInit /\ [][ChanNext]_chanVars
=============================================================================
