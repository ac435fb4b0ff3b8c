-------------------------------- MODULE Vec --------------------------------
(* Vec::retain of the Rust library, by positions: what is at one of the    *)
(* positions keep stays, in the order it had.  (SequencesExt's functions   *)
(* are defined by SelectSeq, of which no proof knows anything.)            *)
EXTENDS Integers, Sequences, FiniteSets

(* The k-th of the positions. *)
Nth(keep, k) == CHOOSE i \in keep : Cardinality({j \in keep : j <= i}) = k

RetainAt(s, keep) == [k \in 1..Cardinality(keep) |-> s[Nth(keep, k)]]
=============================================================================
