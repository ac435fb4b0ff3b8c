---------------------------- MODULE MCCaService ----------------------------
EXTENDS CaService, TLC

(* A day, too many days for the service, for the signer, and seconds.      *)
MCValidities ==
    {[days |-> d, seconds |-> 0] : d \in {1, 2, 4}} \cup {[days |-> 0, seconds |-> 1]}

(* Requests are served alike, and serial numbers are random. *)
CaSymmetry == Permutations(Workers) \cup Permutations(Serials)
=============================================================================
