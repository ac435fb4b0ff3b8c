--------------------------- MODULE MCRecordLayer ---------------------------
(* Instances of RecordLayer for TLC; the .cfg files give the constants.    *)
EXTENDS RecordLayer

(* The client writes, the server only asks for or makes one KeyUpdate, or  *)
(* answers once: every exchange of roles is symmetric to one of these.     *)
ThreeAndOne == [p \in Peers |-> IF p = "client" THEN 3 ELSE 1]

(* In the stream functions the two directions do not meet: one is enough.  *)
ThreeAndNone == [p \in Peers |-> IF p = "client" THEN 3 ELSE 0]
=============================================================================
