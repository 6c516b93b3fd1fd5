----------------------------- MODULE MCDataLink -----------------------------
(* Instances of DataLink small enough for TLC.                             *)
EXTENDS DataLink

(* A packet of two fragments, then one of one: the receiver may still hold *)
(* half of the first when the second arrives.                              *)
TwoThenOne == [p \in 1 .. 2 |-> 3 - p]

=============================================================================
