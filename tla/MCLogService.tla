---------------------------- MODULE MCLogService ----------------------------
(* Instances of LogService small enough for TLC.                           *)
EXTENDS LogService, TLC

ClientSymmetry == Permutations(Clients)
=============================================================================
