----------------------------- MODULE MCSystemInfo -----------------------------
(* Instances of SystemInfo for TLC. *)
EXTENDS SystemInfo, TLC

CONSTANTS zero, eq, a, b

(* A page that names its nodes in another order than the firmware may. *)
MCNodes == <<eq, zero, eq>>

FieldSymmetry == Permutations(Fields)
===============================================================================
