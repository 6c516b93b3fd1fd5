-------------------------- MODULE MCTransportManager --------------------------
(* Instances of TransportManager small enough for TLC.                     *)
EXTENDS TransportManager, TLC

=============================================================================
