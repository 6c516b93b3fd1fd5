------------------------ MODULE MCControllerTransport ------------------------
(* Instances of ControllerTransport small enough for TLC.                  *)
EXTENDS ControllerTransport, TLC

(* A host that waits and starts a stream again, and one that gives up on   *)
(* requests, so that several wait in one queue, but starts a stream once.  *)
MCManners ==
  {[waits |-> TRUE, restarts |-> TRUE, requests |-> 5],
   [waits |-> FALSE, restarts |-> FALSE, requests |-> 4]}

(* A host that gives up on requests and starts the stream again.           *)
HurriedRestarts == {[waits |-> FALSE, restarts |-> TRUE, requests |-> 5]}
=============================================================================
