---------------------------- MODULE PacketService ----------------------------
(***************************************************************************)
(* What the data link promises to the transport above it, without frames,  *)
(* fragments or acknowledgements: packets are submitted one at a time and  *)
(* come out whole and in order, possibly several times, possibly after     *)
(* their submission has been reported as failed; a packet reported as sent *)
(* has come out.                                                           *)
(***************************************************************************)
EXTENDS Integers, Sequences

CONSTANTS
  NPackets,   (* packets that can be submitted                         *)
  Repeatable  (* the packets that may come out more than once          *)

Packet == 1 .. NPackets

VARIABLES
  submitted,  (* the packet submitted last, 0 before the first         *)
  result,     (* what the submission of each packet has returned       *)
  received    (* the packets that have come out                        *)

vars == <<submitted, result, received>>

CameOut(p) == \E i \in 1 .. Len(received) : received[i] = p

Init ==
  /\ submitted = 0
  /\ result = [p \in Packet |-> "none"]
  /\ received = <<>>

(* The previous submission has returned.                                   *)
Submit ==
  /\ submitted < NPackets
  /\ \A p \in Packet : p <= submitted => result[p] # "none"
  /\ submitted' = submitted + 1
  /\ UNCHANGED <<result, received>>

(* Never before it was submitted, never after a later packet.              *)
ComeOut(p) ==
  /\ p <= submitted
  /\ \A i \in 1 .. Len(received) : received[i] <= p
  /\ CameOut(p) => p \in Repeatable
  /\ received' = Append(received, p)
  /\ UNCHANGED <<submitted, result>>

Succeed(p) ==
  /\ p = submitted
  /\ result[p] = "none"
  /\ CameOut(p)
  /\ result' = [result EXCEPT ![p] = "success"]
  /\ UNCHANGED <<submitted, received>>

Fail(p) ==
  /\ p = submitted
  /\ result[p] = "none"
  /\ result' = [result EXCEPT ![p] = "failed"]
  /\ UNCHANGED <<submitted, received>>

Next ==
  \/ Submit
  \/ \E p \in Packet : ComeOut(p) \/ Succeed(p) \/ Fail(p)

Spec == Init /\ [][Next]_vars
=============================================================================
