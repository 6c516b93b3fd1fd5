--------------------------- MODULE CallbackService ---------------------------
(***************************************************************************)
(* What sendAsync promises: each request it accepts is called back exactly *)
(* once, in the order of acceptance, whether the channel stays open or     *)
(* closes meanwhile.  Requests are numbered as they are accepted.          *)
(***************************************************************************)
EXTENDS Naturals, Sequences

VARIABLES
  taken,    (* how many requests were accepted                            *)
  pending,  (* those not called back yet                                  *)
  done      (* those called back                                          *)

vars == <<taken, pending, done>>

Init ==
  /\ taken = 0
  /\ pending = <<>>
  /\ done = <<>>

Accept ==
  /\ taken' = taken + 1
  /\ pending' = Append(pending, taken')
  /\ UNCHANGED done

CallBack ==
  /\ pending # <<>>
  /\ done' = Append(done, Head(pending))
  /\ pending' = Tail(pending)
  /\ UNCHANGED taken

Next == Accept \/ CallBack

Spec == Init /\ [][Next]_vars
=============================================================================
