--------------------------- MODULE MCAudioStreams ---------------------------
(* Instances of AudioStreams small enough for TLC.                         *)
EXTENDS AudioStreams, TLC

CONSTANTS s1, s2, s3

(* Reliable links, with a stream for each session and with more sessions   *)
(* than streams, and one on which messages are lost and late, with two     *)
(* sessions that want one stream.                                          *)
MCSettings ==
  {[sessions |-> {s1, s2}, streams |-> 2, lossy |-> FALSE],
   [sessions |-> {s1, s2, s3}, streams |-> 1, lossy |-> FALSE],
   [sessions |-> {s1, s2}, streams |-> 1, lossy |-> TRUE]}

(* The last of these alone.                                                *)
MCLossy == {m \in MCSettings : m.lossy}

SessionSymmetry == Permutations({s1, s2})
=============================================================================
