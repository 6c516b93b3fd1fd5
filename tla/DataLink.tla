------------------------------ MODULE DataLink ------------------------------
(***************************************************************************)
(* One direction of the data link between the host and the audio           *)
(* controller: a sender that cuts a packet into fragments and repeats each *)
(* fragment until it is acknowledged, and a receiver that acknowledges the *)
(* fragments and puts the packet together again.                           *)
(*                                                                         *)
(* The host side is DataLinkManager (sendPacket, receivePacket), the       *)
(* controller side ac_datalink.c (ac_datalink_send_packet,                 *)
(* ac_datalink_receive_packet).  They run the same protocol and differ in  *)
(* what a frame with a bad checksum does to its reader, which the two      *)
(* Resyncs constants state: the host's readFrame reports the error, the    *)
(* controller's ac_datalink_read_frame drops the bytes and reads on.       *)
(***************************************************************************)
EXTENDS Integers, Sequences

CONSTANTS
  NPackets,         (* packets the sender is asked to send, one after the other *)
  FragmentCount,    (* number of fragments of each packet                       *)
  MaxRetries,       (* repetitions of one fragment (max_retries)                *)
  FaultKinds,       (* what can go wrong: "loss", "crc", "head" or "write"      *)
  MaxFaults,        (* how often that happens, in all                           *)
  SenderResyncs,    (* the sender is the controller (TRUE) or the host (FALSE)  *)
  ReceiverResyncs,  (* the receiver is the controller (TRUE) or the host        *)
  PromptLink        (* TRUE: a timeout expires only when no frame is on its way *)

Packet == 1 .. NPackets

ASSUME DataLinkAssumption ==
  /\ NPackets \in Nat
  /\ FragmentCount \in [Packet -> Nat \ {0}]
  /\ MaxRetries \in Nat
  /\ FaultKinds \subseteq {"loss", "crc", "head", "write"}
  /\ MaxFaults \in Nat
  /\ SenderResyncs \in BOOLEAN
  /\ ReceiverResyncs \in BOOLEAN
  /\ PromptLink \in BOOLEAN

VARIABLES
  data,       (* DATA frames on their way to the receiver                  *)
  acks,       (* ACK and NAK frames on their way back                      *)
  faults,     (* faults that have happened                                 *)
  sender,     (* control state of sendPacket                               *)
  outcome,    (* what sendPacket returned for each packet                  *)
  receiver,   (* control state and packet buffer of receivePacket          *)
  delivered   (* the packets receivePacket has returned, in order          *)

vars == <<data, acks, faults, sender, outcome, receiver, delivered>>

-----------------------------------------------------------------------------
(* Frames.  A frame carries link_sequence (one per packet, so the packet's *)
(* number) and fragment_index; damage is what happened to it on the way:   *)
(* "crc" breaks a checksum, "head" the header-size field, which neither    *)
(* reader gets past: readFrame returns the error and keeps the bytes,      *)
(* ac_datalink_read_frame waits for the frame to become complete.          *)

Damage == {"none", "crc", "head"}

DataFrame == [seq : Packet, index : Nat, damage : Damage]

AckFrame  == [seq : Packet, index : Nat, ack : BOOLEAN, damage : Damage]

(* What one write leaves on the link, and the faults that takes.           *)
Arrival(frame, kind) ==
  IF kind = "loss" THEN <<>> ELSE <<[frame EXCEPT !.damage = kind]>>

Transits(frame) ==
  {[arrives |-> <<frame>>, cost |-> 0]} \cup
  {[arrives |-> Arrival(frame, kind), cost |-> 1]
     : kind \in {k \in FaultKinds \ {"write"} : faults < MaxFaults}}

(* The first fragment sits at offset 0; the others do not.                 *)
LastIndex(p) == FragmentCount[p] - 1

(* receivePacket zero-fills the packet buffer; 0 is a fragment not copied. *)
Blank(p) == [i \in 0 .. LastIndex(p) |-> 0]
Whole(p) == [i \in 0 .. LastIndex(p) |-> p]

Idle == [packet |-> 0, expected |-> 0, buffer |-> <<>>]

-----------------------------------------------------------------------------
Init ==
  /\ data = <<>>
  /\ acks = <<>>
  /\ faults = 0
  /\ sender = [at |-> "idle", packet |-> 0, index |-> 0, attempt |-> 0]
  /\ outcome = [p \in Packet |-> "none"]
  /\ receiver = Idle
  /\ delivered = <<>>

-----------------------------------------------------------------------------
(* sendPacket / ac_datalink_send_packet                                    *)

(* A caller hands over the next packet.                                    *)
SubmitPacket ==
  /\ sender.at = "idle"
  /\ sender.packet < NPackets
  /\ sender' = [at |-> "write", packet |-> sender.packet + 1,
                index |-> 0, attempt |-> 0]
  /\ UNCHANGED <<data, acks, faults, outcome, receiver, delivered>>

SenderReturns(result) ==
  /\ sender' = [sender EXCEPT !.at = "idle"]
  /\ outcome' = [outcome EXCEPT ![sender.packet] = result]

(* Faulty variant: a retry starts the packet again.                        *)

AttemptFailsRestart ==
  \/ /\ sender.attempt < MaxRetries
     /\ sender' = [sender EXCEPT !.at = "write", !.attempt = @ + 1, !.index = 0]
     /\ UNCHANGED outcome
  \/ /\ sender.attempt = MaxRetries
     /\ SenderReturns("failed")

(* The attempt did not bring the matching ACK.                             *)
AttemptFails ==
  \/ /\ sender.attempt < MaxRetries
     /\ sender' = [sender EXCEPT !.at = "write", !.attempt = @ + 1]
     /\ UNCHANGED outcome
  \/ /\ sender.attempt = MaxRetries
     /\ SenderReturns("failed")

WriteFragment ==
  /\ sender.at = "write"
  /\ \E t \in Transits([seq |-> sender.packet, index |-> sender.index,
                        damage |-> "none"]) :
        /\ data' = data \o t.arrives
        /\ faults' = faults + t.cost
  /\ sender' = [sender EXCEPT !.at = "wait"]
  /\ UNCHANGED <<acks, outcome, receiver, delivered>>

(* writeBlock reports an error: sendPacket returns it at once.             *)
WriteError ==
  /\ sender.at = "write"
  /\ "write" \in FaultKinds
  /\ faults < MaxFaults
  /\ faults' = faults + 1
  /\ SenderReturns("failed")
  /\ UNCHANGED <<data, acks, receiver, delivered>>

(* Faulty variant: any frame of the fragment counts.                       *)
AckMatchesNak(frame) ==
  /\ frame.seq = sender.packet
  /\ frame.index = sender.index

AckMatches(frame) ==
  /\ frame.seq = sender.packet
  /\ frame.index = sender.index
  /\ frame.ack

ReadMatchingAck ==
  /\ sender.at = "wait"
  /\ acks # <<>>
  /\ Head(acks).damage = "none"
  /\ AckMatches(Head(acks))
  /\ acks' = Tail(acks)
  /\ \/ /\ sender.index < LastIndex(sender.packet)
        /\ sender' = [sender EXCEPT !.at = "write", !.index = @ + 1,
                                    !.attempt = 0]
        /\ UNCHANGED outcome
     \/ /\ sender.index = LastIndex(sender.packet)
        /\ SenderReturns("success")
  /\ UNCHANGED <<data, faults, receiver, delivered>>

(* A NAK, or the acknowledgement of an earlier attempt or packet.          *)
ReadOtherFrame ==
  /\ sender.at = "wait"
  /\ acks # <<>>
  /\ Head(acks).damage = "none"
  /\ ~AckMatches(Head(acks))
  /\ acks' = Tail(acks)
  /\ AttemptFails
  /\ UNCHANGED <<data, faults, receiver, delivered>>

(* The host counts a frame with a bad checksum as a failed attempt, the    *)
(* controller skips it and keeps waiting.                                  *)
ReadDamagedAck ==
  /\ sender.at = "wait"
  /\ acks # <<>>
  /\ Head(acks).damage = "crc"
  /\ acks' = Tail(acks)
  /\ IF SenderResyncs THEN UNCHANGED <<sender, outcome>> ELSE AttemptFails
  /\ UNCHANGED <<data, faults, receiver, delivered>>

(* A broken header stays where it is, so that every later read fails too.  *)
ReadBrokenHeader ==
  /\ sender.at = "wait"
  /\ acks # <<>>
  /\ Head(acks).damage = "head"
  /\ AttemptFails
  /\ UNCHANGED <<data, acks, faults, receiver, delivered>>

(* The receiver can still take a step that answers the sender.             *)
ReceiverBusy == data # <<>> /\ Head(data).damage # "head"

AckTimeout ==
  /\ sender.at = "wait"
  /\ acks = <<>>
  /\ PromptLink => ~ReceiverBusy
  /\ AttemptFails
  /\ UNCHANGED <<data, acks, faults, receiver, delivered>>

-----------------------------------------------------------------------------
(* receivePacket / ac_datalink_receive_packet, called again whenever it    *)
(* has returned (ac_transport_worker polls; sendSync waits for a response).*)

Assembling == receiver.packet # 0

SendAck(frame, ok) ==
  \E t \in Transits([seq |-> frame.seq, index |-> frame.index, ack |-> ok,
                     damage |-> "none"]) :
     /\ acks' = acks \o t.arrives
     /\ faults' = faults + t.cost

Copy(buffer, frame) == [buffer EXCEPT ![frame.index] = frame.seq]

(* Copy the fragment into the packet, acknowledge it and return the packet *)
(* once it was the last fragment expected.                                 *)
AcceptFragment(frame, packet, buffer) ==
  /\ SendAck(frame, TRUE)
  /\ \/ /\ receiver.expected < LastIndex(packet)
        /\ receiver' = [packet |-> packet, expected |-> receiver.expected + 1,
                        buffer |-> Copy(buffer, frame)]
        /\ UNCHANGED delivered
     \/ /\ receiver.expected = LastIndex(packet)
        /\ receiver' = Idle
        /\ delivered' = Append(delivered, Copy(buffer, frame))

(* writeBlock fails for the ACK: receivePacket returns the error.          *)
AckWriteError ==
  /\ "write" \in FaultKinds
  /\ faults < MaxFaults
  /\ faults' = faults + 1
  /\ receiver' = Idle
  /\ UNCHANGED <<acks, delivered>>

(* Faulty variant: the first fragment may be any.                          *)
ReceiveAnyFirst ==
  /\ ~Assembling
  /\ data # <<>>
  /\ Head(data).damage = "none"
  /\ data' = Tail(data)
  /\ \/ AcceptFragment(Head(data), Head(data).seq, Blank(Head(data).seq))
     \/ AckWriteError
  /\ UNCHANGED <<sender, outcome>>

ReceiveFirst ==
  /\ ~Assembling
  /\ data # <<>>
  /\ Head(data).damage = "none"
  /\ Head(data).index = 0
  /\ data' = Tail(data)
  /\ \/ AcceptFragment(Head(data), Head(data).seq, Blank(Head(data).seq))
     \/ AckWriteError
  /\ UNCHANGED <<sender, outcome>>

(* "first fragment offset is not zero": an error, and no answer at all.    *)
RejectFirst ==
  /\ ~Assembling
  /\ data # <<>>
  /\ Head(data).damage = "none"
  /\ Head(data).index # 0
  /\ data' = Tail(data)
  /\ UNCHANGED <<acks, faults, sender, outcome, receiver, delivered>>

(* Faulty variant: any fragment of the packet is taken for the next one.   *)
FragmentOfPacket(frame) == frame.seq = receiver.packet

FragmentExpected(frame) ==
  /\ frame.seq = receiver.packet
  /\ frame.index = receiver.expected

ReceiveNext ==
  /\ Assembling
  /\ data # <<>>
  /\ Head(data).damage = "none"
  /\ FragmentExpected(Head(data))
  /\ data' = Tail(data)
  /\ \/ AcceptFragment(Head(data), receiver.packet, receiver.buffer)
     \/ AckWriteError
  /\ UNCHANGED <<sender, outcome>>

(* "fragment sequence mismatch": NAK, and the packet so far is given up.   *)
RejectNext ==
  /\ Assembling
  /\ data # <<>>
  /\ Head(data).damage = "none"
  /\ ~FragmentExpected(Head(data))
  /\ data' = Tail(data)
  /\ SendAck(Head(data), FALSE)
  /\ receiver' = Idle
  /\ UNCHANGED <<sender, outcome, delivered>>

(* A frame with a bad checksum: skipped by the controller, an error that   *)
(* gives up the packet at the host.                                        *)
DropDamagedData ==
  /\ data # <<>>
  /\ Head(data).damage = "crc"
  /\ data' = Tail(data)
  /\ receiver' = IF ReceiverResyncs THEN receiver ELSE Idle
  /\ UNCHANGED <<acks, faults, sender, outcome, delivered>>

(* Faulty variant: bytes that make no frame count as an arrival.           *)
FragmentTimeoutIfSilent ==
  /\ Assembling
  /\ data = <<>>
  /\ PromptLink => /\ sender.at # "write"
                   /\ acks = <<>>
  /\ receiver' = Idle
  /\ UNCHANGED <<data, acks, faults, sender, outcome, delivered>>

(* The wait for the next fragment ends without one: the link is silent, or *)
(* blocked by a broken header.                                             *)
FragmentTimeout ==
  /\ Assembling
  /\ data # <<>> => Head(data).damage = "head"
  /\ PromptLink => /\ sender.at # "write"
                   /\ acks = <<>>
  /\ receiver' = Idle
  /\ UNCHANGED <<data, acks, faults, sender, outcome, delivered>>

-----------------------------------------------------------------------------
SenderStep ==
  \/ WriteFragment
  \/ WriteError
  \/ ReadMatchingAck
  \/ ReadOtherFrame
  \/ ReadDamagedAck
  \/ ReadBrokenHeader
  \/ AckTimeout

ReceiverStep ==
  \/ ReceiveFirst
  \/ RejectFirst
  \/ ReceiveNext
  \/ RejectNext
  \/ DropDamagedData
  \/ FragmentTimeout

Next == SubmitPacket \/ SenderStep \/ ReceiverStep

Spec == Init /\ [][Next]_vars

(* Both ends run in threads of their own, and no caller is obliged to send.*)
FairSpec == Spec /\ WF_vars(SenderStep) /\ WF_vars(ReceiverStep)

-----------------------------------------------------------------------------
TypeOK ==
  /\ data \in Seq(DataFrame)
  /\ acks \in Seq(AckFrame)
  /\ faults \in 0 .. MaxFaults
  /\ sender \in [at : {"idle", "write", "wait"}, packet : 0 .. NPackets,
                 index : Nat, attempt : 0 .. MaxRetries]
  /\ outcome \in [Packet -> {"none", "success", "failed"}]
  /\ receiver.packet \in 0 .. NPackets
  /\ receiver.expected \in Nat
  /\ delivered \in Seq(UNION {[0 .. LastIndex(p) -> 0 .. NPackets] : p \in Packet})

-----------------------------------------------------------------------------
(* The inductive invariant behind the safety properties.  Everything that  *)
(* is sent, on its way, half assembled or delivered lies on one line, the  *)
(* positions <<packet, fragment>> in the order sendPacket visits them.     *)

Position(p, i) == [seq |-> p, index |-> i]

NotAfter(f, g) ==
  \/ f.seq < g.seq
  \/ f.seq = g.seq /\ f.index <= g.index

SenderPosition == Position(sender.packet, sender.index)

(* DATA frames are in the order they were written, none beyond the sender. *)
FrameInv ==
  \A i \in 1 .. Len(data) :
    /\ data[i].index <= LastIndex(data[i].seq)
    /\ NotAfter(data[i], SenderPosition)
    /\ \A j \in i .. Len(data) : NotAfter(data[i], data[j])

(* The packet buffer once the first k fragments have been copied.          *)
Held(p, k) == [i \in 0 .. LastIndex(p) |-> IF i < k THEN p ELSE 0]

(* A packet being assembled holds its fragments before the expected one,   *)
(* and nothing older than its newest fragment is still on its way.         *)
ReceiverInv ==
  IF receiver.packet = 0 THEN receiver = Idle
  ELSE LET newest == Position(receiver.packet, receiver.expected - 1) IN
       /\ receiver.expected \in 1 .. LastIndex(receiver.packet)
       /\ receiver.buffer = Held(receiver.packet, receiver.expected)
       /\ NotAfter(newest, SenderPosition)
       /\ \A i \in 1 .. Len(data) : NotAfter(newest, data[i])

Id(i) == delivered[i][0]

(* Delivered packets are whole and in order; what is still on its way is   *)
(* not older than their last fragment.                                     *)
DeliveredInv ==
  \A i \in 1 .. Len(delivered) :
    LET newest == Position(Id(i), LastIndex(Id(i))) IN
    /\ Id(i) \in Packet
    /\ delivered[i] = Whole(Id(i))
    /\ NotAfter(newest, SenderPosition)
    /\ \A j \in 1 .. Len(data) : NotAfter(newest, data[j])
    /\ receiver.packet # 0 => Id(i) < receiver.packet
    /\ \A j \in 1 .. Len(delivered) :
         /\ i < j => Id(i) <= Id(j)
         /\ (i # j /\ Id(i) = Id(j)) => LastIndex(Id(i)) = 0

CameOut(p) == \E i \in 1 .. Len(delivered) : Id(i) = p

(* The acknowledgement of a last fragment is proof of delivery.            *)
AckInv ==
  \A i \in 1 .. Len(acks) :
    (acks[i].ack /\ acks[i].index = LastIndex(acks[i].seq)) => CameOut(acks[i].seq)

SenderInv ==
  /\ sender.at # "idle" => /\ sender.packet \in Packet
                           /\ sender.index <= LastIndex(sender.packet)
                           /\ outcome[sender.packet] = "none"
  /\ \A p \in Packet :
       /\ p < sender.packet => outcome[p] # "none"
       /\ (p = sender.packet /\ sender.at = "idle") => outcome[p] # "none"
       /\ p > sender.packet => outcome[p] = "none"
       /\ outcome[p] = "success" => CameOut(p)

IInv ==
  /\ TypeOK
  /\ FrameInv
  /\ ReceiverInv
  /\ DeliveredInv
  /\ AckInv
  /\ SenderInv

-----------------------------------------------------------------------------

(* Every packet receivePacket returns is one packet of the sender, with    *)
(* each of its fragments at its place: fragments of an attempt that was    *)
(* given up never show up in a later packet (datalink_manager.cpp:77-100). *)
DeliveredWhole ==
  \A i \in 1 .. Len(delivered) : \E p \in Packet : delivered[i] = Whole(p)

(* When sendPacket returns success the other side has the whole packet,    *)
(* however many acknowledgements were lost or arrived late.                *)
SuccessMeansDelivered ==
  \A p \in Packet :
    outcome[p] = "success" => \E i \in 1 .. Len(delivered) : delivered[i] = Whole(p)

(* A repeated fragment can make the receiver return a packet of one        *)
(* fragment twice, never a packet of several fragments.                    *)
FragmentedAtMostOnce ==
  \A i, j \in 1 .. Len(delivered) :
    (i # j /\ delivered[i] = delivered[j]) => DOMAIN delivered[i] = {0}

(* The link keeps the promise of PacketService: only packets of a single   *)
(* fragment can come out more than once.                                   *)
Service ==
  INSTANCE PacketService WITH
    Repeatable <- {p \in Packet : FragmentCount[p] = 1},
    submitted  <- sender.packet,
    result     <- outcome,
    received   <- [i \in 1 .. Len(delivered) |-> delivered[i][0]]

IsPacketService == Service!Spec

(* sendPacket always returns, whatever the link does to its frames.        *)
SendReturns == \A p \in Packet : (sender.packet = p) ~> (outcome[p] # "none")

(* receivePacket never waits for the rest of a packet for ever.            *)
AssemblyEnds == Assembling ~> ~Assembling

(* Neither end waits for ever, whatever the link does.                     *)
NeitherEndHangs == SendReturns /\ AssemblyEnds
=============================================================================
