--------------------------- MODULE DataLinkProofs ---------------------------
(***************************************************************************)
(* Proofs, for any number of packets, fragments, retries and faults, that  *)
(* the data link keeps the safety properties of DataLink.                  *)
(***************************************************************************)
EXTENDS DataLink, SequenceTheorems, TLAPS

USE DataLinkAssumption DEF Packet

(* A written DATA frame is lost, or is added to the link behind the others,*)
(* perhaps damaged.                                                        *)
LEMMA WriteOutcome ==
  ASSUME TypeOK, WriteFragment, sender.packet \in Packet
  PROVE  /\ faults' \in 0 .. MaxFaults
         /\ \/ data' = data
            \/ \E d \in Damage :
                 data' = Append(data, [seq |-> sender.packet,
                                       index |-> sender.index, damage |-> d])
<1> DEFINE frame == [seq |-> sender.packet, index |-> sender.index,
                     damage |-> "none"]
           damaged(d) == [seq |-> sender.packet, index |-> sender.index,
                          damage |-> d]
<1>1. PICK t \in Transits(frame) :
         data' = data \o t.arrives /\ faults' = faults + t.cost
  BY DEF WriteFragment
<1>2. data \in Seq(DataFrame) /\ sender.index \in Nat
  BY DEF TypeOK
<1>3. \A d \in Damage : damaged(d) \in DataFrame
  BY <1>2 DEF DataFrame
<1>4. \A d \in Damage : data \o <<damaged(d)>> = Append(data, damaged(d))
  BY <1>2, <1>3, AppendIsConcat
<1>5. data \o <<>> = data
  BY <1>2, ConcatEmptySeq
<1>6. \/ t.arrives = <<frame>> /\ t.cost = 0
      \/ faults < MaxFaults /\ t.arrives = <<>> /\ t.cost = 1
      \/ faults < MaxFaults /\ t.arrives = <<damaged("crc")>> /\ t.cost = 1
      \/ faults < MaxFaults /\ t.arrives = <<damaged("head")>> /\ t.cost = 1
  BY DEF Transits, Arrival
<1>7. faults' \in 0 .. MaxFaults
  <2>1. faults \in 0 .. MaxFaults
    BY DEF TypeOK
  <2>2. t.cost = 0 \/ (faults < MaxFaults /\ t.cost = 1)
    BY <1>6
  <2>3. faults' = faults + t.cost
    BY <1>1
  <2> QED
    BY <2>1, <2>2, <2>3
<1> HIDE DEF damaged
<1>8. frame = damaged("none")
  BY DEF damaged
<1>9. \/ data' = data
      \/ \E d \in Damage : data' = Append(data, damaged(d))
  BY <1>1, <1>4, <1>5, <1>6, <1>8 DEF Damage
<1> QED
  BY <1>7, <1>9 DEF damaged

(* The same for a frame written by the receiver.                           *)
LEMMA AckOutcome ==
  ASSUME TypeOK, NEW f \in DataFrame, NEW ok \in BOOLEAN, SendAck(f, ok)
  PROVE  /\ faults' \in 0 .. MaxFaults
         /\ \/ acks' = acks
            \/ \E d \in Damage :
                 acks' = Append(acks, [seq |-> f.seq, index |-> f.index,
                                       ack |-> ok, damage |-> d])
<1> DEFINE frame == [seq |-> f.seq, index |-> f.index, ack |-> ok,
                     damage |-> "none"]
           damaged(d) == [seq |-> f.seq, index |-> f.index, ack |-> ok,
                          damage |-> d]
<1>1. PICK t \in Transits(frame) :
         acks' = acks \o t.arrives /\ faults' = faults + t.cost
  BY DEF SendAck
<1>2. acks \in Seq(AckFrame)
  BY DEF TypeOK
<1>3. \A d \in Damage : damaged(d) \in AckFrame
  BY DEF AckFrame, DataFrame
<1>4. \A d \in Damage : acks \o <<damaged(d)>> = Append(acks, damaged(d))
  BY <1>2, <1>3, AppendIsConcat
<1>5. acks \o <<>> = acks
  BY <1>2, ConcatEmptySeq
<1>6. \/ t.arrives = <<frame>> /\ t.cost = 0
      \/ faults < MaxFaults /\ t.arrives = <<>> /\ t.cost = 1
      \/ faults < MaxFaults /\ t.arrives = <<damaged("crc")>> /\ t.cost = 1
      \/ faults < MaxFaults /\ t.arrives = <<damaged("head")>> /\ t.cost = 1
  BY DEF Transits, Arrival
<1>7. faults' \in 0 .. MaxFaults
  <2>1. faults \in 0 .. MaxFaults
    BY DEF TypeOK
  <2>2. t.cost = 0 \/ (faults < MaxFaults /\ t.cost = 1)
    BY <1>6
  <2>3. faults' = faults + t.cost
    BY <1>1
  <2> QED
    BY <2>1, <2>2, <2>3
<1> HIDE DEF damaged
<1>8. frame = damaged("none")
  BY DEF damaged
<1>9. \/ acks' = acks
      \/ \E d \in Damage : acks' = Append(acks, damaged(d))
  BY <1>1, <1>4, <1>5, <1>6, <1>8 DEF Damage
<1> QED
  BY <1>7, <1>9 DEF damaged

LEMMA InitIInv == Init => IInv
  BY DEF Init, IInv, TypeOK, FrameInv, ReceiverInv, DeliveredInv, AckInv,
         SenderInv, Idle

-----------------------------------------------------------------------------
(* One lemma per action: it preserves the inductive invariant.             *)

LEMMA LastIndexType == \A p \in Packet : LastIndex(p) \in Nat
  BY DEF LastIndex

LEMMA NotAfterTransitive ==
  \A f, g, h :
    (/\ f.seq \in Int /\ g.seq \in Int /\ h.seq \in Int
     /\ f.index \in Int /\ g.index \in Int /\ h.index \in Int
     /\ NotAfter(f, g) /\ NotAfter(g, h)) => NotAfter(f, h)
  BY DEF NotAfter

LEMMA PositionType ==
  ASSUME TypeOK
  PROVE  /\ \A i \in 1 .. Len(data) : /\ data[i] \in DataFrame
                                      /\ data[i].seq \in Packet
                                      /\ data[i].index \in Nat
         /\ \A i \in 1 .. Len(acks) : /\ acks[i] \in AckFrame
                                      /\ acks[i].seq \in Packet
                                      /\ acks[i].index \in Nat
         /\ SenderPosition.seq \in 0 .. NPackets
         /\ SenderPosition.index \in Nat
<1>1. \A i \in 1 .. Len(data) : data[i] \in DataFrame
  BY DEF TypeOK
<1>2. \A i \in 1 .. Len(acks) : acks[i] \in AckFrame
  BY DEF TypeOK
<1> QED
  BY <1>1, <1>2 DEF TypeOK, DataFrame, AckFrame, SenderPosition, Position

(* The sender only moves forward, so what was not beyond it stays so.      *)
LEMMA SenderMovesOn ==
  ASSUME IInv, UNCHANGED <<data, receiver, delivered>>,
         \A f : (f.seq \in Int /\ f.index \in Int /\ NotAfter(f, SenderPosition))
                  => NotAfter(f, SenderPosition')
  PROVE  FrameInv' /\ ReceiverInv' /\ DeliveredInv'
<1> USE LastIndexType
<1>1. FrameInv'
  BY PositionType DEF IInv, FrameInv
<1>2. ReceiverInv'
  <2>1. CASE receiver.packet = 0
    BY <2>1 DEF IInv, ReceiverInv
  <2>2. CASE receiver.packet # 0
    <3> DEFINE newest == Position(receiver.packet, receiver.expected - 1)
    <3>1. newest.seq \in Int /\ newest.index \in Int
      BY DEF IInv, TypeOK, Position
    <3>2. NotAfter(newest, SenderPosition)
      BY <2>2 DEF IInv, ReceiverInv
    <3>3. NotAfter(newest, SenderPosition')
      BY <3>1, <3>2
    <3> QED
      BY <2>2, <3>3 DEF IInv, ReceiverInv
  <2> QED
    BY <2>1, <2>2
<1>3. DeliveredInv'
  <2> SUFFICES ASSUME NEW i \in 1 .. Len(delivered)
               PROVE  NotAfter(Position(Id(i), LastIndex(Id(i))), SenderPosition')
    BY DEF IInv, DeliveredInv, Id
  <2> DEFINE newest == Position(Id(i), LastIndex(Id(i)))
  <2>1. Id(i) \in Packet /\ NotAfter(newest, SenderPosition)
    BY DEF IInv, DeliveredInv
  <2>2. newest.seq \in Int /\ newest.index \in Int
    BY <2>1 DEF Position
  <2> QED
    BY <2>1, <2>2
<1> QED
  BY <1>1, <1>2, <1>3

LEMMA SubmitPacketStep ==
  ASSUME IInv, SubmitPacket
  PROVE  IInv'
<1> USE DEF SubmitPacket
<1>1. TypeOK'
  BY DEF IInv, TypeOK
<1>2. FrameInv' /\ ReceiverInv' /\ DeliveredInv'
  <2>1. \A f : (f.seq \in Int /\ f.index \in Int /\ NotAfter(f, SenderPosition))
                 => NotAfter(f, SenderPosition')
    BY DEF IInv, TypeOK, NotAfter, SenderPosition, Position
  <2> QED
    BY <2>1, SenderMovesOn
<1>3. AckInv'
  BY DEF IInv, AckInv, CameOut, Id
<1>4. SenderInv'
  <2>1. /\ sender.packet \in 0 .. NPackets
        /\ sender'.packet = sender.packet + 1
        /\ sender'.packet \in Packet
        /\ sender'.index = 0
        /\ sender'.at = "write"
    BY DEF IInv, TypeOK
  <2>2. sender'.index <= LastIndex(sender'.packet)
    BY <2>1, LastIndexType
  <2>3. \A p \in Packet : CameOut(p)' = CameOut(p)
    BY DEF CameOut, Id
  <2>4. \A p \in Packet : p < sender'.packet => outcome[p] # "none"
    BY <2>1 DEF IInv, SenderInv
  <2>5. \A p \in Packet : p >= sender'.packet => outcome[p] = "none"
    BY <2>1 DEF IInv, SenderInv
  <2> QED
    BY <2>1, <2>2, <2>3, <2>4, <2>5 DEF IInv, SenderInv
<1> QED
  BY <1>1, <1>2, <1>3, <1>4 DEF IInv

LEMMA WriteFragmentStep ==
  ASSUME IInv, WriteFragment
  PROVE  IInv'
<1> USE LastIndexType
<1> DEFINE written(d) == [seq |-> sender.packet, index |-> sender.index,
                          damage |-> d]
<1>1. TypeOK /\ sender.packet \in Packet
  BY DEF IInv, SenderInv, WriteFragment
<1>2. /\ faults' \in 0 .. MaxFaults
      /\ data' = data \/ \E d \in Damage : data' = Append(data, written(d))
  BY <1>1, WriteOutcome
<1>3. /\ UNCHANGED <<acks, outcome, receiver, delivered>>
      /\ sender' = [sender EXCEPT !.at = "wait"]
  BY DEF WriteFragment
<1>4. TypeOK'
  <2>1. \A d \in Damage : written(d) \in DataFrame
    BY <1>1 DEF DataFrame, TypeOK
  <2>2. data' \in Seq(DataFrame)
    <3> HIDE DEF written
    <3>1. data \in Seq(DataFrame)
      BY <1>1 DEF TypeOK
    <3>2. \A d \in Damage : Append(data, written(d)) \in Seq(DataFrame)
      BY <2>1, <3>1
    <3> QED
      BY <1>2, <3>1, <3>2
  <2> QED
    BY <1>1, <1>2, <1>3, <2>2 DEF TypeOK
<1>5. /\ SenderPosition' = SenderPosition
      /\ NotAfter(SenderPosition, SenderPosition)
  BY <1>1, <1>3 DEF TypeOK, SenderPosition, Position, NotAfter
(* What is on the way afterwards: the frames before, and perhaps one at    *)
(* the sender's position behind them.                                      *)
<1>6. /\ Len(data') \in Len(data) .. Len(data) + 1
      /\ \A i \in 1 .. Len(data) : data'[i] = data[i]
      /\ \A i \in 1 .. Len(data') :
           i > Len(data) => /\ i = Len(data')
                            /\ data'[i].seq = SenderPosition.seq
                            /\ data'[i].index = SenderPosition.index
  <2>1. data \in Seq(DataFrame)
    BY <1>1 DEF TypeOK
  <2>2. CASE data' = data
    BY <2>1, <2>2
  <2>3. ASSUME NEW d \in Damage, data' = Append(data, written(d))
        PROVE  <1>6
    BY <2>1, <2>3 DEF SenderPosition, Position
  <2> QED
    BY <1>2, <2>2, <2>3
<1>7. \A f, i : (NotAfter(f, SenderPosition) /\ i \in 1 .. Len(data') /\ i > Len(data))
                  => NotAfter(f, data'[i])
  BY <1>6 DEF NotAfter
<1>8. FrameInv'
  <2> SUFFICES ASSUME NEW i \in 1 .. Len(data')
               PROVE  /\ data'[i].index <= LastIndex(data'[i].seq)
                      /\ NotAfter(data'[i], SenderPosition)
                      /\ \A j \in i .. Len(data') : NotAfter(data'[i], data'[j])
    BY <1>5 DEF FrameInv
  <2>1. CASE i <= Len(data)
    <3>1. Len(data) \in Nat /\ Len(data') \in Nat
      <4>1. Len(data) \in Nat
        BY <1>1 DEF TypeOK
      <4> QED
        BY <1>6, <4>1
    <3>2. i \in 1 .. Len(data) /\ data'[i] = data[i]
      BY <1>6, <2>1, <3>1
    <3>3. /\ data[i].index <= LastIndex(data[i].seq)
          /\ NotAfter(data[i], SenderPosition)
          /\ \A j \in i .. Len(data) : NotAfter(data[i], data[j])
      BY <3>2 DEF IInv, FrameInv
    <3>4. ASSUME NEW j \in i .. Len(data')
          PROVE  NotAfter(data[i], data'[j])
      <4>1. CASE j <= Len(data)
        BY <1>6, <3>1, <3>2, <3>3, <4>1
      <4>2. CASE j > Len(data)
        <5>1. j \in 1 .. Len(data') /\ NotAfter(data[i], SenderPosition)
          BY <3>1, <3>2, <3>3
        <5> QED
          BY <1>7, <4>2, <5>1
      <4> QED
        BY <3>1, <4>1, <4>2
    <3> QED
      BY <3>2, <3>3, <3>4
  <2>2. CASE i > Len(data)
    <3>1. /\ i = Len(data')
          /\ data'[i].seq = SenderPosition.seq
          /\ data'[i].index = SenderPosition.index
      BY <1>6, <2>2
    <3>2. data'[i].index <= LastIndex(data'[i].seq)
      BY <1>1, <3>1 DEF IInv, SenderInv, SenderPosition, Position, WriteFragment
    <3>3. NotAfter(data'[i], SenderPosition) /\ NotAfter(data'[i], data'[i])
      BY <1>1, <3>1, PositionType DEF NotAfter
    <3>4. \A j \in i .. Len(data') : j = i
      BY <1>1, <1>6, <3>1 DEF TypeOK
    <3> QED
      BY <3>2, <3>3, <3>4
  <2> QED
    BY <1>1, <2>1, <2>2 DEF TypeOK
<1>9. ReceiverInv'
  BY <1>3, <1>5, <1>6, <1>7 DEF IInv, ReceiverInv
<1>10. DeliveredInv'
  <2>1. \A g : (/\ NotAfter(g, SenderPosition)
                /\ \A j \in 1 .. Len(data) : NotAfter(g, data[j]))
                  => \A j \in 1 .. Len(data') : NotAfter(g, data'[j])
    <3>1. Len(data) \in Nat
      BY <1>1 DEF TypeOK
    <3>2. \A j \in 1 .. Len(data') : j > Len(data) \/ j \in 1 .. Len(data)
      BY <1>6, <3>1
    <3> QED
      BY <1>6, <1>7, <3>2
  <2> QED
    BY <1>3, <1>5, <2>1 DEF IInv, DeliveredInv, Id
<1>11. AckInv'
  BY <1>3 DEF IInv, AckInv, CameOut, Id
<1>12. SenderInv'
  <2>1. /\ sender'.packet = sender.packet
        /\ sender'.index = sender.index
        /\ sender.at = "write" /\ sender'.at = "wait"
    BY <1>1, <1>3 DEF TypeOK, WriteFragment
  <2>2. \A p \in Packet : CameOut(p)' = CameOut(p)
    BY <1>3 DEF CameOut, Id
  <2> QED
    BY <1>3, <2>1, <2>2 DEF IInv, SenderInv
<1> QED
  BY <1>4, <1>8, <1>9, <1>10, <1>11, <1>12 DEF IInv

(* Reading a frame on the sender's side takes at most one frame off acks.  *)
LEMMA AcksShrink ==
  ASSUME IInv, acks # <<>>, acks' = Tail(acks), UNCHANGED delivered
  PROVE  acks' \in Seq(AckFrame) /\ AckInv'
<1>1. acks \in Seq(AckFrame)
  BY DEF IInv, TypeOK
<1>2. /\ acks' \in Seq(AckFrame)
      /\ Len(acks') = Len(acks) - 1
      /\ \A i \in 1 .. Len(acks') : acks'[i] = acks[i + 1]
  BY <1>1, HeadTailProperties
<1>3. AckInv'
  BY <1>1, <1>2 DEF IInv, AckInv, CameOut, Id
<1> QED
  BY <1>2, <1>3

(* A failed attempt changes nothing but the sender's state and verdict.    *)
LEMMA AttemptFailsStep ==
  ASSUME IInv, sender.at = "wait", AttemptFails
  PROVE  /\ sender' \in [at : {"idle", "write", "wait"}, packet : 0 .. NPackets,
                          index : Nat, attempt : 0 .. MaxRetries]
         /\ outcome' \in [Packet -> {"none", "success", "failed"}]
         /\ SenderPosition' = SenderPosition
         /\ UNCHANGED delivered => SenderInv'
<1>1. /\ sender \in [at : {"idle", "write", "wait"}, packet : 0 .. NPackets,
                      index : Nat, attempt : 0 .. MaxRetries]
      /\ outcome \in [Packet -> {"none", "success", "failed"}]
      /\ sender.packet \in Packet
      /\ SenderInv
  BY DEF IInv, TypeOK, SenderInv
<1>2. CASE sender.attempt < MaxRetries /\ UNCHANGED outcome
           /\ sender' = [sender EXCEPT !.at = "write", !.attempt = @ + 1]
  <2>1. /\ sender'.at = "write" /\ sender'.packet = sender.packet
        /\ sender'.index = sender.index
    BY <1>1, <1>2
  <2>2. UNCHANGED delivered => \A p \in Packet : CameOut(p)' = CameOut(p)
    BY DEF CameOut, Id
  <2>3. UNCHANGED delivered => SenderInv'
    BY <1>1, <1>2, <2>1, <2>2 DEF SenderInv
  <2>4. sender.attempt + 1 \in 0 .. MaxRetries
    BY <1>1, <1>2
  <2>5. sender' \in [at : {"idle", "write", "wait"}, packet : 0 .. NPackets,
                     index : Nat, attempt : 0 .. MaxRetries]
    BY <1>1, <1>2, <2>4
  <2> QED
    BY <1>1, <1>2, <2>1, <2>3, <2>5 DEF SenderPosition, Position
<1>3. CASE SenderReturns("failed")
  <2>1. /\ sender'.at = "idle" /\ sender'.packet = sender.packet
        /\ sender'.index = sender.index
        /\ outcome' = [outcome EXCEPT ![sender.packet] = "failed"]
    BY <1>1, <1>3 DEF SenderReturns
  <2>2. UNCHANGED delivered => \A p \in Packet : CameOut(p)' = CameOut(p)
    BY DEF CameOut, Id
  <2>3. UNCHANGED delivered => SenderInv'
    BY <1>1, <2>1, <2>2 DEF SenderInv
  <2> QED
    BY <1>1, <1>3, <2>1, <2>3 DEF SenderReturns, SenderPosition, Position
<1> QED
  BY <1>2, <1>3 DEF AttemptFails

LEMMA ReadOtherFrameStep ==
  ASSUME IInv, ReadOtherFrame
  PROVE  IInv'
<1>1. /\ UNCHANGED <<data, faults, receiver, delivered>>
      /\ acks # <<>> /\ acks' = Tail(acks)
      /\ sender.at = "wait" /\ AttemptFails
  BY DEF ReadOtherFrame
<1>2. FrameInv' /\ ReceiverInv' /\ DeliveredInv'
  BY <1>1, AttemptFailsStep, SenderMovesOn
<1>3. TypeOK'
  BY <1>1, AttemptFailsStep, AcksShrink DEF IInv, TypeOK
<1> QED
  BY <1>1, <1>2, <1>3, AttemptFailsStep, AcksShrink DEF IInv

LEMMA ReadDamagedAckStep ==
  ASSUME IInv, ReadDamagedAck
  PROVE  IInv'
<1>1. /\ UNCHANGED <<data, faults, receiver, delivered>>
      /\ acks # <<>> /\ acks' = Tail(acks)
      /\ sender.at = "wait"
      /\ UNCHANGED <<sender, outcome>> \/ AttemptFails
  BY DEF ReadDamagedAck
<1>2. CASE AttemptFails
  <2>1. FrameInv' /\ ReceiverInv' /\ DeliveredInv'
    BY <1>1, <1>2, AttemptFailsStep, SenderMovesOn
  <2>2. TypeOK'
    BY <1>1, <1>2, AttemptFailsStep, AcksShrink DEF IInv, TypeOK
  <2> QED
    BY <1>1, <1>2, <2>1, <2>2, AttemptFailsStep, AcksShrink DEF IInv
<1>3. CASE UNCHANGED <<sender, outcome>>
  <2>1. SenderPosition' = SenderPosition
    BY <1>3 DEF SenderPosition, Position
  <2>2. FrameInv' /\ ReceiverInv' /\ DeliveredInv'
    BY <1>1, <2>1, SenderMovesOn
  <2>3. TypeOK' /\ AckInv'
    BY <1>1, <1>3, AcksShrink DEF IInv, TypeOK
  <2>4. SenderInv'
    BY <1>1, <1>3 DEF IInv, SenderInv, CameOut, Id
  <2> QED
    BY <2>2, <2>3, <2>4 DEF IInv
<1> QED
  BY <1>1, <1>2, <1>3

(* The two ways to fail an attempt without taking a frame off the link.    *)
LEMMA SilentFailureStep ==
  ASSUME IInv, ReadBrokenHeader \/ AckTimeout
  PROVE  IInv'
<1>1. /\ UNCHANGED <<data, acks, faults, receiver, delivered>>
      /\ sender.at = "wait" /\ AttemptFails
  BY DEF ReadBrokenHeader, AckTimeout
<1>2. FrameInv' /\ ReceiverInv' /\ DeliveredInv'
  BY <1>1, AttemptFailsStep, SenderMovesOn
<1>3. TypeOK'
  BY <1>1, AttemptFailsStep DEF IInv, TypeOK
<1>4. AckInv'
  BY <1>1 DEF IInv, AckInv, CameOut, Id
<1> QED
  BY <1>1, <1>2, <1>3, <1>4, AttemptFailsStep DEF IInv

LEMMA SenderType ==
  ASSUME IInv, sender.at # "idle"
  PROVE  /\ sender \in [at : {"idle", "write", "wait"}, packet : 0 .. NPackets,
                         index : Nat, attempt : 0 .. MaxRetries]
         /\ outcome \in [Packet -> {"none", "success", "failed"}]
         /\ sender.packet \in Packet
         /\ sender.index <= LastIndex(sender.packet)
  BY DEF IInv, TypeOK, SenderInv

LEMMA SenderReturnsStep ==
  ASSUME IInv, sender.at # "idle", NEW verdict \in {"success", "failed"},
         SenderReturns(verdict), UNCHANGED delivered,
         verdict = "success" => CameOut(sender.packet)
  PROVE  /\ sender' \in [at : {"idle", "write", "wait"}, packet : 0 .. NPackets,
                          index : Nat, attempt : 0 .. MaxRetries]
         /\ outcome' \in [Packet -> {"none", "success", "failed"}]
         /\ SenderPosition' = SenderPosition
         /\ SenderInv'
<1>1. /\ sender'.at = "idle" /\ sender'.packet = sender.packet
      /\ sender'.index = sender.index
      /\ outcome' = [outcome EXCEPT ![sender.packet] = verdict]
  BY SenderType DEF SenderReturns
<1>2. \A p \in Packet : CameOut(p)' = CameOut(p)
  BY DEF CameOut, Id
<1>3. SenderInv'
  BY <1>1, <1>2, SenderType DEF IInv, SenderInv
<1> QED
  BY <1>1, <1>3, SenderType DEF SenderReturns, SenderPosition, Position

LEMMA WriteErrorStep ==
  ASSUME IInv, WriteError
  PROVE  IInv'
<1>1. /\ UNCHANGED <<data, acks, receiver, delivered>>
      /\ sender.at = "write" /\ SenderReturns("failed")
      /\ faults < MaxFaults /\ faults' = faults + 1
  BY DEF WriteError
<1>2. FrameInv' /\ ReceiverInv' /\ DeliveredInv'
  BY <1>1, SenderReturnsStep, SenderMovesOn
<1>3. faults' \in 0 .. MaxFaults
  BY <1>1 DEF IInv, TypeOK
<1>4. TypeOK'
  BY <1>1, <1>3, SenderReturnsStep DEF IInv, TypeOK
<1>5. AckInv'
  BY <1>1 DEF IInv, AckInv, CameOut, Id
<1> QED
  BY <1>1, <1>2, <1>4, <1>5, SenderReturnsStep DEF IInv

LEMMA ReadMatchingAckStep ==
  ASSUME IInv, ReadMatchingAck
  PROVE  IInv'
<1> USE LastIndexType
<1>1. /\ UNCHANGED <<data, faults, receiver, delivered>>
      /\ acks # <<>> /\ acks' = Tail(acks)
      /\ sender.at = "wait"
      /\ AckMatches(Head(acks))
  BY DEF ReadMatchingAck
<1>2. CASE /\ sender.index < LastIndex(sender.packet)
           /\ sender' = [sender EXCEPT !.at = "write", !.index = @ + 1,
                                        !.attempt = 0]
           /\ UNCHANGED outcome
  <2>1. /\ sender'.at = "write" /\ sender'.packet = sender.packet
        /\ sender'.index = sender.index + 1
        /\ sender' \in [at : {"idle", "write", "wait"}, packet : 0 .. NPackets,
                         index : Nat, attempt : 0 .. MaxRetries]
    <3>1. /\ sender \in [at : {"idle", "write", "wait"}, packet : 0 .. NPackets,
                          index : Nat, attempt : 0 .. MaxRetries]
          /\ sender' = [sender EXCEPT !.at = "write", !.index = sender.index + 1,
                                      !.attempt = 0]
      BY <1>1, <1>2, SenderType
    <3>2. 0 \in 0 .. MaxRetries /\ sender.index + 1 \in Nat
      BY <3>1
    <3> QED
      BY <3>1, <3>2
  <2>2. \A f : (f.seq \in Int /\ f.index \in Int /\ NotAfter(f, SenderPosition))
                 => NotAfter(f, SenderPosition')
    BY <1>1, <2>1, SenderType DEF NotAfter, SenderPosition, Position
  <2>3. FrameInv' /\ ReceiverInv' /\ DeliveredInv'
    BY <1>1, <2>2, SenderMovesOn
  <2>4. TypeOK' /\ AckInv'
    BY <1>1, <1>2, <2>1, AcksShrink DEF IInv, TypeOK
  <2>5. \A p \in Packet : CameOut(p)' = CameOut(p)
    BY <1>1 DEF CameOut, Id
  <2>6. sender'.index <= LastIndex(sender'.packet)
    BY <1>1, <1>2, <2>1, SenderType
  <2>7. SenderInv'
    BY <1>1, <1>2, <2>1, <2>5, <2>6, SenderType DEF IInv, SenderInv
  <2> QED
    BY <2>3, <2>4, <2>7 DEF IInv
<1>3. CASE /\ sender.index = LastIndex(sender.packet)
           /\ SenderReturns("success")
  (* The matching acknowledgement is that of the last fragment.            *)
  <2>1. CameOut(sender.packet)
    <3>1. 1 \in 1 .. Len(acks) /\ Head(acks) = acks[1]
      BY <1>1, HeadTailProperties DEF IInv, TypeOK
    <3>2. /\ acks[1].ack /\ acks[1].seq = sender.packet
          /\ acks[1].index = LastIndex(sender.packet)
      BY <1>1, <1>3, <3>1 DEF AckMatches
    <3> QED
      BY <3>1, <3>2 DEF IInv, AckInv
  <2>2. FrameInv' /\ ReceiverInv' /\ DeliveredInv'
    BY <1>1, <1>3, <2>1, SenderReturnsStep, SenderMovesOn
  <2>3. TypeOK' /\ AckInv'
    BY <1>1, <1>3, <2>1, SenderReturnsStep, AcksShrink DEF IInv, TypeOK
  <2> QED
    BY <1>1, <1>3, <2>1, <2>2, <2>3, SenderReturnsStep DEF IInv
<1> QED
  BY <1>2, <1>3 DEF ReadMatchingAck

-----------------------------------------------------------------------------
(* The receiver's steps.                                                   *)

(* Taking a frame off the link keeps the others in order behind it.        *)
LEMMA DataShrinks ==
  ASSUME IInv, data # <<>>, data' = Tail(data), UNCHANGED sender
  PROVE  /\ data' \in Seq(DataFrame)
         /\ \A i \in 1 .. Len(data') : i + 1 \in 1 .. Len(data) /\ data'[i] = data[i + 1]
         /\ 1 \in 1 .. Len(data) /\ Head(data) = data[1]
         /\ \A i \in 1 .. Len(data') : NotAfter(Head(data), data'[i])
         /\ FrameInv'
<1>1. data \in Seq(DataFrame)
  BY DEF IInv, TypeOK
<1>2. /\ data' \in Seq(DataFrame)
      /\ Len(data') = Len(data) - 1 /\ Len(data) \in Nat
      /\ \A i \in 1 .. Len(data') : data'[i] = data[i + 1]
      /\ 1 \in 1 .. Len(data) /\ Head(data) = data[1]
  BY <1>1, HeadTailProperties
<1>3. \A i \in 1 .. Len(data') : i + 1 \in 1 .. Len(data) /\ data'[i] = data[i + 1]
  BY <1>2
<1>4. \A i \in 1 .. Len(data') : NotAfter(Head(data), data'[i])
  BY <1>2, <1>3 DEF IInv, FrameInv
<1>5. FrameInv'
  <2> SUFFICES ASSUME NEW i \in 1 .. Len(data')
               PROVE  /\ data'[i].index <= LastIndex(data'[i].seq)
                      /\ NotAfter(data'[i], SenderPosition)
                      /\ \A j \in i .. Len(data') : NotAfter(data'[i], data'[j])
    BY DEF FrameInv, SenderPosition
  <2>1. i + 1 \in 1 .. Len(data) /\ data'[i] = data[i + 1]
    BY <1>3
  <2>2. \A j \in i .. Len(data') : j \in 1 .. Len(data') /\ j + 1 \in i + 1 .. Len(data)
    BY <1>2
  <2> QED
    BY <1>3, <2>1, <2>2 DEF IInv, FrameInv
<1> QED
  BY <1>2, <1>3, <1>4, <1>5

(* Giving up the packet being assembled.                                   *)
LEMMA GiveUpStep ==
  ASSUME IInv, receiver' = Idle, UNCHANGED <<sender, delivered>>,
         \A i \in 1 .. Len(data') : \E j \in 1 .. Len(data) : data'[i] = data[j]
  PROVE  ReceiverInv' /\ DeliveredInv'
  BY DEF IInv, ReceiverInv, DeliveredInv, Idle, SenderPosition, Id

(* An acknowledgement joins acks; that of a last fragment only with the    *)
(* delivery of its packet.                                                 *)
LEMMA SendAckStep ==
  ASSUME IInv, NEW f \in DataFrame, NEW ok \in BOOLEAN, SendAck(f, ok),
         \A p \in Packet : CameOut(p) => CameOut(p)',
         (ok /\ f.index = LastIndex(f.seq)) => CameOut(f.seq)'
  PROVE  /\ faults' \in 0 .. MaxFaults
         /\ acks' \in Seq(AckFrame)
         /\ AckInv'
<1> DEFINE written(d) == [seq |-> f.seq, index |-> f.index, ack |-> ok,
                          damage |-> d]
<1>1. /\ faults' \in 0 .. MaxFaults
      /\ acks' = acks \/ \E d \in Damage : acks' = Append(acks, written(d))
  BY AckOutcome DEF IInv
<1>2. acks \in Seq(AckFrame)
  BY DEF IInv, TypeOK
<1>3. \A d \in Damage : written(d) \in AckFrame
  BY DEF AckFrame, DataFrame
<1>4. CASE acks' = acks
  <2>1. \A i \in 1 .. Len(acks) : acks[i].seq \in Packet
    BY PositionType DEF IInv
  <2> QED
    BY <1>1, <1>2, <1>4, <2>1 DEF IInv, AckInv
<1>5. ASSUME NEW d \in Damage, acks' = Append(acks, written(d))
      PROVE  acks' \in Seq(AckFrame) /\ AckInv'
  <2>1. /\ acks' \in Seq(AckFrame)
        /\ Len(acks') = Len(acks) + 1
        /\ \A i \in 1 .. Len(acks) : acks'[i] = acks[i]
        /\ acks'[Len(acks) + 1] = written(d)
    <3> HIDE DEF written
    <3> QED
      BY <1>2, <1>3, <1>5, AppendProperties
  <2>2. \A i \in 1 .. Len(acks) : acks[i].seq \in Packet
    BY PositionType DEF IInv
  <2>3. ASSUME NEW i \in 1 .. Len(acks'), acks'[i].ack,
               acks'[i].index = LastIndex(acks'[i].seq)
        PROVE  \E p \in Packet : p = acks'[i].seq /\ CameOut(p)'
    <3>1. CASE i \in 1 .. Len(acks)
      <4>1. PICK p \in Packet : p = acks[i].seq
        BY <2>2, <3>1
      <4>2. acks'[i] = acks[i] /\ CameOut(p)
        BY <2>1, <2>3, <3>1, <4>1 DEF IInv, AckInv
      <4> QED
        BY <4>1, <4>2
    <3>2. CASE i = Len(acks) + 1
      <4>1. f.seq \in Packet
        BY DEF DataFrame
      <4>2. acks'[i].seq = f.seq /\ acks'[i].index = f.index /\ acks'[i].ack = ok
        BY <2>1, <3>2
      <4> QED
        BY <2>3, <4>1, <4>2
    <3> QED
      BY <1>2, <2>1, <3>1, <3>2
  <2>4. AckInv'
    BY <2>3 DEF AckInv, CameOut, Id
  <2> QED
    BY <2>1, <2>4
<1> QED
  BY <1>1, <1>4, <1>5

(* What a delivery adds to delivered.                                      *)
LEMMA DeliveryStep ==
  ASSUME IInv, NEW p \in Packet, delivered' = Append(delivered, Whole(p))
  PROVE  /\ delivered' \in Seq(UNION {[0 .. LastIndex(q) -> 0 .. NPackets] : q \in Packet})
         /\ Len(delivered) \in Nat /\ Len(delivered') = Len(delivered) + 1
         /\ \A i \in 1 .. Len(delivered) : delivered'[i] = delivered[i] /\ Id(i)' = Id(i)
         /\ delivered'[Len(delivered')] = Whole(p)
         /\ \A i \in 1 .. Len(delivered') : i > Len(delivered) => Id(i)' = p
         /\ \A q \in Packet : CameOut(q) => CameOut(q)'
         /\ CameOut(p)'
<1> DEFINE Contents == UNION {[0 .. LastIndex(q) -> 0 .. NPackets] : q \in Packet}
<1>1. delivered \in Seq(Contents)
  BY DEF IInv, TypeOK
<1>2. Whole(p) \in Contents
  <2>1. Whole(p) \in [0 .. LastIndex(p) -> 0 .. NPackets]
    BY DEF Whole
  <2> QED
    BY <2>1
<1>3. Whole(p)[0] = p
  BY LastIndexType DEF Whole
<1> HIDE DEF Contents
<1>4. /\ delivered' \in Seq(Contents)
      /\ Len(delivered) \in Nat /\ Len(delivered') = Len(delivered) + 1
      /\ \A i \in 1 .. Len(delivered) : delivered'[i] = delivered[i]
      /\ delivered'[Len(delivered) + 1] = Whole(p)
  BY <1>1, <1>2, AppendProperties
<1>5. \A i \in 1 .. Len(delivered) : Id(i)' = Id(i)
  BY <1>4 DEF Id
<1>6. \A i \in 1 .. Len(delivered') : i > Len(delivered) => Id(i)' = p
  BY <1>3, <1>4 DEF Id
<1>7. \A q \in Packet : CameOut(q) => CameOut(q)'
  BY <1>4, <1>5 DEF CameOut
<1>8. CameOut(p)'
  BY <1>4, <1>6 DEF CameOut
<1> QED
  BY <1>4, <1>5, <1>6, <1>7, <1>8 DEF Contents

(* A frame the receiver takes off the link.                                *)
LEMMA HeadType ==
  ASSUME IInv, data # <<>>
  PROVE  /\ Head(data) \in DataFrame
         /\ Head(data).seq \in Packet /\ Head(data).index \in Nat
         /\ 1 \in 1 .. Len(data) /\ Head(data) = data[1]
         /\ Head(data).index <= LastIndex(Head(data).seq)
         /\ NotAfter(Head(data), SenderPosition)
<1>1. data \in Seq(DataFrame)
  BY DEF IInv, TypeOK
<1>2. 1 \in 1 .. Len(data) /\ Head(data) = data[1]
  BY <1>1, HeadTailProperties
<1>3. data[1] \in DataFrame /\ data[1].seq \in Packet /\ data[1].index \in Nat
  BY <1>2, PositionType DEF IInv
<1> QED
  BY <1>2, <1>3 DEF IInv, FrameInv

(* What the receiver's steps leave of the sender's invariant.              *)
LEMMA SenderUnchanged ==
  ASSUME IInv, UNCHANGED <<sender, outcome>>,
         \A p \in Packet : CameOut(p) => CameOut(p)'
  PROVE  SenderInv'
  BY DEF IInv, SenderInv

LEMMA SameCameOut ==
  ASSUME UNCHANGED delivered
  PROVE  \A p \in Packet : CameOut(p) => CameOut(p)'
  BY DEF CameOut, Id

(* The fragment is copied and others are still expected.                   *)
LEMMA ContinueStep ==
  ASSUME IInv, UNCHANGED <<sender, delivered>>,
         data # <<>>, data' = Tail(data),
         NEW p \in Packet, NEW k \in Nat, NEW buffer,
         k < LastIndex(p),
         buffer = Held(p, k),
         Head(data).seq = p, Head(data).index = k,
         \A i \in 1 .. Len(delivered) : Id(i) < p,
         receiver' = [packet |-> p, expected |-> k + 1,
                      buffer |-> Copy(buffer, Head(data))]
  PROVE  ReceiverInv' /\ DeliveredInv'
<1> USE LastIndexType
<1> DEFINE newest == Position(p, k)
<1>1. /\ receiver'.packet = p /\ p # 0
      /\ receiver'.expected = k + 1
      /\ k + 1 \in 1 .. LastIndex(p)
      /\ k + 1 - 1 = k
  OBVIOUS
<1>2. receiver'.buffer = Held(p, k + 1)
  <2>1. receiver'.buffer = [buffer EXCEPT ![k] = p]
    BY DEF Copy
  <2>2. \A i \in 0 .. LastIndex(p) : i < k + 1 <=> (i < k \/ i = k)
    OBVIOUS
  <2> QED
    BY <2>1, <2>2 DEF Held
<1>3. \A g : NotAfter(Head(data), g) => NotAfter(newest, g)
  BY DEF NotAfter, Position
<1>4. NotAfter(newest, SenderPosition) /\ SenderPosition' = SenderPosition
  BY <1>3, HeadType DEF SenderPosition
<1>5. \A i \in 1 .. Len(data') : NotAfter(newest, data'[i])
  BY <1>3, DataShrinks
<1>6. ReceiverInv'
  BY <1>1, <1>2, <1>4, <1>5 DEF ReceiverInv
<1>7. DeliveredInv'
  BY <1>1, <1>4, DataShrinks DEF IInv, DeliveredInv, Id
<1> QED
  BY <1>6, <1>7

(* The fragment is the last one expected, and the packet is delivered.     *)
LEMMA DeliverStep ==
  ASSUME IInv, UNCHANGED sender,
         data # <<>>, data' = Tail(data),
         NEW p \in Packet,
         Head(data).seq = p, Head(data).index = LastIndex(p),
         \A i \in 1 .. Len(delivered) :
           Id(i) <= p /\ (Id(i) = p => LastIndex(p) = 0),
         receiver' = Idle, delivered' = Append(delivered, Whole(p))
  PROVE  ReceiverInv' /\ DeliveredInv'
<1> USE LastIndexType
<1>1. ReceiverInv'
  BY DEF ReceiverInv, Idle
<1>2. SenderPosition' = SenderPosition
  BY DEF SenderPosition
<1>3. receiver'.packet = 0
  BY DEF Idle
<1>4. /\ Len(delivered) \in Nat /\ Len(delivered') = Len(delivered) + 1
      /\ \A i \in 1 .. Len(delivered) : delivered'[i] = delivered[i] /\ Id(i)' = Id(i)
      /\ delivered'[Len(delivered')] = Whole(p)
      /\ \A i \in 1 .. Len(delivered') : i > Len(delivered) => Id(i)' = p
  BY DeliveryStep
<1> DEFINE newest(q) == Position(q, LastIndex(q))
<1>5. \A g : NotAfter(Head(data), g) => NotAfter(newest(p), g)
  BY DEF NotAfter, Position
<1>6. /\ NotAfter(newest(p), SenderPosition)
      /\ \A j \in 1 .. Len(data') : NotAfter(newest(p), data'[j])
  BY <1>5, HeadType, DataShrinks
<1>7. \A i \in 1 .. Len(delivered) :
        /\ Id(i) \in Packet
        /\ delivered[i] = Whole(Id(i))
        /\ NotAfter(newest(Id(i)), SenderPosition)
        /\ \A j \in 1 .. Len(data') : NotAfter(newest(Id(i)), data'[j])
        /\ \A j \in 1 .. Len(delivered) :
             /\ i < j => Id(i) <= Id(j)
             /\ (i # j /\ Id(i) = Id(j)) => LastIndex(Id(i)) = 0
  BY DataShrinks DEF IInv, DeliveredInv
<1> HIDE DEF newest
<1>8. ASSUME NEW i \in 1 .. Len(delivered')
      PROVE  \E q \in Packet :
               /\ q = Id(i)'
               /\ delivered'[i] = Whole(q)
               /\ NotAfter(newest(q), SenderPosition)
               /\ \A j \in 1 .. Len(data') : NotAfter(newest(q), data'[j])
  <2>1. CASE i \in 1 .. Len(delivered)
    BY <1>4, <1>7, <2>1
  <2>2. CASE i = Len(delivered')
    BY <1>4, <1>6, <2>2
  <2> QED
    BY <1>4, <2>1, <2>2
<1>9. ASSUME NEW i \in 1 .. Len(delivered'), NEW j \in 1 .. Len(delivered')
      PROVE  /\ i < j => Id(i)' <= Id(j)'
             /\ (i # j /\ Id(i)' = Id(j)') => LastIndex(Id(i)') = 0
  <2>1. PICK a, b : a = Id(i)' /\ b = Id(j)'
    OBVIOUS
  <2>2. /\ i \in 1 .. Len(delivered) \/ i = Len(delivered) + 1
        /\ j \in 1 .. Len(delivered) \/ j = Len(delivered) + 1
        /\ i \in 1 .. Len(delivered) => a = Id(i)
        /\ i = Len(delivered) + 1 => a = p
        /\ j \in 1 .. Len(delivered) => b = Id(j)
        /\ j = Len(delivered) + 1 => b = p
    BY <1>4, <2>1
  <2>3. i < j => a <= b
    BY <1>4, <1>7, <2>2
  <2>4. (i # j /\ a = b) => LastIndex(a) = 0
    BY <1>4, <1>7, <2>2
  <2> QED
    BY <2>1, <2>3, <2>4
<1>10. DeliveredInv'
  <2> SUFFICES ASSUME NEW i \in 1 .. Len(delivered')
               PROVE  /\ Id(i)' \in Packet
                      /\ delivered'[i] = Whole(Id(i)')
                      /\ NotAfter(Position(Id(i)', LastIndex(Id(i)')), SenderPosition')
                      /\ \A j \in 1 .. Len(data') :
                           NotAfter(Position(Id(i)', LastIndex(Id(i)')), data'[j])
    BY <1>3, <1>9 DEF DeliveredInv
  <2>1. PICK q \in Packet :
          /\ q = Id(i)'
          /\ delivered'[i] = Whole(q)
          /\ NotAfter(newest(q), SenderPosition)
          /\ \A j \in 1 .. Len(data') : NotAfter(newest(q), data'[j])
    BY <1>8
  <2>2. newest(q) = Position(q, LastIndex(q))
    BY DEF newest
  <2> QED
    BY <1>2, <2>1, <2>2
<1> QED
  BY <1>1, <1>10

(* The last fragment completes the packet buffer.                          *)
LEMMA LastCopied ==
  ASSUME NEW p \in Packet, NEW f \in DataFrame,
         f.seq = p, f.index = LastIndex(p)
  PROVE  Copy(Held(p, LastIndex(p)), f) = Whole(p)
<1> DEFINE last == LastIndex(p)
           held == Held(p, last)
           full == [held EXCEPT ![last] = p]
<1>1. last \in Nat /\ p \in Int
  BY LastIndexType
<1> HIDE DEF last
<1>2. held = [i \in 0 .. last |-> IF i < last THEN p ELSE 0]
  BY DEF Held, last
<1> HIDE DEF held
<1>3. full = [i \in 0 .. last |-> IF i = last THEN p ELSE held[i]]
  BY <1>2
<1>4. \A i \in 0 .. last : i # last => held[i] = p
  BY <1>1, <1>2
<1>5. full = [i \in 0 .. last |-> p]
  BY <1>3, <1>4
<1> QED
  BY <1>5 DEF held, last, Copy, Whole

(* A fragment that is accepted: copied and acknowledged, and the packet is *)
(* delivered with the last one.                                            *)
LEMMA AcceptStep ==
  ASSUME IInv, UNCHANGED <<sender, outcome>>,
         data # <<>>, data' = Tail(data),
         NEW p \in Packet, NEW buffer,
         receiver.expected <= LastIndex(p),
         buffer = Held(p, receiver.expected),
         Head(data).seq = p, Head(data).index = receiver.expected,
         \A i \in 1 .. Len(delivered) :
           Id(i) <= p /\ (Id(i) = p => LastIndex(p) = 0),
         AcceptFragment(Head(data), p, buffer)
  PROVE  IInv'
<1> USE LastIndexType
<1> DEFINE k == receiver.expected
<1>1. k \in Nat /\ Head(data) \in DataFrame /\ data' \in Seq(DataFrame) /\ FrameInv'
  BY HeadType, DataShrinks DEF IInv, TypeOK
<1>2. SendAck(Head(data), TRUE)
  BY DEF AcceptFragment
<1>3. CASE /\ k < LastIndex(p)
           /\ receiver' = [packet |-> p, expected |-> k + 1,
                           buffer |-> Copy(buffer, Head(data))]
           /\ UNCHANGED delivered
  <2>1. \A i \in 1 .. Len(delivered) : Id(i) < p
    <3>1. \A i \in 1 .. Len(delivered) : Id(i) \in Packet /\ Id(i) # p
      BY <1>1, <1>3 DEF IInv, DeliveredInv
    <3> QED
      BY <3>1
  <2>2. ReceiverInv' /\ DeliveredInv'
    BY <1>1, <1>3, <2>1, ContinueStep
  <2>3. /\ faults' \in 0 .. MaxFaults
        /\ acks' \in Seq(AckFrame)
        /\ AckInv'
    <3>1. Head(data).index # LastIndex(Head(data).seq)
      BY <1>1, <1>3
    <3> QED
      BY <1>1, <1>2, <1>3, <3>1, SameCameOut, SendAckStep
  <2>4. receiver'.packet \in 0 .. NPackets /\ receiver'.expected \in Nat
    BY <1>1, <1>3
  <2>5. SenderInv'
    BY <1>3, SameCameOut, SenderUnchanged
  <2>6. TypeOK'
    BY <1>1, <1>3, <2>3, <2>4 DEF IInv, TypeOK
  <2> QED
    BY <1>1, <2>2, <2>3, <2>5, <2>6 DEF IInv
<1>4. CASE /\ k = LastIndex(p)
           /\ receiver' = Idle
           /\ delivered' = Append(delivered, Copy(buffer, Head(data)))
  <2>1. Copy(buffer, Head(data)) = Whole(p)
    <3>1. PICK f \in DataFrame : f = Head(data)
      BY <1>1
    <3> QED
      BY <1>1, <1>4, <3>1, LastCopied
  <2>2. ReceiverInv' /\ DeliveredInv'
    BY <1>4, <2>1, DeliverStep
  <2>3. /\ delivered' \in Seq(UNION {[0 .. LastIndex(q) -> 0 .. NPackets] : q \in Packet})
        /\ \A q \in Packet : CameOut(q) => CameOut(q)'
        /\ CameOut(p)'
    BY <1>4, <2>1, DeliveryStep
  <2>4. /\ faults' \in 0 .. MaxFaults
        /\ acks' \in Seq(AckFrame)
        /\ AckInv'
    <3>1. PICK f \in DataFrame : f = Head(data)
      BY <1>1
    <3>2. SendAck(f, TRUE) /\ f.seq = p
      BY <1>2, <3>1
    <3> QED
      BY <2>3, <3>2, SendAckStep
  <2>5. SenderInv'
    BY <2>3, SenderUnchanged
  <2>6. receiver'.packet \in 0 .. NPackets /\ receiver'.expected \in Nat
    BY <1>4 DEF Idle
  <2>7. TypeOK'
    BY <1>1, <2>3, <2>4, <2>6 DEF IInv, TypeOK
  <2> QED
    BY <1>1, <2>2, <2>4, <2>5, <2>7 DEF IInv
<1> QED
  BY <1>3, <1>4 DEF AcceptFragment

(* A packet given up while the link loses a frame or stays as it is.       *)
LEMMA ForgetStep ==
  ASSUME IInv, UNCHANGED <<sender, outcome, delivered>>,
         \/ data # <<>> /\ data' = Tail(data)
         \/ UNCHANGED data,
         receiver' \in {receiver, Idle},
         faults' \in 0 .. MaxFaults, acks' \in Seq(AckFrame), AckInv'
  PROVE  IInv'
<1>1. /\ data' \in Seq(DataFrame)
      /\ FrameInv'
      /\ \A i \in 1 .. Len(data') : \E j \in 1 .. Len(data) : data'[i] = data[j]
  <2>1. CASE data # <<>> /\ data' = Tail(data)
    BY <2>1, DataShrinks
  <2>2. CASE UNCHANGED data
    BY <2>2 DEF IInv, TypeOK, FrameInv, SenderPosition
  <2> QED
    BY <2>1, <2>2
<1>2. ReceiverInv' /\ DeliveredInv'
  <2>1. CASE receiver' = Idle
    BY <1>1, <2>1, GiveUpStep
  <2>2. CASE receiver' = receiver
    BY <1>1, <2>2 DEF IInv, ReceiverInv, DeliveredInv, SenderPosition, Id
  <2> QED
    BY <2>1, <2>2
<1>3. SenderInv'
  BY SameCameOut, SenderUnchanged
<1>4. TypeOK'
  BY <1>1 DEF IInv, TypeOK, Idle
<1> QED
  BY <1>1, <1>2, <1>3, <1>4 DEF IInv

LEMMA SameAcks ==
  ASSUME IInv, UNCHANGED <<acks, delivered>>
  PROVE  acks' \in Seq(AckFrame) /\ AckInv'
  BY DEF IInv, TypeOK, AckInv, CameOut, Id

LEMMA AckWriteErrorStep ==
  ASSUME IInv, UNCHANGED <<sender, outcome>>,
         data # <<>>, data' = Tail(data), AckWriteError
  PROVE  IInv'
<1>1. /\ receiver' = Idle /\ UNCHANGED <<acks, delivered>>
      /\ faults < MaxFaults /\ faults' = faults + 1
  BY DEF AckWriteError
<1>2. faults' \in 0 .. MaxFaults
  BY <1>1 DEF IInv, TypeOK
<1> QED
  BY <1>1, <1>2, SameAcks, ForgetStep

LEMMA ReceiveFirstStep ==
  ASSUME IInv, ReceiveFirst
  PROVE  IInv'
<1> USE LastIndexType
<1>1. /\ receiver.packet = 0
      /\ data # <<>> /\ data' = Tail(data)
      /\ Head(data).index = 0
      /\ UNCHANGED <<sender, outcome>>
  BY DEF ReceiveFirst, Assembling
<1>2. CASE AckWriteError
  BY <1>1, <1>2, AckWriteErrorStep
<1>3. CASE AcceptFragment(Head(data), Head(data).seq, Blank(Head(data).seq))
  <2>1. PICK p \in Packet : p = Head(data).seq
    BY <1>1, HeadType
  <2>2. receiver.expected = 0
    BY <1>1 DEF IInv, ReceiverInv, Idle
  <2>3. Blank(p) = Held(p, receiver.expected)
    <3>1. \A i \in 0 .. LastIndex(p) : ~(i < 0)
      OBVIOUS
    <3> QED
      BY <2>2, <3>1 DEF Blank, Held
  (* A packet delivered before is not newer, and if it is the same one, its*)
  (* only fragment is the first.                                           *)
  <2>4. \A i \in 1 .. Len(delivered) : Id(i) <= p /\ (Id(i) = p => LastIndex(p) = 0)
    <3> SUFFICES ASSUME NEW i \in 1 .. Len(delivered)
                 PROVE  Id(i) <= p /\ (Id(i) = p => LastIndex(p) = 0)
      OBVIOUS
    <3>1. Id(i) \in Packet /\ NotAfter(Position(Id(i), LastIndex(Id(i))), Head(data))
      BY <1>1, HeadType DEF IInv, DeliveredInv
    <3> QED
      BY <1>1, <2>1, <3>1 DEF NotAfter, Position
  <2>5. AcceptFragment(Head(data), p, Blank(p))
    BY <1>3, <2>1
  <2>6. receiver.expected <= LastIndex(p)
    BY <2>2
  <2> QED
    BY <1>1, <2>1, <2>2, <2>3, <2>4, <2>5, <2>6, AcceptStep
<1> QED
  BY <1>2, <1>3 DEF ReceiveFirst

LEMMA ReceiveNextStep ==
  ASSUME IInv, ReceiveNext
  PROVE  IInv'
<1> USE LastIndexType
<1>1. /\ receiver.packet # 0
      /\ data # <<>> /\ data' = Tail(data)
      /\ Head(data).seq = receiver.packet /\ Head(data).index = receiver.expected
      /\ UNCHANGED <<sender, outcome>>
  BY DEF ReceiveNext, Assembling, FragmentExpected
<1>2. CASE AckWriteError
  BY <1>1, <1>2, AckWriteErrorStep
<1>3. CASE AcceptFragment(Head(data), receiver.packet, receiver.buffer)
  <2>1. PICK p \in Packet : p = receiver.packet
    BY <1>1 DEF IInv, TypeOK
  <2>2. /\ receiver.expected <= LastIndex(p)
        /\ receiver.buffer = Held(p, receiver.expected)
    BY <1>1, <2>1 DEF IInv, ReceiverInv
  <2>3. \A i \in 1 .. Len(delivered) : Id(i) <= p /\ (Id(i) = p => LastIndex(p) = 0)
    BY <1>1, <2>1 DEF IInv, DeliveredInv
  <2> QED
    BY <1>1, <1>3, <2>1, <2>2, <2>3, AcceptStep
<1> QED
  BY <1>2, <1>3 DEF ReceiveNext

LEMMA RejectNextStep ==
  ASSUME IInv, RejectNext
  PROVE  IInv'
<1>1. /\ data # <<>> /\ data' = Tail(data)
      /\ SendAck(Head(data), FALSE)
      /\ receiver' = Idle
      /\ UNCHANGED <<sender, outcome, delivered>>
  BY DEF RejectNext
<1>2. PICK f \in DataFrame : f = Head(data)
  BY <1>1, HeadType
<1>3. SendAck(f, FALSE)
  BY <1>1, <1>2
<1>4. faults' \in 0 .. MaxFaults /\ acks' \in Seq(AckFrame) /\ AckInv'
  BY <1>1, <1>3, SameCameOut, SendAckStep
<1> QED
  BY <1>1, <1>4, ForgetStep

(* The receiver's steps that answer nothing.                               *)
LEMMA SilentReceiverStep ==
  ASSUME IInv, RejectFirst \/ DropDamagedData \/ FragmentTimeout
  PROVE  IInv'
<1>1. /\ UNCHANGED <<acks, faults, sender, outcome, delivered>>
      /\ \/ data # <<>> /\ data' = Tail(data)
         \/ UNCHANGED data
      /\ receiver' \in {receiver, Idle}
  BY DEF RejectFirst, DropDamagedData, FragmentTimeout
<1>2. faults' \in 0 .. MaxFaults
  BY <1>1 DEF IInv, TypeOK
<1> QED
  BY <1>1, <1>2, SameAcks, ForgetStep

-----------------------------------------------------------------------------
LEMMA NextIInv ==
  ASSUME IInv, [Next]_vars
  PROVE  IInv'
<1>1. CASE SubmitPacket
  BY <1>1, SubmitPacketStep
<1>2. CASE SenderStep
  BY <1>2, WriteFragmentStep, WriteErrorStep, ReadMatchingAckStep,
     ReadOtherFrameStep, ReadDamagedAckStep, SilentFailureStep DEF SenderStep
<1>3. CASE ReceiverStep
  BY <1>3, ReceiveFirstStep, ReceiveNextStep, RejectNextStep,
     SilentReceiverStep DEF ReceiverStep
<1>4. CASE UNCHANGED vars
  <2>1. UNCHANGED data /\ receiver' \in {receiver, Idle} /\ UNCHANGED faults
        /\ UNCHANGED <<sender, outcome, delivered, acks>>
    BY <1>4 DEF vars
  <2>2. faults' \in 0 .. MaxFaults
    BY <2>1 DEF IInv, TypeOK
  <2> QED
    BY <2>1, <2>2, SameAcks, ForgetStep
<1> QED
  BY <1>1, <1>2, <1>3, <1>4 DEF Next

(* The inductive invariant holds in every reachable state of the link.     *)
THEOREM Invariance == Spec => []IInv
<1>1. Init => IInv
  BY InitIInv
<1>2. IInv /\ [Next]_vars => IInv'
  BY NextIInv
<1> QED
  BY <1>1, <1>2, PTL DEF Spec

(* The state of both ends and the frames on the link keep their types.     *)
THEOREM TypeCorrect == Spec => []TypeOK
<1>1. IInv => TypeOK
  BY DEF IInv
<1> QED
  BY <1>1, Invariance, PTL

(* Every packet receivePacket returns is one packet of the sender, whole.  *)
THEOREM WholePackets == Spec => []DeliveredWhole
<1>1. IInv => DeliveredWhole
  BY DEF IInv, DeliveredInv, DeliveredWhole
<1> QED
  BY <1>1, Invariance, PTL

(* A packet sendPacket reports as sent has been received whole.            *)
THEOREM SentPacketsArrive == Spec => []SuccessMeansDelivered
<1>1. IInv => SuccessMeansDelivered
  <2> SUFFICES ASSUME IInv, NEW p \in Packet, outcome[p] = "success"
               PROVE  \E i \in 1 .. Len(delivered) : delivered[i] = Whole(p)
    BY DEF SuccessMeansDelivered
  <2>1. PICK i \in 1 .. Len(delivered) : Id(i) = p
    BY DEF IInv, SenderInv, CameOut
  <2> QED
    BY <2>1 DEF IInv, DeliveredInv
<1> QED
  BY <1>1, Invariance, PTL

(* A packet of several fragments is returned at most once.                 *)
THEOREM FragmentedPacketsOnce == Spec => []FragmentedAtMostOnce
<1>1. IInv => FragmentedAtMostOnce
  <2> SUFFICES ASSUME IInv, NEW i \in 1 .. Len(delivered),
                      NEW j \in 1 .. Len(delivered),
                      i # j, delivered[i] = delivered[j]
               PROVE  DOMAIN delivered[i] = {0}
    BY DEF FragmentedAtMostOnce
  <2>1. Id(i) = Id(j)
    BY DEF Id
  <2>2. /\ delivered[i] = Whole(Id(i))
        /\ LastIndex(Id(i)) = 0
    BY <2>1 DEF IInv, DeliveredInv
  <2> QED
    BY <2>2 DEF Whole
<1> QED
  BY <1>1, Invariance, PTL

-----------------------------------------------------------------------------
(* The link implements PacketService.                                      *)

Came == [i \in 1 .. Len(delivered) |-> delivered[i][0]]

(* What a new packet does to the packets that came out.                    *)
LEMMA CameGrows ==
  ASSUME TypeOK, NEW p \in Packet, NEW content,
         content[0] = p, delivered' = Append(delivered, content)
  PROVE  /\ Len(delivered) \in Nat
         /\ Len(delivered') = Len(delivered) + 1
         /\ delivered'[Len(delivered) + 1] = content
         /\ Came' = Append(Came, p)
<1> DEFINE S == UNION {[0 .. LastIndex(q) -> 0 .. NPackets] : q \in Packet}
           T == S \cup {content}
<1> PICK n : n = Len(delivered)
  OBVIOUS
<1>1. delivered \in Seq(S)
  BY DEF TypeOK
<1> HIDE DEF S
<1>2. delivered \in Seq(T) /\ content \in T
  BY <1>1
<1> HIDE DEF T
<1>3. /\ n \in Nat
      /\ Len(delivered') = n + 1
      /\ \A i \in 1 .. n : delivered'[i] = delivered[i]
      /\ delivered'[n + 1] = content
  BY <1>2, AppendProperties
<1>4. Came = [i \in 1 .. n |-> delivered[i][0]]
  BY DEF Came
<1>5. Came' = [i \in 1 .. n + 1 |-> delivered'[i][0]]
  BY <1>3 DEF Came
<1> DEFINE U == {delivered[i][0] : i \in 1 .. n} \cup {p}
<1>6. Came \in Seq(U) /\ Len(Came) = n
  <2>1. \A i \in 1 .. n : delivered[i][0] \in U
    OBVIOUS
  <2> HIDE DEF U
  <2>2. Came \in [1 .. n -> U]
    BY <1>4, <2>1
  <2> QED
    BY <1>3, <2>2
<1>7. p \in U
  OBVIOUS
<1> HIDE DEF U
<1>8. /\ Append(Came, p) \in Seq(U)
      /\ Len(Append(Came, p)) = n + 1
      /\ \A i \in 1 .. n : Append(Came, p)[i] = Came[i]
      /\ Append(Came, p)[n + 1] = p
  BY <1>6, <1>7, AppendProperties
<1>9. Append(Came, p) = [i \in 1 .. n + 1 |-> Append(Came, p)[i]]
  <2>1. Append(Came, p) \in [1 .. n + 1 -> U]
    BY <1>8, LenProperties
  <2> QED
    BY <2>1
<1>10. \A i \in 1 .. n + 1 : Append(Came, p)[i] = delivered'[i][0]
  <2> SUFFICES ASSUME NEW i \in 1 .. n + 1
               PROVE  Append(Came, p)[i] = delivered'[i][0]
    OBVIOUS
  <2>1. CASE i = n + 1
    BY <1>3, <1>8, <2>1
  <2>2. CASE i \in 1 .. n
    <3>1. Came[i] = delivered[i][0]
      BY <1>4, <2>2
    <3>2. Append(Came, p)[i] = Came[i]
      BY <1>8, <2>2
    <3>3. delivered'[i] = delivered[i]
      BY <1>3, <2>2
    <3> QED
      BY <3>1, <3>2, <3>3
  <2>3. i = n + 1 \/ i \in 1 .. n
    BY <1>3
  <2> QED
    BY <2>1, <2>2, <2>3
<1>11. Came' = Append(Came, p)
  BY <1>5, <1>9, <1>10
<1> QED
  BY <1>3, <1>11

LEMMA CameLength ==
  ASSUME TypeOK
  PROVE  /\ Len(Came) = Len(delivered)
         /\ \A i \in 1 .. Len(delivered) : Came[i] = Id(i)
<1>1. Len(delivered) \in Nat
  BY DEF TypeOK
<1> QED
  BY <1>1 DEF Came, Id

(* A packet that is delivered comes out of the service.                    *)
LEMMA DeliveryComesOut ==
  ASSUME IInv, IInv', UNCHANGED <<sender, outcome>>,
         NEW content, delivered' = Append(delivered, content)
  PROVE  \E p \in Packet : Service!ComeOut(p)
<1> PICK n : n = Len(delivered)
  OBVIOUS
<1>1. n \in Nat /\ Len(delivered') = n + 1 /\ delivered'[n + 1] = content
  <2> DEFINE S == UNION {[0 .. LastIndex(q) -> 0 .. NPackets] : q \in Packet}
             T == S \cup {content}
  <2>1. delivered \in Seq(S)
    BY DEF IInv, TypeOK
  <2> HIDE DEF S
  <2>2. delivered \in Seq(T) /\ content \in T
    BY <2>1
  <2> HIDE DEF T
  <2> QED
    BY <2>2, AppendProperties
<1>2. n + 1 \in 1 .. Len(delivered')
  BY <1>1
<1>3. PICK p : p = content[0]
  OBVIOUS
<1>4. Id(n + 1)' = p
  <2>1. (Id(n + 1))' = delivered'[n + 1][0]
    BY <1>1 DEF Id
  <2> QED
    BY <1>1, <1>3, <2>1
<1>5. p \in Packet /\ NotAfter(Position(p, LastIndex(p)), SenderPosition')
  BY <1>2, <1>4 DEF IInv, DeliveredInv
<1>6. p <= sender.packet
  <2>1. SenderPosition' = SenderPosition
    BY DEF SenderPosition
  <2> QED
    BY <1>5, <2>1, PositionType DEF IInv, NotAfter, Position, SenderPosition
<1>7. \A i \in 1 .. n : Id(i) <= p /\ (Id(i) = p => LastIndex(p) = 0)
  <2> SUFFICES ASSUME NEW i \in 1 .. n
               PROVE  Id(i) <= p /\ (Id(i) = p => LastIndex(p) = 0)
    OBVIOUS
  <2>1. i \in 1 .. Len(delivered') /\ i < n + 1
    BY <1>1
  <2>2. delivered'[i] = delivered[i]
    <3>1. delivered \in Seq(UNION {[0 .. LastIndex(q) -> 0 .. NPackets] : q \in Packet})
      BY DEF IInv, TypeOK
    <3> QED
      BY <3>1
  <2>3. (Id(i))' = Id(i)
    BY <2>2 DEF Id
  <2> QED
    BY <1>2, <1>4, <2>1, <2>3 DEF IInv, DeliveredInv
<1>8. Came' = Append(Came, p)
  BY <1>3, <1>5, CameGrows DEF IInv
<1>9. Len(Came) = n /\ \A i \in 1 .. n : Came[i] = Id(i)
  BY CameLength DEF IInv
<1>10. \A i \in 1 .. Len(Came) : Came[i] <= p
  BY <1>7, <1>9
<1>11. (\E i \in 1 .. Len(Came) : Came[i] = p) => FragmentCount[p] = 1
  BY <1>5, <1>7, <1>9 DEF LastIndex
<1> QED
  BY <1>5, <1>6, <1>8, <1>10, <1>11 DEF Service!ComeOut, Service!CameOut, Came

(* What a step of the link does, as the service sees it.                   *)
LEMMA LinkStep ==
  ASSUME IInv, Next
  PROVE  \/ SubmitPacket
         \/ UNCHANGED <<sender.packet, outcome, delivered>>
         \/ /\ UNCHANGED delivered
            /\ sender.at # "idle"
            /\ \E result \in {"success", "failed"} : SenderReturns(result)
         \/ /\ UNCHANGED <<sender, outcome>>
            /\ \E content : delivered' = Append(delivered, content)
<1>1. AttemptFails => \/ UNCHANGED <<sender.packet, outcome>>
                      \/ SenderReturns("failed")
  BY DEF AttemptFails, IInv, TypeOK
<1>2. CASE WriteFragment
  BY <1>2 DEF WriteFragment, IInv, TypeOK
<1>3. CASE WriteError
  BY <1>3 DEF WriteError
<1>4. CASE ReadMatchingAck
  BY <1>4 DEF ReadMatchingAck, IInv, TypeOK
<1>5. CASE ReadOtherFrame \/ ReadDamagedAck \/ ReadBrokenHeader \/ AckTimeout
  <2>1. sender.at = "wait" /\ UNCHANGED delivered
    BY <1>5 DEF ReadOtherFrame, ReadDamagedAck, ReadBrokenHeader, AckTimeout
  <2>2. AttemptFails \/ UNCHANGED <<sender, outcome>>
    BY <1>5 DEF ReadOtherFrame, ReadDamagedAck, ReadBrokenHeader, AckTimeout
  <2> QED
    BY <1>1, <2>1, <2>2
<1>6. CASE ReceiverStep
  <2>1. UNCHANGED <<sender, outcome>>
    BY <1>6 DEF ReceiverStep, ReceiveFirst, RejectFirst, ReceiveNext, RejectNext,
                DropDamagedData, FragmentTimeout
  <2>2. UNCHANGED delivered \/ \E content : delivered' = Append(delivered, content)
    BY <1>6 DEF ReceiverStep, ReceiveFirst, RejectFirst, ReceiveNext, RejectNext,
                DropDamagedData, FragmentTimeout, AcceptFragment, AckWriteError
  <2> QED
    BY <2>1, <2>2
<1> QED
  BY <1>2, <1>3, <1>4, <1>5, <1>6 DEF Next, SenderStep

(* Every step of the link is a step of the service, or leaves it alone.    *)
LEMMA StepOfService ==
  ASSUME IInv, IInv', [Next]_vars
  PROVE  [Service!Next]_(Service!vars)
<1>1. Came = [i \in 1 .. Len(delivered) |-> delivered[i][0]]
  BY DEF Came
<1>2. UNCHANGED delivered => UNCHANGED Came
  BY DEF Came
<1>3. CASE SubmitPacket
  <2>1. /\ sender.packet < NPackets /\ sender'.packet = sender.packet + 1
        /\ UNCHANGED <<outcome, delivered>>
        /\ sender.at = "idle"
    BY <1>3 DEF SubmitPacket
  <2>2. \A p \in Packet : p <= sender.packet => outcome[p] # "none"
    <3>1. \A p \in Packet : p <= sender.packet => (p < sender.packet \/ p = sender.packet)
      BY DEF IInv, TypeOK
    <3> QED
      BY <2>1, <3>1 DEF IInv, SenderInv
  <2>3. Service!Submit
    BY <1>2, <2>1, <2>2 DEF Service!Submit, Service!Packet, Came
  <2> QED
    BY <2>3 DEF Service!Next
<1>4. CASE UNCHANGED <<sender.packet, outcome, delivered>>
  BY <1>2, <1>4 DEF Service!vars, Came
<1>5. CASE /\ UNCHANGED delivered
           /\ sender.at # "idle"
           /\ \E result \in {"success", "failed"} : SenderReturns(result)
  <2>1. PICK result \in {"success", "failed"} : SenderReturns(result)
    BY <1>5
  <2>2. PICK p \in Packet : p = sender.packet /\ outcome[p] = "none"
    BY <1>5 DEF IInv, SenderInv
  <2>3. sender'.packet = sender.packet /\ outcome' = [outcome EXCEPT ![p] = result]
    BY <2>1, <2>2 DEF SenderReturns, IInv, TypeOK
  <2>4. CASE result = "success"
    <3>1. outcome'[p] = "success"
      BY <2>3, <2>4 DEF IInv, TypeOK
    <3>2. CameOut(p)
      <4>1. CameOut(p)'
        BY <3>1 DEF IInv, SenderInv
      <4> QED
        BY <1>5, <4>1 DEF CameOut, Id
    <3>3. \E i \in 1 .. Len(Came) : Came[i] = p
      BY <3>2, CameLength DEF IInv, CameOut
    <3>4. Service!Succeed(p)
      BY <1>2, <1>5, <2>2, <2>3, <2>4, <3>3
         DEF Service!Succeed, Service!CameOut, Came
    <3> QED
      BY <2>2, <3>4 DEF Service!Next, Service!Packet
  <2>5. CASE result = "failed"
    <3>1. Service!Fail(p)
      BY <1>2, <1>5, <2>2, <2>3, <2>5 DEF Service!Fail, Came
    <3> QED
      BY <2>2, <3>1 DEF Service!Next, Service!Packet
  <2> QED
    BY <2>4, <2>5
<1>6. CASE /\ UNCHANGED <<sender, outcome>>
           /\ \E content : delivered' = Append(delivered, content)
  BY <1>6, DeliveryComesOut DEF Service!Next, Service!Packet
<1>7. CASE UNCHANGED vars
  BY <1>2, <1>7 DEF vars, Service!vars, Came
<1> QED
  BY <1>3, <1>4, <1>5, <1>6, <1>7, LinkStep

LEMMA StartOfService ==
  ASSUME Init
  PROVE  Service!Init
<1>1. delivered = <<>> /\ Len(delivered) = 0
  BY DEF Init
<1>2. [i \in 1 .. Len(delivered) |-> delivered[i][0]] = <<>>
  BY <1>1
<1> QED
  BY <1>2 DEF Init, Service!Init, Service!Packet

(* The link keeps the promise the transport above it relies on: packets    *)
(* are submitted one at a time, come out whole and in order, and one that  *)
(* sendPacket reports as sent has come out.                                *)
THEOREM LinkKeepsService == Spec => IsPacketService
<1>1. Init => Service!Init
  BY StartOfService
<1>2. IInv /\ IInv' /\ [Next]_vars => [Service!Next]_(Service!vars)
  BY StepOfService
<1> QED
  BY <1>1, <1>2, Invariance, PTL DEF Spec, IsPacketService, Service!Spec
=============================================================================
