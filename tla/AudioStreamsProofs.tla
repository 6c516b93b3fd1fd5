------------------------- MODULE AudioStreamsProofs -------------------------
(***************************************************************************)
(* Proofs, for any sessions, slots, lengths of queues, failures and losses,*)
(* that sessions and host agree on the open channels, that no session has  *)
(* or feeds the stream of another one as long as the count of its ring is  *)
(* right, that a stream that runs has its buffer, and that on a reliable   *)
(* link both sides agree between calls.                                    *)
(***************************************************************************)
EXTENDS AudioStreams, SequenceTheorems, FiniteSetTheorems, WellFoundedInduction, TLAPS

-----------------------------------------------------------------------------
(* The inductive invariant.                                                *)

(* The places of a ring are counted from its head.  As long as the count   *)
(* is right, the first of them hold the requests that wait.                *)
Offset(r, p) == IF r.head <= p THEN p - r.head ELSE p - r.head + QueueDepth
Size(r) == IF r.taking = 0 THEN r.count ELSE r.count - 1
Waits(r, p) == ~r.raced /\ Offset(r, p) < Size(r)

(* The requests under way, wherever they are; what a ring with a wrong     *)
(* count gives out is not among them.                                      *)
Way == {m \in Requests \ {NoRequest} :
          \/ \E n \in DOMAIN sent : m = sent[n]
          \/ m = rx
          \/ m = closing
          \/ \E n \in DOMAIN queue : m = queue[n]
          \/ \E i \in Slot : \E p \in Place : Waits(ring[i], p) /\ m = ring[i].held[p]
          \/ \E i \in Slot : ~ring[i].raced /\ m = serving[i]}

(* A request may come behind another: a CLOSE is the last to name its slot,*)
(* and one whose answer is still awaited is the last of all.               *)
Behind(a, b) == b = NoRequest \/ (~a.fresh /\ (a.cmd = "close" => b.id # a.id))

(* The control worker, its queue, the receiving worker and the link are    *)
(* one queue.                                                              *)
Ordered ==
  /\ \A n, k \in DOMAIN sent : n < k => Behind(sent[n], sent[k])
  /\ \A k \in DOMAIN sent : Behind(rx, sent[k])
  /\ \A n, k \in DOMAIN queue :
       n < k => Behind(queue[n], queue[k])
  /\ \A n \in DOMAIN queue : Behind(queue[n], rx)
  /\ \A n \in DOMAIN queue, k \in DOMAIN sent :
       Behind(queue[n], sent[k])
  /\ Behind(closing, rx)
  /\ \A n \in DOMAIN queue : Behind(closing, queue[n])
  /\ \A k \in DOMAIN sent : Behind(closing, sent[k])

(* Each request is of a kind that may be where it is.                      *)
Placed ==
  /\ \A n \in DOMAIN sent : sent[n] # NoRequest
  /\ \A n \in DOMAIN queue : queue[n] # NoRequest /\ queue[n].cmd # "data"
  /\ closing # NoRequest => closing.cmd \in {"stop", "close"}

(* What every request under way finds: its session still owns its slot; a  *)
(* START finds the buffer, which no CONFIG under way takes back.           *)
WellFormed(m) ==
  /\ m.from \in Sessions /\ m.cmd # "none"
  /\ m.cmd = "open" => m.id = None
  /\ m.cmd # "open" => m.id \in Slot
OwnsSlot(m) ==
  m.cmd # "open" => slot[m.id].allocated /\ slot[m.id].owner = m.from
Awaited(m) ==
  m.fresh => /\ line # Nobody
             /\ m.from = line
             /\ m.cmd = Command(session[line].at)
             /\ m.id = session[line].id
HasBuffer(i) ==
  /\ slot[i].allocated /\ slot[i].dma /\ slot[i].stream
  /\ \A k \in Way : k.cmd = "config" => k.id # i
WayInv ==
  \A m \in Way :
    WellFormed(m) /\ OwnsSlot(m) /\ Awaited(m) /\ (m.cmd = "start" => HasBuffer(m.id))

(* A right count is changed by one of the two at a time, who writes what   *)
(* he read, and the next request goes behind the last that waits.          *)
Stored(r) == Size(r) + (IF r.adding = 0 THEN 0 ELSE 1)
Exact(r) ==
  /\ r.adding = 0 \/ r.taking = 0
  /\ r.adding # 0 => r.adding = r.count + 1
  /\ r.taking # 0 => r.taking = r.count
  /\ Offset(r, r.tail) = IF Stored(r) = QueueDepth THEN 0 ELSE Stored(r)

(* Whatever is in a ring came in over its channel.                         *)
Entry(m, i) == m.cmd = "data" /\ m.id \in {i, None} /\ Awaited(m)
Kept(i) ==
  /\ \A p \in Place : Entry(ring[i].held[p], i)
  /\ ~ring[i].raced => Exact(ring[i])
  /\ ring[i].adding # 0 => rx.cmd = "data" /\ rx.id = i
  /\ ring[i].adding # 0 /\ ~ring[i].raced =>
       \A p \in Place : Offset(ring[i], p) = ring[i].count => ring[i].held[p] = rx
  /\ ring[i].taking # 0 => serving[i] # NoRequest
  /\ serving[i] # NoRequest => Entry(serving[i], i) /\ slot[i].worker
RingInv == \A i \in Slot : Kept(i)

(* A worker runs only in a slot that is in use.                            *)
SlotInv == RunningHasDma /\ \A i \in Slot : slot[i].worker => slot[i].allocated

(* The calls of a session.                                                 *)
CallOK(e) ==
  /\ e.at # "idle" => e.acquired
  /\ e.open => e.acquired /\ e.id \in Slot
  /\ e.at \notin {"idle", "open"} => e.open
  /\ e.at = "open" => ~e.open
  /\ ~e.open => e.id = None /\ ~e.prepared /\ ~e.running
  /\ e.at = "start" => e.prepared /\ ~e.running
  /\ e.at = "config" => ~e.prepared
  /\ e.at \in {"stop", "close stop"} => e.running
  /\ e.channel # None <=> e.running /\ e.at # "close"
CallInv ==
  /\ \A s \in Sessions : CallOK(session[s])
  /\ line # Nobody => session[line].at # "idle"

(* A session owns its slot until its CLOSE is sent.                        *)
Owns(s) == session[s].open /\ ~(session[s].at = "close" /\ line = s)
OwnsStream(s) ==
  LET i == session[s].id
  IN /\ slot[i].allocated /\ slot[i].owner = s
     /\ \A m \in Way : m.cmd = "close" => m.id # i
     /\ \A m \in Way : m.cmd = "start" /\ m.id = i => session[s].prepared
     /\ session[s].prepared => HasBuffer(i)
SessionInv ==
  /\ \A s \in Sessions : Owns(s) => OwnsStream(s)
  /\ \A s, t \in Sessions :
       session[s].open /\ session[t].open /\ session[s].id = session[t].id => s = t

(* What an awaited answer promises.                                        *)
Got == {a \in Answers : \E n \in DOMAIN answers : a = answers[n]}
Opening(a) ==
  /\ a.id \in Slot /\ slot[a.id].allocated /\ slot[a.id].owner = line
  /\ \A m \in Way : m.id # a.id
Promised(a) ==
  /\ line # Nobody
  /\ a.ok /\ session[line].at = "open" => Opening(a)
  /\ a.ok /\ session[line].at = "config" => HasBuffer(session[line].id)
AnswerInv == \A a \in Got : a.fresh => Promised(a)

Inv == /\ TypeOK /\ HostChannels /\ Ordered /\ Placed /\ WayInv /\ RingInv
       /\ CallInv /\ SessionInv /\ AnswerInv /\ SlotInv

-----------------------------------------------------------------------------
(* Sequences and messages.                                                 *)

LEMMA Appended ==
  ASSUME NEW S, NEW q \in Seq(S), NEW x \in S
  PROVE  /\ Append(q, x) \in Seq(S)
         /\ DOMAIN Append(q, x) = 1 .. Len(q) + 1 /\ DOMAIN q = 1 .. Len(q) /\ Len(q) \in Nat
         /\ \A n \in DOMAIN q : Append(q, x)[n] = q[n]
         /\ Append(q, x)[Len(q) + 1] = x
<1>1. Append(q, x) \in Seq(S) /\ Len(Append(q, x)) = Len(q) + 1
  BY AppendProperties
<1>2. \A n \in 1 .. Len(q) : Append(q, x)[n] = q[n]
  BY AppendProperties
<1>3. Append(q, x)[Len(q) + 1] = x
  BY AppendProperties
<1> QED BY <1>1, <1>2, <1>3

LEMMA Shortened ==
  ASSUME NEW S, NEW q \in Seq(S), q # <<>>
  PROVE  /\ Tail(q) \in Seq(S) /\ Head(q) \in S
         /\ 1 \in DOMAIN q /\ Head(q) = q[1]
         /\ \A n \in DOMAIN Tail(q) : /\ n \in Nat /\ 1 < n + 1 /\ n + 1 \in DOMAIN q
                                      /\ Tail(q)[n] = q[n + 1]
<1>1. Tail(q) \in Seq(S) /\ Len(Tail(q)) = Len(q) - 1 /\ Len(q) \in Nat \ {0}
  BY HeadTailProperties, EmptySeq
<1>2. \A n \in 1 .. Len(Tail(q)) : Tail(q)[n] = q[n + 1]
  BY HeadTailProperties
<1> QED BY <1>1, <1>2

LEMMA Places == Control \in Channel /\ None \in Channel /\ Control \notin Slot
                /\ Channel = Slot \cup {Control} /\ None = Control
BY AudioStreamsAssumption DEF Control, None, Slot, Channel

LEMMA NoneIsRequest == NoRequest \in Requests /\ NoRequest.id = None /\ NoRequest.cmd = "none"
                       /\ NoRequest.fresh = FALSE
BY Places DEF NoRequest, Requests

LEMMA BlankIsRequest == Blank \in Requests /\ Blank # NoRequest /\ Blank.cmd = "data"
                        /\ Blank.id = None /\ Blank.fresh = FALSE
BY Places DEF Blank, NoRequest, Requests

LEMMA RequestFields ==
  ASSUME NEW m \in Requests
  PROVE  /\ m.from \in Sessions \cup {Nobody} /\ m.id \in Channel /\ m.fresh \in BOOLEAN
         /\ m.cmd \in {"none", "open", "config", "start", "data", "stop", "close"}
BY DEF Requests

LEMMA AgedRequest ==
  ASSUME NEW m \in Requests
  PROVE  /\ Aged(m) \in Requests /\ ~Aged(m).fresh
         /\ Aged(m).from = m.from /\ Aged(m).cmd = m.cmd /\ Aged(m).id = m.id
         /\ Aged(NoRequest) = NoRequest
<1>1. \A x \in Requests : x = [from |-> x.from, cmd |-> x.cmd, id |-> x.id, fresh |-> x.fresh]
  BY DEF Requests
<1>2. Aged(NoRequest) \in Requests
  BY NoneIsRequest DEF Aged, Requests
<1>3. /\ Aged(NoRequest).from = NoRequest.from /\ Aged(NoRequest).cmd = NoRequest.cmd
      /\ Aged(NoRequest).id = NoRequest.id /\ Aged(NoRequest).fresh = NoRequest.fresh
  BY NoneIsRequest DEF Aged, Requests
<1>4. Aged(NoRequest) = NoRequest
  BY <1>1, <1>2, <1>3, NoneIsRequest
<1> QED BY <1>4 DEF Aged, Requests

LEMMA AgedAnswer ==
  ASSUME NEW a \in Answers
  PROVE  Aged(a) \in Answers /\ ~Aged(a).fresh
BY DEF Aged, Answers

LEMMA AllAgedRequests ==
  ASSUME NEW q \in Seq(Requests)
  PROVE  /\ AllAged(q) \in Seq(Requests) /\ DOMAIN AllAged(q) = DOMAIN q
         /\ \A n \in DOMAIN q : AllAged(q)[n] = Aged(q[n])
BY AgedRequest DEF AllAged

LEMMA AllAgedAnswers ==
  ASSUME NEW q \in Seq(Answers)
  PROVE  /\ AllAged(q) \in Seq(Answers) /\ DOMAIN AllAged(q) = DOMAIN q
         /\ \A n \in DOMAIN q : ~AllAged(q)[n].fresh
BY AgedAnswer DEF AllAged

LEMMA AnswerType ==
  ASSUME NEW m \in Requests, NEW ok \in BOOLEAN
  PROVE  /\ Answer(m, ok) \in Answers /\ Answer(m, ok).fresh = m.fresh
         /\ Answer(m, ok).ok = ok /\ Answer(m, ok).id = m.id
BY DEF Answer, Requests, Answers

LEMMA CommandType ==
  ASSUME NEW at \in {"open", "config", "start", "undo", "data", "stop", "close stop", "close"}
  PROVE  /\ Command(at) \in {"open", "config", "start", "data", "stop", "close"}
         /\ Command(at) = "open" => at = "open"
         /\ Command(at) = "config" => at = "config"
         /\ Command(at) = "start" => at = "start"
         /\ Command(at) = "close" => at = "close"
         /\ at = "open" => Command(at) = "open"
         /\ at = "config" => Command(at) = "config"
BY DEF Command

(* A response adds its answer, or none.                                    *)
LEMMA Responded ==
  ASSUME TypeOK, NEW m \in Requests, NEW ok \in BOOLEAN, Respond(m, ok)
  PROVE  /\ answers' \in Seq(Answers)
         /\ \A a \in Got' : a \in Got \/ a = Answer(m, ok)
<1>1. answers \in Seq(Answers) /\ Answer(m, ok) \in Answers
  BY AnswerType DEF TypeOK
<1>2. CASE answers' = answers
  BY <1>1, <1>2 DEF Got
<1>3. CASE answers' = Append(answers, Answer(m, ok))
  <2>1. /\ answers' \in Seq(Answers)
        /\ DOMAIN answers' = 1 .. Len(answers) + 1 /\ DOMAIN answers = 1 .. Len(answers)
        /\ Len(answers) \in Nat
        /\ \A n \in DOMAIN answers : answers'[n] = answers[n]
        /\ answers'[Len(answers) + 1] = Answer(m, ok)
    BY <1>1, <1>3, Appended
  <2> QED BY <2>1 DEF Got
<1> QED BY <1>2, <1>3 DEF Respond, Posted

-----------------------------------------------------------------------------
(* What a step of the controller leaves as it was.                         *)

KeepsOwner(i) ==
  slot[i].allocated => slot'[i].allocated /\ slot'[i].owner = slot[i].owner
KeepsBuffer(i) ==
  slot[i].allocated /\ slot[i].dma /\ slot[i].stream => slot'[i].dma /\ slot'[i].stream

(* A slot is freed by the last request that names it.                      *)
Freed(i) ==
  /\ closing \in Way /\ closing.cmd = "close" /\ closing.id = i
  /\ \A m \in Way' : m.id # i
Configured(i) == \E m \in Way : m.cmd = "config" /\ m.id = i

(* A step that brings no request and touches only what is its own keeps    *)
(* what requests, sessions and earlier answers rely on.                    *)
LEMMA ControllerKeeps ==
  ASSUME Inv, UNCHANGED host, \A m \in Way' : m \in Way,
         \A i \in Slot : KeepsOwner(i) \/ Freed(i),
         \A i \in Slot : KeepsBuffer(i) \/ Freed(i) \/ Configured(i)
  PROVE  /\ WayInv' /\ CallInv' /\ SessionInv' /\ HostChannels'
         /\ \A a \in Got : a.fresh => Promised(a)'
<1>1. session' = session /\ line' = line /\ refs' = refs /\ channels' = channels
  BY DEF host
<1>2. CallInv' /\ HostChannels'
  BY <1>1 DEF Inv, CallInv, CallOK, HostChannels
<1>3. ASSUME NEW i \in Slot, HasBuffer(i), ~Freed(i)
      PROVE  HasBuffer(i)'
  <2>1. ~Configured(i)
    BY <1>3 DEF HasBuffer, Configured
  <2>2. slot'[i].allocated /\ slot'[i].dma /\ slot'[i].stream
    BY <1>3, <2>1 DEF HasBuffer, KeepsOwner, KeepsBuffer
  <2> QED BY <1>3, <2>2 DEF HasBuffer
<1>4. ASSUME NEW m \in Way'
      PROVE  /\ WellFormed(m)' /\ OwnsSlot(m)' /\ Awaited(m)'
             /\ (m.cmd = "start" => HasBuffer(m.id)')
  <2>1. m \in Way /\ WellFormed(m) /\ OwnsSlot(m) /\ Awaited(m)
        /\ (m.cmd = "start" => HasBuffer(m.id))
    BY <1>4 DEF Inv, WayInv
  <2>2. m.cmd # "open" => m.id \in Slot /\ ~Freed(m.id)
    BY <1>4, <2>1 DEF WellFormed, Freed
  <2>3. OwnsSlot(m)'
    BY <2>1, <2>2 DEF OwnsSlot, KeepsOwner
  <2>4. Awaited(m)'
    BY <1>1, <2>1 DEF Awaited
  <2>5. m.cmd = "start" => HasBuffer(m.id)'
    BY <1>3, <2>1, <2>2
  <2> QED BY <2>1, <2>3, <2>4, <2>5 DEF WellFormed
<1>5. ASSUME NEW s \in Sessions, Owns(s)'
      PROVE  OwnsStream(s)'
  <2>1. Owns(s) /\ OwnsStream(s) /\ session[s].id \in Slot
    BY <1>1, <1>5 DEF Inv, SessionInv, Owns, CallInv, CallOK
  <2>2. PICK i \in Slot : i = session[s].id
    BY <2>1
  <2>3. ~Freed(i)
    BY <2>2, <2>1 DEF OwnsStream, Freed
  <2>4. slot'[i].allocated /\ slot'[i].owner = s
    BY <2>2, <2>1, <2>3 DEF OwnsStream, KeepsOwner
  <2>5. session[s].prepared => HasBuffer(i)'
    BY <1>3, <2>2, <2>1, <2>3 DEF OwnsStream
  <2> QED BY <1>1, <2>2, <2>1, <2>4, <2>5 DEF OwnsStream
<1>6. ASSUME NEW a \in Got, a.fresh
      PROVE  Promised(a)'
  <2>1. Promised(a)
    BY <1>6 DEF Inv, AnswerInv
  <2>2. a.ok /\ session[line].at = "open" => Opening(a)'
    <3>1. SUFFICES ASSUME Opening(a) PROVE Opening(a)'
      BY <2>1 DEF Promised
    <3>2. a.id \in Slot /\ ~Freed(a.id)
      BY <3>1 DEF Opening, Freed
    <3> QED BY <1>1, <3>1, <3>2 DEF Opening, KeepsOwner
  <2>3. a.ok /\ session[line].at = "config" => HasBuffer(session[line].id)'
    <3>1. SUFFICES ASSUME HasBuffer(session[line].id), session[line].at = "config"
                   PROVE  HasBuffer(session[line].id)'
      BY <2>1 DEF Promised
    <3>2. line \in Sessions /\ Owns(line)
      BY <2>1, <3>1 DEF Inv, TypeOK, Owns, CallInv, CallOK, Promised
    <3>3. PICK i \in Slot : i = session[line].id
      BY <3>2 DEF Inv, CallInv, CallOK, Owns
    <3>4. ~Freed(i)
      BY <3>2, <3>3 DEF Inv, SessionInv, OwnsStream, Freed
    <3> QED BY <1>1, <1>3, <3>1, <3>3, <3>4
  <2> QED BY <1>1, <2>1, <2>2, <2>3 DEF Promised
<1>7. WayInv'
  BY <1>4 DEF WayInv
<1>8. SessionInv'
  <2>1. \A s, t \in Sessions :
          session'[s].open /\ session'[t].open /\ session'[s].id = session'[t].id => s = t
    BY <1>1 DEF Inv, SessionInv
  <2> QED BY <1>5, <2>1 DEF SessionInv
<1> QED BY <1>1, <1>2, <1>6, <1>7, <1>8

(* A response to a request that is not awaited, or with what is promised.  *)
LEMMA AnswerKeeps ==
  ASSUME NEW m \in Requests, NEW ok \in BOOLEAN,
         \A a \in Got : a.fresh => Promised(a)',
         \A a \in Got' : a \in Got \/ a = Answer(m, ok),
         m.fresh => Promised(Answer(m, ok))'
  PROVE  AnswerInv'
<1>1. ASSUME NEW a \in Got', a.fresh
      PROVE  Promised(a)'
  <2>1. CASE a \in Got
    BY <1>1, <2>1
  <2>2. CASE a = Answer(m, ok)
    BY <1>1, <2>2, AnswerType
  <2> QED BY <1>1, <2>1, <2>2
<1> QED BY <1>1 DEF AnswerInv

-----------------------------------------------------------------------------
(* The receiving worker.                                                   *)

(* The rings.                                                              *)
LEMMA Next1 ==
  ASSUME NEW p \in Place
  PROVE  /\ After(p) \in Place /\ p \in Nat /\ QueueDepth \in Nat
         /\ After(p) = IF p = QueueDepth - 1 THEN 0 ELSE p + 1
BY AudioStreamsAssumption DEF Place, After

LEMMA RingType ==
  ASSUME NEW r \in Rings
  PROVE  /\ r.held \in [Place -> Requests] /\ r.head \in Place /\ r.tail \in Place
         /\ r.count \in 0 .. QueueDepth /\ r.adding \in 0 .. QueueDepth
         /\ r.taking \in 0 .. QueueDepth /\ r.raced \in BOOLEAN
         /\ r.mutex \in {"none", "there", "destroyed"}
         /\ QueueDepth \in Nat \ {0} /\ 0 \in Place
         /\ \A p \in Place : p \in 0 .. QueueDepth - 1 /\ Offset(r, p) \in 0 .. QueueDepth - 1
BY AudioStreamsAssumption DEF Rings, Place, Offset

LEMMA Members ==
  ASSUME Inv
  PROVE  /\ \A n \in DOMAIN sent : sent[n] \in Way
         /\ rx # NoRequest => rx \in Way
         /\ closing # NoRequest => closing \in Way
         /\ \A n \in DOMAIN queue : queue[n] \in Way
         /\ \A i \in Slot : \A p \in Place : Waits(ring[i], p) => ring[i].held[p] \in Way
         /\ \A i \in Slot : serving[i] # NoRequest /\ ~ring[i].raced => serving[i] \in Way
<1>1. \A q \in Seq(Requests) : \A n \in DOMAIN q : q[n] \in Requests
  OBVIOUS
<1>2. \A n \in DOMAIN queue : queue[n] \in Requests \ {NoRequest}
  BY <1>1 DEF Inv, TypeOK, Placed
<1>3. \A i \in Slot : \A p \in Place : ring[i].held[p] \in Requests \ {NoRequest}
  <2>1. SUFFICES ASSUME NEW i \in Slot, NEW p \in Place
                 PROVE  ring[i].held[p] \in Requests \ {NoRequest}
    OBVIOUS
  <2>2. ring[i] \in Rings /\ ring[i].held[p].cmd = "data"
    BY DEF Inv, TypeOK, RingInv, Kept, Entry
  <2> QED BY <2>2, RingType, NoneIsRequest
<1>4. \A n \in DOMAIN sent : sent[n] \in Requests \ {NoRequest}
  BY <1>1 DEF Inv, TypeOK, Placed
<1>5. rx \in Requests /\ closing \in Requests /\ \A i \in Slot : serving[i] \in Requests
  BY DEF Inv, TypeOK
<1> QED BY <1>2, <1>3, <1>4, <1>5 DEF Way

(* A request whose answer is awaited is that of the session in its round   *)
(* trip.                                                                   *)
LEMMA AwaitedFresh ==
  ASSUME Inv, NEW m \in Requests, Awaited(m), m.fresh
  PROVE  /\ line \in Sessions /\ m.from = line /\ m.id = session[line].id
         /\ m.cmd = Command(session[line].at)
         /\ session[line].at \in {"open", "config", "start", "undo", "data", "stop",
                                  "close stop", "close"}
<1>1. line \in Sessions /\ session[line].at # "idle"
  BY DEF Inv, TypeOK, CallInv, CallOK, Awaited
<1> QED BY <1>1 DEF Inv, TypeOK, Awaited

LEMMA WayFresh ==
  ASSUME Inv, NEW m \in Way, m.fresh
  PROVE  /\ line \in Sessions /\ m.from = line /\ m.id = session[line].id
         /\ m.cmd = Command(session[line].at)
         /\ session[line].at \in {"open", "config", "start", "undo", "data", "stop",
                                  "close stop", "close"}
<1>1. Awaited(m) /\ m \in Requests
  BY DEF Inv, WayInv, Way
<1> QED BY <1>1, AwaitedFresh

(* An error, or an answer that promises nothing.                           *)
LEMMA PlainAnswer ==
  ASSUME Inv, UNCHANGED host, NEW m \in Requests, Awaited(m), NEW ok \in BOOLEAN,
         ~ok \/ m.cmd \notin {"open", "config"}
  PROVE  m.fresh => Promised(Answer(m, ok))'
<1>1. SUFFICES ASSUME m.fresh PROVE Promised(Answer(m, ok))'
  OBVIOUS
<1>2. session' = session /\ line' = line
  BY DEF host
<1>3. line \in Sessions /\ m.cmd = Command(session[line].at)
      /\ session[line].at \in {"open", "config", "start", "undo", "data", "stop",
                               "close stop", "close"}
  BY <1>1, AwaitedFresh
<1>4. Answer(m, ok).ok = ok
  BY AnswerType
<1>5. ok = TRUE => session[line].at \notin {"open", "config"}
  BY <1>3, CommandType
<1>6. line # Nobody
  BY <1>3, AudioStreamsAssumption
<1> QED BY <1>2, <1>4, <1>5, <1>6 DEF Promised

LEMMA WayAwaited ==
  ASSUME Inv, NEW m \in Way
  PROVE  m \in Requests /\ Awaited(m)
BY DEF Inv, WayInv, Way

-----------------------------------------------------------------------------
(* Steps that leave the rings as they are.                                 *)

(* A ring that differs in its mutex only.                                  *)
SameQueue(r, q) ==
  /\ q.held = r.held /\ q.head = r.head /\ q.tail = r.tail /\ q.count = r.count
  /\ q.adding = r.adding /\ q.taking = r.taking /\ q.raced = r.raced
SameRings == ring' \in [Slot -> Rings] /\ \A i \in Slot : SameQueue(ring[i], ring'[i])

LEMMA RingsStay ==
  ASSUME Inv, UNCHANGED <<session, line, serving>>, SameRings,
         rx' = rx \/ rx.cmd # "data",
         \A i \in Slot : serving[i] # NoRequest => slot'[i].worker
  PROVE  RingInv'
<1>1. SUFFICES ASSUME NEW i \in Slot PROVE Kept(i)'
  BY DEF RingInv
<1>2. Kept(i) /\ SameQueue(ring[i], ring'[i])
  BY DEF Inv, RingInv, SameRings
<1>3. \A m : Entry(m, i) => Entry(m, i)'
  BY DEF Entry, Awaited
<1>4. ring[i].adding # 0 => rx' = rx
  BY <1>2 DEF Kept
<1> QED BY <1>2, <1>3, <1>4 DEF Kept, SameQueue, Exact, Stored, Size, Offset

LEMMA NoRings == UNCHANGED ring /\ TypeOK => SameRings
BY DEF SameRings, SameQueue, TypeOK

LEMMA SameWaits ==
  ASSUME SameRings
  PROVE  \A i \in Slot : /\ ring'[i].held = ring[i].held /\ ring'[i].raced = ring[i].raced
                         /\ \A p : Waits(ring'[i], p) = Waits(ring[i], p)
BY DEF SameRings, SameQueue, Waits, Size, Offset

LEMMA SlotsKept ==
  ASSUME UNCHANGED slot
  PROVE  \A i \in Slot : KeepsOwner(i) /\ KeepsBuffer(i)
BY DEF KeepsOwner, KeepsBuffer

LEMMA RxTakeKeeps ==
  ASSUME Inv, RxTake
  PROVE  Inv'
<1> DEFINE h == Head(sent)
<1>1. /\ sent \in Seq(Requests) /\ sent # <<>> /\ rx = NoRequest /\ sent' = Tail(sent)
      /\ UNCHANGED <<host, queue, ring, closing, serving, slot>>
      /\ \/ rx' = h /\ answers' = answers
         \/ rx' = rx /\ Respond(h, FALSE)
  BY DEF Inv, TypeOK, RxTake
<1>2. /\ sent' \in Seq(Requests) /\ h \in Requests /\ 1 \in DOMAIN sent /\ h = sent[1]
      /\ \A n \in DOMAIN sent' : /\ n \in Nat /\ 1 < n + 1 /\ n + 1 \in DOMAIN sent
                                 /\ sent'[n] = sent[n + 1]
  BY <1>1, Shortened
<1>3. /\ TypeOK' /\ \A a \in Got' : a \in Got \/ a = Answer(h, FALSE)
  <2>1. answers' \in Seq(Answers) /\ \A a \in Got' : a \in Got \/ a = Answer(h, FALSE)
    BY <1>1, <1>2, Responded DEF Inv, TypeOK, Got
  <2> QED BY <1>1, <1>2, <2>1 DEF Inv, TypeOK, host
<1>4. \A m \in Way' : m \in Way
  <2>1. h \in Way /\ \A n \in DOMAIN sent' : sent'[n] \in Way
    BY <1>2, Members
  <2>2. rx' = h \/ rx' = NoRequest
    BY <1>1
  <2> QED BY <1>1, <2>1, <2>2, Members DEF Way
<1>5. Ordered'
  <2>1. \A n, k \in DOMAIN sent' : n < k => Behind(sent'[n], sent'[k])
    BY <1>2 DEF Inv, Ordered
  <2>2. \A k \in DOMAIN sent' : Behind(h, sent'[k])
    BY <1>2 DEF Inv, Ordered
  <2>3. \A k \in DOMAIN sent' : Behind(rx, sent'[k])
    BY <1>2 DEF Inv, Ordered
  <2>4. \A n \in DOMAIN queue : Behind(queue[n], h)
    BY <1>2 DEF Inv, Ordered
  <2>5. Behind(closing, h)
    BY <1>2 DEF Inv, Ordered
  <2>6. \A n \in DOMAIN queue, k \in DOMAIN sent' :
          Behind(queue[n], sent'[k])
    BY <1>2 DEF Inv, Ordered
  <2>7. \A k \in DOMAIN sent' : Behind(closing, sent'[k])
    BY <1>2 DEF Inv, Ordered
  <2>8. queue' = queue /\ closing' = closing /\ rx' \in {h, rx}
    BY <1>1
  <2> QED BY <2>1, <2>2, <2>3, <2>4, <2>5, <2>6, <2>7, <2>8 DEF Inv, Ordered
<1>6. Placed'
  BY <1>1, <1>2 DEF Inv, Placed
<1>7. /\ WayInv' /\ CallInv' /\ SessionInv' /\ HostChannels'
      /\ \A a \in Got : a.fresh => Promised(a)'
  BY <1>1, <1>4, SlotsKept, ControllerKeeps
<1>8. AnswerInv'
  BY <1>1, <1>2, <1>3, <1>7, Members, WayAwaited, PlainAnswer, AnswerKeeps DEF Inv
<1>9. SlotInv'
  BY <1>1 DEF Inv, SlotInv, RunningHasDma
<1>10. RingInv'
  <2>1. session' = session /\ line' = line /\ SameRings
    BY <1>1, NoRings DEF host, Inv
  <2> QED BY <1>1, <2>1, NoneIsRequest, RingsStay DEF Inv, RingInv, Kept
<1> QED BY <1>3, <1>5, <1>6, <1>7, <1>8, <1>9, <1>10 DEF Inv

LEMMA KeptStays ==
  ASSUME Inv, NEW j \in Slot, UNCHANGED <<session, line>>,
         ring'[j] = ring[j], serving'[j] = serving[j],
         rx' = rx \/ ring[j].adding = 0,
         serving[j] # NoRequest => slot'[j].worker
  PROVE  Kept(j)'
<1>1. Kept(j)
  BY DEF Inv, RingInv
<1>2. \A m : Entry(m, j) => Entry(m, j)'
  BY DEF Entry, Awaited
<1> QED BY <1>1, <1>2 DEF Kept, Exact, Stored, Size, Offset

LEMMA RxQueueControlKeeps ==
  ASSUME Inv, RxQueueControl
  PROVE  Inv'
<1>1. /\ rx # NoRequest /\ rx' = NoRequest /\ rx \in Way /\ rx \in Requests
      /\ UNCHANGED <<host, sent, ring, closing, serving, slot, answers>>
  BY Members DEF Inv, TypeOK, RxQueueControl
<1>2. WellFormed(rx)
  BY <1>1 DEF Inv, WayInv
<1>3. rx.cmd # "data"
  <2>1. ChannelOf(rx) = Control
    BY DEF RxQueueControl
  <2> QED BY <1>2, <2>1, Places DEF WellFormed, ChannelOf
<1>4. queue \in Seq(Requests)
  BY DEF Inv, TypeOK
<1>5. /\ queue' \in Seq(Requests)
      /\ \A n \in DOMAIN queue' :
           \/ n \in DOMAIN queue /\ queue'[n] = queue[n]
           \/ queue'[n] = rx /\ \A k \in DOMAIN queue' : k <= n
      /\ \A n \in DOMAIN queue' : n \in Nat
  <2>1. CASE queue' = Append(queue, rx)
    <3>1. /\ DOMAIN Append(queue, rx) = 1 .. Len(queue) + 1
          /\ DOMAIN queue = 1 .. Len(queue) /\ Len(queue) \in Nat
          /\ \A n \in DOMAIN queue : Append(queue, rx)[n] = queue[n]
          /\ Append(queue, rx)[Len(queue) + 1] = rx
          /\ Append(queue, rx) \in Seq(Requests)
      BY <1>1, <1>4, Appended
    <3> QED BY <2>1, <3>1
  <2>2. CASE queue' = queue
    <3>1. \A n \in DOMAIN queue : n \in Nat
      BY <1>4
    <3> QED BY <1>4, <2>2, <3>1
  <2> QED BY <2>1, <2>2 DEF RxQueueControl
<1>6. TypeOK'
  BY <1>1, <1>5, NoneIsRequest DEF Inv, TypeOK, host
<1>7. \A m \in Way' : m \in Way
  <2>1. \A n \in DOMAIN queue' : queue'[n] \in Way
    BY <1>1, <1>5, Members
  <2> QED BY <1>1, <2>1, Members DEF Way, Waits
<1>8. Ordered'
  <2>1. \A n, k \in DOMAIN queue' : n < k => Behind(queue'[n], queue'[k])
    <3>1. SUFFICES ASSUME NEW n \in DOMAIN queue', NEW k \in DOMAIN queue', n < k
                   PROVE  Behind(queue'[n], queue'[k])
      OBVIOUS
    <3>2. n \in DOMAIN queue /\ queue'[n] = queue[n]
      <4>1. ~(k <= n) /\ n \in Nat /\ k \in Nat
        BY <1>5, <3>1
      <4> QED BY <1>5, <3>1, <4>1
    <3> QED BY <1>5, <3>1, <3>2 DEF Inv, Ordered
  <2>2. \A n \in DOMAIN queue', k \in DOMAIN sent : Behind(queue'[n], sent[k])
    BY <1>5 DEF Inv, Ordered
  <2>3. \A n \in DOMAIN queue' : Behind(closing, queue'[n])
    BY <1>5 DEF Inv, Ordered
  <2> QED BY <1>1, <2>1, <2>2, <2>3, NoneIsRequest DEF Inv, Ordered, Behind
<1>9. Placed'
  BY <1>1, <1>3, <1>5 DEF Inv, Placed
<1>10. /\ WayInv' /\ CallInv' /\ SessionInv' /\ HostChannels'
       /\ \A a \in Got : a.fresh => Promised(a)'
  BY <1>1, <1>7, SlotsKept, ControllerKeeps
<1>11. AnswerInv'
  BY <1>1, <1>10 DEF AnswerInv, Got
<1>12. SlotInv'
  BY <1>1 DEF Inv, SlotInv, RunningHasDma
<1>13. RingInv'
  <2>1. session' = session /\ line' = line /\ SameRings
    BY <1>1, NoRings DEF host, Inv
  <2>2. \A i \in Slot : serving[i] # NoRequest => slot'[i].worker
    BY <1>1 DEF Inv, RingInv, Kept
  <2> QED BY <1>1, <1>3, <2>1, <2>2, RingsStay
<1> QED BY <1>6, <1>8, <1>9, <1>10, <1>11, <1>12, <1>13 DEF Inv

(* The request that rx holds for a data channel.                           *)
LEMMA RxData ==
  ASSUME Inv, rx.cmd = "data"
  PROVE  /\ rx # NoRequest /\ rx \in Requests /\ rx \in Way /\ rx.id \in Slot
         /\ ring[rx.id] \in Rings /\ Entry(rx, rx.id)
         /\ \A j \in Slot : j # rx.id => ring[j].adding = 0
<1>1. rx # NoRequest /\ rx \in Requests /\ rx \in Way
  BY NoneIsRequest, Members DEF Inv, TypeOK
<1>2. WellFormed(rx) /\ Awaited(rx)
  BY <1>1 DEF Inv, WayInv
<1>3. rx.id \in Slot
  BY <1>2 DEF WellFormed
<1>4. \A j \in Slot : j # rx.id => ring[j].adding = 0
  BY DEF Inv, RingInv, Kept
<1> QED BY <1>1, <1>2, <1>3, <1>4 DEF Entry, Inv, TypeOK

(* What a step does that changes rings and rx only.                        *)
LEMMA RxStepKeeps ==
  ASSUME Inv, UNCHANGED <<host, sent, queue, closing, serving, slot, answers>>,
         rx' \in {rx, NoRequest}, ring' \in [Slot -> Rings],
         \A m \in Way' : m \in Way, RingInv'
  PROVE  Inv'
<1>1. TypeOK'
  BY NoneIsRequest DEF Inv, TypeOK, host
<1>2. Ordered' /\ Placed'
  BY NoneIsRequest DEF Inv, Ordered, Placed, Behind
<1>3. /\ WayInv' /\ CallInv' /\ SessionInv' /\ HostChannels'
      /\ \A a \in Got : a.fresh => Promised(a)'
  BY SlotsKept, ControllerKeeps
<1>4. AnswerInv'
  BY <1>3 DEF AnswerInv, Got
<1>5. SlotInv'
  BY DEF Inv, SlotInv, RunningHasDma
<1> QED BY <1>1, <1>2, <1>3, <1>4, <1>5 DEF Inv

(* A request is stored behind those that wait.                             *)
LEMMA Stores ==
  ASSUME NEW r \in Rings, NEW m \in Requests, r.adding = 0, r.count < QueueDepth,
         NEW q, q = Put(r, m)
  PROVE  /\ q \in Rings
         /\ \A p \in Place : q.held[p] \in {r.held[p], m}
         /\ q.raced = (r.raced \/ r.taking # 0)
         /\ q.adding = r.count + 1 /\ q.taking = r.taking
         /\ q.count = r.count /\ q.head = r.head
         /\ q.tail = After(r.tail) /\ q.held[r.tail] = m
<1>1. r = [held |-> r.held, head |-> r.head, tail |-> r.tail, count |-> r.count,
           mutex |-> r.mutex, adding |-> r.adding, taking |-> r.taking, raced |-> r.raced]
  BY DEF Rings
<1>2. [r.held EXCEPT ![r.tail] = m] \in [Place -> Requests]
      /\ [r.held EXCEPT ![r.tail] = m][r.tail] = m
      /\ \A p \in Place : [r.held EXCEPT ![r.tail] = m][p] \in {r.held[p], m}
  BY RingType
<1>3. q = [r EXCEPT !.held = [r.held EXCEPT ![r.tail] = m], !.tail = After(r.tail),
                    !.adding = r.count + 1, !.raced = (r.raced \/ r.taking # 0)]
  BY <1>1 DEF Put
<1>4. PICK f \in [Place -> Requests] :
        /\ f = [r.held EXCEPT ![r.tail] = m] /\ f[r.tail] = m
        /\ \A p \in Place : f[p] \in {r.held[p], m}
  BY <1>2
<1>5. /\ q.held = f /\ q.head = r.head /\ q.tail = After(r.tail) /\ q.count = r.count
      /\ q.mutex = r.mutex /\ q.adding = r.count + 1 /\ q.taking = r.taking
      /\ q.raced = (r.raced \/ r.taking # 0)
      /\ q = [held |-> q.held, head |-> q.head, tail |-> q.tail, count |-> q.count,
              mutex |-> q.mutex, adding |-> q.adding, taking |-> q.taking, raced |-> q.raced]
  BY <1>1, <1>3, <1>4
<1>6. After(r.tail) \in Place /\ r.count + 1 \in 0 .. QueueDepth
  BY RingType, Next1
<1>7. /\ r.head \in Place /\ r.count \in 0 .. QueueDepth
      /\ r.mutex \in {"none", "there", "destroyed"} /\ r.taking \in 0 .. QueueDepth
      /\ r.raced \in BOOLEAN
  BY RingType
<1>8. q.raced \in BOOLEAN
  BY <1>5
<1>9. q \in Rings
  BY <1>4, <1>5, <1>6, <1>7, <1>8 DEF Rings
<1> QED BY <1>4, <1>5, <1>9

LEMMA OffsetAfter ==
  ASSUME NEW r \in Rings, NEW p \in Place
  PROVE  /\ Offset(r, After(p)) = IF Offset(r, p) = QueueDepth - 1 THEN 0 ELSE Offset(r, p) + 1
         /\ \A o \in Place : Offset(r, o) = Offset(r, p) => o = p
<1>1. /\ r.head \in 0 .. QueueDepth - 1 /\ p \in 0 .. QueueDepth - 1
      /\ QueueDepth \in Nat \ {0}
      /\ \A o \in Place : o \in 0 .. QueueDepth - 1
  BY RingType
<1>2. After(p) = IF p = QueueDepth - 1 THEN 0 ELSE p + 1
  BY Next1
<1> QED BY <1>1, <1>2 DEF Offset

LEMMA RxQueueKeeps ==
  ASSUME Inv, RxQueue
  PROVE  Inv'
<1>0. PICK i \in Slot, r \in Rings : i = rx.id /\ r = ring[i]
  BY RxData DEF RxQueue
<1>1. /\ rx.cmd = "data" /\ rx # NoRequest /\ rx \in Requests /\ rx \in Way
      /\ Entry(rx, i) /\ \A j \in Slot : j # i => ring[j].adding = 0
      /\ r.adding = 0
      /\ UNCHANGED <<host, sent, queue, closing, serving, slot, answers>>
  BY <1>0, RxData DEF RxQueue
<1>2. session' = session /\ line' = line
  BY <1>1 DEF host
<1>3. ring \in [Slot -> Rings] /\ Kept(i)
  BY <1>0 DEF Inv, TypeOK, RingInv
<1>4. \A j \in Slot : serving[j] # NoRequest => slot'[j].worker
  BY <1>1 DEF Inv, RingInv, Kept
<1>5. CASE ring' = ring /\ rx' = NoRequest
  <2>1. ASSUME NEW j \in Slot
        PROVE  Kept(j)'
    <3>1. ring[j].adding = 0 /\ ring'[j] = ring[j] /\ serving'[j] = serving[j]
      BY <1>0, <1>1, <1>5
    <3> QED BY <1>2, <1>4, <3>1, KeptStays
  <2>2. \A m \in Way' : m \in Way
    BY <1>1, <1>5 DEF Way, Waits
  <2> QED BY <1>1, <1>3, <1>5, <2>1, <2>2, RxStepKeeps DEF RingInv
<1>6. CASE /\ r.count < QueueDepth /\ rx' = rx
           /\ ring' = [ring EXCEPT ![i] = Put(r, rx)]
  <2>1. PICK q : q = Put(r, rx)
    OBVIOUS
  <2>2. /\ q \in Rings /\ \A p \in Place : q.held[p] \in {r.held[p], rx}
        /\ q.raced = (r.raced \/ r.taking # 0)
        /\ q.adding = r.count + 1 /\ q.taking = r.taking
        /\ q.count = r.count /\ q.head = r.head
        /\ q.tail = After(r.tail) /\ q.held[r.tail] = rx
    <3>1. r.adding = 0 /\ rx \in Requests /\ r.count < QueueDepth
      BY <1>1, <1>6
    <3> QED BY <2>1, <3>1, Stores
  <2>3. ring' = [ring EXCEPT ![i] = q]
    BY <1>6, <2>1
  <2>4. /\ ring' \in [Slot -> Rings] /\ ring'[i] = q
        /\ \A j \in Slot : j # i => ring'[j] = ring[j]
    BY <1>0, <1>1, <1>3, <2>2, <2>3
  <2>5. \A p : Offset(q, p) = Offset(r, p)
    BY <2>2 DEF Offset
  <2>6. \A m : Entry(m, i) => Entry(m, i)'
    BY <1>2 DEF Entry, Awaited
  <2>7. ASSUME ~q.raced
        PROVE  Exact(q) /\ \A p \in Place : Offset(q, p) = q.count => q.held[p] = rx
    <3>1. ~r.raced /\ r.taking = 0 /\ Exact(r)
      BY <1>0, <1>3, <2>2, <2>7 DEF Kept
    <3>2. Offset(r, r.tail) = r.count
      BY <1>1, <1>6, <3>1, RingType DEF Exact, Stored, Size
    <3>3. r.tail \in Place /\ r.count \in 0 .. QueueDepth - 1 /\ QueueDepth \in Nat
      BY <1>1, <1>6, RingType
    <3>4. /\ Offset(r, After(r.tail)) = IF r.count = QueueDepth - 1 THEN 0 ELSE r.count + 1
          /\ \A p \in Place : Offset(r, p) = r.count => p = r.tail
      <4> QED BY <1>1, <3>2, <3>3, OffsetAfter
    <3>5. /\ Stored(q) = r.count + 1
          /\ q.adding # 0 /\ q.adding = q.count + 1 /\ q.taking = 0
      BY <2>2, <3>1, <3>3 DEF Stored, Size
    <3>6. Offset(q, q.tail) = IF Stored(q) = QueueDepth THEN 0 ELSE Stored(q)
      BY <2>2, <2>5, <3>3, <3>4, <3>5
    <3> QED BY <2>2, <2>5, <3>4, <3>5, <3>6 DEF Exact
  <2>8. Kept(i)'
    <3>1. (\A p \in Place : Entry(q.held[p], i))'
      BY <1>0, <1>1, <1>3, <2>2, <2>4, <2>6 DEF Kept
    <3>2. (q.taking # 0 => serving[i] # NoRequest)
          /\ (serving[i] # NoRequest => Entry(serving[i], i)' /\ slot[i].worker)
      BY <1>0, <1>1, <1>3, <2>2, <2>6 DEF Kept
    <3>3. (~q.raced => Exact(q))'
      BY <2>7 DEF Exact, Stored, Size, Offset
    <3>4. ~q.raced => \A p \in Place : Offset(q, p) = q.count => q.held[p] = rx
      BY <2>7
    <3> QED BY <1>0, <1>1, <1>6, <2>4, <3>1, <3>2, <3>3, <3>4 DEF Kept
  <2>9. RingInv'
    BY <1>1, <1>2, <1>4, <1>6, <2>4, <2>8, KeptStays DEF RingInv
  <2>10. \A p : Waits(q, p) => Waits(r, p)
    <3>1. \A p : Offset(q, p) = Offset(r, p) /\ Size(q) = Size(r)
      BY <2>2, <2>5 DEF Size
    <3> QED BY <2>2, <3>1 DEF Waits
  <2>11. ASSUME NEW m \in Way'
         PROVE  m \in Way
    <3>1. CASE \E j \in Slot : \E p \in Place : Waits(ring'[j], p) /\ m = ring'[j].held[p]
      <4>1. PICK j \in Slot, p \in Place : Waits(ring'[j], p) /\ m = ring'[j].held[p]
        BY <3>1
      <4>2. CASE j # i
        BY <2>4, <4>1, <4>2, Members
      <4>3. CASE j = i
        BY <1>0, <1>1, <2>2, <2>4, <2>10, <4>1, <4>3, Members
      <4> QED BY <4>2, <4>3
    <3>2. CASE \E j \in Slot : ~ring'[j].raced /\ m = serving[j]
      <4>1. \A j \in Slot : ~ring'[j].raced => ~ring[j].raced
        BY <1>0, <2>2, <2>4
      <4> QED BY <1>1, <3>2, <4>1, Members, <2>11 DEF Way
    <3>3. CASE \/ \E n \in DOMAIN sent : m = sent[n]
               \/ m = rx
               \/ m = closing
               \/ \E n \in DOMAIN queue : m = queue[n]
      BY <2>11, <3>3 DEF Way
    <3> QED BY <1>1, <1>6, <2>11, <3>1, <3>2, <3>3 DEF Way
  <2> QED BY <1>1, <1>6, <2>4, <2>9, <2>11, RxStepKeeps
<1> QED BY <1>0, <1>5, <1>6 DEF RxQueue

(* The count is written: what rx holds is the next that waits.             *)
LEMMA RxCountKeeps ==
  ASSUME Inv, RxCount
  PROVE  Inv'
<1>0. PICK i \in Slot, r \in Rings : i = rx.id /\ r = ring[i]
  BY RxData DEF RxCount
<1>1. /\ rx.cmd = "data" /\ rx # NoRequest /\ rx \in Requests /\ rx \in Way
      /\ \A j \in Slot : j # i => ring[j].adding = 0
      /\ r.adding # 0 /\ rx' = NoRequest
      /\ UNCHANGED <<host, sent, queue, closing, serving, slot, answers>>
  BY <1>0, RxData DEF RxCount
<1>2. session' = session /\ line' = line
  BY <1>1 DEF host
<1>3. ring \in [Slot -> Rings] /\ Kept(i)
  BY <1>0 DEF Inv, TypeOK, RingInv
<1>4. \A j \in Slot : serving[j] # NoRequest => slot'[j].worker
  BY <1>1 DEF Inv, RingInv, Kept
<1>5. PICK q : q = [r EXCEPT !.count = r.adding, !.adding = 0]
  OBVIOUS
<1>6. /\ q \in Rings /\ q.held = r.held /\ q.head = r.head /\ q.tail = r.tail
      /\ q.count = r.adding /\ q.adding = 0 /\ q.taking = r.taking /\ q.raced = r.raced
  <2>1. r.adding \in 0 .. QueueDepth /\ 0 \in 0 .. QueueDepth
    BY RingType
  <2> QED BY <1>5, <2>1 DEF Rings
<1>7. ring' = [ring EXCEPT ![i] = q]
  BY <1>0, <1>5 DEF RxCount
<1>8. /\ ring' \in [Slot -> Rings] /\ ring'[i] = q
      /\ \A j \in Slot : j # i => ring'[j] = ring[j]
  BY <1>0, <1>3, <1>6, <1>7
<1>9. \A p : Offset(q, p) = Offset(r, p)
  BY <1>6 DEF Offset
<1>10. ASSUME ~r.raced
       PROVE  /\ Exact(q) /\ r.adding = r.count + 1 /\ Size(q) = r.count + 1 /\ Size(r) = r.count
              /\ \A p \in Place : Offset(r, p) = r.count => r.held[p] = rx
  <2>1. Exact(r) /\ r.adding = r.count + 1 /\ r.taking = 0
        /\ \A p \in Place : Offset(r, p) = r.count => r.held[p] = rx
    BY <1>0, <1>1, <1>3, <1>10 DEF Kept, Exact
  <2>2. r.count \in Nat
    BY RingType
  <2> QED BY <1>1, <1>6, <1>9, <2>1, <2>2 DEF Exact, Stored, Size
<1>11. Kept(i)'
  <2>1. \A m : Entry(m, i) => Entry(m, i)'
    BY <1>2 DEF Entry, Awaited
  <2>2. (~q.raced => Exact(q))'
    BY <1>6, <1>10 DEF Exact, Stored, Size, Offset
  <2>3. (\A p \in Place : Entry(q.held[p], i))'
    BY <1>0, <1>3, <1>6, <2>1 DEF Kept
  <2>4. (q.taking # 0 => serving[i] # NoRequest)
        /\ (serving[i] # NoRequest => Entry(serving[i], i)' /\ slot[i].worker)
    BY <1>0, <1>1, <1>3, <1>6, <2>1 DEF Kept
  <2> QED BY <1>1, <1>6, <1>8, <2>2, <2>3, <2>4 DEF Kept
<1>12. RingInv'
  BY <1>1, <1>2, <1>4, <1>8, <1>11, KeptStays DEF RingInv
<1>13. ASSUME NEW p \in Place, Waits(q, p)
       PROVE  q.held[p] \in Way
  <2>1. ~r.raced /\ Offset(r, p) < r.count + 1
    BY <1>6, <1>9, <1>10, <1>13 DEF Waits
  <2>2. Offset(r, p) \in Nat /\ r.count \in Nat
    BY RingType
  <2>3. CASE Offset(r, p) < r.count
    BY <1>0, <1>6, <1>10, <2>1, <2>3, Members DEF Waits
  <2>4. CASE Offset(r, p) = r.count
    BY <1>1, <1>6, <1>10, <2>1, <2>4
  <2> QED BY <2>1, <2>2, <2>3, <2>4
<1>14. ASSUME NEW m \in Way'
       PROVE  m \in Way
  <2>1. CASE \E j \in Slot : \E p \in Place : Waits(ring'[j], p) /\ m = ring'[j].held[p]
    <3>1. PICK j \in Slot, p \in Place : Waits(ring'[j], p) /\ m = ring'[j].held[p]
      BY <2>1
    <3>2. CASE j # i
      BY <1>8, <3>1, <3>2, Members
    <3>3. CASE j = i
      BY <1>8, <1>13, <3>1, <3>3
    <3> QED BY <3>2, <3>3
  <2>2. CASE \E j \in Slot : ~ring'[j].raced /\ m = serving[j]
    <3>1. \A j \in Slot : ~ring'[j].raced => ~ring[j].raced
      BY <1>0, <1>6, <1>8
    <3> QED BY <1>1, <2>2, <3>1, Members, <1>14 DEF Way
  <2>3. CASE \/ \E n \in DOMAIN sent : m = sent[n]
             \/ m = closing
             \/ \E n \in DOMAIN queue : m = queue[n]
    BY <1>14, <2>3 DEF Way
  <2> QED BY <1>1, <1>14, <2>1, <2>2, <2>3 DEF Way
<1> QED BY <1>1, <1>8, <1>12, <1>14, RxStepKeeps

(* A data request that is answered.                                        *)
LEMMA RxServeKeeps ==
  ASSUME Inv, RxServe
  PROVE  Inv'
<1>0. PICK i \in Slot, h \in Requests : i = rx.id /\ h = rx
  BY RxData DEF RxServe
<1>1. PICK ok \in BOOLEAN :
        /\ rx.cmd = "data" /\ ring[i].adding = 0 /\ rx' = NoRequest /\ Respond(h, ok)
        /\ UNCHANGED <<host, sent, queue, ring, closing, serving, slot>>
  <2>1. \A ok \in Outcomes(rx) : ok \in BOOLEAN
    BY DEF Outcomes
  <2> QED BY <1>0, <2>1 DEF RxServe
<1>2. /\ h \in Way /\ Awaited(h) /\ h.cmd = "data"
      /\ \A j \in Slot : j # i => ring[j].adding = 0
  BY <1>0, <1>1, RxData DEF Entry
<1>3. answers' \in Seq(Answers) /\ \A a \in Got' : a \in Got \/ a = Answer(h, ok)
  BY <1>1, Responded DEF Inv
<1>4. TypeOK'
  BY <1>1, <1>3, NoneIsRequest DEF Inv, TypeOK, host
<1>5. \A k \in Way' : k \in Way
  BY <1>1 DEF Way, Waits
<1>6. Ordered' /\ Placed'
  BY <1>1, NoneIsRequest DEF Inv, Ordered, Placed, Behind
<1>7. /\ WayInv' /\ CallInv' /\ SessionInv' /\ HostChannels'
      /\ \A a \in Got : a.fresh => Promised(a)'
  BY <1>1, <1>5, SlotsKept, ControllerKeeps
<1>8. AnswerInv'
  BY <1>1, <1>2, <1>3, <1>7, PlainAnswer, AnswerKeeps
<1>9. SlotInv'
  BY <1>1 DEF Inv, SlotInv, RunningHasDma
<1>10. RingInv'
  <2>1. session' = session /\ line' = line
    BY <1>1 DEF host
  <2>2. \A j \in Slot : serving[j] # NoRequest => slot'[j].worker
    BY <1>1 DEF Inv, RingInv, Kept
  <2> QED BY <1>1, <1>2, <2>1, <2>2, KeptStays DEF RingInv
<1> QED BY <1>4, <1>6, <1>7, <1>8, <1>9, <1>10 DEF Inv

-----------------------------------------------------------------------------
(* The control worker takes a request.                                     *)

LEMMA ControlTaken ==
  ASSUME Inv, NEW cmd, TakeControl(cmd), closing' \in {NoRequest, Asked}, SameRings
  PROVE  /\ queue' \in Seq(Requests) /\ closing = NoRequest
         /\ UNCHANGED <<host, sent, rx, serving>>
         /\ Asked \in Way /\ Asked \in Requests /\ Asked.cmd = cmd /\ cmd # "data"
         /\ \A m \in Way' : m \in Way
         /\ Ordered'
         /\ Asked.fresh /\ closing' = NoRequest => \A m \in Way' : m.cmd = "data"
         /\ (closing' = Asked => cmd \in {"stop", "close"}) => Placed'
<1>1. /\ closing = NoRequest /\ queue # <<>> /\ Asked.cmd = cmd
      /\ UNCHANGED <<host, sent, rx, serving>>
      /\ queue' = Tail(queue)
  BY DEF TakeControl, Asked
<1>2. queue \in Seq(Requests)
  BY DEF Inv, TypeOK
<1>3. /\ queue' \in Seq(Requests) /\ Asked \in Requests /\ 1 \in DOMAIN queue /\ Asked = queue[1]
      /\ \A n \in DOMAIN queue' : /\ n \in Nat /\ 1 < n + 1 /\ n + 1 \in DOMAIN queue
                                  /\ queue'[n] = queue[n + 1]
  BY <1>1, <1>2, Shortened DEF Asked
<1>4. PICK h \in Requests : h = Asked
  BY <1>3
<1>5. h \in Way /\ h.cmd # "data" /\ \A n \in DOMAIN queue' : queue'[n] \in Way
  BY <1>3, <1>4, Members DEF Inv, Placed
<1>6. \A m \in Way' : m \in Way
  <2>1. SUFFICES ASSUME NEW m \in Way' PROVE m \in Way
    OBVIOUS
  <2>2. m \in Requests \ {NoRequest}
    BY <2>1 DEF Way
  <2>3. CASE \E i \in Slot : \E p \in Place : Waits(ring'[i], p) /\ m = ring'[i].held[p]
    BY <2>3, SameWaits, Members
  <2>4. CASE \E i \in Slot : ~ring'[i].raced /\ m = serving[i]
    BY <2>2, <2>4, SameWaits, Members
  <2>5. CASE m = closing'
    BY <1>4, <1>5, <2>2, <2>5
  <2>6. CASE \/ \E n \in DOMAIN sent : m = sent[n]
             \/ m = rx
             \/ \E n \in DOMAIN queue' : m = queue'[n]
    BY <1>5, <2>2, <2>6, Members
  <2> QED BY <1>1, <2>1, <2>3, <2>4, <2>5, <2>6 DEF Way
<1>7. Ordered'
  <2>1. \A n, k \in DOMAIN queue' : n < k => Behind(queue'[n], queue'[k])
    BY <1>3 DEF Inv, Ordered
  <2>2. \A n \in DOMAIN queue' : Behind(queue'[n], rx)
    BY <1>3 DEF Inv, Ordered
  <2>3. \A n \in DOMAIN queue', k \in DOMAIN sent : Behind(queue'[n], sent[k])
    BY <1>3 DEF Inv, Ordered
  <2>4. \A n \in DOMAIN queue' : Behind(h, queue'[n])
    BY <1>3, <1>4 DEF Inv, Ordered
  <2>5. Behind(h, rx) /\ \A k \in DOMAIN sent : Behind(h, sent[k])
    BY <1>3, <1>4 DEF Inv, Ordered
  <2>6. \A m \in Requests : Behind(NoRequest, m)
    BY NoneIsRequest, Places, RequestFields DEF Behind
  <2>7. \A n \in DOMAIN queue' : queue'[n] \in Requests
    BY <1>5 DEF Way
  <2>8. rx \in Requests /\ \A k \in DOMAIN sent : sent[k] \in Requests
    BY Members, NoneIsRequest DEF Way, Inv, TypeOK
  <2>9. /\ Behind(closing', rx)
        /\ \A n \in DOMAIN queue' : Behind(closing', queue'[n])
        /\ \A k \in DOMAIN sent : Behind(closing', sent[k])
    BY <1>4, <2>4, <2>5, <2>6, <2>7, <2>8
  <2> QED BY <1>1, <2>1, <2>2, <2>3, <2>9 DEF Inv, Ordered
<1>8. ASSUME h.fresh, closing' = NoRequest, NEW m \in Way'
      PROVE  m.cmd = "data"
  <2>1. /\ ~(rx # NoRequest) /\ DOMAIN sent = {} /\ DOMAIN queue' = {}
    <3>1. rx = NoRequest
      BY <1>3, <1>4, <1>8 DEF Inv, Ordered, Behind
    <3>2. ASSUME NEW k \in DOMAIN sent PROVE FALSE
      BY <1>3, <1>4, <1>8, <3>2 DEF Inv, Ordered, Behind, Placed
    <3>3. ASSUME NEW n \in DOMAIN queue' PROVE FALSE
      <4>1. Behind(queue[1], queue[n + 1]) /\ queue[n + 1] # NoRequest
        BY <1>3, <3>3 DEF Inv, Ordered, Placed
      <4> QED BY <1>3, <1>4, <1>8, <4>1 DEF Behind
    <3> QED BY <3>1, <3>2, <3>3
  <2>2. m # NoRequest
    BY <1>8 DEF Way
  <2>3. \/ \E i \in Slot : \E p \in Place : m = ring[i].held[p]
        \/ \E i \in Slot : m = serving[i]
    BY <1>1, <1>8, <2>1, <2>2, SameWaits DEF Way
  <2> QED BY <2>2, <2>3 DEF Inv, RingInv, Kept, Entry
<1>9. (closing' = Asked => cmd \in {"stop", "close"}) => Placed'
  <2>1. \A n \in DOMAIN queue' : queue'[n] # NoRequest /\ queue'[n].cmd # "data"
    BY <1>3 DEF Inv, Placed
  <2> QED BY <1>1, <2>1 DEF Inv, Placed
<1> QED BY <1>1, <1>3, <1>4, <1>5, <1>6, <1>7, <1>8, <1>9

LEMMA LowestOf ==
  ASSUME NEW S, S \subseteq Nat, S # {}
  PROVE  Lowest(S) \in S
<1>1. PICK x \in S : \A y \in S : <<y, x>> \notin OpToRel(<, Nat)
  BY WFMin, NatLessThanWellFounded, Zenon
<1>2. \A y \in S : ~(y < x)
  BY <1>1, Zenon DEF OpToRel
<1>3. \A y \in S : x <= y
  BY <1>2
<1> QED BY <1>3 DEF Lowest

LEMMA AllocateKeeps ==
  ASSUME Inv, Allocate
  PROVE  Inv'
<1> DEFINE h == Asked
<1>1. /\ TakeControl("open") /\ closing' = closing /\ closing = NoRequest
      /\ ring' = ring /\ SameRings
  BY NoRings DEF Inv, Allocate, AllocateFrom, TakeControl
<1>2. /\ queue' \in Seq(Requests) /\ UNCHANGED <<host, sent, rx, serving>>
      /\ h \in Way /\ h \in Requests /\ h.cmd = "open"
      /\ \A m \in Way' : m \in Way
      /\ Ordered'
      /\ Placed' /\ Awaited(h)
      /\ session' = session /\ line' = line
  <2>1. closing' \in {NoRequest, h}
    BY <1>1
  <2>2. h \in Way => h # NoRequest
    BY DEF Way
  <2> HIDE DEF h
  <2> QED BY <1>1, <2>1, <2>2, ControlTaken, WayAwaited DEF h, host
<1>3. CASE Respond(h, FALSE) /\ slot' = slot
  <2>1. answers' \in Seq(Answers) /\ \A a \in Got' : a \in Got \/ a = Answer(h, FALSE)
    BY <1>2, <1>3, Responded DEF Inv
  <2>2. TypeOK'
    BY <1>1, <1>2, <1>3, <2>1 DEF Inv, TypeOK, host
  <2>3. /\ WayInv' /\ CallInv' /\ SessionInv' /\ HostChannels'
        /\ \A a \in Got : a.fresh => Promised(a)'
    BY <1>2, <1>3, SlotsKept, ControllerKeeps
  <2>4. AnswerInv'
    BY <1>2, <2>1, <2>3, PlainAnswer, AnswerKeeps
  <2>5. RingInv'
    <3>1. \A i \in Slot : serving[i] # NoRequest => slot'[i].worker
      BY <1>3 DEF Inv, RingInv, Kept
    <3> QED BY <1>1, <1>2, <3>1, RingsStay
  <2>6. SlotInv'
    BY <1>3 DEF Inv, SlotInv, RunningHasDma
  <2> QED BY <1>2, <2>2, <2>3, <2>4, <2>5, <2>6 DEF Inv
<1>4. CASE \E i \in Slot :
             /\ ~slot[i].allocated
             /\ slot' = [slot EXCEPT ![i] = [Free EXCEPT !.allocated = TRUE, !.owner = h.from]]
             /\ Respond([h EXCEPT !.id = i], TRUE)
  <2>1. PICK i \in Slot :
             /\ ~slot[i].allocated
             /\ slot' = [slot EXCEPT ![i] = [Free EXCEPT !.allocated = TRUE, !.owner = h.from]]
             /\ Respond([h EXCEPT !.id = i], TRUE)
    BY <1>4
  <2>2. PICK r \in Requests : r = [h EXCEPT !.id = i]
    BY <1>2, Places DEF Requests
  <2>3. r.id = i /\ r.fresh = h.fresh
    BY <1>2, <2>2 DEF Requests
  <2>4. answers' \in Seq(Answers) /\ \A a \in Got' : a \in Got \/ a = Answer(r, TRUE)
    BY <2>2, <2>1, Responded DEF Inv
  <2>5. /\ slot'[i].allocated = TRUE /\ slot'[i].owner = h.from /\ slot'[i].running = FALSE
        /\ slot'[i].worker = FALSE
        /\ \A j \in Slot : j # i => slot'[j] = slot[j]
    BY <2>1 DEF Inv, TypeOK, Free
  <2>6. [Free EXCEPT !.allocated = TRUE, !.owner = h.from] \in
          [allocated : BOOLEAN, stream : BOOLEAN, dma : BOOLEAN,
           configured : BOOLEAN, running : BOOLEAN, open : BOOLEAN,
           worker : BOOLEAN, owner : Sessions \cup {Nobody}]
    BY <1>2, RequestFields DEF Free
  <2>7. TypeOK'
    BY <1>1, <1>2, <2>1, <2>4, <2>6 DEF Inv, TypeOK, host
  <2>8. \A m \in Way : m.id # i
    BY <2>1, Places DEF Inv, WayInv, WellFormed, OwnsSlot
  <2>9. \A j \in Slot : KeepsOwner(j)
    BY <2>1, <2>5 DEF KeepsOwner
  <2>10. \A j \in Slot : KeepsBuffer(j)
    BY <2>1, <2>5 DEF KeepsBuffer
  <2>11. RingInv'
    <3>1. \A j \in Slot : serving[j] # NoRequest => j # i /\ slot[j].worker
      BY <2>1 DEF Inv, SlotInv, RingInv, Kept
    <3> QED BY <1>1, <1>2, <2>5, <3>1, RingsStay
  <2>12. /\ WayInv' /\ CallInv' /\ SessionInv' /\ HostChannels'
         /\ \A a \in Got : a.fresh => Promised(a)'
    BY <1>2, <2>9, <2>10, ControllerKeeps
  <2>13. r.fresh => Promised(Answer(r, TRUE))'
    <3>1. SUFFICES ASSUME h.fresh PROVE Promised(Answer(r, TRUE))'
      BY <2>3
    <3>2. /\ line \in Sessions /\ line # Nobody /\ h.from = line
          /\ session' = session /\ line' = line
          /\ session[line].at = "open"
      <4>1. h.cmd = Command(session[line].at) /\ h.from = line /\ line \in Sessions
            /\ session[line].at \in {"open", "config", "start", "undo", "data", "stop",
                                     "close stop", "close"}
        BY <1>2, <3>1, WayFresh
      <4>2. session[line].at = "open"
        BY <1>2, <4>1 DEF Command
      <4> QED BY <1>2, <4>1, <4>2, AudioStreamsAssumption DEF host
    <3>3. Answer(r, TRUE).id = i
      BY <2>3, AnswerType
    <3>4. ASSUME NEW a, a.id = i
          PROVE  Promised(a)'
      <4>1. \A m \in Way' : m.id # i
        BY <1>2, <2>8
      <4>2. Opening(a)'
        BY <2>5, <3>2, <3>4, <4>1 DEF Opening
      <4> QED BY <3>2, <4>2 DEF Promised
    <3>5. PICK a : a = Answer(r, TRUE)
      OBVIOUS
    <3> QED BY <3>3, <3>4, <3>5
  <2>14. AnswerInv'
    <3>1. TRUE \in BOOLEAN
      OBVIOUS
    <3> QED BY <2>4, <2>12, <2>13, <3>1, AnswerKeeps
  <2>15. SlotInv'
    BY <2>5 DEF Inv, SlotInv, RunningHasDma
  <2> QED BY <1>2, <2>7, <2>11, <2>12, <2>14, <2>15 DEF Inv
<1>5. /\ Respond(h, FALSE) /\ slot' = slot
      \/ \E i \in Slot :
             /\ ~slot[i].allocated
             /\ slot' = [slot EXCEPT ![i] = [Free EXCEPT !.allocated = TRUE, !.owner = h.from]]
             /\ Respond([h EXCEPT !.id = i], TRUE)
  <2> DEFINE free == {i \in Streams : ~slot[i].allocated}
  <2>1. CASE free = {}
    BY <2>1 DEF Allocate, AllocateFrom
  <2>2. CASE free # {}
    <3>1. free \subseteq Slot /\ free \subseteq Nat
      <4>1. setting.streams \in 0 .. MaxStreams /\ MaxStreams \in Nat
        BY AudioStreamsAssumption DEF Inv, TypeOK
      <4>2. Streams \subseteq Slot /\ Streams \subseteq Nat
        BY <4>1 DEF Streams, Slot
      <4> QED BY <4>2
    <3>2. Lowest(free) \in free
      <4> HIDE DEF free
      <4> QED BY <2>2, <3>1, LowestOf
    <3>3. ~slot[Lowest(free)].allocated
      BY <3>2
    <3>4. /\ slot' = [slot EXCEPT ![Lowest(free)] = [Free EXCEPT !.allocated = TRUE, !.owner = h.from]]
          /\ Respond([h EXCEPT !.id = Lowest(free)], TRUE)
      BY <2>2 DEF Allocate, AllocateFrom
    <3> QED BY <3>1, <3>2, <3>3, <3>4
  <2> QED BY <2>1, <2>2
<1> QED BY <1>3, <1>4, <1>5

SlotType ==
  [allocated : BOOLEAN, stream : BOOLEAN, dma : BOOLEAN, configured : BOOLEAN,
   running : BOOLEAN, open : BOOLEAN, worker : BOOLEAN, owner : Sessions \cup {Nobody}]

(* A request that is answered at once.                                     *)
LEMMA ControlAnswers ==
  ASSUME Inv, NEW cmd, TakeControl(cmd), closing' = closing, SameRings,
         NEW h \in Requests, h = Asked, NEW ok \in BOOLEAN, Respond(h, ok),
         slot' \in [Slot -> SlotType],
         \A i \in Slot : KeepsOwner(i),
         \A i \in Slot : KeepsBuffer(i) \/ Configured(i),
         \A i \in Slot : slot[i].worker => slot'[i].worker,
         SlotInv',
         h.fresh => Promised(Answer(h, ok))'
  PROVE  Inv'
<1>1. closing' = NoRequest /\ closing = NoRequest
  BY DEF TakeControl
<1>2. /\ queue' \in Seq(Requests) /\ UNCHANGED <<host, sent, rx, serving>>
      /\ \A m \in Way' : m \in Way
      /\ Ordered' /\ Placed'
  <2>1. closing' \in {NoRequest, Asked} /\ (closing' = Asked => cmd \in {"stop", "close"})
    <3>1. Asked # NoRequest
      BY <1>1, ControlTaken DEF Way
    <3> QED BY <1>1, <3>1
  <2> QED BY <2>1, ControlTaken
<1>3. answers' \in Seq(Answers) /\ \A a \in Got' : a \in Got \/ a = Answer(h, ok)
  BY Responded DEF Inv
<1>4. TypeOK'
  BY <1>1, <1>2, <1>3 DEF Inv, TypeOK, host, SlotType, SameRings
<1>5. RingInv'
  <2>1. \A i \in Slot : serving[i] # NoRequest => slot'[i].worker
    BY DEF Inv, RingInv, Kept
  <2>2. session' = session /\ line' = line
    BY <1>2 DEF host
  <2> QED BY <1>2, <2>1, <2>2, RingsStay
<1>6. /\ WayInv' /\ CallInv' /\ SessionInv' /\ HostChannels'
      /\ \A a \in Got : a.fresh => Promised(a)'
  BY <1>2, ControllerKeeps
<1>7. AnswerInv'
  BY <1>3, <1>6, AnswerKeeps
<1> QED BY <1>2, <1>4, <1>5, <1>6, <1>7 DEF Inv

LEMMA ConfigureKeeps ==
  ASSUME Inv, Configure
  PROVE  Inv'
<1>1. TakeControl("config") /\ closing' = closing /\ closing = NoRequest /\ SameRings
  BY NoRings DEF Inv, Configure, TakeControl
<1>2. /\ UNCHANGED <<host, sent, rx, serving>>
      /\ Asked \in Way /\ Asked \in Requests /\ Asked.cmd = "config"
      /\ Asked.fresh => \A m \in Way' : m.cmd = "data"
  <2>1. closing' \in {NoRequest, Asked} /\ closing' = NoRequest
    BY <1>1
  <2> QED BY <1>1, <2>1, ControlTaken
<1>3. PICK h \in Requests : h = Asked
  BY <1>2
<1>4. PICK outcome \in {"done", "refused", "no dma"} :
        LET valid == Found(h.id) /\ ~slot[h.id].running
        IN  /\ slot' = IF valid /\ outcome # "refused"
                       THEN [slot EXCEPT ![h.id] = Prepared(@, outcome)] ELSE slot
            /\ Respond(h, valid /\ outcome = "done")
  BY <1>3 DEF Configure, PrepareOutcomes
<1>5. PICK ok \in BOOLEAN : ok = (Found(h.id) /\ ~slot[h.id].running /\ outcome = "done")
  OBVIOUS
<1>6. \/ slot' = slot /\ ~ok
      \/ /\ h.id \in Slot /\ slot[h.id].running = FALSE
         /\ slot' = [slot EXCEPT ![h.id] = Prepared(@, outcome)]
         /\ ok <=> (slot[h.id].allocated /\ outcome = "done")
  BY <1>4, <1>5 DEF Inv, TypeOK, Found
<1>7. /\ slot' \in [Slot -> SlotType]
      /\ \A i \in Slot : slot'[i] = slot[i] \/ (i = h.id /\ slot'[i].running = FALSE)
      /\ \A i \in Slot : /\ slot'[i].allocated = slot[i].allocated
                         /\ slot'[i].owner = slot[i].owner
                         /\ slot'[i].worker = slot[i].worker
      /\ ok => h.id \in Slot /\ slot'[h.id].allocated /\ slot'[h.id].dma /\ slot'[h.id].stream
  <2>1. slot \in [Slot -> SlotType]
    BY DEF Inv, TypeOK, SlotType
  <2>2. CASE slot' = slot /\ ~ok
    BY <2>1, <2>2
  <2>3. CASE /\ h.id \in Slot /\ slot[h.id].running = FALSE
             /\ slot' = [slot EXCEPT ![h.id] = Prepared(@, outcome)]
             /\ ok <=> (slot[h.id].allocated /\ outcome = "done")
    <3>1. slot[h.id] \in SlotType
      BY <2>1, <2>3
    <3>2. /\ Prepared(slot[h.id], outcome) \in SlotType
          /\ Prepared(slot[h.id], outcome).running = slot[h.id].running
          /\ Prepared(slot[h.id], outcome).allocated = slot[h.id].allocated
          /\ Prepared(slot[h.id], outcome).owner = slot[h.id].owner
          /\ Prepared(slot[h.id], outcome).worker = slot[h.id].worker
          /\ Prepared(slot[h.id], outcome).stream = TRUE
          /\ Prepared(slot[h.id], outcome).dma = (outcome = "done")
      BY <3>1 DEF Prepared, SlotType
    <3>3. /\ slot'[h.id] = Prepared(slot[h.id], outcome)
          /\ \A i \in Slot : i # h.id => slot'[i] = slot[i]
          /\ slot' \in [Slot -> SlotType]
      BY <2>1, <2>3, <3>2
    <3> QED BY <2>3, <3>2, <3>3
  <2> QED BY <1>6, <2>2, <2>3
<1>8. Respond(h, ok)
  <2>1. ok = ((Found(h.id) /\ ~slot[h.id].running) /\ outcome = "done")
    BY <1>5
  <2> QED BY <1>4, <2>1
<1>9. \A i \in Slot : KeepsOwner(i)
  BY <1>7 DEF KeepsOwner
<1>10. \A i \in Slot : KeepsBuffer(i) \/ Configured(i)
  BY <1>2, <1>3, <1>7 DEF KeepsBuffer, Configured
<1>11. SlotInv'
  BY <1>7 DEF Inv, SlotInv, RunningHasDma
<1>12. h.fresh => Promised(Answer(h, ok))'
  <2>1. CASE ~ok
    BY <1>2, <1>3, <2>1, WayAwaited, PlainAnswer
  <2>2. CASE ok
    <3>1. SUFFICES ASSUME h.fresh PROVE Promised(Answer(h, ok))'
      OBVIOUS
    <3>2. /\ line \in Sessions /\ h.id = session[line].id
          /\ "config" = Command(session[line].at)
          /\ session[line].at \in {"open", "config", "start", "undo", "data", "stop",
                                   "close stop", "close"}
      BY <1>2, <1>3, <3>1, WayFresh
    <3>3. session[line].at # "open" /\ line # Nobody
      BY <3>2, CommandType, AudioStreamsAssumption
    <3>4. HasBuffer(session[line].id)'
      BY <1>2, <1>3, <1>7, <2>2, <3>1, <3>2 DEF HasBuffer, host
    <3> QED BY <1>2, <3>3, <3>4 DEF Promised, host
  <2> QED BY <2>1, <2>2
<1> QED BY <1>1, <1>3, <1>7, <1>8, <1>9, <1>10, <1>11, <1>12, ControlAnswers

(* A START makes the mutex of the channel at most.                         *)
LEMMA TriggerRings ==
  ASSUME Inv, Trigger
  PROVE  SameRings
<1>1. PICK i : i = Asked.id
  OBVIOUS
<1>2. ring' = ring \/ (ring' = [ring EXCEPT ![i].mutex = "there"])
  BY <1>1 DEF Trigger
<1>3. CASE ring' = ring
  BY <1>3, NoRings DEF Inv
<1>4. CASE i \in Slot /\ ring' = [ring EXCEPT ![i].mutex = "there"]
  <2>1. PICK q : q = [ring[i] EXCEPT !.mutex = "there"]
    OBVIOUS
  <2>2. ring \in [Slot -> Rings] /\ ring[i] \in Rings
    BY <1>4 DEF Inv, TypeOK
  <2>3. q \in Rings /\ SameQueue(ring[i], q)
    BY <2>1, <2>2 DEF Rings, SameQueue
  <2>4. /\ ring' \in [Slot -> Rings] /\ ring'[i] = q
        /\ \A j \in Slot : j # i => ring'[j] = ring[j]
    BY <1>4, <2>1, <2>2, <2>3
  <2> QED BY <2>3, <2>4 DEF SameRings, SameQueue
<1>5. CASE i \notin Slot /\ ring' = [ring EXCEPT ![i].mutex = "there"]
  BY <1>3, <1>5 DEF Inv, TypeOK
<1> QED BY <1>2, <1>3, <1>4, <1>5

LEMMA TriggerKeeps ==
  ASSUME Inv, Trigger
  PROVE  Inv'
<1>1. TakeControl("start") /\ closing' = closing /\ closing = NoRequest
  BY DEF Trigger, TakeControl
<1>2. SameRings
  BY TriggerRings
<1>3. /\ UNCHANGED <<host, sent, rx, serving>>
      /\ Asked \in Way /\ Asked \in Requests /\ Asked.cmd = "start"
  <2>1. closing' \in {NoRequest, Asked}
    BY <1>1
  <2> QED BY <1>1, <1>2, <2>1, ControlTaken
<1>4. PICK h \in Requests : h = Asked
  BY <1>3
<1>5. HasBuffer(h.id) /\ h.id \in Slot
  BY <1>3, <1>4 DEF Inv, WayInv, WellFormed
<1>6. PICK runs \in BOOLEAN :
        /\ \/ slot' = slot
           \/ slot' = [slot EXCEPT ![h.id].open = TRUE, ![h.id].worker = TRUE,
                                   ![h.id].running = runs]
        /\ Respond(h, runs)
  <2>1. PICK outcome \in {"done", "no mutex", "no thread", "no trigger"} :
          LET valid == Found(h.id) /\ slot[h.id].configured /\ slot[h.id].stream
              registered == valid /\ (ring[h.id].mutex # "none" \/ outcome # "no mutex")
              opens == registered /\ (slot[h.id].open \/ outcome # "no thread")
              runs == opens /\ (slot[h.id].running \/ outcome # "no trigger")
          IN  /\ slot' = IF opens
                         THEN [slot EXCEPT ![h.id].open = TRUE, ![h.id].worker = TRUE,
                                           ![h.id].running = runs]
                         ELSE slot
              /\ Respond(h, runs)
    BY <1>4 DEF Trigger
  <2> DEFINE opens == /\ (Found(h.id) /\ slot[h.id].configured /\ slot[h.id].stream)
                      /\ (ring[h.id].mutex # "none" \/ outcome # "no mutex")
                      /\ (slot[h.id].open \/ outcome # "no thread")
  <2>2. PICK runs \in BOOLEAN : runs = (opens /\ (slot[h.id].running \/ outcome # "no trigger"))
    OBVIOUS
  <2>3. /\ slot' = IF opens
                   THEN [slot EXCEPT ![h.id].open = TRUE, ![h.id].worker = TRUE,
                                     ![h.id].running = runs]
                   ELSE slot
        /\ Respond(h, runs)
    BY <2>1, <2>2
  <2> QED BY <2>3
<1>7. /\ slot' \in [Slot -> SlotType]
      /\ \A i \in Slot : i # h.id => /\ slot'[i].running = slot[i].running
                                     /\ slot'[i].worker = slot[i].worker
      /\ \A i \in Slot : /\ slot'[i].allocated = slot[i].allocated
                         /\ slot'[i].owner = slot[i].owner
                         /\ slot'[i].dma = slot[i].dma
                         /\ slot'[i].stream = slot[i].stream
                         /\ slot[i].worker => slot'[i].worker
  <2>1. slot \in [Slot -> SlotType]
    BY DEF Inv, TypeOK, SlotType
  <2>2. CASE slot' = slot
    BY <2>1, <2>2
  <2>3. CASE slot' = [slot EXCEPT ![h.id].open = TRUE, ![h.id].worker = TRUE,
                                  ![h.id].running = runs]
    <3> DEFINE e == [slot[h.id] EXCEPT !.open = TRUE, !.worker = TRUE, !.running = runs]
    <3>1. slot[h.id] \in SlotType
      BY <1>5, <2>1
    <3>2. /\ e \in SlotType
          /\ e.allocated = slot[h.id].allocated /\ e.owner = slot[h.id].owner
          /\ e.dma = slot[h.id].dma /\ e.stream = slot[h.id].stream /\ e.worker = TRUE
      BY <3>1 DEF SlotType
    <3>3. slot' = [slot EXCEPT ![h.id] = e]
      BY <1>5, <2>1, <2>3
    <3> HIDE DEF e
    <3>4. /\ slot' \in [Slot -> SlotType] /\ slot'[h.id] = e
          /\ \A i \in Slot : i # h.id => slot'[i] = slot[i]
      BY <1>5, <2>1, <3>2, <3>3
    <3> QED BY <3>2, <3>4
  <2> QED BY <1>6, <2>2, <2>3
<1>8. (\A i \in Slot : KeepsOwner(i)) /\ (\A i \in Slot : KeepsBuffer(i) \/ Configured(i))
  BY <1>7 DEF KeepsOwner, KeepsBuffer
<1>9. SlotInv'
  BY <1>5, <1>7 DEF Inv, SlotInv, RunningHasDma, HasBuffer
<1>10. h.fresh => Promised(Answer(h, runs))'
  BY <1>3, <1>4, WayAwaited, PlainAnswer
<1> QED BY <1>1, <1>2, <1>4, <1>6, <1>7, <1>8, <1>9, <1>10, ControlAnswers

LEMMA BeginCloseKeeps ==
  ASSUME Inv, NEW cmd \in {"stop", "close"}, BeginClose(cmd)
  PROVE  Inv'
<1>1. TakeControl(cmd) /\ closing' \in {NoRequest, Asked} /\ ring' = ring /\ SameRings
  BY NoRings DEF Inv, BeginClose, TakeControl
<1>2. /\ queue' \in Seq(Requests) /\ UNCHANGED <<host, sent, rx, serving>>
      /\ Asked \in Way /\ Asked \in Requests /\ Asked.cmd = cmd
      /\ \A m \in Way' : m \in Way
      /\ Ordered' /\ Placed'
      /\ closing = NoRequest
  BY <1>1, ControlTaken
<1>3. PICK h \in Requests : h = Asked
  BY <1>2
<1>4. CASE slot' = slot /\ closing' = closing /\ Respond(Asked, FALSE)
  <2>1. /\ slot' \in [Slot -> SlotType]
        /\ \A i \in Slot : KeepsOwner(i) /\ KeepsBuffer(i)
        /\ \A i \in Slot : slot[i].worker => slot'[i].worker
        /\ SlotInv'
    BY <1>4, SlotsKept DEF Inv, TypeOK, SlotType, SlotInv, RunningHasDma
  <2>2. h.fresh => Promised(Answer(h, FALSE))'
    BY <1>2, <1>3, WayAwaited, PlainAnswer
  <2>3. FALSE \in BOOLEAN /\ Respond(h, FALSE)
    BY <1>3, <1>4
  <2> QED BY <1>1, <1>3, <1>4, <2>1, <2>2, <2>3, ControlAnswers
<1>5. CASE /\ Found(h.id)
           /\ slot' = [slot EXCEPT ![h.id].open = FALSE,
                                   ![h.id].running = @ /\ cmd # "stop"]
           /\ closing' = h /\ answers' = answers
  <2>1. /\ slot' \in [Slot -> SlotType]
        /\ \A i \in Slot : slot'[i].running => slot[i].running
        /\ \A i \in Slot : /\ slot'[i].allocated = slot[i].allocated
                           /\ slot'[i].owner = slot[i].owner
                           /\ slot'[i].dma = slot[i].dma
                           /\ slot'[i].stream = slot[i].stream
                           /\ slot'[i].worker = slot[i].worker
    <3> DEFINE e == [slot[h.id] EXCEPT !.open = FALSE, !.running = @ /\ cmd # "stop"]
    <3>1. slot \in [Slot -> SlotType] /\ h.id \in Slot /\ slot[h.id] \in SlotType
      BY <1>5 DEF Inv, TypeOK, SlotType, Found
    <3>2. /\ e \in SlotType /\ (e.running => slot[h.id].running)
          /\ e.allocated = slot[h.id].allocated /\ e.owner = slot[h.id].owner
          /\ e.dma = slot[h.id].dma /\ e.stream = slot[h.id].stream
          /\ e.worker = slot[h.id].worker
      BY <3>1 DEF SlotType
    <3>3. slot' = [slot EXCEPT ![h.id] = e]
      BY <1>5, <3>1
    <3> HIDE DEF e
    <3>4. /\ slot' \in [Slot -> SlotType] /\ slot'[h.id] = e
          /\ \A i \in Slot : i # h.id => slot'[i] = slot[i]
      BY <3>1, <3>2, <3>3
    <3> QED BY <3>2, <3>4
  <2>2. \A i \in Slot : KeepsOwner(i) /\ KeepsBuffer(i)
    BY <2>1 DEF KeepsOwner, KeepsBuffer
  <2>3. RingInv'
    <3>1. \A i \in Slot : serving[i] # NoRequest => slot'[i].worker
      BY <2>1 DEF Inv, RingInv, Kept
    <3>2. session' = session /\ line' = line
      BY <1>2 DEF host
    <3> QED BY <1>1, <1>2, <3>1, <3>2, RingsStay
  <2>4. TypeOK'
    BY <1>1, <1>2, <1>3, <1>5, <2>1 DEF Inv, TypeOK, host, SlotType
  <2>5. /\ WayInv' /\ CallInv' /\ SessionInv' /\ HostChannels'
        /\ \A a \in Got : a.fresh => Promised(a)'
    BY <1>2, <2>2, ControllerKeeps
  <2>6. AnswerInv'
    BY <1>5, <2>5 DEF AnswerInv, Got
  <2>7. SlotInv'
    BY <2>1 DEF Inv, SlotInv, RunningHasDma
  <2> QED BY <1>2, <2>3, <2>4, <2>5, <2>6, <2>7 DEF Inv
<1> QED BY <1>3, <1>4, <1>5 DEF BeginClose

LEMMA FinishCloseKeeps ==
  ASSUME Inv, FinishClose
  PROVE  Inv'
<1>1. /\ closing # NoRequest /\ WorkerGone(closing.id)
      /\ slot' = [slot EXCEPT ![closing.id] =
                    IF closing.cmd = "close" THEN Free ELSE [@ EXCEPT !.worker = FALSE]]
      /\ ring' = [ring EXCEPT ![closing.id] = Cleared(ring[closing.id])]
      /\ closing' = NoRequest /\ Respond(closing, TRUE)
      /\ UNCHANGED <<host, sent, rx, queue, serving>>
  BY DEF FinishClose, Finish
<1>2. PICK h \in Requests : h = closing
  BY DEF Inv, TypeOK
<1>3. /\ h \in Way /\ h.cmd \in {"stop", "close"} /\ h.id \in Slot /\ h.id # None /\ Awaited(h)
  <2>1. h \in Way /\ h.cmd \in {"stop", "close"}
    BY <1>1, <1>2, Members DEF Inv, Placed
  <2> QED BY <2>1, Places, WayAwaited DEF Inv, WayInv, WellFormed
<1>4. PICK r \in Rings, q \in Rings :
        /\ r = ring[h.id] /\ ring'[h.id] = q /\ ring' \in [Slot -> Rings]
        /\ \A j \in Slot : j # h.id => ring'[j] = ring[j]
        /\ q.held = r.held /\ q.adding = r.adding /\ q.taking = r.taking
        /\ q.head = 0 /\ q.tail = 0 /\ q.count = 0 /\ q.raced = (r.adding # 0)
  <2>1. ring \in [Slot -> Rings] /\ ring[h.id] \in Rings
    BY <1>3 DEF Inv, TypeOK
  <2>2. PICK r \in Rings : r = ring[h.id]
    BY <2>1
  <2>3. PICK q : q = Cleared(r)
    OBVIOUS
  <2>4. /\ q \in Rings /\ q.held = r.held /\ q.adding = r.adding /\ q.taking = r.taking
        /\ q.head = 0 /\ q.tail = 0 /\ q.count = 0 /\ q.raced = (r.adding # 0)
    <3>1. 0 \in Place /\ 0 \in 0 .. QueueDepth
      BY RingType
    <3> QED BY <2>3, <3>1 DEF Cleared, Rings
  <2>5. ring' = [ring EXCEPT ![h.id] = q]
    BY <1>1, <1>2, <2>2, <2>3
  <2> QED BY <1>3, <2>1, <2>2, <2>4, <2>5
<1>5. Kept(h.id) /\ serving[h.id] = NoRequest /\ r.taking = 0
  BY <1>1, <1>2, <1>3, <1>4 DEF Inv, RingInv, Kept, WorkerGone
<1>6. /\ \A p \in Place : ~Waits(q, p)
      /\ \A m \in Way' : m \in Way
  <2>1. \A p \in Place : ~Waits(q, p)
    BY <1>4, <1>5, RingType DEF Waits, Size
  <2>2. SUFFICES ASSUME NEW m \in Way' PROVE m \in Way
    BY <2>1
  <2>3. m \in Requests \ {NoRequest}
    BY <2>2 DEF Way
  <2>4. CASE \E j \in Slot : \E p \in Place : Waits(ring'[j], p) /\ m = ring'[j].held[p]
    <3>1. PICK j \in Slot, p \in Place : Waits(ring'[j], p) /\ m = ring'[j].held[p]
      BY <2>4
    <3>2. j # h.id /\ ring'[j] = ring[j]
      BY <1>4, <2>1, <3>1
    <3> QED BY <3>1, <3>2, Members
  <2>5. CASE \E j \in Slot : ~ring'[j].raced /\ m = serving[j]
    <3>1. PICK j \in Slot : ~ring'[j].raced /\ m = serving[j]
      BY <2>5
    <3>2. j # h.id /\ ring'[j] = ring[j]
      BY <1>4, <1>5, <2>3, <3>1
    <3> QED BY <2>3, <3>1, <3>2, Members
  <2>6. CASE \/ \E n \in DOMAIN sent : m = sent[n]
             \/ m = rx
             \/ \E n \in DOMAIN queue : m = queue[n]
    BY <2>3, <2>6, Members
  <2> QED BY <1>1, <2>2, <2>3, <2>4, <2>5, <2>6 DEF Way
<1>7. PICK e \in SlotType :
        /\ slot' = [slot EXCEPT ![h.id] = e]
        /\ h.cmd # "close" => /\ e.allocated = slot[h.id].allocated
                              /\ e.owner = slot[h.id].owner /\ e.running = slot[h.id].running
                              /\ e.dma = slot[h.id].dma /\ e.stream = slot[h.id].stream
        /\ h.cmd = "close" => e.running = FALSE
        /\ e.worker = FALSE
  <2>1. slot[h.id] \in SlotType
    BY <1>3 DEF Inv, TypeOK, SlotType
  <2>2. CASE h.cmd = "close"
    <3>1. Free \in SlotType /\ Free.running = FALSE /\ Free.worker = FALSE
      BY DEF Free, SlotType
    <3> QED BY <1>1, <1>2, <2>2, <3>1
  <2>3. CASE h.cmd # "close"
    <3> DEFINE e == [slot[h.id] EXCEPT !.worker = FALSE]
    <3>1. /\ e \in SlotType /\ e.worker = FALSE
          /\ e.allocated = slot[h.id].allocated
          /\ e.owner = slot[h.id].owner /\ e.running = slot[h.id].running
          /\ e.dma = slot[h.id].dma /\ e.stream = slot[h.id].stream
      BY <2>1 DEF SlotType
    <3>2. slot' = [slot EXCEPT ![h.id] = e]
      BY <1>1, <1>2, <2>3
    <3> QED BY <2>3, <3>1, <3>2
  <2> QED BY <2>2, <2>3
<1>8. /\ slot' \in [Slot -> SlotType] /\ slot'[h.id] = e
      /\ \A i \in Slot : i # h.id => slot'[i] = slot[i]
  <2>1. slot \in [Slot -> SlotType]
    BY DEF Inv, TypeOK, SlotType
  <2> QED BY <1>3, <1>7, <2>1
<1>9. answers' \in Seq(Answers) /\ \A a \in Got' : a \in Got \/ a = Answer(h, TRUE)
  BY <1>1, <1>2, Responded DEF Inv
<1>10. TypeOK'
  BY <1>1, <1>4, <1>8, <1>9, NoneIsRequest DEF Inv, TypeOK, host, SlotType
<1>11. Ordered'
  <2>1. \A m \in Requests : Behind(NoRequest, m)
    BY NoneIsRequest, Places, RequestFields DEF Behind
  <2>2. /\ rx \in Requests /\ \A k \in DOMAIN sent : sent[k] \in Requests
        /\ \A n \in DOMAIN queue : queue[n] \in Requests
    BY Members, Places DEF Way, Inv, TypeOK
  <2>3. /\ Behind(closing', rx) /\ \A k \in DOMAIN sent : Behind(closing', sent[k])
        /\ \A n \in DOMAIN queue : Behind(closing', queue[n])
    BY <1>1, <2>1, <2>2
  <2> QED BY <1>1, <2>3 DEF Inv, Ordered
<1>12. Placed'
  BY <1>1 DEF Inv, Placed
<1>13. h.cmd = "close" => Freed(h.id)
  <2>1. SUFFICES ASSUME h.cmd = "close", NEW m \in Way', m.id = h.id PROVE FALSE
    BY <1>2, <1>3 DEF Freed
  <2>2. m # NoRequest
    BY <2>1 DEF Way
  <2>3. CASE m = rx \/ \E n \in DOMAIN sent : m = sent[n]
    BY <1>2, <2>1, <2>2, <2>3 DEF Inv, Ordered, Behind
  <2>4. CASE \E n \in DOMAIN queue : m = queue[n]
    BY <1>2, <2>1, <2>2, <2>4 DEF Inv, Ordered, Behind
  <2>5. CASE \E j \in Slot : \E p \in Place : Waits(ring'[j], p) /\ m = ring'[j].held[p]
    <3>1. PICK j \in Slot, p \in Place : Waits(ring'[j], p) /\ m = ring'[j].held[p]
      BY <2>5
    <3>2. j # h.id /\ ring'[j] = ring[j]
      BY <1>4, <1>6, <3>1
    <3> QED BY <1>3, <2>1, <3>1, <3>2 DEF Inv, RingInv, Kept, Entry
  <2>6. CASE \E j \in Slot : m = serving[j]
    <3>1. PICK j \in Slot : m = serving[j]
      BY <2>6
    <3>2. j # h.id
      BY <1>5, <2>2, <3>1
    <3> QED BY <1>3, <2>1, <2>2, <3>1, <3>2 DEF Inv, RingInv, Kept, Entry
  <2> QED BY <1>1, <2>1, <2>2, <2>3, <2>4, <2>5, <2>6 DEF Way
<1>14. \A i \in Slot : (KeepsOwner(i) /\ KeepsBuffer(i)) \/ Freed(i)
  <2>1. \A i \in Slot : i # h.id => KeepsOwner(i) /\ KeepsBuffer(i)
    BY <1>8 DEF KeepsOwner, KeepsBuffer
  <2>2. h.cmd # "close" => KeepsOwner(h.id) /\ KeepsBuffer(h.id)
    BY <1>7, <1>8 DEF KeepsOwner, KeepsBuffer
  <2> QED BY <1>13, <2>1, <2>2
<1>15. /\ WayInv' /\ CallInv' /\ SessionInv' /\ HostChannels'
       /\ \A a \in Got : a.fresh => Promised(a)'
  BY <1>1, <1>6, <1>14, ControllerKeeps
<1>16. AnswerInv'
  <2>1. h.fresh => Promised(Answer(h, TRUE))'
    BY <1>1, <1>3, PlainAnswer
  <2>2. TRUE \in BOOLEAN
    OBVIOUS
  <2> QED BY <1>9, <1>15, <2>1, <2>2, AnswerKeeps
<1>17. SlotInv'
  BY <1>7, <1>8 DEF Inv, SlotInv, RunningHasDma
<1>18. RingInv'
  <2>1. session' = session /\ line' = line
    BY <1>1 DEF host
  <2>2. ASSUME NEW j \in Slot, j # h.id
        PROVE  Kept(j)'
    <3>1. serving[j] # NoRequest => slot'[j].worker
      BY <1>8, <2>2 DEF Inv, RingInv, Kept
    <3> QED BY <1>1, <1>4, <2>1, <2>2, <3>1, KeptStays
  <2>3. Kept(h.id)'
    <3>1. \A m : Entry(m, h.id) => Entry(m, h.id)'
      BY <2>1 DEF Entry, Awaited
    <3>2. (\A p \in Place : Entry(q.held[p], h.id))'
      BY <1>4, <1>5, <3>1 DEF Kept
    <3>3. (~q.raced => Exact(q))'
      BY <1>4, <1>5, RingType DEF Exact, Stored, Size, Offset
    <3> QED BY <1>1, <1>4, <1>5, <3>2, <3>3 DEF Kept
  <2> QED BY <2>2, <2>3 DEF RingInv
<1> QED BY <1>10, <1>11, <1>12, <1>15, <1>16, <1>17, <1>18 DEF Inv


-----------------------------------------------------------------------------
(* The data workers.                                                       *)

(* The first of those that wait is taken.                                  *)
LEMMA Takes ==
  ASSUME NEW r \in Rings, NEW q, q = Pop(r)
  PROVE  /\ q \in Rings /\ q.held = r.held /\ q.tail = r.tail /\ q.count = r.count
         /\ q.adding = r.adding /\ q.taking = r.count
         /\ q.raced = (r.raced \/ r.adding # 0)
         /\ Offset(r, r.head) = 0
         /\ \A p \in Place : Offset(q, p) = IF Offset(r, p) = 0 THEN QueueDepth - 1
                                            ELSE Offset(r, p) - 1
<1>1. /\ r.head \in 0 .. QueueDepth - 1 /\ QueueDepth \in Nat \ {0}
      /\ \A p \in Place : p \in 0 .. QueueDepth - 1
      /\ r.count \in 0 .. QueueDepth
  BY RingType
<1>2. After(r.head) \in Place
      /\ After(r.head) = IF r.head = QueueDepth - 1 THEN 0 ELSE r.head + 1
  BY RingType, Next1
<1>3. /\ q \in Rings /\ q.held = r.held /\ q.tail = r.tail /\ q.count = r.count
      /\ q.adding = r.adding /\ q.taking = r.count /\ q.head = After(r.head)
      /\ q.raced = (r.raced \/ r.adding # 0)
  BY <1>1, <1>2 DEF Pop, Rings
<1> QED BY <1>1, <1>2, <1>3 DEF Offset

LEMMA BeginDataKeeps ==
  ASSUME Inv, NEW i \in Slot, BeginData(i)
  PROVE  Inv'
<1>1. PICK r \in Rings, q \in Rings, h \in Requests :
        /\ r = ring[i] /\ q = Pop(r) /\ h = r.held[r.head] /\ r.head \in Place
        /\ ring' = [ring EXCEPT ![i] = q] /\ serving' = [serving EXCEPT ![i] = h]
  <2>1. PICK r \in Rings : r = ring[i]
    BY DEF Inv, TypeOK
  <2>2. PICK q \in Rings : q = Pop(r)
    BY Takes
  <2>3. r.held[r.head] \in Requests /\ r.head \in Place
    BY RingType
  <2> QED BY <2>1, <2>2, <2>3 DEF BeginData
<1>2. /\ slot[i].worker /\ serving[i] = NoRequest /\ r.count > 0
      /\ UNCHANGED <<host, sent, rx, queue, closing, slot, answers>>
  BY <1>1 DEF BeginData
<1>3. /\ q.held = r.held /\ q.tail = r.tail /\ q.count = r.count
      /\ q.adding = r.adding /\ q.taking = r.count
      /\ q.raced = (r.raced \/ r.adding # 0)
      /\ q.raced \in BOOLEAN /\ r.raced \in BOOLEAN
      /\ Offset(r, r.head) = 0
      /\ \A p \in Place : Offset(q, p) = IF Offset(r, p) = 0 THEN QueueDepth - 1
                                         ELSE Offset(r, p) - 1
      /\ r.tail \in Place /\ r.count \in 1 .. QueueDepth /\ QueueDepth \in Nat
      /\ \A p \in Place : Offset(r, p) \in 0 .. QueueDepth - 1
  BY <1>1, <1>2, Takes, RingType
<1>4. /\ ring' \in [Slot -> Rings] /\ ring'[i] = q
      /\ \A j \in Slot : j # i => ring'[j] = ring[j]
      /\ serving' \in [Slot -> Requests] /\ serving'[i] = h
      /\ \A j \in Slot : j # i => serving'[j] = serving[j]
  BY <1>1 DEF Inv, TypeOK
<1>5. Kept(i) /\ r.taking = 0
  BY <1>1, <1>2 DEF Inv, RingInv, Kept
<1>6. TypeOK'
  BY <1>2, <1>4 DEF Inv, TypeOK, host
<1>7. ASSUME NEW p \in Place, Waits(q, p)
      PROVE  Waits(r, p)
  <2>1. ~r.raced /\ Offset(q, p) < r.count - 1
    BY <1>2, <1>3, <1>7 DEF Waits, Size
  <2> QED BY <1>3, <1>5, <2>1 DEF Waits, Size
<1>8. \A m \in Way' : m \in Way
  <2>1. SUFFICES ASSUME NEW m \in Way' PROVE m \in Way
    OBVIOUS
  <2>2. m \in Requests \ {NoRequest}
    BY <2>1 DEF Way
  <2>3. CASE \E j \in Slot : \E p \in Place : Waits(ring'[j], p) /\ m = ring'[j].held[p]
    <3>1. PICK j \in Slot, p \in Place : Waits(ring'[j], p) /\ m = ring'[j].held[p]
      BY <2>3
    <3>2. CASE j # i
      BY <1>4, <3>1, <3>2, Members
    <3>3. CASE j = i
      BY <1>1, <1>3, <1>4, <1>7, <3>1, <3>3, Members
    <3> QED BY <3>2, <3>3
  <2>4. CASE \E j \in Slot : ~ring'[j].raced /\ m = serving'[j]
    <3>1. PICK j \in Slot : ~ring'[j].raced /\ m = serving'[j]
      BY <2>4
    <3>2. CASE j # i
      BY <1>4, <2>2, <3>1, <3>2, Members
    <3>3. CASE j = i
      <4>1. Waits(r, r.head)
        BY <1>3, <1>4, <1>5, <3>1, <3>3 DEF Waits, Size
      <4> QED BY <1>1, <1>4, <3>1, <3>3, <4>1, Members
    <3> QED BY <3>2, <3>3
  <2>5. CASE \/ \E n \in DOMAIN sent : m = sent[n]
             \/ m = rx
             \/ m = closing
             \/ \E n \in DOMAIN queue : m = queue[n]
    BY <2>2, <2>5, Members
  <2> QED BY <1>2, <2>1, <2>3, <2>4, <2>5 DEF Way
<1>9. Ordered' /\ Placed'
  BY <1>2 DEF Inv, Ordered, Placed
<1>10. /\ WayInv' /\ CallInv' /\ SessionInv' /\ HostChannels'
       /\ \A a \in Got : a.fresh => Promised(a)'
  BY <1>2, <1>8, SlotsKept, ControllerKeeps
<1>11. AnswerInv'
  BY <1>2, <1>10 DEF AnswerInv, Got
<1>12. SlotInv'
  BY <1>2 DEF Inv, SlotInv, RunningHasDma
<1>13. RingInv'
  <2>1. session' = session /\ line' = line
    BY <1>2 DEF host
  <2>2. ASSUME NEW j \in Slot, j # i
        PROVE  Kept(j)'
    <3>1. serving[j] # NoRequest => slot'[j].worker
      BY <1>2 DEF Inv, RingInv, Kept
    <3> QED BY <1>2, <1>4, <2>1, <2>2, <3>1, KeptStays
  <2>3. Kept(i)'
    <3>1. \A m : Entry(m, i) => Entry(m, i)'
      BY <2>1 DEF Entry, Awaited
    <3>2. (\A p \in Place : Entry(q.held[p], i))' /\ Entry(h, i)
      BY <1>1, <1>3, <1>5, <3>1 DEF Kept
    <3>3. h # NoRequest
      BY <3>2, NoneIsRequest DEF Entry
    <3>4. (~q.raced => Exact(q))'
      <4>1. SUFFICES ASSUME ~q.raced PROVE Exact(q)
        BY DEF Exact, Stored, Size, Offset
      <4>2. ~r.raced /\ r.adding = 0 /\ Exact(r)
        BY <1>1, <1>3, <1>5, <4>1 DEF Kept
      <4>3. Offset(r, r.tail) = IF r.count = QueueDepth THEN 0 ELSE r.count
        BY <1>3, <1>5, <4>2 DEF Exact, Stored, Size
      <4>4. Offset(q, q.tail) = r.count - 1
        BY <1>3, <4>3
      <4>5. Stored(q) = r.count - 1
        BY <1>3, <4>2 DEF Stored, Size
      <4> QED BY <1>3, <4>2, <4>4, <4>5 DEF Exact
    <3>5. (Entry(h, i))'
      BY <3>1, <3>2
    <3> QED BY <1>1, <1>2, <1>3, <1>4, <1>5, <3>2, <3>3, <3>4, <3>5 DEF Kept
  <2> QED BY <2>2, <2>3 DEF RingInv
<1> QED BY <1>6, <1>8, <1>9, <1>10, <1>11, <1>12, <1>13 DEF Inv

LEMMA CountDataKeeps ==
  ASSUME Inv, NEW i \in Slot, CountData(i)
  PROVE  Inv'
<1>1. PICK r \in Rings : r = ring[i]
  BY DEF Inv, TypeOK
<1>2. PICK q : q = [r EXCEPT !.count = r.taking - 1, !.taking = 0]
  OBVIOUS
<1>3. /\ r.taking # 0 /\ ring' = [ring EXCEPT ![i] = q]
      /\ UNCHANGED <<host, sent, rx, queue, closing, serving, slot, answers>>
  BY <1>1, <1>2 DEF CountData
<1>4. /\ q \in Rings /\ q.held = r.held /\ q.head = r.head /\ q.tail = r.tail
      /\ q.count = r.taking - 1 /\ q.adding = r.adding /\ q.taking = 0 /\ q.raced = r.raced
      /\ r.count \in Nat /\ r.taking \in 1 .. QueueDepth
  <2>1. r.taking \in 1 .. QueueDepth /\ r.count \in Nat /\ QueueDepth \in Nat
    BY <1>3, RingType
  <2>2. r.taking - 1 \in 0 .. QueueDepth /\ 0 \in 0 .. QueueDepth
    BY <2>1
  <2> QED BY <1>2, <2>1, <2>2 DEF Rings
<1>5. /\ ring' \in [Slot -> Rings] /\ ring'[i] = q
      /\ \A j \in Slot : j # i => ring'[j] = ring[j]
  BY <1>3, <1>4 DEF Inv, TypeOK
<1>6. Kept(i) /\ session' = session /\ line' = line
  BY <1>3 DEF Inv, RingInv, host
<1>7. ~r.raced => Exact(r) /\ r.adding = 0 /\ r.taking = r.count /\ Size(q) = Size(r)
  BY <1>1, <1>3, <1>4, <1>6 DEF Kept, Exact, Size
<1>8. \A p : Offset(q, p) = Offset(r, p)
  BY <1>4 DEF Offset
<1>9. Kept(i)'
  <2>1. \A m : Entry(m, i) => Entry(m, i)'
    BY <1>6 DEF Entry, Awaited
  <2>2. (~q.raced => Exact(q))'
    BY <1>4, <1>7, <1>8 DEF Exact, Stored, Size, Offset
  <2>3. (\A p \in Place : Entry(q.held[p], i))'
    BY <1>1, <1>4, <1>6, <2>1 DEF Kept
  <2>4. serving[i] # NoRequest => Entry(serving[i], i)' /\ slot[i].worker
    BY <1>3, <1>6, <2>1 DEF Kept
  <2>5. q.adding # 0 => q.raced /\ rx.cmd = "data" /\ rx.id = i
    BY <1>1, <1>4, <1>6, <1>7 DEF Kept
  <2> QED BY <1>3, <1>4, <1>5, <2>2, <2>3, <2>4, <2>5 DEF Kept
<1>10. RingInv'
  <2>1. \A j \in Slot : serving[j] # NoRequest => slot'[j].worker
    BY <1>3 DEF Inv, RingInv, Kept
  <2> QED BY <1>3, <1>5, <1>6, <1>9, <2>1, KeptStays DEF RingInv
<1>11. \A m \in Way' : m \in Way
  <2>1. \A p : Waits(q, p) => Waits(r, p)
    BY <1>4, <1>7, <1>8 DEF Waits
  <2>2. \A j \in Slot : \A p : Waits(ring'[j], p) => Waits(ring[j], p)
    BY <1>1, <1>5, <2>1
  <2>3. \A j \in Slot : ring'[j].held = ring[j].held /\ ring'[j].raced = ring[j].raced
    BY <1>1, <1>4, <1>5
  <2> QED BY <1>3, <2>2, <2>3 DEF Way
<1> QED BY <1>3, <1>5, <1>10, <1>11, RxStepKeeps

LEMMA FinishDataKeeps ==
  ASSUME Inv, NEW i \in Slot, FinishData(i)
  PROVE  Inv'
<1>1. PICK ok \in BOOLEAN :
        /\ serving[i] # NoRequest /\ ring[i].taking = 0
        /\ serving' = [serving EXCEPT ![i] = NoRequest]
        /\ Respond(serving[i], ok)
        /\ UNCHANGED <<host, sent, rx, queue, ring, closing, slot>>
  <2>1. \A ok \in Outcomes(serving[i]) : ok \in BOOLEAN
    BY DEF Outcomes
  <2> QED BY <2>1 DEF FinishData
<1>2. PICK m \in Requests : m = serving[i]
  BY DEF Inv, TypeOK
<1>3. m.cmd = "data" /\ Awaited(m)
  BY <1>1, <1>2 DEF Inv, RingInv, Kept, Entry
<1>4. /\ serving' \in [Slot -> Requests] /\ serving'[i] = NoRequest
      /\ \A j \in Slot : j # i => serving'[j] = serving[j]
  BY <1>1, NoneIsRequest DEF Inv, TypeOK
<1>5. answers' \in Seq(Answers) /\ \A a \in Got' : a \in Got \/ a = Answer(m, ok)
  BY <1>1, <1>2, Responded DEF Inv
<1>6. TypeOK'
  BY <1>1, <1>4, <1>5 DEF Inv, TypeOK, host
<1>7. \A k \in Way' : k \in Way
  BY <1>1, <1>4 DEF Way, Waits
<1>8. Ordered' /\ Placed'
  BY <1>1 DEF Inv, Ordered, Placed
<1>9. /\ WayInv' /\ CallInv' /\ SessionInv' /\ HostChannels'
      /\ \A a \in Got : a.fresh => Promised(a)'
  BY <1>1, <1>7, SlotsKept, ControllerKeeps
<1>10. AnswerInv'
  BY <1>1, <1>3, <1>5, <1>9, PlainAnswer, AnswerKeeps
<1>11. SlotInv'
  BY <1>1 DEF Inv, SlotInv, RunningHasDma
<1>12. RingInv'
  <2>1. session' = session /\ line' = line
    BY <1>1 DEF host
  <2>2. ASSUME NEW j \in Slot, j # i
        PROVE  Kept(j)'
    <3>1. serving[j] # NoRequest => slot'[j].worker
      BY <1>1 DEF Inv, RingInv, Kept
    <3> QED BY <1>1, <1>4, <2>1, <2>2, <3>1, KeptStays
  <2>3. Kept(i)'
    <3>1. \A k : Entry(k, i) => Entry(k, i)'
      BY <2>1 DEF Entry, Awaited
    <3>2. Kept(i)
      BY DEF Inv, RingInv
    <3>3. (\A p \in Place : Entry(ring[i].held[p], i))'
      BY <1>1, <3>1, <3>2 DEF Kept
    <3> QED BY <1>1, <1>4, <3>2, <3>3 DEF Kept, Exact, Stored, Size, Offset
  <2> QED BY <2>2, <2>3 DEF RingInv
<1> QED BY <1>6, <1>8, <1>9, <1>10, <1>11, <1>12 DEF Inv

-----------------------------------------------------------------------------
(* The controller.                                                         *)

LEMMA ControllerStepKeeps ==
  ASSUME Inv, Controller
  PROVE  Inv'
<1>1. CASE RxTake \/ RxQueueControl
  BY <1>1, RxTakeKeeps, RxQueueControlKeeps
<1>2. CASE RxQueue \/ RxCount \/ RxServe
  BY <1>2, RxQueueKeeps, RxCountKeeps, RxServeKeeps
<1>3. CASE Allocate
  BY <1>3, AllocateKeeps
<1>4. CASE Configure
  BY <1>4, ConfigureKeeps
<1>5. CASE Trigger
  BY <1>5, TriggerKeeps
<1>6. CASE StopOrClose
  BY <1>6, BeginCloseKeeps DEF StopOrClose
<1>7. CASE FinishClose
  BY <1>7, FinishCloseKeeps
<1>8. ASSUME NEW i \in Slot, BeginData(i) \/ CountData(i) \/ FinishData(i)
      PROVE  Inv'
  BY <1>8, BeginDataKeeps, CountDataKeeps, FinishDataKeeps
<1> QED BY <1>1, <1>2, <1>3, <1>4, <1>5, <1>6, <1>7, <1>8 DEF Controller

-----------------------------------------------------------------------------
(* The calls of the audio service.                                         *)

SessionType ==
  [at : {"idle", "open", "config", "start", "undo", "data", "stop", "close stop",
         "close"},
   acquired : BOOLEAN, open : BOOLEAN, prepared : BOOLEAN, running : BOOLEAN,
   id : Channel, channel : Channel]

(* The rings stay, and what was awaited still is.                          *)
LEMMA RingsAgain ==
  ASSUME Inv, UNCHANGED <<rx, ring, serving, slot>>,
         \A m : Awaited(m) => Awaited(m)'
  PROVE  RingInv'
<1>1. SUFFICES ASSUME NEW i \in Slot PROVE Kept(i)'
  BY DEF RingInv
<1>2. Kept(i)
  BY DEF Inv, RingInv
<1>3. \A m : Entry(m, i) => Entry(m, i)'
  BY DEF Entry
<1> QED BY <1>2, <1>3 DEF Kept, Exact, Stored, Size, Offset

(* A call begins: nothing is sent yet, and the line is another session's.  *)
LEMMA CallKeeps ==
  ASSUME Inv, NEW s \in Sessions, session[s].at = "idle",
         NEW e \in SessionType, session' = [session EXCEPT ![s] = e], CallOK(e),
         e.open = session[s].open, e.id = session[s].id,
         e.prepared = session[s].prepared,
         UNCHANGED <<line, setting, way, slot>>,
         refs' \in Nat, channels' \subseteq Channel, HostChannels'
  PROVE  Inv'
<1>1. /\ session' \in [Sessions -> SessionType] /\ session'[s] = e
      /\ \A t \in Sessions : t # s => session'[t] = session[t]
  BY DEF Inv, TypeOK, SessionType
<1>2. UNCHANGED <<line, setting, sent, rx, queue, ring, closing, serving, answers, slot>>
  BY DEF way
<1>3. line # Nobody => line \in Sessions /\ line # s /\ session'[line] = session[line]
  BY <1>1 DEF Inv, CallInv, TypeOK
<1>4. TypeOK'
  BY <1>1, <1>2 DEF Inv, TypeOK, SessionType
<1>5. Ordered' /\ Placed' /\ SlotInv' /\ RingInv'
  <2>1. \A m : Awaited(m) => Awaited(m)'
    BY <1>2, <1>3 DEF Awaited
  <2>2. RingInv'
    BY <1>2, <2>1, RingsAgain
  <2> QED BY <1>2, <2>2 DEF Inv, Ordered, Placed, SlotInv, RunningHasDma
<1>6. Way' = Way /\ Got' = Got
  BY <1>2 DEF Way, Got, Waits
<1>7. \A i \in Slot : HasBuffer(i) => HasBuffer(i)'
  BY <1>2, <1>6 DEF HasBuffer
<1>8. WayInv'
  <2>1. ASSUME NEW m \in Way
        PROVE  /\ WellFormed(m) /\ OwnsSlot(m)' /\ Awaited(m)'
               /\ (m.cmd = "start" => HasBuffer(m.id)')
    <3>1. /\ WellFormed(m) /\ OwnsSlot(m) /\ Awaited(m)
          /\ (m.cmd = "start" => HasBuffer(m.id))
      BY DEF Inv, WayInv
    <3>2. OwnsSlot(m)'
      BY <1>2, <3>1 DEF OwnsSlot
    <3>3. Awaited(m)'
      BY <1>2, <1>3, <3>1 DEF Awaited
    <3>4. m.cmd = "start" => HasBuffer(m.id)'
      BY <1>7, <3>1 DEF WellFormed
    <3> QED BY <3>1, <3>2, <3>3, <3>4
  <2> QED BY <1>6, <2>1 DEF WayInv, WellFormed
<1>9. CallInv'
  <2>1. \A t \in Sessions : CallOK(session'[t])
    BY <1>1 DEF Inv, CallInv
  <2>2. line # Nobody => session'[line].at # "idle"
    BY <1>3 DEF Inv, CallInv
  <2> QED BY <1>2, <2>1, <2>2 DEF CallInv, CallOK
<1>10. \A t \in Sessions : /\ session'[t].open = session[t].open
                           /\ session'[t].id = session[t].id
                           /\ session'[t].prepared = session[t].prepared
  BY <1>1
<1>11. SessionInv'
  <2>1. ASSUME NEW t \in Sessions, Owns(t)'
        PROVE  OwnsStream(t)'
    <3>1. Owns(t)
      BY <1>1, <1>2, <1>10, <2>1 DEF Owns
    <3>2. OwnsStream(t) /\ session[t].id \in Slot
      BY <3>1 DEF Inv, SessionInv, CallInv, CallOK, Owns
    <3>3. PICK i \in Slot : i = session[t].id
      BY <3>2
    <3>4. session[t].prepared => HasBuffer(i)'
      BY <1>7, <3>2, <3>3 DEF OwnsStream
    <3> QED BY <1>2, <1>6, <1>10, <3>2, <3>3, <3>4 DEF OwnsStream
  <2>2. \A t, u \in Sessions :
          session'[t].open /\ session'[u].open /\ session'[t].id = session'[u].id => t = u
    BY <1>10 DEF Inv, SessionInv
  <2> QED BY <2>1, <2>2 DEF SessionInv
<1>12. AnswerInv'
  <2>1. ASSUME NEW a \in Got, a.fresh
        PROVE  Promised(a)'
    <3>1. Promised(a) /\ line # Nobody /\ line \in Sessions /\ session'[line] = session[line]
      BY <1>3, <2>1 DEF Inv, AnswerInv, Promised
    <3>2. a.ok /\ session[line].at = "open" => Opening(a)'
      BY <1>2, <1>6, <3>1 DEF Promised, Opening
    <3>3. a.ok /\ session[line].at = "config" => HasBuffer(session[line].id)'
      <4>1. SUFFICES ASSUME a.ok, session[line].at = "config"
                     PROVE  HasBuffer(session[line].id)'
        OBVIOUS
      <4>2. PICK i \in Slot : i = session[line].id
        BY <3>1, <4>1 DEF Inv, CallInv, CallOK
      <4> QED BY <1>2, <1>7, <3>1, <4>1, <4>2 DEF Promised
    <3> QED BY <1>2, <3>1, <3>2, <3>3 DEF Promised
  <2> QED BY <1>6, <2>1 DEF AnswerInv
<1> QED BY <1>4, <1>5, <1>8, <1>9, <1>11, <1>12 DEF Inv

(* Neither the channel of a session nor who holds the control channel is   *)
(* touched.                                                                *)
LEMMA SameChannels ==
  ASSUME HostChannels, UNCHANGED <<refs, channels>>,
         \A s \in Sessions : /\ session'[s].acquired = session[s].acquired
                             /\ session'[s].channel = session[s].channel
  PROVE  HostChannels'
<1>1. {s \in Sessions : session'[s].acquired} = {s \in Sessions : session[s].acquired}
  OBVIOUS
<1>2. {session'[s].channel : s \in Sessions} = {session[s].channel : s \in Sessions}
  OBVIOUS
<1> QED BY <1>1, <1>2 DEF HostChannels

LEMMA CallsKeep ==
  ASSUME Inv, NEW s \in Sessions, NEW guard,
         NEW call \in {"config", "start", "data", "stop", "close stop", "close"},
         Calls(s, guard, call),
         CallOK([session[s] EXCEPT !.at = call])
  PROVE  Inv'
<1>1. PICK e \in SessionType : e = [session[s] EXCEPT !.at = call]
  BY DEF Inv, TypeOK, SessionType
<1>2. session[s] \in SessionType
  BY DEF Inv, TypeOK, SessionType
<1>3. /\ e.open = session[s].open /\ e.id = session[s].id
      /\ e.prepared = session[s].prepared /\ e.acquired = session[s].acquired
      /\ e.channel = session[s].channel
  BY <1>1, <1>2 DEF SessionType
<1>4. /\ session[s].at = "idle" /\ UNCHANGED <<line, setting, way, slot>>
      /\ UNCHANGED <<refs, channels>> /\ session' = [session EXCEPT ![s].at = call]
  BY DEF Calls
<1>5. session' = [session EXCEPT ![s] = e]
  BY <1>1, <1>4 DEF Inv, TypeOK
<1>6. \A t \in Sessions : /\ session'[t].acquired = session[t].acquired
                          /\ session'[t].channel = session[t].channel
  BY <1>3, <1>5 DEF Inv, TypeOK
<1>7. HostChannels' /\ refs' \in Nat /\ channels' \subseteq Channel
  BY <1>4, <1>6, SameChannels DEF Inv, TypeOK
<1> QED BY <1>1, <1>3, <1>4, <1>5, <1>7, CallKeeps

LEMMA CreateKeeps ==
  ASSUME Inv, NEW s \in Sessions, Create(s)
  PROVE  Inv'
<1>1. /\ session[s] = Closed /\ refs' = refs + 1
      /\ channels' = IF refs = 0 THEN channels \cup {Control} ELSE channels
      /\ session' = [session EXCEPT ![s].at = "open", ![s].acquired = TRUE]
      /\ UNCHANGED <<line, setting, way, slot>>
  BY DEF Create
<1>2. PICK e \in SessionType :
        /\ session' = [session EXCEPT ![s] = e] /\ CallOK(e)
        /\ e.open = FALSE /\ e.id = None /\ e.prepared = FALSE
        /\ e.acquired = TRUE /\ e.channel = None
  <2> DEFINE e == [Closed EXCEPT !.at = "open", !.acquired = TRUE]
  <2>1. /\ e \in SessionType /\ CallOK(e)
        /\ e.open = FALSE /\ e.id = None /\ e.prepared = FALSE
        /\ e.acquired = TRUE /\ e.channel = None
    BY Places DEF Closed, SessionType, CallOK
  <2>2. session' = [session EXCEPT ![s] = e]
    BY <1>1 DEF Inv, TypeOK
  <2> QED BY <2>1, <2>2
<1>3. /\ session[s].at = "idle" /\ session[s].open = FALSE /\ session[s].id = None
      /\ session[s].prepared = FALSE /\ session[s].acquired = FALSE
      /\ session[s].channel = None
  BY <1>1 DEF Closed
<1>4. \A t \in Sessions : /\ session'[t].channel = session[t].channel
                          /\ session'[t].acquired = (session[t].acquired \/ t = s)
  BY <1>2, <1>3 DEF Inv, TypeOK
<1>5. refs' \in Nat /\ channels' \subseteq Channel
  <2>1. refs' \in Nat
    <3>1. refs \in Nat /\ refs' = refs + 1
      BY <1>1 DEF Inv, TypeOK
    <3> QED BY <3>1
  <2>2. channels \subseteq Channel /\ {Control} \subseteq Channel
    BY Places DEF Inv, TypeOK
  <2> QED BY <1>1, <2>1, <2>2
<1>6. HostChannels'
  <2> DEFINE held == {t \in Sessions : session[t].acquired}
  <2>1. {t \in Sessions : session'[t].acquired} = held \cup {s}
    BY <1>4
  <2>2. IsFiniteSet(held) /\ s \notin held
    BY <1>3, FS_Subset, AudioStreamsAssumption
  <2>3. Cardinality(held \cup {s}) = Cardinality(held) + 1
    BY <2>2, FS_AddElement
  <2>4. refs' = Cardinality({t \in Sessions : session'[t].acquired})
    BY <1>1, <2>1, <2>3 DEF Inv, HostChannels
  <2>5. {session'[t].channel : t \in Sessions} = {session[t].channel : t \in Sessions}
    BY <1>4
  <2>6. channels' = ({session[t].channel : t \in Sessions} \ {None})
                      \cup (IF refs' > 0 THEN {Control} ELSE {})
    <3> DEFINE data == {session[t].channel : t \in Sessions} \ {None}
    <3>1. refs \in Nat /\ channels = data \cup (IF refs > 0 THEN {Control} ELSE {})
      BY DEF Inv, HostChannels, TypeOK
    <3> HIDE DEF data
    <3>2. refs' > 0 /\ (refs = 0 \/ refs > 0)
      BY <1>1, <3>1
    <3>3. channels' = data \cup {Control}
      BY <1>1, <3>1, <3>2
    <3> QED BY <3>2, <3>3 DEF data
  <2>7. \A t, u \in Sessions :
          session'[t].channel = session'[u].channel /\ session'[t].channel # None => t = u
    BY <1>4 DEF Inv, HostChannels
  <2> QED BY <2>4, <2>5, <2>6, <2>7 DEF HostChannels
<1> QED BY <1>1, <1>2, <1>3, <1>5, <1>6, CallKeeps

LEMMA CallStepKeeps ==
  ASSUME Inv, NEW s \in Sessions, Call(s)
  PROVE  Inv'
<1>1. session[s] \in SessionType /\ CallOK(session[s])
  BY DEF Inv, TypeOK, SessionType, CallInv
<1>2. ASSUME NEW call \in {"config", "start", "data", "stop", "close stop", "close"},
             session[s].at = "idle", session[s].open,
             call = "start" => session[s].prepared /\ ~session[s].running,
             call = "config" => ~session[s].prepared,
             call \in {"stop", "close stop"} => session[s].running,
             call = "close" => ~session[s].running
      PROVE  CallOK([session[s] EXCEPT !.at = call])
  <2>1. PICK e \in SessionType : e = [session[s] EXCEPT !.at = call]
    BY <1>1 DEF SessionType
  <2>2. /\ e.at = call /\ e.open = session[s].open /\ e.id = session[s].id
        /\ e.prepared = session[s].prepared /\ e.acquired = session[s].acquired
        /\ e.channel = session[s].channel /\ e.running = session[s].running
    BY <1>1, <2>1 DEF SessionType
  <2>3. CallOK(e)
    BY <1>1, <1>2, <2>2 DEF CallOK
  <2> QED BY <2>1, <2>3
<1>3. CASE Create(s)
  BY <1>3, CreateKeeps
<1>4. CASE Prepare(s)
  <2>1. session[s].at = "idle" /\ session[s].open /\ ~session[s].prepared
    BY <1>4 DEF Prepare, Calls
  <2>2. CallOK([session[s] EXCEPT !.at = "config"])
    BY <1>2, <2>1
  <2> QED BY <1>4, <2>2, CallsKeep DEF Prepare
<1>5. CASE Start(s)
  <2>1. session[s].at = "idle" /\ session[s].prepared /\ ~session[s].running
    BY <1>5 DEF Start, Calls
  <2>2. CallOK([session[s] EXCEPT !.at = "start"])
    BY <1>1, <1>2, <2>1 DEF CallOK
  <2> QED BY <1>5, <2>2, CallsKeep DEF Start
<1>6. CASE Transfer(s)
  <2>1. session[s].at = "idle" /\ session[s].running
    BY <1>6 DEF Transfer, Calls
  <2>2. CallOK([session[s] EXCEPT !.at = "data"])
    BY <1>1, <1>2, <2>1 DEF CallOK
  <2> QED BY <1>6, <2>2, CallsKeep DEF Transfer
<1>7. CASE Stop(s)
  <2>1. session[s].at = "idle" /\ session[s].running
    BY <1>7 DEF Stop, Calls
  <2>2. CallOK([session[s] EXCEPT !.at = "stop"])
    BY <1>1, <1>2, <2>1 DEF CallOK
  <2> QED BY <1>7, <2>2, CallsKeep DEF Stop
<1>8. CASE Remove(s)
  <2>1. session[s].at = "idle" /\ session[s].open
    BY <1>8 DEF Remove, Calls
  <2>2. PICK call \in {"close stop", "close"} :
          call = IF session[s].running THEN "close stop" ELSE "close"
    OBVIOUS
  <2>3. CallOK([session[s] EXCEPT !.at = call])
    BY <1>2, <2>1, <2>2
  <2> QED BY <1>8, <2>2, <2>3, CallsKeep DEF Remove
<1> QED BY <1>3, <1>4, <1>5, <1>6, <1>7, <1>8 DEF Call

-----------------------------------------------------------------------------
(* Sending.                                                                *)

(* Between round trips nothing is awaited.                                 *)
LEMMA NothingAwaited ==
  ASSUME Inv, line = Nobody
  PROVE  (\A m \in Way : ~m.fresh) /\ (\A a \in Got : ~a.fresh)
<1>1. \A m \in Way : m.fresh => line # Nobody
  BY DEF Inv, WayInv, Awaited
<1>2. \A a \in Got : a.fresh => line # Nobody
  BY DEF Inv, AnswerInv, Promised
<1>3. (\A m \in Way : m.fresh \in BOOLEAN) /\ (\A a \in Got : a.fresh \in BOOLEAN)
  BY RequestFields DEF Way, Got, Answers
<1> QED BY <1>1, <1>2, <1>3

(* What a session that holds no line asks for next.                        *)
LEMMA NextRequest ==
  ASSUME Inv, NEW s \in Sessions, session[s].at # "idle", line = Nobody,
         NEW m, m = [from |-> s, cmd |-> Command(session[s].at),
                     id |-> session[s].id, fresh |-> TRUE]
  PROVE  /\ m \in Requests /\ m # NoRequest /\ WellFormed(m)
         /\ m.from = s /\ m.cmd = Command(session[s].at) /\ m.id = session[s].id
         /\ m.cmd # "open" => session[s].open /\ OwnsStream(s)
         /\ m.cmd = "start" => session[s].prepared /\ session[s].at = "start"
         /\ m.cmd = "config" => ~session[s].prepared /\ session[s].at = "config"
         /\ m.cmd = "close" => session[s].at = "close"
         /\ \A a \in Way \cup {NoRequest} : Behind(a, m)
<1>1. /\ session[s] \in SessionType /\ CallOK(session[s])
      /\ session[s].at \in {"open", "config", "start", "undo", "data", "stop", "close stop",
                            "close"}
      /\ session[s].id \in Channel
  BY DEF Inv, TypeOK, SessionType, CallInv
<1>2. /\ m.from = s /\ m.cmd = Command(session[s].at) /\ m.id = session[s].id /\ m.fresh = TRUE
      /\ m.cmd \in {"open", "config", "start", "data", "stop", "close"}
      /\ m.cmd = "open" => session[s].at = "open"
      /\ m.cmd = "config" => session[s].at = "config"
      /\ m.cmd = "start" => session[s].at = "start"
      /\ m.cmd = "close" => session[s].at = "close"
      /\ session[s].at = "open" => m.cmd = "open"
  BY <1>1, CommandType
<1>3. m \in Requests
  BY <1>1, <1>2 DEF Requests
<1>4. m # NoRequest
  BY <1>2, NoneIsRequest
<1>5. m.cmd = "open" => m.id = None
  BY <1>1, <1>2 DEF CallOK
<1>6. m.cmd # "open" => session[s].open /\ m.id \in Slot
  BY <1>1, <1>2 DEF CallOK
<1>7. m.cmd # "open" => OwnsStream(s)
  <2>1. m.cmd # "open" => Owns(s)
    BY <1>6, AudioStreamsAssumption DEF Owns
  <2> QED BY <2>1 DEF Inv, SessionInv
<1>8. \A a \in Way \cup {NoRequest} : Behind(a, m)
  <2>1. ASSUME NEW a \in Way, a.cmd = "close"
        PROVE  m.id # a.id
    <3>1. a.id \in Slot
      BY <2>1 DEF Inv, WayInv, WellFormed
    <3>2. CASE m.cmd = "open"
      BY <1>5, <3>1, <3>2, Places
    <3>3. CASE m.cmd # "open"
      BY <1>2, <1>7, <2>1, <3>3 DEF OwnsStream
    <3> QED BY <3>2, <3>3
  <2> QED BY <2>1, NothingAwaited, NoneIsRequest DEF Behind
<1>9. (m.cmd = "start" => session[s].prepared) /\ (m.cmd = "config" => ~session[s].prepared)
  BY <1>1, <1>2 DEF CallOK
<1> QED BY <1>2, <1>3, <1>4, <1>5, <1>6, <1>7, <1>8, <1>9 DEF WellFormed

(* A new request is the last of all, and it may come, or be lost.          *)
LEMMA SentKeeps ==
  ASSUME Inv, NEW m \in Requests, m # NoRequest, sent' \in Posted(sent, m),
         UNCHANGED <<rx, queue, ring, closing, serving, slot>>,
         \A a \in Way \cup {NoRequest} : Behind(a, m)
  PROVE  /\ sent' \in Seq(Requests) /\ Ordered' /\ Placed'
         /\ \A k \in Way' : k \in Way \/ k = m
<1>1. CASE sent' = sent
  BY <1>1 DEF Inv, TypeOK, Ordered, Placed, Way, Waits
<1>2. CASE sent' = Append(sent, m)
  <2>1. /\ sent' \in Seq(Requests)
        /\ DOMAIN sent' = 1 .. Len(sent) + 1 /\ DOMAIN sent = 1 .. Len(sent)
        /\ Len(sent) \in Nat
        /\ \A n \in DOMAIN sent : sent'[n] = sent[n]
        /\ sent'[Len(sent) + 1] = m
    <3>1. sent \in Seq(Requests)
      BY DEF Inv, TypeOK
    <3> QED BY <1>2, <3>1, Appended
  <2>2. ASSUME NEW n \in DOMAIN sent' PROVE n \in DOMAIN sent \/ n = Len(sent) + 1
    BY <2>1
  <2>3. \A k \in Way' : k \in Way \/ k = m
    <3>1. \A n \in DOMAIN sent' : sent'[n] = m \/ \E j \in DOMAIN sent : sent'[n] = sent[j]
      BY <2>1, <2>2
    <3> QED BY <3>1 DEF Way, Waits
  <2>4. Placed'
    <3>1. \A n \in DOMAIN sent' : sent'[n] # NoRequest
      BY <2>1, <2>2 DEF Inv, Placed
    <3> QED BY <3>1 DEF Inv, Placed
  <2>5. Ordered'
    <3>1. /\ \A n \in DOMAIN sent : Behind(sent[n], m)
          /\ \A n \in DOMAIN queue : Behind(queue[n], m)
          /\ Behind(rx, m) /\ Behind(closing, m)
      BY Members, Places
    <3>2. \A n, k \in DOMAIN sent' : n < k => Behind(sent'[n], sent'[k])
      <4>1. ASSUME NEW n \in DOMAIN sent', NEW k \in DOMAIN sent', n < k
            PROVE  Behind(sent'[n], sent'[k])
        <5>1. n \in DOMAIN sent
          BY <2>1, <4>1
        <5>2. CASE k \in DOMAIN sent
          BY <2>1, <4>1, <5>1, <5>2 DEF Inv, Ordered
        <5>3. CASE k = Len(sent) + 1
          BY <2>1, <3>1, <5>1, <5>3
        <5> QED BY <2>2, <5>2, <5>3
      <4> QED BY <4>1
    <3>3. \A k \in DOMAIN sent' : Behind(rx, sent'[k]) /\ Behind(closing, sent'[k])
      BY <2>1, <2>2, <3>1 DEF Inv, Ordered
    <3>4. \A n \in DOMAIN queue, k \in DOMAIN sent' :
            Behind(queue[n], sent'[k])
      BY <2>1, <2>2, <3>1 DEF Inv, Ordered
    <3> QED BY <3>2, <3>3, <3>4 DEF Inv, Ordered
  <2> QED BY <2>1, <2>3, <2>4, <2>5
<1> QED BY <1>1, <1>2 DEF Posted

LEMMA SendKeeps ==
  ASSUME Inv, NEW s \in Sessions, Send(s)
  PROVE  Inv'
<1>1. PICK m \in Requests : m = [from |-> s, cmd |-> Command(session[s].at),
                                 id |-> session[s].id, fresh |-> TRUE]
  BY NextRequest DEF Send
<1>2. /\ session[s].at # "idle" /\ line = Nobody /\ line' = s /\ sent' \in Posted(sent, m)
      /\ UNCHANGED <<session, refs, channels, rx, queue, ring, closing, serving, slot, answers,
                     setting>>
  BY <1>1 DEF Send
<1>3. /\ m # NoRequest /\ WellFormed(m)
      /\ m.from = s /\ m.cmd = Command(session[s].at) /\ m.id = session[s].id
      /\ m.cmd # "open" => session[s].open /\ OwnsStream(s)
      /\ m.cmd = "start" => session[s].prepared /\ session[s].at = "start"
      /\ m.cmd = "config" => ~session[s].prepared /\ session[s].at = "config"
      /\ m.cmd = "close" => session[s].at = "close"
      /\ \A a \in Way \cup {NoRequest} : Behind(a, m)
  BY <1>1, <1>2, NextRequest
<1>4. /\ sent' \in Seq(Requests) /\ Ordered' /\ Placed'
      /\ \A k \in Way' : k \in Way \/ k = m
  BY <1>2, <1>3, SentKeeps
<1>5. TypeOK'
  BY <1>2, <1>4 DEF Inv, TypeOK
<1>6. HostChannels' /\ SlotInv' /\ CallInv' /\ RingInv'
  <2>1. \A k : Awaited(k) => Awaited(k)'
    BY <1>2 DEF Awaited
  <2>2. RingInv'
    BY <1>2, <2>1, RingsAgain
  <2> QED BY <1>2, <2>2 DEF Inv, HostChannels, SlotInv, RunningHasDma, CallInv, CallOK
<1>7. AnswerInv'
  BY <1>2, NothingAwaited DEF AnswerInv, Got
<1>8. ASSUME NEW i \in Slot, HasBuffer(i), m.cmd = "config" => m.id # i
      PROVE  HasBuffer(i)'
  BY <1>2, <1>4, <1>8 DEF HasBuffer
<1>9. WayInv'
  <2>1. ASSUME NEW k \in Way
        PROVE  OwnsSlot(k)' /\ Awaited(k)' /\ (k.cmd = "start" => HasBuffer(k.id)')
    <3>1. WellFormed(k) /\ OwnsSlot(k) /\ (k.cmd = "start" => HasBuffer(k.id)) /\ ~k.fresh
      BY <1>2, NothingAwaited DEF Inv, WayInv
    <3>2. k.cmd = "start" /\ m.cmd = "config" => m.id # k.id
      BY <1>3 DEF OwnsStream
    <3>3. k.cmd = "start" => HasBuffer(k.id)'
      BY <1>8, <3>1, <3>2 DEF WellFormed
    <3> QED BY <1>2, <3>1, <3>3 DEF OwnsSlot, Awaited
  <2>2. OwnsSlot(m)' /\ Awaited(m)' /\ (m.cmd = "start" => HasBuffer(m.id)')
    <3>1. OwnsSlot(m)'
      BY <1>2, <1>3 DEF OwnsSlot, OwnsStream
    <3>2. Awaited(m)'
      BY <1>2, <1>3, AudioStreamsAssumption DEF Awaited
    <3>3. m.cmd = "start" => HasBuffer(m.id)'
      BY <1>3, <1>8 DEF OwnsStream, WellFormed
    <3> QED BY <3>1, <3>2, <3>3
  <2>3. \A k \in Way : WellFormed(k)
    BY DEF Inv, WayInv
  <2> QED BY <1>3, <1>4, <2>1, <2>2, <2>3 DEF WayInv, WellFormed
<1>10. SessionInv'
  <2>1. ASSUME NEW t \in Sessions, Owns(t)'
        PROVE  OwnsStream(t)'
    <3>1. Owns(t) /\ (t = s => session[s].at # "close")
      BY <1>2, <2>1, AudioStreamsAssumption DEF Owns
    <3>2. OwnsStream(t) /\ session[t].open /\ session[t].id \in Slot
      BY <3>1 DEF Inv, SessionInv, CallInv, CallOK, Owns
    <3>3. PICK i \in Slot : i = session[t].id
      BY <3>2
    <3>4. m.cmd # "open" /\ m.id = i => t = s
      BY <1>3, <3>2, <3>3 DEF Inv, SessionInv
    <3>5. \A k \in Way' : k.cmd = "close" => k.id # i
      BY <1>3, <1>4, <3>1, <3>2, <3>3, <3>4 DEF OwnsStream
    <3>6. \A k \in Way' : k.cmd = "start" /\ k.id = i => session[t].prepared
      BY <1>3, <1>4, <3>2, <3>3, <3>4 DEF OwnsStream
    <3>7. session[t].prepared => HasBuffer(i)'
      BY <1>3, <1>8, <3>2, <3>3, <3>4 DEF OwnsStream
    <3> QED BY <1>2, <3>2, <3>3, <3>5, <3>6, <3>7 DEF OwnsStream
  <2>2. \A t, u \in Sessions :
          session[t].open /\ session[u].open /\ session[t].id = session[u].id => t = u
    BY DEF Inv, SessionInv
  <2> QED BY <1>2, <2>1, <2>2 DEF SessionInv
<1> QED BY <1>4, <1>5, <1>6, <1>7, <1>9, <1>10 DEF Inv

-----------------------------------------------------------------------------
(* The end of a round trip.                                                *)

LEMMA AgedBehind ==
  ASSUME NEW a \in Requests, NEW b \in Requests, Behind(a, b)
  PROVE  Behind(Aged(a), Aged(b))
BY AgedRequest DEF Behind

(* All that is under way is what was, and nobody awaits it.                *)
LEMMA Forgotten ==
  ASSUME Inv, NEW rest \in Seq(Answers), Forget(rest), UNCHANGED slot
  PROVE  /\ sent' \in Seq(Requests) /\ rx' \in Requests /\ closing' \in Requests
         /\ queue' \in Seq(Requests) /\ serving' \in [Slot -> Requests]
         /\ answers' \in Seq(Answers) /\ ring' \in [Slot -> Rings]
         /\ \A m \in Way' : /\ ~m.fresh
                            /\ \E k \in Way : k.from = m.from /\ k.cmd = m.cmd /\ k.id = m.id
         /\ \A a \in Got' : ~a.fresh
         /\ Ordered' /\ Placed' /\ RingInv'
<1>1. /\ sent \in Seq(Requests) /\ rx \in Requests /\ closing \in Requests
      /\ queue \in Seq(Requests) /\ serving \in [Slot -> Requests] /\ ring \in [Slot -> Rings]
  BY DEF Inv, TypeOK
<1>2. /\ sent' \in Seq(Requests) /\ DOMAIN sent' = DOMAIN sent
      /\ \A n \in DOMAIN sent : sent'[n] = Aged(sent[n]) /\ sent[n] \in Requests
  BY <1>1, AllAgedRequests DEF Forget
<1>3. rx' = Aged(rx) /\ rx' \in Requests /\ closing' = Aged(closing) /\ closing' \in Requests
  BY <1>1, AgedRequest DEF Forget
<1>4. /\ queue' \in Seq(Requests) /\ DOMAIN queue' = DOMAIN queue
      /\ \A n \in DOMAIN queue : queue'[n] = Aged(queue[n]) /\ queue[n] \in Requests
  BY <1>1, AllAgedRequests DEF Forget
<1>5. /\ serving' \in [Slot -> Requests]
      /\ \A i \in Slot : serving'[i] = Aged(serving[i]) /\ serving[i] \in Requests
  <2>1. serving' = [i \in Slot |-> Aged(serving[i])]
    BY <1>1 DEF Forget, AllAged
  <2> QED BY <1>1, <2>1, AgedRequest
<1>6. answers' \in Seq(Answers) /\ \A a \in Got' : ~a.fresh
  BY AllAgedAnswers DEF Forget, Got
<1>7. /\ ring' \in [Slot -> Rings]
       /\ \A i \in Slot :
            /\ ring'[i].raced = ring[i].raced /\ ring'[i].head = ring[i].head
            /\ ring'[i].tail = ring[i].tail /\ ring'[i].count = ring[i].count
            /\ ring'[i].adding = ring[i].adding /\ ring'[i].taking = ring[i].taking
            /\ \A p : Waits(ring'[i], p) = Waits(ring[i], p)
            /\ \A p \in Place : ring'[i].held[p] = Aged(ring[i].held[p])
                               /\ ring[i].held[p] \in Requests
  <2>1. SUFFICES ASSUME NEW i \in Slot
                 PROVE  /\ ring'[i] \in Rings
                        /\ ring'[i].raced = ring[i].raced /\ ring'[i].head = ring[i].head
                        /\ ring'[i].tail = ring[i].tail /\ ring'[i].count = ring[i].count
                        /\ ring'[i].adding = ring[i].adding /\ ring'[i].taking = ring[i].taking
                        /\ \A p : Waits(ring'[i], p) = Waits(ring[i], p)
                        /\ \A p \in Place : ring'[i].held[p] = Aged(ring[i].held[p])
                                           /\ ring[i].held[p] \in Requests
    BY DEF Forget
  <2>2. PICK r \in Rings : r = ring[i]
    BY <1>1
  <2>3. PICK f \in [Place -> Requests] :
          /\ f = AllAged(r.held)
          /\ \A p \in Place : f[p] = Aged(r.held[p]) /\ r.held[p] \in Requests
    <3>1. r.held \in [Place -> Requests]
      BY RingType
    <3>2. AllAged(r.held) = [p \in Place |-> Aged(r.held[p])]
      BY <3>1 DEF AllAged
    <3>3. \A p \in Place : Aged(r.held[p]) \in Requests /\ r.held[p] \in Requests
      BY <3>1, AgedRequest
    <3> QED BY <3>2, <3>3
  <2>4. ring'[i] = [r EXCEPT !.held = f]
    <3>1. ring'[i] = [ring[i] EXCEPT !.held = AllAged(ring[i].held)]
      BY DEF Forget
    <3> QED BY <2>2, <2>3, <3>1
  <2>5. /\ ring'[i] \in Rings /\ ring'[i].held = f
        /\ ring'[i].raced = r.raced /\ ring'[i].head = r.head
        /\ ring'[i].tail = r.tail /\ ring'[i].count = r.count
        /\ ring'[i].adding = r.adding /\ ring'[i].taking = r.taking
    BY <2>3, <2>4 DEF Rings
  <2>6. \A p : Waits(ring'[i], p) = Waits(r, p)
    BY <2>5 DEF Waits, Size, Offset
  <2> QED BY <2>2, <2>3, <2>5, <2>6
<1>8. \A k \in Way : /\ k \in Requests /\ ~Aged(k).fresh /\ Aged(k) # NoRequest
                     /\ Aged(k).from = k.from /\ Aged(k).cmd = k.cmd /\ Aged(k).id = k.id
  <2>1. \A k \in Way : k \in Requests /\ k.cmd # "none"
    BY DEF Inv, WayInv, WellFormed, Way
  <2> QED BY <2>1, AgedRequest, NoneIsRequest
<1>9. \A m \in Way' : \E k \in Way : m = Aged(k)
  <2>1. SUFFICES ASSUME NEW m \in Way' PROVE \E k \in Way : m = Aged(k)
    OBVIOUS
  <2>2. m # NoRequest /\ Aged(NoRequest) = NoRequest
    BY <2>1, AgedRequest, NoneIsRequest DEF Way
  <2>3. CASE \E n \in DOMAIN sent' : m = sent'[n]
    BY <1>2, <2>3, Members
  <2>4. CASE m = rx' \/ m = closing'
    BY <1>3, <2>2, <2>4, Members
  <2>5. CASE \E n \in DOMAIN queue' : m = queue'[n]
    BY <1>4, <2>5, Members
  <2>6. CASE \E i \in Slot : ~ring'[i].raced /\ m = serving'[i]
    BY <1>5, <1>7, <2>2, <2>6, Members
  <2>7. CASE \E i \in Slot : \E p \in Place : Waits(ring'[i], p) /\ m = ring'[i].held[p]
    BY <1>7, <2>7, Members
  <2> QED BY <2>1, <2>3, <2>4, <2>5, <2>6, <2>7 DEF Way
<1>10. Ordered'
  <2>2. \A n, k \in DOMAIN sent' : n < k => Behind(sent'[n], sent'[k])
    BY <1>2, AgedBehind DEF Inv, Ordered
  <2>3. \A k \in DOMAIN sent' : Behind(rx', sent'[k]) /\ Behind(closing', sent'[k])
    BY <1>1, <1>2, <1>3, AgedBehind DEF Inv, Ordered
  <2>4. \A n, k \in DOMAIN queue' :
          n < k => Behind(queue'[n], queue'[k])
    BY <1>4, AgedBehind DEF Inv, Ordered
  <2>5. \A n \in DOMAIN queue' : /\ Behind(queue'[n], rx')
                                          /\ Behind(closing', queue'[n])
    BY <1>1, <1>3, <1>4, AgedBehind DEF Inv, Ordered
  <2>6. \A n \in DOMAIN queue', k \in DOMAIN sent' :
          Behind(queue'[n], sent'[k])
    BY <1>2, <1>4, AgedBehind DEF Inv, Ordered
  <2>7. Behind(closing', rx')
    BY <1>1, <1>3, AgedBehind DEF Inv, Ordered
  <2> QED BY <2>2, <2>3, <2>4, <2>5, <2>6, <2>7 DEF Ordered
<1>11. Placed'
  <2>1. \A n \in DOMAIN sent' : sent'[n] # NoRequest
    BY <1>2, <1>8, Members
  <2>2. \A n \in DOMAIN queue' :
          queue'[n] # NoRequest /\ queue'[n].cmd # "data"
    BY <1>4, <1>8, Members, Places DEF Inv, Placed
  <2>3. closing' # NoRequest => closing'.cmd \in {"stop", "close"}
    BY <1>1, <1>3, AgedRequest DEF Inv, Placed
  <2> QED BY <2>1, <2>2, <2>3 DEF Placed
<1>12. ASSUME NEW m \in Way'
       PROVE  /\ ~m.fresh
              /\ \E k \in Way : k.from = m.from /\ k.cmd = m.cmd /\ k.id = m.id
  <2>1. PICK k \in Way : m = Aged(k)
    BY <1>9
  <2>2. ~m.fresh /\ k.from = m.from /\ k.cmd = m.cmd /\ k.id = m.id
    BY <1>8, <2>1
  <2> QED BY <2>2
<1>13. RingInv'
  <2>1. SUFFICES ASSUME NEW i \in Slot PROVE Kept(i)'
    BY DEF RingInv
  <2>2. Kept(i)
    BY DEF Inv, RingInv
  <2>3. \A m \in Requests : Entry(m, i) => Entry(Aged(m), i)' /\ Aged(m) # NoRequest
    <3>1. \A m \in Requests : ~Aged(m).fresh /\ Aged(m).cmd = m.cmd /\ Aged(m).id = m.id
      BY AgedRequest
    <3> QED BY <3>1, NoneIsRequest DEF Entry, Awaited
  <2>4. (\A p \in Place : Entry(ring[i].held[p], i))'
    BY <1>7, <2>2, <2>3 DEF Kept
  <2>5. (~ring[i].raced => Exact(ring[i]))'
    BY <1>7, <2>2 DEF Kept, Exact, Stored, Size, Offset
  <2>6. ring[i].adding # 0 => rx'.cmd = "data" /\ rx'.id = i
    BY <1>1, <1>3, <2>2, AgedRequest DEF Kept
  <2>7. ring[i].adding # 0 /\ ~ring[i].raced =>
          \A p \in Place : Offset(ring'[i], p) = ring[i].count => ring'[i].held[p] = rx'
    BY <1>3, <1>7, <2>2 DEF Kept, Offset
  <2>8. serving[i] # NoRequest => (Entry(serving[i], i))' /\ slot[i].worker
    BY <1>5, <2>2, <2>3 DEF Kept
  <2>9. serving'[i] # NoRequest <=> serving[i] # NoRequest
    <3>1. serving[i] # NoRequest => Aged(serving[i]) # NoRequest
      BY <1>5, <2>2, <2>3 DEF Kept
    <3> QED BY <1>5, <3>1, AgedRequest, NoneIsRequest
  <2>10. slot' = slot
    OBVIOUS
  <2> QED BY <1>7, <2>2, <2>4, <2>5, <2>6, <2>7, <2>8, <2>9, <2>10 DEF Kept
<1> QED BY <1>2, <1>3, <1>4, <1>5, <1>6, <1>10, <1>11, <1>12, <1>7, <1>13

(* What a session learns at the end of its round trip.                     *)
LEMMA Learned ==
  ASSUME Inv, NEW s \in Sessions, NEW at, NEW ok \in BOOLEAN, NEW id \in Channel,
         Returns(s, at, ok, id)
  PROVE  /\ line = s /\ line' = Nobody /\ session[s].at = at /\ UNCHANGED <<setting, slot>>
         /\ \E rest \in Seq(Answers) : Forget(rest)
         /\ ok /\ at = "open" => /\ id \in Slot /\ slot[id].allocated /\ slot[id].owner = s
                                 /\ \A m \in Way : m.id # id
         /\ ok /\ at = "config" => HasBuffer(session[s].id)
<1>1. /\ line = s /\ line' = Nobody /\ session[s].at = at /\ UNCHANGED <<setting, slot>>
      /\ Answered(s, ok, id) \/ TimedOut(ok, id)
  BY DEF Returns
<1>2. answers \in Seq(Answers)
  BY DEF Inv, TypeOK
<1>3. CASE TimedOut(ok, id)
  <2>1. ok = FALSE /\ Forget(answers)
    BY <1>3 DEF TimedOut
  <2> QED BY <1>1, <1>2, <2>1
<1>4. CASE Answered(s, ok, id)
  <2>1. /\ answers # <<>> /\ ok = (Head(answers).fresh /\ Head(answers).ok)
        /\ id = Head(answers).id /\ Forget(Tail(answers))
    BY <1>4 DEF Answered
  <2>2. Tail(answers) \in Seq(Answers) /\ Head(answers) \in Got
    BY <1>2, <2>1, Shortened DEF Got
  <2>3. PICK a \in Got : a = Head(answers)
    BY <2>2
  <2>4. ok => a.ok /\ Promised(a)
    BY <2>1, <2>3 DEF Inv, AnswerInv
  <2>5. id = a.id
    BY <2>1, <2>3
  <2>6. ok /\ at = "open" => Opening(a)
    BY <1>1, <2>4 DEF Promised
  <2>7. ok /\ at = "config" => HasBuffer(session[s].id)
    BY <1>1, <2>4 DEF Promised
  <2>8. ok /\ at = "open" => /\ id \in Slot /\ slot[id].allocated /\ slot[id].owner = s
                             /\ \A m \in Way : m.id # id
    BY <1>1, <2>5, <2>6 DEF Opening
  <2> QED BY <1>1, <2>1, <2>2, <2>7, <2>8
<1> QED BY <1>1, <1>3, <1>4

(* A session that owns its stream after its round trip keeps all.          *)
LEMMA ReturnKeeps ==
  ASSUME Inv, NEW s \in Sessions, NEW rest \in Seq(Answers), Forget(rest),
         line = s, line' = Nobody, UNCHANGED <<setting, slot>>,
         NEW e \in SessionType, session' = [session EXCEPT ![s] = e], CallOK(e),
         e.open => OwnsStream(s)',
         e.open => \A t \in Sessions : t # s /\ session[t].open => session[t].id # e.id,
         refs' \in Nat, channels' \subseteq Channel, HostChannels'
  PROVE  Inv'
<1>1. /\ session' \in [Sessions -> SessionType] /\ session'[s] = e
      /\ \A t \in Sessions : t # s => session'[t] = session[t]
  BY DEF Inv, TypeOK, SessionType
<1>2. /\ sent' \in Seq(Requests) /\ rx' \in Requests /\ closing' \in Requests
      /\ queue' \in Seq(Requests) /\ serving' \in [Slot -> Requests]
      /\ answers' \in Seq(Answers) /\ ring' \in [Slot -> Rings]
      /\ \A m \in Way' : /\ ~m.fresh
                         /\ \E k \in Way : k.from = m.from /\ k.cmd = m.cmd /\ k.id = m.id
      /\ \A a \in Got' : ~a.fresh
      /\ Ordered' /\ Placed' /\ RingInv'
  BY Forgotten
<1>3. TypeOK'
  BY <1>1, <1>2 DEF Inv, TypeOK, SessionType
<1>4. SlotInv'
  BY DEF Inv, SlotInv, RunningHasDma
<1>5. AnswerInv'
  BY <1>2 DEF AnswerInv
<1>6. CallInv'
  <2>1. \A t \in Sessions : CallOK(session'[t])
    BY <1>1 DEF Inv, CallInv
  <2> QED BY <2>1 DEF CallInv, CallOK
<1>7. ASSUME NEW i \in Slot, HasBuffer(i)
      PROVE  HasBuffer(i)'
  <2>1. \A m \in Way' : \E k \in Way : k.cmd = m.cmd /\ k.id = m.id
    BY <1>2
  <2>2. slot' = slot
    OBVIOUS
  <2> QED BY <1>7, <2>1, <2>2 DEF HasBuffer
<1>8. WayInv'
  <2>1. ASSUME NEW m \in Way'
        PROVE  /\ WellFormed(m) /\ OwnsSlot(m)' /\ ~m.fresh
               /\ (m.cmd = "start" => HasBuffer(m.id)')
    <3>1. PICK k \in Way : k.from = m.from /\ k.cmd = m.cmd /\ k.id = m.id
      BY <1>2, <2>1
    <3>2. WellFormed(k) /\ OwnsSlot(k) /\ (k.cmd = "start" => HasBuffer(k.id))
      BY DEF Inv, WayInv
    <3>3. WellFormed(m)
      BY <3>1, <3>2 DEF WellFormed
    <3>4. OwnsSlot(m)'
      BY <3>1, <3>2 DEF OwnsSlot
    <3>5. m.cmd = "start" => HasBuffer(m.id)'
      BY <1>7, <3>1, <3>2 DEF WellFormed
    <3> QED BY <1>2, <2>1, <3>3, <3>4, <3>5
  <2> QED BY <2>1 DEF WayInv, WellFormed, Awaited
<1>9. SessionInv'
  <2>1. ASSUME NEW t \in Sessions, Owns(t)'
        PROVE  OwnsStream(t)'
    <3>1. CASE t = s
      BY <1>1, <2>1, <3>1 DEF Owns
    <3>2. CASE t # s
      <4>1. session'[t] = session[t] /\ Owns(t)
        BY <1>1, <2>1, <3>2 DEF Owns
      <4>2. OwnsStream(t) /\ session[t].id \in Slot
        BY <4>1 DEF Inv, SessionInv, CallInv, CallOK, Owns
      <4>3. PICK i \in Slot : i = session[t].id
        BY <4>2
      <4>4. session[t].prepared => HasBuffer(i)'
        BY <1>7, <4>2, <4>3 DEF OwnsStream
      <4>5. \A m \in Way' : m.cmd = "close" => m.id # i
        BY <1>2, <4>2, <4>3 DEF OwnsStream
      <4>6. \A m \in Way' : m.cmd = "start" /\ m.id = i => session[t].prepared
        BY <1>2, <4>2, <4>3 DEF OwnsStream
      <4> QED BY <4>1, <4>2, <4>3, <4>4, <4>5, <4>6 DEF OwnsStream
    <3> QED BY <3>1, <3>2
  <2>2. ASSUME NEW t \in Sessions, NEW u \in Sessions, session'[t].open, session'[u].open,
               session'[t].id = session'[u].id
        PROVE  t = u
    <3>1. CASE t # s /\ u # s
      BY <1>1, <2>2, <3>1 DEF Inv, SessionInv
    <3>2. CASE t = s \/ u = s
      BY <1>1, <2>2, <3>2
    <3> QED BY <3>1, <3>2
  <2> QED BY <2>1, <2>2 DEF SessionInv
<1> QED BY <1>2, <1>3, <1>4, <1>5, <1>6, <1>8, <1>9 DEF Inv


(* Every round trip but that of an OPEN or a CLOSE leaves the session its  *)
(* stream.                                                                 *)
LEMMA StaysOwner ==
  ASSUME Inv, NEW s \in Sessions, NEW rest \in Seq(Answers), Forget(rest),
         line = s, line' = Nobody, UNCHANGED <<setting, slot>>,
         session[s].at \notin {"idle", "open", "close"},
         NEW e \in SessionType, session' = [session EXCEPT ![s] = e],
         e.open = session[s].open, e.id = session[s].id,
         \/ e.prepared = session[s].prepared
         \/ e.prepared /\ HasBuffer(session[s].id)
  PROVE  /\ OwnsStream(s)'
         /\ \A t \in Sessions : t # s /\ session[t].open => session[t].id # e.id
<1>1. session'[s] = e /\ session[s] \in SessionType
  BY DEF Inv, TypeOK, SessionType
<1>2. session[s].open /\ Owns(s) /\ session[s].id \in Slot
  BY DEF Inv, CallInv, CallOK, Owns
<1>3. PICK i \in Slot : i = session[s].id
  BY <1>2
<1>4. OwnsStream(s)
  BY <1>2 DEF Inv, SessionInv
<1>5. \A m \in Way' : \E k \in Way : k.from = m.from /\ k.cmd = m.cmd /\ k.id = m.id
  BY Forgotten
<1>6. HasBuffer(i) => HasBuffer(i)'
  BY <1>5 DEF HasBuffer
<1>7. e.prepared => HasBuffer(i)'
  BY <1>3, <1>4, <1>6 DEF OwnsStream
<1>8. \A m \in Way' : m.cmd = "close" => m.id # i
  BY <1>3, <1>4, <1>5 DEF OwnsStream
<1>9. \A m \in Way' : m.cmd = "start" /\ m.id = i => e.prepared
  BY <1>3, <1>4, <1>5 DEF OwnsStream
<1>10. slot[i].allocated /\ slot[i].owner = s
  BY <1>3, <1>4 DEF OwnsStream
<1>11. OwnsStream(s)'
  BY <1>1, <1>3, <1>7, <1>8, <1>9, <1>10 DEF OwnsStream
<1>12. \A t \in Sessions : t # s /\ session[t].open => session[t].id # session[s].id
  BY <1>2 DEF Inv, SessionInv
<1> QED BY <1>11, <1>12

-----------------------------------------------------------------------------
(* The channels of the host.                                               *)

(* A session that holds the control channel is one of those counted.       *)
LEMMA HeldByOne ==
  ASSUME Inv, NEW s \in Sessions, session[s].acquired
  PROVE  /\ refs \in Nat /\ refs > 0 /\ Control \in channels
         /\ refs - 1 = Cardinality({t \in Sessions : session[t].acquired} \ {s})
<1> DEFINE held == {t \in Sessions : session[t].acquired}
<1>1. IsFiniteSet(held) /\ s \in held
  BY FS_Subset, AudioStreamsAssumption
<1>2. Cardinality(held) \in Nat /\ Cardinality(held) # 0
  BY <1>1, FS_CardinalityType, FS_EmptySet
<1>3. Cardinality(held \ {s}) = Cardinality(held) - 1
  BY <1>1, FS_RemoveElement
<1>4. refs = Cardinality(held)
  BY DEF Inv, HostChannels
<1>5. refs \in Nat /\ refs > 0 /\ refs - 1 = Cardinality(held \ {s})
  BY <1>2, <1>3, <1>4
<1>6. Control \in channels
  BY <1>5 DEF Inv, HostChannels
<1> QED BY <1>5, <1>6

(* The last session to release the control channel closes it.              *)
LEMMA ReleasedChannels ==
  ASSUME Inv, NEW s \in Sessions, session[s].acquired, session[s].channel = None, Released,
         session' = [session EXCEPT ![s] = Closed]
  PROVE  refs' \in Nat /\ channels' \subseteq Channel /\ HostChannels'
<1> DEFINE held == {t \in Sessions : session[t].acquired}
<1> DEFINE data == {session[t].channel : t \in Sessions} \ {None}
<1>1. \A t \in Sessions : /\ session'[t].channel = session[t].channel
                          /\ session'[t].acquired = (session[t].acquired /\ t # s)
  BY DEF Inv, TypeOK, Closed
<1>2. {t \in Sessions : session'[t].acquired} = held \ {s}
  BY <1>1
<1>3. {session'[t].channel : t \in Sessions} = {session[t].channel : t \in Sessions}
  BY <1>1
<1>4. /\ refs \in Nat /\ refs > 0 /\ refs' = refs - 1
      /\ refs' = Cardinality(held \ {s})
  BY HeldByOne DEF Released
<1>5. refs' \in Nat
  BY <1>4
<1>6. channels = data \cup {Control} /\ Control \notin data
  <2>1. channels = data \cup (IF refs > 0 THEN {Control} ELSE {})
    BY DEF Inv, HostChannels
  <2> QED BY <1>4, <2>1, Places
<1>7. channels' = IF refs = 1 THEN channels \ {Control} ELSE channels
  BY DEF Released
<1>8. channels' \subseteq Channel
  BY <1>7 DEF Inv, TypeOK
<1>9. channels' = data \cup (IF refs' > 0 THEN {Control} ELSE {})
  <2> HIDE DEF data
  <2>1. CASE refs = 1
    <3>1. ~(refs' > 0)
      BY <1>4, <2>1
    <3> QED BY <1>6, <1>7, <2>1, <3>1
  <2>2. CASE refs # 1
    <3>1. refs' > 0
      BY <1>4, <2>2
    <3> QED BY <1>6, <1>7, <2>2, <3>1
  <2> QED BY <2>1, <2>2
<1>10. \A t, u \in Sessions :
         session'[t].channel = session'[u].channel /\ session'[t].channel # None => t = u
  BY <1>1 DEF Inv, HostChannels
<1> QED BY <1>2, <1>3, <1>4, <1>5, <1>8, <1>9, <1>10 DEF HostChannels

(* A data channel that is closed was the channel of nobody else.           *)
LEMMA RemovedChannel ==
  ASSUME Inv, NEW s \in Sessions, session[s].channel # None,
         NEW e \in SessionType, session' = [session EXCEPT ![s] = e],
         e.acquired = session[s].acquired, e.channel = None,
         refs' = refs, channels' = channels \ {session[s].channel}
  PROVE  refs' \in Nat /\ channels' \subseteq Channel /\ HostChannels'
<1>1. /\ \A t \in Sessions : session'[t].acquired = session[t].acquired
      /\ \A t \in Sessions : t # s => session'[t].channel = session[t].channel
      /\ session'[s].channel = None
  BY DEF Inv, TypeOK
<1>2. refs' \in Nat /\ channels' \subseteq Channel
  BY DEF Inv, TypeOK
<1>3. {t \in Sessions : session'[t].acquired} = {t \in Sessions : session[t].acquired}
  BY <1>1
<1>4. \A t \in Sessions : t # s => session[t].channel # session[s].channel
  BY DEF Inv, HostChannels
<1>5. {session'[t].channel : t \in Sessions} \ {None}
        = ({session[t].channel : t \in Sessions} \ {None}) \ {session[s].channel}
  BY <1>1, <1>4
<1>6. channels' = ({session'[t].channel : t \in Sessions} \ {None})
                    \cup (IF refs' > 0 THEN {Control} ELSE {})
  <2>1. channels = ({session[t].channel : t \in Sessions} \ {None})
                     \cup (IF refs > 0 THEN {Control} ELSE {})
    BY DEF Inv, HostChannels
  <2>2. session[s].channel # Control
    BY Places
  <2> QED BY <1>5, <2>1, <2>2
<1>7. \A t, u \in Sessions :
        session'[t].channel = session'[u].channel /\ session'[t].channel # None => t = u
  BY <1>1 DEF Inv, HostChannels
<1> QED BY <1>2, <1>3, <1>6, <1>7 DEF Inv, HostChannels

(* A data channel that was not open becomes the channel of one session.    *)
LEMMA AddedChannel ==
  ASSUME Inv, NEW s \in Sessions, session[s].channel = None,
         NEW e \in SessionType, session' = [session EXCEPT ![s] = e],
         e.acquired = session[s].acquired, e.channel \notin channels, e.channel # None,
         refs' = refs, channels' = channels \cup {e.channel}
  PROVE  refs' \in Nat /\ channels' \subseteq Channel /\ HostChannels'
<1>1. /\ \A t \in Sessions : session'[t].acquired = session[t].acquired
      /\ \A t \in Sessions : t # s => session'[t].channel = session[t].channel
      /\ session'[s].channel = e.channel
  BY DEF Inv, TypeOK
<1>2. refs' \in Nat /\ channels' \subseteq Channel
  BY DEF Inv, TypeOK, SessionType
<1>3. {t \in Sessions : session'[t].acquired} = {t \in Sessions : session[t].acquired}
  BY <1>1
<1>4. {session'[t].channel : t \in Sessions} \ {None}
        = ({session[t].channel : t \in Sessions} \ {None}) \cup {e.channel}
  BY <1>1
<1>5. channels' = ({session'[t].channel : t \in Sessions} \ {None})
                    \cup (IF refs' > 0 THEN {Control} ELSE {})
  BY <1>4 DEF Inv, HostChannels
<1>6. \A t \in Sessions : session[t].channel # None => session[t].channel \in channels
  BY DEF Inv, HostChannels
<1>7. \A t, u \in Sessions :
        session'[t].channel = session'[u].channel /\ session'[t].channel # None => t = u
  BY <1>1, <1>6 DEF Inv, HostChannels
<1> QED BY <1>2, <1>3, <1>5, <1>7 DEF Inv, HostChannels

-----------------------------------------------------------------------------
(* The round trips.                                                        *)

LEMMA StayKeeps ==
  ASSUME Inv, NEW s \in Sessions, NEW at \in {"config", "start", "undo", "data", "stop",
                                              "close stop"},
         NEW ok \in BOOLEAN, NEW id \in Channel, Returns(s, at, ok, id),
         NEW e \in SessionType, session' = [session EXCEPT ![s] = e], CallOK(e),
         e.open = session[s].open, e.id = session[s].id,
         \/ e.prepared = session[s].prepared
         \/ e.prepared /\ HasBuffer(session[s].id),
         refs' \in Nat, channels' \subseteq Channel, HostChannels'
  PROVE  Inv'
<1>1. /\ line = s /\ line' = Nobody /\ session[s].at = at /\ UNCHANGED <<setting, slot>>
  BY DEF Returns
<1>2. \E rest \in Seq(Answers) : Forget(rest)
  BY Learned
<1>3. PICK rest \in Seq(Answers) : Forget(rest)
  BY <1>2
<1>4. /\ OwnsStream(s)'
      /\ \A t \in Sessions : t # s /\ session[t].open => session[t].id # e.id
  BY <1>1, <1>3, StaysOwner
<1> QED BY <1>1, <1>3, <1>4, ReturnKeeps

LEMMA OpensKeep ==
  ASSUME Inv, NEW s \in Sessions, Opens(s)
  PROVE  Inv'
<1>1. PICK ok \in BOOLEAN, id \in Channel :
        /\ Returns(s, "open", ok, id)
        /\ IF ok
           THEN /\ session' = [session EXCEPT ![s].at = "idle", ![s].open = TRUE,
                                              ![s].id = id]
                /\ UNCHANGED <<refs, channels>>
           ELSE /\ session' = [session EXCEPT ![s] = Closed]
                /\ Released
  BY DEF Opens
<1>2. /\ line = s /\ line' = Nobody /\ session[s].at = "open" /\ UNCHANGED <<setting, slot>>
      /\ \E rest \in Seq(Answers) : Forget(rest)
      /\ ok => /\ id \in Slot /\ slot[id].allocated /\ slot[id].owner = s
               /\ \A m \in Way : m.id # id
  BY <1>1, Learned
<1>3. PICK rest \in Seq(Answers) : Forget(rest)
  BY <1>2
<1>4. session[s] \in SessionType /\ CallOK(session[s])
  BY DEF Inv, TypeOK, SessionType, CallInv
<1>5. /\ session[s].acquired /\ ~session[s].open /\ ~session[s].prepared
      /\ ~session[s].running /\ session[s].channel = None
  BY <1>2, <1>4 DEF CallOK
<1>6. CASE ok
  <2> DEFINE e == [session[s] EXCEPT !.at = "idle", !.open = TRUE, !.id = id]
  <2>1. /\ e \in SessionType /\ e.at = "idle" /\ e.open = TRUE /\ e.id = id
        /\ e.acquired = session[s].acquired /\ e.prepared = session[s].prepared
        /\ e.running = session[s].running /\ e.channel = session[s].channel
    BY <1>4 DEF SessionType
  <2>2. session' = [session EXCEPT ![s] = e]
    BY <1>1, <1>6 DEF Inv, TypeOK
  <2> HIDE DEF e
  <2>3. CallOK(e)
    BY <1>2, <1>5, <1>6, <2>1 DEF CallOK
  <2>4. session'[s] = e
    BY <2>2 DEF Inv, TypeOK
  <2>5. HostChannels' /\ refs' \in Nat /\ channels' \subseteq Channel
    <3>1. \A t \in Sessions : /\ session'[t].acquired = session[t].acquired
                              /\ session'[t].channel = session[t].channel
      BY <2>1, <2>2 DEF Inv, TypeOK
    <3>2. UNCHANGED <<refs, channels>>
      BY <1>1, <1>6
    <3> QED BY <3>1, <3>2, SameChannels DEF Inv, TypeOK
  <2>6. \A m \in Way' : m.id # id
    <3>1. \A m \in Way' : \E k \in Way : k.id = m.id
      BY <1>2, <1>3, Forgotten
    <3> QED BY <1>2, <1>6, <3>1
  <2>7. OwnsStream(s)'
    BY <1>2, <1>5, <1>6, <2>1, <2>4, <2>6 DEF OwnsStream
  <2>8. \A t \in Sessions : t # s /\ session[t].open => session[t].id # e.id
    <3>1. ASSUME NEW t \in Sessions, t # s, session[t].open, session[t].id = id
          PROVE  FALSE
      <4>1. Owns(t)
        BY <1>2, <3>1 DEF Owns
      <4>2. slot[id].owner = t
        BY <3>1, <4>1 DEF Inv, SessionInv, OwnsStream
      <4> QED BY <1>2, <1>6, <3>1, <4>2
    <3> QED BY <2>1, <3>1
  <2> QED BY <1>2, <1>3, <2>1, <2>2, <2>3, <2>5, <2>7, <2>8, ReturnKeeps
<1>7. CASE ~ok
  <2>1. session' = [session EXCEPT ![s] = Closed] /\ Released
    BY <1>1, <1>7
  <2>2. Closed \in SessionType /\ CallOK(Closed) /\ ~Closed.open
    BY Places DEF Closed, SessionType, CallOK
  <2>3. refs' \in Nat /\ channels' \subseteq Channel /\ HostChannels'
    BY <1>5, <2>1, ReleasedChannels
  <2> QED BY <1>2, <1>3, <2>1, <2>2, <2>3, ReturnKeeps
<1> QED BY <1>6, <1>7

LEMMA ClosesKeep ==
  ASSUME Inv, NEW s \in Sessions, Closes(s)
  PROVE  Inv'
<1>1. PICK ok \in BOOLEAN, id \in Channel :
        /\ Returns(s, "close", ok, id)
        /\ session' = [session EXCEPT ![s] = Closed]
        /\ Released
  BY DEF Closes
<1>2. /\ line = s /\ line' = Nobody /\ session[s].at = "close" /\ UNCHANGED <<setting, slot>>
      /\ \E rest \in Seq(Answers) : Forget(rest)
  BY <1>1, Learned
<1>3. PICK rest \in Seq(Answers) : Forget(rest)
  BY <1>2
<1>4. session[s].acquired /\ session[s].channel = None
  BY <1>2 DEF Inv, CallInv, CallOK
<1>5. Closed \in SessionType /\ CallOK(Closed) /\ ~Closed.open
  BY Places DEF Closed, SessionType, CallOK
<1>6. refs' \in Nat /\ channels' \subseteq Channel /\ HostChannels'
  BY <1>1, <1>4, ReleasedChannels
<1> QED BY <1>1, <1>2, <1>3, <1>5, <1>6, ReturnKeeps

LEMMA PreparesKeep ==
  ASSUME Inv, NEW s \in Sessions, Prepares(s)
  PROVE  Inv'
<1>1. PICK ok \in BOOLEAN, id \in Channel :
        /\ Returns(s, "config", ok, id)
        /\ session' = [session EXCEPT ![s].at = "idle", ![s].prepared = @ \/ ok]
        /\ UNCHANGED <<refs, channels>>
  BY DEF Prepares
<1>2. session[s].at = "config" /\ (ok => HasBuffer(session[s].id))
  BY <1>1, Learned
<1>3. session[s] \in SessionType /\ CallOK(session[s])
  BY DEF Inv, TypeOK, SessionType, CallInv
<1> DEFINE e == [session[s] EXCEPT !.at = "idle", !.prepared = @ \/ ok]
<1>4. /\ e \in SessionType /\ e.at = "idle" /\ e.open = session[s].open
      /\ e.id = session[s].id /\ e.acquired = session[s].acquired
      /\ e.running = session[s].running /\ e.channel = session[s].channel
  BY <1>3 DEF SessionType
<1>5. (ok => e.prepared = TRUE) /\ (~ok => e.prepared = session[s].prepared)
  BY <1>3 DEF SessionType
<1>6. session' = [session EXCEPT ![s] = e]
  BY <1>1, <1>3 DEF Inv, TypeOK
<1> HIDE DEF e
<1>7. ~session[s].prepared /\ session[s].open
  BY <1>2, <1>3 DEF CallOK
<1>8. CallOK(e)
  BY <1>2, <1>3, <1>4, <1>7 DEF CallOK
<1>9. e.prepared = session[s].prepared \/ (e.prepared /\ HasBuffer(session[s].id))
  <2>1. CASE ok
    BY <1>2, <1>5, <2>1
  <2>2. CASE ~ok
    BY <1>5, <2>2
  <2> QED BY <2>1, <2>2
<1>10. HostChannels' /\ refs' \in Nat /\ channels' \subseteq Channel
  <2>1. \A t \in Sessions : /\ session'[t].acquired = session[t].acquired
                            /\ session'[t].channel = session[t].channel
    BY <1>4, <1>6 DEF Inv, TypeOK
  <2> QED BY <1>1, <2>1, SameChannels DEF Inv, TypeOK
<1> QED BY <1>1, <1>4, <1>6, <1>8, <1>9, <1>10, StayKeeps

LEMMA StartsKeep ==
  ASSUME Inv, NEW s \in Sessions, Starts(s)
  PROVE  Inv'
<1>1. PICK ok \in BOOLEAN, id \in Channel :
        /\ Returns(s, "start", ok, id)
        /\ session' =
             [session EXCEPT
                ![s] = IF ~ok THEN [@ EXCEPT !.at = "idle"]
                       ELSE IF id \in channels THEN [@ EXCEPT !.at = "undo"]
                       ELSE [@ EXCEPT !.at = "idle", !.running = TRUE, !.channel = id]]
        /\ channels' = IF ok THEN channels \cup {id} ELSE channels
        /\ UNCHANGED refs
  BY DEF Starts
<1>2. session[s].at = "start"
  BY <1>1 DEF Returns
<1>3. session[s] \in SessionType /\ CallOK(session[s])
  BY DEF Inv, TypeOK, SessionType, CallInv
<1>4. /\ session[s].acquired /\ session[s].open /\ session[s].prepared
      /\ ~session[s].running /\ session[s].channel = None
  BY <1>2, <1>3 DEF CallOK
<1>5. refs \in Nat /\ refs' = refs /\ channels \subseteq Channel
  BY <1>1 DEF Inv, TypeOK
<1>6. CASE ~ok \/ id \in channels
  <2>1. PICK at \in {"idle", "undo"} : session' = [session EXCEPT ![s].at = at]
    <3>1. CASE ~ok
      BY <1>1, <1>3, <3>1 DEF Inv, TypeOK
    <3>2. CASE ok /\ id \in channels
      BY <1>1, <1>3, <3>2 DEF Inv, TypeOK
    <3> QED BY <1>6, <3>1, <3>2
  <2> DEFINE e == [session[s] EXCEPT !.at = at]
  <2>2. /\ e \in SessionType /\ e.at = at /\ e.open = session[s].open
        /\ e.id = session[s].id /\ e.acquired = session[s].acquired
        /\ e.running = session[s].running /\ e.channel = session[s].channel
        /\ e.prepared = session[s].prepared
    BY <1>3 DEF SessionType
  <2>3. session' = [session EXCEPT ![s] = e]
    BY <2>1 DEF Inv, TypeOK
  <2> HIDE DEF e
  <2>4. CallOK(e)
    BY <1>3, <1>4, <2>2 DEF CallOK
  <2>5. \A t \in Sessions : /\ session'[t].acquired = session[t].acquired
                            /\ session'[t].channel = session[t].channel
    BY <2>2, <2>3 DEF Inv, TypeOK
  <2>6. channels' = channels
    BY <1>1, <1>6
  <2>7. HostChannels' /\ refs' \in Nat /\ channels' \subseteq Channel
    BY <1>5, <2>5, <2>6, SameChannels DEF Inv
  <2> QED BY <1>1, <2>2, <2>3, <2>4, <2>7, StayKeeps
<1>7. CASE ok /\ id \notin channels
  <2> DEFINE e == [session[s] EXCEPT !.at = "idle", !.running = TRUE, !.channel = id]
  <2>1. /\ e \in SessionType /\ e.at = "idle" /\ e.open = session[s].open
        /\ e.id = session[s].id /\ e.acquired = session[s].acquired
        /\ e.running = TRUE /\ e.channel = id
        /\ e.prepared = session[s].prepared
    BY <1>3 DEF SessionType
  <2>2. session' = [session EXCEPT ![s] = e]
    BY <1>1, <1>7 DEF Inv, TypeOK
  <2> HIDE DEF e
  <2>3. id # None
    BY <1>4, <1>7, HeldByOne, Places
  <2>4. CallOK(e)
    BY <1>3, <1>4, <2>1, <2>3 DEF CallOK
  <2>5. channels' = channels \cup {e.channel}
    BY <1>1, <1>7, <2>1
  <2>6. HostChannels' /\ refs' \in Nat /\ channels' \subseteq Channel
    BY <1>4, <1>5, <1>7, <2>1, <2>2, <2>3, <2>5, AddedChannel
  <2> QED BY <1>1, <2>1, <2>2, <2>4, <2>6, StayKeeps
<1> QED BY <1>6, <1>7

LEMMA TransfersKeep ==
  ASSUME Inv, NEW s \in Sessions, Transfers(s)
  PROVE  Inv'
<1>1. PICK ok \in BOOLEAN, id \in Channel, at \in {"data", "undo"} :
        /\ Returns(s, at, ok, id)
        /\ session' = [session EXCEPT ![s].at = "idle"]
        /\ UNCHANGED <<refs, channels>>
  BY DEF Transfers
<1>2. session[s].at = at
  BY <1>1 DEF Returns
<1>3. session[s] \in SessionType /\ CallOK(session[s])
  BY DEF Inv, TypeOK, SessionType, CallInv
<1> DEFINE e == [session[s] EXCEPT !.at = "idle"]
<1>4. /\ e \in SessionType /\ e.at = "idle" /\ e.open = session[s].open
      /\ e.id = session[s].id /\ e.acquired = session[s].acquired
      /\ e.running = session[s].running /\ e.channel = session[s].channel
      /\ e.prepared = session[s].prepared
  BY <1>3 DEF SessionType
<1>5. session' = [session EXCEPT ![s] = e]
  BY <1>1 DEF Inv, TypeOK
<1> HIDE DEF e
<1>6. CallOK(e)
  BY <1>2, <1>3, <1>4 DEF CallOK
<1>7. \A t \in Sessions : /\ session'[t].acquired = session[t].acquired
                          /\ session'[t].channel = session[t].channel
  BY <1>4, <1>5 DEF Inv, TypeOK
<1>8. HostChannels' /\ refs' \in Nat /\ channels' \subseteq Channel
  BY <1>1, <1>7, SameChannels DEF Inv, TypeOK
<1>9. PICK call \in {"config", "start", "undo", "data", "stop", "close stop"} : call = at
  OBVIOUS
<1>10. Returns(s, call, ok, id)
  BY <1>1, <1>9
<1> QED BY <1>4, <1>5, <1>6, <1>8, <1>10, StayKeeps

LEMMA StopsKeep ==
  ASSUME Inv, NEW s \in Sessions, Stops(s)
  PROVE  Inv'
<1>1. PICK ok \in BOOLEAN, id \in Channel :
        /\ Returns(s, "stop", ok, id)
        /\ session' = [session EXCEPT ![s].at = "idle", ![s].running = ~ok,
                                      ![s].channel = IF ok THEN None ELSE @]
        /\ channels' = IF ok THEN channels \ {session[s].channel} ELSE channels
        /\ UNCHANGED refs
  BY DEF Stops
<1>2. session[s].at = "stop"
  BY <1>1 DEF Returns
<1>3. session[s] \in SessionType /\ CallOK(session[s])
  BY DEF Inv, TypeOK, SessionType, CallInv
<1>4. session[s].running /\ session[s].open /\ session[s].channel # None
  BY <1>2, <1>3 DEF CallOK
<1>5. PICK c \in Channel : c = IF ok THEN None ELSE session[s].channel
  BY <1>3, Places DEF SessionType
<1>6. PICK runs \in BOOLEAN : runs = ~ok
  OBVIOUS
<1> DEFINE e == [session[s] EXCEPT !.at = "idle", !.running = runs, !.channel = c]
<1>7. /\ e \in SessionType /\ e.at = "idle" /\ e.open = session[s].open
      /\ e.id = session[s].id /\ e.acquired = session[s].acquired
      /\ e.running = runs /\ e.channel = c
      /\ e.prepared = session[s].prepared
  BY <1>3 DEF SessionType
<1>8. session' = [session EXCEPT ![s] = e]
  BY <1>1, <1>5, <1>6 DEF Inv, TypeOK
<1> HIDE DEF e
<1>9. CallOK(e)
  BY <1>3, <1>4, <1>5, <1>6, <1>7 DEF CallOK
<1>10. HostChannels' /\ refs' \in Nat /\ channels' \subseteq Channel
  <2>1. CASE ok
    <3>1. e.channel = None /\ channels' = channels \ {session[s].channel} /\ refs' = refs
      BY <1>1, <1>5, <1>7, <2>1
    <3> QED BY <1>4, <1>7, <1>8, <3>1, RemovedChannel
  <2>2. CASE ~ok
    <3>1. \A t \in Sessions : /\ session'[t].acquired = session[t].acquired
                              /\ session'[t].channel = session[t].channel
      BY <1>5, <1>7, <1>8, <2>2 DEF Inv, TypeOK
    <3>2. UNCHANGED <<refs, channels>>
      BY <1>1, <2>2
    <3> QED BY <3>1, <3>2, SameChannels DEF Inv, TypeOK
  <2> QED BY <2>1, <2>2
<1> QED BY <1>1, <1>7, <1>8, <1>9, <1>10, StayKeeps

LEMMA StopsToCloseKeep ==
  ASSUME Inv, NEW s \in Sessions, StopsToClose(s)
  PROVE  Inv'
<1>1. PICK ok \in BOOLEAN, id \in Channel :
        /\ Returns(s, "close stop", ok, id)
        /\ session' = [session EXCEPT ![s].at = "close", ![s].channel = None]
        /\ channels' = channels \ {session[s].channel}
        /\ UNCHANGED refs
  BY DEF StopsToClose
<1>2. session[s].at = "close stop"
  BY <1>1 DEF Returns
<1>3. session[s] \in SessionType /\ CallOK(session[s])
  BY DEF Inv, TypeOK, SessionType, CallInv
<1>4. session[s].open /\ session[s].channel # None
  BY <1>2, <1>3 DEF CallOK
<1> DEFINE e == [session[s] EXCEPT !.at = "close", !.channel = None]
<1>5. /\ e \in SessionType /\ e.at = "close" /\ e.open = session[s].open
      /\ e.id = session[s].id /\ e.acquired = session[s].acquired
      /\ e.running = session[s].running /\ e.channel = None
      /\ e.prepared = session[s].prepared
  BY <1>3, Places DEF SessionType
<1>6. session' = [session EXCEPT ![s] = e]
  BY <1>1 DEF Inv, TypeOK
<1> HIDE DEF e
<1>7. CallOK(e)
  BY <1>3, <1>4, <1>5 DEF CallOK
<1>8. HostChannels' /\ refs' \in Nat /\ channels' \subseteq Channel
  BY <1>1, <1>4, <1>5, <1>6, RemovedChannel
<1> QED BY <1>1, <1>5, <1>6, <1>7, <1>8, StayKeeps

LEMMA RoundTripKeeps ==
  ASSUME Inv, NEW s \in Sessions, RoundTrip(s)
  PROVE  Inv'
BY OpensKeep, PreparesKeep, StartsKeep, TransfersKeep, StopsKeep, StopsToCloseKeep, ClosesKeep
   DEF RoundTrip

-----------------------------------------------------------------------------
(* The theorems.                                                           *)

LEMMA InitHolds == Init => Inv
<1> SUFFICES ASSUME Init PROVE Inv
  OBVIOUS
<1>1. /\ session = [s \in Sessions |-> Closed] /\ line = Nobody /\ refs = 0 /\ channels = {}
      /\ sent = <<>> /\ rx = NoRequest /\ queue = <<>> /\ ring = [i \in Slot |-> NoRing]
      /\ closing = NoRequest /\ serving = [i \in Slot |-> NoRequest] /\ slot = FreeSlots
      /\ answers = <<>> /\ setting \in Settings
  BY DEF Init
<1>2. Closed \in SessionType /\ CallOK(Closed) /\ ~Closed.open /\ ~Closed.acquired
      /\ Closed.channel = None
  BY Places DEF Closed, SessionType, CallOK
<1>3. Free \in SlotType /\ ~Free.running /\ ~Free.worker /\ NoRequest \in Requests
  BY NoneIsRequest DEF Free, SlotType
<1>4. \A s \in Sessions : session[s] = Closed
  BY <1>1
<1>5. /\ DOMAIN sent = {} /\ sent \in Seq(Requests)
      /\ DOMAIN answers = {} /\ answers \in Seq(Answers)
      /\ DOMAIN queue = {} /\ queue \in Seq(Requests)
  BY <1>1, EmptySeq
<1>6. /\ NoRing \in Rings /\ NoRing.adding = 0 /\ NoRing.taking = 0 /\ Exact(NoRing)
      /\ \A p \in Place : NoRing.held[p] = Blank /\ ~Waits(NoRing, p)
  <2>1. 0 \in Place /\ QueueDepth \in Nat \ {0} /\ 0 \in 0 .. QueueDepth
    BY AudioStreamsAssumption DEF Place
  <2>2. [p \in Place |-> Blank] \in [Place -> Requests]
    BY BlankIsRequest
  <2>3. NoRing \in Rings
    BY <2>1, <2>2 DEF NoRing, Rings
  <2>4. /\ NoRing.adding = 0 /\ NoRing.taking = 0 /\ NoRing.count = 0 /\ NoRing.head = 0
        /\ NoRing.tail = 0 /\ \A p \in Place : NoRing.held[p] = Blank
    BY DEF NoRing
  <2>5. \A p \in Place : ~Waits(NoRing, p)
    BY <2>3, <2>4, RingType DEF Waits, Size
  <2> QED BY <2>1, <2>3, <2>4, <2>5 DEF Exact, Stored, Size, Offset
<1>7. TypeOK
  <2>1. session \in [Sessions -> SessionType] /\ slot \in [Slot -> SlotType]
        /\ serving \in [Slot -> Requests]
    BY <1>1, <1>2, <1>3 DEF FreeSlots
  <2>2. ring \in [Slot -> Rings]
    BY <1>1, <1>6
  <2> QED BY <1>1, <1>3, <1>5, <2>1, <2>2 DEF TypeOK, SessionType, SlotType
<1>8. HostChannels
  <2>1. {s \in Sessions : session[s].acquired} = {}
    BY <1>2, <1>4
  <2>2. {session[s].channel : s \in Sessions} \ {None} = {}
    BY <1>2, <1>4
  <2>3. refs = Cardinality({s \in Sessions : session[s].acquired})
    BY <1>1, <2>1, FS_EmptySet
  <2> QED BY <1>1, <1>2, <1>4, <2>2, <2>3 DEF HostChannels
<1>9. Way = {} /\ Got = {}
  BY <1>1, <1>5, <1>6 DEF Way, Got
<1>10. RingInv
  BY <1>1, <1>6, BlankIsRequest DEF RingInv, Kept, Entry, Awaited
<1>11. Ordered /\ Placed
  BY <1>1, <1>5 DEF Ordered, Placed, Behind
<1>12. WayInv /\ AnswerInv
  BY <1>9 DEF WayInv, AnswerInv
<1>13. CallInv /\ SessionInv
  BY <1>1, <1>2, <1>4 DEF CallInv, SessionInv, Owns
<1>14. SlotInv
  BY <1>1, <1>3 DEF SlotInv, RunningHasDma, FreeSlots
<1> QED BY <1>7, <1>8, <1>10, <1>11, <1>12, <1>13, <1>14 DEF Inv

LEMMA StepKeeps == Inv /\ [Next]_vars => Inv'
<1> SUFFICES ASSUME Inv, [Next]_vars PROVE Inv'
  OBVIOUS
<1>1. ASSUME NEW s \in Sessions, Call(s) \/ Send(s) \/ RoundTrip(s)
      PROVE  Inv'
  BY <1>1, CallStepKeeps, SendKeeps, RoundTripKeeps
<1>2. CASE Controller
  BY <1>2, ControllerStepKeeps
<1>3. CASE UNCHANGED vars
  <2>1. UNCHANGED <<session, line, refs, channels, setting, sent, rx, queue, ring, closing,
                    serving, answers, slot>>
    BY <1>3 DEF vars, host, way
  <2>2. Way' = Way /\ Got' = Got
    BY <2>1 DEF Way, Got, Waits
  <2>3. TypeOK'
    BY <2>1 DEF Inv, TypeOK
  <2>4. HostChannels' /\ SlotInv'
    BY <2>1 DEF Inv, HostChannels, SlotInv, RunningHasDma
  <2>5. Ordered' /\ Placed'
    BY <2>1 DEF Inv, Ordered, Placed
  <2>6. WayInv' /\ AnswerInv' /\ CallInv' /\ SessionInv'
    BY <2>1, <2>2 DEF Inv, WayInv, OwnsSlot, Awaited, WellFormed, HasBuffer, AnswerInv,
                      Promised, Opening, CallInv, CallOK, SessionInv, Owns, OwnsStream
  <2>7. \A m : Awaited(m) => Awaited(m)'
    BY <2>1 DEF Awaited
  <2>8. RingInv'
    BY <2>1, <2>7, RingsAgain
  <2> QED BY <2>3, <2>4, <2>5, <2>6, <2>8 DEF Inv
<1> QED BY <1>1, <1>2, <1>3 DEF Next

LEMMA AlwaysInv == Spec => []Inv
<1> QED BY InitHolds, StepKeeps, PTL DEF Spec

(* Whatever a worker or rx serves, as long as the count is right, is for   *)
(* the session that owns the slot.                                         *)
LEMMA InvIsolates ==
  ASSUME Inv
  PROVE  /\ OwnStream
         /\ \A i \in Slot : serving[i] # NoRequest /\ ~ring[i].raced =>
              Unmixed(i) /\ serving[i].from \in Sessions
         /\ rx.cmd = "data" => Found(rx.id) /\ slot[rx.id].owner = rx.from
<1>1. ASSUME NEW s \in Sessions, session[s].open /\ session[s].at # "close"
      PROVE  Found(session[s].id) /\ slot[session[s].id].owner = s
  <2>1. OwnsStream(s) /\ session[s].id \in Slot
    BY <1>1 DEF Inv, SessionInv, Owns, CallInv, CallOK
  <2> QED BY <2>1 DEF OwnsStream, Found
<1>2. OwnStream
  BY <1>1 DEF Inv, SessionInv, OwnStream
<1>3. ASSUME NEW i \in Slot, serving[i] # NoRequest, ~ring[i].raced
      PROVE  Unmixed(i) /\ serving[i].from \in Sessions
  <2>1. serving[i] \in Way /\ Entry(serving[i], i)
    BY <1>3, Members DEF Inv, RingInv, Kept
  <2>2. OwnsSlot(serving[i]) /\ WellFormed(serving[i])
    BY <2>1 DEF Inv, WayInv
  <2>3. serving[i].id = i
    BY <2>1, <2>2, Places DEF WellFormed, Entry
  <2> QED BY <2>1, <2>2, <2>3 DEF OwnsSlot, Entry, WellFormed, Unmixed
<1>4. ASSUME rx.cmd = "data"
      PROVE  Found(rx.id) /\ slot[rx.id].owner = rx.from
  <2>1. rx \in Way /\ rx.id \in Slot
    BY <1>4, RxData
  <2> QED BY <1>4, <2>1 DEF Inv, WayInv, OwnsSlot, Found
<1> QED BY <1>2, <1>3, <1>4

-----------------------------------------------------------------------------
(* Both sides agree.                                                       *)

(* A reliable link has at most one message on its way: the request of the  *)
(* round trip, or its answer.                                              *)
Unsent == sent = <<>> /\ rx = NoRequest
Quiet(i) == ring[i].count = 0 /\ ring[i].adding = 0 /\ ring[i].taking = 0 /\ ~ring[i].raced
NoneBut(i) == \A k \in Slot \ {i} : Quiet(k)
Unqueued == queue = <<>> /\ \A i \in Slot : Quiet(i)
Unserved == closing = NoRequest /\ \A i \in Slot : serving[i] = NoRequest
Nothing == Unsent /\ Unqueued /\ Unserved /\ answers = <<>>

Single(q) == Len(q) = 1 /\ q[1].fresh
IsSent == Single(sent) /\ rx = NoRequest /\ Unqueued /\ Unserved /\ answers = <<>>
IsTaken == sent = <<>> /\ rx # NoRequest /\ rx.fresh /\ Unqueued /\ Unserved /\ answers = <<>>
IsQueued ==
  /\ Unsent /\ Unserved /\ answers = <<>>
  /\ Single(queue) /\ \A i \in Slot : Quiet(i)
IsAdded(i) ==
  /\ sent = <<>> /\ queue = <<>> /\ Unserved /\ answers = <<>>
  /\ rx.id = i /\ rx.fresh /\ rx # NoRequest
  /\ ring[i].count = 0 /\ ring[i].adding = 1 /\ ring[i].taking = 0 /\ ~ring[i].raced
  /\ ring[i].held[ring[i].head].fresh
  /\ NoneBut(i)
IsHeld(i) ==
  /\ Unsent /\ queue = <<>> /\ Unserved /\ answers = <<>>
  /\ ring[i].count = 1 /\ ring[i].adding = 0 /\ ring[i].taking = 0 /\ ~ring[i].raced
  /\ ring[i].held[ring[i].head].fresh
  /\ NoneBut(i)
IsClosing ==
  /\ Unsent /\ Unqueued /\ answers = <<>>
  /\ closing # NoRequest /\ closing.fresh /\ \A i \in Slot : serving[i] = NoRequest
IsServed(i) ==
  /\ Unsent /\ queue = <<>> /\ answers = <<>> /\ closing = NoRequest
  /\ serving[i] # NoRequest /\ serving[i].fresh
  /\ \A k \in Slot \ {i} : serving[k] = NoRequest
  /\ IF ring[i].taking = 0 THEN ring[i].count = 0 ELSE ring[i].taking = 1
  /\ ring[i].adding = 0 /\ ~ring[i].raced
  /\ NoneBut(i)
IsAnswered == Unsent /\ Unqueued /\ Unserved /\ Single(answers)

OneMessage ==
  /\ line = Nobody => Nothing
  /\ \/ Nothing \/ IsSent \/ IsTaken \/ IsQueued \/ IsClosing \/ IsAnswered
     \/ \E i \in Slot : IsAdded(i) \/ IsHeld(i) \/ IsServed(i)

(* What both sides know of a session that is in no round trip, or in one   *)
(* that the controller has not handled yet.                                *)
Owned(s) == {i \in Slot : slot[i].allocated /\ slot[i].owner = s}
SameState(s) ==
  /\ slot[session[s].id].running = session[s].running
  /\ session[s].running => slot[session[s].id].open
Settled(s) ==
  IF session[s].open
  THEN Owned(s) = {session[s].id} /\ (session[s].at # "close" => SameState(s))
  ELSE Owned(s) = {}

(* While the channel is being closed, and when the answer is on its way.   *)
Halting(s) ==
  /\ Owned(s) = {session[s].id}
  /\ session[s].at = "stop" => ~slot[session[s].id].running
Handled(s, a) ==
  /\ session[s].at = "open" =>
       IF a.ok THEN Owned(s) = {a.id} /\ ~slot[a.id].running ELSE Owned(s) = {}
  /\ session[s].at = "close" => Owned(s) = {}
  /\ session[s].at \notin {"open", "close"} =>
       Owned(s) = {session[s].id} /\ a.id = session[s].id
  /\ session[s].at \in {"config", "data"} => SameState(s)
  /\ session[s].at = "start" =>
       /\ slot[session[s].id].running = a.ok
       /\ a.ok => slot[session[s].id].open
  /\ session[s].at = "stop" =>
       /\ slot[session[s].id].running = ~a.ok
       /\ ~a.ok => slot[session[s].id].open

(* A start is never taken back: no other session has the channel.          *)
OwnChannel(s) ==
  /\ session[s].at # "undo"
  /\ session[s].running /\ session[s].at # "close" => session[s].channel = session[s].id

AgreeInv ==
  /\ OneMessage
  /\ \A s \in Sessions : OwnChannel(s)
  /\ \A s \in Sessions :
       \/ line = s /\ (closing # NoRequest \/ answers # <<>>)
       \/ Settled(s)
  /\ closing # NoRequest => Halting(line)
  /\ answers # <<>> => Handled(line, answers[1])

LEMMA OnlyOne ==
  ASSUME NEW S, NEW q \in Seq(S), Single(q)
  PROVE  q # <<>> /\ Head(q) = q[1] /\ Tail(q) = <<>> /\ q[1] \in S /\ 1 \in DOMAIN q
<1>1. Len(q) = 1
  BY DEF Single
<1>2. q # <<>>
  BY <1>1, EmptySeq
<1>3. Tail(q) \in Seq(S) /\ Len(Tail(q)) = 0
  BY <1>1, <1>2, HeadTailProperties
<1> QED BY <1>1, <1>2, <1>3, EmptySeq, Shortened

LEMMA JustOne ==
  ASSUME NEW S, NEW x \in S, x.fresh
  PROVE  Single(Append(<<>>, x)) /\ Append(<<>>, x)[1] = x /\ Append(<<>>, x) # <<>>
<1>1. <<>> \in Seq(S) /\ Len(<<>>) = 0
  BY EmptySeq
<1>2. Len(Append(<<>>, x)) = 1 /\ Append(<<>>, x)[1] = x /\ Append(<<>>, x) \in Seq(S)
  BY <1>1, AppendProperties
<1> QED BY <1>2, EmptySeq DEF Single

(* Where a message is found tells where the only one is.                   *)
LEMMA Whereabouts ==
  ASSUME Inv, AgreeInv
  PROVE  /\ sent # <<>> => IsSent
         /\ rx # NoRequest => IsTaken \/ (rx.id \in Slot /\ IsAdded(rx.id))
         /\ queue # <<>> => IsQueued
         /\ closing # NoRequest => IsClosing
         /\ answers # <<>> => IsAnswered
         /\ \A i \in Slot : serving[i] # NoRequest => IsServed(i)
         /\ \A i \in Slot : ring[i].adding # 0 => IsAdded(i)
         /\ \A i \in Slot : ring[i].taking # 0 => IsServed(i)
         /\ \A i \in Slot : ring[i].count > 0 => IsHeld(i) \/ ring[i].taking # 0
         /\ \A i \in Slot : ~ring[i].raced
<1>1. \/ Nothing \/ IsSent \/ IsTaken \/ IsQueued \/ IsClosing \/ IsAnswered
      \/ \E i \in Slot : IsAdded(i) \/ IsHeld(i) \/ IsServed(i)
  BY DEF AgreeInv, OneMessage
<1>2. CASE Nothing \/ IsSent \/ IsTaken \/ IsQueued \/ IsClosing \/ IsAnswered
  BY <1>2 DEF Nothing, IsSent, IsTaken, IsQueued, IsClosing, IsAnswered, Unsent, Unqueued,
              Unserved, Quiet
<1>3. CASE \E i \in Slot : IsAdded(i)
  <2>1. PICK i \in Slot : IsAdded(i)
    BY <1>3
  <2>2. \A k \in Slot \ {i} : Quiet(k)
    BY <2>1 DEF IsAdded, NoneBut
  <2> QED BY <2>1, <2>2 DEF IsAdded, Unserved, Quiet
<1>4. CASE \E i \in Slot : IsHeld(i)
  <2>1. PICK i \in Slot : IsHeld(i)
    BY <1>4
  <2>2. \A k \in Slot \ {i} : Quiet(k)
    BY <2>1 DEF IsHeld, NoneBut
  <2> QED BY <2>1, <2>2 DEF IsHeld, Unserved, Unsent, Quiet
<1>5. CASE \E i \in Slot : IsServed(i)
  <2>1. PICK i \in Slot : IsServed(i)
    BY <1>5
  <2>2. \A k \in Slot \ {i} : Quiet(k)
    BY <2>1 DEF IsServed, NoneBut
  <2> QED BY <2>1, <2>2 DEF IsServed, Unsent, Quiet
<1> QED BY <1>1, <1>2, <1>3, <1>4, <1>5

(* Whose the only message is.                                              *)
LEMMA TheRequest ==
  ASSUME Inv, AgreeInv, NEW m \in Way, m.fresh
  PROVE  /\ line \in Sessions /\ m \in Requests /\ CallOK(session[line])
         /\ m.id = session[line].id
         /\ session[line].at \in {"open", "config", "start", "data", "stop", "close stop", "close"}
         /\ m.cmd = IF session[line].at = "close stop" THEN "stop" ELSE session[line].at
         /\ m.cmd # "open" => /\ m.id \in Slot /\ slot[m.id].allocated /\ slot[m.id].owner = line
                              /\ session[line].open
         /\ m.cmd = "open" => ~session[line].open
<1>1. /\ line \in Sessions /\ m.from = line /\ m.id = session[line].id
      /\ m.cmd = Command(session[line].at)
      /\ session[line].at \in {"open", "config", "start", "undo", "data", "stop",
                               "close stop", "close"}
  BY WayFresh
<1>2. session[line].at # "undo"
  BY <1>1 DEF AgreeInv, OwnChannel
<1>3. WellFormed(m) /\ OwnsSlot(m) /\ CallOK(session[line]) /\ m \in Requests
  BY <1>1 DEF Inv, WayInv, CallInv, Way
<1>4. m.cmd = IF session[line].at = "close stop" THEN "stop" ELSE session[line].at
  BY <1>1, <1>2 DEF Command
<1> QED BY <1>1, <1>2, <1>3, <1>4 DEF WellFormed, OwnsSlot, CallOK

(* What the controller does for one session leaves the others settled.     *)
OnlyFor(s) ==
  \A i \in Slot :
    \/ slot'[i] = slot[i]
    \/ /\ slot[i].allocated => slot[i].owner = s
       /\ slot'[i].allocated => slot'[i].owner = s

LEMMA OthersSettled ==
  ASSUME Inv, session' = session, NEW s, OnlyFor(s), NEW t \in Sessions, t # s, Settled(t)
  PROVE  Settled(t)'
<1>1. \A i \in Slot : i \in Owned(t) => slot'[i] = slot[i]
  BY DEF Owned, OnlyFor
<1>2. \A i \in Slot : i \in Owned(t)' => slot'[i] = slot[i]
  BY DEF Owned, OnlyFor
<1>3. Owned(t)' = Owned(t)
  BY <1>1, <1>2 DEF Owned
<1>4. session[t].open => session[t].id \in Slot
  BY DEF Inv, CallInv, CallOK
<1> QED BY <1>1, <1>3, <1>4 DEF Settled, SameState

LEMMA SlotsStay ==
  ASSUME UNCHANGED <<session, slot>>, NEW t
  PROVE  /\ Settled(t)' <=> Settled(t)
         /\ Owned(t)' = Owned(t)
         /\ SameState(t)' <=> SameState(t)
         /\ OnlyFor(t)
BY DEF Settled, SameState, Owned, OnlyFor

(* The request moves on, before anything is done for it.                   *)
LEMMA MovesOn ==
  ASSUME Inv, AgreeInv, UNCHANGED <<session, line, slot>>,
         closing = NoRequest, answers = <<>>, closing' = NoRequest, answers' = <<>>,
         line # Nobody,
         \/ IsTaken' \/ IsQueued'
         \/ \E i \in Slot : IsAdded(i)' \/ IsHeld(i)' \/ IsServed(i)'
  PROVE  AgreeInv'
<1>1. OneMessage'
  BY DEF OneMessage
<1>2. \A s \in Sessions : OwnChannel(s)' /\ Settled(s)'
  BY SlotsStay DEF AgreeInv, OwnChannel
<1> QED BY <1>1, <1>2 DEF AgreeInv

(* The request is answered.                                                *)
LEMMA IsHandled ==
  ASSUME Inv, AgreeInv, UNCHANGED <<session, line>>, line \in Sessions, OnlyFor(line),
         IsAnswered', Handled(line, answers[1])'
  PROVE  AgreeInv'
<1>1. OneMessage'
  BY AudioStreamsAssumption DEF OneMessage
<1>2. \A s \in Sessions : OwnChannel(s)'
  BY DEF AgreeInv, OwnChannel
<1>3. ASSUME NEW s \in Sessions, s # line PROVE Settled(s)'
  BY <1>3, OthersSettled DEF AgreeInv
<1>4. answers' # <<>> /\ closing' = NoRequest
  <2>1. Len(<<>>) = 0
    BY EmptySeq
  <2> QED BY <2>1 DEF IsAnswered, Unserved, Single
<1> QED BY <1>1, <1>2, <1>3, <1>4 DEF AgreeInv

(* The answer on a reliable link is the only message then.                 *)
LEMMA AnswerAlone ==
  ASSUME ~setting.lossy, answers = <<>>, NEW m \in Requests, m.fresh, NEW ok \in BOOLEAN, Respond(m, ok)
  PROVE  /\ Single(answers') /\ answers'[1] = Answer(m, ok)
         /\ Answer(m, ok).ok = ok /\ Answer(m, ok).id = m.id
<1>1. answers' = Append(<<>>, Answer(m, ok))
  BY DEF Respond, Posted
<1> QED BY <1>1, AnswerType, JustOne

LEMMA RxTakeAgrees ==
  ASSUME Inv, ~setting.lossy, AgreeInv, RxTake
  PROVE  AgreeInv'
<1> DEFINE h == Head(sent)
<1>1. /\ sent # <<>> /\ sent' = Tail(sent) /\ rx = NoRequest
      /\ UNCHANGED <<host, queue, ring, closing, serving, slot>>
      /\ \/ rx' = h /\ answers' = answers
         \/ ~IsOpen(ChannelOf(h)) /\ rx' = rx /\ Respond(h, FALSE)
  BY DEF RxTake
<1>2. IsSent /\ sent \in Seq(Requests)
  BY <1>1, Whereabouts DEF Inv, TypeOK
<1>3. h = sent[1] /\ Tail(sent) = <<>> /\ h.fresh /\ 1 \in DOMAIN sent /\ h \in Requests
  BY <1>2, OnlyOne DEF IsSent, Single
<1>4. h \in Way /\ h # NoRequest
  BY <1>3, Members DEF Inv, Placed
<1> HIDE DEF h
<1>5. UNCHANGED <<session, line>> /\ line \in Sessions /\ line # Nobody
  BY <1>1, <1>3, <1>4, TheRequest, AudioStreamsAssumption DEF host
<1>6. CASE rx' = h /\ answers' = answers
  <2>1. IsTaken'
    BY <1>1, <1>2, <1>3, <1>4, <1>6 DEF IsSent, IsTaken, Unqueued, Unserved, Quiet
  <2> QED BY <1>1, <1>2, <1>5, <1>6, <2>1, MovesOn DEF IsSent, Unserved
<1>7. CASE ~IsOpen(ChannelOf(h)) /\ rx' = rx /\ Respond(h, FALSE)
  <2>1. h.cmd = "data"
    BY <1>7 DEF IsOpen, ChannelOf
  <2>2. session[line].at = "data" /\ session[line].open /\ h.id = session[line].id
    BY <1>3, <1>4, <2>1, TheRequest
  <2>3. /\ Single(answers') /\ answers'[1] = Answer(h, FALSE) /\ answers'[1].id = h.id
    BY <1>2, <1>3, <1>7, AnswerAlone DEF IsSent
  <2>4. IsAnswered'
    BY <1>1, <1>2, <1>3, <1>7, <2>3 DEF IsAnswered, IsSent, Unsent, Unqueued, Unserved, Quiet
  <2>5. Settled(line)
    BY <1>2, <1>5 DEF AgreeInv, IsSent, Unserved
  <2>6. Owned(line) = {session[line].id} /\ SameState(line)
    BY <2>2, <2>5 DEF Settled
  <2>7. Handled(line, answers[1])'
    BY <1>1, <1>5, <2>2, <2>3, <2>6 DEF Handled, Owned, SameState
  <2> QED BY <1>1, <1>5, <2>4, <2>7, SlotsStay, IsHandled
<1> QED BY <1>1, <1>6, <1>7

LEMMA RxQueueControlAgrees ==
  ASSUME Inv, ~setting.lossy, AgreeInv, RxQueueControl
  PROVE  AgreeInv'
<1>1. /\ rx # NoRequest /\ rx' = NoRequest /\ rx \in Way
      /\ UNCHANGED <<host, sent, ring, closing, serving, slot, answers>>
  BY Members DEF RxQueueControl
<1>2. IsTaken
  <2>1. SUFFICES ASSUME ring[rx.id].adding # 0, rx.id \in Slot
                 PROVE  FALSE
    BY <1>1, Whereabouts DEF IsAdded
  <2>2. rx.cmd = "data"
    BY <2>1 DEF Inv, RingInv, Kept
  <2> QED BY <2>1, <2>2, Places DEF RxQueueControl, ChannelOf
<1>3. rx \in Requests /\ rx.fresh
  BY <1>2 DEF IsTaken, Inv, TypeOK
<1>4. Len(<<>>) = 0 /\ QueueDepth > 0
  BY EmptySeq, AudioStreamsAssumption
<1>5. queue' = Append(<<>>, rx)
  BY <1>2, <1>4 DEF RxQueueControl, IsTaken, Unqueued
<1>6. Single(queue')
  BY <1>3, <1>5, JustOne
<1>7. IsQueued'
  BY <1>1, <1>2, <1>6 DEF IsQueued, IsTaken, Unsent, Unserved, Unqueued, Quiet
<1>8. UNCHANGED <<session, line, slot>> /\ line # Nobody
  BY <1>1, <1>3, TheRequest, AudioStreamsAssumption DEF host
<1> QED BY <1>1, <1>2, <1>7, <1>8, MovesOn DEF IsTaken, Unserved

(* The request for a data channel, before it is stored.                    *)
LEMMA DataTaken ==
  ASSUME Inv, AgreeInv, rx.cmd = "data", ring[rx.id].adding = 0
  PROVE  IsTaken /\ rx.fresh /\ line \in Sessions /\ line # Nobody
<1>1. rx # NoRequest /\ rx \in Way /\ rx.id \in Slot
  BY RxData
<1>2. IsTaken
  BY <1>1, Whereabouts DEF IsAdded
<1> QED BY <1>1, <1>2, TheRequest, AudioStreamsAssumption DEF IsTaken

LEMMA RxQueueAgrees ==
  ASSUME Inv, ~setting.lossy, AgreeInv, RxQueue
  PROVE  AgreeInv'
<1>0. PICK i \in Slot, r \in Rings : i = rx.id /\ r = ring[i]
  BY RxData DEF RxQueue
<1>1. /\ rx.cmd = "data" /\ r.adding = 0
      /\ UNCHANGED <<host, sent, queue, closing, serving, slot, answers>>
      /\ r.count < QueueDepth => ring' = [ring EXCEPT ![i] = Put(r, rx)] /\ rx' = rx
  BY <1>0 DEF RxQueue
<1>2. IsTaken /\ rx.fresh /\ line # Nobody /\ rx \in Requests /\ rx # NoRequest
  BY <1>0, <1>1, DataTaken, RxData
<1>3. r.count = 0 /\ r.taking = 0 /\ ~r.raced /\ QueueDepth \in Nat \ {0}
  BY <1>0, <1>2, AudioStreamsAssumption DEF IsTaken, Unqueued, Quiet
<1>4. ring' = [ring EXCEPT ![i] = Put(r, rx)] /\ rx' = rx
  BY <1>1, <1>3
<1>5. PICK q : q = Put(r, rx)
  OBVIOUS
<1>6. /\ q.raced = (r.raced \/ r.taking # 0) /\ q.adding = 1 /\ q.taking = 0 /\ q.count = 0
      /\ q.head = r.head /\ q.held[r.tail] = rx
  BY <1>1, <1>2, <1>3, <1>5, Stores
<1>7. r.tail = r.head
  <2>1. Exact(r)
    BY <1>0, <1>3 DEF Inv, RingInv, Kept
  <2>2. Offset(r, r.tail) = 0
    BY <1>1, <1>3, <2>1 DEF Exact, Stored, Size
  <2>3. r.head \in 0 .. QueueDepth - 1 /\ r.tail \in 0 .. QueueDepth - 1
    BY RingType
  <2> QED BY <1>3, <2>2, <2>3 DEF Offset
<1>8. ring'[i] = q /\ \A k \in Slot \ {i} : ring'[k] = ring[k]
  BY <1>4, <1>5 DEF Inv, TypeOK
<1>9. IsAdded(i)'
  <2>1. NoneBut(i)'
    BY <1>2, <1>8 DEF IsTaken, Unqueued, NoneBut, Quiet
  <2>2. /\ ring'[i].count = 0 /\ ring'[i].adding = 1 /\ ring'[i].taking = 0 /\ ~ring'[i].raced
        /\ ring'[i].held[ring'[i].head] = rx
    BY <1>3, <1>6, <1>7, <1>8
  <2>3. /\ sent' = <<>> /\ queue' = <<>> /\ Unserved' /\ answers' = <<>>
        /\ rx'.id = i /\ rx'.fresh /\ rx' # NoRequest
    BY <1>0, <1>1, <1>2, <1>4 DEF IsTaken, Unqueued, Unserved
  <2> QED BY <1>2, <2>1, <2>2, <2>3 DEF IsAdded
<1>10. UNCHANGED <<session, line>>
  BY <1>1 DEF host
<1> QED BY <1>1, <1>2, <1>9, <1>10, MovesOn DEF IsTaken, Unserved

LEMMA RxCountAgrees ==
  ASSUME Inv, ~setting.lossy, AgreeInv, RxCount
  PROVE  AgreeInv'
<1>0. PICK i \in Slot, r \in Rings : i = rx.id /\ r = ring[i]
  BY RxData DEF RxCount
<1>1. /\ r.adding # 0 /\ rx' = NoRequest
      /\ ring' = [ring EXCEPT ![i].count = ring[i].adding, ![i].adding = 0]
      /\ UNCHANGED <<host, sent, queue, closing, serving, slot, answers>>
  BY <1>0 DEF RxCount
<1>2. IsAdded(i)
  BY <1>0, <1>1, Whereabouts
<1>3. line # Nobody
  <2>1. ~Nothing
    BY <1>2 DEF Nothing, Unqueued, Quiet, IsAdded
  <2> QED BY <2>1 DEF AgreeInv, OneMessage
<1>4. /\ ring'[i].count = 1 /\ ring'[i].adding = 0 /\ ring'[i].taking = 0 /\ ~ring'[i].raced
      /\ ring'[i].held[ring'[i].head].fresh
      /\ \A k \in Slot \ {i} : ring'[k] = ring[k]
  <2>1. ring' = [ring EXCEPT ![i] = [r EXCEPT !.count = r.adding, !.adding = 0]]
    BY <1>0, <1>1 DEF Inv, TypeOK
  <2>2. PICK q : q = [r EXCEPT !.count = r.adding, !.adding = 0]
    OBVIOUS
  <2>3. /\ q.count = r.adding /\ q.adding = 0 /\ q.taking = r.taking /\ q.raced = r.raced
        /\ q.held = r.held /\ q.head = r.head
    BY <2>2 DEF Rings
  <2>4. ring'[i] = q /\ \A k \in Slot \ {i} : ring'[k] = ring[k]
    BY <2>1, <2>2 DEF Inv, TypeOK
  <2> QED BY <1>0, <1>2, <2>3, <2>4 DEF IsAdded
<1>5. IsHeld(i)'
  <2>1. NoneBut(i)'
    BY <1>2, <1>4 DEF IsAdded, NoneBut, Quiet
  <2> QED BY <1>1, <1>2, <1>4, <2>1 DEF IsAdded, IsHeld, Unsent, Unserved
<1>6. UNCHANGED <<session, line>>
  BY <1>1 DEF host
<1> QED BY <1>1, <1>2, <1>3, <1>5, <1>6, MovesOn DEF IsAdded, Unserved

(* The control worker has the only request.                                *)
LEMMA ControlAlone ==
  ASSUME Inv, AgreeInv, NEW cmd, TakeControl(cmd), SameRings
  PROVE  /\ UNCHANGED <<session, line>> /\ line \in Sessions
         /\ Asked \in Way /\ Asked \in Requests /\ Asked.fresh /\ Asked.cmd = cmd
         /\ Unsent' /\ Unqueued' /\ (\A i \in Slot : serving'[i] = NoRequest)
         /\ closing = NoRequest /\ answers = <<>>
         /\ Settled(line)
<1>1. /\ closing = NoRequest /\ queue # <<>> /\ Asked.cmd = cmd
      /\ queue' = Tail(queue)
      /\ UNCHANGED <<host, sent, rx, serving>>
  BY DEF TakeControl, Asked
<1>2. queue \in Seq(Requests)
  BY DEF Inv, TypeOK
<1>3. IsQueued /\ Single(queue)
  BY <1>1, Whereabouts DEF IsQueued
<1>4. /\ Asked = queue[1] /\ Tail(queue) = <<>> /\ 1 \in DOMAIN queue
      /\ Asked \in Requests /\ Asked.fresh
  BY <1>2, <1>3, OnlyOne DEF Asked, Single
<1>5. Asked \in Way
  BY <1>4, Members
<1>6. line \in Sessions
  BY <1>4, <1>5, TheRequest
<1>7. Settled(line)
  BY <1>1, <1>3, <1>6 DEF AgreeInv, IsQueued
<1>8. Unqueued'
  BY <1>1, <1>3, <1>4 DEF IsQueued, SameRings, SameQueue, Quiet, Unqueued
<1> QED BY <1>1, <1>3, <1>4, <1>5, <1>6, <1>7, <1>8 DEF IsQueued, Unsent, Unserved, host

(* It answers.                                                             *)
LEMMA ControlSays ==
  ASSUME ~setting.lossy, answers = <<>>, Unsent', Unqueued', \A i \in Slot : serving'[i] = NoRequest,
         closing' = NoRequest, NEW m \in Requests, m.fresh, NEW ok \in BOOLEAN, Respond(m, ok)
  PROVE  IsAnswered' /\ answers'[1].ok = ok /\ answers'[1].id = m.id
BY AnswerAlone DEF IsAnswered, Unserved

(* rx serves a request itself.                                             *)
LEMMA RxServeAgrees ==
  ASSUME Inv, ~setting.lossy, AgreeInv, RxServe
  PROVE  AgreeInv'
<1>1. PICK ok \in Outcomes(rx) :
        /\ rx.cmd = "data" /\ ring[rx.id].adding = 0 /\ rx' = NoRequest /\ Respond(rx, ok)
        /\ UNCHANGED <<host, sent, queue, ring, closing, serving, slot>>
  BY DEF RxServe
<1>2. ok \in BOOLEAN
  BY DEF Outcomes
<1>3. IsTaken /\ rx.fresh /\ rx \in Way
  BY <1>1, DataTaken, RxData
<1>4. /\ line \in Sessions /\ session[line].at = "data" /\ session[line].open
      /\ rx.id = session[line].id /\ rx \in Requests
  BY <1>1, <1>3, TheRequest
<1>5. /\ UNCHANGED <<session, line, slot>> /\ closing' = NoRequest /\ Unsent' /\ Unqueued'
      /\ answers = <<>> /\ closing = NoRequest /\ \A k \in Slot : serving'[k] = NoRequest
  BY <1>1, <1>3 DEF IsTaken, Unsent, Unserved, Unqueued, Quiet, host
<1>6. IsAnswered' /\ answers'[1].id = rx.id
  BY <1>1, <1>2, <1>3, <1>4, <1>5, ControlSays
<1>7. Owned(line) = {session[line].id} /\ SameState(line)
  BY <1>4, <1>5 DEF AgreeInv, Settled
<1>8. Handled(line, answers[1])'
  BY <1>4, <1>5, <1>6, <1>7 DEF Handled, Owned, SameState
<1> QED BY <1>4, <1>5, <1>6, <1>8, SlotsStay, IsHandled

LEMMA AllocateAgrees ==
  ASSUME Inv, ~setting.lossy, AgreeInv, Allocate
  PROVE  AgreeInv'
<1> DEFINE free == {i \in Streams : ~slot[i].allocated}
<1>1. /\ TakeControl("open") /\ UNCHANGED <<closing, ring>>
      /\ \/ free = {} /\ Respond(Asked, FALSE) /\ slot' = slot
         \/ /\ free # {}
            /\ slot' = [slot EXCEPT ![Lowest(free)] = [Free EXCEPT !.allocated = TRUE, !.owner = Asked.from]]
            /\ Respond([Asked EXCEPT !.id = Lowest(free)], TRUE)
  BY DEF Allocate, AllocateFrom
<1>2. /\ UNCHANGED <<session, line>> /\ line \in Sessions
      /\ Asked \in Way /\ Asked \in Requests /\ Asked.fresh /\ Asked.cmd = "open"
      /\ Unsent' /\ Unqueued' /\ (\A i \in Slot : serving'[i] = NoRequest)
      /\ closing = NoRequest /\ answers = <<>>
      /\ Settled(line)
  BY <1>1, NoRings, ControlAlone DEF Inv
<1>3. session[line].at = "open" /\ ~session[line].open /\ Owned(line) = {} /\ Asked.from = line
  BY <1>2, TheRequest, WayFresh DEF Settled
<1>4. Streams \subseteq Slot /\ Slot \subseteq Nat
  <2>1. setting.streams \in 0 .. MaxStreams /\ MaxStreams \in Nat
    <3>1. setting \in [sessions : SUBSET Sessions, streams : 0 .. MaxStreams, lossy : BOOLEAN]
      BY AudioStreamsAssumption DEF Inv, TypeOK
    <3> QED BY <3>1, AudioStreamsAssumption
  <2> QED BY <2>1 DEF Streams, Slot
<1>5. CASE free = {} /\ Respond(Asked, FALSE) /\ slot' = slot
  <2>1. IsAnswered' /\ answers'[1].ok = FALSE
    BY <1>1, <1>2, <1>5, ControlSays
  <2>2. Handled(line, answers[1])'
    BY <1>2, <1>3, <1>5, <2>1 DEF Handled, Owned
  <2> QED BY <1>2, <1>5, <2>1, <2>2, SlotsStay, IsHandled
<1>6. ASSUME free # {}, NEW i \in free, i = Lowest(free),
             slot' = [slot EXCEPT ![i] = [Free EXCEPT !.allocated = TRUE, !.owner = Asked.from]],
             Respond([Asked EXCEPT !.id = i], TRUE)
      PROVE  AgreeInv'
  <2>1. i \in Slot /\ ~slot[i].allocated
    BY <1>6, <1>4
  <2> DEFINE m == [Asked EXCEPT !.id = i]
  <2>2. m \in Requests /\ m.fresh /\ m.id = i
    BY <1>2, <2>1, Places DEF Requests
  <2> HIDE DEF m, free
  <2>3. IsAnswered' /\ answers'[1].ok = TRUE /\ answers'[1].id = i
    BY <1>1, <1>2, <1>6, <2>2, ControlSays DEF m
  <2> DEFINE e == [Free EXCEPT !.allocated = TRUE, !.owner = Asked.from]
  <2>4. e.allocated /\ e.owner = line /\ e.running = FALSE
    BY <1>3 DEF Free
  <2> HIDE DEF e
  <2>5. \A k \in Slot : slot'[k] = IF k = i THEN e ELSE slot[k]
    BY <1>6, <2>1 DEF Inv, TypeOK, e
  <2>6. OnlyFor(line)
    BY <2>1, <2>4, <2>5 DEF OnlyFor
  <2>7. Owned(line)' = {i} /\ ~slot'[i].running
    BY <1>2, <1>3, <2>1, <2>4, <2>5 DEF Owned
  <2>8. Handled(line, answers[1])'
    BY <1>2, <1>3, <2>3, <2>7 DEF Handled
  <2> QED BY <1>2, <2>3, <2>6, <2>8, IsHandled
<1>7. free # {} => Lowest(free) \in free
  <2>1. free \subseteq Nat
    BY <1>4
  <2> HIDE DEF free
  <2> QED BY <2>1, LowestOf
<1> HIDE DEF free
<1> QED BY <1>1, <1>5, <1>6, <1>7

(* A step of the control worker for the slot of the session.               *)
LEMMA SlotOfLine ==
  ASSUME Inv, AgreeInv, NEW cmd, cmd # "open", TakeControl(cmd), SameRings, NEW e,
         slot' = [slot EXCEPT ![Asked.id] = e],
         e.allocated = slot[Asked.id].allocated, e.owner = slot[Asked.id].owner
  PROVE  /\ Asked.id = session[line].id /\ Asked.id \in Slot /\ OnlyFor(line)
         /\ Owned(line) = {Asked.id} /\ Owned(line)' = {Asked.id} /\ slot'[Asked.id] = e
<1>1. /\ UNCHANGED <<session, line>> /\ line \in Sessions
      /\ Asked \in Way /\ Asked \in Requests /\ Asked.fresh /\ Asked.cmd = cmd
      /\ Settled(line)
  BY ControlAlone
<1>2. /\ Asked.id = session[line].id /\ Asked.id \in Slot /\ slot[Asked.id].owner = line
      /\ session[line].open
  BY <1>1, TheRequest
<1>3. Owned(line) = {Asked.id}
  BY <1>1, <1>2 DEF Settled
<1>4. \A k \in Slot : slot'[k] = IF k = Asked.id THEN e ELSE slot[k]
  BY <1>2 DEF Inv, TypeOK
<1>5. OnlyFor(line)
  BY <1>2, <1>4 DEF OnlyFor
<1>6. Owned(line)' = Owned(line)
  BY <1>1, <1>4 DEF Owned
<1> QED BY <1>2, <1>3, <1>4, <1>5, <1>6

LEMMA ConfigureAgrees ==
  ASSUME Inv, ~setting.lossy, AgreeInv, Configure
  PROVE  AgreeInv'
<1>1. PICK outcome \in PrepareOutcomes, valid \in BOOLEAN :
        /\ TakeControl("config") /\ UNCHANGED <<closing, ring>>
        /\ slot' = IF valid /\ outcome # "refused"
                   THEN [slot EXCEPT ![Asked.id] = Prepared(slot[Asked.id], outcome)]
                   ELSE slot
        /\ Respond(Asked, valid /\ outcome = "done")
  <2>1. (Found(Asked.id) /\ ~slot[Asked.id].running) \in BOOLEAN
    OBVIOUS
  <2> QED BY <2>1 DEF Configure
<1>2. /\ UNCHANGED <<session, line>> /\ line \in Sessions
      /\ Asked \in Way /\ Asked \in Requests /\ Asked.fresh /\ Asked.cmd = "config"
      /\ Unsent' /\ Unqueued' /\ (\A i \in Slot : serving'[i] = NoRequest)
      /\ closing = NoRequest /\ answers = <<>>
      /\ Settled(line) /\ SameRings
  BY <1>1, NoRings, ControlAlone DEF Inv
<1>3. /\ session[line].at = "config" /\ session[line].open /\ Asked.id = session[line].id
      /\ Asked.id \in Slot
  BY <1>2, TheRequest
<1>4. IsAnswered' /\ answers'[1].id = Asked.id
  <2>1. (valid /\ outcome = "done") \in BOOLEAN
    OBVIOUS
  <2> QED BY <1>1, <1>2, <2>1, ControlSays
<1>5. Owned(line) = {Asked.id} /\ SameState(line)
  BY <1>2, <1>3 DEF Settled
<1>6. CASE slot' = slot
  <2>1. Handled(line, answers[1])'
    BY <1>2, <1>3, <1>4, <1>5, <1>6 DEF Handled, Owned, SameState
  <2> QED BY <1>2, <1>4, <1>6, <2>1, SlotsStay, IsHandled
<1>7. CASE slot' = [slot EXCEPT ![Asked.id] = Prepared(slot[Asked.id], outcome)]
  <2> DEFINE e == Prepared(slot[Asked.id], outcome)
  <2>1. /\ e.allocated = slot[Asked.id].allocated /\ e.owner = slot[Asked.id].owner
        /\ e.running = slot[Asked.id].running /\ e.open = slot[Asked.id].open
    <3>1. PICK r \in [allocated : BOOLEAN, stream : BOOLEAN, dma : BOOLEAN,
                       configured : BOOLEAN, running : BOOLEAN, open : BOOLEAN,
                       worker : BOOLEAN, owner : Sessions \cup {Nobody}] : r = slot[Asked.id]
      BY <1>3 DEF Inv, TypeOK
    <3> QED BY <3>1 DEF Prepared
  <2> HIDE DEF e
  <2>2. OnlyFor(line) /\ Owned(line)' = {Asked.id} /\ slot'[Asked.id] = e
    BY <1>1, <1>2, <1>7, <2>1, SlotOfLine DEF e
  <2>3. Handled(line, answers[1])'
    BY <1>2, <1>3, <1>4, <1>5, <2>1, <2>2 DEF Handled, SameState
  <2> QED BY <1>2, <1>4, <2>2, <2>3, IsHandled
<1> QED BY <1>1, <1>6, <1>7

LEMMA TriggerAgrees ==
  ASSUME Inv, ~setting.lossy, AgreeInv, Trigger
  PROVE  AgreeInv'
<1>1. PICK opens \in BOOLEAN, runs \in BOOLEAN :
        /\ TakeControl("start") /\ closing' = closing
        /\ runs => opens
        /\ slot' = IF opens
                   THEN [slot EXCEPT ![Asked.id].open = TRUE, ![Asked.id].worker = TRUE,
                                     ![Asked.id].running = runs]
                   ELSE slot
        /\ Respond(Asked, runs)
  <2>1. PICK outcome \in IF Failures THEN {"done", "no mutex", "no thread", "no trigger"}
                         ELSE {"done"} :
          LET id == Asked.id
              valid == Found(id) /\ slot[id].configured /\ slot[id].stream
              registered == valid /\ (ring[id].mutex # "none" \/ outcome # "no mutex")
              opens == registered /\ (slot[id].open \/ outcome # "no thread")
              runs == opens /\ (slot[id].running \/ outcome # "no trigger")
          IN /\ slot' = IF opens
                        THEN [slot EXCEPT ![id].open = TRUE, ![id].worker = TRUE,
                                          ![id].running = runs]
                        ELSE slot
             /\ Respond(Asked, runs)
    BY DEF Trigger
  <2> DEFINE valid == Found(Asked.id) /\ slot[Asked.id].configured /\ slot[Asked.id].stream
             registered == valid /\ (ring[Asked.id].mutex # "none" \/ outcome # "no mutex")
             opens == registered /\ (slot[Asked.id].open \/ outcome # "no thread")
             runs == opens /\ (slot[Asked.id].running \/ outcome # "no trigger")
  <2>2. opens \in BOOLEAN /\ runs \in BOOLEAN /\ (runs => opens)
    OBVIOUS
  <2> QED BY <2>1, <2>2 DEF Trigger
<1>2. /\ UNCHANGED <<session, line>> /\ line \in Sessions
      /\ Asked \in Way /\ Asked \in Requests /\ Asked.fresh /\ Asked.cmd = "start"
      /\ Unsent' /\ Unqueued' /\ (\A i \in Slot : serving'[i] = NoRequest)
      /\ closing = NoRequest /\ answers = <<>>
      /\ Settled(line) /\ SameRings
  BY <1>1, TriggerRings, ControlAlone
<1>3. /\ session[line].at = "start" /\ session[line].open /\ Asked.id = session[line].id
      /\ Asked.id \in Slot /\ ~session[line].running
  BY <1>2, TheRequest DEF CallOK
<1>4. IsAnswered' /\ answers'[1].id = Asked.id /\ answers'[1].ok = runs
  BY <1>1, <1>2, ControlSays
<1>5. Owned(line) = {Asked.id} /\ SameState(line)
  BY <1>2, <1>3 DEF Settled
<1>6. CASE ~opens
  <2>1. slot' = slot /\ runs = FALSE /\ slot[Asked.id].running = FALSE
    BY <1>1, <1>3, <1>5, <1>6 DEF SameState, Inv, TypeOK
  <2>2. Handled(line, answers[1])'
    BY <1>2, <1>3, <1>4, <1>5, <2>1 DEF Handled, Owned
  <2> QED BY <1>2, <1>4, <2>1, <2>2, SlotsStay, IsHandled
<1>7. CASE opens
  <2> DEFINE e == [slot[Asked.id] EXCEPT !.open = TRUE, !.worker = TRUE, !.running = runs]
  <2>1. /\ e.allocated = slot[Asked.id].allocated /\ e.owner = slot[Asked.id].owner
        /\ e.running = runs /\ e.open = TRUE
    <3>1. PICK r \in [allocated : BOOLEAN, stream : BOOLEAN, dma : BOOLEAN,
                       configured : BOOLEAN, running : BOOLEAN, open : BOOLEAN,
                       worker : BOOLEAN, owner : Sessions \cup {Nobody}] : r = slot[Asked.id]
      BY <1>3 DEF Inv, TypeOK
    <3> QED BY <3>1
  <2>2. slot' = [slot EXCEPT ![Asked.id] = e]
    BY <1>1, <1>3, <1>7 DEF Inv, TypeOK
  <2> HIDE DEF e
  <2>3. OnlyFor(line) /\ Owned(line)' = {Asked.id} /\ slot'[Asked.id] = e
    BY <1>1, <1>2, <2>1, <2>2, SlotOfLine
  <2>4. Handled(line, answers[1])'
    BY <1>2, <1>3, <1>4, <2>1, <2>3 DEF Handled
  <2> QED BY <1>2, <1>4, <2>3, <2>4, IsHandled
<1> QED BY <1>6, <1>7

(* The close of the channel begins, or the STOP fails.                     *)
LEMMA BeginCloseAgrees ==
  ASSUME Inv, ~setting.lossy, AgreeInv, NEW cmd \in {"stop", "close"}, BeginClose(cmd)
  PROVE  AgreeInv'
<1>1. TakeControl(cmd) /\ cmd # "open" /\ ring' = ring
  BY DEF BeginClose
<1>2. /\ UNCHANGED <<session, line>> /\ line \in Sessions
      /\ Asked \in Way /\ Asked \in Requests /\ Asked.fresh /\ Asked.cmd = cmd
      /\ Unsent' /\ Unqueued' /\ (\A i \in Slot : serving'[i] = NoRequest)
      /\ closing = NoRequest /\ answers = <<>>
      /\ Settled(line) /\ SameRings
  BY <1>1, NoRings, ControlAlone DEF Inv
<1>3. /\ session[line].at \in {"stop", "close stop", "close"} /\ session[line].open
      /\ cmd = IF session[line].at = "close stop" THEN "stop" ELSE session[line].at
      /\ Asked.id = session[line].id /\ Asked.id \in Slot /\ slot[Asked.id].allocated
      /\ session[line].at # "close" => session[line].running
  BY <1>2, TheRequest DEF CallOK
<1>4. Owned(line) = {Asked.id} /\ (session[line].at # "close" => SameState(line))
  BY <1>2, <1>3 DEF Settled
<1>5. CASE Respond(Asked, FALSE) /\ cmd = "stop" /\ slot' = slot /\ closing' = closing
  <2>1. IsAnswered' /\ answers'[1].id = Asked.id /\ answers'[1].ok = FALSE
    BY <1>2, <1>5, ControlSays
  <2>2. Handled(line, answers[1])'
    BY <1>2, <1>3, <1>4, <1>5, <2>1 DEF Handled, Owned, SameState
  <2> QED BY <1>2, <1>5, <2>1, <2>2, SlotsStay, IsHandled
<1>6. CASE /\ slot' = [slot EXCEPT ![Asked.id].open = FALSE, ![Asked.id].running = @ /\ cmd # "stop"]
           /\ closing' = Asked
           /\ UNCHANGED answers
  <2> DEFINE e == [slot[Asked.id] EXCEPT !.open = FALSE,
                                         !.running = slot[Asked.id].running /\ cmd # "stop"]
  <2>1. /\ e.allocated = slot[Asked.id].allocated /\ e.owner = slot[Asked.id].owner
        /\ cmd = "stop" => ~e.running
    BY <1>3 DEF Inv, TypeOK
  <2>2. slot' = [slot EXCEPT ![Asked.id] = e]
    BY <1>3, <1>6 DEF Inv, TypeOK
  <2> HIDE DEF e
  <2>3. OnlyFor(line) /\ Owned(line)' = {Asked.id} /\ slot'[Asked.id] = e
    BY <1>1, <1>2, <2>1, <2>2, SlotOfLine
  <2>4. Asked # NoRequest
    BY <1>2 DEF Way
  <2>5. IsClosing' /\ closing' # NoRequest /\ answers' = <<>>
    BY <1>2, <1>6, <2>4 DEF IsClosing
  <2>6. OneMessage'
    BY <1>2, <2>5, AudioStreamsAssumption DEF OneMessage
  <2>7. ASSUME NEW s \in Sessions PROVE OwnChannel(s)' /\ (s = line \/ Settled(s)')
    BY <1>2, <2>3, <2>7, OthersSettled DEF AgreeInv, OwnChannel
  <2>8. Halting(line)'
    BY <1>2, <1>3, <2>1, <2>3 DEF Halting
  <2> QED BY <1>2, <2>5, <2>6, <2>7, <2>8 DEF AgreeInv
<1> QED BY <1>3, <1>5, <1>6 DEF BeginClose, Found

LEMMA FinishCloseAgrees ==
  ASSUME Inv, ~setting.lossy, AgreeInv, FinishClose
  PROVE  AgreeInv'
<1>1. /\ closing # NoRequest /\ closing' = NoRequest /\ Respond(closing, TRUE)
      /\ slot' = [slot EXCEPT ![closing.id] = IF closing.cmd = "close" THEN Free
                                              ELSE [slot[closing.id] EXCEPT !.worker = FALSE]]
      /\ ring' = [ring EXCEPT ![closing.id] = Cleared(ring[closing.id])]
      /\ UNCHANGED <<host, sent, rx, queue, serving>>
  BY DEF FinishClose, Finish
<1>2. IsClosing /\ closing \in Way /\ closing.fresh
  BY <1>1, Whereabouts, Members DEF IsClosing
<1>3. /\ line \in Sessions /\ closing \in Requests /\ closing.id = session[line].id
      /\ closing.cmd = IF session[line].at = "close stop" THEN "stop" ELSE session[line].at
      /\ closing.cmd \in {"stop", "close"}
      /\ closing.id \in Slot /\ slot[closing.id].owner = line
  BY <1>1, <1>2, TheRequest DEF Inv, Placed
<1>4. UNCHANGED <<session, line>>
  BY <1>1 DEF host
<1>5. Halting(line)
  BY <1>1 DEF AgreeInv
<1>6. Unsent' /\ Unqueued' /\ (\A i \in Slot : serving'[i] = NoRequest) /\ answers = <<>>
  <2>1. ASSUME NEW i \in Slot PROVE Quiet(i)'
    <3>1. ring[i] \in Rings /\ Quiet(i)
      BY <1>2 DEF IsClosing, Unqueued, Inv, TypeOK
    <3>2. PICK q : q = Cleared(ring[i])
      OBVIOUS
    <3>3. q.count = 0 /\ q.adding = 0 /\ q.taking = 0 /\ ~q.raced
      BY <3>1, <3>2 DEF Cleared, Rings, Quiet
    <3>4. ring'[i] \in {ring[i], q}
      BY <1>1, <3>2 DEF Inv, TypeOK
    <3> QED BY <3>1, <3>3, <3>4 DEF Quiet
  <2> QED BY <1>1, <1>2, <2>1 DEF IsClosing, Unsent, Unqueued
<1>7. IsAnswered' /\ answers'[1].id = closing.id /\ answers'[1].ok = TRUE
  BY <1>1, <1>2, <1>3, <1>6, ControlSays
<1> DEFINE e == IF closing.cmd = "close" THEN Free ELSE [slot[closing.id] EXCEPT !.worker = FALSE]
<1>8. /\ closing.cmd = "close" => ~e.allocated
      /\ closing.cmd = "stop" => /\ e.allocated = slot[closing.id].allocated /\ e.owner = slot[closing.id].owner
                                 /\ e.running = slot[closing.id].running
  BY <1>3 DEF Free, Inv, TypeOK
<1> HIDE DEF e
<1>9. \A k \in Slot : slot'[k] = IF k = closing.id THEN e ELSE slot[k]
  BY <1>1, <1>3 DEF Inv, TypeOK, e
<1>10. OnlyFor(line)
  BY <1>3, <1>8, <1>9 DEF OnlyFor
<1>11. Handled(line, answers[1])'
  <2>1. CASE closing.cmd = "close"
    <3>1. \A k \in Slot : slot[k].allocated /\ slot[k].owner = line => k = closing.id
      BY <1>3, <1>5 DEF Owned, Halting
    <3>2. Owned(line)' = {} /\ session[line].at = "close"
      BY <1>3, <1>4, <1>8, <1>9, <2>1, <3>1 DEF Owned
    <3> QED BY <1>4, <3>2 DEF Handled
  <2>2. CASE closing.cmd = "stop"
    <3>1. /\ Owned(line)' = {session[line].id} /\ session[line].at \in {"stop", "close stop"}
          /\ session[line].at = "stop" => ~slot'[session[line].id].running
      BY <1>3, <1>4, <1>5, <1>8, <1>9, <2>2 DEF Owned, Halting
    <3>2. slot'[session[line].id].running \in BOOLEAN
      BY <1>3, <1>8, <1>9, <2>2 DEF Inv, TypeOK
    <3> QED BY <1>3, <1>4, <1>7, <3>1, <3>2 DEF Handled
  <2> QED BY <1>3, <2>1, <2>2
<1> QED BY <1>3, <1>4, <1>7, <1>10, <1>11, IsHandled

-----------------------------------------------------------------------------
(* The data worker.                                                        *)

LEMMA BeginDataAgrees ==
  ASSUME Inv, ~setting.lossy, AgreeInv, NEW i \in Slot, BeginData(i)
  PROVE  AgreeInv'
<1>0. PICK r \in Rings : r = ring[i]
  BY DEF Inv, TypeOK
<1>1. /\ serving[i] = NoRequest /\ serving' = [serving EXCEPT ![i] = r.held[r.head]]
      /\ ring' = [ring EXCEPT ![i] = Pop(r)] /\ r.count > 0
      /\ UNCHANGED <<host, sent, rx, queue, closing, slot, answers>>
  BY <1>0 DEF BeginData
<1>2. r.taking = 0
  <2>1. r.taking # 0 => serving[i] # NoRequest
    BY <1>0 DEF Inv, RingInv, Kept
  <2> QED BY <1>1, <2>1
<1>3. IsHeld(i)
  BY <1>0, <1>1, <1>2, Whereabouts
<1>4. line # Nobody
  <2>1. ~Nothing
    BY <1>3 DEF Nothing, Unqueued, Quiet, IsHeld
  <2> QED BY <2>1 DEF AgreeInv, OneMessage
<1>5. r.held[r.head].fresh /\ r.held[r.head] # NoRequest
  <2>1. r.head \in Place
    BY RingType
  <2>2. r.held[r.head].cmd = "data"
    BY <1>0, <2>1 DEF Inv, RingInv, Kept, Entry
  <2> QED BY <1>0, <1>3, <2>2, NoneIsRequest DEF IsHeld
<1>6. PICK q : q = Pop(r)
  OBVIOUS
<1>7. q.adding = 0 /\ q.taking = 1 /\ ~q.raced
  BY <1>0, <1>3, <1>6, Takes DEF IsHeld
<1>8. ring'[i] = q /\ \A k \in Slot \ {i} : ring'[k] = ring[k]
  BY <1>1, <1>6 DEF Inv, TypeOK
<1>9. serving'[i] = r.held[r.head] /\ \A k \in Slot \ {i} : serving'[k] = NoRequest
  BY <1>1, <1>3 DEF IsHeld, Unserved, Inv, TypeOK
<1>10. IsServed(i)'
  <2>1. NoneBut(i)'
    BY <1>3, <1>8 DEF IsHeld, NoneBut, Quiet
  <2>2. Unsent' /\ queue' = <<>> /\ answers' = <<>> /\ closing' = NoRequest
    BY <1>1, <1>3 DEF IsHeld, Unsent, Unserved
  <2> QED BY <1>5, <1>7, <1>8, <1>9, <2>1, <2>2 DEF IsServed
<1>11. UNCHANGED <<session, line, slot>>
  BY <1>1 DEF host
<1> QED BY <1>1, <1>3, <1>4, <1>10, <1>11, MovesOn DEF IsHeld, Unserved

LEMMA CountDataAgrees ==
  ASSUME Inv, ~setting.lossy, AgreeInv, NEW i \in Slot, CountData(i)
  PROVE  AgreeInv'
<1>0. PICK r \in Rings : r = ring[i]
  BY DEF Inv, TypeOK
<1>1. /\ r.taking # 0
      /\ ring' = [ring EXCEPT ![i].count = r.taking - 1, ![i].taking = 0]
      /\ UNCHANGED <<host, sent, rx, queue, closing, serving, slot, answers>>
  BY <1>0 DEF CountData
<1>2. IsServed(i) /\ r.taking = 1
  BY <1>0, <1>1, Whereabouts DEF IsServed
<1>3. line # Nobody
  <2>1. ~Nothing
    BY <1>2 DEF Nothing, Unserved, IsServed
  <2> QED BY <2>1 DEF AgreeInv, OneMessage
<1>4. PICK q : q = [r EXCEPT !.count = r.taking - 1, !.taking = 0]
  OBVIOUS
<1>5. q.count = 0 /\ q.taking = 0 /\ q.adding = r.adding /\ q.raced = r.raced
  BY <1>2, <1>4 DEF Rings
<1>6. ring'[i] = q /\ \A k \in Slot \ {i} : ring'[k] = ring[k]
  BY <1>0, <1>1, <1>4 DEF Inv, TypeOK
<1>7. IsServed(i)'
  <2>1. NoneBut(i)'
    BY <1>2, <1>6 DEF IsServed, NoneBut, Quiet
  <2>2. Unsent' /\ queue' = <<>> /\ answers' = <<>> /\ closing' = NoRequest
    BY <1>1, <1>2 DEF IsServed, Unsent
  <2> QED BY <1>0, <1>1, <1>2, <1>5, <1>6, <2>1, <2>2 DEF IsServed
<1>8. UNCHANGED <<session, line, slot>> /\ closing = NoRequest /\ answers = <<>>
  BY <1>1, <1>2 DEF host, IsServed
<1> QED BY <1>1, <1>3, <1>7, <1>8, MovesOn

LEMMA FinishDataAgrees ==
  ASSUME Inv, ~setting.lossy, AgreeInv, NEW i \in Slot, FinishData(i)
  PROVE  AgreeInv'
<1>1. PICK ok \in Outcomes(serving[i]) :
        /\ serving[i] # NoRequest /\ ring[i].taking = 0
        /\ serving' = [serving EXCEPT ![i] = NoRequest]
        /\ Respond(serving[i], ok)
        /\ UNCHANGED <<host, sent, rx, queue, ring, closing, slot>>
  BY DEF FinishData
<1>2. ok \in BOOLEAN
  BY DEF Outcomes
<1>3. IsServed(i) /\ serving[i] \in Way /\ serving[i].fresh /\ serving[i].cmd = "data"
  BY <1>1, Whereabouts, Members DEF Inv, RingInv, Kept, Entry, IsServed
<1>4. /\ line \in Sessions /\ session[line].at = "data" /\ session[line].open
      /\ serving[i].id = session[line].id /\ serving[i] \in Requests
  BY <1>3, TheRequest
<1>5. \A k \in Slot : serving'[k] = NoRequest
  BY <1>1, <1>3 DEF IsServed, Inv, TypeOK
<1>6. UNCHANGED <<session, line, slot>> /\ closing' = NoRequest /\ Unsent' /\ Unqueued' /\ answers = <<>>
      /\ closing = NoRequest
  <2>1. \A k \in Slot : Quiet(k)'
    BY <1>1, <1>3 DEF IsServed, NoneBut, Quiet
  <2> QED BY <1>1, <1>3, <2>1 DEF IsServed, Unsent, Unqueued, host
<1>7. IsAnswered' /\ answers'[1].id = serving[i].id
  BY <1>1, <1>2, <1>3, <1>4, <1>5, <1>6, ControlSays
<1>8. Owned(line) = {session[line].id} /\ SameState(line)
  BY <1>4, <1>6 DEF AgreeInv, Settled
<1>9. Handled(line, answers[1])'
  BY <1>4, <1>6, <1>7, <1>8 DEF Handled, Owned, SameState
<1> QED BY <1>4, <1>6, <1>7, <1>9, SlotsStay, IsHandled

-----------------------------------------------------------------------------
(* The host.                                                               *)

Fits(s, e) ==
  /\ e.at # "undo"
  /\ e.running /\ e.at # "close" => e.channel = e.id
  /\ IF e.open
     THEN /\ Owned(s) = {e.id}
          /\ e.at # "close" => /\ slot[e.id].running = e.running
                               /\ e.running => slot[e.id].open
     ELSE Owned(s) = {}

(* A session whose new state fits its slot disturbs no other.              *)
LEMMA SessionAgrees ==
  ASSUME Inv, AgreeInv, NEW s \in Sessions, NEW e, session' = [session EXCEPT ![s] = e], slot' = slot,
         Fits(s, e)
  PROVE  /\ \A t \in Sessions : OwnChannel(t)'
         /\ Settled(s)'
         /\ \A t \in Sessions \ {s} : session'[t] = session[t] /\ (Settled(t) => Settled(t)')
<1>1. \A t \in Sessions : session'[t] = IF t = s THEN e ELSE session[t]
  BY DEF Inv, TypeOK
<1>2. \A t \in Sessions : Owned(t)' = Owned(t)
  BY DEF Owned
<1>3. \A t \in Sessions : OwnChannel(t)'
  BY <1>1 DEF AgreeInv, OwnChannel, Fits
<1>4. Settled(s)'
  BY <1>1, <1>2 DEF Settled, SameState, Fits
<1>5. \A t \in Sessions \ {s} : Settled(t) => Settled(t)'
  BY <1>1, <1>2 DEF Settled, SameState
<1> QED BY <1>1, <1>3, <1>4, <1>5

LEMMA SameMessage ==
  ASSUME OneMessage, UNCHANGED <<line, way>>
  PROVE  OneMessage'
<1>1. UNCHANGED <<sent, rx, queue, ring, closing, serving, answers>>
  BY DEF way
<1>2. ASSUME NEW i \in Slot, IsAdded(i) \/ IsHeld(i) \/ IsServed(i)
      PROVE  (IsAdded(i) \/ IsHeld(i) \/ IsServed(i))'
  BY <1>1, <1>2 DEF IsAdded, IsHeld, IsServed, NoneBut, Quiet, Unsent, Unserved
<1>3. Nothing => Nothing'
  BY <1>1 DEF Nothing, Unsent, Unqueued, Unserved, Quiet
<1>4. ASSUME IsSent \/ IsTaken \/ IsQueued \/ IsClosing \/ IsAnswered
      PROVE  (IsSent \/ IsTaken \/ IsQueued \/ IsClosing \/ IsAnswered)'
  BY <1>1, <1>4 DEF IsSent, IsTaken, IsQueued, IsClosing, IsAnswered, Unsent, Unqueued, Unserved, Quiet
<1> QED BY <1>2, <1>3, <1>4 DEF OneMessage

LEMMA CallAgreed ==
  ASSUME Inv, AgreeInv, NEW s \in Sessions, NEW e, session' = [session EXCEPT ![s] = e],
         session[s].at = "idle", UNCHANGED <<line, way, slot>>, Settled(s) => Fits(s, e)
  PROVE  AgreeInv'
<1>1. s # line /\ Settled(s)
  <2>1. s # line
    BY AudioStreamsAssumption DEF Inv, CallInv
  <2> QED BY <2>1 DEF AgreeInv
<1>2. /\ \A t \in Sessions : OwnChannel(t)'
      /\ Settled(s)'
      /\ \A t \in Sessions \ {s} : session'[t] = session[t] /\ (Settled(t) => Settled(t)')
  BY <1>1, SessionAgrees
<1>3. OneMessage'
  BY SameMessage DEF AgreeInv, way
<1>4. closing' = closing /\ answers' = answers /\ line' = line
  BY DEF way
<1>5. \A t \in Sessions :
        \/ line' = t /\ (closing' # NoRequest \/ answers' # <<>>)
        \/ Settled(t)'
  BY <1>2, <1>4 DEF AgreeInv
<1>6. closing # NoRequest \/ answers # <<>> => line \in Sessions \ {s}
  BY <1>1 DEF AgreeInv, OneMessage, Nothing, Unserved, Inv, TypeOK
<1>7. closing' # NoRequest => Halting(line)'
  BY <1>2, <1>4, <1>6 DEF AgreeInv, Halting, Owned
<1>8. answers' # <<>> => Handled(line, answers[1])'
  BY <1>2, <1>4, <1>6 DEF AgreeInv, Handled, Owned, SameState
<1> QED BY <1>2, <1>3, <1>5, <1>7, <1>8 DEF AgreeInv

LEMMA CallAgrees ==
  ASSUME Inv, AgreeInv, NEW s \in Sessions, Call(s)
  PROVE  AgreeInv'
<1>1. session[s] \in SessionType /\ CallOK(session[s])
  BY DEF Inv, TypeOK, SessionType, CallInv
<1>2. ASSUME NEW guard, NEW call \in {"config", "start", "data", "stop", "close stop", "close"},
             Calls(s, guard, call)
      PROVE  AgreeInv'
  <2> DEFINE e == [session[s] EXCEPT !.at = call]
  <2>1. /\ session[s].at = "idle" /\ UNCHANGED <<line, way, slot>>
        /\ session' = [session EXCEPT ![s].at = call]
    BY <1>2 DEF Calls
  <2>2. /\ e.at = call /\ e.open = session[s].open /\ e.id = session[s].id
        /\ e.channel = session[s].channel /\ e.running = session[s].running
    BY <1>1 DEF SessionType
  <2>3. session' = [session EXCEPT ![s] = e]
    BY <2>1 DEF Inv, TypeOK
  <2> HIDE DEF e
  <2>4. Settled(s) => Fits(s, e)
    BY <2>1, <2>2 DEF Settled, SameState, Fits, AgreeInv, OwnChannel
  <2> QED BY <2>1, <2>3, <2>4, CallAgreed
<1>3. CASE Create(s)
  <2> DEFINE e == [session[s] EXCEPT !.at = "open", !.acquired = TRUE]
  <2>1. session[s] = Closed /\ UNCHANGED <<line, way, slot>>
        /\ session' = [session EXCEPT ![s].at = "open", ![s].acquired = TRUE]
    BY <1>3 DEF Create
  <2>2. e.at = "open" /\ e.open = FALSE /\ e.running = FALSE
    BY <2>1 DEF Closed
  <2>3. session' = [session EXCEPT ![s] = e]
    BY <2>1 DEF Inv, TypeOK
  <2>4. session[s].at = "idle" /\ session[s].open = FALSE
    BY <2>1 DEF Closed
  <2> HIDE DEF e
  <2>5. Settled(s) => Fits(s, e)
    BY <2>2, <2>4 DEF Settled, Fits
  <2> QED BY <2>1, <2>3, <2>5, <2>4, CallAgreed
<1>4. CASE Remove(s)
  <2>1. PICK call \in {"close stop", "close"} :
          call = IF session[s].running THEN "close stop" ELSE "close"
    OBVIOUS
  <2> QED BY <1>2, <1>4, <2>1 DEF Remove
<1> QED BY <1>2, <1>3, <1>4 DEF Call, Prepare, Start, Transfer, Stop

LEMMA SendAgrees ==
  ASSUME Inv, ~setting.lossy, AgreeInv, NEW s \in Sessions, Send(s)
  PROVE  AgreeInv'
<1>1. /\ line = Nobody /\ line' = s
      /\ sent' \in Posted(sent, [from |-> s, cmd |-> Command(session[s].at),
                                 id |-> session[s].id, fresh |-> TRUE])
      /\ UNCHANGED <<session, rx, queue, ring, closing, serving, slot, answers>>
  BY DEF Send
<1> DEFINE m == [from |-> s, cmd |-> Command(session[s].at), id |-> session[s].id, fresh |-> TRUE]
<1>2. Nothing
  BY <1>1 DEF AgreeInv, OneMessage
<1>3. m.fresh
  OBVIOUS
<1>4. sent' = Append(<<>>, m)
  BY <1>1, <1>2 DEF Posted, Nothing, Unsent
<1> HIDE DEF m
<1>5. Single(sent')
  BY <1>3, <1>4, JustOne
<1>6. IsSent'
  BY <1>1, <1>2, <1>5 DEF IsSent, Nothing, Unsent, Unqueued, Unserved, Quiet
<1>7. OneMessage' /\ closing' = NoRequest /\ answers' = <<>>
  BY <1>1, <1>2, <1>6, AudioStreamsAssumption DEF OneMessage, Nothing, Unserved
<1>8. \A t \in Sessions : Settled(t)
  BY <1>2 DEF AgreeInv, Nothing, Unserved
<1>9. \A t \in Sessions : Settled(t)' /\ OwnChannel(t)'
  BY <1>1, <1>8, SlotsStay DEF AgreeInv, OwnChannel
<1> QED BY <1>7, <1>9 DEF AgreeInv

(* The answer ends the round trip, and nothing is left on the way.         *)
LEMMA AnswerTaken ==
  ASSUME Inv, ~setting.lossy, AgreeInv, NEW s \in Sessions, NEW at, NEW ok, NEW id, Returns(s, at, ok, id)
  PROVE  /\ line = s /\ session[s].at = at /\ line' = Nobody /\ slot' = slot
         /\ ok = answers[1].ok /\ id = answers[1].id /\ Handled(s, answers[1])
         /\ Nothing'
         /\ \A t \in Sessions \ {s} : Settled(t)
<1>1. /\ line = s /\ session[s].at = at /\ line' = Nobody /\ slot' = slot
      /\ Answered(s, ok, id)
  BY DEF Returns, TimedOut
<1>2. answers # <<>> /\ ok = (Head(answers).fresh /\ Head(answers).ok) /\ id = Head(answers).id
      /\ Forget(Tail(answers))
  BY <1>1 DEF Answered
<1>3. IsAnswered /\ answers \in Seq(Answers)
  BY <1>2, Whereabouts DEF Inv, TypeOK
<1>4. Head(answers) = answers[1] /\ Tail(answers) = <<>> /\ answers[1].fresh /\ answers[1] \in Answers
  BY <1>3, OnlyOne DEF IsAnswered, Single
<1>5. ok = answers[1].ok /\ id = answers[1].id
  BY <1>2, <1>4 DEF Answers
<1>6. AllAged(<<>>) = <<>>
  <2>1. DOMAIN <<>> = {} /\ <<>> \in Seq(Requests)
    BY EmptySeq
  <2>2. AllAged(<<>>) \in Seq(Requests) /\ DOMAIN AllAged(<<>>) = {}
    BY <2>1, AllAgedRequests
  <2>3. Len(AllAged(<<>>)) = 0
    BY <2>2, LenProperties
  <2> QED BY <2>2, <2>3, EmptySeq
<1>7. Nothing'
  <2>1. sent' = <<>> /\ answers' = <<>>
    BY <1>2, <1>3, <1>4, <1>6 DEF Forget, IsAnswered, Unsent
  <2>2. rx' = NoRequest /\ closing' = NoRequest
    BY <1>2, <1>3, AgedRequest, NoneIsRequest DEF Forget, IsAnswered, Unsent, Unserved
  <2>3. queue' = <<>>
    BY <1>2, <1>3, <1>6 DEF Forget, IsAnswered, Unqueued
  <2>4. ASSUME NEW i \in Slot PROVE Quiet(i)'
    <3>1. ring[i] \in Rings /\ Quiet(i)
      BY <1>3 DEF IsAnswered, Unqueued, Inv, TypeOK
    <3>2. PICK q : q = [ring[i] EXCEPT !.held = AllAged(ring[i].held)]
      OBVIOUS
    <3>3. q.count = 0 /\ q.adding = 0 /\ q.taking = 0 /\ ~q.raced
      BY <3>1, <3>2 DEF Rings, Quiet
    <3>4. ring'[i] = q
      BY <1>2, <3>2 DEF Forget
    <3> QED BY <3>3, <3>4 DEF Quiet
  <2>5. \A i \in Slot : serving'[i] = NoRequest
    <3>1. DOMAIN serving = Slot /\ \A i \in Slot : serving[i] = NoRequest
      BY <1>3 DEF Inv, TypeOK, IsAnswered, Unserved
    <3>2. serving' = [n \in DOMAIN serving |-> Aged(serving[n])]
      BY <1>2 DEF Forget, AllAged
    <3> QED BY <3>1, <3>2, AgedRequest, NoneIsRequest
  <2> QED BY <2>1, <2>2, <2>3, <2>4, <2>5 DEF Nothing, Unsent, Unqueued, Unserved
<1>8. \A t \in Sessions \ {s} : Settled(t)
  BY <1>1 DEF AgreeInv
<1>9. Handled(s, answers[1])
  BY <1>1, <1>2 DEF AgreeInv
<1> QED BY <1>1, <1>5, <1>7, <1>8, <1>9

LEMMA ReturnAgrees ==
  ASSUME Inv, ~setting.lossy, AgreeInv, NEW s \in Sessions, NEW at, NEW ok, NEW id, Returns(s, at, ok, id),
         NEW e, session' = [session EXCEPT ![s] = e],
         Handled(s, answers[1]) => Fits(s, e)
  PROVE  AgreeInv'
<1>1. /\ line' = Nobody /\ slot' = slot /\ Handled(s, answers[1]) /\ Nothing'
      /\ \A t \in Sessions \ {s} : Settled(t)
  BY AnswerTaken
<1>2. /\ \A t \in Sessions : OwnChannel(t)'
      /\ \A t \in Sessions : Settled(t)'
  BY <1>1, SessionAgrees
<1> QED BY <1>1, <1>2 DEF AgreeInv, OneMessage, Nothing, Unserved

LEMMA RoundTripAgrees ==
  ASSUME Inv, ~setting.lossy, AgreeInv, NEW s \in Sessions, RoundTrip(s)
  PROVE  AgreeInv'
<1>1. session[s] \in SessionType /\ CallOK(session[s])
  BY DEF Inv, TypeOK, SessionType, CallInv
<1>2. CASE Opens(s)
  <2>1. PICK ok \in BOOLEAN, id \in Channel :
          /\ Returns(s, "open", ok, id)
          /\ session' = IF ok THEN [session EXCEPT ![s].at = "idle", ![s].open = TRUE, ![s].id = id]
                        ELSE [session EXCEPT ![s] = Closed]
    BY <1>2 DEF Opens
  <2>2. session[s].at = "open" /\ ok = answers[1].ok /\ id = answers[1].id
    BY <2>1, AnswerTaken
  <2>3. ~session[s].running
    BY <1>1, <2>2 DEF CallOK
  <2>4. CASE ok
    <3> DEFINE e == [session[s] EXCEPT !.at = "idle", !.open = TRUE, !.id = id]
    <3>1. e.at = "idle" /\ e.open = TRUE /\ e.id = id /\ e.running = FALSE
      BY <1>1, <2>3 DEF SessionType
    <3>2. session' = [session EXCEPT ![s] = e]
      BY <2>1, <2>4 DEF Inv, TypeOK
    <3> HIDE DEF e
    <3>3. Handled(s, answers[1]) => Owned(s) = {id} /\ ~slot[id].running
      BY <2>2, <2>4 DEF Handled
    <3>4. Owned(s) = {id} => id \in Slot
      BY DEF Owned
    <3>5. Handled(s, answers[1]) => Fits(s, e)
      BY <3>1, <3>3, <3>4 DEF Fits, Inv, TypeOK
    <3> QED BY <2>1, <3>2, <3>5, ReturnAgrees
  <2>5. CASE ~ok
    <3>1. session' = [session EXCEPT ![s] = Closed]
      BY <2>1, <2>5
    <3>2. Handled(s, answers[1]) => Fits(s, Closed)
      BY <2>2, <2>5 DEF Handled, Fits, Closed
    <3> QED BY <2>1, <3>1, <3>2, ReturnAgrees
  <2> QED BY <2>4, <2>5
<1>3. ASSUME session[s].at \in {"config", "start", "data"}, session[s].open, NEW e,
             e.at = "idle", e.open = session[s].open, e.id = session[s].id,
             e.running = session[s].running, e.channel = session[s].channel,
             Handled(s, answers[1]), session[s].at = "start" => ~answers[1].ok
      PROVE  Fits(s, e)
  <2>1. OwnChannel(s) /\ (session[s].at = "start" => ~session[s].running)
    BY <1>1 DEF AgreeInv, CallOK
  <2>2. session[s].running \in BOOLEAN
    BY <1>1 DEF SessionType
  <2>3. slot[session[s].id].running = session[s].running /\ (session[s].running => slot[session[s].id].open)
    <3>1. session[s].id \in Slot
      BY <1>1, <1>3 DEF CallOK
    <3>2. slot[session[s].id].running \in BOOLEAN
      BY <3>1 DEF Inv, TypeOK
    <3> QED BY <1>3, <2>1, <2>2, <3>2 DEF Handled, SameState
  <2> QED BY <1>3, <2>1, <2>3 DEF Fits, Handled, OwnChannel
<1>4. CASE Prepares(s)
  <2>1. PICK ok \in BOOLEAN, id \in Channel :
          /\ Returns(s, "config", ok, id)
          /\ session' = [session EXCEPT ![s].at = "idle", ![s].prepared = @ \/ ok]
    BY <1>4 DEF Prepares
  <2> DEFINE e == [session[s] EXCEPT !.at = "idle", !.prepared = @ \/ ok]
  <2>2. /\ e.at = "idle" /\ e.open = session[s].open /\ e.id = session[s].id
        /\ e.running = session[s].running /\ e.channel = session[s].channel
    BY <1>1 DEF SessionType
  <2>3. session' = [session EXCEPT ![s] = e]
    BY <2>1 DEF Inv, TypeOK
  <2> HIDE DEF e
  <2>4. session[s].at = "config" /\ session[s].open
    BY <1>1, <2>1, AnswerTaken DEF CallOK
  <2>5. Handled(s, answers[1]) => Fits(s, e)
    BY <1>3, <2>2, <2>4
  <2> QED BY <2>1, <2>3, <2>5, ReturnAgrees
<1>5. CASE Transfers(s)
  <2>1. PICK ok \in BOOLEAN, id \in Channel, at \in {"data", "undo"} :
          Returns(s, at, ok, id) /\ session' = [session EXCEPT ![s].at = "idle"]
    BY <1>5 DEF Transfers
  <2> DEFINE e == [session[s] EXCEPT !.at = "idle"]
  <2>2. /\ e.at = "idle" /\ e.open = session[s].open /\ e.id = session[s].id
        /\ e.running = session[s].running /\ e.channel = session[s].channel
    BY <1>1 DEF SessionType
  <2>3. session' = [session EXCEPT ![s] = e]
    BY <2>1 DEF Inv, TypeOK
  <2> HIDE DEF e
  <2>4. session[s].at = "data" /\ session[s].open
    BY <1>1, <2>1, AnswerTaken DEF CallOK, AgreeInv, OwnChannel
  <2>5. Handled(s, answers[1]) => Fits(s, e)
    BY <1>3, <2>2, <2>4
  <2> QED BY <2>1, <2>3, <2>5, ReturnAgrees
<1>6. CASE Starts(s)
  <2>1. PICK ok \in BOOLEAN, id \in Channel :
          /\ Returns(s, "start", ok, id)
          /\ session' =
               [session EXCEPT
                  ![s] = IF ~ok THEN [@ EXCEPT !.at = "idle"]
                         ELSE IF id \in channels THEN [@ EXCEPT !.at = "undo"]
                         ELSE [@ EXCEPT !.at = "idle", !.running = TRUE, !.channel = id]]
    BY <1>6 DEF Starts
  <2>2. /\ session[s].at = "start" /\ ok = answers[1].ok /\ id = answers[1].id
        /\ Handled(s, answers[1]) /\ Returns(s, "start", ok, id)
    BY <2>1, AnswerTaken
  <2>3. session[s].open /\ session[s].id \in Slot /\ ~session[s].running
    BY <1>1, <2>2 DEF CallOK
  <2>4. CASE ~ok
    <3> DEFINE e == [session[s] EXCEPT !.at = "idle"]
    <3>1. /\ e.at = "idle" /\ e.open = session[s].open /\ e.id = session[s].id
          /\ e.running = session[s].running /\ e.channel = session[s].channel
      BY <1>1 DEF SessionType
    <3>2. session' = [session EXCEPT ![s] = e]
      BY <2>1, <2>4 DEF Inv, TypeOK
    <3> HIDE DEF e
    <3>3. Fits(s, e)
      BY <1>3, <2>2, <2>3, <2>4, <3>1
    <3> QED BY <2>2, <3>2, <3>3, ReturnAgrees
  <2>5. CASE ok
    <3>1. id = session[s].id /\ Owned(s) = {id} /\ slot[id].running = TRUE /\ slot[id].open
      BY <2>2, <2>5 DEF Handled
    <3>2. id \notin channels
      <4>1. SUFFICES ASSUME id \in channels PROVE FALSE
        OBVIOUS
      <4>2. id # Control /\ id # None
        BY <2>3, <3>1, Places
      <4>3. PICK t \in Sessions : session[t].channel = id
        BY <4>1, <4>2 DEF Inv, HostChannels
      <4>4. CallOK(session[t])
        BY DEF Inv, CallInv
      <4>5. session[t].running /\ session[t].at # "close" /\ session[t].open
        BY <4>2, <4>3, <4>4 DEF CallOK
      <4>6. session[t].channel = session[t].id
        BY <4>5 DEF AgreeInv, OwnChannel
      <4>7. t = s
        BY <2>3, <3>1, <4>3, <4>5, <4>6 DEF Inv, SessionInv
      <4> QED BY <2>3, <4>5, <4>7
    <3> DEFINE e == [session[s] EXCEPT !.at = "idle", !.running = TRUE, !.channel = id]
    <3>3. /\ e.at = "idle" /\ e.open = session[s].open /\ e.id = session[s].id
          /\ e.running = TRUE /\ e.channel = id
      BY <1>1 DEF SessionType
    <3>4. session' = [session EXCEPT ![s] = e]
      BY <2>1, <2>5, <3>2 DEF Inv, TypeOK
    <3> HIDE DEF e
    <3>5. Fits(s, e)
      BY <2>3, <3>1, <3>3 DEF Fits
    <3> QED BY <2>2, <3>4, <3>5, ReturnAgrees
  <2> QED BY <2>4, <2>5
<1>7. CASE Stops(s)
  <2>1. PICK ok \in BOOLEAN, id \in Channel :
          /\ Returns(s, "stop", ok, id)
          /\ session' = [session EXCEPT ![s].at = "idle", ![s].running = ~ok,
                                        ![s].channel = IF ok THEN None ELSE @]
    BY <1>7 DEF Stops
  <2>2. session[s].at = "stop" /\ ok = answers[1].ok
    BY <2>1, AnswerTaken
  <2>3. session[s].open /\ session[s].running /\ OwnChannel(s)
    BY <1>1, <2>2 DEF CallOK, AgreeInv
  <2> DEFINE e == [session[s] EXCEPT !.at = "idle", !.running = ~ok,
                                     !.channel = IF ok THEN None ELSE session[s].channel]
  <2>4. /\ e.at = "idle" /\ e.open = session[s].open /\ e.id = session[s].id
        /\ e.running = ~ok /\ (~ok => e.channel = session[s].channel)
    BY <1>1 DEF SessionType
  <2>5. session' = [session EXCEPT ![s] = e]
    BY <2>1 DEF Inv, TypeOK
  <2> HIDE DEF e
  <2>6. Handled(s, answers[1]) => Fits(s, e)
    BY <2>2, <2>3, <2>4 DEF Handled, Fits, OwnChannel
  <2> QED BY <2>1, <2>5, <2>6, ReturnAgrees
<1>8. CASE StopsToClose(s)
  <2>1. PICK ok \in BOOLEAN, id \in Channel :
          /\ Returns(s, "close stop", ok, id)
          /\ session' = [session EXCEPT ![s].at = "close", ![s].channel = None]
    BY <1>8 DEF StopsToClose
  <2>2. session[s].at = "close stop"
    BY <2>1, AnswerTaken
  <2>3. session[s].open
    BY <1>1, <2>2 DEF CallOK
  <2> DEFINE e == [session[s] EXCEPT !.at = "close", !.channel = None]
  <2>4. e.at = "close" /\ e.open = session[s].open /\ e.id = session[s].id
    BY <1>1 DEF SessionType
  <2>5. session' = [session EXCEPT ![s] = e]
    BY <2>1 DEF Inv, TypeOK
  <2> HIDE DEF e
  <2>6. Handled(s, answers[1]) => Fits(s, e)
    BY <2>2, <2>3, <2>4 DEF Handled, Fits
  <2> QED BY <2>1, <2>5, <2>6, ReturnAgrees
<1>9. CASE Closes(s)
  <2>1. PICK ok \in BOOLEAN, id \in Channel :
          Returns(s, "close", ok, id) /\ session' = [session EXCEPT ![s] = Closed]
    BY <1>9 DEF Closes
  <2>2. session[s].at = "close"
    BY <2>1, AnswerTaken
  <2>3. Handled(s, answers[1]) => Fits(s, Closed)
    BY <2>2 DEF Handled, Fits, Closed
  <2> QED BY <2>1, <2>3, ReturnAgrees
<1> QED BY <1>2, <1>4, <1>5, <1>6, <1>7, <1>8, <1>9 DEF RoundTrip

-----------------------------------------------------------------------------
ReliableInv == ~setting.lossy => AgreeInv

LEMMA ReliableKept ==
  ASSUME Inv, ReliableInv, [Next]_vars
  PROVE  ReliableInv'
<1>1. setting' = setting
  <2>1. CASE Controller
    <3>1. UNCHANGED host
      BY <2>1 DEF Controller, RxTake, RxQueueControl, RxQueue, RxCount, RxServe, Allocate,
         AllocateFrom, Configure, Trigger, StopOrClose, BeginClose, TakeControl, FinishClose,
         Finish, BeginData, CountData, FinishData
    <3> QED BY <3>1 DEF host
  <2>2. ASSUME NEW s \in Sessions, Call(s) \/ Send(s) PROVE setting' = setting
    BY <2>2 DEF Call, Create, Prepare, Start, Transfer, Stop, Remove, Calls, Send
  <2>3. ASSUME NEW s \in Sessions, RoundTrip(s) PROVE setting' = setting
    BY <2>3 DEF RoundTrip, Opens, Prepares, Starts, Transfers, Stops, StopsToClose, Closes, Returns
  <2> QED BY <2>1, <2>2, <2>3 DEF Next, vars, host
<1> SUFFICES ASSUME ~setting.lossy, AgreeInv PROVE AgreeInv'
  BY <1>1 DEF ReliableInv
<1>2. CASE UNCHANGED vars
  <2>1. UNCHANGED <<session, line, closing, answers, slot>> /\ UNCHANGED <<line, way>>
    BY <1>2 DEF vars, host, way
  <2>2. OneMessage'
    BY <2>1, SameMessage DEF AgreeInv
  <2> QED BY <2>1, <2>2 DEF AgreeInv, OwnChannel, Settled, Owned, SameState, Halting, Handled
<1>3. CASE Controller
  <2>1. CASE RxTake \/ RxQueueControl \/ RxQueue \/ RxCount \/ RxServe
    BY <2>1, RxTakeAgrees, RxQueueControlAgrees, RxQueueAgrees, RxCountAgrees, RxServeAgrees
  <2>2. CASE Allocate \/ Configure \/ Trigger
    BY <2>2, AllocateAgrees, ConfigureAgrees, TriggerAgrees
  <2>3. CASE StopOrClose \/ FinishClose
    BY <2>3, BeginCloseAgrees, FinishCloseAgrees DEF StopOrClose
  <2>4. ASSUME NEW i \in Slot, BeginData(i) \/ CountData(i) \/ FinishData(i)
        PROVE  AgreeInv'
    BY <2>4, BeginDataAgrees, CountDataAgrees, FinishDataAgrees
  <2> QED BY <1>3, <2>1, <2>2, <2>3, <2>4 DEF Controller
<1>4. ASSUME NEW s \in Sessions, Call(s) \/ Send(s) \/ RoundTrip(s) PROVE AgreeInv'
  BY <1>4, CallAgrees, SendAgrees, RoundTripAgrees
<1> QED BY <1>2, <1>3, <1>4 DEF Next

LEMMA InitAgrees == Init => ReliableInv
<1> SUFFICES ASSUME Init PROVE AgreeInv
  BY DEF ReliableInv
<1>1. Nothing /\ \A s \in Sessions : OwnChannel(s)
  BY DEF Init, Nothing, Unsent, Unqueued, Unserved, OwnChannel, Closed, Quiet, NoRing
<1>2. \A s \in Sessions : Settled(s)
  BY DEF Init, Settled, Owned, Closed, FreeSlots, Free
<1> QED BY <1>1, <1>2 DEF AgreeInv, OneMessage, Nothing, Unserved

(* The sessions, the slots and all that is under way keep their types, the *)
(* ids that are taken from responses included (Opens, Starts).             *)
THEOREM StreamsAlwaysTyped == Spec => []TypeOK
<1>1. Inv => TypeOK
  BY DEF Inv
<1> QED BY AlwaysInv, <1>1, PTL

(* The control channel is open exactly while sessions hold it, and the open*)
(* data channels are those of the running sessions                         *)
(* (acquireAudioControlChannel, start(), stop(), close()).                 *)
THEOREM ChannelsAlwaysMatch == Spec => []HostChannels
<1>1. Inv => HostChannels
  BY DEF Inv
<1> QED BY AlwaysInv, <1>1, PTL

(* No session ever has or frees the stream of another one, however late    *)
(* requests, answers and CLOSEs come, and however often the controller     *)
(* fails (sendSync, ac_audio_open, ac_audio_close).  A request that is     *)
(* handled is of the session that owns the slot as long as the count of the*)
(* channel's ring is right: until two threads have changed it at once, or  *)
(* one after the close, on a channel without its mutex                     *)
(* (ac_transport_close_channel, ac_transport_pop_request).  On a reliable  *)
(* link that never happens.                                                *)
THEOREM StreamsNeverMix == Spec => []StreamsIsolated
<1>1. Inv /\ ReliableInv => StreamsIsolated
  <2> SUFFICES ASSUME Inv, ReliableInv PROVE StreamsIsolated
    OBVIOUS
  <2>1. ~setting.lossy => \A i \in Slot : ~ring[i].raced
    BY Whereabouts DEF ReliableInv
  <2> QED BY <2>1, InvIsolates DEF StreamsIsolated, DataIsolated
<1>2. Inv /\ ReliableInv /\ [Next]_vars => ReliableInv'
  BY ReliableKept
<1> QED BY AlwaysInv, InitAgrees, <1>1, <1>2, PTL DEF Spec

(* A stream that runs has its DMA buffer and its SOF stream, although a    *)
(* CONFIG that fails has given the old buffer back                         *)
(* (ac_audio_prepare_sof_stream, ac_audio_start).                          *)
THEOREM AlwaysRunsWithDma == Spec => []RunningHasDma
<1>1. Inv => RunningHasDma
  BY DEF Inv, SlotInv
<1> QED BY AlwaysInv, <1>1, PTL

(* On a reliable link the session and its stream agree between two calls,  *)
(* for any sessions, streams and failures of the controller: an open       *)
(* session has exactly one slot, which runs and has its channel open when  *)
(* the session runs, and a closed session has left none                    *)
(* (SimulatorAudioSession, ac_audio.c).  At most one message is on its way *)
(* there, and what its answer says is what was done.                       *)
THEOREM SidesAlwaysAgree == Spec => []SidesAgree
<1>1. Inv /\ ReliableInv => SidesAgree
  <2> SUFFICES ASSUME Inv, ReliableInv, NEW s \in Sessions, ~setting.lossy, session[s].at = "idle"
               PROVE  IF session[s].open
                      THEN /\ Owned(s) = {session[s].id}
                           /\ slot[session[s].id].running = session[s].running
                           /\ session[s].running => slot[session[s].id].open
                      ELSE Owned(s) = {}
    BY DEF SidesAgree, Owned
  <2>1. s # line
    BY AudioStreamsAssumption DEF Inv, CallInv
  <2>2. Settled(s)
    BY <2>1 DEF ReliableInv, AgreeInv
  <2> QED BY <2>2 DEF Settled, SameState
<1>2. Inv /\ ReliableInv /\ [Next]_vars => ReliableInv'
  BY ReliableKept
<1> QED BY AlwaysInv, InitAgrees, <1>1, <1>2, PTL DEF Spec
=============================================================================
