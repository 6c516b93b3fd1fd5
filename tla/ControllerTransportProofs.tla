---------------------- MODULE ControllerTransportProofs ----------------------
(***************************************************************************)
(* Proofs about the transport of the audio controller, for any channels,   *)
(* depth of the queues and hosts: the queue of a channel that has a mutex  *)
(* is exact, requests are handled in their order while no host that gives  *)
(* up starts a stream again, and what was closed has no thread left.       *)
(***************************************************************************)
EXTENDS ControllerTransport, SequenceTheorems, TLAPS

ChannelState ==
  [registered : BOOLEAN, open : BOOLEAN, stop : BOOLEAN, started : BOOLEAN,
   mutex : BOOLEAN, queue : [Slot -> Request \cup {Nothing}],
   head : Slot, tail : Slot, count : 0 .. QueueDepth]

RxBusy == {"dispatch", "started?", "queue", "count", "serve"}
Early == {"dispatch", "started?", "queue"}
Starting == {"start", "create", "created", "trigger"}
Closing == {"stop", "join", "unstart", "empty"}
Commands == Starting \cup Closing \cup {"done", "failed"}

ThreadState ==
  [at : RxBusy \cup Commands \cup {"none", "loop", "uncount", "join rx", "next channel", "exited"},
   request : Request \cup {Nothing}, count : 0 .. QueueDepth,
   target : Channel, next : Nat \ {0}]

Alive(c) == ~At(c, "none")
RxIn(c) == At("rx", "count") /\ Target = c
PopIn(c) == At(c, "uncount")

(* Where each thread can be.                                               *)
PlaceOf(t, place) ==
  /\ t = "rx" => place \in RxBusy \cup {"loop", "exited", "none"}
  /\ t = "main" => place \in {"none", "join rx", "next channel", "done"} \cup Closing
  /\ t \in Data => place \in {"none", "loop", "uncount", "serve", "exited"}
  /\ t = Control => place \in {"none", "loop", "uncount", "exited"} \cup Commands
PlacesInv == \A t \in Thread : PlaceOf(t, thread[t].at)

(* The host keeps to its manner.                                           *)
MannerInv == manner \in Manners /\ Len(sent) <= manner.requests

(* Only what "rx" has received is anywhere, in the queue of its channel and*)
(* with its worker; what "rx" has just received is nowhere else yet.       *)
NumbersInv ==
  /\ \A c \in Channel, i \in Slot :
       /\ channel[c].queue[i] <= received
       /\ channel[c].queue[i] # 0 => sent[channel[c].queue[i]].channel = c
  /\ \A t \in Thread : thread[t].request <= received
  /\ \A c \in Channel : thread[c].request # 0 => sent[thread[c].request].channel = c
  /\ \A k \in 1 .. Len(handled) : handled[k] <= received
  /\ \A k \in 1 .. Len(answered) : answered[k].request <= received
  /\ thread["rx"].at \in RxBusy => thread["rx"].request = received /\ received # 0
  /\ thread["rx"].at \in Early =>
       /\ \A c \in Channel, i \in Slot : channel[c].queue[i] < received
       /\ \A c \in Channel : thread[c].request < received
       /\ \A k \in 1 .. Len(handled) : handled[k] < received
  /\ At("rx", "count") => thread["rx"].count < QueueDepth
  /\ \A c \in Channel : PopIn(c) => thread[c].count > 0

(* What the control worker has done of its command.                        *)
Command == sent[thread[Control].request]
Stream == channel[thread[Control].target]

ControlInv ==
  thread[Control].at \in Commands =>
    /\ thread[Control].request # 0
    /\ thread[Control].target = Command.target
    /\ \E k \in 1 .. Len(handled) : handled[k] = thread[Control].request
    /\ thread[Control].at \in Starting => Command.command = "start"
    /\ thread[Control].at \in Closing => Command.command # "start"
    /\ thread[Control].at \in {"create", "created"} =>
         Stream.registered /\ ~Stream.stop /\ ~Stream.started
    /\ At(Control, "trigger") => Stream.started
    /\ At(Control, "done") /\ Command.command = "start" => Stream.started
    /\ At(Control, "create") => ~Alive(thread[Control].target)
    /\ At(Control, "created") => Alive(thread[Control].target)

(* A worker is there when its channel is started, but for the moments in   *)
(* which it is being created or has been joined.                           *)
WorkerOf(c) ==
  /\ channel[c].started /\ ~Alive(c) =>
       \E t \in Closers : At(t, "unstart") /\ thread[t].target = c
  /\ Alive(c) /\ ~channel[c].started =>
       At(Control, "created") /\ thread[Control].target = c
  /\ channel[c].open => ~channel[c].stop
  /\ Alive(c) => channel[c].registered
  /\ ~channel[c].registered => channel[c] = Unregistered

CloserOf(t) ==
  /\ thread[t].at \in {"unstart", "empty"} => ~Alive(thread[t].target)
  /\ At(t, "empty") => ~channel[thread[t].target].mutex
  /\ thread[t].at \in {"join", "unstart", "empty"} => channel[thread[t].target].registered

WorkersInv ==
  /\ \A c \in Channel : WorkerOf(c)
  /\ \A t \in Closers : CloserOf(t)
  /\ channel[Control].registered
  /\ Alive(Control) => channel[Control].mutex

(* The tear down closes one channel after the other, the control channel   *)
(* first, when "rx" is gone.                                               *)
Dead(c) == ~channel[c].started /\ ~channel[c].open /\ ~Alive(c)
Main == thread["main"]
Passed(n) == \A j \in 1 .. Len(order) : j < n => Dead(order[j])

MainInv ==
  /\ At("rx", "none") <=> Main.at \notin {"none", "join rx"}
  /\ ~Alive(Control) => At("rx", "none")
  /\ Main.at \in {"none", "join rx"} => Main.next = 1
  /\ Main.at # "done" =>
       /\ Len(order) >= 1 /\ order[1] = Control
       /\ \A c \in Channel : channel[c].registered => \E i \in 1 .. Len(order) : order[i] = c
  /\ Main.at \in Closing => /\ Main.next \in 2 .. Len(order) + 1
                            /\ Main.target = order[Main.next - 1]
  /\ Main.at = "next channel" => Passed(Main.next)
  /\ Main.at \in Closing => Passed(Main.next - 1)
  /\ Main.at \in Closing \ {"stop"} => ~channel[Main.target].open
  /\ Main.at = "empty" => ~channel[Main.target].started
  /\ Main.at = "done" => \A c \in Channel : Dead(c)

(* A host has data for a stream only when its START was answered; from then*)
(* on its channel is started, or its mutex is gone.                        *)
HasStarted(d) == channel[d].registered /\ (channel[d].started \/ ~channel[d].mutex)

StreamsInv ==
  /\ \A n \in 1 .. Len(sent) :
       /\ sent[n].channel = IF sent[n].command = "data" THEN sent[n].target ELSE Control
       /\ sent[n].command = "data" => HasStarted(sent[n].target)
  /\ \A d \in Data : running[d] => HasStarted(d)
  /\ \A k \in 1 .. Len(answered) :
       answered[k].ok /\ answered[k].request # 0 /\ sent[answered[k].request].command = "start" =>
         HasStarted(sent[answered[k].request].target)
  /\ At("rx", "serve") => sent[thread["rx"].request].command = "data"

(* Who counts a request in or out holds the mutex, if there is one.        *)
Locked(c) ==
  /\ ~channel[c].mutex => holder[c] = "nobody"
  /\ channel[c].mutex => /\ holder[c] \in {"nobody", "rx", c}
                         /\ RxIn(c) <=> holder[c] = "rx"
                         /\ PopIn(c) <=> holder[c] = c
LocksInv == \A c \in Channel : Locked(c)

(* The queue of a channel that has its mutex, or whose host waits.         *)
Sound(c) == channel[c].mutex \/ manner.waits \/ ~channel[c].registered
Held(c) == IF PopIn(c) THEN channel[c].count - 1
           ELSE IF RxIn(c) THEN channel[c].count + 1 ELSE channel[c].count
Item(c, i) == channel[c].queue[(channel[c].head + i) % QueueDepth]

Fifo(c) ==
  /\ ~(RxIn(c) /\ PopIn(c))
  /\ RxIn(c) => thread["rx"].count = channel[c].count
  /\ PopIn(c) => thread[c].count = channel[c].count /\ thread[c].request # 0
  /\ channel[c].tail = (channel[c].head + Held(c)) % QueueDepth
  /\ \A i \in 0 .. Held(c) - 1 : Item(c, i) # 0
  /\ \A i, j \in 0 .. Held(c) - 1 : i < j => Item(c, i) < Item(c, j)
  /\ PopIn(c) => \A i \in 0 .. Held(c) - 1 : thread[c].request < Item(c, i)
  /\ \A k \in 1 .. Len(handled) : handled[k] # 0 /\ sent[handled[k]].channel = c =>
       /\ \A i \in 0 .. Held(c) - 1 : handled[k] < Item(c, i)
       /\ PopIn(c) => handled[k] < thread[c].request
FifoInv == \A c \in Channel : Sound(c) => Fifo(c)

(* Of a host that waits there is one request at most.                      *)
Working(c) == thread[c].at \notin {"none", "loop", "exited"}
Queued(c) == channel[c].count # 0 /\ ~PopIn(c)
RxWorks == thread["rx"].at \in RxBusy
Quiet == ~RxWorks /\ \A c \in Channel : ~Queued(c) /\ ~Working(c)

OneInv ==
  manner.waits =>
    /\ RxWorks => \A c \in Channel : ~Queued(c) /\ ~Working(c)
    /\ \A c, e \in Channel :
         (Queued(c) \/ Working(c)) /\ (Queued(e) \/ Working(e)) => c = e
    /\ \A c \in Channel : Queued(c) => channel[c].count = 1 /\ ~Working(c)
    /\ \A c \in Channel : PopIn(c) => channel[c].count = 1
    /\ pending # 0 => pending = Len(sent)
    /\ pending = 0 \/ Answered(pending, TRUE) \/ Answered(pending, FALSE) =>
         Quiet /\ received = Len(sent)
    /\ received < Len(sent) => Quiet /\ received = Len(sent) - 1
    /\ thread["rx"].at \in RxBusy \ {"dispatch"} => channel[Target].open
    /\ \A d \in Data : IsClosed(d) => channel[d].count = 0

(* A stream that is started once is registered by its START, and its worker*)
(* goes with its mutex.                                                    *)
OnceInv ==
  ~manner.waits /\ ~manner.restarts =>
    /\ \A m, n \in 1 .. Len(sent) :
         /\ sent[m].command = "start" /\ sent[n].command = "start"
         /\ sent[m].target = sent[n].target
         => m = n
    /\ \A d \in Data : channel[d].registered =>
         /\ \E n \in 1 .. Len(sent) :
              /\ sent[n].command = "start" /\ sent[n].target = d
              /\ \E k \in 1 .. Len(handled) : handled[k] = n
              /\ ~(At(Control, "start") /\ thread[Control].request = n)
         /\ channel[d].mutex \/ ~Alive(d)
    /\ thread[Control].at \in {"create", "created"} => Stream.mutex

OrderInv == manner.waits \/ ~manner.restarts => HandledInOrder

Inv ==
  /\ TypeOK
  /\ PlacesInv
  /\ MannerInv
  /\ NumbersInv
  /\ ControlInv
  /\ WorkersInv
  /\ MainInv
  /\ StreamsInv
  /\ LocksInv
  /\ FifoInv
  /\ OneInv
  /\ OnceInv
  /\ OrderInv

(***************************************************************************)
(* What each step does, one fact for each field.                           *)
(***************************************************************************)

Typed == thread \in [Thread -> ThreadState] /\ channel \in [Channel -> ChannelState]
Place == RxBusy \cup Commands \cup {"none", "loop", "uncount", "join rx", "next channel", "exited"}

LEMMA Types == ASSUME TypeOK PROVE Typed
BY DEF TypeOK, Typed, ThreadState, ChannelState, RxBusy, Commands, Starting, Closing

LEMMA Threads ==
  /\ "rx" \in Thread /\ "main" \in Thread /\ Channel \subseteq Thread /\ "rx" # "main"
  /\ Control \in Channel /\ Data \subseteq Channel /\ Control \notin Data
  /\ Channel = {Control} \cup Data
  /\ \A t \in Thread : t \in Channel \/ t = "rx" \/ t = "main"
  /\ \A c \in Channel : c # "rx" /\ c # "main" /\ c # "nobody"
BY ControllerTransportAssumption DEF Thread, Channel

(* A thread that only goes on, that starts again, and the others.          *)
Elsewhere(t) == \A u \in Thread : u # t => thread'[u] = thread[u]
Goes(t, place) ==
  /\ thread' \in [Thread -> ThreadState]
  /\ Elsewhere(t)
  /\ thread'[t].at = place /\ thread'[t].request = thread[t].request
  /\ thread'[t].count = thread[t].count /\ thread'[t].target = thread[t].target
  /\ thread'[t].next = thread[t].next
Rests(t, place) ==
  /\ thread' \in [Thread -> ThreadState]
  /\ Elsewhere(t)
  /\ thread'[t].at = place /\ thread'[t].request = 0 /\ thread'[t].next = 1

(* A channel of which only some fields change, and the others.             *)
Apart(c) == \A e \in Channel : e # c => channel'[e] = channel[e]
SameQueue(c) ==
  /\ channel'[c].queue = channel[c].queue /\ channel'[c].head = channel[c].head
  /\ channel'[c].tail = channel[c].tail /\ channel'[c].count = channel[c].count
SameFlags(c) ==
  /\ channel'[c].registered = channel[c].registered /\ channel'[c].open = channel[c].open
  /\ channel'[c].stop = channel[c].stop /\ channel'[c].started = channel[c].started
  /\ channel'[c].mutex = channel[c].mutex

LEMMA ThreadFields ==
  ASSUME Typed, NEW t \in Thread
  PROVE  /\ thread[t] \in ThreadState
         /\ thread[t].request \in Request \cup {Nothing} /\ thread[t].count \in 0 .. QueueDepth
         /\ thread[t].target \in Channel /\ thread[t].next \in Nat \ {0}
BY DEF Typed, ThreadState

LEMMA Waits ==
  /\ Waiting \in ThreadState /\ Waiting.at = "loop" /\ Waiting.request = 0 /\ Waiting.next = 1
  /\ Away \in ThreadState /\ Away.at = "none" /\ Away.request = 0 /\ Away.next = 1
<1>1. 0 \in 0 .. QueueDepth /\ 1 \in Nat \ {0} /\ Control \in Channel
  BY ControllerTransportAssumption, Threads
<1>2. /\ Away \in ThreadState /\ Away.at = "none" /\ Away.request = 0 /\ Away.next = 1
      /\ Away.count = 0 /\ Away.target = Control
  BY <1>1 DEF Away, ThreadState, Nothing
<1>3. Waiting = [at |-> "loop", request |-> 0, count |-> 0, target |-> Control, next |-> 1]
  BY DEF Waiting, Away, Nothing
<1> QED BY <1>1, <1>2, <1>3 DEF ThreadState, Nothing

LEMMA GotoGoes ==
  ASSUME Typed, NEW t \in Thread, NEW p \in Place, Goto(t, p)
  PROVE  Goes(t, p)
<1>1. PICK r \in ThreadState : r = thread[t]
  BY DEF Typed
<1>2. thread' = [thread EXCEPT ![t] = [r EXCEPT !.at = p]]
  BY <1>1 DEF Goto
<1>3. PICK q \in ThreadState : q = [r EXCEPT !.at = p]
  BY DEF ThreadState, Place
<1>4. /\ q.at = p /\ q.request = r.request /\ q.count = r.count
      /\ q.target = r.target /\ q.next = r.next
  BY <1>3 DEF ThreadState
<1> QED BY <1>1, <1>2, <1>3, <1>4 DEF Typed, Goes, Elsewhere

LEMMA LoopRests ==
  ASSUME Typed, NEW t \in Thread, Loop(t)
  PROVE  Rests(t, "loop")
BY Waits DEF Typed, Loop, Rests, Elsewhere

(* The host.                                                               *)
Message == [command : {"start", "stop", "close", "data"}, target : Data, channel : Channel]

Sends(m) ==
  /\ Len(sent) < manner.requests /\ pending = 0
  /\ pending' = Len(sent) + 1 /\ sent' = Append(sent, m)
  /\ m.channel = IF m.command = "data" THEN m.target ELSE Control
  /\ m.command = "data" => running[m.target]
  /\ m.command = "start" => \/ manner.restarts
                            \/ \A n \in 1 .. Len(sent) : sent[n].target # m.target
  /\ \A d \in Data : running'[d] = TRUE => running[d]

Hears ==
  /\ pending # 0 /\ pending' = 0 /\ sent' = sent
  /\ Answered(pending, TRUE) \/ Answered(pending, FALSE) \/ ~manner.waits
  /\ \A d \in Data : running'[d] = TRUE =>
       \/ running[d]
       \/ /\ Answered(pending, TRUE) /\ sent[pending].command = "start"
          /\ sent[pending].target = d

LEMMA HostDoes ==
  ASSUME TypeOK, HostStep
  PROVE  /\ UNCHANGED <<channel, order, thread, holder, stopping, handled, answered, manner, received>>
         /\ running' \in [Data -> BOOLEAN]
         /\ (\E m \in Message : Sends(m)) \/ Hears
<1>1. running \in [Data -> BOOLEAN]
  BY DEF TypeOK
<1>2. ASSUME NEW d \in Data, NEW command \in {"start", "stop", "close", "data"}, Send(command, d),
             running' \in [Data -> BOOLEAN], \A e \in Data : running'[e] = TRUE => running[e],
             command = "data" => running[d],
             command = "start" => \/ manner.restarts
                                  \/ \A n \in 1 .. Len(sent) : sent[n].target # d
      PROVE  /\ UNCHANGED <<channel, order, thread, holder, stopping, handled, answered, manner, received>>
             /\ \E m \in Message : Sends(m)
  <2>1. PICK c \in Channel : c = IF command = "data" THEN d ELSE Control
    BY Threads
  <2>2. PICK m : m = [command |-> command, target |-> d, channel |-> c]
    OBVIOUS
  <2>5. m \in Message /\ m.command = command /\ m.target = d /\ m.channel = c
    BY <1>2, <2>2 DEF Message
  <2>3. Sends(m)
    BY <1>2, <2>1, <2>2, <2>5 DEF Send, Sends, Nothing
  <2> QED BY <1>2, <2>3, <2>5 DEF Send, controller
<1>3. ASSUME NEW d \in Data, HostStart(d) \/ HostData(d) \/ HostStop(d)
      PROVE  /\ UNCHANGED <<channel, order, thread, holder, stopping, handled, answered, manner, received>>
             /\ running' \in [Data -> BOOLEAN]
             /\ \E m \in Message : Sends(m)
  <2>1. running' = running
    BY <1>3 DEF HostStart, HostData, HostStop
  <2>2. CASE HostStart(d)
    BY <2>1, <2>2, <1>1, <1>2 DEF HostStart
  <2>3. CASE HostData(d)
    BY <2>1, <2>3, <1>1, <1>2 DEF HostData
  <2>4. CASE HostStop(d)
    BY <2>1, <2>4, <1>1, <1>2 DEF HostStop
  <2> QED BY <1>3, <2>2, <2>3, <2>4
<1>4. ASSUME NEW d \in Data, HostClose(d)
      PROVE  /\ UNCHANGED <<channel, order, thread, holder, stopping, handled, answered, manner, received>>
             /\ running' \in [Data -> BOOLEAN]
             /\ \E m \in Message : Sends(m)
  <2>1. running' = [running EXCEPT ![d] = FALSE] /\ Send("close", d)
    BY <1>4 DEF HostClose
  <2>2. running' \in [Data -> BOOLEAN] /\ \A e \in Data : running'[e] = TRUE => running[e]
    BY <1>1, <2>1
  <2> QED BY <2>1, <2>2, <1>2
<1>5. ASSUME HostAnswered
      PROVE  /\ UNCHANGED <<channel, order, thread, holder, stopping, handled, answered, manner, received>>
             /\ running' \in [Data -> BOOLEAN]
             /\ Hears
  <2>1. /\ UNCHANGED <<channel, order, thread, holder, stopping, handled, answered, manner, received>>
        /\ pending # 0 /\ pending' = 0 /\ sent' = sent
        /\ Answered(pending, TRUE) \/ Answered(pending, FALSE)
    BY <1>5 DEF HostAnswered, controller, Nothing
  <2>2. CASE running' = running
    BY <1>1, <2>1, <2>2 DEF Hears
  <2>3. CASE /\ Answered(pending, TRUE) /\ sent[pending].command = "start"
             /\ running' = [running EXCEPT ![sent[pending].target] = TRUE]
    BY <1>1, <2>1, <2>3 DEF Hears
  <2>4. CASE running' = [running EXCEPT ![sent[pending].target] = FALSE]
    BY <1>1, <2>1, <2>4 DEF Hears
  <2> QED BY <1>5, <2>2, <2>3, <2>4 DEF HostAnswered
<1>6. ASSUME HostTimeout
      PROVE  /\ UNCHANGED <<channel, order, thread, holder, stopping, handled, answered, manner, received>>
             /\ running' \in [Data -> BOOLEAN]
             /\ Hears
  BY <1>1, <1>6 DEF HostTimeout, controller, Hears, Nothing
<1> QED BY <1>3, <1>4, <1>5, <1>6 DEF HostStep

LEMMA Numbers ==
  ASSUME TypeOK
  PROVE  /\ sent \in Seq(Message) /\ Len(sent) \in Nat
         /\ received \in Nat /\ received <= Len(sent) /\ received >= 0
         /\ handled \in Seq(Request \cup {Nothing}) /\ Len(handled) \in Nat
         /\ answered \in Seq([request : Request \cup {Nothing}, ok : BOOLEAN])
         /\ Len(answered) \in Nat
<1>1. /\ sent \in Seq(Message)
      /\ handled \in Seq(Request \cup {Nothing})
      /\ answered \in Seq([request : Request \cup {Nothing}, ok : BOOLEAN])
  BY DEF TypeOK, Message
<1>2. Len(sent) \in Nat /\ Len(handled) \in Nat /\ Len(answered) \in Nat
  BY <1>1, LenProperties
<1>3. received \in 0 .. Len(sent)
  BY DEF TypeOK
<1> QED BY <1>1, <1>2, <1>3

(* The receiving worker.                                                   *)
LEMMA RequestOf ==
  ASSUME TypeOK, NumbersInv, thread["rx"].at \in RxBusy
  PROVE  /\ thread["rx"].request = received /\ received \in 1 .. Len(sent)
         /\ sent[received] \in Message /\ Target = sent[received].channel /\ Target \in Channel
<1>1. thread["rx"].request = received /\ received # 0
  BY DEF NumbersInv
<1>2. sent \in Seq(Message)
  BY DEF TypeOK, Message
<1>3. received \in 1 .. Len(sent)
  BY <1>1, Numbers
<1>4. PICK m \in Message : m = sent[received]
  BY <1>2, <1>3
<1>5. m.channel \in Channel
  BY DEF Message
<1> QED BY <1>1, <1>3, <1>4, <1>5 DEF Target

LEMMA RxReceiveDoes ==
  ASSUME TypeOK, MannerInv, RxReceive
  PROVE  /\ UNCHANGED <<channel, order, holder, stopping, sent, pending, running, manner,
                        handled, answered>>
         /\ At("rx", "loop") /\ ~stopping /\ received < Len(sent) /\ received' = received + 1
         /\ thread' \in [Thread -> ThreadState] /\ Elsewhere("rx")
         /\ thread'["rx"].at = "dispatch" /\ thread'["rx"].request = received + 1
<1>1. PICK r \in ThreadState : r = thread["rx"]
  BY Types, Threads DEF Typed
<1>2. PICK n \in Request : n = received + 1
  <2>1. received \in Nat /\ received + 1 <= Len(sent) /\ Len(sent) \in Nat
    BY Numbers DEF RxReceive
  <2>2. manner.requests \in 0 .. MaxRequests /\ MaxRequests \in Nat /\ Len(sent) <= manner.requests
    BY ControllerTransportAssumption DEF MannerInv
  <2> QED BY <2>1, <2>2 DEF Request
<1>3. thread' = [thread EXCEPT !["rx"] = [r EXCEPT !.at = "dispatch", !.request = n]]
  BY <1>1, <1>2 DEF RxReceive
<1>4. PICK q \in ThreadState : q = [r EXCEPT !.at = "dispatch", !.request = n]
  BY DEF ThreadState, RxBusy
<1>5. q.at = "dispatch" /\ q.request = n
  BY <1>4 DEF ThreadState
<1>6. /\ thread' \in [Thread -> ThreadState] /\ Elsewhere("rx") /\ thread'["rx"] = q
  BY <1>3, <1>4, Types, Threads DEF Typed, Elsewhere
<1> QED BY <1>2, <1>5, <1>6 DEF RxReceive

LEMMA RxExitDoes ==
  ASSUME TypeOK, RxExit
  PROVE  /\ UNCHANGED <<channel, order, holder, stopping, host, handled, answered>>
         /\ At("rx", "loop") /\ Goes("rx", "exited")
BY Types, Threads, GotoGoes DEF RxExit, Place

Answers(n, ok) == answered' = Append(answered, [request |-> n, ok |-> ok])

LEMMA RxFindOpenDoes ==
  ASSUME TypeOK, RxFindOpen
  PROVE  /\ UNCHANGED <<channel, order, holder, stopping, host, handled>>
         /\ At("rx", "dispatch")
         /\ \/ channel[Target].open /\ Goes("rx", "started?") /\ answered' = answered
            \/ /\ ~channel[Target].open /\ Rests("rx", "loop")
               /\ Answers(thread["rx"].request, FALSE)
<1>1. "started?" \in Place
  BY DEF Place, RxBusy
<1> QED BY <1>1, Types, Threads, GotoGoes, LoopRests DEF RxFindOpen, Answer, Answers

LEMMA RxFindThreadDoes ==
  ASSUME TypeOK, RxFindThread
  PROVE  /\ UNCHANGED <<channel, order, holder, stopping, host, answered>>
         /\ At("rx", "started?")
         /\ \/ channel[Target].started /\ Goes("rx", "queue") /\ handled' = handled
            \/ /\ ~channel[Target].started /\ Goes("rx", "serve")
               /\ handled' = Append(handled, thread["rx"].request)
<1>1. "queue" \in Place /\ "serve" \in Place
  BY DEF Place, RxBusy
<1> QED BY <1>1, Types, Threads, GotoGoes DEF RxFindThread

LEMMA QueueFits ==
  /\ QueueDepth \in Nat /\ QueueDepth > 0
  /\ \A x \in Nat : x % QueueDepth \in Slot
  /\ Slot \subseteq Nat
BY ControllerTransportAssumption DEF Slot

LEMMA ChannelFields ==
  ASSUME Typed, NEW c \in Channel
  PROVE  /\ channel[c] \in ChannelState
         /\ channel[c].registered \in BOOLEAN /\ channel[c].open \in BOOLEAN
         /\ channel[c].stop \in BOOLEAN /\ channel[c].started \in BOOLEAN
         /\ channel[c].mutex \in BOOLEAN /\ channel[c].queue \in [Slot -> Request \cup {Nothing}]
         /\ channel[c].head \in Slot /\ channel[c].tail \in Slot
         /\ channel[c].count \in 0 .. QueueDepth
BY DEF Typed, ChannelState

LEMMA RxQueueDoes ==
  ASSUME TypeOK, NumbersInv, RxQueue
  PROVE  /\ UNCHANGED <<order, stopping, host, handled, answered>>
         /\ At("rx", "queue") /\ CanLock(Target)
         /\ \/ Rests("rx", "loop") /\ UNCHANGED <<channel, holder>>
            \/ /\ channel[Target].count < QueueDepth
               /\ Lock(Target, "rx")
               /\ thread' \in [Thread -> ThreadState] /\ Elsewhere("rx")
               /\ thread'["rx"].at = "count" /\ thread'["rx"].request = thread["rx"].request
               /\ thread'["rx"].count = channel[Target].count
               /\ channel' \in [Channel -> ChannelState] /\ Apart(Target) /\ SameFlags(Target)
               /\ channel'[Target].queue =
                    [channel[Target].queue EXCEPT ![channel[Target].tail] = thread["rx"].request]
               /\ channel'[Target].tail = (channel[Target].tail + 1) % QueueDepth
               /\ channel'[Target].head = channel[Target].head
               /\ channel'[Target].count = channel[Target].count
<1>1. CASE Loop("rx") /\ UNCHANGED <<channel, holder>>
  BY <1>1, Types, Threads, LoopRests DEF RxQueue
<1>2. CASE ~(channel[Target].count >= QueueDepth)
  <2>1. PICK c \in Channel : c = Target
    BY RequestOf DEF RxQueue, At, RxBusy
  <2>2. PICK k \in ChannelState : k = channel[c]
    BY Types DEF Typed
  <2>3. PICK r \in ThreadState : r = thread["rx"]
    BY Types, Threads DEF Typed
  <2>4. PICK n \in Request \cup {Nothing} : n = r.request
    BY DEF ThreadState
  <2>5. /\ channel' = [channel EXCEPT ![c] = [k EXCEPT !.queue[k.tail] = n,
                                                     !.tail = (k.tail + 1) % QueueDepth]]
        /\ thread' = [thread EXCEPT !["rx"] = [r EXCEPT !.at = "count", !.count = k.count]]
    BY <1>2, <2>1, <2>2, <2>3, <2>4 DEF RxQueue
  <2>6. PICK q \in [Slot -> Request \cup {Nothing}] : q = [k.queue EXCEPT ![k.tail] = n]
    BY DEF ChannelState
  <2>7. PICK x \in Slot : x = (k.tail + 1) % QueueDepth
    <3>1. k.tail \in Slot
      BY DEF ChannelState
    <3>2. PICK y \in Nat : y = k.tail
      BY <3>1, QueueFits
    <3>4. y + 1 \in Nat
      OBVIOUS
    <3> QED BY <3>2, <3>4, QueueFits
  <2>8. PICK l \in ChannelState : l = [k EXCEPT !.queue[k.tail] = n, !.tail = (k.tail + 1) % QueueDepth]
    <3>1. [k EXCEPT !.queue = q, !.tail = x] \in ChannelState
      BY DEF ChannelState
    <3>2. [k EXCEPT !.queue[k.tail] = n, !.tail = (k.tail + 1) % QueueDepth] = [k EXCEPT !.queue = q, !.tail = x]
      BY <2>6, <2>7
    <3> QED BY <3>1, <3>2
  <2>9. /\ l.queue = q /\ l.tail = x /\ l.head = k.head /\ l.count = k.count
        /\ l.registered = k.registered /\ l.open = k.open /\ l.stop = k.stop
        /\ l.started = k.started /\ l.mutex = k.mutex
    BY <2>6, <2>7, <2>8 DEF ChannelState
  <2>10. PICK s \in ThreadState : s = [r EXCEPT !.at = "count", !.count = k.count]
    BY DEF ThreadState, ChannelState, RxBusy
  <2>11. s.at = "count" /\ s.request = r.request /\ s.count = k.count
    BY <2>10 DEF ThreadState
  <2>12. /\ channel' \in [Channel -> ChannelState] /\ channel'[c] = l /\ Apart(c)
    BY <2>5, <2>8, Types DEF Typed, Apart
  <2>13. /\ thread' \in [Thread -> ThreadState] /\ thread'["rx"] = s /\ Elsewhere("rx")
    BY <2>5, <2>10, Types, Threads DEF Typed, Elsewhere
  <2>14. k.count \in 0 .. QueueDepth
    BY DEF ChannelState
  <2>15. channel[c].count < QueueDepth
    BY <2>14, <2>2, <2>1, <1>2, QueueFits
  <2>16. SameFlags(c)
    BY <2>2, <2>9, <2>12 DEF SameFlags
  <2>17. UNCHANGED <<order, stopping, host, handled, answered>> /\ At("rx", "queue")
         /\ CanLock(Target) /\ Lock(Target, "rx")
    BY <1>2 DEF RxQueue
  <2> QED BY <2>1, <2>2, <2>3, <2>4, <2>6, <2>7, <2>9, <2>11, <2>12, <2>13, <2>15, <2>16, <2>17
<1> QED BY <1>1, <1>2 DEF RxQueue

LEMMA RxCountDoes ==
  ASSUME TypeOK, NumbersInv, RxCount
  PROVE  /\ UNCHANGED <<order, stopping, host, handled, answered>>
         /\ At("rx", "count") /\ Rests("rx", "loop") /\ Unlock(Target)
         /\ channel' \in [Channel -> ChannelState] /\ Apart(Target) /\ SameFlags(Target)
         /\ channel'[Target].queue = channel[Target].queue
         /\ channel'[Target].head = channel[Target].head
         /\ channel'[Target].tail = channel[Target].tail
         /\ channel'[Target].count = thread["rx"].count + 1
<1>1. PICK c \in Channel : c = Target
  BY RequestOf DEF RxCount, At, RxBusy
<1>2. PICK k \in ChannelState : k = channel[c]
  BY Types DEF Typed
<1>3. PICK n \in 0 .. QueueDepth : n = thread["rx"].count + 1
  <2>1. thread["rx"].count \in 0 .. QueueDepth
    BY ThreadFields, Types, Threads
  <2>2. thread["rx"].count < QueueDepth
    BY DEF RxCount, NumbersInv
  <2> QED BY <2>1, <2>2, QueueFits
<1>4. PICK l \in ChannelState : l = [k EXCEPT !.count = n]
  BY DEF ChannelState
<1>5. /\ l.queue = k.queue /\ l.tail = k.tail /\ l.head = k.head /\ l.count = n
      /\ l.registered = k.registered /\ l.open = k.open /\ l.stop = k.stop
      /\ l.started = k.started /\ l.mutex = k.mutex
  BY <1>4 DEF ChannelState
<1>6. channel' = [channel EXCEPT ![c] = l]
  BY <1>1, <1>2, <1>3, <1>4 DEF RxCount
<1>7. channel' \in [Channel -> ChannelState] /\ channel'[c] = l /\ Apart(c)
  BY <1>6, Types DEF Typed, Apart
<1>8. UNCHANGED <<order, stopping, host, handled, answered>> /\ At("rx", "count")
      /\ Rests("rx", "loop") /\ Unlock(c)
  BY <1>1, Types, Threads, LoopRests DEF RxCount
<1> QED BY <1>1, <1>2, <1>3, <1>5, <1>7, <1>8 DEF SameFlags

LEMMA ServeDoes ==
  ASSUME TypeOK, NEW t \in Thread, Serve(t)
  PROVE  /\ UNCHANGED <<channel, order, holder, stopping, host, handled>>
         /\ At(t, "serve") /\ Rests(t, "loop")
         /\ \E ok \in BOOLEAN : Answers(thread[t].request, ok)
BY Types, LoopRests DEF Serve, Answer, Answers

(* The workers of the channels.                                            *)
LEMMA WorkerExitDoes ==
  ASSUME TypeOK, NEW c \in Channel, WorkerExit(c)
  PROVE  /\ UNCHANGED <<channel, order, holder, stopping, host, handled, answered>>
         /\ At(c, "loop") /\ channel[c].stop /\ channel[c].count = 0 /\ Goes(c, "exited")
BY Types, Threads, GotoGoes DEF WorkerExit, Place

LEMMA WorkerPopDoes ==
  ASSUME TypeOK, NEW c \in Channel, WorkerPop(c)
  PROVE  /\ UNCHANGED <<order, stopping, host, handled, answered>>
         /\ At(c, "loop") /\ CanLock(c) /\ channel[c].count > 0 /\ Lock(c, c)
         /\ thread' \in [Thread -> ThreadState] /\ Elsewhere(c)
         /\ thread'[c].at = "uncount"
         /\ thread'[c].request = channel[c].queue[channel[c].head]
         /\ thread'[c].count = channel[c].count
         /\ channel' \in [Channel -> ChannelState] /\ Apart(c) /\ SameFlags(c)
         /\ channel'[c].queue = channel[c].queue
         /\ channel'[c].head = (channel[c].head + 1) % QueueDepth
         /\ channel'[c].tail = channel[c].tail
         /\ channel'[c].count = channel[c].count
<1>1. PICK k \in ChannelState : k = channel[c]
  BY Types DEF Typed
<1>2. PICK x \in Slot : x = (k.head + 1) % QueueDepth
  <2>1. PICK y \in Nat : y = k.head
    BY QueueFits DEF ChannelState
  <2>2. y + 1 \in Nat
    OBVIOUS
  <2> QED BY <2>1, <2>2, QueueFits
<1>3. PICK l \in ChannelState : l = [k EXCEPT !.head = x]
  BY DEF ChannelState
<1>4. /\ l.queue = k.queue /\ l.tail = k.tail /\ l.head = x /\ l.count = k.count
      /\ l.registered = k.registered /\ l.open = k.open /\ l.stop = k.stop
      /\ l.started = k.started /\ l.mutex = k.mutex
  BY <1>3 DEF ChannelState
<1>5. channel' = [channel EXCEPT ![c] = l]
  BY <1>1, <1>2, <1>3 DEF WorkerPop
<1>6. channel' \in [Channel -> ChannelState] /\ channel'[c] = l /\ Apart(c)
  BY <1>5, Types DEF Typed, Apart
<1>7. PICK n \in Request \cup {Nothing} : n = k.queue[k.head]
  <2>1. k.queue \in [Slot -> Request \cup {Nothing}] /\ k.head \in Slot
    BY DEF ChannelState
  <2> QED BY <2>1
<1>8. PICK r \in ThreadState : r = thread[c]
  BY Types, Threads DEF Typed
<1>9. PICK s \in ThreadState :
        s = [r EXCEPT !.at = "uncount", !.request = n, !.count = k.count]
  BY DEF ThreadState, ChannelState
<1>10. s.at = "uncount" /\ s.request = n /\ s.count = k.count
  BY <1>9 DEF ThreadState
<1>11. thread' = [thread EXCEPT ![c] = s]
  BY <1>1, <1>7, <1>8, <1>9 DEF WorkerPop
<1>12. thread' \in [Thread -> ThreadState] /\ thread'[c] = s /\ Elsewhere(c)
  BY <1>11, Types, Threads DEF Typed, Elsewhere
<1>13. UNCHANGED <<order, stopping, host, handled, answered>>
       /\ At(c, "loop") /\ CanLock(c) /\ channel[c].count > 0 /\ Lock(c, c)
  BY DEF WorkerPop
<1> QED BY <1>1, <1>2, <1>4, <1>6, <1>7, <1>10, <1>12, <1>13 DEF SameFlags

(* The control worker learns what it is asked.                             *)
LEMMA WorkerUncountDoes ==
  ASSUME TypeOK, NumbersInv, NEW c \in Channel, WorkerUncount(c),
         c = Control => thread[c].request # 0
  PROVE  /\ UNCHANGED <<order, stopping, host, answered>>
         /\ At(c, "uncount") /\ Unlock(c)
         /\ handled' = Append(handled, thread[c].request)
         /\ thread' \in [Thread -> ThreadState] /\ Elsewhere(c)
         /\ thread'[c].request = thread[c].request
         /\ c # Control => thread'[c].at = "serve"
         /\ c = Control =>
              /\ thread'[c].at = IF Command.command = "start" THEN "start" ELSE "stop"
              /\ thread'[c].target = Command.target
         /\ channel' \in [Channel -> ChannelState] /\ Apart(c) /\ SameFlags(c)
         /\ channel'[c].queue = channel[c].queue
         /\ channel'[c].head = channel[c].head
         /\ channel'[c].tail = channel[c].tail
         /\ channel'[c].count = thread[c].count - 1
<1>1. PICK k \in ChannelState : k = channel[c]
  BY Types DEF Typed
<1>2. PICK n \in 0 .. QueueDepth : n = thread[c].count - 1
  <2>1. thread[c].count \in 0 .. QueueDepth
    BY ThreadFields, Types, Threads
  <2>2. thread[c].count > 0
    BY DEF WorkerUncount, NumbersInv, PopIn
  <2> QED BY <2>1, <2>2, QueueFits
<1>3. PICK l \in ChannelState : l = [k EXCEPT !.count = n]
  BY DEF ChannelState
<1>4. /\ l.queue = k.queue /\ l.tail = k.tail /\ l.head = k.head /\ l.count = n
      /\ l.registered = k.registered /\ l.open = k.open /\ l.stop = k.stop
      /\ l.started = k.started /\ l.mutex = k.mutex
  BY <1>3 DEF ChannelState
<1>5. channel' = [channel EXCEPT ![c] = l]
  BY <1>1, <1>2, <1>3 DEF WorkerUncount
<1>6. channel' \in [Channel -> ChannelState] /\ channel'[c] = l /\ Apart(c)
  BY <1>5, Types DEF Typed, Apart
<1>7. PICK r \in ThreadState : r = thread[c]
  BY Types, Threads DEF Typed
<1>8. /\ UNCHANGED <<order, stopping, host, answered>>
      /\ At(c, "uncount") /\ Unlock(c)
      /\ handled' = Append(handled, thread[c].request)
  BY DEF WorkerUncount
<1>9. CASE c # Control
  <2>1. PICK s \in ThreadState : s = [r EXCEPT !.at = "serve"]
    BY DEF ThreadState, RxBusy
  <2>2. s.at = "serve" /\ s.request = r.request
    BY <2>1 DEF ThreadState
  <2>3. thread' = [thread EXCEPT ![c] = s]
    BY <1>7, <1>9, <2>1 DEF WorkerUncount
  <2>4. thread' \in [Thread -> ThreadState] /\ thread'[c] = s /\ Elsewhere(c)
    BY <2>3, Types, Threads DEF Typed, Elsewhere
  <2> QED BY <1>1, <1>2, <1>4, <1>6, <1>7, <1>8, <1>9, <2>2, <2>4 DEF SameFlags
<1>10. CASE c = Control
  <2>1. PICK m \in Message : m = Command
    <3>1. thread[c].request \in 1 .. Len(sent)
      <4>1. thread[c].request \in Request \cup {Nothing} /\ thread[c].request # 0
            /\ thread[c].request <= received
        BY <1>10, ThreadFields, Types, Threads DEF NumbersInv
      <4> QED BY <4>1, Numbers DEF Request, Nothing
    <3> QED BY <1>10, <3>1, Numbers DEF Command
  <2>2. m.target \in Channel
    BY Threads DEF Message
  <2>3. PICK place \in {"start", "stop"} : place = IF m.command = "start" THEN "start" ELSE "stop"
    OBVIOUS
  <2>4. PICK s \in ThreadState : s = [r EXCEPT !.at = place, !.target = m.target]
    BY <2>2 DEF ThreadState, Commands, Starting, Closing
  <2>5. s.at = place /\ s.request = r.request /\ s.target = m.target
    BY <2>4 DEF ThreadState
  <2>6. thread' = [thread EXCEPT ![c] = s]
    BY <1>7, <1>10, <2>1, <2>3, <2>4 DEF WorkerUncount, Command
  <2>7. thread' \in [Thread -> ThreadState] /\ thread'[c] = s /\ Elsewhere(c)
    BY <2>6, Types, Threads DEF Typed, Elsewhere
  <2> QED BY <1>1, <1>2, <1>4, <1>6, <1>7, <1>8, <1>10, <2>1, <2>3, <2>5, <2>7 DEF SameFlags
<1> QED BY <1>9, <1>10

(* The control worker.  Nothing but its place changes in the plain steps.  *)
Plain == UNCHANGED <<channel, order, holder, stopping, host, handled>>

LEMMA CommandDoes ==
  ASSUME TypeOK, Trigger \/ StopTriggerFails \/ StopUnregistered \/ Respond
  PROVE  /\ Plain
         /\ \/ /\ At(Control, "trigger") \/ At(Control, "stop")
               /\ Goes(Control, "done") \/ Goes(Control, "failed")
               /\ answered' = answered
            \/ /\ thread[Control].at \in {"done", "failed"}
               /\ Rests(Control, "loop")
               /\ Answers(thread[Control].request, At(Control, "done"))
<1>1. "done" \in Place /\ "failed" \in Place
  BY DEF Place, Commands
<1>2. Control \in Thread /\ Typed
  BY Threads, Types
<1>3. CASE Trigger
  BY <1>1, <1>2, <1>3, GotoGoes DEF Trigger, Plain
<1>4. CASE StopTriggerFails
  BY <1>1, <1>2, <1>4, GotoGoes DEF StopTriggerFails, Plain
<1>5. CASE StopUnregistered
  BY <1>1, <1>2, <1>5, GotoGoes DEF StopUnregistered, Plain
<1>6. CASE Respond
  BY <1>2, <1>6, LoopRests DEF Respond, Plain, Answer, Answers
<1> QED BY <1>3, <1>4, <1>5, <1>6

LEMMA Newly ==
  /\ Unregistered \in ChannelState
  /\ ~Unregistered.registered /\ ~Unregistered.open /\ ~Unregistered.stop
  /\ ~Unregistered.started /\ ~Unregistered.mutex
  /\ Unregistered.head = 0 /\ Unregistered.tail = 0 /\ Unregistered.count = 0
  /\ \A i \in Slot : Unregistered.queue[i] = 0
  /\ Registered \in ChannelState
  /\ Registered.registered = TRUE /\ Registered.open = FALSE /\ Registered.stop = FALSE
  /\ Registered.started = FALSE /\ Registered.mutex = TRUE
  /\ Registered.queue = Unregistered.queue
  /\ Registered.head = 0 /\ Registered.tail = 0 /\ Registered.count = 0
<1>1. 0 \in Slot /\ 0 \in 0 .. QueueDepth
  BY ControllerTransportAssumption DEF Slot
<1>2. PICK q \in [Slot -> Request \cup {Nothing}] : q = [i \in Slot |-> Nothing]
  BY DEF Nothing
<1>3. Unregistered = [registered |-> FALSE, open |-> FALSE, stop |-> FALSE, started |-> FALSE,
                      mutex |-> FALSE, queue |-> q, head |-> 0, tail |-> 0, count |-> 0]
  BY <1>2 DEF Unregistered
<1>4. Unregistered \in ChannelState
  BY <1>1, <1>3 DEF ChannelState
<1>5. PICK u \in ChannelState : u = Unregistered
  BY <1>4
<1>6. Registered = [u EXCEPT !.registered = TRUE, !.mutex = TRUE]
  BY <1>5 DEF Registered
<1>7. /\ ~u.registered /\ ~u.open /\ ~u.stop /\ ~u.started /\ ~u.mutex
      /\ u.queue = q /\ u.head = 0 /\ u.tail = 0 /\ u.count = 0
  BY <1>3, <1>5
<1>8. /\ Registered \in ChannelState
      /\ Registered.registered = TRUE /\ Registered.open = u.open /\ Registered.stop = u.stop
      /\ Registered.started = u.started /\ Registered.mutex = TRUE
      /\ Registered.queue = u.queue /\ Registered.head = u.head /\ Registered.tail = u.tail
      /\ Registered.count = u.count
  BY <1>6 DEF ChannelState
<1>9. Registered.open = FALSE /\ Registered.stop = FALSE /\ Registered.started = FALSE
  BY <1>7, <1>8 DEF ChannelState
<1> QED BY <1>2, <1>5, <1>7, <1>8, <1>9 DEF Nothing

LEMMA StartOpenDoes ==
  ASSUME TypeOK, StartOpen, NEW d \in Channel, d = thread[Control].target
  PROVE  /\ UNCHANGED <<holder, stopping, host, handled, answered>>
         /\ At(Control, "start")
         /\ order' = IF channel[d].registered THEN order ELSE Append(order, d)
         /\ IF channel[d].started THEN Goes(Control, "trigger") ELSE Goes(Control, "create")
         /\ channel' \in [Channel -> ChannelState] /\ Apart(d)
         /\ channel'[d].registered = TRUE /\ channel'[d].open = TRUE
         /\ channel'[d].stop = FALSE
         /\ channel[d].registered =>
              /\ SameQueue(d) /\ channel'[d].started = channel[d].started
              /\ channel'[d].mutex = channel[d].mutex
         /\ ~channel[d].registered =>
              /\ channel'[d].queue = Registered.queue /\ channel'[d].head = 0
              /\ channel'[d].tail = 0 /\ channel'[d].count = 0
              /\ channel'[d].started = FALSE /\ channel'[d].mutex = TRUE
<1>1. PICK k \in ChannelState : k = IF channel[d].registered THEN channel[d] ELSE Registered
  BY Types, Newly DEF Typed
<1>2. PICK l \in ChannelState : l = [k EXCEPT !.open = TRUE, !.stop = FALSE]
  BY DEF ChannelState
<1>3. /\ l.queue = k.queue /\ l.tail = k.tail /\ l.head = k.head /\ l.count = k.count
      /\ l.registered = k.registered /\ l.open = TRUE /\ l.stop = FALSE
      /\ l.started = k.started /\ l.mutex = k.mutex
  BY <1>2 DEF ChannelState
<1>4. channel' = [channel EXCEPT ![d] = l]
  BY <1>1, <1>2 DEF StartOpen
<1>5. channel' \in [Channel -> ChannelState] /\ channel'[d] = l /\ Apart(d)
  BY <1>4, Types DEF Typed, Apart
<1>6. /\ UNCHANGED <<holder, stopping, host, handled, answered>>
      /\ At(Control, "start")
      /\ order' = IF channel[d].registered THEN order ELSE Append(order, d)
      /\ Goto(Control, IF channel[d].started THEN "trigger" ELSE "create")
  BY DEF StartOpen
<1>7. "trigger" \in Place /\ "create" \in Place
  BY DEF Place, Commands, Starting
<1>8. IF channel[d].started THEN Goes(Control, "trigger") ELSE Goes(Control, "create")
  BY <1>6, <1>7, GotoGoes, Types, Threads
<1>9. CASE channel[d].registered
  BY <1>1, <1>3, <1>5, <1>6, <1>8, <1>9, ChannelFields, Types DEF SameQueue
<1>10. CASE ~channel[d].registered
  BY <1>1, <1>3, <1>5, <1>6, <1>8, <1>10, Newly
<1> QED BY <1>9, <1>10

LEMMA StartCreateDoes ==
  ASSUME TypeOK, StartCreate, NEW d \in Channel, d = thread[Control].target, d # Control
  PROVE  /\ UNCHANGED <<order, holder, stopping, host, handled, answered>>
         /\ At(Control, "create")
         /\ \/ /\ channel' = channel
               /\ thread' \in [Thread -> ThreadState]
               /\ \A u \in Thread : u # d /\ u # Control => thread'[u] = thread[u]
               /\ thread'[d].at = "loop" /\ thread'[d].request = 0
               /\ thread'[Control].at = "created"
               /\ thread'[Control].request = thread[Control].request
               /\ thread'[Control].target = thread[Control].target
            \/ /\ Goes(Control, "failed")
               /\ channel' \in [Channel -> ChannelState] /\ Apart(d) /\ SameQueue(d)
               /\ channel'[d].registered = channel[d].registered
               /\ channel'[d].open = FALSE /\ channel'[d].stop = channel[d].stop
               /\ channel'[d].started = channel[d].started
               /\ channel'[d].mutex = channel[d].mutex
<1>1. /\ UNCHANGED <<order, holder, stopping, host, handled, answered>>
      /\ At(Control, "create")
  BY DEF StartCreate
<1>2. CASE /\ thread' = [thread EXCEPT ![d] = Waiting, ![Control].at = "created"]
           /\ UNCHANGED channel
  <2>1. PICK r \in ThreadState : r = thread[Control]
    BY Types, Threads DEF Typed
  <2>2. PICK s \in ThreadState : s = [r EXCEPT !.at = "created"]
    BY DEF ThreadState, Commands, Starting
  <2>3. s.at = "created" /\ s.request = r.request /\ s.target = r.target
    BY <2>2 DEF ThreadState
  <2>4. thread' = [[thread EXCEPT ![d] = Waiting] EXCEPT ![Control] = s]
    BY <1>2, <2>1, <2>2, Types, Threads DEF Typed
  <2>5. /\ thread' \in [Thread -> ThreadState] /\ thread'[d] = Waiting /\ thread'[Control] = s
        /\ \A u \in Thread : u # d /\ u # Control => thread'[u] = thread[u]
    BY <2>4, Types, Threads, Waits DEF Typed
  <2> QED BY <1>1, <1>2, <2>1, <2>3, <2>5, Waits
<1>3. CASE channel' = [channel EXCEPT ![d].open = FALSE] /\ Goto(Control, "failed")
  <2>1. PICK k \in ChannelState : k = channel[d]
    BY Types DEF Typed
  <2>2. PICK l \in ChannelState : l = [k EXCEPT !.open = FALSE]
    BY DEF ChannelState
  <2>3. /\ l.queue = k.queue /\ l.tail = k.tail /\ l.head = k.head /\ l.count = k.count
        /\ l.registered = k.registered /\ l.open = FALSE /\ l.stop = k.stop
        /\ l.started = k.started /\ l.mutex = k.mutex
    BY <2>2 DEF ChannelState
  <2>4. channel' \in [Channel -> ChannelState] /\ channel'[d] = l /\ Apart(d)
    BY <1>3, <2>1, <2>2, Types DEF Typed, Apart
  <2>5. "failed" \in Place
    BY DEF Place, Commands
  <2>6. Goes(Control, "failed")
    BY <1>3, <2>5, GotoGoes, Types, Threads
  <2> QED BY <1>1, <2>1, <2>3, <2>4, <2>6 DEF SameQueue
<1> QED BY <1>2, <1>3 DEF StartCreate

LEMMA StartCreatedDoes ==
  ASSUME TypeOK, StartCreated, NEW d \in Channel, d = thread[Control].target
  PROVE  /\ UNCHANGED <<order, holder, stopping, host, handled, answered>>
         /\ At(Control, "created") /\ Goes(Control, "trigger")
         /\ channel' \in [Channel -> ChannelState] /\ Apart(d) /\ SameQueue(d)
         /\ channel'[d].registered = channel[d].registered
         /\ channel'[d].open = channel[d].open /\ channel'[d].stop = channel[d].stop
         /\ channel'[d].started = TRUE /\ channel'[d].mutex = channel[d].mutex
<1>1. PICK k \in ChannelState : k = channel[d]
  BY Types DEF Typed
<1>2. PICK l \in ChannelState : l = [k EXCEPT !.started = TRUE]
  BY DEF ChannelState
<1>3. /\ l.queue = k.queue /\ l.tail = k.tail /\ l.head = k.head /\ l.count = k.count
      /\ l.registered = k.registered /\ l.open = k.open /\ l.stop = k.stop
      /\ l.started = TRUE /\ l.mutex = k.mutex
  BY <1>2 DEF ChannelState
<1>4. channel' = [channel EXCEPT ![d] = l]
  BY <1>1, <1>2 DEF StartCreated
<1>5. channel' \in [Channel -> ChannelState] /\ channel'[d] = l /\ Apart(d)
  BY <1>4, Types DEF Typed, Apart
<1>6. "trigger" \in Place
  BY DEF Place, Commands, Starting
<1>7. /\ UNCHANGED <<order, holder, stopping, host, handled, answered>>
      /\ At(Control, "created") /\ Goes(Control, "trigger")
  BY <1>6, GotoGoes, Types, Threads DEF StartCreated
<1> QED BY <1>1, <1>3, <1>5, <1>7 DEF SameQueue

(* Closing a channel, and the tear down.                                   *)
LEMMA CloseMarkDoes ==
  ASSUME TypeOK, NEW t \in Closers, CloseMark(t), NEW d \in Channel, d = thread[t].target
  PROVE  /\ UNCHANGED <<order, holder, stopping, host, handled, answered>>
         /\ At(t, "stop") /\ channel[d].registered
         /\ IF channel[d].started THEN Goes(t, "join") ELSE Goes(t, "unstart")
         /\ channel' \in [Channel -> ChannelState] /\ Apart(d) /\ SameQueue(d)
         /\ channel'[d].registered = channel[d].registered
         /\ channel'[d].open = FALSE /\ channel'[d].stop = TRUE
         /\ channel'[d].started = channel[d].started
         /\ channel'[d].mutex = channel[d].mutex
<1>1. PICK k \in ChannelState : k = channel[d]
  BY Types DEF Typed
<1>2. PICK l \in ChannelState : l = [k EXCEPT !.open = FALSE, !.stop = TRUE]
  BY DEF ChannelState
<1>3. /\ l.queue = k.queue /\ l.tail = k.tail /\ l.head = k.head /\ l.count = k.count
      /\ l.registered = k.registered /\ l.open = FALSE /\ l.stop = TRUE
      /\ l.started = k.started /\ l.mutex = k.mutex
  BY <1>2 DEF ChannelState
<1>4. channel' = [channel EXCEPT ![d] = l]
  BY <1>1, <1>2 DEF CloseMark
<1>5. channel' \in [Channel -> ChannelState] /\ channel'[d] = l /\ Apart(d)
  BY <1>4, Types DEF Typed, Apart
<1>6. "join" \in Place /\ "unstart" \in Place /\ t \in Thread
  BY Threads DEF Place, Commands, Closing, Closers
<1>7. IF channel[d].started THEN Goes(t, "join") ELSE Goes(t, "unstart")
  BY <1>6, GotoGoes, Types DEF CloseMark
<1>8. /\ UNCHANGED <<order, holder, stopping, host, handled, answered>>
      /\ At(t, "stop") /\ channel[d].registered
  BY DEF CloseMark
<1> QED BY <1>1, <1>3, <1>5, <1>7, <1>8 DEF SameQueue

LEMMA CloseJoinDoes ==
  ASSUME TypeOK, NEW t \in Closers, CloseJoin(t), NEW d \in Channel, d = thread[t].target
  PROVE  /\ UNCHANGED <<channel, order, holder, stopping, host, handled, answered>>
         /\ At(t, "join") /\ At(d, "exited") /\ d # t
         /\ thread' \in [Thread -> ThreadState]
         /\ \A u \in Thread : u # d /\ u # t => thread'[u] = thread[u]
         /\ thread'[d].at = "none" /\ thread'[d].request = 0
         /\ thread'[t].at = "unstart" /\ thread'[t].request = thread[t].request
         /\ thread'[t].target = thread[t].target /\ thread'[t].next = thread[t].next
<1>1. /\ UNCHANGED <<channel, order, holder, stopping, host, handled, answered>>
      /\ At(t, "join") /\ At(d, "exited") /\ d # t /\ t \in Thread
      /\ thread' = [thread EXCEPT ![t].at = "unstart", ![d] = Away]
  BY Threads DEF CloseJoin, At, Closers
<1>2. PICK r \in ThreadState : r = thread[t]
  BY <1>1, Types DEF Typed
<1>3. PICK s \in ThreadState : s = [r EXCEPT !.at = "unstart"]
  BY DEF ThreadState, Commands, Closing
<1>4. s.at = "unstart" /\ s.request = r.request /\ s.target = r.target /\ s.next = r.next
  BY <1>3 DEF ThreadState
<1>5. thread' = [[thread EXCEPT ![t] = s] EXCEPT ![d] = Away]
  BY <1>1, <1>2, <1>3, Types DEF Typed
<1>6. /\ thread' \in [Thread -> ThreadState] /\ thread'[d] = Away /\ thread'[t] = s
      /\ \A u \in Thread : u # d /\ u # t => thread'[u] = thread[u]
  BY <1>1, <1>5, Types, Threads, Waits DEF Typed
<1> QED BY <1>1, <1>2, <1>4, <1>6, Waits

LEMMA CloseUnstartDoes ==
  ASSUME TypeOK, NEW t \in Closers, CloseUnstart(t), NEW d \in Channel, d = thread[t].target
  PROVE  /\ UNCHANGED <<order, stopping, host, handled, answered>>
         /\ At(t, "unstart") /\ Goes(t, "empty")
         /\ holder' = [holder EXCEPT ![d] = "nobody"]
         /\ channel' \in [Channel -> ChannelState] /\ Apart(d) /\ SameQueue(d)
         /\ channel'[d].registered = channel[d].registered
         /\ channel'[d].open = channel[d].open /\ channel'[d].stop = channel[d].stop
         /\ channel'[d].started = FALSE /\ channel'[d].mutex = FALSE
<1>1. PICK k \in ChannelState : k = channel[d]
  BY Types DEF Typed
<1>2. PICK l \in ChannelState : l = [k EXCEPT !.started = FALSE, !.mutex = FALSE]
  BY DEF ChannelState
<1>3. /\ l.queue = k.queue /\ l.tail = k.tail /\ l.head = k.head /\ l.count = k.count
      /\ l.registered = k.registered /\ l.open = k.open /\ l.stop = k.stop
      /\ l.started = FALSE /\ l.mutex = FALSE
  BY <1>2 DEF ChannelState
<1>4. channel' = [channel EXCEPT ![d] = l]
  BY <1>1, <1>2 DEF CloseUnstart
<1>5. channel' \in [Channel -> ChannelState] /\ channel'[d] = l /\ Apart(d)
  BY <1>4, Types DEF Typed, Apart
<1>6. "empty" \in Place /\ t \in Thread
  BY Threads DEF Place, Commands, Closing, Closers
<1>7. /\ UNCHANGED <<order, stopping, host, handled, answered>>
      /\ At(t, "unstart") /\ Goes(t, "empty")
      /\ holder' = [holder EXCEPT ![d] = "nobody"]
  BY <1>6, GotoGoes, Types DEF CloseUnstart
<1> QED BY <1>1, <1>3, <1>5, <1>7 DEF SameQueue

LEMMA CloseEmptyDoes ==
  ASSUME TypeOK, NEW t \in Closers, CloseEmpty(t), NEW d \in Channel, d = thread[t].target
  PROVE  /\ UNCHANGED <<order, holder, stopping, host, handled, answered>>
         /\ At(t, "empty") /\ Goes(t, Closed(t))
         /\ channel' \in [Channel -> ChannelState] /\ Apart(d) /\ SameFlags(d)
         /\ channel'[d].queue = channel[d].queue /\ channel'[d].head = 0
         /\ channel'[d].tail = 0 /\ channel'[d].count = 0
<1>1. PICK k \in ChannelState : k = channel[d]
  BY Types DEF Typed
<1>2. 0 \in Slot /\ 0 \in 0 .. QueueDepth
  BY ControllerTransportAssumption DEF Slot
<1>3. PICK l \in ChannelState : l = [k EXCEPT !.count = 0, !.head = 0, !.tail = 0]
  BY <1>2 DEF ChannelState
<1>4. /\ l.queue = k.queue /\ l.tail = 0 /\ l.head = 0 /\ l.count = 0
      /\ l.registered = k.registered /\ l.open = k.open /\ l.stop = k.stop
      /\ l.started = k.started /\ l.mutex = k.mutex
  BY <1>3 DEF ChannelState
<1>5. channel' = [channel EXCEPT ![d] = l]
  BY <1>1, <1>3 DEF CloseEmpty
<1>6. channel' \in [Channel -> ChannelState] /\ channel'[d] = l /\ Apart(d)
  BY <1>5, Types DEF Typed, Apart
<1>7. Closed(t) \in Place /\ t \in Thread
  BY Threads DEF Place, Commands, Closed, Closers
<1>8. /\ UNCHANGED <<order, holder, stopping, host, handled, answered>>
      /\ At(t, "empty") /\ Goes(t, Closed(t))
  BY <1>7, GotoGoes, Types DEF CloseEmpty
<1> QED BY <1>1, <1>4, <1>6, <1>8 DEF SameFlags

LEMMA DeinitDoes ==
  ASSUME TypeOK, Deinit
  PROVE  /\ UNCHANGED <<channel, order, holder, host, handled, answered>>
         /\ stopping' = TRUE /\ At("main", "none") /\ Goes("main", "join rx")
BY Types, Threads, GotoGoes DEF Deinit, Place

LEMMA DeinitJoinDoes ==
  ASSUME TypeOK, DeinitJoin
  PROVE  /\ UNCHANGED <<channel, order, holder, stopping, host, handled, answered>>
         /\ At("main", "join rx") /\ At("rx", "exited")
         /\ thread' \in [Thread -> ThreadState]
         /\ \A u \in Thread : u # "rx" /\ u # "main" => thread'[u] = thread[u]
         /\ thread'["rx"].at = "none" /\ thread'["rx"].request = 0
         /\ thread'["main"].at = "next channel"
         /\ thread'["main"].request = thread["main"].request
         /\ thread'["main"].target = thread["main"].target
         /\ thread'["main"].next = thread["main"].next
<1>1. /\ UNCHANGED <<channel, order, holder, stopping, host, handled, answered>>
      /\ At("main", "join rx") /\ At("rx", "exited")
      /\ thread' = [thread EXCEPT !["rx"] = Away, !["main"].at = "next channel"]
  BY DEF DeinitJoin
<1>2. PICK r \in ThreadState : r = thread["main"]
  BY Threads, Types DEF Typed
<1>3. PICK s \in ThreadState : s = [r EXCEPT !.at = "next channel"]
  BY DEF ThreadState
<1>4. s.at = "next channel" /\ s.request = r.request /\ s.target = r.target /\ s.next = r.next
  BY <1>3 DEF ThreadState
<1>5. thread' = [[thread EXCEPT !["rx"] = Away] EXCEPT !["main"] = s]
  BY <1>1, <1>2, <1>3, Types, Threads DEF Typed
<1>6. /\ thread' \in [Thread -> ThreadState] /\ thread'["rx"] = Away /\ thread'["main"] = s
      /\ \A u \in Thread : u # "rx" /\ u # "main" => thread'[u] = thread[u]
  BY <1>5, Types, Threads, Waits DEF Typed
<1> QED BY <1>1, <1>2, <1>4, <1>6, Waits

LEMMA DeinitNextDoes ==
  ASSUME TypeOK, DeinitNext
  PROVE  /\ UNCHANGED <<channel, holder, stopping, host, handled, answered>>
         /\ At("main", "next channel")
         /\ \/ /\ Main.next <= Len(order) /\ order' = order
               /\ thread' \in [Thread -> ThreadState] /\ Elsewhere("main")
               /\ thread'["main"].at = "stop" /\ thread'["main"].next = Main.next + 1
               /\ thread'["main"].target = order[Main.next]
               /\ thread'["main"].request = Main.request
            \/ /\ Main.next > Len(order) /\ order' = <<>>
               /\ Goes("main", "done")
<1>1. PICK r \in ThreadState : r = Main
  BY Threads, Types DEF Typed, Main
<1>2. PICK i \in Nat \ {0} : i = r.next
  BY DEF ThreadState
<1>3. order \in Seq(Channel) /\ Len(order) \in Nat
  BY LenProperties DEF TypeOK
<1>4. UNCHANGED <<channel, holder, stopping, host, handled, answered>> /\ At("main", "next channel")
  BY DEF DeinitNext
<1>5. CASE i <= Len(order)
  <2>1. PICK c \in Channel : c = order[i]
    BY <1>2, <1>3, <1>5
  <2>2. PICK s \in ThreadState : s = [r EXCEPT !.at = "stop", !.next = i + 1, !.target = c]
    <3>1. i + 1 \in Nat \ {0}
      BY <1>2
    <3> QED BY <3>1 DEF ThreadState, Commands, Closing
  <2>3. s.at = "stop" /\ s.request = r.request /\ s.target = c /\ s.next = i + 1
    BY <2>2 DEF ThreadState
  <2>4. thread' = [thread EXCEPT !["main"] = s] /\ order' = order
    BY <1>1, <1>2, <1>5, <2>1, <2>2 DEF DeinitNext, Main
  <2>5. thread' \in [Thread -> ThreadState] /\ thread'["main"] = s /\ Elsewhere("main")
    BY <2>4, Types, Threads DEF Typed, Elsewhere
  <2> QED BY <1>1, <1>2, <1>4, <1>5, <2>1, <2>3, <2>4, <2>5
<1>6. CASE ~(i <= Len(order))
  <2>1. Goto("main", "done") /\ order' = <<>>
    BY <1>1, <1>2, <1>6 DEF DeinitNext, Main
  <2>2. "done" \in Place
    BY DEF Place, Commands
  <2>3. Goes("main", "done")
    BY <2>1, <2>2, Types, Threads, GotoGoes
  <2>4. Main.next > Len(order)
    BY <1>1, <1>2, <1>3, <1>6
  <2> QED BY <1>4, <2>1, <2>3, <2>4
<1> QED BY <1>5, <1>6

-----------------------------------------------------------------------------
(* What the control worker works at.                                       *)
LEMMA TargetIsData ==
  ASSUME Inv, thread[Control].at \in Commands
  PROVE  /\ thread[Control].request \in 1 .. Len(sent) /\ Command \in Message
         /\ thread[Control].target = Command.target
         /\ thread[Control].target \in Data /\ thread[Control].target # Control
<1>1. TypeOK /\ NumbersInv /\ ControlInv
  BY DEF Inv
<1>2. thread[Control].request \in 1 .. Len(sent)
  <2>1. thread[Control].request \in Request \cup {Nothing} /\ thread[Control].request # 0
        /\ thread[Control].request <= received
    BY <1>1, ThreadFields, Types, Threads DEF NumbersInv, ControlInv
  <2> QED BY <1>1, <2>1, Numbers DEF Request, Nothing
<1>3. PICK m \in Message : m = Command
  BY <1>1, <1>2, Numbers DEF Command
<1>4. m.target \in Data
  BY DEF Message
<1> QED BY <1>1, <1>2, <1>3, <1>4, Threads DEF ControlInv

LEMMA ControlAsks ==
  ASSUME Inv, NEW c \in Channel, WorkerUncount(c)
  PROVE  c = Control => thread[c].request # 0
<1>1. SUFFICES ASSUME c = Control PROVE thread[Control].request # 0
  OBVIOUS
<1>2. PopIn(Control) /\ Alive(Control)
  BY <1>1 DEF WorkerUncount, PopIn, Alive, At
<1>3. Sound(Control)
  BY <1>2, Threads DEF Inv, WorkersInv, Sound
<1> QED BY <1>2, <1>3, Threads DEF Inv, FifoInv, Fifo

-----------------------------------------------------------------------------
(* The steps, and what all of them leave.                                  *)
LEMMA Steps ==
  ASSUME Next
  PROVE  \/ HostStep
         \/ RxReceive \/ RxExit \/ RxFindOpen \/ RxFindThread \/ RxQueue \/ RxCount
         \/ \E t \in {"rx"} \cup Data : Serve(t)
         \/ \E c \in Channel : WorkerExit(c)
         \/ \E c \in Channel : WorkerPop(c)
         \/ \E c \in Channel : WorkerUncount(c)
         \/ StartOpen \/ StartCreate \/ StartCreated
         \/ Trigger \/ StopTriggerFails \/ StopUnregistered \/ Respond
         \/ \E t \in Closers : CloseMark(t)
         \/ \E t \in Closers : CloseJoin(t)
         \/ \E t \in Closers : CloseUnstart(t)
         \/ \E t \in Closers : CloseEmpty(t)
         \/ Deinit \/ DeinitJoin \/ DeinitNext
<1>1. CASE RxStep
  BY <1>1 DEF RxStep
<1>2. CASE \E d \in Data : WorkerStep(d) \/ Serve(d)
  BY <1>2, Threads DEF WorkerStep
<1>3. CASE ControlStep
  BY <1>3, Threads DEF ControlStep, WorkerStep, CloseStep, Closers
<1>4. CASE MainStep
  BY <1>4 DEF MainStep, CloseStep, Closers
<1> QED BY <1>1, <1>2, <1>3, <1>4 DEF Next

LEMMA Added ==
  ASSUME NEW S, NEW s \in Seq(S), NEW x \in S
  PROVE  /\ Append(s, x) \in Seq(S) /\ Len(Append(s, x)) = Len(s) + 1 /\ Len(s) \in Nat
         /\ \A n \in 1 .. Len(s) : Append(s, x)[n] = s[n]
         /\ Append(s, x)[Len(s) + 1] = x
BY AppendProperties, LenProperties

(* A sequence that stays or gets one element more.                         *)
Grows(s, t) == Len(s) <= Len(t) /\ \A n \in 1 .. Len(s) : t[n] = s[n]

Reply == [request : Request \cup {Nothing}, ok : BOOLEAN]

LEMMA AnswersGrow ==
  ASSUME TypeOK, NEW n \in Request \cup {Nothing}, NEW ok \in BOOLEAN, Answers(n, ok)
  PROVE  /\ answered' \in Seq(Reply) /\ Grows(answered, answered')
         /\ Len(answered') = Len(answered) + 1
         /\ answered'[Len(answered) + 1].request = n /\ answered'[Len(answered) + 1].ok = ok
<1>1. PICK a \in Reply : a = [request |-> n, ok |-> ok] /\ a.request = n /\ a.ok = ok
  <2>1. [request |-> n, ok |-> ok] \in Reply
    BY DEF Reply
  <2> QED BY <2>1
<1>2. answered \in Seq(Reply)
  BY Numbers DEF Reply
<1> QED BY <1>1, <1>2, Added DEF Answers, Grows

LEMMA HandledGrow ==
  ASSUME TypeOK, NEW n \in Request \cup {Nothing}, handled' = Append(handled, n)
  PROVE  /\ handled' \in Seq(Request \cup {Nothing}) /\ Grows(handled, handled')
         /\ Len(handled') = Len(handled) + 1 /\ handled'[Len(handled) + 1] = n
BY Numbers, Added DEF Grows

LEMMA SentGrow ==
  ASSUME TypeOK, NEW m \in Message, Sends(m)
  PROVE  /\ sent' \in Seq(Message) /\ Grows(sent, sent') /\ Len(sent') = Len(sent) + 1
         /\ sent'[Len(sent) + 1] = m
BY Numbers, Added DEF Sends, Grows

LEMMA HolderTypes ==
  ASSUME TypeOK, NEW c \in Channel, NEW t \in Thread,
         Lock(c, t) \/ Unlock(c) \/ holder' = [holder EXCEPT ![c] = "nobody"] \/ holder' = holder
  PROVE  /\ holder' \in [Channel -> Thread \cup {"nobody"}]
         /\ \A e \in Channel : e # c => holder'[e] = holder[e]
BY DEF TypeOK, Lock, Unlock

OtherTypes ==
  /\ order \in Seq(Channel)
  /\ holder \in [Channel -> Thread \cup {"nobody"}]
  /\ stopping \in BOOLEAN
  /\ sent \in Seq(Message)
  /\ received \in 0 .. Len(sent) /\ pending \in 0 .. Len(sent)
  /\ running \in [Data -> BOOLEAN]
  /\ handled \in Seq(Request \cup {Nothing})
  /\ answered \in Seq(Reply)

LEMMA TypesAre == TypeOK <=> Typed /\ OtherTypes
BY DEF TypeOK, Typed, OtherTypes, ThreadState, ChannelState, RxBusy, Commands, Starting, Closing,
       Message, Reply

LEMMA TypeKept ==
  ASSUME Inv, Next
  PROVE  TypeOK'
<1>0. TypeOK /\ MannerInv /\ NumbersInv /\ Typed /\ OtherTypes
  BY TypesAre DEF Inv
<1>1. SUFFICES Typed' /\ OtherTypes'
  BY DEF TypeOK, Typed, OtherTypes, ThreadState, ChannelState, RxBusy, Commands, Starting, Closing,
         Message, Reply
<1>2. CASE HostStep
  <2>1. Typed' /\ UNCHANGED <<order, holder, stopping, handled, answered, received>>
        /\ running' \in [Data -> BOOLEAN]
    BY <1>0, <1>2, HostDoes DEF Typed
  <2>2. sent' \in Seq(Message) /\ received' \in 0 .. Len(sent') /\ pending' \in 0 .. Len(sent')
    <3>1. CASE \E m \in Message : Sends(m)
      <4>1. PICK m \in Message : Sends(m)
        BY <3>1
      <4>2. sent' \in Seq(Message) /\ Len(sent') = Len(sent) + 1 /\ pending' = Len(sent) + 1
        BY <1>0, <4>1, SentGrow DEF Sends
      <4> QED BY <1>0, <2>1, <4>2, Numbers
    <3>2. CASE Hears
      BY <1>0, <2>1, <3>2, Numbers DEF Hears
    <3> QED BY <1>0, <1>2, <3>1, <3>2, HostDoes
  <2> QED BY <1>0, <2>1, <2>2 DEF OtherTypes
<1>3. CASE RxReceive
  <2>1. received' \in 0 .. Len(sent) /\ sent' = sent
    BY <1>0, <1>3, RxReceiveDoes, Numbers
  <2> QED BY <1>0, <1>3, <2>1, RxReceiveDoes DEF Typed, OtherTypes
<1>4. CASE RxExit
  BY <1>0, <1>4, RxExitDoes DEF Typed, OtherTypes, Goes, host
<1>5. CASE RxFindOpen
  <2>1. answered' = answered \/ Answers(thread["rx"].request, FALSE)
    BY <1>0, <1>5, RxFindOpenDoes
  <2>2. answered' \in Seq(Reply)
    BY <1>0, <2>1, AnswersGrow, ThreadFields, Threads DEF OtherTypes
  <2> QED BY <1>0, <1>5, <2>2, RxFindOpenDoes DEF Typed, OtherTypes, Goes, Rests, host
<1>6. CASE RxFindThread
  <2>1. handled' = handled \/ handled' = Append(handled, thread["rx"].request)
    BY <1>0, <1>6, RxFindThreadDoes
  <2>2. handled' \in Seq(Request \cup {Nothing})
    BY <1>0, <2>1, HandledGrow, ThreadFields, Threads DEF OtherTypes
  <2> QED BY <1>0, <1>6, <2>2, RxFindThreadDoes DEF Typed, OtherTypes, Goes, host
<1>7. CASE RxQueue
  <2>1. PICK c \in Channel : c = Target
    BY <1>0, <1>7, RequestOf DEF RxQueue, At, RxBusy
  <2>2. holder' \in [Channel -> Thread \cup {"nobody"}]
    BY <1>0, <1>7, <2>1, RxQueueDoes, HolderTypes, Threads
  <2> QED BY <1>0, <1>7, <2>2, RxQueueDoes DEF Typed, OtherTypes, Rests, host
<1>8. CASE RxCount
  <2>1. PICK c \in Channel : c = Target
    BY <1>0, <1>8, RequestOf DEF RxCount, At, RxBusy
  <2>2. holder' \in [Channel -> Thread \cup {"nobody"}]
    BY <1>0, <1>8, <2>1, RxCountDoes, HolderTypes, Threads
  <2> QED BY <1>0, <1>8, <2>2, RxCountDoes DEF Typed, OtherTypes, Rests, host
<1>9. ASSUME NEW t \in {"rx"} \cup Data, Serve(t) PROVE Typed' /\ OtherTypes'
  <2>1. t \in Thread
    BY Threads
  <2>2. PICK ok \in BOOLEAN : Answers(thread[t].request, ok)
    BY <1>0, <1>9, <2>1, ServeDoes
  <2>3. answered' \in Seq(Reply)
    BY <1>0, <2>1, <2>2, AnswersGrow, ThreadFields
  <2> QED BY <1>0, <1>9, <2>1, <2>3, ServeDoes DEF Typed, OtherTypes, Rests, host
<1>10. ASSUME NEW c \in Channel, WorkerExit(c) PROVE Typed' /\ OtherTypes'
  BY <1>0, <1>10, WorkerExitDoes DEF Typed, OtherTypes, Goes, host
<1>11. ASSUME NEW c \in Channel, WorkerPop(c) PROVE Typed' /\ OtherTypes'
  <2>1. holder' \in [Channel -> Thread \cup {"nobody"}]
    BY <1>0, <1>11, WorkerPopDoes, HolderTypes, Threads
  <2> QED BY <1>0, <1>11, <2>1, WorkerPopDoes DEF Typed, OtherTypes, host
<1>12. ASSUME NEW c \in Channel, WorkerUncount(c) PROVE Typed' /\ OtherTypes'
  <2>1. c = Control => thread[c].request # 0
    BY <1>0, <1>12, ControlAsks
  <2>2. holder' \in [Channel -> Thread \cup {"nobody"}]
    BY <1>0, <1>12, <2>1, WorkerUncountDoes, HolderTypes, Threads
  <2>3. handled' \in Seq(Request \cup {Nothing})
    BY <1>0, <1>12, <2>1, WorkerUncountDoes, HandledGrow, ThreadFields, Threads
  <2> QED BY <1>0, <1>12, <2>1, <2>2, <2>3, WorkerUncountDoes DEF Typed, OtherTypes, host
<1>13. CASE StartOpen
  <2>1. PICK d \in Channel : d = thread[Control].target
    BY <1>0, ThreadFields, Threads
  <2>2. order' \in Seq(Channel)
    <3>1. order' = order \/ order' = Append(order, d)
      BY <1>0, <1>13, <2>1, StartOpenDoes
    <3>2. order \in Seq(Channel) /\ Append(order, d) \in Seq(Channel)
      BY <1>0, Added DEF OtherTypes
    <3> QED BY <3>1, <3>2
  <2> QED BY <1>0, <1>13, <2>1, <2>2, StartOpenDoes DEF Typed, OtherTypes, Goes, host
<1>14. CASE StartCreate
  <2>1. PICK d \in Channel : d = thread[Control].target
    BY <1>0, ThreadFields, Threads
  <2>2. d # Control
    BY <1>14, <2>1, TargetIsData DEF StartCreate, At, Commands, Starting
  <2> QED BY <1>0, <1>14, <2>1, <2>2, StartCreateDoes DEF Typed, OtherTypes, Goes, host
<1>15. CASE StartCreated
  <2>1. PICK d \in Channel : d = thread[Control].target
    BY <1>0, ThreadFields, Threads
  <2> QED BY <1>0, <1>15, <2>1, StartCreatedDoes DEF Typed, OtherTypes, Goes, host
<1>16. CASE Trigger \/ StopTriggerFails \/ StopUnregistered \/ Respond
  <2>1. answered' = answered \/ Answers(thread[Control].request, At(Control, "done"))
    BY <1>0, <1>16, CommandDoes
  <2>2. answered' \in Seq(Reply)
    BY <1>0, <2>1, AnswersGrow, ThreadFields, Threads DEF OtherTypes, At
  <2> QED BY <1>0, <1>16, <2>2, CommandDoes DEF Typed, OtherTypes, Goes, Rests, Plain, host
<1>17. ASSUME NEW t \in Closers, CloseMark(t) \/ CloseJoin(t) \/ CloseUnstart(t) \/ CloseEmpty(t)
       PROVE  Typed' /\ OtherTypes'
  <2>1. PICK d \in Channel : d = thread[t].target
    BY <1>0, ThreadFields, Threads DEF Closers
  <2>2. CASE CloseMark(t)
    BY <1>0, <2>1, <2>2, CloseMarkDoes DEF Typed, OtherTypes, Goes, host
  <2>3. CASE CloseJoin(t)
    BY <1>0, <2>1, <2>3, CloseJoinDoes DEF Typed, OtherTypes, Goes, host
  <2>4. CASE CloseUnstart(t)
    <3>1. holder' \in [Channel -> Thread \cup {"nobody"}]
      BY <1>0, <2>1, <2>4, CloseUnstartDoes, HolderTypes, Threads
    <3> QED BY <1>0, <2>1, <2>4, <3>1, CloseUnstartDoes DEF Typed, OtherTypes, Goes, host
  <2>5. CASE CloseEmpty(t)
    BY <1>0, <2>1, <2>5, CloseEmptyDoes DEF Typed, OtherTypes, Goes, host
  <2> QED BY <1>17, <2>2, <2>3, <2>4, <2>5
<1>18. CASE Deinit
  BY <1>0, <1>18, DeinitDoes DEF Typed, OtherTypes, Goes, host
<1>19. CASE DeinitJoin
  BY <1>0, <1>19, DeinitJoinDoes DEF Typed, OtherTypes, host
<1>20. CASE DeinitNext
  <2>1. order' \in Seq(Channel)
    <3>1. <<>> \in Seq(Channel)
      OBVIOUS
    <3>2. order \in Seq(Channel)
      BY <1>0 DEF OtherTypes
    <3>3. order' = order \/ order' = <<>>
      BY <1>0, <1>20, DeinitNextDoes
    <3>4. CASE order' = <<>>
      BY <3>1, <3>4, Zenon
    <3> QED BY <3>2, <3>3, <3>4
  <2> QED BY <1>0, <1>20, <2>1, DeinitNextDoes DEF Typed, OtherTypes, Goes, host
<1> QED BY <1>2, <1>3, <1>4, <1>5, <1>6, <1>7, <1>8, <1>9, <1>10, <1>11, <1>12, <1>13, <1>14,
           <1>15, <1>16, <1>17, <1>18, <1>19, <1>20, Steps

(* Nothing that was sent, handled or answered is forgotten.                *)
LEMMA Grown ==
  ASSUME Inv, Next
  PROVE  /\ Grows(sent, sent') /\ Grows(handled, handled') /\ Grows(answered, answered')
         /\ manner' = manner /\ received <= received'
<1>0. TypeOK /\ MannerInv /\ NumbersInv /\ Typed
  BY Types DEF Inv
<1>1. /\ Grows(sent, sent) /\ Grows(handled, handled) /\ Grows(answered, answered)
      /\ received <= received
  BY <1>0, Numbers DEF Grows
<1>2. CASE HostStep
  <2>1. Grows(sent, sent')
    BY <1>0, <1>1, <1>2, HostDoes, SentGrow DEF Hears
  <2> QED BY <1>0, <1>1, <1>2, <2>1, HostDoes
<1>3. CASE RxReceive
  <2>1. received <= received'
    BY <1>0, <1>3, RxReceiveDoes, Numbers
  <2> QED BY <1>0, <1>1, <1>3, <2>1, RxReceiveDoes
<1>4. CASE RxExit \/ RxFindOpen
  <2>1. \/ answered' = answered
        \/ Answers(thread["rx"].request, FALSE)
    BY <1>0, <1>4, RxExitDoes, RxFindOpenDoes
  <2>2. Grows(answered, answered')
    BY <1>0, <1>1, <2>1, AnswersGrow, ThreadFields, Threads
  <2> QED BY <1>0, <1>1, <1>4, <2>2, RxExitDoes, RxFindOpenDoes DEF host
<1>5. CASE RxFindThread
  <2>1. Grows(handled, handled')
    BY <1>0, <1>1, <1>5, RxFindThreadDoes, HandledGrow, ThreadFields, Threads
  <2> QED BY <1>0, <1>1, <1>5, <2>1, RxFindThreadDoes DEF host
<1>6. CASE RxQueue \/ RxCount
  BY <1>0, <1>1, <1>6, RxQueueDoes, RxCountDoes DEF host
<1>7. ASSUME NEW t \in {"rx"} \cup Data, Serve(t)
      PROVE  /\ Grows(sent, sent') /\ Grows(handled, handled') /\ Grows(answered, answered')
             /\ manner' = manner /\ received <= received'
  <2>1. t \in Thread
    BY Threads
  <2>2. Grows(answered, answered')
    BY <1>0, <1>7, <2>1, ServeDoes, AnswersGrow, ThreadFields
  <2> QED BY <1>0, <1>1, <1>7, <2>1, <2>2, ServeDoes DEF host
<1>8. ASSUME NEW c \in Channel, WorkerExit(c) \/ WorkerPop(c)
      PROVE  /\ Grows(sent, sent') /\ Grows(handled, handled') /\ Grows(answered, answered')
             /\ manner' = manner /\ received <= received'
  BY <1>0, <1>1, <1>8, WorkerExitDoes, WorkerPopDoes DEF host
<1>9. ASSUME NEW c \in Channel, WorkerUncount(c)
      PROVE  /\ Grows(sent, sent') /\ Grows(handled, handled') /\ Grows(answered, answered')
             /\ manner' = manner /\ received <= received'
  <2>1. /\ UNCHANGED <<order, stopping, host, answered>>
        /\ handled' = Append(handled, thread[c].request)
    BY <1>0, <1>9, WorkerUncountDoes, ControlAsks
  <2>2. Grows(handled, handled')
    BY <1>0, <2>1, HandledGrow, ThreadFields, Threads
  <2> QED BY <1>1, <2>1, <2>2 DEF host
<1>10. CASE Trigger \/ StopTriggerFails \/ StopUnregistered \/ Respond
  <2>1. answered' = answered \/ Answers(thread[Control].request, At(Control, "done"))
    BY <1>0, <1>10, CommandDoes
  <2>2. Grows(answered, answered')
    BY <1>0, <1>1, <2>1, AnswersGrow, ThreadFields, Threads DEF At
  <2> QED BY <1>0, <1>1, <1>10, <2>2, CommandDoes DEF Plain, host
<1>11. CASE StartOpen \/ StartCreate \/ StartCreated \/ Deinit \/ DeinitJoin \/ DeinitNext
  BY <1>1, <1>11 DEF StartOpen, StartCreate, StartCreated, Deinit, DeinitJoin, DeinitNext, host
<1>12. ASSUME NEW t \in Closers, CloseMark(t) \/ CloseJoin(t) \/ CloseUnstart(t) \/ CloseEmpty(t)
       PROVE  /\ Grows(sent, sent') /\ Grows(handled, handled') /\ Grows(answered, answered')
              /\ manner' = manner /\ received <= received'
  BY <1>1, <1>12 DEF CloseMark, CloseJoin, CloseUnstart, CloseEmpty, host
<1> QED BY <1>2, <1>3, <1>4, <1>5, <1>6, <1>7, <1>8, <1>9, <1>10, <1>11, <1>12, Steps

LEMMA MannerKept ==
  ASSUME Inv, Next
  PROVE  MannerInv'
<1>0. TypeOK /\ MannerInv
  BY DEF Inv
<1>1. sent' = sent \/ HostStep
  BY Steps DEF RxReceive, RxExit, RxFindOpen, RxFindThread, RxQueue, RxCount, Serve, WorkerExit,
       WorkerPop, WorkerUncount, StartOpen, StartCreate, StartCreated, Trigger, StopTriggerFails,
       StopUnregistered, Respond, CloseMark, CloseJoin, CloseUnstart, CloseEmpty, Deinit,
       DeinitJoin, DeinitNext, host
<1>2. CASE sent' = sent
  BY <1>0, <1>2, Grown DEF MannerInv
<1>3. CASE HostStep
  <2>1. CASE \E m \in Message : Sends(m)
    <3>1. PICK m \in Message : Sends(m)
      BY <2>1
    <3>2. Len(sent') = Len(sent) + 1 /\ Len(sent) < manner.requests
      BY <1>0, <3>1, SentGrow DEF Sends
    <3>3. manner.requests \in Nat /\ Len(sent) \in Nat
      BY <1>0, Numbers, ControllerTransportAssumption DEF MannerInv
    <3> QED BY <1>0, <3>2, <3>3, Grown DEF MannerInv
  <2>2. CASE Hears
    BY <1>0, <2>2, Grown DEF MannerInv, Hears
  <2> QED BY <1>0, <1>3, <2>1, <2>2, HostDoes
<1> QED BY <1>1, <1>2, <1>3

(* A thread goes where its kind can be.                                    *)
LEMMA Places ==
  /\ \A p \in RxBusy \cup {"loop", "exited", "none"} : PlaceOf("rx", p)
  /\ \A p \in {"none", "join rx", "next channel", "done"} \cup Closing : PlaceOf("main", p)
  /\ \A d \in Data, p \in {"none", "loop", "uncount", "serve", "exited"} : PlaceOf(d, p)
  /\ \A p \in {"none", "loop", "uncount", "exited"} \cup Commands : PlaceOf(Control, p)
BY Threads DEF PlaceOf

LEMMA OneGoes ==
  ASSUME PlacesInv, NEW t \in Thread, Elsewhere(t), PlaceOf(t, thread'[t].at)
  PROVE  PlacesInv'
BY DEF PlacesInv, Elsewhere

LEMMA PlacesKept ==
  ASSUME Inv, Next
  PROVE  PlacesInv'
<1>0. TypeOK /\ PlacesInv /\ NumbersInv /\ MannerInv
  BY DEF Inv
<1>1. CASE HostStep
  BY <1>0, <1>1, HostDoes DEF PlacesInv
<1>2. CASE RxStep
  <2>1. Elsewhere("rx") /\ thread'["rx"].at \in RxBusy \cup {"loop", "exited", "none"}
    <3>1. CASE Serve("rx")
      BY <1>0, <3>1, ServeDoes, Threads DEF Rests
    <3> QED BY <1>0, <1>2, <3>1, RxReceiveDoes, RxExitDoes, RxFindOpenDoes, RxFindThreadDoes, RxQueueDoes,
               RxCountDoes DEF RxStep, Goes, Rests, RxBusy
  <2> QED BY <1>0, <2>1, Places, OneGoes, Threads
<1>3. ASSUME NEW c \in Channel, WorkerStep(c) PROVE PlacesInv'
  <2>1. /\ Elsewhere(c)
        /\ thread'[c].at \in {"loop", "uncount", "exited"} \/ WorkerUncount(c)
    BY <1>0, <1>3, WorkerExitDoes, WorkerPopDoes, WorkerUncountDoes, ControlAsks DEF WorkerStep, Goes
  <2>2. CASE ~WorkerUncount(c)
    BY <1>0, <2>1, <2>2, Places, OneGoes, Threads
  <2>3. CASE WorkerUncount(c) /\ c = Control
    <3>1. thread'[c].at \in Commands
      BY <1>0, <2>3, WorkerUncountDoes, ControlAsks DEF Commands, Starting, Closing
    <3> QED BY <1>0, <2>1, <2>3, <3>1, Places, OneGoes, Threads
  <2>4. CASE WorkerUncount(c) /\ c # Control
    <3>1. thread'[c].at = "serve"
      BY <1>0, <2>4, WorkerUncountDoes
    <3> QED BY <1>0, <2>1, <2>4, <3>1, Places, OneGoes, Threads
  <2> QED BY <2>2, <2>3, <2>4
<1>4. ASSUME NEW d \in Data, Serve(d) PROVE PlacesInv'
  <2>1. d \in Thread /\ Elsewhere(d) /\ thread'[d].at = "loop"
    BY <1>0, <1>4, ServeDoes, Threads DEF Rests
  <2> QED BY <1>0, <2>1, Places, OneGoes
<1>5. PICK e \in Channel : e = thread[Control].target
  BY <1>0, ThreadFields, Types, Threads
<1>6. CASE StartOpen \/ StartCreated
  <2>1. Elsewhere(Control) /\ thread'[Control].at \in Commands
    BY <1>0, <1>5, <1>6, StartOpenDoes, StartCreatedDoes DEF Goes, Commands, Starting
  <2> QED BY <1>0, <2>1, Places, OneGoes, Threads
<1>7. CASE StartCreate
  <2>1. At(Control, "create")
    BY <1>7 DEF StartCreate
  <2>2. e # Control /\ e \in Data
    BY <1>5, <2>1, TargetIsData DEF At, Commands, Starting
  <2>3. /\ \A u \in Thread : u # e /\ u # Control => thread'[u] = thread[u]
        /\ thread'[e].at = thread[e].at \/ thread'[e].at = "loop"
        /\ thread'[Control].at \in {"created", "failed"}
    BY <1>0, <1>5, <1>7, <2>2, StartCreateDoes, Threads DEF Goes, Elsewhere
  <2>4. thread'[Control].at \in Commands
    BY <2>3 DEF Commands, Starting
  <2>5. PlaceOf(e, thread'[e].at) /\ PlaceOf(Control, thread'[Control].at)
    BY <1>0, <2>2, <2>3, <2>4, Places, Threads DEF PlacesInv
  <2> QED BY <1>0, <2>3, <2>5 DEF PlacesInv
<1>8. CASE Trigger \/ StopTriggerFails \/ StopUnregistered \/ Respond
  <2>1. Elsewhere(Control) /\ thread'[Control].at \in {"loop"} \cup Commands
    BY <1>0, <1>8, CommandDoes DEF Goes, Rests, Commands
  <2> QED BY <1>0, <2>1, Places, OneGoes, Threads
<1>9. ASSUME NEW t \in Closers, CloseStep(t)
      PROVE  PlacesInv'
  <2>1. PICK d \in Channel : d = thread[t].target
    BY <1>0, ThreadFields, Types, Threads DEF Closers
  <2>2. t \in Thread
    BY Threads DEF Closers
  <2>3. CASE CloseMark(t) \/ CloseUnstart(t) \/ CloseEmpty(t)
    <3>1. Elsewhere(t) /\ thread'[t].at \in {"join", "unstart", "empty", Closed(t)}
      BY <1>0, <2>1, <2>3, CloseMarkDoes, CloseUnstartDoes, CloseEmptyDoes DEF Goes
    <3>2. PlaceOf(t, thread'[t].at)
      BY <3>1, Places, Threads DEF Closers, Closed, Closing, Commands
    <3> QED BY <1>0, <2>2, <3>1, <3>2, OneGoes
  <2>4. CASE CloseJoin(t)
    <3>1. /\ \A u \in Thread : u # d /\ u # t => thread'[u] = thread[u]
          /\ thread'[d].at = "none" /\ thread'[t].at = "unstart"
      BY <1>0, <2>1, <2>4, CloseJoinDoes
    <3>2. PlaceOf(t, thread'[t].at)
      BY <3>1, Places, Threads DEF Closers, Closing, Commands
    <3>3. PlaceOf(d, thread'[d].at)
      BY <3>1, Places, Threads
    <3> QED BY <1>0, <3>1, <3>2, <3>3 DEF PlacesInv
  <2> QED BY <1>9, <2>3, <2>4 DEF CloseStep
<1>10. CASE Deinit \/ DeinitNext
  <2>1. Elsewhere("main") /\ thread'["main"].at \in {"join rx", "stop", "done"}
    BY <1>0, <1>10, DeinitDoes, DeinitNextDoes DEF Goes
  <2> QED BY <1>0, <2>1, Places, OneGoes, Threads DEF Closing
<1>11. CASE DeinitJoin
  <2>1. /\ \A u \in Thread : u # "rx" /\ u # "main" => thread'[u] = thread[u]
        /\ thread'["rx"].at = "none" /\ thread'["main"].at = "next channel"
    BY <1>0, <1>11, DeinitJoinDoes
  <2> QED BY <1>0, <2>1, Places DEF PlacesInv
<1> QED BY <1>1, <1>2, <1>3, <1>4, <1>6, <1>7, <1>8, <1>9, <1>10, <1>11, Threads
        DEF Next, ControlStep, MainStep, Closers

(* Where each thread can be.                                               *)
LEMMA WhereAre ==
  ASSUME PlacesInv
  PROVE  /\ thread["rx"].at \in RxBusy \cup {"loop", "exited", "none"}
         /\ thread["main"].at \in {"none", "join rx", "next channel", "done"} \cup Closing
         /\ \A d \in Data : thread[d].at \in {"none", "loop", "uncount", "serve", "exited"}
         /\ thread[Control].at \in {"none", "loop", "uncount", "exited"} \cup Commands
BY Threads DEF PlacesInv, PlaceOf

LEMMA Naturals ==
  ASSUME TypeOK
  PROVE  /\ \A c \in Channel, i \in Slot : channel[c].queue[i] \in Nat
         /\ \A t \in Thread : thread[t].request \in Nat
         /\ \A k \in 1 .. Len(handled) : handled[k] \in Nat
         /\ \A k \in 1 .. Len(answered) : answered[k].request \in Nat
<1>1. \A n \in Request \cup {Nothing} : n \in Nat
  BY DEF Request, Nothing
<1>2. ASSUME NEW c \in Channel, NEW i \in Slot PROVE channel[c].queue[i] \in Nat
  <2>1. channel[c].queue \in [Slot -> Request \cup {Nothing}]
    BY Types, ChannelFields
  <2>2. channel[c].queue[i] \in Request \cup {Nothing}
    BY <2>1
  <2> QED BY <1>1, <2>2
<1>3. \A t \in Thread : thread[t].request \in Nat
  BY <1>1, Types, ThreadFields
<1>4. \A k \in 1 .. Len(handled) : handled[k] \in Nat
  BY <1>1, Numbers
<1>5. ASSUME NEW k \in 1 .. Len(answered) PROVE answered[k].request \in Nat
  <2>1. PICK a \in Reply : a = answered[k]
    <3>1. answered \in Seq(Reply)
      BY TypesAre DEF OtherTypes
    <3> QED BY <3>1
  <2>2. a.request \in Request \cup {Nothing}
    BY DEF Reply
  <2> QED BY <1>1, <2>1, <2>2
<1> QED BY <1>2, <1>3, <1>4, <1>5

(* The numbers of requests: all but two steps only move them on.           *)
NumbersMove ==
  /\ received' = received
  /\ \A c \in Channel, i \in Slot :
       channel'[c].queue[i] = channel[c].queue[i] \/ channel'[c].queue[i] = 0
  /\ \A t \in Thread :
       \/ thread'[t].request = thread[t].request \/ thread'[t].request = 0
       \/ t \in Channel /\ \E i \in Slot : thread'[t].request = channel[t].queue[i]
  /\ \A k \in 1 .. Len(handled') :
       \/ k <= Len(handled)
       \/ \E c \in Channel : handled'[k] = thread[c].request
       \/ /\ handled'[k] = thread["rx"].request
          /\ thread["rx"].at \in RxBusy /\ thread'["rx"].at \notin Early
  /\ \A k \in 1 .. Len(answered') :
       \/ k <= Len(answered)
       \/ \E t \in Thread : answered'[k].request = thread[t].request
  /\ thread'["rx"].at \in RxBusy =>
       thread["rx"].at \in RxBusy /\ thread'["rx"].request = thread["rx"].request
  /\ thread'["rx"].at \in Early => thread["rx"].at \in Early
  /\ thread'["rx"].at = "count" => thread["rx"].at = "count" /\ thread'["rx"].count = thread["rx"].count
  /\ \A c \in Channel : thread'[c].at = "uncount" => thread'[c].count > 0

LEMMA NumbersStay ==
  ASSUME Inv, Next, NumbersMove
  PROVE  NumbersInv'
<1>1. TypeOK /\ NumbersInv /\ TypeOK' /\ Typed
  BY TypeKept, Types DEF Inv
<1>2. received \in Nat /\ received <= Len(sent) /\ received' = received
  BY <1>1, Numbers DEF NumbersMove
<1>3. /\ \A n \in 1 .. received : sent'[n] = sent[n]
      /\ \A k \in 1 .. Len(handled) : handled'[k] = handled[k]
      /\ \A k \in 1 .. Len(answered) : answered'[k] = answered[k]
  BY <1>1, <1>2, Grown, Numbers DEF Grows
<1>4. /\ \A c \in Channel, i \in Slot : channel[c].queue[i] \in Nat
      /\ \A t \in Thread : thread[t].request \in Nat
      /\ Len(handled) \in Nat /\ Len(answered) \in Nat
  BY <1>1, Naturals, Numbers
<1>5. /\ Len(handled') \in Nat /\ Len(answered') \in Nat
      /\ \A k \in 1 .. Len(handled') : handled'[k] \in Nat
  <2>1. /\ handled' \in Seq(Request \cup {Nothing})
        /\ answered' \in Seq([request : Request \cup {Nothing}, ok : BOOLEAN])
    BY <1>1 DEF TypeOK
  <2> QED BY <2>1, LenProperties DEF Request, Nothing
<1>6. ASSUME NEW c \in Channel, NEW i \in Slot
      PROVE  /\ channel'[c].queue[i] <= received
             /\ channel'[c].queue[i] # 0 => sent'[channel'[c].queue[i]].channel = c
             /\ thread'["rx"].at \in Early => channel'[c].queue[i] < received
  BY <1>1, <1>2, <1>3, <1>4, <1>6 DEF NumbersInv, NumbersMove, RxBusy, Early
<1>7. ASSUME NEW t \in Thread
      PROVE  /\ thread'[t].request <= received
             /\ t \in Channel => /\ thread'[t].request # 0 => sent'[thread'[t].request].channel = t
                                 /\ thread'["rx"].at \in Early => thread'[t].request < received
  <2>1. CASE thread'[t].request = thread[t].request \/ thread'[t].request = 0
    BY <1>1, <1>2, <1>3, <1>4, <1>7, <2>1 DEF NumbersInv, NumbersMove, RxBusy, Early
  <2>2. CASE t \in Channel /\ \E i \in Slot : thread'[t].request = channel[t].queue[i]
    BY <1>1, <1>2, <1>3, <1>4, <1>7, <2>2 DEF NumbersInv, NumbersMove, RxBusy, Early
  <2> QED BY <2>1, <2>2 DEF NumbersMove
<1>8. ASSUME NEW k \in 1 .. Len(handled')
      PROVE  handled'[k] <= received /\ (thread'["rx"].at \in Early => handled'[k] < received)
  <2>1. CASE k <= Len(handled)
    BY <1>1, <1>2, <1>3, <1>4, <1>5, <1>8, <2>1 DEF NumbersInv, NumbersMove
  <2>2. CASE \E c \in Channel : handled'[k] = thread[c].request
    BY <1>1, <1>2, <1>4, <2>2, Threads DEF NumbersInv, NumbersMove
  <2>3. CASE handled'[k] = thread["rx"].request /\ thread'["rx"].at \notin Early
    BY <1>1, <1>2, <1>4, <2>3, Threads DEF NumbersInv
  <2> QED BY <1>8, <2>1, <2>2, <2>3 DEF NumbersMove
<1>9. ASSUME NEW k \in 1 .. Len(answered')
      PROVE  answered'[k].request <= received
  <2>1. CASE k <= Len(answered)
    BY <1>1, <1>2, <1>3, <1>4, <1>5, <1>9, <2>1 DEF NumbersInv
  <2>2. CASE \E t \in Thread : answered'[k].request = thread[t].request
    BY <1>1, <2>2 DEF NumbersInv
  <2> QED BY <1>9, <2>1, <2>2 DEF NumbersMove
<1>10. /\ thread'["rx"].at \in RxBusy => thread'["rx"].request = received /\ received # 0
       /\ thread'["rx"].at = "count" => thread'["rx"].count < QueueDepth
       /\ \A c \in Channel : thread'[c].at = "uncount" => thread'[c].count > 0
  BY <1>1 DEF NumbersInv, NumbersMove, At
<1> QED BY <1>2, <1>6, <1>7, <1>8, <1>9, <1>10, Threads DEF NumbersInv, At, PopIn

LEMMA NumbersKept ==
  ASSUME Inv, Next
  PROVE  NumbersInv'
<1>0. TypeOK /\ MannerInv /\ NumbersInv /\ Typed /\ PlacesInv /\ TypeOK'
  BY Types, TypeKept DEF Inv
<1>1. /\ \A k \in 1 .. Len(handled) : k <= Len(handled)
      /\ \A k \in 1 .. Len(answered) : k <= Len(answered)
      /\ Len(handled) \in Nat /\ Len(answered) \in Nat
  BY <1>0, Numbers
<1>2. \A c \in Channel : thread[c].at = "uncount" => thread[c].count > 0
  BY <1>0 DEF NumbersInv, PopIn, At
<1>3. ASSUME NEW n \in Request \cup {Nothing}, NEW ok \in BOOLEAN, Answers(n, ok)
      PROVE  \A k \in 1 .. Len(answered') : k <= Len(answered) \/ answered'[k].request = n
  <2>1. Len(answered') = Len(answered) + 1 /\ answered'[Len(answered) + 1].request = n
    BY <1>0, <1>3, AnswersGrow
  <2> QED BY <1>1, <2>1
<1>4. ASSUME NEW n \in Request \cup {Nothing}, handled' = Append(handled, n)
      PROVE  \A k \in 1 .. Len(handled') : k <= Len(handled) \/ handled'[k] = n
  <2>1. Len(handled') = Len(handled) + 1 /\ handled'[Len(handled) + 1] = n
    BY <1>0, <1>4, HandledGrow
  <2> QED BY <1>1, <2>1
<1>5. CASE HostStep
  BY <1>0, <1>1, <1>2, <1>5, HostDoes, NumbersStay DEF NumbersMove
<1>6. CASE RxReceive
  <2>1. /\ received' = received + 1 /\ received \in Nat
        /\ \A c \in Channel, i \in Slot : channel[c].queue[i] \in Nat
        /\ \A t \in Thread : thread[t].request \in Nat
        /\ \A k \in 1 .. Len(handled) : handled[k] \in Nat
        /\ \A k \in 1 .. Len(answered) : answered[k].request \in Nat
    BY <1>0, <1>6, RxReceiveDoes, Naturals, Numbers
  <2>2. /\ \A c \in Channel, i \in Slot : channel[c].queue[i] < received'
        /\ \A t \in Thread : thread[t].request < received'
        /\ \A k \in 1 .. Len(handled) : handled[k] < received'
        /\ \A k \in 1 .. Len(answered) : answered[k].request < received'
    BY <1>0, <2>1 DEF NumbersInv
  <2>3. /\ thread'["rx"].at = "dispatch" /\ thread'["rx"].request = received' /\ received' # 0
        /\ \A c \in Channel : thread'[c] = thread[c]
        /\ \A t \in Thread : t = "rx" \/ thread'[t] = thread[t]
        /\ UNCHANGED <<channel, sent, handled, answered>>
    BY <1>0, <1>6, <2>1, RxReceiveDoes, Threads DEF Elsewhere
  <2>4. received' <= received' /\ received' \in Nat
    BY <2>1
  <2>5. \A n \in Nat : n < received' => n <= received'
    BY <2>4
  <2> QED BY <1>0, <2>1, <2>2, <2>3, <2>4, <2>5, Threads DEF NumbersInv, At, PopIn, RxBusy, Early
<1>7. CASE RxExit
  <2>1. Elsewhere("rx") /\ thread'["rx"].at = "exited" /\ thread'["rx"].request = thread["rx"].request
        /\ UNCHANGED <<channel, received, handled, answered>>
    BY <1>0, <1>7, RxExitDoes DEF Goes, host
  <2>2. NumbersMove
    BY <1>1, <1>2, <2>1, Threads DEF NumbersMove, Elsewhere, RxBusy, Early
  <2> QED BY <2>2, NumbersStay
<1>8. CASE RxFindOpen
  <2>1. /\ Elsewhere("rx") /\ At("rx", "dispatch") /\ UNCHANGED <<channel, received, handled>>
        /\ \/ thread'["rx"].at = "started?" /\ thread'["rx"].request = thread["rx"].request
           \/ thread'["rx"].at = "loop" /\ thread'["rx"].request = 0
        /\ answered' = answered \/ Answers(thread["rx"].request, FALSE)
    BY <1>0, <1>8, RxFindOpenDoes DEF Goes, Rests, host
  <2>2. \A k \in 1 .. Len(answered') : k <= Len(answered) \/ answered'[k].request = thread["rx"].request
    BY <1>0, <1>1, <1>3, <2>1, ThreadFields, Threads
  <2>3. NumbersMove
    BY <1>1, <1>2, <2>1, <2>2, Threads DEF NumbersMove, Elsewhere, RxBusy, Early, At
  <2> QED BY <2>3, NumbersStay
<1>9. CASE RxFindThread
  <2>1. /\ Elsewhere("rx") /\ At("rx", "started?") /\ UNCHANGED <<channel, received, answered>>
        /\ thread'["rx"].request = thread["rx"].request
        /\ \/ thread'["rx"].at = "queue" /\ handled' = handled
           \/ thread'["rx"].at = "serve" /\ handled' = Append(handled, thread["rx"].request)
    BY <1>0, <1>9, RxFindThreadDoes DEF Goes, host
  <2>2. \A k \in 1 .. Len(handled') :
          \/ k <= Len(handled)
          \/ handled'[k] = thread["rx"].request /\ thread'["rx"].at = "serve"
    BY <1>0, <1>1, <1>4, <2>1, ThreadFields, Threads
  <2>3. NumbersMove
    BY <1>1, <1>2, <2>1, <2>2, Threads DEF NumbersMove, Elsewhere, RxBusy, Early, At
  <2> QED BY <2>3, NumbersStay
<1>10. CASE RxQueue
  <2>1. CASE Rests("rx", "loop") /\ channel' = channel
    <3>1. UNCHANGED <<received, handled, answered>>
      BY <1>0, <1>10, RxQueueDoes DEF host
    <3>2. NumbersMove
      BY <1>1, <1>2, <2>1, <3>1, Threads DEF NumbersMove, Elsewhere, RxBusy, Early, Rests
    <3> QED BY <3>2, NumbersStay
  <2>2. CASE ~(Rests("rx", "loop") /\ channel' = channel)
    <3>1. PICK c \in Channel : c = Target /\ thread["rx"].request = received
                               /\ sent[received].channel = c /\ received # 0
      BY <1>0, <1>10, RequestOf DEF RxQueue, At, RxBusy
    <3>2. /\ UNCHANGED <<sent, received, handled, answered>>
          /\ Elsewhere("rx") /\ thread'["rx"].at = "count" /\ thread'["rx"].request = received
          /\ thread'["rx"].count = channel[c].count /\ channel[c].count < QueueDepth
          /\ Apart(c) /\ channel'[c].queue = [channel[c].queue EXCEPT ![channel[c].tail] = received]
      BY <1>0, <1>10, <2>2, <3>1, RxQueueDoes DEF host
    <3>3. /\ \A i \in Slot : \/ channel'[c].queue[i] = channel[c].queue[i]
                             \/ channel'[c].queue[i] = received
          /\ \A e \in Channel : e # c => channel'[e] = channel[e]
          /\ \A t \in Thread : t # "rx" => thread'[t] = thread[t]
      BY <1>0, <3>2, ChannelFields DEF Apart, Elsewhere
    <3>4. received \in Nat
      BY <1>0, Numbers
    <3>5. \A e \in Channel, i \in Slot :
            /\ channel'[e].queue[i] <= received
            /\ channel'[e].queue[i] # 0 => sent[channel'[e].queue[i]].channel = e
      BY <1>0, <3>1, <3>3, <3>4 DEF NumbersInv
    <3>6. \A t \in Thread : thread'[t].request <= received
      BY <1>0, <3>2, <3>3, <3>4 DEF NumbersInv
    <3> QED BY <1>0, <3>1, <3>2, <3>3, <3>5, <3>6, Threads DEF NumbersInv, At, PopIn, RxBusy, Early
  <2> QED BY <2>1, <2>2
<1>11. CASE RxCount
  <2>1. PICK c \in Channel : c = Target
    BY <1>0, <1>11, RequestOf DEF RxCount, At, RxBusy
  <2>2. /\ UNCHANGED <<received, handled, answered>> /\ Rests("rx", "loop")
        /\ Apart(c) /\ channel'[c].queue = channel[c].queue
    BY <1>0, <1>11, <2>1, RxCountDoes DEF host
  <2>3. NumbersMove
    BY <1>1, <1>2, <2>2, Threads DEF NumbersMove, Elsewhere, RxBusy, Early, Rests, Apart
  <2> QED BY <2>3, NumbersStay
<1>12. ASSUME NEW t \in {"rx"} \cup Data, Serve(t) PROVE NumbersInv'
  <2>1. t \in Thread /\ UNCHANGED <<channel, received, handled>> /\ Rests(t, "loop")
    BY <1>0, <1>12, ServeDoes, Threads DEF host
  <2>2. \A k \in 1 .. Len(answered') : k <= Len(answered) \/ answered'[k].request = thread[t].request
    BY <1>0, <1>3, <1>12, <2>1, ServeDoes, ThreadFields
  <2>3. NumbersMove
    BY <1>1, <1>2, <2>1, <2>2, Threads DEF NumbersMove, Elsewhere, RxBusy, Early, Rests
  <2> QED BY <2>3, NumbersStay
<1>13. ASSUME NEW c \in Channel, WorkerExit(c) PROVE NumbersInv'
  <2>1. UNCHANGED <<channel, received, handled, answered>> /\ Goes(c, "exited")
    BY <1>0, <1>13, WorkerExitDoes DEF host
  <2>2. NumbersMove
    BY <1>1, <1>2, <2>1, Threads DEF NumbersMove, Elsewhere, Goes
  <2> QED BY <2>2, NumbersStay
<1>14. ASSUME NEW c \in Channel, WorkerPop(c) PROVE NumbersInv'
  <2>1. /\ UNCHANGED <<received, handled, answered>> /\ Elsewhere(c) /\ thread'[c].at = "uncount"
        /\ thread'[c].request = channel[c].queue[channel[c].head]
        /\ thread'[c].count = channel[c].count /\ channel[c].count > 0
        /\ Apart(c) /\ channel'[c].queue = channel[c].queue
    BY <1>0, <1>14, WorkerPopDoes DEF host
  <2>2. channel[c].head \in Slot
    BY <1>0, ChannelFields
  <2>3. NumbersMove
    BY <1>1, <1>2, <2>1, <2>2, Threads DEF NumbersMove, Elsewhere, Apart
  <2> QED BY <2>3, NumbersStay
<1>15. ASSUME NEW c \in Channel, WorkerUncount(c) PROVE NumbersInv'
  <2>1. /\ UNCHANGED <<received, answered>> /\ Elsewhere(c)
        /\ thread'[c].at # "uncount"
        /\ thread'[c].request = thread[c].request
        /\ handled' = Append(handled, thread[c].request)
        /\ Apart(c) /\ channel'[c].queue = channel[c].queue
    BY <1>0, <1>15, WorkerUncountDoes, ControlAsks DEF host
  <2>2. \A k \in 1 .. Len(handled') : k <= Len(handled) \/ handled'[k] = thread[c].request
    BY <1>0, <1>4, <2>1, ThreadFields, Threads
  <2>3. NumbersMove
    BY <1>1, <1>2, <2>1, <2>2, Threads DEF NumbersMove, Elsewhere, Apart
  <2> QED BY <2>3, NumbersStay
<1>16. PICK e \in Channel : e = thread[Control].target
  BY <1>0, ThreadFields, Threads
<1>17. CASE StartOpen
  <2>1. UNCHANGED <<received, handled, answered>> /\ Elsewhere(Control)
        /\ thread'[Control].request = thread[Control].request
        /\ thread'[Control].at # "uncount" /\ Apart(e)
    BY <1>0, <1>16, <1>17, StartOpenDoes DEF host, Goes
  <2>2. channel'[e].queue = channel[e].queue \/ \A i \in Slot : channel'[e].queue[i] = 0
    BY <1>0, <1>16, <1>17, StartOpenDoes, Newly DEF SameQueue
  <2>3. NumbersMove
    BY <1>1, <1>2, <2>1, <2>2, Threads DEF NumbersMove, Elsewhere, Apart
  <2> QED BY <2>3, NumbersStay
<1>18. CASE StartCreate
  <2>1. e # Control /\ e \in Data
    BY <1>16, <1>18, TargetIsData DEF StartCreate, At, Commands, Starting
  <2>2. UNCHANGED <<received, handled, answered>>
        /\ \A c \in Channel : channel'[c].queue = channel[c].queue
        /\ \A u \in Thread : u # e /\ u # Control => thread'[u] = thread[u]
        /\ thread'[Control].request = thread[Control].request /\ thread'[Control].at # "uncount"
        /\ \/ thread'[e] = thread[e]
           \/ thread'[e].request = 0 /\ thread'[e].at = "loop"
    BY <1>0, <1>16, <1>18, <2>1, StartCreateDoes, Threads DEF host, Goes, Elsewhere, Apart, SameQueue
  <2>3. NumbersMove
    BY <1>1, <1>2, <2>1, <2>2, Threads DEF NumbersMove
  <2> QED BY <2>3, NumbersStay
<1>19. CASE StartCreated
  <2>1. UNCHANGED <<received, handled, answered>> /\ Goes(Control, "trigger")
        /\ Apart(e) /\ channel'[e].queue = channel[e].queue
    BY <1>0, <1>16, <1>19, StartCreatedDoes DEF host, SameQueue
  <2>2. NumbersMove
    BY <1>1, <1>2, <2>1, Threads DEF NumbersMove, Elsewhere, Apart, Goes
  <2> QED BY <2>2, NumbersStay
<1>20. CASE Trigger \/ StopTriggerFails \/ StopUnregistered \/ Respond
  <2>1. /\ UNCHANGED <<channel, received, handled>> /\ Elsewhere(Control)
        /\ thread'[Control].at # "uncount"
        /\ thread'[Control].request = thread[Control].request \/ thread'[Control].request = 0
        /\ answered' = answered \/ Answers(thread[Control].request, At(Control, "done"))
    BY <1>0, <1>20, CommandDoes DEF host, Plain, Goes, Rests
  <2>2. At(Control, "done") \in BOOLEAN
    BY DEF At
  <2>3. \A k \in 1 .. Len(answered') : \/ k <= Len(answered)
                                       \/ answered'[k].request = thread[Control].request
    BY <1>0, <1>1, <1>3, <2>1, <2>2, ThreadFields, Threads
  <2>4. NumbersMove
    BY <1>1, <1>2, <2>1, <2>3, Threads DEF NumbersMove, Elsewhere
  <2> QED BY <2>4, NumbersStay
<1>21. ASSUME NEW t \in Closers, CloseMark(t) \/ CloseUnstart(t) \/ CloseEmpty(t)
       PROVE  NumbersInv'
  <2>1. PICK d \in Channel : d = thread[t].target
    BY <1>0, ThreadFields, Threads DEF Closers
  <2>2. UNCHANGED <<received, handled, answered>> /\ Elsewhere(t)
        /\ thread'[t].request = thread[t].request /\ thread'[t].at # "uncount"
        /\ Apart(d) /\ channel'[d].queue = channel[d].queue
    <3>1. CASE CloseMark(t)
      BY <1>0, <3>1, <2>1, CloseMarkDoes DEF host, Goes, SameQueue
    <3>2. CASE CloseUnstart(t)
      BY <1>0, <3>2, <2>1, CloseUnstartDoes DEF host, Goes, SameQueue
    <3>3. CASE CloseEmpty(t)
      BY <1>0, <3>3, <2>1, CloseEmptyDoes DEF host, Goes, Closed
    <3> QED BY <1>21, <3>1, <3>2, <3>3
  <2>3. NumbersMove
    BY <1>1, <1>2, <2>2, Threads DEF NumbersMove, Elsewhere, Apart, Closers
  <2> QED BY <2>3, NumbersStay
<1>22. ASSUME NEW t \in Closers, CloseJoin(t) PROVE NumbersInv'
  <2>1. PICK d \in Channel : d = thread[t].target
    BY <1>0, ThreadFields, Threads DEF Closers
  <2>2. UNCHANGED <<channel, received, handled, answered>>
        /\ \A u \in Thread : u # d /\ u # t => thread'[u] = thread[u]
        /\ thread'[d].request = 0 /\ thread'[d].at = "none"
        /\ thread'[t].request = thread[t].request /\ thread'[t].at = "unstart"
    BY <1>0, <1>22, <2>1, CloseJoinDoes DEF host
  <2>3. NumbersMove
    BY <1>1, <1>2, <2>2, Threads DEF NumbersMove, Closers
  <2> QED BY <2>3, NumbersStay
<1>23. CASE Deinit \/ DeinitJoin \/ DeinitNext
  <2>1. UNCHANGED <<channel, received, handled, answered>>
        /\ \A u \in Thread : u # "rx" /\ u # "main" => thread'[u] = thread[u]
        /\ thread'["main"].request = thread["main"].request
        /\ \/ thread'["rx"] = thread["rx"]
           \/ thread'["rx"].request = 0 /\ thread'["rx"].at = "none"
    BY <1>0, <1>23, DeinitDoes, DeinitJoinDoes, DeinitNextDoes, Threads DEF host, Goes, Elsewhere, Main
  <2>2. NumbersMove
    BY <1>1, <1>2, <2>1, Threads DEF NumbersMove, RxBusy, Early
  <2> QED BY <2>2, NumbersStay
<1> QED BY <1>5, <1>6, <1>7, <1>8, <1>9, <1>10, <1>11, <1>12, <1>13, <1>14, <1>15, <1>17, <1>18,
           <1>19, <1>20, <1>21, <1>22, <1>23, Steps

(* While the control worker lives, the tear down has come to no other      *)
(* channel than its own; while "rx" lives, the control worker does.        *)
LEMMA MainBehind ==
  ASSUME Inv, Alive(Control)
  PROVE  /\ Main.at # "done"
         /\ Main.at = "next channel" => Main.next = 1
         /\ Main.at \in Closing => Main.next = 2 /\ Main.target = Control
<1>1. MainInv /\ Main.next \in Nat \ {0} /\ Main.at # "done"
  BY ThreadFields, Types, Threads DEF Inv, MainInv, Main, Dead
<1>2. PICK k \in Nat : k = Len(order)
  BY LenProperties DEF Inv, TypeOK
<1>3. k >= 1 /\ order[1] = Control /\ ~Dead(Control)
  BY <1>1, <1>2 DEF MainInv, Dead
<1>4. PICK i \in Nat : i = Main.next /\ i >= 1
  BY <1>1
<1>5. Main.at = "next channel" => i = 1
  <2>1. SUFFICES ASSUME Main.at = "next channel" PROVE i = 1
    OBVIOUS
  <2>2. Passed(i)
    BY <1>1, <1>4, <2>1 DEF MainInv
  <2>3. 1 \in 1 .. Len(order)
    BY <1>2, <1>3
  <2>4. ~(1 < i)
    BY <1>3, <2>2, <2>3 DEF Passed
  <2> QED BY <1>4, <2>4
<1>6. Main.at \in Closing => i = 2
  <2>1. SUFFICES ASSUME Main.at \in Closing PROVE i = 2
    OBVIOUS
  <2>2. i \in 2 .. k + 1
    BY <1>1, <1>2, <1>4, <2>1 DEF MainInv
  <2>3. Passed(i - 1)
    BY <1>1, <1>4, <2>1 DEF MainInv
  <2>4. ~(1 < i - 1)
    BY <1>2, <1>3, <2>3 DEF Passed
  <2> QED BY <1>4, <2>2, <2>4
<1>7. Main.at \in Closing => Main.target = Control
  <2>1. SUFFICES ASSUME Main.at \in Closing PROVE Main.target = Control
    OBVIOUS
  <2>2. Main.target = order[i - 1]
    BY <1>1, <1>4, <2>1 DEF MainInv
  <2>3. i - 1 = 1
    BY <1>6, <2>1
  <2> QED BY <1>3, <2>2, <2>3
<1> QED BY <1>1, <1>4, <1>5, <1>6, <1>7

LEMMA CommandLives ==
  ASSUME Inv, thread[Control].at \in Commands \cup {"uncount"}
  PROVE  /\ Alive(Control)
         /\ Main.at \in Closing => Main.target = Control
         /\ Main.at # "done"
<1>1. Alive(Control)
  BY DEF Alive, At, Commands, Starting, Closing
<1> QED BY <1>1, MainBehind

LEMMA RxLives ==
  ASSUME Inv, ~At("rx", "none")
  PROVE  Main.at \in {"none", "join rx"} /\ Alive(Control)
BY DEF Inv, MainInv

(* What the control worker has done stays done.                            *)
LEMMA ControlStay ==
  ASSUME Inv, Next,
         thread'[Control].at \in Commands =>
           /\ thread[Control].at = thread'[Control].at
           /\ thread[Control].request = thread'[Control].request
           /\ thread[Control].target = thread'[Control].target
           /\ \A d \in Data :
                /\ channel'[d].registered = channel[d].registered
                /\ channel'[d].stop = channel[d].stop
                /\ channel'[d].started = channel[d].started
                /\ thread'[d].at = "none" <=> thread[d].at = "none"
  PROVE  ControlInv'
<1>1. SUFFICES ASSUME thread'[Control].at \in Commands PROVE ControlInv'
  BY DEF ControlInv
<1>2. ControlInv /\ TypeOK
  BY DEF Inv
<1>3. /\ thread[Control].request \in 1 .. Len(sent) /\ thread[Control].target \in Data
      /\ thread[Control].at \in Commands
  BY <1>1, TargetIsData
<1>4. Command' = Command
  BY <1>1, <1>3, Grown DEF Command, Grows
<1>5. \E k \in 1 .. Len(handled') : handled'[k] = thread[Control].request
  <2>1. PICK k \in 1 .. Len(handled) : handled[k] = thread[Control].request
    BY <1>2, <1>3 DEF ControlInv
  <2>2. Len(handled) \in Nat /\ Len(handled') \in Nat
    BY <1>2, TypeKept, Numbers, LenProperties DEF TypeOK
  <2> QED BY <2>1, <2>2, Grown DEF Grows
<1>6. PICK d \in Data : d = thread[Control].target
  BY <1>3
<1> QED BY <1>1, <1>2, <1>3, <1>4, <1>5, <1>6 DEF ControlInv, Stream, Alive, At

LEMMA ControlKept ==
  ASSUME Inv, Next
  PROVE  ControlInv'
<1>0. TypeOK /\ MannerInv /\ NumbersInv /\ Typed /\ ControlInv /\ PlacesInv
  BY Types DEF Inv
<1> USE Threads
<1>1. CASE HostStep
  BY <1>0, <1>1, HostDoes, ControlStay
<1>2. CASE RxStep
  <2>1. thread'[Control] = thread[Control] /\ \A d \in Data : thread'[d] = thread[d]
    <3>1. CASE Serve("rx")
      BY <1>0, <3>1, ServeDoes DEF Rests, Elsewhere
    <3> QED BY <1>0, <1>2, <3>1, RxReceiveDoes, RxExitDoes, RxFindOpenDoes, RxFindThreadDoes,
               RxQueueDoes, RxCountDoes DEF RxStep, Goes, Rests, Elsewhere
  <2>2. \A d \in Data : /\ channel'[d].registered = channel[d].registered
                        /\ channel'[d].stop = channel[d].stop
                        /\ channel'[d].started = channel[d].started
    <3>1. CASE RxQueue
      BY <1>0, <3>1, RxQueueDoes DEF Apart, SameFlags
    <3>2. CASE RxCount
      BY <1>0, <3>2, RxCountDoes DEF Apart, SameFlags
    <3>3. CASE Serve("rx")
      BY <1>0, <3>3, ServeDoes
    <3> QED BY <1>0, <1>2, <3>1, <3>2, <3>3, RxReceiveDoes, RxExitDoes, RxFindOpenDoes,
               RxFindThreadDoes DEF RxStep
  <2> QED BY <2>1, <2>2, ControlStay
<1>3. ASSUME NEW d \in Data, Serve(d) PROVE ControlInv'
  <2>1. UNCHANGED channel /\ At(d, "serve") /\ thread'[d].at = "loop" /\ Elsewhere(d)
    BY <1>0, <1>3, ServeDoes DEF Rests
  <2> QED BY <2>1, ControlStay DEF Elsewhere, At
<1>4. ASSUME NEW c \in Channel, WorkerExit(c) PROVE ControlInv'
  <2>1. UNCHANGED channel /\ At(c, "loop") /\ thread'[c].at = "exited" /\ Elsewhere(c)
    BY <1>0, <1>4, WorkerExitDoes DEF Goes
  <2> QED BY <2>1, ControlStay DEF Elsewhere, At, Commands, Starting, Closing
<1>5. ASSUME NEW c \in Channel, WorkerPop(c) PROVE ControlInv'
  <2>1. /\ Apart(c) /\ SameFlags(c)
        /\ At(c, "loop") /\ thread'[c].at = "uncount" /\ Elsewhere(c)
    BY <1>0, <1>5, WorkerPopDoes
  <2> QED BY <2>1, ControlStay DEF Elsewhere, At, Apart, SameFlags, Commands, Starting, Closing
<1>6. ASSUME NEW c \in Channel, WorkerUncount(c), c # Control PROVE ControlInv'
  <2>1. /\ Apart(c) /\ SameFlags(c)
        /\ At(c, "uncount") /\ thread'[c].at = "serve" /\ Elsewhere(c)
    BY <1>0, <1>6, WorkerUncountDoes
  <2> QED BY <1>6, <2>1, ControlStay DEF Elsewhere, At, Apart, SameFlags
<1>7. CASE WorkerUncount(Control)
  <2>1. thread[Control].request # 0
    BY <1>7, ControlAsks
  <2>2. /\ UNCHANGED sent
        /\ handled' = Append(handled, thread[Control].request)
        /\ thread'[Control].request = thread[Control].request
        /\ thread'[Control].at = IF Command.command = "start" THEN "start" ELSE "stop"
        /\ thread'[Control].target = Command.target
    BY <1>0, <1>7, <2>1, WorkerUncountDoes DEF host
  <2>3. handled'[Len(handled) + 1] = thread[Control].request
        /\ Len(handled) + 1 \in 1 .. Len(handled')
    BY <1>0, <2>2, HandledGrow, ThreadFields, Numbers
  <2>4. Command' = Command
    BY <2>2 DEF Command
  <2> QED BY <2>1, <2>2, <2>3, <2>4 DEF ControlInv, At, Starting, Closing
<1>8. CASE thread[Control].at \in Commands /\ ControlStep
  <2>1. PICK d \in Data : d = thread[Control].target /\ d # Control
    BY <1>8, TargetIsData
  <2>2. /\ thread[Control].request # 0 /\ thread[Control].target = Command.target
        /\ \E k \in 1 .. Len(handled') : handled'[k] = thread[Control].request
        /\ sent' = sent => Command = sent'[thread[Control].request]
    <3>1. PICK k \in 1 .. Len(handled) : handled[k] = thread[Control].request
      BY <1>0, <1>8 DEF ControlInv
    <3>2. Len(handled) \in Nat /\ Len(handled') \in Nat
      BY <1>0, TypeKept, Numbers, LenProperties DEF TypeOK
    <3> QED BY <1>0, <1>8, <3>1, <3>2, Grown DEF ControlInv, Grows, Command
  <2>3. CASE StartOpen
    <3>1. /\ At(Control, "start") /\ UNCHANGED sent
          /\ thread'[Control].request = thread[Control].request
          /\ thread'[Control].target = d /\ thread'[d] = thread[d]
          /\ IF channel[d].started THEN thread'[Control].at = "trigger"
             ELSE thread'[Control].at = "create"
          /\ channel'[d].registered = TRUE /\ channel'[d].stop = FALSE
          /\ channel'[d].started = channel[d].started
      <4>1. channel[d].registered \/ channel[d] = Unregistered
        BY DEF Inv, WorkersInv, WorkerOf
      <4>2. /\ At(Control, "start") /\ UNCHANGED sent
            /\ channel'[d].registered = TRUE /\ channel'[d].stop = FALSE
            /\ channel'[d].started = channel[d].started
        BY <1>0, <2>1, <2>3, <4>1, StartOpenDoes, Newly, ChannelFields DEF host
      <4>3. IF channel[d].started THEN Goes(Control, "trigger") ELSE Goes(Control, "create")
        BY <1>0, <2>1, <2>3, StartOpenDoes
      <4>4. CASE channel[d].started
        BY <2>1, <4>2, <4>3, <4>4 DEF Goes, Elsewhere
      <4>5. CASE ~channel[d].started
        BY <2>1, <4>2, <4>3, <4>5 DEF Goes, Elsewhere
      <4> QED BY <4>4, <4>5
    <3>2. ~channel[d].started => ~Alive(d)
      BY <3>1 DEF Inv, WorkersInv, WorkerOf, At
    <3>3. Command.command = "start"
      BY <1>0, <3>1 DEF ControlInv, At, Commands, Starting
    <3>4. CASE channel[d].started
      <4>1. thread'[Control].at = "trigger" /\ thread'[Control].target = d /\ channel'[d].started
        BY <3>1, <3>4
      <4>2. Command' = Command /\ thread'[Control].request = thread[Control].request
        BY <3>1 DEF Command
      <4> QED BY <2>1, <2>2, <3>3, <4>1, <4>2 DEF ControlInv, Stream, At, Starting, Closing
    <3>5. CASE ~channel[d].started
      <4>1. /\ thread'[Control].at = "create" /\ thread'[Control].target = d
            /\ channel'[d].registered /\ ~channel'[d].stop /\ ~channel'[d].started
            /\ thread'[d].at = "none"
        BY <3>1, <3>2, <3>5 DEF Alive, At
      <4>2. Command' = Command /\ thread'[Control].request = thread[Control].request
        BY <3>1 DEF Command
      <4> QED BY <2>1, <2>2, <3>3, <4>1, <4>2 DEF ControlInv, Stream, At, Alive, Starting, Closing
    <3> QED BY <3>4, <3>5
  <2>4. CASE StartCreate
    <3>1. At(Control, "create") /\ UNCHANGED sent
          /\ thread'[Control].request = thread[Control].request
          /\ thread'[Control].target = d
          /\ \/ thread'[Control].at = "failed"
             \/ /\ thread'[Control].at = "created" /\ thread'[d].at = "loop" /\ channel' = channel
      BY <1>0, <2>1, <2>4, StartCreateDoes DEF Goes, host
    <3>2. Command.command = "start" /\ channel[d].registered /\ ~channel[d].stop /\ ~channel[d].started
      BY <1>0, <2>1, <3>1 DEF ControlInv, At, Commands, Starting, Stream
    <3> QED BY <2>1, <2>2, <3>1, <3>2 DEF ControlInv, Command, Stream, At, Alive, Starting, Closing
  <2>5. CASE StartCreated
    <3>1. At(Control, "created") /\ UNCHANGED sent
          /\ thread'[Control].request = thread[Control].request
          /\ thread'[Control].target = d /\ thread'[Control].at = "trigger"
          /\ channel'[d].started = TRUE
      BY <1>0, <2>1, <2>5, StartCreatedDoes DEF Goes, host
    <3>2. Command.command = "start"
      BY <1>0, <2>1, <3>1 DEF ControlInv, At, Commands, Starting, Stream
    <3> QED BY <2>1, <2>2, <3>1, <3>2 DEF ControlInv, Command, Stream, At, Alive, Starting, Closing
  <2>6. CASE Trigger \/ StopTriggerFails \/ StopUnregistered \/ Respond
    <3>1. CASE Rests(Control, "loop")
      BY <3>1 DEF ControlInv, Rests, Commands, Starting, Closing
    <3>2. CASE ~Rests(Control, "loop")
      <4>1. UNCHANGED <<sent, channel>>
            /\ (At(Control, "trigger") \/ At(Control, "stop"))
            /\ thread'[Control].at \in {"done", "failed"}
            /\ thread'[Control].request = thread[Control].request
            /\ thread'[Control].target = d
        BY <1>0, <2>1, <2>6, <3>2, CommandDoes DEF Goes, Plain, host
      <4>2. At(Control, "trigger") => channel[d].started
        BY <1>0, <2>1 DEF ControlInv, Stream, At, Commands, Starting
      <4>3. At(Control, "stop") => Command.command # "start"
        BY <1>0 DEF ControlInv, At, Commands, Closing
      <4> QED BY <2>1, <2>2, <4>1, <4>2, <4>3 DEF ControlInv, Command, Stream, At, Starting, Closing
    <3> QED BY <3>1, <3>2
  <2>7. CASE CloseStep(Control)
    <3>1. /\ thread[Control].at \in Closing /\ UNCHANGED sent
          /\ thread'[Control].request = thread[Control].request
          /\ thread'[Control].target = d
          /\ thread'[Control].at \in {"join", "unstart", "empty", "done"}
      <4>1. CASE CloseMark(Control)
        BY <1>0, <2>1, <4>1, CloseMarkDoes DEF Goes, host, Closing, At, Closers
      <4>2. CASE CloseJoin(Control)
        BY <1>0, <2>1, <4>2, CloseJoinDoes DEF host, Closing, At, Closers
      <4>3. CASE CloseUnstart(Control)
        BY <1>0, <2>1, <4>3, CloseUnstartDoes DEF Goes, host, Closing, At, Closers
      <4>4. CASE CloseEmpty(Control)
        BY <1>0, <2>1, <4>4, CloseEmptyDoes DEF Goes, host, Closing, At, Closers, Closed
      <4> QED BY <2>7, <4>1, <4>2, <4>3, <4>4 DEF CloseStep
    <3>2. Command.command # "start"
      BY <1>0, <3>1 DEF ControlInv, Commands
    <3> QED BY <2>1, <2>2, <3>1, <3>2 DEF ControlInv, Command, Stream, At, Starting, Closing
  <2>8. CASE WorkerStep(Control)
    BY <1>8, <2>8 DEF WorkerStep, WorkerExit, WorkerPop, WorkerUncount, At, Commands, Starting, Closing
  <2> QED BY <1>8, <2>3, <2>4, <2>5, <2>6, <2>7, <2>8 DEF ControlStep
<1>9. CASE CloseStep("main")
  <2>1. PICK d \in Channel : d = Main.target
    BY <1>0, ThreadFields DEF Main
  <2>2. "main" \in Closers /\ Main.at \in Closing
    BY <1>9 DEF Closers, CloseStep, CloseMark, CloseJoin, CloseUnstart, CloseEmpty, At, Closing, Main
  <2>3. CASE thread[Control].at \notin Commands
    <3>1. thread'[Control].at = thread[Control].at \/ thread'[Control].at = "none"
      <4>1. CASE CloseJoin("main")
        BY <1>0, <2>1, <2>2, <4>1, CloseJoinDoes DEF Main
      <4>2. CASE ~CloseJoin("main")
        <5>1. Elsewhere("main")
          BY <1>0, <1>9, <2>1, <2>2, <4>2, CloseMarkDoes, CloseUnstartDoes, CloseEmptyDoes
             DEF CloseStep, Goes, Main
        <5> QED BY <5>1 DEF Elsewhere
      <4> QED BY <4>1, <4>2
    <3> QED BY <2>3, <3>1, ControlStay DEF Commands, Starting, Closing
  <2>4. CASE thread[Control].at \in Commands
    <3>1. d = Control
      BY <2>1, <2>2, <2>4, CommandLives
    <3>2. ~CloseJoin("main")
      <4>1. SUFFICES ASSUME CloseJoin("main") PROVE FALSE
        OBVIOUS
      <4>2. At(d, "exited")
        BY <1>0, <2>1, <2>2, <4>1, CloseJoinDoes DEF Main
      <4> QED BY <2>4, <3>1, <4>2 DEF At, Commands, Starting, Closing
    <3>3. Elsewhere("main") /\ Apart(Control)
      <4>1. CASE CloseMark("main")
        BY <1>0, <2>1, <2>2, <3>1, <4>1, CloseMarkDoes DEF Goes, Main
      <4>2. CASE CloseUnstart("main")
        BY <1>0, <2>1, <2>2, <3>1, <4>2, CloseUnstartDoes DEF Goes, Main
      <4>3. CASE CloseEmpty("main")
        BY <1>0, <2>1, <2>2, <3>1, <4>3, CloseEmptyDoes DEF Goes, Main
      <4> QED BY <1>9, <3>2, <4>1, <4>2, <4>3 DEF CloseStep
    <3> QED BY <3>3, ControlStay DEF Elsewhere, Apart
  <2> QED BY <2>3, <2>4
<1>10. CASE Deinit \/ DeinitJoin \/ DeinitNext
  <2>1. channel' = channel /\ \A u \in Thread : u # "rx" /\ u # "main" => thread'[u] = thread[u]
    BY <1>0, <1>10, DeinitDoes, DeinitJoinDoes, DeinitNextDoes DEF Goes, Elsewhere
  <2> QED BY <2>1, ControlStay
<1>11. ControlStep => WorkerStep(Control) \/ thread[Control].at \in Commands
  BY DEF ControlStep, StartOpen, StartCreate, StartCreated, Trigger, StopTriggerFails,
     StopUnregistered, CloseStep, CloseMark, CloseJoin, CloseUnstart, CloseEmpty, Respond, At,
     Commands, Starting, Closing
<1> QED BY <1>1, <1>2, <1>3, <1>4, <1>5, <1>6, <1>7, <1>8, <1>9, <1>10, <1>11
        DEF Next, WorkerStep, MainStep

(* A step that changes no flag, and neither the life of a worker nor where *)
(* a channel is being closed.                                              *)
ClosersStay ==
  /\ \A t \in Closers :
       /\ thread[t].at = "unstart" =>
            thread'[t].at = "unstart" /\ thread'[t].target = thread[t].target
       /\ thread'[t].at \in {"join", "unstart", "empty"} =>
            thread[t].at = thread'[t].at /\ thread'[t].target = thread[t].target
  /\ thread[Control].at = "created" =>
       thread'[Control].at = "created" /\ thread'[Control].target = thread[Control].target

LEMMA WorkersStay ==
  ASSUME Inv, Typed', ClosersStay, \A c \in Channel : SameFlags(c),
         \A c \in Channel : channel[c].registered \/ channel'[c] = channel[c],
         \A c \in Channel : thread'[c].at = "none" <=> thread[c].at = "none"
  PROVE  WorkersInv'
<1>0. WorkersInv /\ Typed
  BY Types DEF Inv
<1>1. ASSUME NEW c \in Channel PROVE WorkerOf(c)'
  <2>1. WorkerOf(c)
    BY <1>0 DEF WorkersInv
  <2>2. /\ channel'[c].registered = channel[c].registered /\ channel'[c].open = channel[c].open
        /\ channel'[c].stop = channel[c].stop /\ channel'[c].started = channel[c].started
        /\ (Alive(c)' <=> Alive(c))
    BY <1>1 DEF SameFlags, Alive, At
  <2>3. channel'[c].started /\ ~Alive(c)' => \E t \in Closers : At(t, "unstart")' /\ thread'[t].target = c
    BY <2>1, <2>2 DEF WorkerOf, ClosersStay, At
  <2>4. Alive(c)' /\ ~channel'[c].started => At(Control, "created")' /\ thread'[Control].target = c
    BY <2>1, <2>2 DEF WorkerOf, ClosersStay, At
  <2>5. ~channel'[c].registered => channel'[c] = Unregistered
    BY <1>1, <2>1, <2>2 DEF WorkerOf
  <2> QED BY <2>1, <2>2, <2>3, <2>4, <2>5 DEF WorkerOf
<1>2. ASSUME NEW t \in Closers PROVE CloserOf(t)'
  <2>1. CASE thread'[t].at \notin {"join", "unstart", "empty"}
    BY <2>1 DEF CloserOf, At
  <2>2. CASE thread'[t].at \in {"join", "unstart", "empty"}
    <3>1. PICK d \in Channel : d = thread[t].target
      BY <1>0, ThreadFields, Threads DEF Closers
    <3>2. thread[t].at = thread'[t].at /\ thread'[t].target = d
      BY <2>2, <3>1 DEF ClosersStay
    <3>3. /\ channel'[d].registered = channel[d].registered /\ channel'[d].mutex = channel[d].mutex
          /\ (Alive(d)' <=> Alive(d))
      BY DEF SameFlags, Alive, At
    <3> QED BY <1>0, <3>1, <3>2, <3>3 DEF WorkersInv, CloserOf, At
  <2> QED BY <2>1, <2>2
<1>3. channel'[Control].registered /\ (Alive(Control)' => channel'[Control].mutex)
  BY <1>0, Threads DEF WorkersInv, SameFlags, Alive, At
<1> QED BY <1>1, <1>2, <1>3 DEF WorkersInv

(* The target of "rx" is registered.                                       *)
LEMMA TargetRegistered ==
  ASSUME Inv, thread["rx"].at \in RxBusy
  PROVE  channel[Target].registered
<1>1. TypeOK /\ NumbersInv /\ StreamsInv
  BY DEF Inv
<1>2. PICK n \in 1 .. Len(sent) : n = received /\ Target = sent[n].channel /\ sent[n] \in Message
  BY <1>1, RequestOf
<1>3. CASE sent[n].command = "data"
  BY <1>1, <1>2, <1>3 DEF StreamsInv, HasStarted
<1>4. CASE sent[n].command # "data"
  BY <1>1, <1>2, <1>4 DEF Inv, StreamsInv, WorkersInv
<1> QED BY <1>3, <1>4

LEMMA SameAll ==
  ASSUME Typed, NEW c \in Channel, Apart(c), SameFlags(c)
  PROVE  \A e \in Channel : SameFlags(e)
BY DEF Apart, SameFlags

(* Closing a channel ends its worker.                                      *)
LEMMA CloseKeepsWorkers ==
  ASSUME Inv, Next, NEW t \in Closers, CloseMark(t) \/ CloseJoin(t) \/ CloseUnstart(t)
  PROVE  WorkersInv'
<1>0. /\ TypeOK /\ Typed /\ WorkersInv /\ ControlInv /\ \A c \in Channel : WorkerOf(c)
      /\ \A u \in Closers : CloserOf(u)
  BY Types DEF Inv, WorkersInv
<1>1. PICK d \in Channel : d = thread[t].target
  BY <1>0, ThreadFields, Threads DEF Closers
<1>2. t \in Thread /\ (t = Control \/ t = "main") /\ thread[t].at \in Closing
  BY Threads DEF Closers, CloseMark, CloseJoin, CloseUnstart, At, Closing
<1>3. ~(At(Control, "created") /\ thread[Control].target = d)
  <2>1. SUFFICES ASSUME At(Control, "created"), thread[Control].target = d PROVE FALSE
    OBVIOUS
  <2>2. t = "main" /\ d # Control
    BY <1>2, <2>1, TargetIsData DEF At, Commands, Starting, Closing
  <2>3. Main.target = Control
    BY <1>2, <2>1, <2>2, CommandLives DEF At, Commands, Starting, Main
  <2> QED BY <1>1, <2>2, <2>3 DEF Main
<1>4. CASE CloseMark(t)
  <2>1. /\ At(t, "stop") /\ channel[d].registered /\ Elsewhere(t)
        /\ thread'[t].at = IF channel[d].started THEN "join" ELSE "unstart"
        /\ thread'[t].target = d /\ Apart(d)
        /\ channel'[d].registered = channel[d].registered
        /\ channel'[d].open = FALSE
        /\ channel'[d].started = channel[d].started
        /\ channel'[d].mutex = channel[d].mutex
    <3>1. CASE channel[d].started
      BY <1>0, <1>1, <1>4, <3>1, CloseMarkDoes DEF Goes
    <3>2. CASE ~channel[d].started
      BY <1>0, <1>1, <1>4, <3>2, CloseMarkDoes DEF Goes
    <3> QED BY <3>1, <3>2
  <2>2. ASSUME NEW c \in Channel PROVE Alive(c)' <=> Alive(c)
    <3>1. CASE c = t
      <4>1. thread[t].at # "none" /\ thread'[t].at # "none"
        BY <2>1 DEF At
      <4> QED BY <3>1, <4>1 DEF Alive, At
    <3>2. CASE c # t
      BY <2>1, <3>2, Threads DEF Alive, At, Elsewhere
    <3> QED BY <3>1, <3>2
  <2>3. ASSUME NEW c \in Channel PROVE WorkerOf(c)'
    <3>1. /\ channel'[c].registered = channel[c].registered
          /\ channel'[c].started = channel[c].started
          /\ channel'[c].open = FALSE \/ channel'[c] = channel[c]
          /\ channel[c].registered \/ channel'[c] = channel[c]
      BY <2>1 DEF Apart
    <3>2. channel[c].started /\ ~Alive(c) =>
            \E u \in Closers : At(u, "unstart")' /\ thread'[u].target = c
      <4>1. SUFFICES ASSUME channel[c].started, ~Alive(c)
                     PROVE  \E u \in Closers : At(u, "unstart")' /\ thread'[u].target = c
        OBVIOUS
      <4>2. PICK u \in Closers : At(u, "unstart") /\ thread[u].target = c
        BY <1>0, <4>1 DEF WorkerOf
      <4>3. u # t /\ u \in Thread
        BY <2>1, <4>2, Threads DEF At, Closers
      <4> QED BY <2>1, <4>2, <4>3 DEF Elsewhere, At
    <3>3. Alive(c) /\ ~channel[c].started => At(Control, "created")' /\ thread'[Control].target = c
      <4>1. At(Control, "created") => t # Control
        BY <2>1 DEF At
      <4> QED BY <1>0, <2>1, <4>1, Threads DEF WorkerOf, Elsewhere, At
    <3>4. WorkerOf(c)
      BY <1>0
    <3> QED BY <2>2, <3>1, <3>2, <3>3, <3>4 DEF WorkerOf
  <2>4. ASSUME NEW u \in Closers PROVE CloserOf(u)'
    <3>1. CASE u = t
      <4>1. ~channel[d].started => ~Alive(d)
        BY <1>0, <1>3 DEF WorkerOf
      <4>2. thread'[t].at = "unstart" => ~Alive(d)'
        BY <2>1, <2>2, <4>1
      <4> QED BY <2>1, <3>1, <4>2 DEF CloserOf, At
    <3>2. CASE u # t
      <4>1. PICK e \in Channel : e = thread[u].target
        BY <1>0, ThreadFields, Threads DEF Closers
      <4>2. /\ thread'[u] = thread[u] /\ channel'[e].mutex = channel[e].mutex
            /\ channel'[e].registered = channel[e].registered
        BY <2>1, <3>2, <4>1, Threads DEF Elsewhere, Apart, Closers
      <4> QED BY <1>0, <2>2, <4>1, <4>2 DEF CloserOf, At
    <3> QED BY <3>1, <3>2
  <2>5. channel'[Control].registered /\ (Alive(Control) => channel'[Control].mutex)
    BY <1>0, <2>1, Threads DEF WorkersInv, Apart
  <2> QED BY <2>2, <2>3, <2>4, <2>5, Threads DEF WorkersInv
<1>5. CASE CloseJoin(t)
  <2>1. /\ channel' = channel /\ At(t, "join") /\ At(d, "exited") /\ d # t
        /\ \A u \in Thread : u # d /\ u # t => thread'[u] = thread[u]
        /\ thread'[d].at = "none" /\ thread'[t].at = "unstart" /\ thread'[t].target = d
    BY <1>0, <1>1, <1>5, CloseJoinDoes
  <2>2. \A c \in Channel : Alive(c)' => Alive(c) /\ c # d
    BY <2>1, Threads DEF Alive, At
  <2>3. \A c \in Channel : c # d => (Alive(c)' <=> Alive(c))
    BY <1>2, <2>1, Threads DEF Alive, At
  <2>4. ASSUME NEW c \in Channel PROVE WorkerOf(c)'
    <3>1. CASE c = d
      BY <1>0, <2>1, <2>2, <3>1 DEF WorkerOf, At
    <3>2. CASE c # d
      <4>1. channel[c].started /\ ~Alive(c) =>
              \E u \in Closers : At(u, "unstart")' /\ thread'[u].target = c
        <5>1. SUFFICES ASSUME channel[c].started, ~Alive(c)
                       PROVE  \E u \in Closers : At(u, "unstart")' /\ thread'[u].target = c
          OBVIOUS
        <5>2. PICK u \in Closers : At(u, "unstart") /\ thread[u].target = c
          BY <1>0, <5>1 DEF WorkerOf
        <5>3. u # t /\ u # d /\ u \in Thread
          BY <2>1, <5>2, Threads DEF At, Closers
        <5> QED BY <2>1, <5>2, <5>3 DEF At
      <4>2. Alive(c) /\ ~channel[c].started => At(Control, "created")' /\ thread'[Control].target = c
        <5>1. At(Control, "created") => Control # t /\ Control # d
          BY <2>1 DEF At
        <5> QED BY <1>0, <2>1, <5>1, Threads DEF WorkerOf, At
      <4>3. WorkerOf(c)
        BY <1>0
      <4> QED BY <2>1, <2>3, <3>2, <4>1, <4>2, <4>3 DEF WorkerOf
    <3> QED BY <3>1, <3>2
  <2>5. ASSUME NEW u \in Closers PROVE CloserOf(u)'
    <3>1. CASE u = t
      BY <1>0, <1>1, <2>1, <2>2, <3>1 DEF CloserOf, At
    <3>2. CASE u = d
      BY <2>1, <3>2 DEF CloserOf, At
    <3>3. CASE u # t /\ u # d
      <4>1. PICK e \in Channel : e = thread[u].target
        BY <1>0, ThreadFields, Threads DEF Closers
      <4>2. thread'[u] = thread[u]
        BY <2>1, <3>3, Threads DEF Closers
      <4> QED BY <1>0, <2>1, <2>2, <4>1, <4>2 DEF CloserOf, At
    <3> QED BY <3>1, <3>2, <3>3
  <2>6. channel'[Control].registered /\ (Alive(Control)' => channel'[Control].mutex)
    BY <1>0, <2>1, <2>2, Threads DEF WorkersInv
  <2> QED BY <2>4, <2>5, <2>6 DEF WorkersInv
<1>6. CASE CloseUnstart(t)
  <2>1. /\ At(t, "unstart") /\ Elsewhere(t) /\ thread'[t].at = "empty" /\ thread'[t].target = d
        /\ Apart(d)
        /\ channel'[d].registered = channel[d].registered
        /\ channel'[d].open = channel[d].open /\ channel'[d].stop = channel[d].stop
        /\ channel'[d].started = FALSE /\ channel'[d].mutex = FALSE
    BY <1>0, <1>1, <1>6, CloseUnstartDoes DEF Goes
  <2>2. ASSUME NEW c \in Channel PROVE Alive(c)' <=> Alive(c)
    <3>1. CASE c = t
      <4>1. thread[t].at # "none" /\ thread'[t].at # "none"
        BY <2>1 DEF At
      <4> QED BY <3>1, <4>1 DEF Alive, At
    <3>2. CASE c # t
      BY <2>1, <3>2, Threads DEF Alive, At, Elsewhere
    <3> QED BY <3>1, <3>2
  <2>3. ~Alive(d) /\ channel[d].registered
    BY <1>0, <1>1, <2>1 DEF CloserOf, At
  <2>4. ASSUME NEW c \in Channel PROVE WorkerOf(c)'
    <3>1. CASE c = d
      BY <1>0, <2>1, <2>2, <2>3, <3>1 DEF WorkerOf
    <3>2. CASE c # d
      <4>1. channel[c].started /\ ~Alive(c) =>
              \E u \in Closers : At(u, "unstart")' /\ thread'[u].target = c
        <5>1. SUFFICES ASSUME channel[c].started, ~Alive(c)
                       PROVE  \E u \in Closers : At(u, "unstart")' /\ thread'[u].target = c
          OBVIOUS
        <5>2. PICK u \in Closers : At(u, "unstart") /\ thread[u].target = c
          BY <1>0, <5>1 DEF WorkerOf
        <5>3. u # t /\ u \in Thread
          BY <1>1, <3>2, <5>2, Threads DEF Closers
        <5> QED BY <2>1, <5>2, <5>3 DEF At, Elsewhere
      <4>2. Alive(c) /\ ~channel[c].started => At(Control, "created")' /\ thread'[Control].target = c
        <5>1. At(Control, "created") => Control # t
          BY <2>1 DEF At
        <5> QED BY <1>0, <2>1, <5>1, Threads DEF WorkerOf, At, Elsewhere
      <4>3. WorkerOf(c) /\ channel'[c] = channel[c]
        BY <1>0, <2>1, <3>2 DEF Apart
      <4> QED BY <2>2, <4>1, <4>2, <4>3 DEF WorkerOf
    <3> QED BY <3>1, <3>2
  <2>5. ASSUME NEW u \in Closers PROVE CloserOf(u)'
    <3>1. CASE u = t
      BY <2>1, <2>2, <2>3, <3>1 DEF CloserOf, At
    <3>2. CASE u # t
      <4>1. PICK e \in Channel : e = thread[u].target
        BY <1>0, ThreadFields, Threads DEF Closers
      <4>2. /\ thread'[u] = thread[u]
            /\ channel'[e].mutex = FALSE \/ channel'[e].mutex = channel[e].mutex
            /\ channel'[e].registered = channel[e].registered
        BY <2>1, <3>2, <4>1, Threads DEF Elsewhere, Apart, Closers
      <4> QED BY <1>0, <2>2, <4>1, <4>2 DEF CloserOf, At
    <3> QED BY <3>1, <3>2
  <2>6. channel'[Control].registered /\ (Alive(Control) => channel'[Control].mutex)
    BY <1>0, <2>1, <2>3, Threads DEF WorkersInv, Apart
  <2> QED BY <2>2, <2>4, <2>5, <2>6, Threads DEF WorkersInv
<1> QED BY <1>4, <1>5, <1>6

LEMMA WorkersKept ==
  ASSUME Inv, Next
  PROVE  WorkersInv'
<1>0. /\ TypeOK /\ MannerInv /\ NumbersInv /\ Typed /\ PlacesInv /\ WorkersInv /\ ControlInv
      /\ Typed'
  <2>1. TypeOK'
    BY TypeKept
  <2> QED BY <2>1, Types DEF Inv, TypeOK, Typed, ThreadState, ChannelState, RxBusy, Commands,
                             Starting, Closing
<1>1. (\A c \in Channel : channel'[c] = channel[c]) => \A c \in Channel : SameFlags(c)
  BY DEF SameFlags
<1>2. Control \in Closers /\ "main" \in Closers /\ "rx" \notin Closers
      /\ \A d \in Data : d \notin Closers
  BY Threads DEF Closers
<1>3. CASE HostStep
  <2>1. thread' = thread /\ channel' = channel
    BY <1>0, <1>3, HostDoes
  <2>2. ClosersStay
    BY <2>1 DEF ClosersStay
  <2> QED BY <1>0, <1>1, <2>1, <2>2, WorkersStay
<1>4. CASE RxStep
  <2>1. Elsewhere("rx")
    <3>1. CASE Serve("rx")
      BY <1>0, <3>1, ServeDoes, Threads DEF Rests
    <3> QED BY <1>0, <1>4, <3>1, RxReceiveDoes, RxExitDoes, RxFindOpenDoes, RxFindThreadDoes,
               RxQueueDoes, RxCountDoes DEF RxStep, Goes, Rests
  <2>2. ClosersStay /\ \A c \in Channel : thread'[c].at = "none" <=> thread[c].at = "none"
    BY <1>2, <2>1, Threads DEF ClosersStay, Elsewhere, Closers
  <2>3. CASE channel' = channel
    BY <1>0, <1>1, <2>2, <2>3, WorkersStay
  <2>4. CASE channel' # channel
    <3>1. RxQueue \/ RxCount
      <4>1. CASE Serve("rx")
        BY <1>0, <2>4, <4>1, ServeDoes, Threads
      <4> QED BY <1>0, <1>4, <2>4, <4>1, RxReceiveDoes, RxExitDoes, RxFindOpenDoes,
                 RxFindThreadDoes DEF RxStep
    <3>2. PICK c \in Channel : c = Target /\ channel[c].registered
      BY <1>0, <3>1, RequestOf, TargetRegistered DEF RxQueue, RxCount, At, RxBusy
    <3>3. Apart(c) /\ SameFlags(c)
      BY <1>0, <2>4, <3>1, <3>2, RxQueueDoes, RxCountDoes
    <3>4. \A e \in Channel : channel[e].registered \/ channel'[e] = channel[e]
      BY <3>2, <3>3 DEF Apart
    <3>5. \A e \in Channel : SameFlags(e)
      BY <1>0, <3>3, SameAll
    <3> QED BY <1>0, <2>2, <3>4, <3>5, WorkersStay
  <2> QED BY <2>3, <2>4
<1>5. ASSUME NEW d \in Data, Serve(d) PROVE WorkersInv'
  <2>1. /\ UNCHANGED channel /\ At(d, "serve") /\ thread'[d].at = "loop" /\ Elsewhere(d)
    BY <1>0, <1>5, ServeDoes, Threads DEF Rests
  <2>2. /\ ClosersStay
        /\ \A c \in Channel : thread'[c].at = "none" <=> thread[c].at = "none"
    BY <1>2, <2>1, Threads DEF ClosersStay, Elsewhere, Closers, At
  <2> QED BY <1>0, <1>1, <2>1, <2>2, WorkersStay
<1>6. ASSUME NEW c \in Channel, WorkerExit(c) \/ WorkerPop(c) PROVE WorkersInv'
  <2>1. /\ At(c, "loop") /\ thread'[c].at \in {"exited", "uncount"} /\ Elsewhere(c)
        /\ \/ channel' = channel
           \/ Apart(c) /\ SameFlags(c)
    BY <1>0, <1>6, WorkerExitDoes, WorkerPopDoes DEF Goes
  <2>2. /\ ClosersStay
        /\ \A e \in Channel : thread'[e].at = "none" <=> thread[e].at = "none"
    BY <1>2, <2>1, Threads DEF ClosersStay, Elsewhere, Closers, At
  <2>3. channel[c].registered
    BY <1>0, <2>1 DEF WorkersInv, WorkerOf, Alive, At
  <2>4. \A e \in Channel : SameFlags(e)
    BY <1>0, <1>1, <2>1, SameAll
  <2>5. \A e \in Channel : channel[e].registered \/ channel'[e] = channel[e]
    BY <2>1, <2>3 DEF Apart
  <2> QED BY <1>0, <2>2, <2>4, <2>5, WorkersStay
<1>7. ASSUME NEW c \in Channel, WorkerUncount(c) PROVE WorkersInv'
  <2>1. /\ At(c, "uncount") /\ thread'[c].at \in {"start", "stop", "serve"} /\ Elsewhere(c)
        /\ Apart(c) /\ SameFlags(c)
    BY <1>0, <1>7, WorkerUncountDoes, ControlAsks
  <2>2. /\ ClosersStay
        /\ \A e \in Channel : thread'[e].at = "none" <=> thread[e].at = "none"
    BY <1>2, <2>1, Threads DEF ClosersStay, Elsewhere, Closers, At
  <2>3. channel[c].registered
    BY <1>0, <2>1 DEF WorkersInv, WorkerOf, Alive, At
  <2>4. \A e \in Channel : SameFlags(e)
    BY <1>0, <1>1, <2>1, SameAll
  <2>5. \A e \in Channel : channel[e].registered \/ channel'[e] = channel[e]
    BY <2>1, <2>3 DEF Apart
  <2> QED BY <1>0, <2>2, <2>4, <2>5, WorkersStay
<1>8. CASE Trigger \/ StopTriggerFails \/ StopUnregistered \/ Respond
  <2>1. /\ channel' = channel /\ Elsewhere(Control)
        /\ thread[Control].at \in {"trigger", "stop", "done", "failed"}
        /\ thread'[Control].at \in {"done", "failed", "loop"}
    BY <1>0, <1>8, CommandDoes DEF Plain, Goes, Rests, At
  <2>2. /\ ClosersStay
        /\ \A e \in Channel : thread'[e].at = "none" <=> thread[e].at = "none"
    BY <1>2, <2>1, Threads DEF ClosersStay, Elsewhere, Closers
  <2> QED BY <1>0, <1>1, <2>1, <2>2, WorkersStay
<1>9. CASE Deinit \/ DeinitJoin \/ DeinitNext
  <2>1. /\ channel' = channel
        /\ \A u \in Thread : u # "rx" /\ u # "main" => thread'[u] = thread[u]
        /\ thread["main"].at \in {"none", "join rx", "next channel"}
        /\ thread'["main"].at \in {"join rx", "next channel", "stop", "done"}
    BY <1>0, <1>9, DeinitDoes, DeinitJoinDoes, DeinitNextDoes DEF Goes, Elsewhere, At
  <2>2. /\ ClosersStay
        /\ \A e \in Channel : thread'[e].at = "none" <=> thread[e].at = "none"
    BY <1>2, <2>1, Threads DEF ClosersStay, Closers
  <2> QED BY <1>0, <1>1, <2>1, <2>2, WorkersStay
<1>10. CASE \E t \in Closers : CloseEmpty(t)
  <2>1. PICK t \in Closers : CloseEmpty(t)
    BY <1>10
  <2>2. PICK d \in Channel : d = thread[t].target
    BY <1>0, ThreadFields, Threads DEF Closers
  <2>3. /\ At(t, "empty") /\ thread'[t].at \in {"done", "next channel"} /\ Elsewhere(t)
        /\ Apart(d) /\ SameFlags(d)
    BY <1>0, <2>1, <2>2, CloseEmptyDoes DEF Goes, Closed
  <2>4. channel[d].registered
    BY <1>0, <2>1, <2>2, <2>3 DEF WorkersInv, CloserOf, At
  <2>5. /\ ClosersStay
        /\ \A e \in Channel : thread'[e].at = "none" <=> thread[e].at = "none"
    BY <1>2, <2>3, Threads DEF ClosersStay, Elsewhere, Closers, At
  <2>6. \A e \in Channel : SameFlags(e)
    BY <1>0, <2>3, SameAll
  <2>7. \A e \in Channel : channel[e].registered \/ channel'[e] = channel[e]
    BY <2>3, <2>4 DEF Apart
  <2> QED BY <1>0, <2>5, <2>6, <2>7, WorkersStay
<1>11. CASE thread[Control].at \in Starting /\ (StartOpen \/ StartCreate \/ StartCreated)
  <2>1. PICK d \in Data : /\ d = thread[Control].target /\ d # Control /\ d \in Channel
                          /\ (Main.at \in Closing => Main.target = Control) /\ Alive(Control)
    BY <1>11, TargetIsData, CommandLives, Threads DEF Commands
  <2>2. /\ Apart(d) /\ \A u \in Thread : u # d /\ u # Control => thread'[u] = thread[u]
        /\ thread'[Control].at \in {"trigger", "create", "created", "failed"}
        /\ thread'[Control].target = d
    <3>1. CASE StartOpen
      BY <1>0, <2>1, <3>1, StartOpenDoes DEF Goes, Elsewhere
    <3>2. CASE StartCreate
      BY <1>0, <2>1, <3>2, StartCreateDoes DEF Goes, Elsewhere, Apart
    <3>3. CASE StartCreated
      BY <1>0, <2>1, <3>3, StartCreatedDoes DEF Goes, Elsewhere
    <3> QED BY <1>11, <3>1, <3>2, <3>3
  <2>3. /\ WorkerOf(d) /\ Alive(Control)'
        /\ \A t \in Closers : At(t, "unstart") => t = "main" /\ thread[t].target = Control
    BY <1>0, <1>11, <2>1, <2>2 DEF WorkersInv, Closers, Alive, At, Starting, Main, Closing
  <2>4. At(Control, "created")' => WorkerOf(d)'
    <3>1. SUFFICES ASSUME At(Control, "created")' PROVE WorkerOf(d)'
      OBVIOUS
    <3>2. StartCreate
      BY <1>0, <1>11, <2>1, <3>1, StartOpenDoes, StartCreatedDoes DEF At, Goes
    <3>3. channel' = channel /\ thread'[d].at = "loop" /\ At(Control, "create")
      BY <1>0, <2>1, <3>1, <3>2, StartCreateDoes DEF At, Goes
    <3>4. channel[d].registered
      BY <1>0, <2>1, <3>3 DEF ControlInv, At, Commands, Starting, Stream
    <3> QED BY <2>1, <2>2, <2>3, <3>1, <3>3, <3>4 DEF WorkerOf, Alive, At
  <2>5. ~At(Control, "created")' => WorkerOf(d)'
    <3>1. CASE StartOpen
      <4>1. /\ At(Control, "start") /\ thread'[d] = thread[d]
            /\ channel'[d].registered = TRUE /\ channel'[d].stop = FALSE
            /\ channel'[d].started = channel[d].started
        <5>1. channel[d].registered \/ channel[d] = Unregistered
          BY <2>3 DEF WorkerOf
        <5>2. Elsewhere(Control)
          BY <1>0, <2>1, <3>1, StartOpenDoes DEF Goes
        <5>3. thread'[d] = thread[d]
          BY <2>1, <5>2, Threads DEF Elsewhere
        <5>5. CASE channel[d].registered
          BY <1>0, <2>1, <3>1, <5>3, <5>5, StartOpenDoes
        <5>6. CASE ~channel[d].registered
          <6>1. channel[d].started = FALSE
            BY <1>0, <2>1, <5>1, <5>6, Newly, ChannelFields
          <6> QED BY <1>0, <2>1, <3>1, <5>3, <5>6, <6>1, StartOpenDoes, Newly
        <5> QED BY <5>5, <5>6
      <4>2. ~(channel[d].started /\ ~Alive(d)) /\ ~(Alive(d) /\ ~channel[d].started)
        BY <2>1, <2>3, <4>1 DEF WorkerOf, At
      <4> QED BY <4>1, <4>2 DEF WorkerOf, Alive, At
    <3>2. CASE StartCreate
      <4>1. SUFFICES ASSUME ~At(Control, "created")' PROVE WorkerOf(d)'
        OBVIOUS
      <4>2. /\ At(Control, "create") /\ thread'[d] = thread[d] /\ SameQueue(d)
            /\ channel'[d].registered = channel[d].registered
            /\ channel'[d].open = FALSE
            /\ channel'[d].started = channel[d].started
        <5>1. Goes(Control, "failed")
          BY <1>0, <2>1, <3>2, <4>1, StartCreateDoes DEF At
        <5>2. thread'[d] = thread[d] /\ thread'[Control].at # "created"
          BY <2>1, <5>1, Threads DEF Goes, Elsewhere
        <5> QED BY <1>0, <2>1, <3>2, <4>1, <5>2, StartCreateDoes DEF At
      <4>3. channel[d].registered /\ ~channel[d].started /\ ~Alive(d)
        BY <1>0, <2>1, <4>2 DEF ControlInv, At, Commands, Starting, Stream
      <4> QED BY <4>2, <4>3 DEF WorkerOf, Alive, At
    <3>3. CASE StartCreated
      <4>1. /\ At(Control, "created") /\ thread'[d] = thread[d]
            /\ channel'[d].registered = channel[d].registered
            /\ channel'[d].open = channel[d].open /\ channel'[d].stop = channel[d].stop
            /\ channel'[d].started = TRUE
        <5>1. Goes(Control, "trigger")
          BY <1>0, <2>1, <3>3, StartCreatedDoes
        <5>2. thread'[d] = thread[d]
          BY <2>1, <5>1, Threads DEF Goes, Elsewhere
        <5> QED BY <1>0, <2>1, <3>3, <5>2, StartCreatedDoes
      <4>2. channel[d].registered /\ ~channel[d].stop /\ Alive(d)
        BY <1>0, <2>1, <4>1 DEF ControlInv, At, Commands, Starting, Stream
      <4> QED BY <4>1, <4>2 DEF WorkerOf, Alive, At
    <3> QED BY <1>11, <3>1, <3>2, <3>3
  <2>6. ASSUME NEW c \in Channel, c # d PROVE WorkerOf(c)'
    <3>1. channel'[c] = channel[c] /\ (Alive(c)' <=> Alive(c)) /\ WorkerOf(c)
      BY <1>0, <1>11, <2>1, <2>2, <2>3, <2>6, Threads DEF Apart, Alive, At, WorkersInv
    <3>2. ~(Alive(c) /\ ~channel[c].started)
      BY <2>1, <2>6, <3>1 DEF WorkerOf
    <3>3. channel[c].started /\ ~Alive(c) =>
            \E t \in Closers : At(t, "unstart")' /\ thread'[t].target = c
      BY <2>1, <2>2, <2>3, <3>1, Threads DEF WorkerOf, At
    <3> QED BY <3>1, <3>2, <3>3 DEF WorkerOf
  <2>7. ASSUME NEW t \in Closers PROVE CloserOf(t)'
    <3>1. CASE t = Control
      BY <2>2, <3>1 DEF CloserOf, At
    <3>2. CASE t = "main"
      <4>1. thread'["main"] = thread["main"] /\ channel'[Control] = channel[Control]
            /\ (Alive(Control)' <=> Alive(Control))
        BY <2>1, <2>2, <2>3, Threads DEF Apart
      <4>2. CloserOf("main")
        BY <1>0, <1>2 DEF WorkersInv
      <4> QED BY <2>1, <3>2, <4>1, <4>2 DEF CloserOf, At, Main, Closing
    <3> QED BY <3>1, <3>2 DEF Closers
  <2>8. channel'[Control] = channel[Control]
    BY <2>1, <2>2, Threads DEF Apart
  <2>9. WorkerOf(d)'
    BY <2>4, <2>5
  <2> QED BY <1>0, <2>1, <2>6, <2>7, <2>8, <2>9 DEF WorkersInv
<1>12. (StartOpen \/ StartCreate \/ StartCreated) => thread[Control].at \in Starting
  BY DEF StartOpen, StartCreate, StartCreated, At, Starting
<1>13. ASSUME NEW t \in Closers, CloseMark(t) \/ CloseJoin(t) \/ CloseUnstart(t)
       PROVE  WorkersInv'
  BY <1>13, CloseKeepsWorkers
<1> QED BY <1>3, <1>4, <1>5, <1>6, <1>7, <1>8, <1>9, <1>10, <1>11, <1>12, <1>13, Threads
        DEF Next, ControlStep, MainStep, CloseStep, WorkerStep, Closers

LEMMA OrderIs ==
  ASSUME TypeOK
  PROVE  /\ order \in Seq(Channel) /\ Len(order) \in Nat
         /\ \A j \in 1 .. Len(order) : order[j] \in Channel
         /\ Grows(order, order)
<1>1. order \in Seq(Channel)
  BY DEF TypeOK
<1> QED BY <1>1, LenProperties DEF Grows

(* The tear down sees nothing of a step that opens, starts and creates     *)
(* nothing.                                                                *)
LEMMA MainStay ==
  ASSUME Inv, order' = order, thread'["main"] = thread["main"],
         thread'["rx"].at = "none" <=> thread["rx"].at = "none",
         thread'[Control].at = "none" => thread[Control].at = "none",
         \A c \in Channel : thread[c].at = "none" => thread'[c].at = "none",
         \A c \in Channel : channel'[c].registered => channel[c].registered,
         \A c \in Channel : channel'[c].open => channel[c].open,
         \A c \in Channel : channel'[c].started => channel[c].started
  PROVE  MainInv'
<1>1. MainInv /\ Typed /\ TypeOK
  BY Types DEF Inv
<1>2. Main' = Main /\ \A c \in Channel : Dead(c) => Dead(c)'
  BY DEF Main, Dead, Alive, At
<1>3. \A n \in Nat : Passed(n) => Passed(n)'
  <2>1. \A j \in 1 .. Len(order) : order[j] \in Channel
    BY <1>1, OrderIs
  <2> QED BY <1>2, <2>1 DEF Passed
<1>4. PICK n \in Nat : n = Main.next /\ n >= 1
  BY <1>1, ThreadFields, Threads DEF Main
<1>5. Main.target \in Channel
  BY <1>1, ThreadFields, Threads DEF Main
<1>6. /\ Main.at = "next channel" => Passed(n)'
      /\ Main.at \in Closing => Passed(n - 1)'
  <2>1. n - 1 \in Nat
    BY <1>4
  <2> QED BY <1>1, <1>3, <1>4, <2>1 DEF MainInv
<1>7. /\ (At("rx", "none")' <=> At("rx", "none"))
      /\ ~Alive(Control)' => ~Alive(Control)
  BY DEF At, Alive
<1>8. /\ Main.at \in Closing \ {"stop"} => ~channel'[Main.target].open
      /\ Main.at = "empty" => ~channel'[Main.target].started
      /\ Main.at = "done" => \A c \in Channel : Dead(c)'
  BY <1>1, <1>2, <1>5 DEF MainInv
<1>9. Main.at # "done" =>
        /\ Len(order) >= 1 /\ order[1] = Control
        /\ \A c \in Channel : channel'[c].registered => \E i \in 1 .. Len(order) : order[i] = c
  BY <1>1 DEF MainInv
<1> QED BY <1>1, <1>2, <1>4, <1>6, <1>7, <1>8, <1>9 DEF MainInv

(* Nor of what the control worker opens and starts: while it lives, the    *)
(* tear down has not come to a stream.                                     *)
LEMMA MainApart ==
  ASSUME Inv, Alive(Control), Alive(Control)', thread'["main"] = thread["main"],
         thread'["rx"] = thread["rx"], channel'[Control] = channel[Control],
         order' \in Seq(Channel), Grows(order, order'),
         \A c \in Channel : channel'[c].registered =>
           channel[c].registered \/ \E i \in 1 .. Len(order') : order'[i] = c
  PROVE  MainInv'
<1>1. MainInv /\ Typed /\ TypeOK
  BY Types DEF Inv
<1>2. /\ Main.at # "done"
      /\ Main.at = "next channel" => Main.next = 1
      /\ Main.at \in Closing => Main.next = 2 /\ Main.target = Control
  BY MainBehind
<1>3. Main' = Main /\ (At("rx", "none")' <=> At("rx", "none"))
  BY DEF Main, At
<1>4. PICK k \in Nat, l \in Nat : k = Len(order) /\ l = Len(order') /\ k <= l /\ k >= 1
  <2>1. Len(order) \in Nat /\ Len(order') \in Nat
    BY <1>1, OrderIs, LenProperties
  <2>2. Len(order) <= Len(order') /\ Len(order) >= 1
    BY <1>1, <1>2 DEF Grows, MainInv
  <2> QED BY <2>1, <2>2
<1>5. order'[1] = Control
  <2>1. 1 \in 1 .. Len(order)
    BY <1>4
  <2>2. order[1] = Control
    BY <1>1, <1>2 DEF MainInv
  <2> QED BY <2>1, <2>2 DEF Grows
<1>6. \A c \in Channel : channel'[c].registered => \E i \in 1 .. Len(order') : order'[i] = c
  <2>1. SUFFICES ASSUME NEW c \in Channel, channel'[c].registered
                 PROVE  \E i \in 1 .. Len(order') : order'[i] = c
    OBVIOUS
  <2>2. CASE channel[c].registered
    <3>1. PICK i \in 1 .. Len(order) : order[i] = c
      BY <1>1, <1>2, <2>2 DEF MainInv
    <3>2. i \in 1 .. Len(order') /\ order'[i] = c
      BY <1>4, <3>1 DEF Grows
    <3> QED BY <3>2
  <2> QED BY <2>1, <2>2
<1>7. Passed(1)'
  <2>1. \A j \in 1 .. Len(order') : ~(j < 1)
    BY <1>4
  <2> QED BY <2>1 DEF Passed
<1>8. 2 \in 2 .. Len(order') + 1 /\ Len(order') >= 1
  BY <1>4
<1>9. Main.at = "next channel" => Passed(Main.next)'
  BY <1>2, <1>3, <1>7
<1>10. Main.at \in Closing => Passed(Main.next - 1)' /\ Main.target = order'[Main.next - 1]
  <2>1. 2 - 1 = 1
    OBVIOUS
  <2> QED BY <1>2, <1>3, <1>5, <1>7, <2>1
<1>11. /\ Main.at \in Closing \ {"stop"} => ~channel'[Main.target].open
       /\ Main.at = "empty" => ~channel'[Main.target].started
  <2>1. Main.at = "empty" => Main.at \in Closing
    BY DEF Closing
  <2> QED BY <1>1, <1>2, <2>1 DEF MainInv
<1> QED BY <1>1, <1>2, <1>3, <1>5, <1>6, <1>8, <1>9, <1>10, <1>11 DEF MainInv

(* The tear down closes the channel it has come to.                        *)
LEMMA MainCloses ==
  ASSUME Inv, Next, CloseStep("main")
  PROVE  MainInv'
<1>0. /\ TypeOK /\ Typed /\ MainInv /\ WorkersInv /\ "main" \in Closers /\ CloserOf("main")
  BY Types DEF Inv, WorkersInv, Closers
<1>1. PICK d \in Channel : d = Main.target
  BY <1>0, ThreadFields, Threads DEF Main
<1>2. PICK n \in Nat : n = Main.next /\ n >= 1
  BY <1>0, ThreadFields, Threads DEF Main
<1>3. Main.at \in Closing
  BY DEF CloseStep, CloseMark, CloseJoin, CloseUnstart, CloseEmpty, At, Main, Closing
<1>4. /\ At("rx", "none") /\ Len(order) >= 1 /\ order[1] = Control
      /\ \A c \in Channel : channel[c].registered => \E i \in 1 .. Len(order) : order[i] = c
      /\ n \in 2 .. Len(order) + 1 /\ d = order[n - 1] /\ Passed(n - 1)
  BY <1>0, <1>1, <1>2, <1>3 DEF MainInv, Closing
<1>5. PICK k \in Nat : k = Len(order)
  BY <1>0, OrderIs
<1>6. /\ order' = order /\ Main'.next = n /\ Main'.target = d
      /\ thread'["rx"] = thread["rx"]
      /\ \A c \in Channel : channel'[c].registered = channel[c].registered
      /\ \A c \in Channel : c # d => channel'[c] = channel[c]
      /\ \A c \in Channel : c # d => thread'[c] = thread[c]
  <2>1. CASE CloseMark("main")
    <3>1. Goes("main", "join") \/ Goes("main", "unstart")
      BY <1>0, <1>1, <2>1, CloseMarkDoes DEF Main
    <3>2. /\ Main'.next = n /\ Main'.target = d /\ thread'["rx"] = thread["rx"]
          /\ \A c \in Channel : thread'[c] = thread[c]
      BY <1>1, <1>2, <3>1, Threads DEF Goes, Elsewhere, Main
    <3> QED BY <1>0, <1>1, <2>1, <3>2, CloseMarkDoes DEF Apart, Main
  <2>2. CASE CloseJoin("main")
    BY <1>0, <1>1, <1>2, <2>2, CloseJoinDoes, Threads DEF Main
  <2>3. CASE CloseUnstart("main")
    <3>1. Goes("main", "empty")
      BY <1>0, <1>1, <2>3, CloseUnstartDoes DEF Main
    <3>2. /\ Main'.next = n /\ Main'.target = d /\ thread'["rx"] = thread["rx"]
          /\ \A c \in Channel : thread'[c] = thread[c]
      BY <1>1, <1>2, <3>1, Threads DEF Goes, Elsewhere, Main
    <3> QED BY <1>0, <1>1, <2>3, <3>2, CloseUnstartDoes DEF Apart, Main
  <2>4. CASE CloseEmpty("main")
    BY <1>0, <1>1, <1>2, <2>4, CloseEmptyDoes, Threads DEF Goes, Elsewhere, Apart, SameFlags, Main
  <2> QED BY <2>1, <2>2, <2>3, <2>4 DEF CloseStep
<1>7. /\ Main'.at \in {"join", "unstart", "empty", "next channel"}
      /\ channel'[d].open => channel[d].open
      /\ channel'[d].started => channel[d].started
      /\ thread[d].at = "none" => thread'[d].at = "none"
      /\ Main'.at \in Closing \ {"stop"} => ~channel'[d].open
      /\ Main'.at = "empty" => ~channel'[d].started
      /\ Main'.at = "next channel" => Dead(d)'
  <2>1. CASE CloseMark("main")
    <3>1. Goes("main", "join") \/ Goes("main", "unstart")
      BY <1>0, <1>1, <2>1, CloseMarkDoes DEF Main
    <3>2. Main'.at \in {"join", "unstart"} /\ thread'[d] = thread[d]
      BY <3>1, Threads DEF Goes, Elsewhere, Main
    <3> QED BY <1>0, <1>1, <2>1, <3>2, CloseMarkDoes DEF Main
  <2>2. CASE CloseJoin("main")
    <3>1. channel' = channel /\ Main'.at = "unstart" /\ thread'[d].at = "none" /\ Main.at = "join"
      BY <1>0, <1>1, <2>2, CloseJoinDoes DEF Main, At
    <3>2. ~channel[d].open
      BY <1>0, <1>1, <3>1 DEF MainInv, Closing
    <3> QED BY <3>1, <3>2
  <2>3. CASE CloseUnstart("main")
    <3>1. Goes("main", "empty") /\ Main.at = "unstart"
          /\ channel'[d].open = channel[d].open /\ channel'[d].started = FALSE
      BY <1>0, <1>1, <2>3, CloseUnstartDoes DEF Main, At
    <3>2. ~channel[d].open
      BY <1>0, <1>1, <3>1 DEF MainInv, Closing
    <3>3. Main'.at = "empty" /\ thread'[d] = thread[d]
      BY <3>1, Threads DEF Goes, Elsewhere, Main
    <3> QED BY <3>1, <3>2, <3>3
  <2>4. CASE CloseEmpty("main")
    <3>1. Main'.at = "next channel" /\ thread'[d] = thread[d] /\ Main.at = "empty" /\ SameFlags(d)
      <4>1. Goes("main", "next channel") /\ Main.at = "empty" /\ SameFlags(d)
        BY <1>0, <1>1, <2>4, CloseEmptyDoes, Threads DEF Main, At, Closed
      <4> QED BY <4>1, Threads DEF Goes, Elsewhere, Main
    <3>2. ~channel[d].open /\ ~channel[d].started /\ ~Alive(d)
      BY <1>0, <1>1, <3>1 DEF MainInv, Closing, CloserOf, At, Main
    <3> QED BY <3>1, <3>2 DEF SameFlags, Dead, Alive, At, Closing
  <2> QED BY <2>1, <2>2, <2>3, <2>4 DEF CloseStep
<1>8. \A c \in Channel : Dead(c) => Dead(c)'
  <2>1. SUFFICES ASSUME NEW c \in Channel, Dead(c) PROVE Dead(c)'
    OBVIOUS
  <2> QED BY <1>6, <1>7, <2>1 DEF Dead, Alive, At
<1>9. \A j \in 1 .. Len(order) : order[j] \in Channel
  BY <1>0, OrderIs
<1>10. Passed(n - 1)'
  BY <1>4, <1>6, <1>8, <1>9 DEF Passed
<1>11. Main'.at = "next channel" => Passed(n)'
  <2>1. SUFFICES ASSUME Main'.at = "next channel" PROVE Passed(n)'
    OBVIOUS
  <2>2. ASSUME NEW j \in 1 .. Len(order), j < n PROVE Dead(order[j])'
    <3>1. j = n - 1 \/ j < n - 1
      BY <1>2, <2>2
    <3>2. CASE j = n - 1
      <4>1. Dead(d)' /\ order'[j] = d
        BY <1>4, <1>6, <1>7, <2>1, <3>2
      <4> QED BY <4>1 DEF Dead, Alive, At
    <3>3. CASE j < n - 1
      <4>1. \A i \in 1 .. Len(order') : i < n - 1 => Dead(order[i])'
        BY <1>6, <1>10 DEF Passed
      <4> QED BY <1>6, <3>3, <4>1
    <3> QED BY <3>1, <3>2, <3>3
  <2> QED BY <1>6, <2>2 DEF Passed
<1>12. At("rx", "none")' /\ Main'.at \notin {"none", "join rx", "done"}
       /\ (Main'.at \in Closing \/ Main'.at = "next channel")
  BY <1>4, <1>6, <1>7 DEF At, Closing
<1> QED BY <1>4, <1>6, <1>7, <1>10, <1>11, <1>12 DEF MainInv

LEMMA MainKept ==
  ASSUME Inv, Next
  PROVE  MainInv'
<1>0. /\ TypeOK /\ MannerInv /\ NumbersInv /\ Typed /\ MainInv /\ WorkersInv /\ order' \in Seq(Channel)
  BY Types, TypeKept DEF Inv, TypeOK
<1> USE Threads
<1>1. (\A c \in Channel : SameFlags(c)) =>
        \A c \in Channel : /\ channel'[c].registered = channel[c].registered
                           /\ channel'[c].open = channel[c].open
                           /\ channel'[c].started = channel[c].started
  BY DEF SameFlags
<1>2. channel' = channel => \A c \in Channel : SameFlags(c)
  BY DEF SameFlags
<1>3. CASE HostStep
  BY <1>0, <1>3, HostDoes, MainStay
<1>4. CASE RxStep
  <2>1. /\ Elsewhere("rx") /\ order' = order /\ thread["rx"].at # "none" /\ thread'["rx"].at # "none"
        /\ channel' = channel \/ RxQueue \/ RxCount
    <3>1. CASE Serve("rx")
      BY <1>0, <3>1, ServeDoes DEF Rests, At
    <3>2. CASE RxReceive
      BY <1>0, <3>2, RxReceiveDoes DEF At
    <3>3. CASE RxExit
      BY <1>0, <3>3, RxExitDoes DEF Goes, At
    <3>4. CASE RxFindOpen
      BY <1>0, <3>4, RxFindOpenDoes DEF Goes, Rests, At
    <3>5. CASE RxFindThread
      BY <1>0, <3>5, RxFindThreadDoes DEF Goes, At
    <3>6. CASE RxQueue
      BY <1>0, <3>6, RxQueueDoes DEF Rests, At
    <3>7. CASE RxCount
      BY <1>0, <3>7, RxCountDoes DEF Rests, At
    <3> QED BY <1>4, <3>1, <3>2, <3>3, <3>4, <3>5, <3>6, <3>7 DEF RxStep
  <2>2. \A c \in Channel : SameFlags(c)
    <3>1. CASE channel' = channel
      BY <1>2, <3>1
    <3>2. CASE channel' # channel
      <4>1. PICK c \in Channel : c = Target
        BY <1>0, <2>1, <3>2, RequestOf DEF RxQueue, RxCount, At, RxBusy
      <4>2. Apart(c) /\ SameFlags(c)
        BY <1>0, <2>1, <3>2, <4>1, RxQueueDoes, RxCountDoes
      <4> QED BY <1>0, <4>2, SameAll
    <3> QED BY <3>1, <3>2
  <2> QED BY <1>1, <2>1, <2>2, MainStay DEF Elsewhere
<1>5. ASSUME NEW d \in Data, Serve(d) PROVE MainInv'
  <2>1. UNCHANGED <<channel, order>> /\ At(d, "serve") /\ thread'[d].at = "loop" /\ Elsewhere(d)
    BY <1>0, <1>5, ServeDoes DEF Rests
  <2> QED BY <2>1, MainStay DEF Elsewhere, At
<1>6. ASSUME NEW c \in Channel, WorkerStep(c) PROVE MainInv'
  <2>1. /\ order' = order /\ thread[c].at # "none" /\ thread'[c].at # "none" /\ Elsewhere(c)
        /\ \A e \in Channel : SameFlags(e)
    <3>1. CASE WorkerExit(c)
      BY <1>0, <1>2, <3>1, WorkerExitDoes DEF Goes, At
    <3>2. CASE WorkerPop(c)
      BY <1>0, <3>2, WorkerPopDoes, SameAll DEF At
    <3>3. CASE WorkerUncount(c)
      <4>1. /\ order' = order /\ At(c, "uncount") /\ Elsewhere(c) /\ Apart(c) /\ SameFlags(c)
            /\ thread'[c].at \in {"start", "stop", "serve"}
        BY <1>0, <3>3, WorkerUncountDoes, ControlAsks
      <4> QED BY <1>0, <4>1, SameAll DEF At
    <3> QED BY <1>6, <3>1, <3>2, <3>3 DEF WorkerStep
  <2> QED BY <1>1, <2>1, MainStay DEF Elsewhere
<1>7. CASE Trigger \/ StopTriggerFails \/ StopUnregistered \/ Respond
  <2>1. /\ UNCHANGED <<channel, order>> /\ Elsewhere(Control)
        /\ thread[Control].at # "none" /\ thread'[Control].at # "none"
    BY <1>0, <1>7, CommandDoes DEF Plain, Goes, Rests, At
  <2> QED BY <2>1, MainStay DEF Elsewhere
<1>8. CASE StartOpen \/ StartCreate \/ StartCreated
  <2>1. thread[Control].at \in Commands
    BY <1>8 DEF StartOpen, StartCreate, StartCreated, At, Commands, Starting
  <2>2. PICK d \in Data : d = thread[Control].target /\ d # Control
    BY <2>1, TargetIsData
  <2>3. Alive(Control)
    BY <2>1, CommandLives
  <2>4. /\ Apart(d)
        /\ \A u \in Thread : u # d /\ u # Control => thread'[u] = thread[u]
        /\ thread'[Control].at # "none"
    <3>1. CASE StartOpen
      <4>1. Apart(d) /\ (Goes(Control, "trigger") \/ Goes(Control, "create"))
        BY <1>0, <2>2, <3>1, StartOpenDoes
      <4> QED BY <4>1 DEF Goes, Elsewhere
    <3>2. CASE StartCreate
      <4>1. Apart(d)
        BY <1>0, <2>2, <3>2, StartCreateDoes DEF Apart
      <4>2. CASE Goes(Control, "failed")
        BY <4>1, <4>2 DEF Goes, Elsewhere
      <4>3. CASE ~Goes(Control, "failed")
        <5>1. d \in Channel
          BY <2>2
        <5>2. /\ \A u \in Thread : u # d /\ u # Control => thread'[u] = thread[u]
              /\ thread'[Control].at = "created"
          BY <1>0, <2>2, <3>2, <4>3, <5>1, StartCreateDoes
        <5> QED BY <4>1, <5>2
      <4> QED BY <4>2, <4>3
    <3>3. CASE StartCreated
      BY <1>0, <2>2, <3>3, StartCreatedDoes DEF Goes, Elsewhere
    <3> QED BY <1>8, <3>1, <3>2, <3>3
  <2>5. Grows(order, order') /\ \A c \in Channel : channel'[c].registered =>
           channel[c].registered \/ \E i \in 1 .. Len(order') : order'[i] = c
    <3>1. Len(order) \in Nat /\ Grows(order, order)
      BY <1>0, OrderIs
    <3>2. CASE order' = order /\ channel'[d].registered = channel[d].registered
      BY <2>4, <3>1, <3>2 DEF Apart
    <3>3. CASE order' = Append(order, d)
      <4>1. /\ Len(order') = Len(order) + 1 /\ order'[Len(order) + 1] = d
            /\ \A n \in 1 .. Len(order) : order'[n] = order[n]
        BY <1>0, <3>3, Added, OrderIs
      <4>2. Len(order) + 1 \in 1 .. Len(order') /\ Len(order) <= Len(order')
        BY <3>1, <4>1
      <4> QED BY <2>4, <4>1, <4>2 DEF Apart, Grows
    <3>4. \/ order' = order /\ channel'[d].registered = channel[d].registered
          \/ order' = Append(order, d)
      <4>1. CASE StartOpen
        <5>1. CASE channel[d].registered
          BY <1>0, <2>2, <4>1, <5>1, StartOpenDoes, ChannelFields
        <5>2. CASE ~channel[d].registered
          BY <1>0, <2>2, <4>1, <5>2, StartOpenDoes
        <5> QED BY <5>1, <5>2
      <4>2. CASE StartCreate
        BY <1>0, <2>2, <4>2, StartCreateDoes
      <4>3. CASE StartCreated
        BY <1>0, <2>2, <4>3, StartCreatedDoes
      <4> QED BY <1>8, <4>1, <4>2, <4>3
    <3> QED BY <3>2, <3>3, <3>4
  <2>6. /\ Alive(Control)' /\ thread'["main"] = thread["main"] /\ thread'["rx"] = thread["rx"]
        /\ channel'[Control] = channel[Control]
    BY <2>2, <2>4 DEF Alive, At, Apart
  <2> QED BY <1>0, <2>3, <2>5, <2>6, MainApart
<1>9. CASE CloseStep(Control)
  <2>1. /\ Control \in Closers /\ thread[Control].at \in Commands
    BY <1>9 DEF Closers, CloseStep, CloseMark, CloseJoin, CloseUnstart, CloseEmpty, At, Commands,
                Closing
  <2>2. PICK d \in Data : d = thread[Control].target /\ d # Control
    BY <2>1, TargetIsData
  <2>3. /\ order' = order /\ \A u \in Thread : u # d /\ u # Control => thread'[u] = thread[u]
        /\ thread'[Control].at # "none"
        /\ thread[d].at = "none" => thread'[d].at = "none"
    <3>1. CASE CloseMark(Control)
      <4>1. Goes(Control, "join") \/ Goes(Control, "unstart")
        BY <1>0, <2>1, <2>2, <3>1, CloseMarkDoes
      <4>2. order' = order
        BY <1>0, <2>1, <2>2, <3>1, CloseMarkDoes
      <4> QED BY <2>2, <4>1, <4>2 DEF Goes, Elsewhere
    <3>2. CASE CloseJoin(Control)
      BY <1>0, <2>1, <2>2, <3>2, CloseJoinDoes
    <3>3. CASE CloseUnstart(Control)
      BY <1>0, <2>1, <2>2, <3>3, CloseUnstartDoes DEF Goes, Elsewhere
    <3>4. CASE CloseEmpty(Control)
      BY <1>0, <2>1, <2>2, <3>4, CloseEmptyDoes DEF Goes, Elsewhere, Closed
    <3> QED BY <1>9, <3>1, <3>2, <3>3, <3>4 DEF CloseStep
  <2>4. \A c \in Channel : /\ channel'[c].registered => channel[c].registered
                           /\ channel'[c].open => channel[c].open
                           /\ channel'[c].started => channel[c].started
    <3>1. CASE CloseMark(Control)
      BY <1>0, <2>1, <2>2, <3>1, CloseMarkDoes DEF Apart
    <3>2. CASE CloseJoin(Control)
      BY <1>0, <2>1, <2>2, <3>2, CloseJoinDoes
    <3>3. CASE CloseUnstart(Control)
      BY <1>0, <2>1, <2>2, <3>3, CloseUnstartDoes DEF Apart
    <3>4. CASE CloseEmpty(Control)
      BY <1>0, <2>1, <2>2, <3>4, CloseEmptyDoes DEF Apart, SameFlags
    <3> QED BY <1>9, <3>1, <3>2, <3>3, <3>4 DEF CloseStep
  <2>5. thread[Control].at # "none"
    BY <2>1 DEF Commands, Starting, Closing
  <2> QED BY <2>2, <2>3, <2>4, <2>5, MainStay
<1>10. CASE CloseStep("main")
  BY <1>10, MainCloses
<1>11. CASE Deinit
  <2>1. UNCHANGED <<channel, order>> /\ Main.at = "none" /\ Goes("main", "join rx")
    BY <1>0, <1>11, DeinitDoes DEF At, Main
  <2>2. /\ Main'.at = "join rx" /\ Main'.next = Main.next /\ thread'["rx"] = thread["rx"]
        /\ thread'[Control] = thread[Control]
    BY <2>1 DEF Goes, Elsewhere, Main
  <2> QED BY <1>0, <2>1, <2>2 DEF MainInv, At, Alive, Closing
<1>12. CASE DeinitJoin
  <2>1. /\ UNCHANGED <<channel, order>> /\ Main.at = "join rx" /\ thread'["rx"].at = "none"
        /\ Main'.at = "next channel" /\ Main'.next = Main.next
    BY <1>0, <1>12, DeinitJoinDoes DEF At, Main
  <2>2. Main'.next = 1 /\ Len(order) \in Nat
    BY <1>0, <2>1, OrderIs DEF MainInv
  <2>3. Passed(1)'
    <3>1. \A j \in 1 .. Len(order') : ~(j < 1)
      <4>1. PICK k \in Nat : k = Len(order')
        BY <2>1, <2>2
      <4> QED BY <4>1
    <3> QED BY <3>1 DEF Passed
  <2>4. Passed(Main.next)'
    BY <2>2, <2>3
  <2> QED BY <1>0, <2>1, <2>4 DEF MainInv, At, Closing
<1>13. CASE DeinitNext
  <2>1. /\ channel' = channel /\ Elsewhere("main") /\ Main.at = "next channel"
        /\ thread'["rx"] = thread["rx"] /\ At("rx", "none")
    BY <1>0, <1>13, DeinitNextDoes DEF Goes, Elsewhere, At, Main, MainInv
  <2>2. PICK n \in Nat : n = Main.next /\ n >= 1 /\ Passed(n)
    <3>1. Main.next \in Nat \ {0} /\ Passed(Main.next)
      BY <1>0, <2>1, ThreadFields DEF Main, MainInv
    <3> QED BY <3>1
  <2>3. PICK k \in Nat : k = Len(order)
    BY <1>0, OrderIs
  <2>4. /\ Len(order) >= 1 /\ order[1] = Control
        /\ \A c \in Channel : channel[c].registered => \E i \in 1 .. Len(order) : order[i] = c
    BY <1>0, <2>1 DEF MainInv
  <2>5. \A c \in Channel : (Dead(c)' <=> Dead(c))
    BY <2>1 DEF Dead, Alive, At, Elsewhere
  <2>6. CASE n <= k
    <3>1. /\ order' = order /\ Main'.at = "stop" /\ Main'.next = n + 1 /\ Main'.target = order[n]
      <4>1. ~(Main.next > Len(order))
        BY <2>2, <2>3, <2>6
      <4>2. /\ order' = order /\ thread'["main"].at = "stop" /\ thread'["main"].next = Main.next + 1
            /\ thread'["main"].target = order[Main.next]
        BY <1>0, <1>13, <4>1, DeinitNextDoes
      <4> QED BY <2>2, <4>2 DEF Main
    <3>2. n + 1 - 1 = n /\ n + 1 \in 2 .. Len(order) + 1
      BY <2>2, <2>3, <2>6
    <3>3. Passed(n)'
      <4>1. \A j \in 1 .. Len(order) : order[j] \in Channel
        BY <1>0, OrderIs
      <4> QED BY <2>2, <2>5, <3>1, <4>1 DEF Passed
    <3>4. Passed(Main.next - 1)'
      BY <3>1, <3>2, <3>3 DEF Passed
    <3>5. Main'.next \in 2 .. Len(order') + 1 /\ Main'.target = order'[Main'.next - 1]
      BY <3>1, <3>2
    <3>6. At("rx", "none")' /\ Main'.at = "stop" /\ Main'.at \in Closing
      BY <2>1, <3>1 DEF At, Closing
    <3>7. Len(order') >= 1 /\ order'[1] = Control
          /\ \A c \in Channel : channel'[c].registered => \E i \in 1 .. Len(order') : order'[i] = c
      BY <2>1, <2>4, <3>1
    <3> QED BY <3>4, <3>5, <3>6, <3>7 DEF MainInv
  <2>7. CASE n > k
    <3>1. Main'.at = "done"
      <4>1. ~(Main.next <= Len(order))
        BY <2>2, <2>3, <2>7
      <4>2. Goes("main", "done")
        BY <1>0, <1>13, <4>1, DeinitNextDoes
      <4> QED BY <4>2 DEF Main, Goes
    <3>2. ASSUME NEW c \in Channel PROVE Dead(c)
      <4>1. CASE channel[c].registered
        <5>1. PICK i \in 1 .. Len(order) : order[i] = c
          BY <2>4, <4>1
        <5>2. i < n
          BY <2>3, <2>7
        <5> QED BY <2>2, <5>1, <5>2 DEF Passed
      <4>2. CASE ~channel[c].registered
        BY <1>0, <4>2, Newly DEF WorkersInv, WorkerOf, Dead
      <4> QED BY <4>1, <4>2
    <3> QED BY <2>1, <2>5, <3>1, <3>2 DEF MainInv, At, Closing
  <2> QED BY <2>2, <2>3, <2>6, <2>7
<1> QED BY <1>3, <1>4, <1>5, <1>6, <1>7, <1>8, <1>9, <1>10, <1>11, <1>12, <1>13
        DEF Next, ControlStep, MainStep

-----------------------------------------------------------------------------
(* Only opening, starting and closing changes the flags of a channel.      *)
LEMMA FlagsChange ==
  ASSUME Inv, Next
  PROVE  \/ \A c \in Channel : SameFlags(c)
         \/ StartOpen \/ StartCreate \/ StartCreated
         \/ \E t \in Closers : CloseMark(t) \/ CloseUnstart(t)
<1>0. TypeOK /\ NumbersInv /\ MannerInv /\ Typed
  BY Types DEF Inv
<1>1. CASE channel' = channel
  BY <1>1 DEF SameFlags
<1>2. CASE RxQueue \/ RxCount
  <2>1. CASE channel' # channel
    <3>1. PICK c \in Channel : c = Target
      BY <1>0, <1>2, RequestOf DEF RxQueue, RxCount, At, RxBusy
    <3>2. Apart(c) /\ SameFlags(c)
      BY <1>0, <1>2, <2>1, <3>1, RxQueueDoes, RxCountDoes
    <3> QED BY <1>0, <3>2, SameAll
  <2> QED BY <1>1, <2>1
<1>3. ASSUME NEW c \in Channel, WorkerPop(c) \/ WorkerUncount(c)
      PROVE  \A e \in Channel : SameFlags(e)
  <2>1. Apart(c) /\ SameFlags(c)
    BY <1>0, <1>3, WorkerPopDoes, WorkerUncountDoes, ControlAsks
  <2> QED BY <1>0, <2>1, SameAll
<1>4. ASSUME NEW t \in Closers, CloseEmpty(t)
      PROVE  \A e \in Channel : SameFlags(e)
  <2>1. PICK d \in Channel : d = thread[t].target
    BY <1>0, ThreadFields, Threads DEF Closers
  <2>2. Apart(d) /\ SameFlags(d)
    BY <1>0, <1>4, <2>1, CloseEmptyDoes
  <2> QED BY <1>0, <2>2, SameAll
<1>5. \/ channel' = channel \/ RxQueue \/ RxCount
      \/ \E c \in Channel : WorkerPop(c) \/ WorkerUncount(c)
      \/ StartOpen \/ StartCreate \/ StartCreated
      \/ \E t \in Closers : CloseMark(t) \/ CloseUnstart(t) \/ CloseEmpty(t)
  <2>1. CASE HostStep
    BY <1>0, <2>1, HostDoes
  <2> QED BY <2>1, Steps DEF RxReceive, RxExit, RxFindOpen, RxFindThread, Serve, WorkerExit, Trigger,
         StopTriggerFails, StopUnregistered, Respond, CloseJoin, Deinit, DeinitJoin, DeinitNext
<1> QED BY <1>1, <1>2, <1>3, <1>4, <1>5

LEMMA TypedNext ==
  ASSUME Inv, Next
  PROVE  /\ TypeOK' /\ Typed'
         /\ \A c \in Channel : channel'[c] \in ChannelState /\ channel'[c].mutex \in BOOLEAN
<1>1. TypeOK'
  BY TypeKept
<1>2. Typed'
  BY <1>1 DEF TypeOK, Typed, ThreadState, ChannelState, RxBusy, Commands, Starting, Closing
<1>3. \A c \in Channel : channel'[c] \in ChannelState
  BY <1>2 DEF Typed
<1> QED BY <1>1, <1>2, <1>3 DEF ChannelState

(* A channel is registered once, and its mutex goes when it is closed, if  *)
(* not before.                                                             *)
LEMMA FlagsMove ==
  ASSUME Inv, Next, NEW c \in Channel
  PROVE  /\ channel[c].registered => channel'[c].registered
         /\ channel[c].registered /\ ~channel[c].mutex => ~channel'[c].mutex
         /\ channel[c].registered /\ channel[c].started /\ ~channel'[c].started =>
              ~channel'[c].mutex
<1>0. TypeOK /\ Typed /\ channel'[c].mutex \in BOOLEAN
  BY TypedNext, Types DEF Inv
<1>1. CASE \A e \in Channel : SameFlags(e)
  BY <1>1 DEF SameFlags
<1>2. PICK d \in Channel : d = thread[Control].target
  BY <1>0, ThreadFields, Threads
<1>3. CASE StartOpen
  <2>1. CASE c = d
    BY <1>0, <1>2, <1>3, <2>1, StartOpenDoes
  <2>2. CASE c # d
    BY <1>0, <1>2, <1>3, <2>2, StartOpenDoes DEF Apart
  <2> QED BY <2>1, <2>2
<1>4. CASE StartCreate
  <2>1. d # Control
    BY <1>2, <1>4, TargetIsData DEF StartCreate, At, Commands, Starting
  <2>2. \/ channel' = channel
        \/ /\ Apart(d) /\ channel'[d].registered = channel[d].registered
           /\ channel'[d].started = channel[d].started /\ channel'[d].mutex = channel[d].mutex
    BY <1>0, <1>2, <1>4, <2>1, StartCreateDoes
  <2> QED BY <2>2 DEF Apart
<1>5. CASE StartCreated
  <2>1. /\ Apart(d) /\ channel'[d].registered = channel[d].registered
        /\ channel'[d].started = TRUE /\ channel'[d].mutex = channel[d].mutex
    BY <1>0, <1>2, <1>5, StartCreatedDoes
  <2> QED BY <2>1 DEF Apart
<1>6. ASSUME NEW t \in Closers, CloseMark(t) \/ CloseUnstart(t)
      PROVE  /\ channel[c].registered => channel'[c].registered
             /\ channel[c].registered /\ ~channel[c].mutex => ~channel'[c].mutex
             /\ channel[c].registered /\ channel[c].started /\ ~channel'[c].started =>
                  ~channel'[c].mutex
  <2>1. PICK e \in Channel : e = thread[t].target
    BY <1>0, ThreadFields, Threads DEF Closers
  <2>2. CASE CloseMark(t)
    <3>1. /\ Apart(e) /\ channel'[e].registered = channel[e].registered
          /\ channel'[e].started = channel[e].started /\ channel'[e].mutex = channel[e].mutex
      BY <1>0, <2>1, <2>2, CloseMarkDoes
    <3> QED BY <3>1 DEF Apart
  <2>3. CASE CloseUnstart(t)
    <3>1. /\ Apart(e) /\ channel'[e].registered = channel[e].registered
          /\ channel'[e].started = FALSE /\ channel'[e].mutex = FALSE
      BY <1>0, <2>1, <2>3, CloseUnstartDoes
    <3> QED BY <3>1 DEF Apart
  <2> QED BY <1>6, <2>2, <2>3
<1> QED BY <1>1, <1>3, <1>4, <1>5, <1>6, FlagsChange

LEMMA StartedStays ==
  ASSUME Inv, Next, NEW d \in Data, HasStarted(d)
  PROVE  HasStarted(d)'
<1>1. d \in Channel
  BY Threads
<1> QED BY <1>1, FlagsMove DEF HasStarted

(* What a worker or "rx" answers is no START.                              *)
LEMMA ServesData ==
  ASSUME Inv, NEW t \in {"rx"} \cup Data, At(t, "serve"), thread[t].request # 0
  PROVE  /\ thread[t].request \in 1 .. Len(sent)
         /\ sent[thread[t].request].command = "data"
<1>0. TypeOK /\ NumbersInv /\ StreamsInv
  BY DEF Inv
<1>1. t \in Thread
  BY Threads
<1>2. thread[t].request \in 1 .. Len(sent)
  <2>1. thread[t].request \in Nat /\ thread[t].request <= received
    BY <1>0, <1>1, Naturals DEF NumbersInv
  <2>2. received \in Nat /\ received <= Len(sent) /\ Len(sent) \in Nat
    BY <1>0, Numbers
  <2> QED BY <2>1, <2>2
<1>3. CASE t = "rx"
  BY <1>0, <1>2, <1>3 DEF StreamsInv
<1>4. CASE t \in Data
  <2>1. sent[thread[t].request].channel = t /\ t # Control
    BY <1>0, <1>4, Threads DEF NumbersInv
  <2> QED BY <1>0, <1>2, <2>1 DEF StreamsInv
<1> QED BY <1>2, <1>3, <1>4

(* The channel that "rx" finds without a thread is that of a stream.       *)
LEMMA FindsData ==
  ASSUME Inv, thread["rx"].at \in RxBusy, ~channel[Target].started
  PROVE  Target \in Data /\ sent[thread["rx"].request].command = "data"
<1>0. TypeOK /\ NumbersInv /\ StreamsInv /\ WorkersInv /\ WorkerOf(Control)
  BY Threads DEF Inv, WorkersInv
<1>1. /\ thread["rx"].request = received /\ received \in 1 .. Len(sent)
      /\ sent[received] \in Message /\ Target = sent[received].channel
  BY <1>0, RequestOf
<1>2. Target # Control
  <2>1. SUFFICES ASSUME Target = Control PROVE FALSE
    OBVIOUS
  <2>2. Alive(Control)
    BY RxLives DEF At, RxBusy
  <2>3. At(Control, "created") /\ thread[Control].target = Control
    BY <1>0, <2>1, <2>2 DEF WorkerOf
  <2> QED BY <2>3, TargetIsData DEF At, Commands, Starting
<1> QED BY <1>0, <1>1, <1>2 DEF StreamsInv, Message

(* Each thread is moved by itself, or by the one that creates or joins it. *)
LEMMA RxAlone ==
  ASSUME Inv, Next
  PROVE  thread'["rx"] = thread["rx"] \/ RxStep \/ DeinitJoin
<1>0. TypeOK /\ NumbersInv /\ MannerInv /\ Typed
  BY Types DEF Inv
<1> USE Threads
<1>1. CASE HostStep
  BY <1>0, <1>1, HostDoes
<1>2. ASSUME NEW c \in Channel, WorkerStep(c) PROVE Elsewhere(c)
  BY <1>0, <1>2, WorkerExitDoes, WorkerPopDoes, WorkerUncountDoes, ControlAsks DEF WorkerStep, Goes
<1>3. ASSUME NEW d \in Data, Serve(d) PROVE Elsewhere(d)
  BY <1>0, <1>3, ServeDoes DEF Rests
<1>4. PICK d \in Channel : d = thread[Control].target
  BY <1>0, ThreadFields
<1>5. CASE StartOpen \/ StartCreate \/ StartCreated
  <2>1. d # Control
    BY <1>4, <1>5, TargetIsData DEF StartOpen, StartCreate, StartCreated, At, Commands, Starting
  <2>2. CASE StartOpen
    <3>1. Goes(Control, "trigger") \/ Goes(Control, "create")
      BY <1>0, <1>4, <2>2, StartOpenDoes
    <3> QED BY <3>1 DEF Goes, Elsewhere
  <2>3. CASE StartCreate
    <3>1. \/ Goes(Control, "failed")
          \/ \A u \in Thread : u # d /\ u # Control => thread'[u] = thread[u]
      BY <1>0, <1>4, <2>1, <2>3, StartCreateDoes
    <3> QED BY <3>1 DEF Goes, Elsewhere
  <2>4. CASE StartCreated
    BY <1>0, <1>4, <2>4, StartCreatedDoes DEF Goes, Elsewhere
  <2> QED BY <1>5, <2>2, <2>3, <2>4
<1>6. CASE Trigger \/ StopTriggerFails \/ StopUnregistered \/ Respond
  BY <1>0, <1>6, CommandDoes DEF Goes, Rests, Elsewhere
<1>7. ASSUME NEW t \in Closers, CloseStep(t) PROVE thread'["rx"] = thread["rx"]
  <2>1. PICK e \in Channel : e = thread[t].target
    BY <1>0, ThreadFields DEF Closers
  <2>2. t # "rx"
    BY DEF Closers, At
  <2>3. CASE CloseMark(t)
    <3>1. Goes(t, "join") \/ Goes(t, "unstart")
      BY <1>0, <2>1, <2>3, CloseMarkDoes
    <3> QED BY <2>2, <3>1 DEF Goes, Elsewhere
  <2>4. CASE CloseJoin(t)
    BY <1>0, <2>1, <2>2, <2>4, CloseJoinDoes
  <2>5. CASE CloseUnstart(t)
    <3>1. Goes(t, "empty")
      BY <1>0, <2>1, <2>5, CloseUnstartDoes
    <3> QED BY <2>2, <3>1 DEF Goes, Elsewhere
  <2>6. CASE CloseEmpty(t)
    BY <1>0, <2>1, <2>2, <2>6, CloseEmptyDoes DEF Goes, Elsewhere
  <2> QED BY <1>7, <2>3, <2>4, <2>5, <2>6 DEF CloseStep
<1>8. CASE Deinit \/ DeinitNext
  BY <1>0, <1>8, DeinitDoes, DeinitNextDoes DEF Goes, Elsewhere
<1> QED BY <1>1, <1>2, <1>3, <1>5, <1>6, <1>7, <1>8 DEF Next, ControlStep, MainStep, Elsewhere, Closers

LEMMA StreamsKept ==
  ASSUME Inv, Next
  PROVE  StreamsInv'
<1>0. /\ TypeOK /\ NumbersInv /\ StreamsInv /\ MannerInv /\ Typed /\ WorkersInv /\ ControlInv
      /\ TypeOK'
  BY Types, TypeKept DEF Inv
<1>1. /\ Len(sent) \in Nat /\ Len(answered) \in Nat /\ received \in Nat /\ received <= Len(sent)
      /\ \A n \in 1 .. Len(sent) : sent'[n] = sent[n]
      /\ \A k \in 1 .. Len(answered) : answered'[k] = answered[k]
      /\ \A n \in 1 .. Len(sent) : sent[n].target \in Data
  <2>1. /\ sent \in Seq(Message) /\ Len(sent) \in Nat /\ Len(answered) \in Nat
        /\ received \in Nat /\ received <= Len(sent)
    BY <1>0, Numbers
  <2>2. \A n \in 1 .. Len(sent) : sent[n].target \in Data
    <3>1. \A n \in 1 .. Len(sent) : sent[n] \in Message
      BY <2>1
    <3> QED BY <3>1 DEF Message
  <2> QED BY <2>1, <2>2, Grown DEF Grows
<1>2. \A n \in 1 .. Len(sent') :
        /\ sent'[n].channel = IF sent'[n].command = "data" THEN sent'[n].target ELSE Control
        /\ sent'[n].target \in Data
        /\ sent'[n].command = "data" =>
             \A d \in Data : d = sent'[n].target => HasStarted(d)'
  <2>1. SUFFICES ASSUME NEW n \in 1 .. Len(sent')
                 PROVE  /\ sent'[n].channel = IF sent'[n].command = "data" THEN sent'[n].target
                                              ELSE Control
                        /\ sent'[n].target \in Data
                        /\ sent'[n].command = "data" =>
                             \A d \in Data : d = sent'[n].target => HasStarted(d)'
    OBVIOUS
  <2>2. CASE n \in 1 .. Len(sent)
    <3>1. PICK d \in Data : d = sent[n].target /\ sent'[n] = sent[n]
      BY <1>1, <2>2
    <3>2. sent[n].command = "data" => HasStarted(d)'
      <4>1. sent[n].command = "data" => HasStarted(d)
        BY <1>0, <2>2, <3>1 DEF StreamsInv
      <4> QED BY <4>1, StartedStays
    <3> QED BY <1>0, <2>2, <3>1, <3>2 DEF StreamsInv
  <2>3. CASE n \notin 1 .. Len(sent)
    <3>1. sent' # sent
      BY <2>3
    <3>2. HostStep
      BY <3>1, Steps DEF RxReceive, RxExit, RxFindOpen, RxFindThread, RxQueue, RxCount, Serve,
         WorkerExit, WorkerPop, WorkerUncount, StartOpen, StartCreate, StartCreated, Trigger,
         StopTriggerFails, StopUnregistered, Respond, CloseMark, CloseJoin, CloseUnstart,
         CloseEmpty, Deinit, DeinitJoin, DeinitNext, host
    <3>3. PICK m \in Message : Sends(m)
      BY <1>0, <3>1, <3>2, HostDoes DEF Hears
    <3>4. Len(sent') = Len(sent) + 1 /\ sent'[Len(sent) + 1] = m
      BY <1>0, <3>3, SentGrow
    <3>5. n = Len(sent) + 1
      BY <1>1, <2>3, <3>4
    <3>6. PICK d \in Data : d = m.target /\ (m.command = "data" => HasStarted(d)')
      <4>1. PICK d \in Data : d = m.target
        BY DEF Message
      <4>2. m.command = "data" => HasStarted(d)
        BY <1>0, <3>3, <4>1 DEF Sends, StreamsInv
      <4> QED BY <4>1, <4>2, StartedStays
    <3>7. sent'[n] = m
      BY <3>4, <3>5
    <3> QED BY <3>3, <3>6, <3>7 DEF Sends
  <2> QED BY <2>2, <2>3
<1>3. ASSUME NEW d \in Data, running'[d] PROVE HasStarted(d)'
  <2>1. CASE running[d]
    BY <1>0, <2>1, StartedStays DEF StreamsInv
  <2>2. CASE ~running[d]
    <3>1. HostStep
      BY <1>3, <2>2, Steps DEF RxReceive, RxExit, RxFindOpen, RxFindThread, RxQueue, RxCount, Serve,
         WorkerExit, WorkerPop, WorkerUncount, StartOpen, StartCreate, StartCreated, Trigger,
         StopTriggerFails, StopUnregistered, Respond, CloseMark, CloseJoin, CloseUnstart,
         CloseEmpty, Deinit, DeinitJoin, DeinitNext, host
    <3>2. Hears /\ running'[d] = TRUE
      BY <1>0, <1>3, <2>2, <3>1, HostDoes DEF Sends
    <3>3. /\ Answered(pending, TRUE) /\ pending # 0 /\ sent[pending].command = "start"
          /\ sent[pending].target = d
      BY <2>2, <3>2 DEF Hears
    <3>4. PICK k \in 1 .. Len(answered) : answered[k] = [request |-> pending, ok |-> TRUE]
      BY <3>3 DEF Answered
    <3>5. answered[k].ok /\ answered[k].request = pending
      BY <3>4
    <3> QED BY <1>0, <3>3, <3>5, StartedStays DEF StreamsInv
  <2> QED BY <2>1, <2>2
<1>4. ASSUME NEW k \in 1 .. Len(answered'), answered'[k].ok, answered'[k].request # 0,
             sent'[answered'[k].request].command = "start"
      PROVE  \E d \in Data : d = sent'[answered'[k].request].target /\ HasStarted(d)'
  <2>1. CASE k \in 1 .. Len(answered)
    <3>1. PICK n \in 1 .. Len(sent) : n = answered[k].request /\ answered'[k] = answered[k]
      <4>1. answered[k].request \in Nat /\ answered[k].request <= received /\ answered[k].request # 0
        BY <1>0, <1>1, <1>4, <2>1, Naturals DEF NumbersInv
      <4> QED BY <1>1, <2>1, <4>1
    <3>2. sent'[n] = sent[n] /\ sent[n].target \in Data
      BY <1>1
    <3>3. HasStarted(sent[n].target)
      BY <1>0, <1>4, <2>1, <3>1, <3>2 DEF StreamsInv
    <3>4. PICK d \in Data : d = sent[n].target
      BY <3>2
    <3>5. HasStarted(d)'
      BY <3>3, <3>4, StartedStays
    <3> QED BY <3>1, <3>2, <3>4, <3>5
  <2>2. CASE k \notin 1 .. Len(answered)
    <3>1. ASSUME NEW n \in Request \cup {Nothing}, NEW ok \in BOOLEAN, Answers(n, ok)
          PROVE  answered'[k].request = n /\ answered'[k].ok = ok
      <4>1. /\ Len(answered') = Len(answered) + 1
            /\ answered'[Len(answered) + 1].request = n /\ answered'[Len(answered) + 1].ok = ok
        BY <1>0, <3>1, AnswersGrow
      <4>2. k = Len(answered) + 1
        BY <1>1, <2>2, <4>1
      <4> QED BY <4>1, <4>2
    <3>2. \/ RxFindOpen \/ Respond
          \/ \E t \in {"rx"} \cup Data : Serve(t)
      <4>1. answered' # answered
        BY <2>2
      <4>2. CASE HostStep
        BY <1>0, <4>1, <4>2, HostDoes
      <4> QED BY <4>1, <4>2, Steps DEF RxReceive, RxExit, RxFindThread, RxQueue, RxCount,
           WorkerExit, WorkerPop, WorkerUncount, StartOpen, StartCreate, StartCreated, Trigger,
           StopTriggerFails, StopUnregistered, CloseMark, CloseJoin, CloseUnstart,
           CloseEmpty, Deinit, DeinitJoin, DeinitNext
    <3>3. CASE RxFindOpen
      <4>1. Answers(thread["rx"].request, FALSE) \/ answered' = answered
        BY <1>0, <3>3, RxFindOpenDoes
      <4>2. answered'[k].ok = FALSE
        BY <1>0, <2>2, <3>1, <4>1, ThreadFields, Threads
      <4> QED BY <1>4, <4>2
    <3>4. ASSUME NEW t \in {"rx"} \cup Data, Serve(t) PROVE FALSE
      <4>1. t \in Thread /\ thread[t].request \in Request \cup {Nothing}
        BY <1>0, ThreadFields, Threads
      <4>2. At(t, "serve") /\ answered'[k].request = thread[t].request
        BY <1>0, <3>1, <3>4, <4>1, ServeDoes
      <4>3. /\ thread[t].request \in 1 .. Len(sent)
            /\ sent[thread[t].request].command = "data"
        BY <1>4, <4>2, ServesData
      <4> QED BY <1>1, <1>4, <4>2, <4>3
    <3>5. CASE Respond
      <4>1. /\ thread[Control].at \in {"done", "failed"}
            /\ Answers(thread[Control].request, At(Control, "done"))
        BY <3>5 DEF Respond, Answer, Answers
      <4>2. At(Control, "done") \in BOOLEAN /\ thread[Control].request \in Request \cup {Nothing}
        BY <1>0, ThreadFields, Threads DEF At
      <4>3. answered'[k].request = thread[Control].request /\ At(Control, "done")
        BY <1>4, <3>1, <4>1, <4>2
      <4>4. thread[Control].at \in Commands
        BY <4>1 DEF Commands
      <4>5. PICK d \in Data : d = thread[Control].target /\ d = Command.target /\ d \in Channel
        BY <4>4, TargetIsData, Threads
      <4>6. thread[Control].request \in 1 .. Len(sent)
        BY <4>4, TargetIsData
      <4>7. sent'[answered'[k].request] = Command
        BY <1>1, <4>3, <4>6 DEF Command
      <4>8. channel[d].started
        BY <1>0, <1>4, <4>3, <4>4, <4>5, <4>7 DEF ControlInv, Stream
      <4>9. channel[d].registered
        BY <1>0, <4>5, <4>8, Newly DEF WorkersInv, WorkerOf
      <4>10. HasStarted(d)'
        BY <4>8, <4>9, StartedStays DEF HasStarted
      <4> QED BY <4>5, <4>7, <4>10
    <3> QED BY <3>2, <3>3, <3>4, <3>5
  <2> QED BY <2>1, <2>2
<1>5. ASSUME At("rx", "serve")' PROVE sent'[thread'["rx"].request].command = "data"
  <2>1. CASE At("rx", "serve") /\ thread'["rx"] = thread["rx"]
    <3>1. thread["rx"].request \in 1 .. Len(sent)
      BY <1>0, <2>1, RequestOf DEF At, RxBusy
    <3> QED BY <1>0, <1>1, <2>1, <3>1 DEF StreamsInv
  <2>2. CASE RxFindThread
    <3>1. /\ At("rx", "started?") /\ sent' = sent /\ ~channel[Target].started
          /\ thread'["rx"].request = thread["rx"].request
      BY <1>0, <1>5, <2>2, RxFindThreadDoes DEF At, Goes, host
    <3> QED BY <3>1, FindsData DEF At, RxBusy
  <2>3. \/ At("rx", "serve") /\ thread'["rx"] = thread["rx"]
        \/ RxFindThread
    <3>1. CASE thread'["rx"] = thread["rx"]
      BY <1>5, <3>1 DEF At
    <3>2. CASE RxStep
      <4>1. CASE Serve("rx")
        BY <1>0, <1>5, <4>1, ServeDoes, Threads DEF Rests, At
      <4>2. CASE RxReceive \/ RxExit
        BY <1>0, <1>5, <4>2, RxReceiveDoes, RxExitDoes DEF Goes, At
      <4>3. CASE RxFindOpen
        BY <1>0, <1>5, <4>3, RxFindOpenDoes DEF Goes, Rests, At
      <4>4. CASE RxQueue \/ RxCount
        BY <1>0, <1>5, <4>4, RxQueueDoes, RxCountDoes DEF Rests, At
      <4> QED BY <3>2, <4>1, <4>2, <4>3, <4>4 DEF RxStep
    <3>3. thread'["rx"] = thread["rx"] \/ RxStep \/ DeinitJoin
      BY RxAlone
    <3>4. CASE DeinitJoin
      BY <1>0, <1>5, <3>4, DeinitJoinDoes DEF At
    <3> QED BY <3>1, <3>2, <3>3, <3>4
  <2> QED BY <2>1, <2>2, <2>3
<1>6. /\ \A n \in 1 .. Len(sent') :
           sent'[n].command = "data" =>
             /\ channel'[sent'[n].target].registered
             /\ channel'[sent'[n].target].started \/ ~channel'[sent'[n].target].mutex
      /\ \A d \in Data : running'[d] =>
           channel'[d].registered /\ (channel'[d].started \/ ~channel'[d].mutex)
      /\ \A k \in 1 .. Len(answered') :
           answered'[k].ok /\ answered'[k].request # 0 /\ sent'[answered'[k].request].command = "start" =>
             LET d == sent'[answered'[k].request].target IN
             channel'[d].registered /\ (channel'[d].started \/ ~channel'[d].mutex)
  BY <1>2, <1>3, <1>4 DEF HasStarted
<1> QED BY <1>2, <1>5, <1>6 DEF StreamsInv, HasStarted

LEMMA WorkerAlone ==
  ASSUME Inv, Next, NEW c \in Channel
  PROVE  \/ thread'[c] = thread[c]
         \/ WorkerExit(c) \/ WorkerPop(c) \/ WorkerUncount(c)
         \/ c \in Data /\ Serve(c)
         \/ c = Control /\ thread[c].at \in Commands /\ (thread'[c].at \in Commands \/ Respond)
         \/ /\ c # Control /\ StartCreate /\ c = thread[Control].target
            /\ thread[c].at = "none" /\ thread'[c].at = "loop"
         \/ thread[c].at = "exited" /\ thread'[c].at = "none"
<1>0. TypeOK /\ NumbersInv /\ MannerInv /\ Typed /\ ControlInv
  BY Types DEF Inv
<1> USE Threads
<1>1. CASE HostStep
  BY <1>0, <1>1, HostDoes
<1>2. CASE RxStep
  <2>1. Elsewhere("rx")
    <3>1. CASE Serve("rx")
      BY <1>0, <3>1, ServeDoes DEF Rests
    <3> QED BY <1>0, <1>2, <3>1, RxReceiveDoes, RxExitDoes, RxFindOpenDoes, RxFindThreadDoes,
               RxQueueDoes, RxCountDoes DEF RxStep, Goes, Rests
  <2> QED BY <2>1 DEF Elsewhere
<1>3. ASSUME NEW e \in Channel, WorkerStep(e), e # c PROVE thread'[c] = thread[c]
  <2>1. Elsewhere(e)
    BY <1>0, <1>3, WorkerExitDoes, WorkerPopDoes, WorkerUncountDoes, ControlAsks DEF WorkerStep, Goes
  <2> QED BY <1>3, <2>1 DEF Elsewhere
<1>4. WorkerStep(c) => WorkerExit(c) \/ WorkerPop(c) \/ WorkerUncount(c)
  BY DEF WorkerStep
<1>5. ASSUME NEW d \in Data, Serve(d), d # c PROVE thread'[c] = thread[c]
  BY <1>0, <1>5, ServeDoes DEF Rests, Elsewhere
<1>6. PICK d \in Channel : d = thread[Control].target
  BY <1>0, ThreadFields
<1>7. CASE StartOpen \/ StartCreated
  <2>1. Elsewhere(Control) /\ thread[Control].at \in Commands /\ thread'[Control].at \in Commands
    BY <1>0, <1>6, <1>7, StartOpenDoes, StartCreatedDoes DEF Goes, Commands, Starting, At
  <2> QED BY <2>1 DEF Elsewhere
<1>8. CASE StartCreate
  <2>1. thread[Control].at \in Commands /\ At(Control, "create")
    BY <1>8 DEF StartCreate, At, Commands, Starting
  <2>2. d # Control /\ ~Alive(d)
    BY <1>0, <1>6, <2>1, TargetIsData DEF ControlInv, At
  <2>3. /\ \A u \in Thread : u # d /\ u # Control => thread'[u] = thread[u]
        /\ thread'[d] = thread[d] \/ thread'[d].at = "loop"
        /\ thread'[Control].at \in {"created", "failed"}
    <3>1. CASE Goes(Control, "failed")
      BY <2>2, <3>1 DEF Goes, Elsewhere
    <3>2. CASE ~Goes(Control, "failed")
      BY <1>0, <1>6, <1>8, <2>2, <3>2, StartCreateDoes
    <3> QED BY <3>1, <3>2
  <2>4. thread'[Control].at \in Commands
    BY <2>3 DEF Commands, Starting
  <2>5. CASE c = Control
    BY <2>1, <2>4, <2>5
  <2>6. CASE c = d
    BY <1>6, <1>8, <2>2, <2>3, <2>6 DEF Alive, At
  <2>7. CASE c # Control /\ c # d
    BY <2>3, <2>7
  <2> QED BY <2>5, <2>6, <2>7
<1>9. CASE Trigger \/ StopTriggerFails \/ StopUnregistered \/ Respond
  <2>1. /\ Elsewhere(Control) /\ thread[Control].at \in Commands
        /\ thread'[Control].at \in Commands \/ Respond
    <3>1. CASE Respond
      BY <1>0, <3>1, CommandDoes DEF Goes, Rests, Respond, Commands
    <3>2. CASE ~Respond
      <4>1. thread[Control].at \in {"trigger", "stop"}
        BY <1>9, <3>2 DEF Trigger, StopTriggerFails, StopUnregistered, At
      <4>2. Goes(Control, "done") \/ Goes(Control, "failed")
        BY <1>0, <1>9, <4>1, CommandDoes DEF At
      <4> QED BY <4>1, <4>2 DEF Goes, Commands, Starting, Closing
    <3> QED BY <3>1, <3>2
  <2> QED BY <2>1 DEF Elsewhere
<1>10. ASSUME NEW t \in Closers, CloseStep(t)
       PROVE  \/ thread'[c] = thread[c]
              \/ c = Control /\ thread[c].at \in Commands /\ thread'[c].at \in Commands
              \/ thread[c].at = "exited" /\ thread'[c].at = "none"
  <2>1. PICK e \in Channel : e = thread[t].target
    BY <1>0, ThreadFields DEF Closers
  <2>2. CASE CloseJoin(t)
    <3>1. /\ At(t, "join") /\ At(e, "exited") /\ thread'[t].at = "unstart"
          /\ thread'[e].at = "none"
          /\ \A u \in Thread : u # e /\ u # t => thread'[u] = thread[u]
      BY <1>0, <2>1, <2>2, CloseJoinDoes
    <3> QED BY <3>1 DEF Closers, At, Commands, Closing
  <2>3. CASE CloseMark(t) \/ CloseUnstart(t) \/ CloseEmpty(t)
    <3>1. /\ Goes(t, "join") \/ Goes(t, "unstart") \/ Goes(t, "empty") \/ Goes(t, Closed(t))
          /\ thread[t].at \in Closing
      <4>1. CASE CloseMark(t)
        BY <1>0, <2>1, <4>1, CloseMarkDoes DEF At, Closing
      <4>2. CASE CloseUnstart(t)
        BY <1>0, <2>1, <4>2, CloseUnstartDoes DEF At, Closing
      <4>3. CASE CloseEmpty(t)
        BY <1>0, <2>1, <4>3, CloseEmptyDoes DEF At, Closing
      <4> QED BY <2>3, <4>1, <4>2, <4>3
    <3>2. /\ Elsewhere(t)
          /\ t = Control => thread[t].at \in Commands /\ thread'[t].at \in Commands
      BY <3>1 DEF Goes, Closed, Commands, Closing
    <3> QED BY <3>2 DEF Elsewhere, Closers
  <2> QED BY <1>10, <2>2, <2>3 DEF CloseStep
<1>11. CASE Deinit \/ DeinitJoin \/ DeinitNext
  BY <1>0, <1>11, DeinitDoes, DeinitJoinDoes, DeinitNextDoes DEF Goes, Elsewhere
<1> QED BY <1>1, <1>2, <1>3, <1>4, <1>5, <1>7, <1>8, <1>9, <1>10, <1>11
        DEF Next, ControlStep, MainStep, Closers

(* Only counting in or out brings a thread between the read of a count and *)
(* its write.                                                              *)
LEMMA PopInside ==
  ASSUME Inv, Next, NEW c \in Channel, ~WorkerPop(c), ~WorkerUncount(c)
  PROVE  PopIn(c)' <=> PopIn(c)
<1>0. TypeOK
  BY DEF Inv
<1>1. CASE WorkerExit(c)
  BY <1>0, <1>1, WorkerExitDoes DEF PopIn, At, Goes
<1>2. CASE Serve(c)
  BY <1>0, <1>2, ServeDoes, Threads DEF PopIn, At, Rests
<1>3. CASE Respond
  <2>1. thread[Control].at \in {"done", "failed"} /\ Rests(Control, "loop")
    BY <1>0, <1>3, CommandDoes DEF At, Respond
  <2> QED BY <1>0, <2>1, Threads DEF PopIn, At, Rests, Elsewhere
<1>4. CASE ~WorkerExit(c) /\ ~Serve(c) /\ ~Respond
  BY <1>4, WorkerAlone DEF PopIn, At, Commands, Starting, Closing
<1> QED BY <1>1, <1>2, <1>3, <1>4

LEMMA RxInside ==
  ASSUME Inv, Next, NEW c \in Channel, ~RxQueue, ~RxCount
  PROVE  RxIn(c)' <=> RxIn(c)
<1>0. TypeOK /\ NumbersInv /\ MannerInv /\ Len(sent) \in Nat
  BY Numbers DEF Inv
<1>1. CASE thread'["rx"] = thread["rx"]
  <2>1. CASE At("rx", "count")
    <3>1. thread["rx"].request \in 1 .. Len(sent)
      BY <1>0, <2>1, RequestOf DEF At, RxBusy
    <3>2. sent'[thread["rx"].request] = sent[thread["rx"].request]
      BY <3>1, Grown DEF Grows
    <3>3. Target' = Target
      BY <1>1, <3>2 DEF Target
    <3> QED BY <1>1, <3>3 DEF RxIn, At
  <2>2. CASE ~At("rx", "count")
    BY <1>1, <2>2 DEF RxIn, At
  <2> QED BY <2>1, <2>2
<1>2. CASE RxStep
  <2>1. CASE Serve("rx")
    BY <1>0, <2>1, ServeDoes, Threads DEF Rests, RxIn, At
  <2>2. CASE RxReceive \/ RxExit
    BY <1>0, <2>2, RxReceiveDoes, RxExitDoes DEF Goes, RxIn, At
  <2>3. CASE RxFindOpen
    BY <1>0, <2>3, RxFindOpenDoes DEF Goes, Rests, RxIn, At
  <2>4. CASE RxFindThread
    BY <1>0, <2>4, RxFindThreadDoes DEF Goes, RxIn, At
  <2> QED BY <1>2, <2>1, <2>2, <2>3, <2>4 DEF RxStep
<1>3. CASE DeinitJoin
  BY <1>0, <1>3, DeinitJoinDoes DEF RxIn, At
<1> QED BY <1>1, <1>2, <1>3, RxAlone

LEMMA LockedStay ==
  ASSUME NEW c \in Channel, Locked(c), channel'[c].mutex = channel[c].mutex,
         holder'[c] = holder[c], RxIn(c)' <=> RxIn(c), PopIn(c)' <=> PopIn(c)
  PROVE  Locked(c)'
BY DEF Locked

LEMMA LocksKept ==
  ASSUME Inv, Next
  PROVE  LocksInv'
<1>0. /\ TypeOK /\ NumbersInv /\ MannerInv /\ Typed /\ WorkersInv
      /\ \A c \in Channel : Locked(c) /\ WorkerOf(c)
      /\ holder \in [Channel -> Thread \cup {"nobody"}]
  BY Types DEF Inv, LocksInv, WorkersInv, TypeOK
<1>1. CASE RxQueue
  <2>1. PICK c \in Channel : c = Target /\ thread["rx"].request \in 1 .. Len(sent)
    BY <1>0, <1>1, RequestOf DEF RxQueue, At, RxBusy
  <2>2. At("rx", "queue") /\ CanLock(c) /\ sent' = sent /\ \A e \in Channel : ~RxIn(e)
    BY <1>0, <1>1, <2>1, RxQueueDoes DEF host, RxIn, At
  <2>3. \A e \in Channel : PopIn(e)' <=> PopIn(e)
    BY <1>0, <1>1, RxQueueDoes, Threads DEF PopIn, At, Rests, Elsewhere
  <2>4. CASE Rests("rx", "loop") /\ UNCHANGED <<channel, holder>>
    BY <1>0, <2>2, <2>3, <2>4, LockedStay DEF LocksInv, Rests, RxIn, At
  <2>5. CASE ~(Rests("rx", "loop") /\ UNCHANGED <<channel, holder>>)
    <3>1. /\ Lock(c, "rx") /\ thread'["rx"].at = "count"
          /\ thread'["rx"].request = thread["rx"].request
          /\ Apart(c) /\ channel'[c].mutex = channel[c].mutex
      BY <1>0, <1>1, <2>1, <2>5, RxQueueDoes DEF SameFlags
    <3>2. Target' = c /\ \A e \in Channel : RxIn(e)' <=> e = c
      BY <2>1, <2>2, <3>1 DEF Target, RxIn, At
    <3>3. ASSUME NEW e \in Channel, e # c PROVE Locked(e)'
      <4>1. holder'[e] = holder[e] /\ channel'[e] = channel[e]
        BY <1>0, <3>1, <3>3 DEF Lock, Apart
      <4>2. RxIn(e)' <=> RxIn(e)
        BY <2>2, <3>2, <3>3
      <4> QED BY <1>0, <2>3, <4>1, <4>2, LockedStay
    <3>4. Locked(c)'
      <4>1. CASE channel[c].mutex
        <5>1. holder[c] = "nobody" /\ holder'[c] = "rx"
          BY <1>0, <2>2, <3>1, <4>1 DEF CanLock, Lock
        <5>2. ~PopIn(c)' /\ RxIn(c)'
          BY <1>0, <2>3, <3>2, <4>1, <5>1, Threads DEF Locked
        <5> QED BY <3>1, <4>1, <5>1, <5>2, Threads DEF Locked
      <4>2. CASE ~channel[c].mutex
        BY <1>0, <3>1, <4>2 DEF Lock, Locked
      <4> QED BY <4>1, <4>2
    <3> QED BY <3>3, <3>4 DEF LocksInv
  <2> QED BY <2>4, <2>5
<1>2. CASE RxCount
  <2>1. PICK c \in Channel : c = Target
    BY <1>0, <1>2, RequestOf DEF RxCount, At, RxBusy
  <2>2. /\ At("rx", "count") /\ Unlock(c) /\ Rests("rx", "loop") /\ Apart(c)
        /\ channel'[c].mutex = channel[c].mutex
    BY <1>0, <1>2, <2>1, RxCountDoes DEF SameFlags
  <2>3. \A e \in Channel : /\ PopIn(e)' <=> PopIn(e)
                           /\ ~RxIn(e)'
                           /\ RxIn(e) <=> e = c
    BY <2>1, <2>2, Threads DEF PopIn, RxIn, At, Rests, Elsewhere
  <2>4. ASSUME NEW e \in Channel, e # c PROVE Locked(e)'
    <3>1. holder'[e] = holder[e] /\ channel'[e] = channel[e]
      BY <1>0, <2>2, <2>4 DEF Unlock, Apart
    <3>2. RxIn(e)' <=> RxIn(e)
      BY <2>3, <2>4
    <3> QED BY <1>0, <2>3, <3>1, <3>2, LockedStay
  <2>5. Locked(c)'
    <3>1. CASE channel[c].mutex
      <4>1. holder[c] = "rx" /\ holder'[c] = "nobody" /\ ~PopIn(c)
        BY <1>0, <2>2, <2>3, <3>1, Threads DEF Unlock, Locked
      <4> QED BY <2>2, <2>3, <3>1, <4>1, Threads DEF Locked
    <3>2. CASE ~channel[c].mutex
      BY <1>0, <2>2, <3>2 DEF Unlock, Locked
    <3> QED BY <3>1, <3>2
  <2> QED BY <2>4, <2>5 DEF LocksInv
<1>3. ASSUME NEW c \in Channel, WorkerPop(c) \/ WorkerUncount(c) PROVE LocksInv'
  <2>1. /\ Elsewhere(c) /\ Apart(c) /\ channel'[c].mutex = channel[c].mutex /\ sent' = sent
        /\ \/ /\ At(c, "loop") /\ thread'[c].at = "uncount" /\ CanLock(c) /\ Lock(c, c)
           \/ /\ At(c, "uncount") /\ thread'[c].at # "uncount" /\ Unlock(c)
    <3>1. CASE WorkerPop(c)
      BY <1>0, <3>1, WorkerPopDoes DEF SameFlags, host
    <3>2. CASE WorkerUncount(c)
      BY <1>0, <3>2, WorkerUncountDoes, ControlAsks DEF SameFlags, host
    <3> QED BY <1>3, <3>1, <3>2
  <2>2. \A e \in Channel : RxIn(e)' <=> RxIn(e)
    BY <2>1, Threads DEF RxIn, At, Target, Elsewhere
  <2>3. ASSUME NEW e \in Channel, e # c PROVE Locked(e)'
    <3>1. holder'[e] = holder[e] /\ channel'[e] = channel[e] /\ (PopIn(e)' <=> PopIn(e))
      BY <1>0, <2>1, <2>3, Threads DEF Lock, Unlock, Apart, PopIn, At, Elsewhere
    <3> QED BY <1>0, <2>2, <3>1, LockedStay
  <2>4. Locked(c)'
    <3>1. CASE ~channel[c].mutex
      BY <1>0, <2>1, <3>1 DEF Lock, Unlock, Locked
    <3>2. CASE channel[c].mutex /\ At(c, "loop")
      <4>1. holder[c] = "nobody" /\ holder'[c] = c /\ PopIn(c)' /\ ~RxIn(c)
        BY <1>0, <2>1, <3>2, Threads DEF CanLock, Lock, PopIn, At, Locked
      <4> QED BY <2>1, <2>2, <3>2, <4>1, Threads DEF Locked
    <3>3. CASE channel[c].mutex /\ ~At(c, "loop")
      <4>1. holder[c] = c /\ holder'[c] = "nobody" /\ ~PopIn(c)' /\ ~RxIn(c)
        BY <1>0, <2>1, <3>3, Threads DEF Unlock, PopIn, At, Locked
      <4> QED BY <2>1, <2>2, <3>3, <4>1, Threads DEF Locked
    <3> QED BY <3>1, <3>2, <3>3
  <2> QED BY <2>3, <2>4 DEF LocksInv
<1>4. ASSUME NEW t \in Closers, CloseUnstart(t) PROVE LocksInv'
  <2>1. PICK d \in Channel : d = thread[t].target
    BY <1>0, ThreadFields, Threads DEF Closers
  <2>2. /\ Goes(t, "empty") /\ At(t, "unstart") /\ holder' = [holder EXCEPT ![d] = "nobody"]
        /\ Apart(d) /\ channel'[d].mutex = FALSE /\ sent' = sent
    BY <1>0, <1>4, <2>1, CloseUnstartDoes DEF host
  <2>3. /\ \A e \in Channel : PopIn(e)' <=> PopIn(e)
        /\ \A e \in Channel : RxIn(e)' <=> RxIn(e)
    BY <2>2, Threads DEF PopIn, RxIn, At, Target, Goes, Elsewhere, Closers
  <2>4. ASSUME NEW e \in Channel, e # d PROVE Locked(e)'
    <3>1. holder'[e] = holder[e] /\ channel'[e] = channel[e]
      BY <1>0, <2>2, <2>4 DEF Apart
    <3> QED BY <1>0, <2>3, <3>1, LockedStay
  <2>5. Locked(d)'
    BY <1>0, <2>2 DEF Locked
  <2> QED BY <2>4, <2>5 DEF LocksInv
<1>5. CASE /\ ~RxQueue /\ ~RxCount /\ \A t \in Closers : ~CloseUnstart(t)
           /\ \A c \in Channel : ~WorkerPop(c) /\ ~WorkerUncount(c)
  <2>1. holder' = holder
    <3>1. CASE HostStep
      BY <1>0, <3>1, HostDoes
    <3> QED BY <1>5, <3>1, Steps DEF RxReceive, RxExit, RxFindOpen, RxFindThread, Serve, WorkerExit,
         StartOpen, StartCreate, StartCreated, Trigger, StopTriggerFails, StopUnregistered, Respond,
         CloseMark, CloseJoin, CloseEmpty, Deinit, DeinitJoin, DeinitNext
  <2>2. ASSUME NEW c \in Channel, channel'[c].mutex = channel[c].mutex PROVE Locked(c)'
    <3>1. (RxIn(c)' <=> RxIn(c)) /\ (PopIn(c)' <=> PopIn(c))
      BY <1>5, RxInside, PopInside
    <3> QED BY <1>0, <2>1, <2>2, <3>1, LockedStay
  <2>3. CASE ~StartOpen
    <3>1. \A c \in Channel : channel'[c].mutex = channel[c].mutex
      <4>1. CASE \A c \in Channel : SameFlags(c)
        BY <4>1 DEF SameFlags
      <4>2. CASE StartCreate
        <5>1. PICK d \in Channel : d = thread[Control].target
          BY <1>0, ThreadFields, Threads
        <5>2. d # Control
          BY <4>2, <5>1, TargetIsData DEF StartCreate, At, Commands, Starting
        <5>3. \/ channel' = channel
              \/ Apart(d) /\ channel'[d].mutex = channel[d].mutex
          BY <1>0, <4>2, <5>1, <5>2, StartCreateDoes
        <5> QED BY <5>3 DEF Apart
      <4>3. CASE StartCreated
        <5>1. PICK d \in Channel : d = thread[Control].target
          BY <1>0, ThreadFields, Threads
        <5>2. Apart(d) /\ channel'[d].mutex = channel[d].mutex
          BY <1>0, <4>3, <5>1, StartCreatedDoes
        <5> QED BY <5>2 DEF Apart
      <4>4. ASSUME NEW t \in Closers, CloseMark(t)
            PROVE  \A c \in Channel : channel'[c].mutex = channel[c].mutex
        <5>1. PICK d \in Channel : d = thread[t].target
          BY <1>0, ThreadFields, Threads DEF Closers
        <5>2. Apart(d) /\ channel'[d].mutex = channel[d].mutex
          BY <1>0, <4>4, <5>1, CloseMarkDoes
        <5> QED BY <5>2 DEF Apart
      <4> QED BY <1>5, <2>3, <4>1, <4>2, <4>3, <4>4, FlagsChange
    <3> QED BY <2>2, <3>1 DEF LocksInv
  <2>4. CASE StartOpen
    <3>1. PICK d \in Channel : d = thread[Control].target
      BY <1>0, ThreadFields, Threads
    <3>2. Apart(d)
      BY <1>0, <2>4, <3>1, StartOpenDoes
    <3>3. Locked(d)'
      <4>1. CASE channel[d].registered
        <5>1. channel'[d].mutex = channel[d].mutex
          BY <1>0, <2>4, <3>1, <4>1, StartOpenDoes
        <5> QED BY <2>2, <5>1
      <4>2. CASE ~channel[d].registered
        <5>1. channel[d].mutex = FALSE /\ channel'[d].mutex = TRUE
          BY <1>0, <2>4, <3>1, <4>2, StartOpenDoes, Newly, ChannelFields DEF WorkerOf
        <5>2. ~RxIn(d)
          BY <4>2, TargetRegistered DEF RxIn, At, RxBusy
        <5>3. ~PopIn(d)
          BY <1>0, <4>2 DEF WorkerOf, Alive, PopIn, At
        <5>4. (RxIn(d)' <=> RxIn(d)) /\ (PopIn(d)' <=> PopIn(d))
          BY <1>5, RxInside, PopInside
        <5>5. holder'[d] = "nobody"
          BY <1>0, <2>1, <5>1 DEF Locked
        <5> QED BY <5>1, <5>2, <5>3, <5>4, <5>5, Threads DEF Locked
      <4> QED BY <4>1, <4>2
    <3>4. ASSUME NEW c \in Channel, c # d PROVE Locked(c)'
      BY <2>2, <3>2, <3>4 DEF Apart
    <3> QED BY <3>3, <3>4 DEF LocksInv
  <2> QED BY <2>3, <2>4
<1> QED BY <1>1, <1>2, <1>3, <1>4, <1>5
(* The places of a ring, two turns of it at most.                          *)
LEMMA Below == ASSUME NEW x \in Nat, x < QueueDepth PROVE x % QueueDepth = x
BY QueueFits

LEMMA Above ==
  ASSUME NEW x \in Nat, x >= QueueDepth, x < 2 * QueueDepth
  PROVE  x % QueueDepth = x - QueueDepth
BY QueueFits

LEMMA Ring ==
  ASSUME NEW h \in Slot
  PROVE  /\ h % QueueDepth = h /\ (h + 0) % QueueDepth = h /\ h \in Nat
         /\ \A i \in 0 .. QueueDepth :
              /\ (h + i) % QueueDepth \in Slot
              /\ i < QueueDepth => (((h + i) % QueueDepth) + 1) % QueueDepth = (h + (i + 1)) % QueueDepth
              /\ i < QueueDepth => (((h + 1) % QueueDepth) + i) % QueueDepth = (h + (i + 1)) % QueueDepth
         /\ \A i, j \in Slot : (h + i) % QueueDepth = (h + j) % QueueDepth => i = j
<1>1. h \in Nat /\ h < QueueDepth
  BY QueueFits DEF Slot
<1>2. h % QueueDepth = h /\ h + 0 = h
  BY <1>1, Below
<1>3. ASSUME NEW i \in 0 .. QueueDepth
      PROVE  (h + i) % QueueDepth = IF h + i < QueueDepth THEN h + i ELSE h + i - QueueDepth
  <2>1. h + i \in Nat /\ h + i < 2 * QueueDepth
    BY <1>1, QueueFits
  <2> QED BY <2>1, Below, Above, QueueFits
<1>4. ASSUME NEW i \in 0 .. QueueDepth PROVE (h + i) % QueueDepth \in Slot
  BY <1>1, QueueFits
<1>5. ASSUME NEW i \in 0 .. QueueDepth, i < QueueDepth
      PROVE  /\ (((h + i) % QueueDepth) + 1) % QueueDepth = (h + (i + 1)) % QueueDepth
             /\ (((h + 1) % QueueDepth) + i) % QueueDepth = (h + (i + 1)) % QueueDepth
  <2>1. PICK x \in Nat : x = (h + i) % QueueDepth
    BY <1>4, <1>5, QueueFits
  <2>2. PICK y \in Nat : y = (h + 1) % QueueDepth
    BY <1>1, QueueFits
  <2>3. PICK z \in Nat : z = (h + (i + 1)) % QueueDepth
    BY <1>1, QueueFits
  <2>4. /\ x = IF h + i < QueueDepth THEN h + i ELSE h + i - QueueDepth
        /\ y = IF h + 1 < QueueDepth THEN h + 1 ELSE h + 1 - QueueDepth
        /\ z = IF h + (i + 1) < QueueDepth THEN h + (i + 1) ELSE h + (i + 1) - QueueDepth
    BY <1>3, <1>5, <2>1, <2>2, <2>3, QueueFits
  <2>5. x < QueueDepth /\ y < QueueDepth
    BY <1>1, <1>5, <2>4, QueueFits
  <2>6. (x + 1) % QueueDepth = IF x + 1 < QueueDepth THEN x + 1 ELSE x + 1 - QueueDepth
    <3>1. x + 1 \in Nat /\ x + 1 < 2 * QueueDepth
      BY <2>5, QueueFits
    <3> QED BY <3>1, Below, Above, QueueFits
  <2>7. (y + i) % QueueDepth = IF y + i < QueueDepth THEN y + i ELSE y + i - QueueDepth
    <3>1. y + i \in Nat /\ y + i < 2 * QueueDepth
      BY <1>5, <2>5, QueueFits
    <3> QED BY <3>1, Below, Above, QueueFits
  <2>8. (x + 1) % QueueDepth = z /\ (y + i) % QueueDepth = z
    BY <1>1, <1>5, <2>4, <2>5, <2>6, <2>7, QueueFits
  <2> QED BY <2>1, <2>2, <2>3, <2>8
<1>6. ASSUME NEW i \in Slot, NEW j \in Slot, (h + i) % QueueDepth = (h + j) % QueueDepth
      PROVE  i = j
  <2>1. i \in 0 .. QueueDepth /\ j \in 0 .. QueueDepth /\ i < QueueDepth /\ j < QueueDepth
    BY QueueFits DEF Slot
  <2>2. /\ (h + i) % QueueDepth = IF h + i < QueueDepth THEN h + i ELSE h + i - QueueDepth
        /\ (h + j) % QueueDepth = IF h + j < QueueDepth THEN h + j ELSE h + j - QueueDepth
    BY <1>3, <2>1
  <2> HIDE DEF Slot
  <2> QED BY <1>1, <1>6, <2>1, <2>2, QueueFits
<1> QED BY <1>1, <1>2, <1>4, <1>5, <1>6

(* Which steps change a queue, and which call a handler.                   *)
LEMMA QueueStays ==
  ASSUME Inv, Next, NEW c \in Channel
  PROVE  \/ SameQueue(c)
         \/ (RxQueue \/ RxCount) /\ c = Target
         \/ WorkerPop(c) \/ WorkerUncount(c)
         \/ \E t \in Closers : CloseEmpty(t) /\ c = thread[t].target
<1>0. TypeOK /\ Typed /\ NumbersInv
  BY Types DEF Inv
<1>1. CASE channel' = channel
  BY <1>1 DEF SameQueue
<1>2. CASE RxQueue \/ RxCount
  <2>1. PICK e \in Channel : e = Target
    BY <1>0, <1>2, RequestOf DEF RxQueue, RxCount, At, RxBusy
  <2>2. channel' = channel \/ Apart(e)
    <3>1. CASE RxQueue
      BY <1>0, <2>1, <3>1, RxQueueDoes
    <3>2. CASE RxCount
      BY <1>0, <2>1, <3>2, RxCountDoes
    <3> QED BY <1>2, <3>1, <3>2
  <2> QED BY <1>2, <2>1, <2>2 DEF Apart, SameQueue
<1>3. ASSUME NEW e \in Channel, WorkerPop(e) \/ WorkerUncount(e), e # c PROVE SameQueue(c)
  <2>1. Apart(e)
    <3>1. CASE WorkerPop(e)
      BY <1>0, <3>1, WorkerPopDoes
    <3>2. CASE WorkerUncount(e)
      BY <1>0, <3>2, WorkerUncountDoes, ControlAsks
    <3> QED BY <1>3, <3>1, <3>2
  <2> QED BY <1>3, <2>1 DEF Apart, SameQueue
<1>4. CASE StartOpen \/ StartCreate \/ StartCreated
  <2>1. PICK d \in Channel : d = thread[Control].target
    BY <1>0, ThreadFields, Threads
  <2>2. d # Control
    BY <1>4, <2>1, TargetIsData DEF StartOpen, StartCreate, StartCreated, At, Commands, Starting
  <2>3. channel' = channel \/ (Apart(d) /\ SameQueue(d))
    <3>1. CASE StartOpen
      <4>1. CASE channel[d].registered
        BY <1>0, <2>1, <3>1, <4>1, StartOpenDoes
      <4>2. CASE ~channel[d].registered
        <5>1. channel[d] = Unregistered
          BY <4>2 DEF Inv, WorkersInv, WorkerOf
        <5> QED BY <1>0, <2>1, <3>1, <4>2, <5>1, StartOpenDoes, Newly DEF SameQueue
      <4> QED BY <4>1, <4>2
    <3>2. CASE StartCreate
      BY <1>0, <2>1, <2>2, <3>2, StartCreateDoes
    <3>3. CASE StartCreated
      BY <1>0, <2>1, <3>3, StartCreatedDoes
    <3> QED BY <1>4, <3>1, <3>2, <3>3
  <2> QED BY <2>3 DEF Apart, SameQueue
<1>5. ASSUME NEW t \in Closers, CloseMark(t) \/ CloseUnstart(t) \/ CloseEmpty(t)
      PROVE  SameQueue(c) \/ (CloseEmpty(t) /\ c = thread[t].target)
  <2>1. PICK d \in Channel : d = thread[t].target
    BY <1>0, ThreadFields, Threads DEF Closers
  <2>2. Apart(d) /\ (SameQueue(d) \/ CloseEmpty(t))
    <3>1. CASE CloseMark(t)
      BY <1>0, <2>1, <3>1, CloseMarkDoes
    <3>2. CASE CloseUnstart(t)
      BY <1>0, <2>1, <3>2, CloseUnstartDoes
    <3>3. CASE CloseEmpty(t)
      BY <1>0, <2>1, <3>3, CloseEmptyDoes
    <3> QED BY <1>5, <3>1, <3>2, <3>3
  <2> QED BY <2>1, <2>2 DEF Apart, SameQueue
<1>6. CASE HostStep
  <2>1. channel' = channel
    BY <1>0, <1>6, HostDoes
  <2> QED BY <1>1, <2>1
<1> QED BY <1>1, <1>2, <1>3, <1>4, <1>5, <1>6, Steps DEF RxReceive, RxExit, RxFindOpen, RxFindThread,
     Serve, WorkerExit, Trigger, StopTriggerFails, StopUnregistered, Respond, CloseJoin,
     Deinit, DeinitJoin, DeinitNext

LEMMA HandledStays ==
  ASSUME Inv, Next
  PROVE  handled' = handled \/ RxFindThread \/ \E c \in Channel : WorkerUncount(c)
<1>1. CASE HostStep
  BY <1>1, HostDoes DEF Inv
<1> QED BY <1>1, Steps DEF RxReceive, RxExit, RxFindOpen, RxQueue, RxCount, Serve, WorkerExit,
     WorkerPop, StartOpen, StartCreate, StartCreated, Trigger, StopTriggerFails,
     StopUnregistered, Respond, CloseMark, CloseJoin, CloseUnstart, CloseEmpty,
     Deinit, DeinitJoin, DeinitNext

(* The sizes that the queue of a channel goes through.                     *)
LEMMA HeldFits ==
  ASSUME Inv, NEW c \in Channel, Fifo(c)
  PROVE  /\ Held(c) \in 0 .. QueueDepth /\ channel[c].count \in 0 .. QueueDepth
         /\ channel[c].head \in Slot /\ channel[c].tail \in Slot
         /\ thread[c].count \in 0 .. QueueDepth
         /\ PopIn(c) => channel[c].count > 0
         /\ RxIn(c) => channel[c].count < QueueDepth
<1>0. TypeOK /\ Typed /\ NumbersInv
  BY Types DEF Inv
<1>1. /\ channel[c].count \in 0 .. QueueDepth
      /\ channel[c].head \in Slot /\ channel[c].tail \in Slot
  BY <1>0, ChannelFields
<1>2. thread[c].count \in 0 .. QueueDepth
  BY <1>0, ThreadFields, Threads
<1>3. PopIn(c) => channel[c].count > 0
  BY <1>0 DEF NumbersInv, Fifo
<1>4. RxIn(c) => channel[c].count < QueueDepth
  BY <1>0 DEF NumbersInv, Fifo, RxIn
<1>5. Held(c) \in 0 .. QueueDepth
  BY <1>1, <1>3, <1>4, QueueFits DEF Held
<1> QED BY <1>1, <1>2, <1>3, <1>4, <1>5

(* What was handled keeps its channel.                                     *)
LEMMA HandledStands ==
  ASSUME Inv, Next
  PROVE  /\ \A k \in 1 .. Len(handled) :
              /\ k \in 1 .. Len(handled') /\ handled'[k] = handled[k] /\ handled[k] \in Nat
              /\ handled[k] # 0 => /\ handled[k] \in 1 .. Len(sent)
                                   /\ sent'[handled[k]] = sent[handled[k]]
         /\ \A n \in 1 .. Len(sent) : sent'[n] = sent[n]
         /\ \A t \in Thread : /\ thread[t].request \in Nat
                              /\ thread[t].request # 0 => thread[t].request \in 1 .. Len(sent)
<1>0. TypeOK /\ NumbersInv
  BY DEF Inv
<1>1. Len(sent) \in Nat /\ Len(handled) \in Nat /\ received \in Nat /\ received <= Len(sent)
  BY <1>0, Numbers
<1>2. Grows(sent, sent') /\ Grows(handled, handled')
  BY Grown
<1>3. Len(handled') \in Nat
  <2>1. handled' \in Seq(Request \cup {Nothing})
    BY TypedNext DEF TypeOK
  <2> QED BY <2>1
<1>4. ASSUME NEW k \in 1 .. Len(handled)
      PROVE  /\ k \in 1 .. Len(handled') /\ handled'[k] = handled[k] /\ handled[k] \in Nat
             /\ handled[k] # 0 => /\ handled[k] \in 1 .. Len(sent)
                                  /\ sent'[handled[k]] = sent[handled[k]]
  <2>1. handled[k] \in Nat /\ handled[k] <= received
    BY <1>0, Naturals DEF NumbersInv
  <2>2. handled[k] # 0 => handled[k] \in 1 .. Len(sent)
    BY <1>1, <2>1
  <2>3. k \in 1 .. Len(handled') /\ handled'[k] = handled[k]
    BY <1>1, <1>2, <1>3 DEF Grows
  <2> QED BY <1>2, <2>1, <2>2, <2>3 DEF Grows
<1>5. ASSUME NEW t \in Thread
      PROVE  /\ thread[t].request \in Nat
             /\ thread[t].request # 0 => thread[t].request \in 1 .. Len(sent)
  <2>1. thread[t].request \in Nat /\ thread[t].request <= received
    BY <1>0, Naturals DEF NumbersInv
  <2> QED BY <1>1, <2>1
<1> QED BY <1>2, <1>4, <1>5 DEF Grows

(* A queue stays in order when nobody touches it and nothing of its channel*)
(* is handled, or there is nothing in it.                                  *)
LEMMA FifoStay ==
  ASSUME Inv, Next, NEW c \in Channel, Fifo(c), SameQueue(c),
         RxIn(c)' <=> RxIn(c), PopIn(c)' <=> PopIn(c),
         RxIn(c) => thread'["rx"].count = thread["rx"].count,
         PopIn(c) => /\ thread'[c].count = thread[c].count
                     /\ thread'[c].request = thread[c].request,
         \A k \in 1 .. Len(handled') :
           \/ k \in 1 .. Len(handled)
           \/ handled'[k] = 0
           \/ handled'[k] \in 1 .. Len(sent) /\ sent[handled'[k]].channel # c
           \/ Held(c) = 0 /\ ~PopIn(c)
  PROVE  Fifo(c)'
<1>1. Held(c)' = Held(c)
  BY DEF SameQueue, Held
<1>2. \A i \in 0 .. Held(c) - 1 : Item(c, i)' = Item(c, i)
  BY DEF SameQueue, Item
<1>3. ASSUME NEW k \in 1 .. Len(handled'), handled'[k] # 0, sent'[handled'[k]].channel = c
      PROVE  /\ \A i \in 0 .. Held(c) - 1 : handled'[k] < Item(c, i)
             /\ PopIn(c) => handled'[k] < thread[c].request
  <2>1. CASE k \in 1 .. Len(handled)
    <3>1. handled[k] # 0 /\ sent[handled[k]].channel = c /\ handled'[k] = handled[k]
      BY <1>3, <2>1, HandledStands
    <3> QED BY <2>1, <3>1 DEF Fifo
  <2>2. CASE handled'[k] \in 1 .. Len(sent) /\ sent[handled'[k]].channel # c
    BY <1>3, <2>2, HandledStands
  <2>3. CASE Held(c) = 0 /\ ~PopIn(c)
    BY <2>3
  <2> QED BY <1>3, <2>1, <2>2, <2>3
<1>4. ~(RxIn(c) /\ PopIn(c))' /\ (RxIn(c) => thread'["rx"].count = channel'[c].count)
      /\ (PopIn(c) => thread'[c].count = channel'[c].count /\ thread'[c].request # 0)
  BY DEF Fifo, SameQueue
<1>5. channel'[c].tail = (channel'[c].head + Held(c)) % QueueDepth
  BY DEF Fifo, SameQueue
<1>6. /\ \A i \in 0 .. Held(c) - 1 : Item(c, i)' # 0
      /\ \A i, j \in 0 .. Held(c) - 1 : i < j => Item(c, i)' < Item(c, j)'
      /\ PopIn(c) => \A i \in 0 .. Held(c) - 1 : thread'[c].request < Item(c, i)'
  BY <1>2 DEF Fifo
<1>7. \A k \in 1 .. Len(handled') : handled'[k] # 0 /\ sent'[handled'[k]].channel = c =>
        /\ \A i \in 0 .. Held(c) - 1 : handled'[k] < Item(c, i)'
        /\ PopIn(c) => handled'[k] < thread'[c].request
  BY <1>2, <1>3
<1> QED BY <1>1, <1>4, <1>5, <1>6, <1>7 DEF Fifo

(* The queue is as before, and so is all that Fifo compares it with.       *)
LEMMA FifoAgain ==
  ASSUME Inv, Next, NEW c \in Channel, Fifo(c), handled' = handled,
         ~(RxIn(c)' /\ PopIn(c)'),
         RxIn(c)' => thread'["rx"].count = channel'[c].count,
         PopIn(c)' => thread'[c].count = channel'[c].count /\ thread'[c].request # 0,
         NEW n \in 0 .. QueueDepth, Held(c)' = n,
         channel'[c].tail = (channel'[c].head + n) % QueueDepth,
         \A i \in 0 .. n - 1 : Item(c, i)' # 0,
         \A i, j \in 0 .. n - 1 : i < j => Item(c, i)' < Item(c, j)',
         PopIn(c)' => \A i \in 0 .. n - 1 : thread'[c].request < Item(c, i)',
         \A k \in 1 .. Len(handled) : handled[k] # 0 /\ sent[handled[k]].channel = c =>
           /\ \A i \in 0 .. n - 1 : handled[k] < Item(c, i)'
           /\ PopIn(c)' => handled[k] < thread'[c].request
  PROVE  Fifo(c)'
<1>1. \A k \in 1 .. Len(handled') : handled'[k] # 0 /\ sent'[handled'[k]].channel = c =>
        /\ \A i \in 0 .. n - 1 : handled'[k] < Item(c, i)'
        /\ PopIn(c)' => handled'[k] < thread'[c].request
  BY HandledStands
<1> QED BY <1>1 DEF Fifo

(* "rx" puts a request behind those that are queued.                       *)
LEMMA QueueKeepsFifo ==
  ASSUME Inv, Next, RxQueue, NEW c \in Channel, c = Target, Fifo(c), Sound(c)
  PROVE  Fifo(c)'
<1>0. TypeOK /\ Typed /\ NumbersInv /\ WorkersInv /\ LocksInv /\ OneInv
  BY Types DEF Inv
<1>1. At("rx", "queue") /\ ~RxIn(c) /\ thread["rx"].at \in RxBusy /\ thread["rx"].at \in Early
  BY DEF RxQueue, At, RxIn, RxBusy, Early
<1>2. ~PopIn(c)
  <2>1. CASE channel[c].mutex
    BY <1>0, <2>1, Threads DEF RxQueue, CanLock, LocksInv, Locked
  <2>2. CASE ~channel[c].mutex
    <3>1. manner.waits
      BY <1>1, <2>2, TargetRegistered DEF Sound
    <3> QED BY <1>0, <1>1, <3>1 DEF OneInv, RxWorks, Working, PopIn, At
  <2> QED BY <2>1, <2>2
<1>3. CASE Rests("rx", "loop") /\ UNCHANGED <<channel, holder>> /\ handled' = handled
  <2>1. RxIn(c)' <=> RxIn(c)
    BY <1>1, <1>3 DEF RxIn, At, Rests
  <2>2. PopIn(c)' <=> PopIn(c)
    BY <1>3, Threads DEF PopIn, At, Rests, Elsewhere
  <2>3. \A k \in 1 .. Len(handled') : k \in 1 .. Len(handled)
    BY <1>3
  <2> QED BY <1>1, <1>2, <1>3, <2>1, <2>2, <2>3, FifoStay DEF SameQueue
<1>4. CASE /\ channel[c].count < QueueDepth
           /\ Elsewhere("rx") /\ thread'["rx"].at = "count"
           /\ thread'["rx"].request = thread["rx"].request
           /\ thread'["rx"].count = channel[c].count
           /\ channel'[c].queue = [channel[c].queue EXCEPT ![channel[c].tail] = thread["rx"].request]
           /\ channel'[c].tail = (channel[c].tail + 1) % QueueDepth
           /\ channel'[c].head = channel[c].head
           /\ channel'[c].count = channel[c].count
           /\ sent' = sent /\ handled' = handled
  <2>1. PICK m \in 0 .. QueueDepth : m = channel[c].count
    BY HeldFits
  <2>2. m < QueueDepth /\ Held(c) = m
    BY <1>1, <1>2, <1>4, <2>1 DEF Held
  <2>3. RxIn(c)' /\ ~PopIn(c)'
    BY <1>2, <1>4, Threads DEF RxIn, PopIn, At, Target, Elsewhere
  <2>4. Held(c)' = m + 1 /\ m + 1 \in 0 .. QueueDepth
    BY <1>4, <2>1, <2>2, <2>3, QueueFits DEF Held
  <2>5. PICK h \in Slot : h = channel[c].head
    BY HeldFits
  <2>6. channel[c].tail = (h + m) % QueueDepth
    BY <2>2, <2>5 DEF Fifo
  <2>7. channel'[c].tail = (channel'[c].head + (m + 1)) % QueueDepth
    BY <1>4, <2>2, <2>5, <2>6, Ring
  <2>8. channel[c].queue \in [Slot -> Request \cup {Nothing}] /\ channel[c].tail \in Slot
    BY <1>0, ChannelFields
  <2>9. ASSUME NEW i \in 0 .. m - 1
        PROVE  /\ Item(c, i)' = Item(c, i) /\ Item(c, i) \in Nat
               /\ Item(c, i) < received
    <3>1. i \in Slot /\ m \in Slot /\ i # m /\ i \in 0 .. QueueDepth
      BY <2>2, QueueFits DEF Slot
    <3>2. PICK x \in Slot : x = (h + i) % QueueDepth
      BY <2>5, <3>1, Ring
    <3>3. x # channel[c].tail
      BY <2>5, <2>6, <3>1, <3>2, Ring
    <3>4. channel'[c].queue[x] = channel[c].queue[x]
      BY <1>4, <2>8, <3>3
    <3>5. channel[c].queue[x] \in Nat /\ channel[c].queue[x] < received
      BY <1>0, <1>1, Naturals DEF NumbersInv
    <3> QED BY <1>4, <2>5, <3>2, <3>4, <3>5 DEF Item
  <2>10. Item(c, m)' = received /\ received # 0 /\ received \in Nat
    <3>1. channel'[c].queue[channel[c].tail] = thread["rx"].request
      BY <1>4, <2>8
    <3> QED BY <1>0, <1>1, <1>4, <2>5, <2>6, <3>1, RequestOf, Numbers DEF Item, NumbersInv
  <2>11. \A i \in 0 .. (m + 1) - 1 : i \in 0 .. m - 1 \/ i = m
    BY <2>1
  <2>12. \A i \in 0 .. m - 1 : Item(c, i) # 0
    BY <2>2 DEF Fifo
  <2>13. \A i, j \in 0 .. m - 1 : i < j => Item(c, i) < Item(c, j)
    BY <2>2 DEF Fifo
  <2>14. \A i \in 0 .. (m + 1) - 1 : Item(c, i)' # 0
    BY <2>9, <2>10, <2>11, <2>12
  <2>15. \A i, j \in 0 .. (m + 1) - 1 : i < j => Item(c, i)' < Item(c, j)'
    BY <2>9, <2>10, <2>11, <2>13
  <2>16. \A k \in 1 .. Len(handled) : handled[k] # 0 /\ sent[handled[k]].channel = c =>
           \A i \in 0 .. (m + 1) - 1 : handled[k] < Item(c, i)'
    <3>1. ASSUME NEW k \in 1 .. Len(handled), handled[k] # 0, sent[handled[k]].channel = c,
                 NEW i \in 0 .. (m + 1) - 1
          PROVE  handled[k] < Item(c, i)'
      <4>1. handled[k] < received
        BY <1>0, <1>1 DEF NumbersInv
      <4>2. i \in 0 .. m - 1 => handled[k] < Item(c, i)
        BY <2>2, <3>1 DEF Fifo
      <4> QED BY <2>9, <2>10, <2>11, <4>1, <4>2
    <3> QED BY <3>1
  <2>17. thread'["rx"].count = channel'[c].count
    BY <1>4
  <2> QED BY <1>4, <2>3, <2>4, <2>7, <2>14, <2>15, <2>16, <2>17, FifoAgain
<1> QED BY <1>0, <1>3, <1>4, RxQueueDoes DEF host

(* "rx" counts it in.                                                      *)
LEMMA CountKeepsFifo ==
  ASSUME Inv, Next, RxCount, NEW c \in Channel, c = Target, Fifo(c)
  PROVE  Fifo(c)'
<1>0. TypeOK /\ Typed /\ NumbersInv
  BY Types DEF Inv
<1>1. /\ At("rx", "count") /\ Rests("rx", "loop") /\ handled' = handled /\ sent' = sent
      /\ channel'[c].queue = channel[c].queue /\ channel'[c].head = channel[c].head
      /\ channel'[c].tail = channel[c].tail
      /\ channel'[c].count = thread["rx"].count + 1
  BY <1>0, RxCountDoes DEF host
<1>2. RxIn(c) /\ ~PopIn(c) /\ thread["rx"].count = channel[c].count
  BY <1>1 DEF RxIn, Fifo
<1>3. ~RxIn(c)' /\ ~PopIn(c)'
  BY <1>1, <1>2, Threads DEF RxIn, PopIn, At, Rests, Elsewhere
<1>4. PICK n \in 0 .. QueueDepth : n = Held(c)
  BY HeldFits
<1>5. Held(c)' = n
  BY <1>1, <1>2, <1>3, <1>4 DEF Held
<1>6. \A i \in 0 .. n - 1 : Item(c, i)' = Item(c, i)
  BY <1>1 DEF Item
<1>7. channel'[c].tail = (channel'[c].head + n) % QueueDepth
  BY <1>1, <1>4 DEF Fifo
<1>8. /\ \A i \in 0 .. n - 1 : Item(c, i)' # 0
      /\ \A i, j \in 0 .. n - 1 : i < j => Item(c, i)' < Item(c, j)'
  BY <1>4, <1>6 DEF Fifo
<1>9. \A k \in 1 .. Len(handled) : handled[k] # 0 /\ sent[handled[k]].channel = c =>
        \A i \in 0 .. n - 1 : handled[k] < Item(c, i)'
  BY <1>4, <1>6 DEF Fifo
<1> QED BY <1>1, <1>3, <1>5, <1>7, <1>8, <1>9, FifoAgain

(* The worker takes the first.                                             *)
LEMMA PopKeepsFifo ==
  ASSUME Inv, Next, NEW c \in Channel, WorkerPop(c), Fifo(c), Sound(c)
  PROVE  Fifo(c)'
<1>0. TypeOK /\ Typed /\ NumbersInv /\ WorkersInv /\ LocksInv /\ OneInv
  BY Types DEF Inv
<1>1. /\ At(c, "loop") /\ CanLock(c) /\ channel[c].count > 0 /\ Elsewhere(c)
      /\ thread'[c].at = "uncount" /\ thread'[c].request = channel[c].queue[channel[c].head]
      /\ thread'[c].count = channel[c].count
      /\ channel'[c].queue = channel[c].queue
      /\ channel'[c].head = (channel[c].head + 1) % QueueDepth
      /\ channel'[c].tail = channel[c].tail /\ channel'[c].count = channel[c].count
      /\ sent' = sent /\ handled' = handled
  BY <1>0, WorkerPopDoes DEF host
<1>2. ~PopIn(c) /\ PopIn(c)'
  BY <1>1 DEF PopIn, At
<1>3. ~RxIn(c)
  <2>1. CASE channel[c].mutex
    BY <1>0, <1>1, <2>1, Threads DEF CanLock, LocksInv, Locked
  <2>2. CASE ~channel[c].mutex
    <3>1. channel[c].registered
      BY <1>0, <1>1 DEF WorkersInv, WorkerOf, Alive, At
    <3>2. manner.waits
      BY <2>2, <3>1 DEF Sound
    <3>3. Queued(c)
      BY <1>0, <1>1, <1>2, ChannelFields DEF Queued
    <3> QED BY <1>0, <3>2, <3>3 DEF OneInv, RxWorks, RxIn, At, RxBusy
  <2> QED BY <2>1, <2>2
<1>4. ~RxIn(c)'
  BY <1>1, <1>3, Threads DEF RxIn, At, Target, Elsewhere
<1>5. PICK m \in 0 .. QueueDepth : m = channel[c].count
  BY HeldFits
<1>6. m > 0 /\ Held(c) = m /\ Held(c)' = m - 1 /\ m - 1 \in 0 .. QueueDepth /\ m - 1 < QueueDepth
  BY <1>1, <1>2, <1>3, <1>4, <1>5, QueueFits DEF Held
<1>7. PICK h \in Slot : h = channel[c].head
  BY HeldFits
<1>8. channel'[c].tail = (channel'[c].head + (m - 1)) % QueueDepth
  <2>1. (h + ((m - 1) + 1)) = h + m
    BY <1>5, <1>7, QueueFits
  <2>2. channel[c].tail = (h + m) % QueueDepth
    BY <1>6, <1>7 DEF Fifo
  <2> QED BY <1>1, <1>6, <1>7, <2>1, <2>2, Ring
<1>9. thread'[c].request = Item(c, 0)
  <2>1. (h + 0) % QueueDepth = h
    BY Ring
  <2> QED BY <1>1, <1>7, <2>1 DEF Item
<1>10. ASSUME NEW i \in 0 .. (m - 1) - 1
       PROVE  Item(c, i)' = Item(c, i + 1) /\ i + 1 \in 0 .. m - 1 /\ i + 1 > 0
  <2>1. i \in 0 .. QueueDepth /\ i < QueueDepth /\ i + 1 \in 0 .. m - 1 /\ i + 1 > 0
    BY <1>5, QueueFits
  <2> QED BY <1>1, <1>7, <2>1, Ring DEF Item
<1>11. /\ \A i \in 0 .. m - 1 : Item(c, i) # 0
       /\ \A i, j \in 0 .. m - 1 : i < j => Item(c, i) < Item(c, j)
       /\ \A k \in 1 .. Len(handled) : handled[k] # 0 /\ sent[handled[k]].channel = c =>
            \A i \in 0 .. m - 1 : handled[k] < Item(c, i)
  BY <1>6 DEF Fifo
<1>12. 0 \in 0 .. m - 1
  BY <1>5, <1>6
<1>13. \A i \in 0 .. (m - 1) - 1 : Item(c, i)' # 0
  BY <1>10, <1>11
<1>14. ASSUME NEW i \in 0 .. (m - 1) - 1, NEW j \in 0 .. (m - 1) - 1, i < j
       PROVE  Item(c, i)' < Item(c, j)'
  <2>1. i + 1 < j + 1
    BY <1>14
  <2> QED BY <1>10, <1>11, <2>1
<1>15. \A i \in 0 .. (m - 1) - 1 : thread'[c].request < Item(c, i)'
  BY <1>9, <1>10, <1>11, <1>12
<1>16. \A k \in 1 .. Len(handled) : handled[k] # 0 /\ sent[handled[k]].channel = c =>
         /\ \A i \in 0 .. (m - 1) - 1 : handled[k] < Item(c, i)'
         /\ handled[k] < thread'[c].request
  BY <1>9, <1>10, <1>11, <1>12
<1>17. thread'[c].count = channel'[c].count /\ thread'[c].request # 0
  BY <1>1, <1>9, <1>11, <1>12
<1> QED BY <1>1, <1>4, <1>6, <1>8, <1>13, <1>14, <1>15, <1>16, <1>17, FifoAgain

(* The worker counts it out and handles it.                                *)
LEMMA UncountKeepsFifo ==
  ASSUME Inv, Next, NEW c \in Channel, WorkerUncount(c), Fifo(c)
  PROVE  Fifo(c)'
<1>0. TypeOK /\ Typed /\ NumbersInv
  BY Types DEF Inv
<1>1. /\ At(c, "uncount") /\ Elsewhere(c) /\ handled' = Append(handled, thread[c].request)
      /\ thread'[c].request = thread[c].request
      /\ channel'[c].queue = channel[c].queue /\ channel'[c].head = channel[c].head
      /\ channel'[c].tail = channel[c].tail /\ channel'[c].count = thread[c].count - 1
      /\ sent' = sent
  BY <1>0, WorkerUncountDoes, ControlAsks DEF host
<1>2. thread'[c].at # "uncount"
  BY <1>0, WorkerUncountDoes, ControlAsks
<1>3. PopIn(c) /\ ~PopIn(c)' /\ ~RxIn(c)
  BY <1>1, <1>2 DEF PopIn, At, Fifo
<1>4. ~RxIn(c)'
  BY <1>1, <1>3, Threads DEF RxIn, At, Target, Elsewhere
<1>5. PICK n \in 0 .. QueueDepth : n = Held(c)
  BY HeldFits
<1>6. Held(c)' = n
  BY <1>1, <1>3, <1>4, <1>5 DEF Held, Fifo
<1>7. \A i \in 0 .. n - 1 : Item(c, i)' = Item(c, i)
  BY <1>1 DEF Item
<1>8. channel'[c].tail = (channel'[c].head + n) % QueueDepth
  BY <1>1, <1>5 DEF Fifo
<1>9. /\ \A i \in 0 .. n - 1 : Item(c, i)' # 0
      /\ \A i, j \in 0 .. n - 1 : i < j => Item(c, i)' < Item(c, j)'
  BY <1>5, <1>7 DEF Fifo
<1>10. PICK r \in Request \cup {Nothing} : r = thread[c].request
  BY <1>0, ThreadFields, Threads
<1>11. /\ Len(handled') = Len(handled) + 1 /\ handled'[Len(handled) + 1] = r
       /\ \A k \in 1 .. Len(handled) : handled'[k] = handled[k]
       /\ Len(handled) \in Nat
  BY <1>0, <1>1, <1>10, HandledGrow, Numbers DEF Grows
<1>12. ASSUME NEW k \in 1 .. Len(handled'), handled'[k] # 0, sent'[handled'[k]].channel = c
       PROVE  \A i \in 0 .. n - 1 : handled'[k] < Item(c, i)'
  <2>1. CASE k \in 1 .. Len(handled)
    <3>1. handled[k] # 0 /\ sent[handled[k]].channel = c /\ handled'[k] = handled[k]
      BY <1>1, <1>11, <1>12, <2>1
    <3> QED BY <1>5, <1>7, <2>1, <3>1 DEF Fifo
  <2>2. CASE k = Len(handled) + 1
    <3>1. \A i \in 0 .. n - 1 : thread[c].request < Item(c, i)
      BY <1>3, <1>5 DEF Fifo
    <3> QED BY <1>7, <1>10, <1>11, <2>2, <3>1
  <2> QED BY <1>11, <1>12, <2>1, <2>2
<1> QED BY <1>3, <1>4, <1>6, <1>8, <1>9, <1>12 DEF Fifo

(* Closing empties what nobody is in.                                      *)
LEMMA EmptyKeepsFifo ==
  ASSUME Inv, Next, NEW t \in Closers, CloseEmpty(t), NEW c \in Channel, c = thread[t].target,
         Sound(c)
  PROVE  Fifo(c)'
<1>0. TypeOK /\ Typed /\ WorkersInv /\ MainInv /\ OneInv
  BY Types DEF Inv
<1>1. /\ At(t, "empty") /\ Goes(t, Closed(t))
      /\ channel'[c].head = 0 /\ channel'[c].tail = 0 /\ channel'[c].count = 0
  BY <1>0, CloseEmptyDoes
<1>2. ~PopIn(c) /\ ~channel[c].mutex /\ channel[c].registered
  BY <1>0, <1>1 DEF WorkersInv, CloserOf, Alive, PopIn, At
<1>3. manner.waits
  BY <1>2 DEF Sound
<1>4. ~At("rx", "count")
  <2>1. CASE t = Control
    <3>1. Working(Control)
      BY <1>1, <2>1 DEF Working, At
    <3> QED BY <1>0, <1>3, <3>1, Threads DEF OneInv, RxWorks, RxBusy, At
  <2>2. CASE t = "main"
    BY <1>0, <1>1, <2>2 DEF MainInv, Main, At
  <2> QED BY <2>1, <2>2 DEF Closers
<1>5. ~RxIn(c)'
  BY <1>1, <1>4, Threads DEF RxIn, At, Goes, Elsewhere, Closers
<1>6. ~PopIn(c)'
  <2>1. CASE c = t
    BY <1>1, <2>1 DEF PopIn, At, Goes, Closed
  <2>2. CASE c # t
    BY <1>1, <1>2, <2>2, Threads DEF PopIn, At, Goes, Elsewhere
  <2> QED BY <2>1, <2>2
<1>7. Held(c)' = 0
  BY <1>1, <1>5, <1>6 DEF Held
<1>8. channel'[c].tail = (channel'[c].head + 0) % QueueDepth
  <2>1. 0 \in Slot
    BY QueueFits DEF Slot
  <2> QED BY <1>1, <2>1, Ring
<1> QED BY <1>5, <1>6, <1>7, <1>8 DEF Fifo

(* A request that "rx" handles itself finds its queue empty.               *)
LEMMA FindServesEmpty ==
  ASSUME Inv, RxFindThread, ~channel[Target].started, NEW c \in Channel, c = Target, Sound(c)
  PROVE  Held(c) = 0 /\ ~PopIn(c)
<1>0. TypeOK /\ Typed /\ NumbersInv /\ StreamsInv /\ OneInv
  BY Types DEF Inv
<1>1. thread["rx"].at \in RxBusy /\ ~RxIn(c)
  BY DEF RxFindThread, At, RxBusy, RxIn
<1>2. Target \in Data /\ sent[received].command = "data" /\ received \in 1 .. Len(sent)
  BY <1>0, <1>1, FindsData, RequestOf
<1>3. ~channel[c].mutex /\ channel[c].registered
  <2>1. Target = sent[received].channel
    BY <1>0, <1>1, RequestOf
  <2>2. sent[received].target = c /\ HasStarted(c)
    BY <1>0, <1>2, <2>1 DEF StreamsInv
  <2> QED BY <2>2 DEF HasStarted
<1>4. manner.waits
  BY <1>3 DEF Sound
<1>5. ~Queued(c) /\ ~Working(c)
  BY <1>0, <1>1, <1>4 DEF OneInv, RxWorks
<1>6. ~PopIn(c)
  BY <1>5 DEF Working, PopIn, At
<1>7. channel[c].count = 0
  BY <1>5, <1>6 DEF Queued
<1> QED BY <1>1, <1>6, <1>7 DEF Held

LEMMA SoundBefore ==
  ASSUME Inv, Next, NEW c \in Channel, Sound(c)'
  PROVE  Sound(c)
<1>1. manner' = manner
  BY Grown
<1>2. /\ channel[c].registered => channel'[c].registered
      /\ channel[c].registered /\ ~channel[c].mutex => ~channel'[c].mutex
  BY FlagsMove
<1> QED BY <1>1, <1>2 DEF Sound

LEMMA FifoKept ==
  ASSUME Inv, Next
  PROVE  FifoInv'
<1>0. TypeOK /\ Typed /\ NumbersInv /\ FifoInv
  BY Types DEF Inv
<1> SUFFICES ASSUME NEW c \in Channel, Sound(c)' PROVE Fifo(c)'
  BY DEF FifoInv
<1>1. Sound(c) /\ Fifo(c)
  BY <1>0, SoundBefore DEF FifoInv
<1>2. CASE (RxQueue \/ RxCount) /\ c = Target
  BY <1>1, <1>2, QueueKeepsFifo, CountKeepsFifo
<1>3. CASE WorkerPop(c) \/ WorkerUncount(c)
  BY <1>1, <1>3, PopKeepsFifo, UncountKeepsFifo
<1>4. ASSUME NEW t \in Closers, CloseEmpty(t), c = thread[t].target PROVE Fifo(c)'
  BY <1>1, <1>4, EmptyKeepsFifo
<1>5. CASE /\ SameQueue(c) /\ ~((RxQueue \/ RxCount) /\ c = Target)
           /\ ~WorkerPop(c) /\ ~WorkerUncount(c)
  <2>1. PopIn(c)' <=> PopIn(c)
    BY <1>5, PopInside
  <2>2. PopIn(c) => thread'[c] = thread[c]
    <3>1. PopIn(c) => thread[c].at = "uncount"
      BY DEF PopIn, At
    <3> QED BY <1>5, <3>1, WorkerAlone DEF WorkerExit, Serve, At, Commands, Starting, Closing
  <2>3. RxIn(c)' <=> RxIn(c)
    <3>1. CASE RxQueue \/ RxCount
      <4>1. Elsewhere("rx") \/ Rests("rx", "loop")
        BY <1>0, <3>1, RxQueueDoes, RxCountDoes
      <4>2. thread'["rx"].request = thread["rx"].request \/ thread'["rx"].at = "loop"
        BY <1>0, <3>1, RxQueueDoes, RxCountDoes DEF Rests
      <4>3. sent' = sent
        BY <3>1 DEF RxQueue, RxCount, host
      <4>4. c # Target
        BY <1>5, <3>1
      <4> QED BY <4>2, <4>3, <4>4 DEF RxIn, At, Target
    <3>2. CASE ~RxQueue /\ ~RxCount
      BY <3>2, RxInside
    <3> QED BY <3>1, <3>2
  <2>4. RxIn(c) => thread'["rx"] = thread["rx"]
    <3>1. RxIn(c) => thread["rx"].at = "count" /\ ~RxCount
      BY <1>5 DEF RxIn, At
    <3> QED BY <3>1, RxAlone DEF RxStep, RxReceive, RxExit, RxFindOpen, RxFindThread, RxQueue,
         Serve, DeinitJoin, At
  <2>5. ASSUME NEW k \in 1 .. Len(handled')
        PROVE  \/ k \in 1 .. Len(handled)
               \/ handled'[k] = 0
               \/ handled'[k] \in 1 .. Len(sent) /\ sent[handled'[k]].channel # c
               \/ Held(c) = 0 /\ ~PopIn(c)
    <3>1. CASE handled' = handled
      BY <2>5, <3>1
    <3>2. CASE RxFindThread
      <4>1. /\ thread["rx"].at \in RxBusy /\ At("rx", "started?")
        BY <3>2 DEF RxFindThread, At, RxBusy
      <4>2. /\ thread["rx"].request = received /\ received \in 1 .. Len(sent)
            /\ Target = sent[received].channel /\ Target \in Channel
        BY <1>0, <4>1, RequestOf
      <4>3. CASE handled' = handled
        BY <2>5, <4>3
      <4>4. CASE ~channel[Target].started /\ handled' = Append(handled, thread["rx"].request)
        <5>1. PICK n \in Request \cup {Nothing} : n = thread["rx"].request
          BY <1>0, ThreadFields, Threads
        <5>2. Len(handled') = Len(handled) + 1 /\ handled'[Len(handled) + 1] = received
          BY <1>0, <4>2, <4>4, <5>1, HandledGrow
        <5>3. c = Target => Held(c) = 0 /\ ~PopIn(c)
          BY <1>1, <3>2, <4>4, FindServesEmpty
        <5>4. k \in 1 .. Len(handled) \/ k = Len(handled) + 1
          BY <1>0, <2>5, <5>2, Numbers
        <5> QED BY <4>2, <5>2, <5>3, <5>4
      <4> QED BY <1>0, <3>2, <4>3, <4>4, RxFindThreadDoes
    <3>3. ASSUME NEW e \in Channel, WorkerUncount(e)
          PROVE  \/ k \in 1 .. Len(handled)
                 \/ handled'[k] = 0
                 \/ handled'[k] \in 1 .. Len(sent) /\ sent[handled'[k]].channel # c
      <4>1. e # c
        BY <1>5, <3>3
      <4>2. handled' = Append(handled, thread[e].request)
        BY <3>3 DEF WorkerUncount
      <4>3. PICK n \in Request \cup {Nothing} : n = thread[e].request
        BY <1>0, ThreadFields, Threads
      <4>4. Len(handled') = Len(handled) + 1 /\ handled'[Len(handled) + 1] = n
        BY <1>0, <4>2, <4>3, HandledGrow
      <4>5. n # 0 => n \in 1 .. Len(sent) /\ sent[n].channel = e
        BY <1>0, <4>3, HandledStands, Threads DEF NumbersInv
      <4>6. k \in 1 .. Len(handled) \/ k = Len(handled) + 1
        BY <1>0, <2>5, <4>4, Numbers
      <4> QED BY <4>1, <4>4, <4>5, <4>6
    <3> QED BY <3>1, <3>2, <3>3, HandledStays
  <2> QED BY <1>1, <1>5, <2>1, <2>2, <2>3, <2>4, <2>5, FifoStay
<1> QED BY <1>2, <1>3, <1>4, <1>5, QueueStays

(* Who closes a channel goes on with that until it is empty.               *)
LEMMA CloserWaits ==
  ASSUME Inv, Next, NEW t \in Closers, thread[t].at \in {"unstart", "empty"}
  PROVE  thread'[t] = thread[t] \/ CloseUnstart(t) \/ CloseEmpty(t)
<1>0. TypeOK /\ NumbersInv /\ MannerInv /\ Typed
  BY Types DEF Inv
<1> USE Threads
<1>1. t \in Thread /\ t # "rx" /\ t \notin Data
  BY DEF Closers
<1>2. CASE HostStep
  BY <1>0, <1>2, HostDoes
<1>3. CASE RxStep \/ DeinitJoin
  <2>1. \/ Elsewhere("rx")
        \/ At("main", "join rx") /\ \A u \in Thread : u # "rx" /\ u # "main" => thread'[u] = thread[u]
    BY <1>0, <1>3, RxReceiveDoes, RxExitDoes, RxFindOpenDoes, RxFindThreadDoes, RxQueueDoes,
       RxCountDoes, ServeDoes, DeinitJoinDoes DEF RxStep, Goes, Rests
  <2> QED BY <1>1, <2>1 DEF Elsewhere, At
<1>4. ASSUME NEW c \in Channel, WorkerStep(c) PROVE thread'[t] = thread[t]
  <2>1. Elsewhere(c) /\ thread[c].at \in {"loop", "uncount"}
    BY <1>0, <1>4, WorkerExitDoes, WorkerPopDoes, WorkerUncountDoes, ControlAsks
       DEF WorkerStep, Goes, At
  <2> QED BY <1>1, <2>1 DEF Elsewhere
<1>5. ASSUME NEW d \in Data, Serve(d) PROVE thread'[t] = thread[t]
  BY <1>0, <1>1, <1>5, ServeDoes DEF Rests, Elsewhere
<1>6. CASE StartOpen \/ StartCreate \/ StartCreated
  <2>1. PICK d \in Channel : d = thread[Control].target
    BY <1>0, ThreadFields
  <2>2. d # Control /\ d \in Data /\ thread[Control].at \in Starting
    BY <1>6, <2>1, TargetIsData DEF StartOpen, StartCreate, StartCreated, At, Commands, Starting
  <2>3. \A u \in Thread : u # d /\ u # Control => thread'[u] = thread[u]
    <3>2. CASE StartOpen
      <4>1. Goes(Control, "trigger") \/ Goes(Control, "create")
        BY <1>0, <2>1, <3>2, StartOpenDoes
      <4> QED BY <4>1 DEF Goes, Elsewhere
    <3>3. CASE StartCreate
      <4>1. \/ Goes(Control, "failed")
            \/ \A u \in Thread : u # d /\ u # Control => thread'[u] = thread[u]
        BY <1>0, <2>1, <2>2, <3>3, StartCreateDoes
      <4> QED BY <4>1 DEF Goes, Elsewhere
    <3>4. CASE StartCreated
      BY <1>0, <2>1, <3>4, StartCreatedDoes DEF Goes, Elsewhere
    <3> QED BY <1>6, <3>2, <3>3, <3>4
  <2> QED BY <1>1, <2>2, <2>3 DEF Starting
<1>7. CASE Trigger \/ StopTriggerFails \/ StopUnregistered \/ Respond
  BY <1>0, <1>1, <1>7, CommandDoes DEF Goes, Rests, Elsewhere, At
<1>8. ASSUME NEW u \in Closers, CloseMark(u) \/ CloseJoin(u) PROVE thread'[t] = thread[t]
  <2>1. PICK e \in Channel : e = thread[u].target
    BY <1>0, ThreadFields DEF Closers
  <2>2. CASE CloseMark(u)
    <3>1. (Goes(u, "join") \/ Goes(u, "unstart")) /\ At(u, "stop")
      BY <1>0, <2>1, <2>2, CloseMarkDoes
    <3> QED BY <1>1, <3>1 DEF Goes, Elsewhere, At
  <2>3. CASE CloseJoin(u)
    <3>1. /\ \A v \in Thread : v # e /\ v # u => thread'[v] = thread[v]
          /\ At(u, "join") /\ At(e, "exited")
      BY <1>0, <2>1, <2>3, CloseJoinDoes
    <3> QED BY <1>1, <3>1 DEF At
  <2> QED BY <1>8, <2>2, <2>3
<1>9. ASSUME NEW u \in Closers, CloseUnstart(u) \/ CloseEmpty(u), u # t
      PROVE  thread'[t] = thread[t]
  <2>1. PICK e \in Channel : e = thread[u].target
    BY <1>0, ThreadFields DEF Closers
  <2>2. CASE CloseUnstart(u)
    <3>1. Goes(u, "empty")
      BY <1>0, <2>1, <2>2, CloseUnstartDoes
    <3> QED BY <1>1, <1>9, <3>1 DEF Goes, Elsewhere
  <2>3. CASE CloseEmpty(u)
    BY <1>0, <1>1, <1>9, <2>1, <2>3, CloseEmptyDoes DEF Goes, Elsewhere
  <2> QED BY <1>9, <2>2, <2>3
<1>10. CASE Deinit \/ DeinitNext
  <2>1. Elsewhere("main") /\ (At("main", "none") \/ At("main", "next channel"))
    BY <1>0, <1>10, DeinitDoes, DeinitNextDoes DEF Goes
  <2> QED BY <1>1, <2>1 DEF Elsewhere, At
<1> QED BY <1>2, <1>3, <1>4, <1>5, <1>6, <1>7, <1>8, <1>9, <1>10
     DEF Next, ControlStep, MainStep, CloseStep, Closers

(* A channel becomes closed by being emptied.                              *)
LEMMA ClosedBefore ==
  ASSUME Inv, Next, NEW d \in Data, IsClosed(d)'
  PROVE  IsClosed(d) \/ channel'[d].count = 0
<1>0. TypeOK /\ Typed
  BY Types DEF Inv
<1> SUFFICES ASSUME channel'[d].count # 0 PROVE IsClosed(d)
  OBVIOUS
<1>1. ASSUME NEW t \in Closers, thread[t].target = d, thread[t].at \in {"unstart", "empty"}
      PROVE  FALSE
  <2>1. CASE thread'[t] = thread[t]
    BY <1>1, <2>1 DEF IsClosed
  <2>2. CASE CloseUnstart(t)
    <3>1. Goes(t, "empty")
      BY <1>0, <1>1, <2>2, CloseUnstartDoes, Threads
    <3> QED BY <1>1, <3>1 DEF Goes, IsClosed
  <2>3. CASE CloseEmpty(t)
    BY <1>0, <1>1, <2>3, CloseEmptyDoes, Threads
  <2> QED BY <1>1, <2>1, <2>2, <2>3, CloserWaits
<1>2. channel'[d].stop /\ ~channel'[d].started /\ channel'[d].registered
  BY DEF IsClosed
<1>3. channel[d].stop /\ ~channel[d].started /\ channel[d].registered
  <2>1. CASE \A c \in Channel : SameFlags(c)
    BY <1>2, <2>1, Threads DEF SameFlags
  <2>2. CASE StartOpen \/ StartCreate \/ StartCreated
    <3>1. PICK e \in Channel : e = thread[Control].target
      BY <1>0, ThreadFields, Threads
    <3>2. e # Control
      BY <2>2, <3>1, TargetIsData DEF StartOpen, StartCreate, StartCreated, At, Commands, Starting
    <3>3. CASE StartOpen
      BY <1>0, <1>2, <3>1, <3>3, StartOpenDoes, Threads DEF Apart
    <3>4. CASE StartCreate
      BY <1>0, <1>2, <3>1, <3>2, <3>4, StartCreateDoes, Threads DEF Apart
    <3>5. CASE StartCreated
      BY <1>0, <1>2, <3>1, <3>5, StartCreatedDoes, Threads DEF Apart
    <3> QED BY <2>2, <3>3, <3>4, <3>5
  <2>3. ASSUME NEW t \in Closers, CloseMark(t) \/ CloseUnstart(t)
        PROVE  channel[d].stop /\ ~channel[d].started /\ channel[d].registered
    <3>1. PICK e \in Channel : e = thread[t].target
      BY <1>0, ThreadFields, Threads DEF Closers
    <3>2. CASE CloseMark(t)
      <4>1. Apart(e) /\ channel'[e].started = channel[e].started
        BY <1>0, <3>1, <3>2, CloseMarkDoes
      <4>2. CASE e = d
        <5>1. Goes(t, "unstart")
          BY <1>0, <1>2, <3>1, <3>2, <4>1, <4>2, CloseMarkDoes
        <5> QED BY <3>1, <4>2, <5>1 DEF Goes, IsClosed
      <4> QED BY <1>2, <4>1, <4>2, Threads DEF Apart
    <3>3. CASE CloseUnstart(t)
      <4>1. Apart(e) /\ Goes(t, "empty")
        BY <1>0, <3>1, <3>3, CloseUnstartDoes
      <4>2. CASE e = d
        BY <3>1, <4>1, <4>2 DEF Goes, IsClosed
      <4> QED BY <1>2, <4>1, <4>2, Threads DEF Apart
    <3> QED BY <2>3, <3>2, <3>3
  <2> QED BY <2>1, <2>2, <2>3, FlagsChange
<1> QED BY <1>1, <1>3 DEF IsClosed

(* What is closed stays empty: only "rx" adds to a queue, and it has found *)
(* the channel open.                                                       *)
LEMMA ClosedKept ==
  ASSUME Inv, Next, manner.waits
  PROVE  \A d \in Data : IsClosed(d)' => channel'[d].count = 0
<1>0. TypeOK /\ Typed /\ NumbersInv /\ OneInv /\ WorkersInv /\ FifoInv
  BY Types DEF Inv
<1> SUFFICES ASSUME NEW d \in Data, IsClosed(d)' PROVE channel'[d].count = 0
  OBVIOUS
<1>1. channel[d].count \in Nat /\ d \in Channel /\ Fifo(d)
  BY <1>0, ChannelFields, Threads, QueueFits DEF FifoInv, Sound
<1>2. IsClosed(d) \/ channel'[d].count = 0
  BY ClosedBefore
<1>3. IsClosed(d) => channel[d].count = 0
  BY <1>0 DEF OneInv
<1>4. CASE SameQueue(d)
  BY <1>2, <1>3, <1>4 DEF SameQueue
<1>5. CASE RxQueue /\ d = Target
  <2>1. channel'[d].count = channel[d].count
    BY <1>0, <1>1, <1>5, RxQueueDoes
  <2> QED BY <1>2, <1>3, <2>1
<1>6. CASE RxCount /\ d = Target
  <2>1. channel[d].open
    BY <1>0, <1>6 DEF OneInv, RxCount, At, RxBusy
  <2>2. ~channel[d].stop
    BY <1>0, <1>1, <2>1 DEF WorkersInv, WorkerOf
  <2> QED BY <1>2, <2>2 DEF IsClosed
<1>7. CASE WorkerPop(d)
  <2>1. channel'[d].count = channel[d].count
    BY <1>0, <1>1, <1>7, WorkerPopDoes
  <2> QED BY <1>2, <1>3, <2>1
<1>8. CASE WorkerUncount(d)
  <2>1. channel'[d].count = thread[d].count - 1 /\ PopIn(d)
    BY <1>0, <1>1, <1>8, WorkerUncountDoes, ControlAsks DEF PopIn
  <2>2. channel[d].count = 1 /\ thread[d].count = channel[d].count
    BY <1>0, <1>1, <2>1 DEF OneInv, Fifo
  <2> QED BY <2>1, <2>2
<1>9. ASSUME NEW t \in Closers, CloseEmpty(t), d = thread[t].target PROVE channel'[d].count = 0
  BY <1>0, <1>1, <1>9, CloseEmptyDoes
<1> QED BY <1>1, <1>4, <1>5, <1>6, <1>7, <1>8, <1>9, QueueStays

(* A step that starts nothing.                                             *)
LEMMA OneStay ==
  ASSUME Inv, Next, manner.waits,
         sent' = sent, pending' = pending, received' = received, answered' = answered,
         RxWorks' => RxWorks,
         \A c \in Channel : /\ Queued(c)' => Queued(c) /\ channel'[c].count = channel[c].count
                            /\ PopIn(c)' => PopIn(c) /\ channel'[c].count = channel[c].count
                            /\ Working(c)' => Working(c),
         (thread["rx"].at \in RxBusy \ {"dispatch"} => channel[Target].open)'
  PROVE  OneInv'
<1>1. OneInv /\ manner' = manner
  BY Grown DEF Inv
<1>2. \A n, ok : Answered(n, ok)' <=> Answered(n, ok)
  BY DEF Answered
<1>3. Quiet => Quiet'
  BY DEF Quiet
<1>4. \A d \in Data : IsClosed(d)' => channel'[d].count = 0
  BY ClosedKept
<1>5. (RxWorks => \A c \in Channel : ~Queued(c) /\ ~Working(c))'
  BY <1>1 DEF OneInv
<1>6. (\A c, e \in Channel :
         (Queued(c) \/ Working(c)) /\ (Queued(e) \/ Working(e)) => c = e)'
  BY <1>1 DEF OneInv
<1>7. (\A c \in Channel : /\ Queued(c) => channel[c].count = 1 /\ ~Working(c)
                          /\ PopIn(c) => channel[c].count = 1)'
  BY <1>1 DEF OneInv
<1>8. /\ pending' # 0 => pending' = Len(sent')
      /\ pending' = 0 \/ Answered(pending, TRUE)' \/ Answered(pending, FALSE)' =>
           Quiet' /\ received' = Len(sent')
      /\ received' < Len(sent') => Quiet' /\ received' = Len(sent') - 1
  <2>1. /\ Answered(pending, TRUE)' => Answered(pending, TRUE)
        /\ Answered(pending, FALSE)' => Answered(pending, FALSE)
    BY DEF Answered
  <2> QED BY <1>1, <1>3, <2>1 DEF OneInv
<1> QED BY <1>4, <1>5, <1>6, <1>7, <1>8 DEF OneInv

(* A step after which nothing is left to do.                               *)
LEMMA OneEnds ==
  ASSUME Inv, Next, manner.waits, Quiet', received' = Len(sent'),
         pending' = 0 \/ pending' = Len(sent')
  PROVE  OneInv'
<1>1. ~RxWorks' /\ \A c \in Channel : ~Queued(c)' /\ ~Working(c)' /\ ~PopIn(c)'
  BY DEF Quiet, Working, PopIn, At
<1>2. thread'["rx"].at \notin RxBusy
  BY <1>1 DEF RxWorks
<1>3. \A d \in Data : IsClosed(d)' => channel'[d].count = 0
  BY ClosedKept
<1>4. Len(sent') \in Nat
  <2>1. sent' \in Seq(Message)
    BY TypedNext DEF TypeOK, Message
  <2> QED BY <2>1
<1>5. ~(received' < Len(sent'))
  BY <1>4
<1> QED BY <1>1, <1>2, <1>3, <1>5 DEF OneInv

(* A request has been received when anybody works.                         *)
LEMMA WorkReceived ==
  ASSUME Inv, manner.waits, ~Quiet
  PROVE  /\ received = Len(sent) /\ pending = Len(sent)
         /\ pending # 0 /\ ~Answered(pending, TRUE) /\ ~Answered(pending, FALSE)
<1>1. OneInv /\ TypeOK
  BY DEF Inv
<1>2. ~(received < Len(sent)) /\ pending # 0
      /\ ~Answered(pending, TRUE) /\ ~Answered(pending, FALSE) /\ pending = Len(sent)
  BY <1>1 DEF OneInv
<1>3. received = Len(sent)
  <2>1. received \in Nat /\ Len(sent) \in Nat /\ received <= Len(sent)
    BY <1>1, Numbers
  <2> QED BY <1>2, <2>1
<1> QED BY <1>2, <1>3

LEMMA HostKeepsOne ==
  ASSUME Inv, Next, manner.waits, HostStep
  PROVE  OneInv'
<1>0. TypeOK /\ Typed /\ NumbersInv /\ OneInv
  BY Types DEF Inv
<1>1. /\ channel' = channel /\ thread' = thread /\ answered' = answered
      /\ received' = received
      /\ (\E m \in Message : Sends(m)) \/ Hears
  BY <1>0, HostDoes
<1>2. Quiet => Quiet'
  BY <1>1 DEF Quiet, RxWorks, Queued, Working, PopIn, At
<1>3. CASE Hears
  <2>1. Quiet /\ received = Len(sent)
    BY <1>0, <1>3 DEF OneInv, Hears
  <2> QED BY <1>1, <1>2, <1>3, <2>1, OneEnds DEF Hears
<1>4. ASSUME NEW m \in Message, Sends(m) PROVE OneInv'
  <2>1. pending = 0 /\ pending' = Len(sent) + 1
    BY <1>4 DEF Sends
  <2>2. Quiet /\ received = Len(sent)
    BY <1>0, <2>1 DEF OneInv
  <2>3. Len(sent') = Len(sent) + 1 /\ Len(sent) \in Nat
    BY <1>0, <1>4, SentGrow, Numbers
  <2>4. ~Answered(pending, TRUE)' /\ ~Answered(pending, FALSE)'
    <3>1. \A k \in 1 .. Len(answered) : answered[k].request <= received /\ answered[k].request \in Nat
      BY <1>0, Naturals DEF NumbersInv
    <3>2. \A k \in 1 .. Len(answered) : answered[k].request # Len(sent) + 1
      BY <2>2, <2>3, <3>1
    <3> QED BY <1>1, <2>1, <3>2 DEF Answered
  <2>5. ~RxWorks' /\ \A c \in Channel : ~Queued(c)' /\ ~Working(c)' /\ ~PopIn(c)'
    BY <1>2, <2>2 DEF Quiet, Working, PopIn, At
  <2>6. thread'["rx"].at \notin RxBusy
    BY <2>5 DEF RxWorks
  <2>7. \A d \in Data : IsClosed(d)' => channel'[d].count = 0
    BY ClosedKept
  <2>8. /\ pending' # 0 /\ pending' = Len(sent') /\ received' = Len(sent') - 1
        /\ Quiet'
    BY <1>1, <1>2, <2>1, <2>2, <2>3
  <2> QED BY <2>4, <2>5, <2>6, <2>7, <2>8 DEF OneInv
<1> QED BY <1>1, <1>3, <1>4

LEMMA ReceiveKeepsOne ==
  ASSUME Inv, Next, manner.waits, RxReceive
  PROVE  OneInv'
<1>0. TypeOK /\ Typed /\ NumbersInv /\ OneInv /\ MannerInv
  BY Types DEF Inv
<1>1. /\ channel' = channel /\ answered' = answered /\ sent' = sent /\ pending' = pending
      /\ received < Len(sent) /\ received' = received + 1 /\ Elsewhere("rx")
      /\ thread'["rx"].at = "dispatch"
  BY <1>0, RxReceiveDoes
<1>2. Quiet /\ received = Len(sent) - 1
  BY <1>0, <1>1 DEF OneInv
<1>3. received' = Len(sent') /\ ~(received' < Len(sent'))
  BY <1>0, <1>1, <1>2, Numbers
<1>4. \A c \in Channel : ~Queued(c)' /\ ~Working(c)' /\ ~PopIn(c)'
  BY <1>1, <1>2, Threads DEF Quiet, Queued, Working, PopIn, At, Elsewhere
<1>5. pending # 0 /\ ~Answered(pending, TRUE) /\ ~Answered(pending, FALSE)
  <2>1. received # Len(sent)
    BY <1>0, <1>1, Numbers
  <2> QED BY <1>0, <2>1 DEF OneInv
<1>6. pending' # 0 /\ ~Answered(pending, TRUE)' /\ ~Answered(pending, FALSE)'
  BY <1>1, <1>5 DEF Answered
<1>7. pending' = Len(sent')
  BY <1>0, <1>1, <1>5 DEF OneInv
<1>8. \A d \in Data : IsClosed(d)' => channel'[d].count = 0
  BY ClosedKept
<1>9. thread'["rx"].at \notin RxBusy \ {"dispatch"}
  BY <1>1
<1> QED BY <1>3, <1>4, <1>6, <1>7, <1>8, <1>9 DEF OneInv

(* Whoever works is the only one, and with its work ends all there is.     *)
LEMMA WorkEnds ==
  ASSUME Inv, Next, manner.waits, NEW t \in Thread, Rests(t, "loop"), channel' = channel,
         sent' = sent, received' = received, pending' = pending,
         (t = "rx" /\ RxWorks) \/ (t \in Channel /\ Working(t) /\ ~PopIn(t))
  PROVE  OneInv'
<1>0. OneInv
  BY DEF Inv
<1>1. ~Quiet
  BY DEF Quiet
<1>2. received' = Len(sent') /\ pending' = Len(sent')
  BY <1>1, WorkReceived
<1>3. Quiet'
  <2>1. CASE t = "rx" /\ RxWorks
    <3>1. \A c \in Channel : ~Queued(c) /\ ~Working(c)
      BY <1>0, <2>1 DEF OneInv
    <3>2. \A c \in Channel : thread'[c] = thread[c]
      BY <2>1, Threads DEF Rests, Elsewhere
    <3>3. ~RxWorks'
      BY <2>1 DEF RxWorks, RxBusy, Rests
    <3> QED BY <3>1, <3>2, <3>3 DEF Quiet, Queued, Working, PopIn, At
  <2>2. CASE t \in Channel /\ Working(t) /\ ~PopIn(t)
    <3>1. ~RxWorks
      BY <1>0, <2>2 DEF OneInv
    <3>2. ~RxWorks'
      BY <2>2, <3>1, Threads DEF RxWorks, Rests, Elsewhere
    <3>3. ~Queued(t)
      BY <1>0, <2>2 DEF OneInv
    <3>4. ASSUME NEW c \in Channel, c # t PROVE ~Queued(c)' /\ ~Working(c)'
      <4>1. ~Queued(c) /\ ~Working(c)
        BY <1>0, <2>2, <3>4 DEF OneInv
      <4> QED BY <3>4, <4>1, Threads DEF Queued, Working, PopIn, At, Rests, Elsewhere
    <3>5. ~Queued(t)' /\ ~Working(t)'
      BY <2>2, <3>3 DEF Queued, Working, PopIn, At, Rests
    <3> QED BY <3>2, <3>4, <3>5 DEF Quiet
  <2> QED BY <2>1, <2>2
<1> QED BY <1>2, <1>3, OneEnds

LEMMA CountKeepsOne ==
  ASSUME Inv, Next, manner.waits, RxCount
  PROVE  OneInv'
<1>0. TypeOK /\ Typed /\ NumbersInv /\ OneInv /\ FifoInv
  BY Types DEF Inv
<1>1. PICK c \in Channel : c = Target
  BY <1>0, RequestOf DEF RxCount, At, RxBusy
<1>2. /\ At("rx", "count") /\ Rests("rx", "loop") /\ Apart(c)
      /\ channel'[c].count = thread["rx"].count + 1
      /\ sent' = sent /\ received' = received /\ pending' = pending /\ answered' = answered
  BY <1>0, <1>1, RxCountDoes DEF host
<1>3. RxWorks /\ RxIn(c) /\ ~RxWorks' /\ thread'["rx"].at \notin RxBusy
  BY <1>1, <1>2 DEF RxWorks, RxBusy, RxIn, At, Rests
<1>4. \A e \in Channel : ~Queued(e) /\ ~Working(e)
  BY <1>0, <1>3 DEF OneInv
<1>5. \A e \in Channel : ~PopIn(e)
  BY <1>4 DEF Working, PopIn, At
<1>6. channel[c].count = 0 /\ thread["rx"].count = channel[c].count
  BY <1>0, <1>3, <1>4, <1>5 DEF Queued, FifoInv, Sound, Fifo
<1>7. channel'[c].count = 1
  BY <1>2, <1>6
<1>8. \A e \in Channel : ~Working(e)' /\ ~PopIn(e)'
  BY <1>2, <1>4, <1>5, Threads DEF Working, PopIn, At, Rests, Elsewhere
<1>9. \A e \in Channel : e # c => ~Queued(e)'
  BY <1>2, <1>4, <1>5 DEF Queued, Apart
<1>10. pending' # 0 /\ pending' = Len(sent') /\ received' = Len(sent')
       /\ ~Answered(pending, TRUE)' /\ ~Answered(pending, FALSE)'
  <2>1. ~Quiet
    BY <1>3 DEF Quiet
  <2>2. /\ pending # 0 /\ pending = Len(sent) /\ received = Len(sent)
        /\ ~Answered(pending, TRUE) /\ ~Answered(pending, FALSE)
    BY <2>1, WorkReceived
  <2> QED BY <1>2, <2>2 DEF Answered
<1>11. ~(received' < Len(sent'))
  BY <1>0, <1>2, <1>10, Numbers
<1>12. \A d \in Data : IsClosed(d)' => channel'[d].count = 0
  BY ClosedKept
<1> QED BY <1>3, <1>7, <1>8, <1>9, <1>10, <1>11, <1>12 DEF OneInv

LEMMA WorkerKeepsOne ==
  ASSUME Inv, Next, manner.waits, NEW c \in Channel, WorkerPop(c) \/ WorkerUncount(c)
  PROVE  OneInv'
<1>0. TypeOK /\ Typed /\ NumbersInv /\ OneInv /\ FifoInv
  BY Types DEF Inv
<1>1. /\ Elsewhere(c) /\ Apart(c)
      /\ sent' = sent /\ received' = received /\ pending' = pending /\ answered' = answered
  <2>1. CASE WorkerPop(c)
    BY <1>0, <2>1, WorkerPopDoes DEF host
  <2>2. CASE WorkerUncount(c)
    BY <1>0, <2>2, WorkerUncountDoes, ControlAsks DEF host
  <2> QED BY <2>1, <2>2
<1>2. Fifo(c)
  BY <1>0 DEF FifoInv, Sound
<1>3. \/ Queued(c) /\ PopIn(c)' /\ channel'[c].count = 1
      \/ Working(c) /\ ~PopIn(c)' /\ channel'[c].count = 0
  <2>1. CASE WorkerPop(c)
    <3>1. /\ At(c, "loop") /\ channel[c].count > 0 /\ thread'[c].at = "uncount"
          /\ channel'[c].count = channel[c].count
      BY <1>0, <2>1, WorkerPopDoes
    <3>2. Queued(c)
      BY <1>0, <3>1, ChannelFields DEF Queued, PopIn, At
    <3> QED BY <1>0, <3>1, <3>2 DEF OneInv, PopIn, At
  <2>2. CASE WorkerUncount(c)
    <3>1. /\ At(c, "uncount") /\ channel'[c].count = thread[c].count - 1
          /\ thread'[c].at # "uncount"
      BY <1>0, <2>2, WorkerUncountDoes, ControlAsks
    <3>2. channel[c].count = 1 /\ thread[c].count = channel[c].count
      BY <1>0, <1>2, <3>1 DEF OneInv, Fifo, PopIn
    <3> QED BY <3>1, <3>2 DEF Working, PopIn, At
  <2> QED BY <2>1, <2>2
<1>4. ~RxWorks /\ \A e \in Channel : e # c => ~Queued(e) /\ ~Working(e)
  BY <1>0, <1>3 DEF OneInv
<1>5. ~RxWorks' /\ thread'["rx"].at \notin RxBusy
  BY <1>1, <1>4, Threads DEF RxWorks, Elsewhere
<1>6. ASSUME NEW e \in Channel, e # c PROVE ~Queued(e)' /\ ~Working(e)' /\ ~PopIn(e)'
  <2>1. ~Queued(e) /\ ~Working(e)
    BY <1>4, <1>6
  <2> QED BY <1>1, <1>6, <2>1, Threads DEF Queued, Working, PopIn, At, Elsewhere, Apart
<1>7. ~Queued(c)' /\ (PopIn(c)' => channel'[c].count = 1)
  BY <1>3 DEF Queued
<1>8. pending' # 0 /\ pending' = Len(sent') /\ received' = Len(sent')
      /\ ~Answered(pending, TRUE)' /\ ~Answered(pending, FALSE)'
  <2>1. ~Quiet
    BY <1>3 DEF Quiet
  <2>2. /\ pending # 0 /\ pending = Len(sent) /\ received = Len(sent)
        /\ ~Answered(pending, TRUE) /\ ~Answered(pending, FALSE)
    BY <2>1, WorkReceived
  <2> QED BY <1>1, <2>2 DEF Answered
<1>9. ~(received' < Len(sent'))
  BY <1>0, <1>1, <1>8, Numbers
<1>10. \A d \in Data : IsClosed(d)' => channel'[d].count = 0
  BY ClosedKept
<1> QED BY <1>5, <1>6, <1>7, <1>8, <1>9, <1>10 DEF OneInv

(* While "rx" works for a host that waits, nobody opens or closes.         *)
LEMMA FlagsRest ==
  ASSUME Inv, Next, manner.waits, RxWorks
  PROVE  \A c \in Channel : SameFlags(c)
<1>0. OneInv /\ MainInv /\ TypeOK
  BY DEF Inv
<1>1. ~Working(Control)
  BY <1>0, Threads DEF OneInv
<1>2. thread[Control].at \notin Commands
  BY <1>1 DEF Working, Commands, Starting, Closing
<1>3. thread["main"].at \notin Closing
  BY <1>0 DEF MainInv, Main, At, RxWorks, RxBusy, Closing
<1> QED BY <1>2, <1>3, FlagsChange
     DEF StartOpen, StartCreate, StartCreated, CloseMark, CloseUnstart, At, Closers,
         Commands, Starting, Closing

LEMMA OnePlain ==
  ASSUME Inv, Next, manner.waits,
         sent' = sent, pending' = pending, received' = received, answered' = answered,
         ~RxReceive, ~RxCount, \A c \in Channel : ~WorkerPop(c) /\ ~WorkerUncount(c)
  PROVE  OneInv'
<1>0. TypeOK /\ Typed /\ NumbersInv /\ OneInv /\ WorkersInv
  BY Types DEF Inv
<1>1. RxWorks' => RxWorks
  <2>1. CASE RxExit
    BY <1>0, <2>1, RxExitDoes DEF Goes, RxWorks, RxBusy
  <2>2. CASE DeinitJoin
    BY <1>0, <2>2, DeinitJoinDoes DEF RxWorks, RxBusy
  <2>3. CASE RxFindOpen \/ RxFindThread \/ RxQueue \/ Serve("rx")
    BY <2>3 DEF RxFindOpen, RxFindThread, RxQueue, Serve, At, RxWorks, RxBusy
  <2>4. CASE thread'["rx"] = thread["rx"]
    BY <2>4 DEF RxWorks
  <2> QED BY <2>1, <2>2, <2>3, <2>4, RxAlone DEF RxStep
<1>2. ASSUME NEW c \in Channel
      PROVE  /\ PopIn(c)' <=> PopIn(c)
             /\ Working(c)' => Working(c)
             /\ Queued(c)' => Queued(c) /\ channel'[c].count = channel[c].count
             /\ PopIn(c)' => PopIn(c) /\ channel'[c].count = channel[c].count
  <2>1. PopIn(c)' <=> PopIn(c)
    BY PopInside
  <2>2. Working(c)' => Working(c)
    <3>1. CASE WorkerExit(c)
      <4>1. thread'[c].at = "exited"
        BY <1>0, <3>1, WorkerExitDoes DEF Goes
      <4> QED BY <4>1 DEF Working
    <3>2. CASE c \in Data /\ Serve(c)
      BY <3>2 DEF Serve, At, Working
    <3>3. CASE thread[c].at \in Commands
      BY <3>3 DEF Working, Commands, Starting, Closing
    <3> QED BY <3>1, <3>2, <3>3, WorkerAlone DEF Working
  <2>3. CASE SameQueue(c)
    BY <2>1, <2>2, <2>3 DEF SameQueue, Queued
  <2>4. CASE RxQueue /\ c = Target
    <3>1. channel'[c].count = channel[c].count
      BY <1>0, <2>4, RxQueueDoes
    <3> QED BY <2>1, <2>2, <3>1 DEF Queued
  <2>5. ASSUME NEW t \in Closers, CloseEmpty(t), c = thread[t].target
        PROVE  channel'[c].count = 0 /\ ~PopIn(c)
    <3>1. channel'[c].count = 0 /\ At(t, "empty")
      BY <1>0, <2>5, CloseEmptyDoes
    <3> QED BY <1>0, <2>5, <3>1 DEF WorkersInv, CloserOf, Alive, PopIn, At
  <2> QED BY <2>1, <2>2, <2>3, <2>4, <2>5, QueueStays DEF Queued
<1>3. (thread["rx"].at \in RxBusy \ {"dispatch"} => channel[Target].open)'
  <2> SUFFICES ASSUME thread'["rx"].at \in RxBusy \ {"dispatch"}
               PROVE  channel'[sent'[thread'["rx"].request].channel].open
    BY DEF Target
  <2>1. RxWorks
    BY <1>1 DEF RxWorks
  <2>2. \A c \in Channel : channel'[c].open = channel[c].open
    BY <2>1, FlagsRest DEF SameFlags
  <2>3. PICK c \in Channel : c = Target
    BY <1>0, <2>1, RequestOf DEF RxWorks
  <2>4. thread'["rx"].request = thread["rx"].request /\ channel[c].open
    <3>1. CASE RxFindOpen
      <4>1. \/ channel[c].open /\ Goes("rx", "started?")
            \/ Rests("rx", "loop")
        BY <1>0, <2>3, <3>1, RxFindOpenDoes
      <4> QED BY <4>1 DEF Goes, Rests, RxBusy
    <3>2. CASE RxFindThread \/ RxQueue
      <4>1. channel[c].open
        BY <1>0, <2>3, <3>2 DEF OneInv, RxFindThread, RxQueue, At, RxBusy
      <4>2. CASE RxFindThread
        <5>1. Goes("rx", "queue") \/ Goes("rx", "serve")
          BY <1>0, <4>2, RxFindThreadDoes
        <5> QED BY <4>1, <5>1 DEF Goes
      <4>3. CASE RxQueue
        <5>1. Rests("rx", "loop") \/ thread'["rx"].request = thread["rx"].request
          BY <1>0, <4>3, RxQueueDoes
        <5> QED BY <4>1, <5>1 DEF Rests, RxBusy
      <4> QED BY <3>2, <4>2, <4>3
    <3>3. CASE thread'["rx"] = thread["rx"]
      BY <1>0, <2>3, <3>3 DEF OneInv
    <3>4. ~Serve("rx")
      <4>1. Serve("rx") => Rests("rx", "loop")
        BY <1>0, ServeDoes, Threads
      <4> QED BY <4>1 DEF Rests, RxBusy
    <3>5. ~RxExit /\ ~DeinitJoin
      BY <2>1 DEF RxExit, DeinitJoin, At, RxWorks, RxBusy
    <3> QED BY <3>1, <3>2, <3>3, <3>4, <3>5, RxAlone DEF RxStep
  <2> QED BY <2>2, <2>3, <2>4 DEF Target
<1> QED BY <1>1, <1>2, <1>3, OneStay

LEMMA OneKept ==
  ASSUME Inv, Next
  PROVE  OneInv'
<1>0. TypeOK /\ Typed /\ NumbersInv /\ PlacesInv
  BY Types DEF Inv
<1>1. CASE ~manner.waits
  <2>1. ~manner'.waits
    BY <1>1, Grown
  <2> QED BY <2>1 DEF OneInv
<1>2. CASE manner.waits
  <2>1. CASE HostStep
    BY <1>2, <2>1, HostKeepsOne
  <2>2. CASE RxReceive
    BY <1>2, <2>2, ReceiveKeepsOne
  <2>3. CASE RxCount
    BY <1>2, <2>3, CountKeepsOne
  <2>4. ASSUME NEW c \in Channel, WorkerPop(c) \/ WorkerUncount(c) PROVE OneInv'
    BY <1>2, <2>4, WorkerKeepsOne
  <2>5. ASSUME NEW t \in {"rx"} \cup Data, Serve(t) PROVE OneInv'
    <3>1. t \in Thread /\ (t = "rx" \/ t \in Channel)
      BY Threads
    <3>2. /\ At(t, "serve") /\ Rests(t, "loop") /\ channel' = channel
          /\ sent' = sent /\ received' = received /\ pending' = pending
      BY <1>0, <2>5, <3>1, ServeDoes DEF host
    <3>3. \/ t = "rx" /\ RxWorks
          \/ t \in Channel /\ Working(t) /\ ~PopIn(t)
      BY <3>1, <3>2 DEF RxWorks, RxBusy, Working, PopIn, At
    <3> QED BY <1>2, <3>1, <3>2, <3>3, WorkEnds
  <2>6. CASE Respond
    <3>1. \/ /\ At(Control, "trigger") \/ At(Control, "stop")
             /\ Goes(Control, "done") \/ Goes(Control, "failed")
          \/ thread[Control].at \in {"done", "failed"} /\ Rests(Control, "loop")
      BY <1>0, <2>6, CommandDoes
    <3>2. thread[Control].at \in {"done", "failed"} /\ UNCHANGED <<channel, host>>
      BY <2>6 DEF Respond
    <3>3. Rests(Control, "loop")
      BY <3>1, <3>2 DEF At
    <3>4. Working(Control) /\ ~PopIn(Control) /\ Control \in Channel /\ Control \in Thread
      BY <3>2, Threads DEF Working, PopIn, At
    <3> QED BY <1>2, <3>2, <3>3, <3>4, WorkEnds DEF host
  <2>7. CASE RxFindOpen \/ RxQueue
    <3>1. RxWorks /\ sent' = sent /\ received' = received /\ pending' = pending
      BY <2>7 DEF RxFindOpen, RxQueue, RxWorks, RxBusy, At, host
    <3>2. CASE Rests("rx", "loop") /\ channel' = channel
      BY <1>2, <3>1, <3>2, Threads, WorkEnds
    <3>3. CASE ~(Rests("rx", "loop") /\ channel' = channel)
      <4>1. answered' = answered
        <5>1. CASE RxFindOpen
          BY <1>0, <3>3, <5>1, RxFindOpenDoes
        <5>2. CASE RxQueue
          BY <1>0, <5>2, RxQueueDoes
        <5> QED BY <2>7, <5>1, <5>2
      <4>2. ~RxReceive /\ ~RxCount
        BY <2>7 DEF RxFindOpen, RxQueue, RxReceive, RxCount, At
      <4>3. CASE \A c \in Channel : ~WorkerPop(c) /\ ~WorkerUncount(c)
        BY <1>2, <3>1, <4>1, <4>2, <4>3, OnePlain
      <4> QED BY <2>4, <4>3
    <3> QED BY <3>2, <3>3
  <2>8. CASE /\ ~RxReceive /\ ~RxCount
             /\ \A c \in Channel : ~WorkerPop(c) /\ ~WorkerUncount(c)
             /\ UNCHANGED <<sent, pending, received, answered>>
    BY <1>2, <2>8, OnePlain
  <2>9. \/ RxExit \/ RxFindThread
        \/ \E c \in Channel : WorkerExit(c)
        \/ StartOpen \/ StartCreate \/ StartCreated
        \/ Trigger \/ StopTriggerFails \/ StopUnregistered
        \/ \E t \in Closers : CloseMark(t)
        \/ \E t \in Closers : CloseJoin(t)
        \/ \E t \in Closers : CloseUnstart(t)
        \/ \E t \in Closers : CloseEmpty(t)
        \/ Deinit \/ DeinitJoin \/ DeinitNext
        => UNCHANGED <<sent, pending, received, answered>>
    BY DEF RxExit, RxFindThread, WorkerExit, StartOpen, StartCreate, StartCreated, Trigger,
       StopTriggerFails, StopUnregistered, CloseMark, CloseJoin, CloseUnstart, CloseEmpty,
       Deinit, DeinitJoin, DeinitNext, host
  <2> QED BY <2>1, <2>2, <2>3, <2>4, <2>5, <2>6, <2>7, <2>8, <2>9, Steps
<1> QED BY <1>1, <1>2

(* Where a START is on its way, and which step loses a mutex.              *)
LEMMA ControlComes ==
  ASSUME Inv, Next
  PROVE  \/ thread'[Control] = thread[Control]
         \/ WorkerUncount(Control)
         \/ StartOpen /\ thread'[Control].at # "start" /\ thread'[Control].at # "created"
         \/ StartCreate /\ thread'[Control].at # "start" /\ thread'[Control].at # "create"
         \/ thread'[Control].at \notin {"start", "create", "created"}
<1>0. TypeOK /\ NumbersInv /\ MannerInv /\ Typed
  BY Types DEF Inv
<1> USE Threads
<1>1. Control \in Thread /\ Control # "rx" /\ Control # "main" /\ Control \notin Data
  OBVIOUS
<1>2. CASE HostStep
  BY <1>0, <1>2, HostDoes
<1>3. CASE RxStep \/ Deinit \/ DeinitJoin \/ DeinitNext
  <2>1. \/ Elsewhere("rx") \/ Elsewhere("main")
        \/ \A u \in Thread : u # "rx" /\ u # "main" => thread'[u] = thread[u]
    BY <1>0, <1>3, RxReceiveDoes, RxExitDoes, RxFindOpenDoes, RxFindThreadDoes, RxQueueDoes,
       RxCountDoes, ServeDoes, DeinitDoes, DeinitJoinDoes, DeinitNextDoes
       DEF RxStep, Goes, Rests
  <2> QED BY <1>1, <2>1 DEF Elsewhere
<1>4. ASSUME NEW c \in Channel, WorkerStep(c)
      PROVE  \/ thread'[Control] = thread[Control]
             \/ WorkerUncount(Control)
             \/ thread'[Control].at \notin {"start", "create", "created"}
  <2>1. Elsewhere(c)
    BY <1>0, <1>4, WorkerExitDoes, WorkerPopDoes, WorkerUncountDoes, ControlAsks
       DEF WorkerStep, Goes
  <2>2. WorkerUncount(c) \/ thread'[c].at \in {"exited", "uncount"}
    BY <1>0, <1>4, WorkerExitDoes, WorkerPopDoes DEF WorkerStep, Goes
  <2> QED BY <1>1, <2>1, <2>2 DEF Elsewhere
<1>5. ASSUME NEW d \in Data, Serve(d) PROVE thread'[Control] = thread[Control]
  BY <1>0, <1>1, <1>5, ServeDoes DEF Rests, Elsewhere
<1>6. CASE StartOpen \/ StartCreate \/ StartCreated
  <2>1. PICK d \in Channel : d = thread[Control].target
    BY <1>0, ThreadFields
  <2>2. d # Control
    BY <1>6, <2>1, TargetIsData DEF StartOpen, StartCreate, StartCreated, At, Commands, Starting
  <2>3. CASE StartOpen
    <3>1. Goes(Control, "trigger") \/ Goes(Control, "create")
      BY <1>0, <2>1, <2>3, StartOpenDoes
    <3> QED BY <2>3, <3>1 DEF Goes
  <2>4. CASE StartCreate
    <3>1. Goes(Control, "failed") \/ thread'[Control].at = "created"
      BY <1>0, <2>1, <2>2, <2>4, StartCreateDoes
    <3> QED BY <2>4, <3>1 DEF Goes
  <2>5. CASE StartCreated
    <3>1. Goes(Control, "trigger")
      BY <1>0, <2>1, <2>5, StartCreatedDoes
    <3> QED BY <3>1 DEF Goes
  <2> QED BY <1>6, <2>3, <2>4, <2>5
<1>7. CASE Trigger \/ StopTriggerFails \/ StopUnregistered \/ Respond
  BY <1>0, <1>7, CommandDoes DEF Goes, Rests
<1>8. ASSUME NEW t \in Closers, CloseStep(t)
      PROVE  \/ thread'[Control] = thread[Control]
             \/ thread'[Control].at \notin {"start", "create", "created"}
  <2>1. PICK e \in Channel : e = thread[t].target
    BY <1>0, ThreadFields DEF Closers
  <2>2. \/ Elsewhere(t) /\ thread'[t].at \in {"join", "unstart", "empty", "done", "next channel"}
        \/ /\ \A u \in Thread : u # e /\ u # t => thread'[u] = thread[u]
           /\ thread'[e].at = "none" /\ thread'[t].at = "unstart"
    <3>1. CASE CloseMark(t)
      <4>1. Goes(t, "join") \/ Goes(t, "unstart")
        BY <1>0, <2>1, <3>1, CloseMarkDoes
      <4> QED BY <4>1 DEF Goes
    <3>2. CASE CloseJoin(t)
      <4>1. /\ \A u \in Thread : u # e /\ u # t => thread'[u] = thread[u]
            /\ thread'[e].at = "none" /\ thread'[t].at = "unstart"
        BY <1>0, <2>1, <3>2, CloseJoinDoes
      <4> QED BY <4>1
    <3>3. CASE CloseUnstart(t)
      <4>1. Goes(t, "empty")
        BY <1>0, <2>1, <3>3, CloseUnstartDoes
      <4> QED BY <4>1 DEF Goes
    <3>4. CASE CloseEmpty(t)
      BY <1>0, <2>1, <3>4, CloseEmptyDoes DEF Goes, Closed
    <3> QED BY <1>8, <3>1, <3>2, <3>3, <3>4 DEF CloseStep
  <2> QED BY <1>1, <2>2 DEF Elsewhere
<1> QED BY <1>2, <1>3, <1>4, <1>5, <1>6, <1>7, <1>8 DEF Next, ControlStep, MainStep, Closers

LEMMA MutexGoes ==
  ASSUME Inv, Next, NEW c \in Channel, channel[c].mutex, ~channel'[c].mutex
  PROVE  \E t \in Closers : CloseUnstart(t) /\ c = thread[t].target
<1>0. TypeOK /\ Typed /\ WorkersInv
  BY Types DEF Inv
<1>1. channel'[c].mutex # channel[c].mutex
  OBVIOUS
<1>2. ~(\A e \in Channel : SameFlags(e))
  BY <1>1 DEF SameFlags
<1>3. ~(StartOpen \/ StartCreate \/ StartCreated)
  <2> SUFFICES ASSUME StartOpen \/ StartCreate \/ StartCreated PROVE FALSE
    OBVIOUS
  <2>1. PICK d \in Channel : d = thread[Control].target
    BY <1>0, ThreadFields, Threads
  <2>2. d # Control
    BY <2>1, TargetIsData DEF StartOpen, StartCreate, StartCreated, At, Commands, Starting
  <2>3. CASE StartOpen
    BY <1>0, <1>1, <2>1, <2>3, StartOpenDoes DEF Apart
  <2>4. CASE StartCreate
    BY <1>0, <1>1, <2>1, <2>2, <2>4, StartCreateDoes DEF Apart
  <2>5. CASE StartCreated
    BY <1>0, <1>1, <2>1, <2>5, StartCreatedDoes DEF Apart
  <2> QED BY <2>3, <2>4, <2>5
<1>4. ASSUME NEW t \in Closers, CloseMark(t) \/ CloseUnstart(t)
      PROVE  CloseUnstart(t) /\ c = thread[t].target
  <2>1. PICK e \in Channel : e = thread[t].target
    BY <1>0, ThreadFields, Threads DEF Closers
  <2>2. CASE CloseMark(t)
    BY <1>0, <1>1, <2>1, <2>2, CloseMarkDoes DEF Apart
  <2>3. CASE CloseUnstart(t)
    <3>1. Apart(e)
      BY <1>0, <2>1, <2>3, CloseUnstartDoes
    <3> QED BY <1>1, <2>1, <2>3, <3>1 DEF Apart
  <2> QED BY <1>4, <2>2, <2>3
<1> QED BY <1>2, <1>3, <1>4, FlagsChange

(* A host that does not restart starts every stream once.                  *)
LEMMA StartsOnce ==
  ASSUME Inv, Next, ~manner.waits, ~manner.restarts,
         NEW m \in 1 .. Len(sent'), NEW n \in 1 .. Len(sent'),
         sent'[m].command = "start", sent'[n].command = "start",
         sent'[m].target = sent'[n].target
  PROVE  m = n
<1>0. TypeOK /\ OnceInv
  BY DEF Inv
<1>1. CASE sent' = sent
  BY <1>0, <1>1 DEF OnceInv
<1>2. ASSUME NEW r \in Message, Sends(r) PROVE m = n
  <2>1. /\ Len(sent') = Len(sent) + 1 /\ sent'[Len(sent) + 1] = r /\ Len(sent) \in Nat
        /\ \A k \in 1 .. Len(sent) : sent'[k] = sent[k]
    BY <1>0, <1>2, SentGrow, Numbers DEF Grows
  <2>2. r.command = "start" => \A k \in 1 .. Len(sent) : sent[k].target # r.target
    BY <1>2 DEF Sends
  <2>3. CASE m \in 1 .. Len(sent) /\ n \in 1 .. Len(sent)
    BY <1>0, <2>1, <2>3 DEF OnceInv
  <2>4. CASE m = Len(sent) + 1 \/ n = Len(sent) + 1
    <3>1. r.command = "start" /\ (m \in 1 .. Len(sent) => sent[m].target = r.target \/ n \in 1 .. Len(sent))
      BY <2>1, <2>4
    <3>2. m \in 1 .. Len(sent) \/ m = Len(sent) + 1
      BY <2>1
    <3>3. n \in 1 .. Len(sent) \/ n = Len(sent) + 1
      BY <2>1
    <3> QED BY <2>1, <2>2, <2>4, <3>1, <3>2, <3>3
  <2> QED BY <2>1, <2>3, <2>4
<1>3. CASE HostStep
  BY <1>0, <1>1, <1>2, <1>3, HostDoes DEF Hears
<1>4. CASE ~HostStep
  <2>1. sent' = sent
    BY <1>4, Steps DEF RxReceive, RxExit, RxFindOpen, RxFindThread, RxQueue, RxCount, Serve,
       WorkerExit, WorkerPop, WorkerUncount, StartOpen, StartCreate, StartCreated, Trigger,
       StopTriggerFails, StopUnregistered, Respond, CloseMark, CloseJoin, CloseUnstart, CloseEmpty,
       Deinit, DeinitJoin, DeinitNext, host
  <2> QED BY <1>1, <2>1
<1> QED BY <1>3, <1>4

(* A worker is created, and one that is there may be joined.               *)
LEMMA WorkerComes ==
  ASSUME Inv, Next, NEW d \in Data, ~Alive(d), Alive(d)'
  PROVE  StartCreate /\ d = thread[Control].target
<1>1. thread[d].at = "none" /\ thread'[d].at # "none" /\ thread'[d] # thread[d]
  BY DEF Alive, At
<1> QED BY <1>1, Threads, WorkerAlone DEF WorkerExit, WorkerPop, WorkerUncount, Serve, At

(* The START that registers a stream is its first.                         *)
LEMMA OpensNew ==
  ASSUME Inv, StartOpen, ~manner.waits, ~manner.restarts
  PROVE  ~Stream.registered
<1>0. TypeOK /\ ControlInv /\ OnceInv
  BY DEF Inv
<1>1. thread[Control].at \in Commands /\ thread[Control].at \in Starting /\ At(Control, "start")
  BY DEF StartOpen, At, Commands, Starting
<1>2. PICK r \in 1 .. Len(sent) : r = thread[Control].request
  BY <1>1, TargetIsData
<1>3. PICK d \in Data : d = thread[Control].target
  BY <1>1, TargetIsData
<1>4. sent[r].command = "start" /\ sent[r].target = d
  BY <1>0, <1>1, <1>2, <1>3 DEF ControlInv, Command
<1> SUFFICES ASSUME channel[d].registered PROVE FALSE
  BY <1>3 DEF Stream
<1>5. PICK n \in 1 .. Len(sent) :
        /\ sent[n].command = "start" /\ sent[n].target = d
        /\ ~(At(Control, "start") /\ thread[Control].request = n)
  BY <1>0 DEF OnceInv
<1>6. n = r
  BY <1>0, <1>4, <1>5 DEF OnceInv
<1> QED BY <1>1, <1>2, <1>5, <1>6

LEMMA OnceKept ==
  ASSUME Inv, Next
  PROVE  OnceInv'
<1>0. TypeOK /\ Typed /\ OnceInv /\ ControlInv /\ WorkersInv /\ StreamsInv /\ FifoInv
  BY Types DEF Inv
<1>1. manner' = manner
  BY Grown
<1> SUFFICES ASSUME ~manner.waits, ~manner.restarts PROVE OnceInv'
  BY <1>1 DEF OnceInv
<1>2. \A m, n \in 1 .. Len(sent') :
        /\ sent'[m].command = "start" /\ sent'[n].command = "start"
        /\ sent'[m].target = sent'[n].target
        => m = n
  BY StartsOnce
<1>3. /\ Len(sent) \in Nat /\ Len(sent') \in Nat /\ Len(sent) <= Len(sent')
      /\ \A n \in 1 .. Len(sent) : n \in 1 .. Len(sent') /\ sent'[n] = sent[n]
  <2>1. Len(sent) \in Nat /\ Grows(sent, sent')
    BY <1>0, Grown, Numbers
  <2>2. Len(sent') \in Nat
    <3>1. sent' \in Seq(Message)
      BY TypedNext DEF TypeOK, Message
    <3> QED BY <3>1
  <2> QED BY <2>1, <2>2 DEF Grows
<1>4. ASSUME NEW d \in Data, channel'[d].registered
      PROVE  \E n \in 1 .. Len(sent') :
               /\ sent'[n].command = "start" /\ sent'[n].target = d
               /\ \E k \in 1 .. Len(handled') : handled'[k] = n
               /\ ~(thread'[Control].at = "start" /\ thread'[Control].request = n)
  <2>1. CASE channel[d].registered
    <3>1. PICK n \in 1 .. Len(sent) :
            /\ sent[n].command = "start" /\ sent[n].target = d
            /\ \E k \in 1 .. Len(handled) : handled[k] = n
            /\ ~(At(Control, "start") /\ thread[Control].request = n)
      BY <1>0, <2>1 DEF OnceInv
    <3>2. PICK k \in 1 .. Len(handled) : handled[k] = n
      BY <3>1
    <3>3. k \in 1 .. Len(handled') /\ handled'[k] = n
      BY <3>2, HandledStands
    <3>4. ~(thread'[Control].at = "start" /\ thread'[Control].request = n)
      <4>1. CASE WorkerUncount(Control)
        <5>1. PopIn(Control) /\ thread'[Control].request = thread[Control].request
          BY <1>0, <4>1, WorkerUncountDoes, ControlAsks, Threads DEF Inv, PopIn
        <5>2. Fifo(Control)
          BY <1>0, <5>1, Threads DEF WorkersInv, Alive, PopIn, At, FifoInv, Sound
        <5>3. sent[handled[k]].channel = Control /\ handled[k] # 0
          BY <1>0, <3>1, <3>2 DEF StreamsInv
        <5>4. handled[k] < thread[Control].request
          BY <5>1, <5>2, <5>3 DEF Fifo
        <5>5. thread[Control].request \in Nat
          BY HandledStands, Threads
        <5> QED BY <3>2, <5>1, <5>4, <5>5
      <4> QED BY <3>1, <4>1, ControlComes DEF At
    <3>5. n \in 1 .. Len(sent') /\ sent'[n] = sent[n]
      BY <1>3
    <3> QED BY <3>1, <3>3, <3>4, <3>5
  <2>2. CASE ~channel[d].registered
    <3>1. StartOpen /\ d = thread[Control].target
      <4>1. ~(\A c \in Channel : SameFlags(c))
        BY <1>4, <2>2, Threads DEF SameFlags
      <4>2. PICK e \in Channel : e = thread[Control].target
        BY <1>0, ThreadFields, Threads
      <4>3. CASE StartOpen
        <5>1. Apart(e)
          BY <1>0, <4>2, <4>3, StartOpenDoes
        <5> QED BY <1>4, <2>2, <4>2, <4>3, <5>1, Threads DEF Apart
      <4>4. CASE StartCreate \/ StartCreated
        <5>1. e # Control
          BY <4>2, <4>4, TargetIsData DEF StartCreate, StartCreated, At, Commands, Starting
        <5>2. channel' = channel \/ (Apart(e) /\ channel'[e].registered = channel[e].registered)
          BY <1>0, <4>2, <4>4, <5>1, StartCreateDoes, StartCreatedDoes
        <5> QED BY <1>4, <2>2, <5>2, Threads DEF Apart
      <4>5. ASSUME NEW t \in Closers, CloseMark(t) \/ CloseUnstart(t) PROVE FALSE
        <5>1. PICK f \in Channel : f = thread[t].target
          BY <1>0, ThreadFields, Threads DEF Closers
        <5>2. Apart(f) /\ channel'[f].registered = channel[f].registered
          <6>1. CASE CloseMark(t)
            BY <1>0, <5>1, <6>1, CloseMarkDoes
          <6>2. CASE CloseUnstart(t)
            BY <1>0, <5>1, <6>2, CloseUnstartDoes
          <6> QED BY <4>5, <6>1, <6>2
        <5> QED BY <1>4, <2>2, <5>2, Threads DEF Apart
      <4> QED BY <4>1, <4>3, <4>4, <4>5, FlagsChange
    <3>2. thread[Control].at \in Commands /\ thread[Control].at \in Starting
      BY <3>1 DEF StartOpen, At, Commands, Starting
    <3>3. PICK n \in 1 .. Len(sent) : n = thread[Control].request
      BY <3>2, TargetIsData
    <3>4. /\ sent[n].command = "start" /\ sent[n].target = d
          /\ \E k \in 1 .. Len(handled) : handled[k] = n
      BY <1>0, <3>1, <3>2, <3>3 DEF ControlInv, Command
    <3>5. \E k \in 1 .. Len(handled') : handled'[k] = n
      BY <3>4, HandledStands
    <3>6. thread'[Control].at # "start"
      <4>1. Goes(Control, "trigger") \/ Goes(Control, "create")
        BY <1>0, <3>1, StartOpenDoes, Threads
      <4> QED BY <4>1 DEF Goes
    <3> QED BY <1>3, <3>4, <3>5, <3>6
  <2> QED BY <2>1, <2>2
<1>5. ASSUME NEW d \in Data, channel'[d].registered
      PROVE  channel'[d].mutex \/ ~Alive(d)'
  <2> SUFFICES ASSUME ~channel'[d].mutex, Alive(d)' PROVE FALSE
    OBVIOUS
  <2>1. CASE channel[d].mutex
    <3>1. PICK t \in Closers : CloseUnstart(t) /\ d = thread[t].target
      BY <2>1, MutexGoes, Threads
    <3>2. Goes(t, "empty") /\ At(t, "unstart")
      BY <1>0, <3>1, CloseUnstartDoes, Threads
    <3>3. ~Alive(d) /\ d # t
      BY <1>0, <3>1, <3>2, Threads DEF WorkersInv, CloserOf, At, Closers
    <3> QED BY <3>2, <3>3, Threads DEF Goes, Elsewhere, Alive, At
  <2>2. CASE ~channel[d].mutex
    <3>1. CASE Alive(d)
      <4>1. channel[d].registered
        BY <1>0, <3>1, Threads DEF WorkersInv, WorkerOf
      <4> QED BY <1>0, <2>2, <3>1, <4>1 DEF OnceInv
    <3>2. CASE ~Alive(d)
      <4>1. StartCreate /\ d = thread[Control].target
        BY <3>2, WorkerComes
      <4> QED BY <1>0, <2>2, <4>1 DEF OnceInv, StartCreate, At, Stream
    <3> QED BY <3>1, <3>2
  <2> QED BY <1>0, <2>1, <2>2
<1>6. ASSUME thread'[Control].at \in {"create", "created"}
      PROVE  channel'[thread'[Control].target].mutex
  <2>1. CASE thread'[Control] = thread[Control]
    <3>1. thread[Control].at \in {"create", "created"} /\ thread[Control].at \in Commands
      BY <1>6, <2>1 DEF Commands, Starting
    <3>2. PICK d \in Data : d = thread[Control].target
      BY <3>1, TargetIsData
    <3>3. channel[d].mutex
      BY <1>0, <3>1, <3>2 DEF OnceInv, Stream
    <3>4. ASSUME NEW t \in Closers, CloseUnstart(t), d = thread[t].target PROVE FALSE
      <4>1. thread[t].at = "unstart"
        BY <3>4 DEF CloseUnstart, At
      <4>2. CASE t = "main"
        <5>1. Main.target = Control
          BY <3>1, <4>1, <4>2, CommandLives DEF Main, Closing
        <5> QED BY <3>4, <4>2, <5>1, Threads DEF Main
      <4> QED BY <3>1, <4>1, <4>2 DEF Closers
    <3> QED BY <2>1, <3>2, <3>3, <3>4, MutexGoes, Threads
  <2>2. CASE WorkerUncount(Control)
    BY <1>0, <1>6, <2>2, WorkerUncountDoes, ControlAsks, Threads DEF Inv
  <2>3. CASE StartOpen
    <3>1. ~Stream.registered
      BY <2>3, OpensNew
    <3>2. PICK d \in Channel : d = thread[Control].target
      BY <1>0, ThreadFields, Threads
    <3>3. channel'[d].mutex = TRUE /\ (Goes(Control, "trigger") \/ Goes(Control, "create"))
      BY <1>0, <2>3, <3>1, <3>2, StartOpenDoes DEF Stream
    <3> QED BY <3>2, <3>3 DEF Goes
  <2>4. CASE StartCreate
    <3>1. At(Control, "create") /\ thread[Control].at \in Commands
      BY <2>4 DEF StartCreate, At, Commands, Starting
    <3>2. PICK d \in Data : d = thread[Control].target
      BY <3>1, TargetIsData
    <3>3. channel[d].mutex
      BY <1>0, <3>1, <3>2 DEF OnceInv, Stream, At
    <3>4. \/ Goes(Control, "failed")
          \/ thread'[Control].target = d /\ channel' = channel
      BY <1>0, <2>4, <3>2, StartCreateDoes, Threads
    <3> QED BY <1>6, <3>3, <3>4 DEF Goes
  <2> QED BY <1>6, <2>1, <2>2, <2>3, <2>4, ControlComes
<1> QED BY <1>2, <1>4, <1>5, <1>6 DEF OnceInv, At, Stream

(* What is handled next comes after all that was handled of its channel.   *)
LEMMA OrderKept ==
  ASSUME Inv, Next
  PROVE  OrderInv'
<1>0. TypeOK /\ Typed /\ NumbersInv /\ OrderInv /\ OnceInv /\ WorkersInv /\ FifoInv
  BY Types DEF Inv
<1>1. manner' = manner
  BY Grown
<1> SUFFICES ASSUME manner.waits \/ ~manner.restarts PROVE HandledInOrder'
  BY <1>1 DEF OrderInv
<1>2. /\ \A k \in 1 .. Len(handled) : handled[k] # 0 /\ handled[k] \in 1 .. Len(sent)
      /\ \A i, j \in 1 .. Len(handled) : i < j /\ sent[handled[i]].channel = sent[handled[j]].channel
           => handled[i] < handled[j]
      /\ Len(handled) \in Nat
  BY <1>0, HandledStands, Numbers DEF OrderInv, HandledInOrder, Handled, Nothing
<1>3. CASE handled' = handled
  <2>1. \A k \in 1 .. Len(handled) : sent'[handled[k]] = sent[handled[k]]
    BY <1>2, HandledStands
  <2>2. \A k \in 1 .. Len(handled') : handled'[k] # 0
    BY <1>2, <1>3
  <2>3. \A i, j \in 1 .. Len(handled') :
          i < j /\ sent'[handled'[i]].channel = sent'[handled'[j]].channel
          => handled'[i] < handled'[j]
    BY <1>2, <1>3, <2>1
  <2> QED BY <2>2, <2>3 DEF HandledInOrder, Handled, Nothing
<1>4. ASSUME NEW n \in 1 .. Len(sent), n # 0, handled' = Append(handled, n),
             n \in Request \cup {Nothing},
             \A k \in 1 .. Len(handled) : sent[handled[k]].channel = sent[n].channel => handled[k] < n
      PROVE  HandledInOrder'
  <2>1. /\ Len(handled') = Len(handled) + 1 /\ handled'[Len(handled) + 1] = n
        /\ \A k \in 1 .. Len(handled) : handled'[k] = handled[k]
    BY <1>0, <1>4, HandledGrow DEF Grows
  <2>2. \A m \in 1 .. Len(sent) : sent'[m] = sent[m]
    BY HandledStands
  <2>3. \A k \in 1 .. Len(handled') : k \in 1 .. Len(handled) \/ k = Len(handled) + 1
    BY <1>2, <2>1
  <2>4. \A k \in 1 .. Len(handled') : handled'[k] # 0
    BY <1>2, <1>4, <2>1, <2>3
  <2>5. ASSUME NEW i \in 1 .. Len(handled'), NEW j \in 1 .. Len(handled'), i < j,
               sent'[handled'[i]].channel = sent'[handled'[j]].channel
        PROVE  handled'[i] < handled'[j]
    <3>1. i \in 1 .. Len(handled)
      BY <1>2, <2>1, <2>5
    <3>2. handled'[i] = handled[i] /\ sent'[handled[i]] = sent[handled[i]]
      BY <1>2, <2>1, <2>2, <3>1
    <3>3. CASE j \in 1 .. Len(handled)
      BY <1>2, <2>1, <2>2, <2>5, <3>1, <3>2, <3>3
    <3>4. CASE j = Len(handled) + 1
      BY <1>4, <2>1, <2>2, <2>5, <3>1, <3>2, <3>4
    <3> QED BY <2>3, <3>3, <3>4
  <2> QED BY <2>4, <2>5 DEF HandledInOrder, Handled, Nothing
<1>5. CASE RxFindThread
  <2>1. thread["rx"].at \in RxBusy /\ thread["rx"].at \in Early
    BY <1>5 DEF RxFindThread, At, RxBusy, Early
  <2>2. thread["rx"].request = received /\ received \in 1 .. Len(sent) /\ received # 0
    BY <1>0, <2>1, RequestOf DEF NumbersInv
  <2>3. \A k \in 1 .. Len(handled) : handled[k] < received
    BY <1>0, <2>1 DEF NumbersInv
  <2>4. received \in Request \cup {Nothing}
    BY <1>0, <2>2, ThreadFields, Threads
  <2>5. handled' = handled \/ handled' = Append(handled, received)
    BY <1>0, <1>5, <2>2, RxFindThreadDoes
  <2> QED BY <1>3, <1>4, <2>2, <2>3, <2>4, <2>5
<1>6. ASSUME NEW c \in Channel, WorkerUncount(c) PROVE HandledInOrder'
  <2>1. /\ PopIn(c) /\ handled' = Append(handled, thread[c].request)
    BY <1>6 DEF WorkerUncount, PopIn
  <2>2. Alive(c) /\ channel[c].registered
    BY <1>0, <2>1 DEF WorkersInv, WorkerOf, Alive, PopIn, At
  <2>3. Sound(c)
    <3>1. CASE ~manner.waits /\ c = Control
      BY <1>0, <2>2, <3>1 DEF WorkersInv, Sound
    <3>2. CASE ~manner.waits /\ c \in Data
      BY <1>0, <2>2, <3>2 DEF OnceInv, Sound
    <3> QED BY <3>1, <3>2, Threads DEF Sound
  <2>4. Fifo(c)
    BY <1>0, <2>3 DEF FifoInv
  <2>5. PICK n \in Request \cup {Nothing} : n = thread[c].request
    BY <1>0, ThreadFields, Threads
  <2>6. n # 0 /\ n \in 1 .. Len(sent) /\ sent[n].channel = c
    <3>1. n # 0
      BY <2>1, <2>4, <2>5 DEF Fifo
    <3> QED BY <1>0, <2>5, <3>1, HandledStands, Threads DEF NumbersInv
  <2>7. \A k \in 1 .. Len(handled) : sent[handled[k]].channel = c => handled[k] < n
    BY <1>2, <2>1, <2>4, <2>5 DEF Fifo
  <2> QED BY <1>4, <2>1, <2>5, <2>6, <2>7
<1> QED BY <1>3, <1>5, <1>6, HandledStays

-----------------------------------------------------------------------------
LEMMA InitHolds == Init => Inv
<1> SUFFICES ASSUME Init PROVE Inv
  OBVIOUS
<1> USE Threads
<1>1. /\ channel = [c \in Channel |->
                      IF c = Control
                      THEN [Registered EXCEPT !.open = TRUE, !.started = TRUE]
                      ELSE Unregistered]
      /\ order = <<Control>>
      /\ thread = [t \in Thread |-> IF t \in {"rx", Control} THEN Waiting ELSE Away]
      /\ holder = [c \in Channel |-> "nobody"]
      /\ stopping = FALSE /\ sent = <<>> /\ pending = 0
      /\ running = [d \in Data |-> FALSE]
      /\ received = 0 /\ manner \in Manners /\ handled = <<>> /\ answered = <<>>
  BY DEF Init, Nothing
<1>2. /\ \A t \in Thread : t = "rx" \/ t = Control => thread[t] = Waiting
      /\ \A t \in Thread : t # "rx" /\ t # Control => thread[t] = Away
      /\ \A t \in Thread : thread[t].request = 0 /\ thread[t].at \in {"none", "loop"}
      /\ thread["rx"].at = "loop" /\ thread[Control].at = "loop"
      /\ thread["main"].at = "none" /\ thread["main"].next = 1
      /\ \A d \in Data : thread[d].at = "none"
  BY <1>1, Waits
<1>3. /\ \A d \in Data : channel[d] = Unregistered
      /\ channel[Control] \in ChannelState
      /\ channel[Control].registered = TRUE /\ channel[Control].open = TRUE
      /\ channel[Control].stop = FALSE /\ channel[Control].started = TRUE
      /\ channel[Control].mutex = TRUE /\ channel[Control].queue = Unregistered.queue
      /\ channel[Control].head = 0 /\ channel[Control].tail = 0 /\ channel[Control].count = 0
  <2>1. channel[Control] = [Registered EXCEPT !.open = TRUE, !.started = TRUE]
    BY <1>1
  <2>2. PICK r \in ChannelState : r = Registered
    BY Newly
  <2>3. /\ channel[Control] \in ChannelState
        /\ channel[Control].registered = r.registered /\ channel[Control].open = TRUE
        /\ channel[Control].stop = r.stop /\ channel[Control].started = TRUE
        /\ channel[Control].mutex = r.mutex /\ channel[Control].queue = r.queue
        /\ channel[Control].head = r.head /\ channel[Control].tail = r.tail
        /\ channel[Control].count = r.count
    BY <2>1, <2>2 DEF ChannelState
  <2> QED BY <1>1, <2>2, <2>3, Newly
<1>4. /\ \A c \in Channel : /\ channel[c].head = 0 /\ channel[c].tail = 0 /\ channel[c].count = 0
                            /\ channel[c].queue = Unregistered.queue
      /\ \A c \in Channel, i \in Slot : channel[c].queue[i] = 0
      /\ \A d \in Data : /\ ~channel[d].registered /\ ~channel[d].open /\ ~channel[d].stop
                         /\ ~channel[d].started /\ ~channel[d].mutex
  BY <1>3, Newly
<1>5. Len(sent) = 0 /\ Len(handled) = 0 /\ Len(answered) = 0 /\ Len(order) = 1
      /\ order[1] = Control
  BY <1>1
<1>6. TypeOK
  <2>1. channel \in [Channel -> ChannelState]
    BY <1>1, <1>3, Newly
  <2>2. thread \in [Thread -> ThreadState]
    BY <1>1, Waits
  <2>3. order \in Seq(Channel)
    BY <1>1
  <2>4. holder \in [Channel -> Thread \cup {"nobody"}]
    BY <1>1
  <2>5. sent \in Seq(Message) /\ handled \in Seq(Request \cup {Nothing}) /\ answered \in Seq(Reply)
    BY <1>1
  <2>6. received \in 0 .. Len(sent) /\ pending \in 0 .. Len(sent)
    BY <1>1, <1>5
  <2> QED BY <1>1, <2>1, <2>2, <2>3, <2>4, <2>5, <2>6, TypesAre DEF Typed, OtherTypes
<1>7. PlacesInv
  <2>1. PlaceOf("rx", "loop") /\ PlaceOf("main", "none") /\ PlaceOf(Control, "loop")
    BY Places
  <2>2. \A d \in Data : PlaceOf(d, "none")
    BY Places
  <2>3. \A t \in Thread : t = "rx" \/ t = "main" \/ t = Control \/ t \in Data
    OBVIOUS
  <2> QED BY <1>2, <2>1, <2>2, <2>3 DEF PlacesInv
<1>8. MannerInv
  <2>1. manner.requests \in Nat /\ manner.requests >= 0
    BY <1>1, ControllerTransportAssumption
  <2> QED BY <1>1, <1>5, <2>1 DEF MannerInv
<1>9. NumbersInv
  <2>1. thread["rx"].at \notin RxBusy /\ thread["rx"].at \notin Early /\ ~At("rx", "count")
    BY <1>2 DEF RxBusy, Early, At
  <2>2. \A c \in Channel : ~PopIn(c) /\ thread[c].request = 0
    BY <1>2 DEF PopIn, At
  <2>3. \A t \in Thread : thread[t].request <= received
    BY <1>1, <1>2
  <2>4. \A c \in Channel, i \in Slot : channel[c].queue[i] <= received
    <3>1. received = 0
      BY <1>1
    <3> QED BY <1>4, <3>1
  <2> QED BY <1>4, <1>5, <2>1, <2>2, <2>3, <2>4 DEF NumbersInv
<1>10. ControlInv
  BY <1>2 DEF ControlInv, Commands, Starting, Closing
<1>11. WorkersInv
  BY <1>2, <1>3, <1>4 DEF WorkersInv, WorkerOf, CloserOf, Alive, At, Closers
<1>12. MainInv
  <2>1. \A c \in Channel : channel[c].registered => \E i \in 1 .. Len(order) : order[i] = c
    BY <1>4, <1>5
  <2> QED BY <1>2, <1>5, <2>1 DEF MainInv, Main, Alive, At, Closing
<1>13. StreamsInv
  BY <1>1, <1>2, <1>5 DEF StreamsInv, At
<1>14. LocksInv
  BY <1>1, <1>2 DEF LocksInv, Locked, RxIn, PopIn, At
<1>15. FifoInv
  <2>1. ASSUME NEW c \in Channel PROVE Fifo(c)
    <3>1. ~RxIn(c) /\ ~PopIn(c) /\ Held(c) = 0
      BY <1>2, <1>4 DEF RxIn, PopIn, At, Held
    <3>2. channel[c].tail = (channel[c].head + 0) % QueueDepth
      <4>1. 0 \in Slot
        BY QueueFits DEF Slot
      <4> QED BY <1>4, <4>1, Ring
    <3> QED BY <1>5, <3>1, <3>2 DEF Fifo
  <2> QED BY <2>1 DEF FifoInv
<1>16. OneInv
  <2>1. ~RxWorks /\ \A c \in Channel : ~Queued(c) /\ ~Working(c) /\ ~PopIn(c)
    BY <1>2, <1>4 DEF RxWorks, RxBusy, Queued, Working, PopIn, At
  <2>2. thread["rx"].at \notin RxBusy
    BY <1>2 DEF RxBusy
  <2>3. Quiet /\ received = Len(sent) /\ ~(received < Len(sent)) /\ pending = 0
    BY <1>1, <1>5, <2>1 DEF Quiet
  <2>4. \A d \in Data : channel[d].count = 0
    BY <1>4
  <2> QED BY <2>1, <2>2, <2>3, <2>4 DEF OneInv
<1>17. OnceInv
  BY <1>2, <1>4, <1>5 DEF OnceInv
<1>18. OrderInv
  BY <1>5 DEF OrderInv, HandledInOrder, Handled
<1> QED BY <1>6, <1>7, <1>8, <1>9, <1>10, <1>11, <1>12, <1>13, <1>14, <1>15, <1>16, <1>17, <1>18
        DEF Inv

LEMMA StepKeeps == Inv /\ [Next]_vars => Inv'
<1> SUFFICES ASSUME Inv, [Next]_vars PROVE Inv'
  OBVIOUS
<1>1. CASE Next
  BY <1>1, TypeKept, PlacesKept, MannerKept, NumbersKept, ControlKept, WorkersKept, MainKept,
     StreamsKept, LocksKept, FifoKept, OneKept, OnceKept, OrderKept DEF Inv
<1>2. CASE UNCHANGED vars
  <2>1. UNCHANGED <<channel, order, thread, holder, stopping, handled, answered, manner,
                    sent, pending, running, received>>
    BY <1>2 DEF vars, controller, host
  <2>2. TypeOK' /\ PlacesInv' /\ MannerInv' /\ NumbersInv'
    BY <2>1 DEF Inv, TypeOK, PlacesInv, PlaceOf, MannerInv, NumbersInv, PopIn, At
  <2>3. ControlInv' /\ WorkersInv'
    BY <2>1 DEF Inv, ControlInv, WorkersInv, WorkerOf, CloserOf, Alive, At, Command, Stream
  <2>4. MainInv' /\ StreamsInv'
    BY <2>1 DEF Inv, MainInv, Main, Passed, Dead, Alive, StreamsInv, HasStarted, At
  <2>5. LocksInv' /\ FifoInv'
    BY <2>1 DEF Inv, LocksInv, Locked, FifoInv, Fifo, Sound, Held, Item, RxIn, PopIn, At, Target
  <2>6. OneInv'
    BY <2>1 DEF Inv, OneInv, Quiet, Queued, Working, RxWorks, PopIn, At, Target, Answered, IsClosed
  <2>7. OnceInv' /\ OrderInv'
    BY <2>1 DEF Inv, OnceInv, Alive, At, Stream, OrderInv, HandledInOrder, Handled
  <2> QED BY <2>2, <2>3, <2>4, <2>5, <2>6, <2>7 DEF Inv
<1> QED BY <1>1, <1>2

LEMMA AlwaysInv == Spec => []Inv
BY InitHolds, StepKeeps, PTL DEF Spec

(* The types, and where each kind of thread can be.                        *)
THEOREM TypeCorrect == Spec => []TypeOK
<1>1. Inv => TypeOK
  BY DEF Inv
<1> QED BY <1>1, AlwaysInv, PTL

(* The count of a queue that has its mutex is the number of its requests,  *)
(* whatever the host is like: ac_transport_queue_request and               *)
(* ac_transport_pop_request count under the mutex, and closing a channel   *)
(* destroys the mutex before it empties the queue.                         *)
LEMMA ExactNow == Inv => QueueExact
<1> SUFFICES ASSUME Inv, NEW c \in Channel, channel[c].mutex, holder[c] = "nobody"
             PROVE  (channel[c].head + channel[c].count) % QueueDepth = channel[c].tail
  BY DEF QueueExact
<1>1. ~RxIn(c) /\ ~PopIn(c)
  BY Threads DEF Inv, LocksInv, Locked
<1>2. Fifo(c)
  BY DEF Inv, FifoInv, Sound
<1> QED BY <1>1, <1>2 DEF Fifo, Held

THEOREM QueueAlwaysExact == Spec => []QueueExact
BY ExactNow, AlwaysInv, PTL

(* Of a host that never gives up, or that starts no stream a second time,  *)
(* ac_transport_channel_worker and ac_transport_worker handle every request*)
(* of a channel once and in the order they were sent, and find the count of*)
(* the queue right.  (A host that gives up and restarts a stream has its   *)
(* requests counted without a mutex, which the code does not create again.)*)
THEOREM QueueAlwaysInOrder ==
  ASSUME \A m \in Manners : m.waits \/ ~m.restarts
  PROVE  Spec => []QueueInOrder
<1>1. Inv => QueueInOrder
  <2> SUFFICES ASSUME Inv PROVE QueueInOrder
    OBVIOUS
  <2>1. manner.waits \/ ~manner.restarts
    BY DEF Inv, MannerInv
  <2> QED BY <2>1, ExactNow DEF Inv, OrderInv, QueueInOrder
<1> QED BY <1>1, AlwaysInv, PTL

(* When a STOP of a host that waits has closed a channel, and when         *)
(* ac_transport_deinit returns, no thread works on what was closed:        *)
(* ac_transport_close_channel joins the worker, and "rx" is past no check  *)
(* of a channel that is closed meanwhile.                                  *)
THEOREM NothingEverWorksOn == Spec => []NothingWorksOn
<1>1. Inv => NothingWorksOn
  <2> SUFFICES ASSUME Inv PROVE NothingWorksOn
    OBVIOUS
  <2>1. WorkersInv /\ ControlInv /\ OneInv /\ MainInv /\ TypeOK
    BY DEF Inv
  <2>2. ASSUME NEW d \in Data, manner.waits, IsClosed(d)
        PROVE  /\ At(d, "none") /\ channel[d].count = 0
               /\ ~(/\ thread["rx"].at \in {"started?", "queue", "count", "serve"}
                    /\ Target = d)
    <3>1. channel[d].stop /\ ~channel[d].started /\ ~channel[d].open
      BY <2>1, <2>2, Threads DEF IsClosed, WorkersInv, WorkerOf
    <3>2. ~Alive(d)
      <4> SUFFICES ASSUME Alive(d) PROVE FALSE
        OBVIOUS
      <4>1. At(Control, "created") /\ thread[Control].target = d
        BY <2>1, <3>1, Threads DEF WorkersInv, WorkerOf
      <4> QED BY <2>1, <3>1, <4>1 DEF ControlInv, Commands, Starting, At, Stream
    <3>3. ~(thread["rx"].at \in RxBusy \ {"dispatch"} /\ Target = d)
      BY <2>1, <2>2, <3>1 DEF OneInv
    <3> QED BY <2>1, <2>2, <3>2, <3>3 DEF OneInv, Alive, RxBusy
  <2>3. DeinitQuiesces
    <3> SUFFICES ASSUME At("main", "done")
                 PROVE  /\ \A t \in Thread \ {"main"} : At(t, "none")
                        /\ \A c \in Channel : ~channel[c].started /\ ~channel[c].open
      BY DEF DeinitQuiesces
    <3>1. Main.at = "done"
      BY DEF Main, At
    <3> QED BY <2>1, <3>1, Threads DEF MainInv, Dead, Alive
  <2> QED BY <2>2, <2>3 DEF NothingWorksOn, ClosedIsQuiet
<1> QED BY <1>1, AlwaysInv, PTL

=============================================================================
