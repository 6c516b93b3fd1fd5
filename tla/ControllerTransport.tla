------------------------- MODULE ControllerTransport -------------------------
(***************************************************************************)
(* The transport of the audio controller (ac_transport.c): the worker that *)
(* receives requests from the data link ("rx"), the worker of each open    *)
(* channel, the audio control handler that opens and closes the channels   *)
(* of the streams (ac_audio.c), and the thread that tears the controller   *)
(* down ("main").                                                          *)
(*                                                                         *)
(* The flags of a channel are read and written without a lock, as in the   *)
(* code; only the queue has a mutex, and only until the channel is closed  *)
(* for the first time.  Counting a request in or out is a read and a later *)
(* write, which the mutex makes one step when there is a mutex.            *)
(*                                                                         *)
(* The link hands over requests in the order the host sent them.  Requests *)
(* are numbered in that order.                                             *)
(***************************************************************************)
EXTENDS Integers, Sequences, FiniteSets

CONSTANTS
  Control,      (* the audio control channel, open from the start          *)
  Data,         (* the data channels of the streams                        *)
  QueueDepth,   (* AC_TRANSPORT_CHANNEL_QUEUE_DEPTH                        *)
  MaxRequests,  (* requests a host sends                                   *)
  Manners       (* what the host may be like: waits says that its requests *)
                (* never time out, restarts that a stream that was stopped *)
                (* is started again, requests how many it sends            *)

Channel == {Control} \cup Data
Request == 1 .. MaxRequests
Nothing == 0

ASSUME ControllerTransportAssumption ==
  /\ Control \notin Data
  /\ {"rx", "main", "nobody"} \cap Channel = {}
  /\ QueueDepth \in Nat \ {0}
  /\ MaxRequests \in Nat
  /\ Manners \subseteq [waits : BOOLEAN, restarts : BOOLEAN, requests : 0 .. MaxRequests]

Thread == {"rx", "main"} \cup Channel    (* a worker is named as its channel *)

VARIABLES
  channel,   (* the ac_transport_channel_runtime_t of every channel        *)
  order,     (* transport->channels: the registered channels               *)
  thread,    (* where each thread is, and its local variables              *)
  holder,    (* the thread that holds a channel's mutex                    *)
  stopping,  (* transport->stop_requested                                  *)
  sent,      (* the host's requests                                        *)
  pending,   (* the request whose answer the host waits for, or none       *)
  running,   (* the streams that the host believes to be started           *)
  manner,    (* the member of Manners; it stays                            *)
  received,  (* how many of them "rx" has received                         *)
  handled,   (* history: requests whose handler was called                 *)
  answered   (* history: requests a response was sent for                  *)

host == <<sent, pending, running, received, manner>>
controller == <<channel, order, thread, holder, stopping, handled, answered, manner>>
vars == <<controller, host>>

Slot == 0 .. QueueDepth - 1

Unregistered ==
  [registered |-> FALSE, open |-> FALSE, stop |-> FALSE, started |-> FALSE,
   mutex |-> FALSE, queue |-> [i \in Slot |-> Nothing],
   head |-> 0, tail |-> 0, count |-> 0]

Registered == [Unregistered EXCEPT !.registered = TRUE, !.mutex = TRUE]

Away == [at |-> "none", request |-> Nothing, count |-> 0, target |-> Control,
         next |-> 1]
Waiting == [Away EXCEPT !.at = "loop"]

(* The state in which audio_controller_create returns.                     *)
Init ==
  /\ channel = [c \in Channel |->
                  IF c = Control
                  THEN [Registered EXCEPT !.open = TRUE, !.started = TRUE]
                  ELSE Unregistered]
  /\ order = <<Control>>
  /\ thread = [t \in Thread |-> IF t \in {"rx", Control} THEN Waiting ELSE Away]
  /\ holder = [c \in Channel |-> "nobody"]
  /\ stopping = FALSE
  /\ sent = <<>>
  /\ pending = Nothing
  /\ running = [d \in Data |-> FALSE]
  /\ received = 0
  /\ manner \in Manners
  /\ handled = <<>>
  /\ answered = <<>>

At(t, place) == thread[t].at = place
Goto(t, place) == thread' = [thread EXCEPT ![t].at = place]
Loop(t) == thread' = [thread EXCEPT ![t] = Waiting]

Handled(n) == \E i \in 1 .. Len(handled) : handled[i] = n
Answered(n, ok) == \E i \in 1 .. Len(answered) : answered[i] = [request |-> n, ok |-> ok]

(* ac_channel_lock and ac_channel_unlock do nothing without a mutex.       *)
CanLock(c) == channel[c].mutex => holder[c] = "nobody"
Lock(c, t) == holder' = IF channel[c].mutex THEN [holder EXCEPT ![c] = t] ELSE holder
Unlock(c) == holder' = IF channel[c].mutex THEN [holder EXCEPT ![c] = "nobody"] ELSE holder

(* ac_transport_send_response and ac_transport_send_error.                 *)
Answer(n, ok) == answered' = Append(answered, [request |-> n, ok |-> ok])

-----------------------------------------------------------------------------
(* The host: it waits for the answer of one request at a time, or gives up *)
(* when it is late (sendSync), and starts, stops, writes and closes as     *)
(* SimulatorAudioSession does.                                             *)

Send(command, d) ==
  /\ Len(sent) < manner.requests
  /\ pending = Nothing
  /\ pending' = Len(sent) + 1
  /\ sent' = Append(sent, [command |-> command, target |-> d,
                           channel |-> IF command = "data" THEN d ELSE Control])
  /\ UNCHANGED <<controller, received>>

HostStart(d) ==
  /\ ~running[d]
  /\ manner.restarts \/ \A n \in 1 .. Len(sent) : sent[n].target # d
  /\ Send("start", d)
  /\ UNCHANGED running

HostData(d) == running[d] /\ Send("data", d) /\ UNCHANGED running

HostStop(d) == running[d] /\ Send("stop", d) /\ UNCHANGED running

(* close() forgets the stream whatever becomes of the request.             *)
HostClose(d) == Send("close", d) /\ running' = [running EXCEPT ![d] = FALSE]

(* An error answer leaves the session as it is.                            *)
HostAnswered ==
  /\ pending # Nothing
  /\ LET request == sent[pending] IN
     \/ /\ Answered(pending, TRUE)
        /\ running' = CASE request.command = "start" -> [running EXCEPT ![request.target] = TRUE]
                        [] request.command = "stop"  -> [running EXCEPT ![request.target] = FALSE]
                        [] OTHER -> running
     \/ /\ Answered(pending, FALSE)
        /\ UNCHANGED running
  /\ pending' = Nothing
  /\ UNCHANGED <<controller, sent, received>>

(* No answer in time; a later one is not recognised (TransportManager).    *)
HostTimeout ==
  /\ pending # Nothing
  /\ ~manner.waits
  /\ pending' = Nothing
  /\ UNCHANGED <<controller, sent, received, running>>

HostStep ==
  \/ \E d \in Data : HostStart(d) \/ HostData(d) \/ HostStop(d) \/ HostClose(d)
  \/ HostAnswered
  \/ HostTimeout

-----------------------------------------------------------------------------
(* ac_transport_worker and ac_transport_dispatch_packet                    *)

RxReceive ==
  /\ At("rx", "loop")
  /\ ~stopping
  /\ received < Len(sent)
  /\ received' = received + 1
  /\ thread' = [thread EXCEPT !["rx"].at = "dispatch", !["rx"].request = received + 1]
  /\ UNCHANGED <<channel, order, holder, stopping, sent, pending, running, manner, handled,
                 answered>>

RxExit ==
  /\ At("rx", "loop")
  /\ stopping
  /\ Goto("rx", "exited")
  /\ UNCHANGED <<channel, order, holder, stopping, host, handled, answered>>

Target == sent[thread["rx"].request].channel

(* The first of two reads of the channel; "bad channel" is an answer too.  *)
RxFindOpen ==
  /\ At("rx", "dispatch")
  /\ IF channel[Target].open
     THEN Goto("rx", "started?") /\ UNCHANGED answered
     ELSE Loop("rx") /\ Answer(thread["rx"].request, FALSE)
  /\ UNCHANGED <<channel, order, holder, stopping, host, handled>>

(* A channel without a thread is served by the transport worker itself.    *)
RxFindThread ==
  /\ At("rx", "started?")
  /\ IF channel[Target].started
     THEN Goto("rx", "queue") /\ UNCHANGED handled
     ELSE /\ Goto("rx", "serve")
          /\ handled' = Append(handled, thread["rx"].request)
  /\ UNCHANGED <<channel, order, holder, stopping, host, answered>>

(* ac_transport_queue_request, up to the read of count.  A request that    *)
(* finds the queue full is dropped, without a response.                    *)

RxQueue ==
  /\ At("rx", "queue")
  /\ CanLock(Target)
  /\ IF channel[Target].count >= QueueDepth
     THEN Loop("rx") /\ UNCHANGED <<channel, holder>>
     ELSE /\ Lock(Target, "rx")
          /\ channel' = [channel EXCEPT
               ![Target].queue[channel[Target].tail] = thread["rx"].request,
               ![Target].tail = (@ + 1) % QueueDepth]
          /\ thread' = [thread EXCEPT !["rx"].at = "count",
                                      !["rx"].count = channel[Target].count]
  /\ UNCHANGED <<order, stopping, host, handled, answered>>

RxCount ==
  /\ At("rx", "count")
  /\ channel' = [channel EXCEPT ![Target].count = thread["rx"].count + 1]
  /\ Unlock(Target)
  /\ Loop("rx")
  /\ UNCHANGED <<order, stopping, host, handled, answered>>

-----------------------------------------------------------------------------
(* ac_transport_channel_worker and ac_transport_pop_request                *)

WorkerExit(c) ==
  /\ At(c, "loop")
  /\ channel[c].stop
  /\ channel[c].count = 0
  /\ Goto(c, "exited")
  /\ UNCHANGED <<channel, order, holder, stopping, host, handled, answered>>

(* With nothing queued the worker sleeps and goes round again.  In the     *)
(* faulty variant head stays where it is.                                  *)
WorkerPopSameHead(c) ==
  /\ At(c, "loop")
  /\ CanLock(c)
  /\ channel[c].count > 0
  /\ Lock(c, c)
  /\ thread' = [thread EXCEPT ![c].at = "uncount",
                              ![c].request = channel[c].queue[channel[c].head],
                              ![c].count = channel[c].count]
  /\ UNCHANGED <<channel, order, stopping, host, handled, answered>>

WorkerPop(c) ==
  /\ At(c, "loop")
  /\ CanLock(c)
  /\ channel[c].count > 0
  /\ Lock(c, c)
  /\ channel' = [channel EXCEPT ![c].head = (@ + 1) % QueueDepth]
  /\ thread' = [thread EXCEPT ![c].at = "uncount",
                              ![c].request = channel[c].queue[channel[c].head],
                              ![c].count = channel[c].count]
  /\ UNCHANGED <<order, stopping, host, handled, answered>>

(* A data handler may wait for the stream before it answers; the control   *)
(* handler goes to the command's first step.                               *)
WorkerUncount(c) ==
  /\ At(c, "uncount")
  /\ channel' = [channel EXCEPT ![c].count = thread[c].count - 1]
  /\ Unlock(c)
  /\ handled' = Append(handled, thread[c].request)
  /\ thread' = [thread EXCEPT
       ![c] = IF c # Control THEN [@ EXCEPT !.at = "serve"]
              ELSE LET request == sent[@.request] IN
                   [@ EXCEPT !.at = IF request.command = "start" THEN "start" ELSE "stop",
                             !.target = request.target]]
  /\ UNCHANGED <<order, stopping, host, answered>>

(* The end of a data handler, on the channel's worker or on "rx".          *)
Serve(t) ==
  /\ At(t, "serve")
  /\ \E ok \in BOOLEAN : Answer(thread[t].request, ok)
  /\ Loop(t)
  /\ UNCHANGED <<channel, order, holder, stopping, host, handled>>

-----------------------------------------------------------------------------
(* START: ac_audio_start registers the channel, once, opens it and starts  *)
(* the stream, which may fail and leaves the channel open then.            *)

StartOpen ==
  /\ At(Control, "start")
  /\ LET d == thread[Control].target IN
     /\ order' = IF channel[d].registered THEN order ELSE Append(order, d)
     /\ channel' = [channel EXCEPT
          ![d] = [(IF @.registered THEN @ ELSE Registered)
                  EXCEPT !.open = TRUE, !.stop = FALSE]]
     /\ Goto(Control, IF channel[d].started THEN "trigger" ELSE "create")
  /\ UNCHANGED <<holder, stopping, host, handled, answered>>

(* thread_create, which may fail.                                          *)
StartCreate ==
  /\ At(Control, "create")
  /\ LET d == thread[Control].target IN
     \/ /\ thread' = [thread EXCEPT ![d] = Waiting, ![Control].at = "created"]
        /\ UNCHANGED channel
     \/ /\ channel' = [channel EXCEPT ![d].open = FALSE]
        /\ Goto(Control, "failed")
  /\ UNCHANGED <<order, holder, stopping, host, handled, answered>>

StartCreated ==
  /\ At(Control, "created")
  /\ channel' = [channel EXCEPT ![thread[Control].target].started = TRUE]
  /\ Goto(Control, "trigger")
  /\ UNCHANGED <<order, holder, stopping, host, handled, answered>>

(* sof_stream_trigger, for START and for STOP.                             *)
Trigger ==
  /\ At(Control, "trigger")
  /\ \/ Goto(Control, "done")
     \/ Goto(Control, "failed")
  /\ UNCHANGED <<channel, order, holder, stopping, host, handled, answered>>

StopTriggerFails ==
  /\ At(Control, "stop")
  /\ sent[thread[Control].request].command = "stop"
  /\ Goto(Control, "failed")
  /\ UNCHANGED <<channel, order, holder, stopping, host, handled, answered>>

(* Faulty variant: a command that fails is not answered.                   *)
RespondSuccess ==
  /\ thread[Control].at \in {"done", "failed"}
  /\ IF At(Control, "done") THEN Answer(thread[Control].request, TRUE)
     ELSE UNCHANGED answered
  /\ Loop(Control)
  /\ UNCHANGED <<channel, order, holder, stopping, host, handled>>

Respond ==
  /\ thread[Control].at \in {"done", "failed"}
  /\ Answer(thread[Control].request, At(Control, "done"))
  /\ Loop(Control)
  /\ UNCHANGED <<channel, order, holder, stopping, host, handled>>

-----------------------------------------------------------------------------
(* ac_transport_close_channel, called by the control handler for STOP and  *)
(* CLOSE and by ac_transport_deinit for every channel.                     *)

Closers == {"main", Control}

(* Where the caller of ac_transport_close_channel goes on.                 *)
Closed(t) == IF t = Control THEN "done" ELSE "next channel"

(* STOP of a stream whose channel was never opened closes nothing.         *)
StopUnregistered ==
  /\ At(Control, "stop")
  /\ ~channel[thread[Control].target].registered
  /\ Goto(Control, "done")
  /\ UNCHANGED <<channel, order, holder, stopping, host, handled, answered>>

(* Faulty variant: the worker is not told to stop.                         *)
CloseMarkOnly(t) ==
  /\ At(t, "stop")
  /\ channel[thread[t].target].registered
  /\ channel' = [channel EXCEPT ![thread[t].target].open = FALSE]
  /\ Goto(t, IF channel[thread[t].target].started THEN "join" ELSE "unstart")
  /\ UNCHANGED <<order, holder, stopping, host, handled, answered>>

CloseMark(t) ==
  /\ At(t, "stop")
  /\ channel[thread[t].target].registered
  /\ channel' = [channel EXCEPT ![thread[t].target].open = FALSE,
                                ![thread[t].target].stop = TRUE]
  /\ Goto(t, IF channel[thread[t].target].started THEN "join" ELSE "unstart")
  /\ UNCHANGED <<order, holder, stopping, host, handled, answered>>

(* Faulty variant: the worker is not waited for.                           *)
CloseDetach(t) ==
  /\ At(t, "join")
  /\ Goto(t, "unstart")
  /\ UNCHANGED <<channel, order, holder, stopping, host, handled, answered>>

CloseJoin(t) ==
  /\ At(t, "join")
  /\ At(thread[t].target, "exited")
  /\ thread' = [thread EXCEPT ![t].at = "unstart", ![thread[t].target] = Away]
  /\ UNCHANGED <<channel, order, holder, stopping, host, handled, answered>>

(* The mutex is destroyed, and is not created again by a later open.       *)
CloseUnstart(t) ==
  /\ At(t, "unstart")
  /\ channel' = [channel EXCEPT ![thread[t].target].started = FALSE,
                                ![thread[t].target].mutex = FALSE]
  /\ holder' = [holder EXCEPT ![thread[t].target] = "nobody"]
  /\ Goto(t, "empty")
  /\ UNCHANGED <<order, stopping, host, handled, answered>>

CloseEmpty(t) ==
  /\ At(t, "empty")
  /\ channel' = [channel EXCEPT ![thread[t].target].count = 0,
                                ![thread[t].target].head = 0,
                                ![thread[t].target].tail = 0]
  /\ Goto(t, Closed(t))
  /\ UNCHANGED <<order, holder, stopping, host, handled, answered>>

-----------------------------------------------------------------------------
(* ac_transport_deinit                                                     *)

Deinit ==
  /\ At("main", "none")
  /\ stopping' = TRUE
  /\ Goto("main", "join rx")
  /\ UNCHANGED <<channel, order, holder, host, handled, answered>>

DeinitJoin ==
  /\ At("main", "join rx")
  /\ At("rx", "exited")
  /\ thread' = [thread EXCEPT !["rx"] = Away, !["main"].at = "next channel"]
  /\ UNCHANGED <<channel, order, holder, stopping, host, handled, answered>>

DeinitNext ==
  /\ At("main", "next channel")
  /\ LET i == thread["main"].next IN
     IF i <= Len(order)
     THEN /\ thread' = [thread EXCEPT !["main"].at = "stop", !["main"].next = i + 1,
                                      !["main"].target = order[i]]
          /\ UNCHANGED order
     ELSE Goto("main", "done") /\ order' = <<>>
  /\ UNCHANGED <<channel, holder, stopping, host, handled, answered>>

-----------------------------------------------------------------------------
RxStep == RxReceive \/ RxExit \/ RxFindOpen \/ RxFindThread \/ RxQueue \/ RxCount
            \/ Serve("rx")

WorkerStep(c) == WorkerExit(c) \/ WorkerPop(c) \/ WorkerUncount(c)

CloseStep(t) == CloseMark(t) \/ CloseJoin(t) \/ CloseUnstart(t) \/ CloseEmpty(t)

ControlStep == \/ WorkerStep(Control)
               \/ StartOpen \/ StartCreate \/ StartCreated \/ Trigger
               \/ StopTriggerFails \/ StopUnregistered \/ CloseStep(Control)
               \/ Respond

MainStep == DeinitJoin \/ DeinitNext \/ CloseStep("main")

Next ==
  \/ HostStep
  \/ RxStep
  \/ \E d \in Data : WorkerStep(d) \/ Serve(d)
  \/ ControlStep
  \/ Deinit
  \/ MainStep

Spec == Init /\ [][Next]_vars

(* Every thread of the controller runs, handlers end, and nothing forces   *)
(* the host to send or the controller to be torn down.                     *)
FairSpec ==
  /\ Spec
  /\ WF_vars(RxStep)
  /\ \A d \in Data : WF_vars(WorkerStep(d) \/ Serve(d))
  /\ WF_vars(ControlStep)
  /\ WF_vars(MainStep)
-----------------------------------------------------------------------------
(* The types; a thread is only where its kind can be.                      *)
TypeOK ==
  /\ channel \in [Channel ->
       [registered : BOOLEAN, open : BOOLEAN, stop : BOOLEAN, started : BOOLEAN,
        mutex : BOOLEAN, queue : [Slot -> Request \cup {Nothing}],
        head : Slot, tail : Slot, count : 0 .. QueueDepth]]
  /\ order \in Seq(Channel)
  /\ thread \in [Thread ->
       [at : {"none", "loop", "dispatch", "started?", "queue", "count", "serve",
              "uncount", "start", "create", "created", "trigger", "failed", "stop",
              "join", "unstart", "empty", "join rx", "next channel", "done",
              "exited"},
        request : Request \cup {Nothing}, count : 0 .. QueueDepth,
        target : Channel, next : Nat \ {0}]]
  /\ holder \in [Channel -> Thread \cup {"nobody"}]
  /\ stopping \in BOOLEAN
  /\ sent \in Seq([command : {"start", "stop", "close", "data"}, target : Data, channel : Channel])
  /\ received \in 0 .. Len(sent)
  /\ pending \in 0 .. Len(sent) /\ running \in [Data -> BOOLEAN]
  /\ handled \in Seq(Request \cup {Nothing})
  /\ answered \in Seq([request : Request \cup {Nothing}, ok : BOOLEAN])

(* The count of a queue that has a mutex is that of the requests between   *)
(* head and tail, whenever nobody is in between.                           *)
QueueExact ==
  \A c \in Channel :
    channel[c].mutex /\ holder[c] = "nobody" =>
      (channel[c].head + channel[c].count) % QueueDepth = channel[c].tail

(* The requests of a channel are handled in the order they were sent, none *)
(* is handled twice, and no handler is given a slot without a request.     *)
HandledInOrder ==
  /\ ~Handled(Nothing)
  /\ \A i, j \in 1 .. Len(handled) :
       /\ i < j
       /\ sent[handled[i]].channel = sent[handled[j]].channel
       => handled[i] < handled[j]

(* When a STOP of a host that waits has closed the channel of a stream, no *)
(* thread works for it any more and nothing of it is left in the queue.    *)
(* (The request that a host has given up may still be on its way.)         *)
IsClosed(d) ==
  /\ channel[d].stop /\ ~channel[d].started /\ channel[d].registered
  /\ \A t \in Closers : thread[t].target = d => ~(thread[t].at \in {"unstart", "empty"})

ClosedIsQuiet ==
  \A d \in Data :
    manner.waits /\ IsClosed(d) =>
      /\ At(d, "none")
      /\ channel[d].count = 0
      /\ ~(/\ thread["rx"].at \in {"started?", "queue", "count", "serve"}
           /\ Target = d)

(* When ac_transport_deinit returns, no thread of the controller is left   *)
(* to use what is freed next.                                              *)
DeinitQuiesces ==
  At("main", "done") =>
    /\ \A t \in Thread \ {"main"} : At(t, "none")
    /\ \A c \in Channel : ~channel[c].started /\ ~channel[c].open

(* ac_transport_deinit returns, although it joins workers that serve       *)
(* requests, one of which joins others.                                    *)
DeinitReturns == At("main", "join rx") ~> At("main", "done")

(* Every request of a host that waits is answered unless the controller is *)
(* torn down.  (One that finds the queue full is dropped, which takes a     *)
(* host that gives up on earlier ones.)                                    *)
EveryRequestAnswered ==
  \A n \in Request : (manner.waits /\ Len(sent) >= n) ~> (Answered(n, TRUE) \/ Answered(n, FALSE) \/ stopping)

(* The queue of a channel with a mutex is exact, and what is taken from it *)
(* comes in order, once.                                                   *)
QueueInOrder == QueueExact /\ HandledInOrder

(* What was closed, one channel or all of them, has no thread left.        *)
NothingWorksOn == ClosedIsQuiet /\ DeinitQuiesces
=============================================================================
