---------------------------- MODULE AudioStreams ----------------------------
(***************************************************************************)
(* Audio streams from the session of the audio service down to the slot of *)
(* the audio controller: AudioPlaybackSession / AudioCaptureSession over   *)
(* SimulatorAudioSession on the host, ac_audio.c on the controller.        *)
(*                                                                         *)
(* A session is used by one thread at a time (its mutex).  Of all threads  *)
(* one at a time is in a round trip on the link (io_mutex_ of the          *)
(* TransportManager): it sends a request and takes the next frame that     *)
(* arrives, whatever it is.  On the controller run the receiving worker    *)
(* ("rx"), the worker of the control channel and one per data channel.     *)
(* Between rx's look at a channel and its queueing of the request the      *)
(* control worker may close the channel.                                   *)
(*                                                                         *)
(* Slot i stands for stream id i and its data channel.  The channel's queue*)
(* is a ring that is never cleared.  Its mutex is made with the channel and*)
(* destroyed by the first close; from then on rx and the channel's worker  *)
(* change the count of the ring without one.                               *)
(***************************************************************************)
EXTENDS Integers, Sequences, FiniteSets

CONSTANTS
  Sessions,    (* audio sessions; a closed one stands for a later one too  *)
  Nobody,      (* no session                                               *)
  MaxStreams,  (* the most that AC_TRANSPORT_AUDIO_MAX_STREAMS may be      *)
  QueueDepth,  (* AC_TRANSPORT_CHANNEL_QUEUE_DEPTH                         *)
  MaxOnTheWay, (* bound: requests and answers on the way at a timeout      *)
  DataAfterRace, (* bound: whether transfers begin while a count is wrong  *)
  Settings,    (* what may be given: the sessions in use, the streams the  *)
               (* controller has, and a lossy link on which messages are   *)
               (* lost or late and round trips give up, or a reliable one  *)
  Failures     (* TRUE: SOF, memory and threads of the controller may fail *)

ASSUME AudioStreamsAssumption ==
  /\ Nobody \notin Sessions /\ IsFiniteSet(Sessions)
  /\ MaxStreams \in Nat \ {0}
  /\ QueueDepth \in Nat \ {0}
  /\ MaxOnTheWay \in Nat
  /\ DataAfterRace \in BOOLEAN
  /\ Settings \subseteq
       [sessions : SUBSET Sessions, streams : 0 .. MaxStreams, lossy : BOOLEAN]
  /\ Failures \in BOOLEAN

Slot == 1 .. MaxStreams
Control == 0
None == 0
Channel == {Control} \cup Slot

VARIABLES
  session,  (* the state of each SimulatorAudioSession                     *)
  line,     (* the session that holds io_mutex_ in a round trip, or Nobody *)
  refs,     (* audioControlChannelRefs()                                   *)
  channels, (* the channels that the host's TransportManager has open      *)
  sent,     (* requests on the way to the controller                       *)
  rx,       (* the request that rx is about to queue, or none              *)
  queue,    (* the queue of the control channel, whose mutex stays         *)
  ring,     (* the queue of each data channel                              *)
  closing,  (* the STOP or CLOSE whose close of a channel waits, or none   *)
  serving,  (* the request each data worker is handling, or none           *)
  slot,     (* the ac_audio_stream_slot_t with its data channel            *)
  answers,  (* responses on the way to the host                            *)
  setting   (* the member of Settings; it stays                            *)

host == <<session, line, refs, channels, setting>>
way == <<sent, rx, queue, ring, closing, serving, answers>>
vars == <<host, way, slot>>

Closed == [at |-> "idle", acquired |-> FALSE, open |-> FALSE, id |-> None,
           prepared |-> FALSE, running |-> FALSE, channel |-> None]

(* A slot as ac_audio_reset_slot leaves it; owner is history.              *)
Free == [allocated |-> FALSE, stream |-> FALSE, dma |-> FALSE,
         configured |-> FALSE, running |-> FALSE, open |-> FALSE,
         worker |-> FALSE, owner |-> Nobody]

(* ac_audio_init. *)
FreeSlots == [i \in Slot |-> Free]

NoRequest == [from |-> Nobody, cmd |-> "none", id |-> None, fresh |-> FALSE]

(* What is in a place of a ring that was never written.                    *)
Blank == [from |-> Nobody, cmd |-> "data", id |-> None, fresh |-> FALSE]

(* The queue of a channel that is not registered yet: its places, whether  *)
(* it has its mutex, and what is between a read of count and its write:    *)
(* the count that rx will write, and the one that the worker has read, or  *)
(* 0.  raced is history: the count was changed by both at once, or after   *)
(* the close that cleared it, so that it says too much or too little.      *)
Place == 0 .. QueueDepth - 1
After(p) == (p + 1) % QueueDepth
NoRing == [held |-> [p \in Place |-> Blank], head |-> 0, tail |-> 0, count |-> 0,
           mutex |-> "none", adding |-> 0, taking |-> 0, raced |-> FALSE]

Init ==
  /\ session = [s \in Sessions |-> Closed]
  /\ line = Nobody
  /\ refs = 0
  /\ channels = {}
  /\ sent = <<>>
  /\ rx = NoRequest
  /\ queue = <<>>
  /\ ring = [i \in Slot |-> NoRing]
  /\ closing = NoRequest
  /\ serving = [i \in Slot |-> NoRequest]
  /\ slot = FreeSlots
  /\ answers = <<>>
  /\ setting \in Settings

-----------------------------------------------------------------------------
(* The calls of the audio service.  A call that needs the controller leaves*)
(* the session in the state of that name until its round trip has ended.   *)

Calls(s, guard, call) ==
  /\ session[s].at = "idle"
  /\ guard
  /\ session' = [session EXCEPT ![s].at = call]
  /\ UNCHANGED <<line, refs, channels, setting, way, slot>>

(* AudioService::create opens the device, which first acquires the control *)
(* channel.                                                                *)
Create(s) ==
  /\ s \in setting.sessions
  /\ session[s] = Closed
  /\ refs' = refs + 1
  /\ channels' = IF refs = 0 THEN channels \cup {Control} ELSE channels
  /\ session' = [session EXCEPT ![s].at = "open", ![s].acquired = TRUE]
  /\ UNCHANGED <<line, setting, way, slot>>

(* Faulty variant: a prepared stream is configured again.                  *)
PrepareAgain(s) == Calls(s, session[s].open /\ ~session[s].running, "config")

(* prepare() returns at once when the stream is prepared.                  *)
Prepare(s) == Calls(s, session[s].open /\ ~session[s].prepared, "config")

(* start() of a stream that is not prepared is Prepare followed by Start.  *)
Start(s) == Calls(s, session[s].prepared /\ ~session[s].running, "start")

(* writeFrames, readFrames and drain.                                      *)
Transfer(s) ==
  /\ DataAfterRace \/ \A i \in Slot : ~ring[i].raced
  /\ Calls(s, session[s].running, "data")

(* stop() of a device that does not run only clears what is clear.         *)
Stop(s) == Calls(s, session[s].running, "stop")

(* AudioService::remove closes the device, and close() a running stream    *)
(* first stops it.                                                         *)
Remove(s) ==
  Calls(s, session[s].open, IF session[s].running THEN "close stop" ELSE "close")

-----------------------------------------------------------------------------
(* Round trips.                                                            *)

Command(at) ==
  CASE at \in {"close stop", "undo"} -> "stop"
    [] OTHER -> at

(* A message is put on its way, or lost (sendPacket gave it up).           *)
Posted(messages, m) ==
  {Append(messages, m)} \cup (IF setting.lossy THEN {messages} ELSE {})

Send(s) ==
  /\ session[s].at # "idle"
  /\ line = Nobody
  /\ line' = s
  /\ sent' \in Posted(sent, [from |-> s, cmd |-> Command(session[s].at),
                             id |-> session[s].id, fresh |-> TRUE])
  /\ UNCHANGED <<session, refs, channels, rx, queue, ring, closing, serving, slot,
                 answers, setting>>

Aged(m) == [m EXCEPT !.fresh = FALSE]
AllAged(ms) == [n \in DOMAIN ms |-> Aged(ms[n])]

(* Once its round trip is over nobody waits for the request any more.      *)
Forget(rest) ==
  /\ sent' = AllAged(sent)
  /\ rx' = Aged(rx)
  /\ queue' = AllAged(queue)
  /\ ring' = [i \in Slot |-> [ring[i] EXCEPT !.held = AllAged(@)]]
  /\ closing' = Aged(closing)
  /\ serving' = AllAged(serving)
  /\ answers' = AllAged(rest)

OnTheWay ==
  Len(sent) + Len(queue) + Len(answers)
    + Cardinality({m \in {rx, closing} : m # NoRequest})
    + Cardinality({i \in Slot : slot[i].worker /\ ring[i].count > 0})
    + Cardinality({i \in Slot : serving[i] # NoRequest})

(* sendSync takes the next frame, and succeeds when that is the response to*)
(* its own request and no error.                                           *)
Answered(s, ok, id) ==
  /\ answers # <<>>
  /\ ok = (Head(answers).fresh /\ Head(answers).ok)
  /\ id = Head(answers).id
  /\ Forget(Tail(answers))

TimedOut(ok, id) ==
  /\ setting.lossy
  /\ OnTheWay <= MaxOnTheWay
  /\ ok = FALSE
  /\ id = None
  /\ Forget(answers)

Returns(s, at, ok, id) ==
  /\ line = s
  /\ session[s].at = at
  /\ Answered(s, ok, id) \/ TimedOut(ok, id)
  /\ line' = Nobody
  /\ UNCHANGED <<setting, slot>>

(* Faulty variant: every release closes the control channel.               *)
ReleasedAlways ==
  /\ refs' = refs - 1
  /\ channels' = channels \ {Control}

(* The last session to release the control channel closes it.              *)
Released ==
  /\ refs' = refs - 1
  /\ channels' = IF refs = 1 THEN channels \ {Control} ELSE channels

Opens(s) == \E ok \in BOOLEAN, id \in Channel :
  /\ Returns(s, "open", ok, id)
  /\ IF ok
     THEN /\ session' = [session EXCEPT ![s].at = "idle", ![s].open = TRUE,
                                        ![s].id = id]
          /\ UNCHANGED <<refs, channels>>
     ELSE /\ session' = [session EXCEPT ![s] = Closed]
          /\ Released

Prepares(s) == \E ok \in BOOLEAN, id \in Channel :
  /\ Returns(s, "config", ok, id)
  /\ session' = [session EXCEPT ![s].at = "idle", ![s].prepared = @ \/ ok]
  /\ UNCHANGED <<refs, channels>>

(* A data channel that is open already fails the start, and the stream is  *)
(* stopped again.                                                          *)
Starts(s) == \E ok \in BOOLEAN, id \in Channel :
  /\ Returns(s, "start", ok, id)
  /\ session' =
       [session EXCEPT
          ![s] = IF ~ok THEN [@ EXCEPT !.at = "idle"]
                 ELSE IF id \in channels THEN [@ EXCEPT !.at = "undo"]
                 ELSE [@ EXCEPT !.at = "idle", !.running = TRUE, !.channel = id]]
  /\ channels' = IF ok THEN channels \cup {id} ELSE channels
  /\ UNCHANGED refs

(* A transfer, and the STOP of a start that is taken back.                 *)
Transfers(s) == \E ok \in BOOLEAN, id \in Channel, at \in {"data", "undo"} :
  /\ Returns(s, at, ok, id)
  /\ session' = [session EXCEPT ![s].at = "idle"]
  /\ UNCHANGED <<refs, channels>>

(* A stop that fails leaves the session running, with its channel open.    *)
Stops(s) == \E ok \in BOOLEAN, id \in Channel :
  /\ Returns(s, "stop", ok, id)
  /\ session' = [session EXCEPT
                   ![s].at = "idle",
                   ![s].running = ~ok,
                   ![s].channel = IF ok THEN None ELSE @]
  /\ channels' = IF ok THEN channels \ {session[s].channel} ELSE channels
  /\ UNCHANGED refs

(* In close() the stream counts as stopped, whatever came of the STOP.     *)
StopsToClose(s) == \E ok \in BOOLEAN, id \in Channel :
  /\ Returns(s, "close stop", ok, id)
  /\ session' = [session EXCEPT ![s].at = "close", ![s].channel = None]
  /\ channels' = channels \ {session[s].channel}
  /\ UNCHANGED refs

Closes(s) == \E ok \in BOOLEAN, id \in Channel :
  /\ Returns(s, "close", ok, id)
  /\ session' = [session EXCEPT ![s] = Closed]
  /\ Released

-----------------------------------------------------------------------------
(* The controller.                                                         *)

ChannelOf(m) == IF m.cmd = "data" THEN m.id ELSE Control
IsOpen(c) == IF c = Control THEN TRUE ELSE slot[c].open

Answer(m, ok) == [fresh |-> m.fresh, ok |-> ok, id |-> m.id]
Respond(m, ok) == answers' \in Posted(answers, Answer(m, ok))

RxTake ==
  /\ sent # <<>>
  /\ rx = NoRequest
  /\ sent' = Tail(sent)
  /\ IF IsOpen(ChannelOf(Head(sent)))
     THEN rx' = Head(sent) /\ UNCHANGED answers
     ELSE Respond(Head(sent), FALSE) /\ UNCHANGED rx
  /\ UNCHANGED <<host, queue, ring, closing, serving, slot>>

(* A request that finds the queue full is dropped.                         *)
RxQueueControl ==
  /\ rx # NoRequest
  /\ ChannelOf(rx) = Control
  /\ queue' = IF Len(queue) < QueueDepth THEN Append(queue, rx) ELSE queue
  /\ rx' = NoRequest
  /\ UNCHANGED <<host, sent, ring, closing, serving, slot, answers>>

(* ac_transport_queue_request on a data channel, up to the read of count.  *)
(* The lock is taken only as long as there is a mutex.                     *)
Put(r, m) ==
  [r EXCEPT !.held[r.tail] = m, !.tail = After(r.tail),
            !.adding = r.count + 1, !.raced = @ \/ r.taking # 0]

RxQueue ==
  /\ rx.cmd = "data"
  /\ LET r == ring[rx.id]
     IN /\ r.adding = 0
        /\ r.mutex = "there" => r.taking = 0
        /\ IF r.count < QueueDepth
           THEN ring' = [ring EXCEPT ![rx.id] = Put(r, rx)] /\ UNCHANGED rx
           ELSE rx' = NoRequest /\ UNCHANGED ring
  /\ UNCHANGED <<host, sent, queue, closing, serving, slot, answers>>

RxCount ==
  /\ rx.cmd = "data"
  /\ ring[rx.id].adding # 0
  /\ ring' = [ring EXCEPT ![rx.id].count = ring[rx.id].adding,
                          ![rx.id].adding = 0]
  /\ rx' = NoRequest
  /\ UNCHANGED <<host, sent, queue, closing, serving, slot, answers>>

(* The control worker takes a request only when it is done with the last.  *)
TakeControl(cmd) ==
  /\ closing = NoRequest
  /\ queue # <<>>
  /\ Head(queue).cmd = cmd
  /\ queue' = Tail(queue)
  /\ UNCHANGED <<host, sent, rx, serving>>

Asked == Head(queue)

Lowest(S) == CHOOSE i \in S : \A j \in S : i <= j

(* The slots up to AC_TRANSPORT_AUDIO_MAX_STREAMS.  ac_audio_open takes the*)
(* first free one.                                                         *)
Streams == 1 .. setting.streams

AllocateFrom(free) ==
  /\ TakeControl("open")
  /\ IF free = {}
     THEN Respond(Asked, FALSE) /\ UNCHANGED slot
     ELSE LET i == Lowest(free)
          IN /\ slot' = [slot EXCEPT ![i] = [Free EXCEPT !.allocated = TRUE,
                                                         !.owner = Asked.from]]
             /\ Respond([Asked EXCEPT !.id = i], TRUE)
  /\ UNCHANGED <<closing, ring>>

Allocate == AllocateFrom({i \in Streams : ~slot[i].allocated})

Found(id) == id \in Slot /\ slot[id].allocated

(* ac_audio_prepare_sof_stream succeeds, it fails before anything is        *)
(* changed, or it fails once the old DMA buffer has been given back.        *)
PrepareOutcomes == IF Failures THEN {"done", "refused", "no dma"} ELSE {"done"}

(* ac_audio_prepare_dma, and the buffer given back when SOF then refuses.   *)
Prepared(stream, outcome) ==
  [stream EXCEPT !.stream = TRUE, !.dma = (outcome = "done"),
                 !.configured = @ \/ outcome = "done"]

Configure ==
  /\ TakeControl("config")
  /\ \E outcome \in PrepareOutcomes :
       LET id == Asked.id
           valid == Found(id) /\ ~slot[id].running
       IN /\ slot' = IF valid /\ outcome # "refused"
                     THEN [slot EXCEPT ![id] = Prepared(@, outcome)]
                     ELSE slot
          /\ Respond(Asked, valid /\ outcome = "done")
  /\ UNCHANGED <<closing, ring>>

(* ac_audio_start: it registers the channel, whose mutex may not be made,  *)
(* unless an earlier START did; the worker may not start; a trigger that   *)
(* fails leaves the channel open.                                          *)
Trigger ==
  /\ TakeControl("start")
  /\ \E outcome \in IF Failures
                     THEN {"done", "no mutex", "no thread", "no trigger"}
                     ELSE {"done"} :
       LET id == Asked.id
           valid == Found(id) /\ slot[id].configured /\ slot[id].stream
           registered == valid /\ (ring[id].mutex # "none" \/ outcome # "no mutex")
           opens == registered /\ (slot[id].open \/ outcome # "no thread")
           runs == opens /\ (slot[id].running \/ outcome # "no trigger")
       IN /\ slot' = IF opens
                     THEN [slot EXCEPT ![id].open = TRUE, ![id].worker = TRUE,
                                       ![id].running = runs]
                     ELSE slot
          /\ ring' = IF registered /\ ring[id].mutex = "none"
                     THEN [ring EXCEPT ![id].mutex = "there"]
                     ELSE ring
          /\ Respond(Asked, runs)
  /\ UNCHANGED closing

(* STOP stops the stream and CLOSE does not yet; both then close the data  *)
(* channel, which waits for its worker.                                    *)
BeginClose(cmd) ==
  /\ TakeControl(cmd)
  /\ UNCHANGED ring
  /\ IF Found(Asked.id)
     THEN \/ /\ slot' = [slot EXCEPT ![Asked.id].open = FALSE,
                                     ![Asked.id].running = @ /\ cmd # "stop"]
             /\ closing' = Asked
             /\ UNCHANGED answers
          \/ /\ Failures /\ cmd = "stop" /\ slot[Asked.id].running
             /\ Respond(Asked, FALSE)
             /\ UNCHANGED <<slot, closing>>
     ELSE /\ Respond(Asked, FALSE)
          /\ UNCHANGED <<slot, closing>>

(* Faulty variant: CLOSE leaves the slot allocated when a STOP failed.     *)
StopOrCloseStopped ==
  \/ BeginClose("stop")
  \/ BeginClose("close") /\ ~slot[Asked.id].running
  \/ /\ TakeControl("close")
     /\ slot[Asked.id].running
     /\ Respond(Asked, FALSE)
     /\ UNCHANGED <<slot, closing, ring>>

StopOrClose == BeginClose("stop") \/ BeginClose("close")

(* The worker serves what the count says is queued and ends; where there is*)
(* none the close does not wait.                                           *)
WorkerGone(i) ==
  slot[i].worker => ring[i].count = 0 /\ ring[i].taking = 0 /\ serving[i] = NoRequest

(* What the close makes of the ring: the requests stay in their places.    *)
(* Where rx is about to write the count it read before, the count will say *)
(* that there are some.                                                    *)
Cleared(r) ==
  [r EXCEPT !.mutex = IF @ = "none" THEN "none" ELSE "destroyed",
            !.head = 0, !.tail = 0, !.count = 0, !.raced = (r.adding # 0)]

(* The close of the channel ends; CLOSE then frees the stream and the slot.*)
Finish(done, left) ==
  /\ closing # NoRequest
  /\ done
  /\ slot' = [slot EXCEPT ![closing.id] =
                IF closing.cmd = "close" THEN Free
                                         ELSE [@ EXCEPT !.worker = FALSE]]
  /\ ring' = [ring EXCEPT ![closing.id] = left]
  /\ closing' = NoRequest
  /\ Respond(closing, TRUE)
  /\ UNCHANGED <<host, sent, rx, queue, serving>>

(* Faulty variant: the count of what is left in the ring stays.            *)
FinishCloseOnly ==
  Finish(WorkerGone(closing.id),
         [Cleared(ring[closing.id]) EXCEPT !.count = ring[closing.id].count])

FinishClose == Finish(WorkerGone(closing.id), Cleared(ring[closing.id]))

(* ac_transport_pop_request, up to the read of count.                      *)
Pop(r) ==
  [r EXCEPT !.head = After(r.head), !.taking = r.count,
            !.raced = @ \/ r.adding # 0]

BeginData(i) ==
  /\ slot[i].worker
  /\ serving[i] = NoRequest
  /\ LET r == ring[i]
     IN /\ r.count > 0
        /\ r.mutex = "there" => r.adding = 0
        /\ serving' = [serving EXCEPT ![i] = r.held[r.head]]
        /\ ring' = [ring EXCEPT ![i] = Pop(r)]
  /\ UNCHANGED <<host, sent, rx, queue, closing, slot, answers>>

CountData(i) ==
  /\ ring[i].taking # 0
  /\ ring' = [ring EXCEPT ![i].count = ring[i].taking - 1, ![i].taking = 0]
  /\ UNCHANGED <<host, sent, rx, queue, closing, serving, slot, answers>>

(* ac_audio_data_transport_handler finds the stream by the channel that the*)
(* request names.                                                          *)
Outcomes(m) == {Found(m.id) /\ slot[m.id].running}
                 \cup (IF Failures THEN {FALSE} ELSE {})

FinishData(i) == \E ok \in Outcomes(serving[i]) :
  /\ serving[i] # NoRequest
  /\ ring[i].taking = 0
  /\ serving' = [serving EXCEPT ![i] = NoRequest]
  /\ Respond(serving[i], ok)
  /\ UNCHANGED <<host, sent, rx, queue, ring, closing, slot>>

(* rx itself serves a request whose channel was closed after it was found  *)
(* open.                                                                   *)
RxServe ==
  /\ rx.cmd = "data"
  /\ ring[rx.id].adding = 0
  /\ ~slot[rx.id].worker
  /\ \E ok \in Outcomes(rx) : Respond(rx, ok)
  /\ rx' = NoRequest
  /\ UNCHANGED <<host, sent, queue, ring, closing, serving, slot>>

-----------------------------------------------------------------------------
RoundTrip(s) ==
  \/ Opens(s)
  \/ Prepares(s)
  \/ Starts(s)
  \/ Transfers(s)
  \/ Stops(s)
  \/ StopsToClose(s)
  \/ Closes(s)

Call(s) ==
  \/ Create(s)
  \/ Prepare(s)
  \/ Start(s)
  \/ Transfer(s)
  \/ Stop(s)
  \/ Remove(s)

Controller ==
  \/ RxTake
  \/ RxQueueControl
  \/ RxQueue
  \/ RxCount
  \/ RxServe
  \/ Allocate
  \/ Configure
  \/ Trigger
  \/ StopOrClose
  \/ FinishClose
  \/ \E i \in Slot : BeginData(i) \/ CountData(i) \/ FinishData(i)

Next ==
  \/ \E s \in Sessions : Call(s) \/ Send(s) \/ RoundTrip(s)
  \/ Controller

Spec == Init /\ [][Next]_vars

-----------------------------------------------------------------------------
(* Properties.                                                             *)

Requests == [from : Sessions \cup {Nobody}, id : Channel, fresh : BOOLEAN,
             cmd : {"none", "open", "config", "start", "data", "stop", "close"}]
Answers == [fresh : BOOLEAN, ok : BOOLEAN, id : Channel]
Rings == [held : [Place -> Requests], head : Place, tail : Place,
          count : 0 .. QueueDepth, mutex : {"none", "there", "destroyed"},
          adding : 0 .. QueueDepth, taking : 0 .. QueueDepth, raced : BOOLEAN]

(* The types of the sessions, of the slots and of what is under way.       *)
TypeOK ==
  /\ session \in [Sessions ->
       [at : {"idle", "open", "config", "start", "undo", "data", "stop",
              "close stop", "close"},
        acquired : BOOLEAN, open : BOOLEAN, prepared : BOOLEAN,
        running : BOOLEAN, id : Channel, channel : Channel]]
  /\ line \in Sessions \cup {Nobody}
  /\ refs \in Nat
  /\ channels \subseteq Channel
  /\ slot \in [Slot ->
       [allocated : BOOLEAN, stream : BOOLEAN, dma : BOOLEAN,
        configured : BOOLEAN, running : BOOLEAN, open : BOOLEAN,
        worker : BOOLEAN, owner : Sessions \cup {Nobody}]]
  /\ rx \in Requests /\ closing \in Requests
  /\ serving \in [Slot -> Requests]
  /\ sent \in Seq(Requests)
  /\ queue \in Seq(Requests)
  /\ ring \in [Slot -> Rings]
  /\ answers \in Seq(Answers)
  /\ setting \in Settings

(* The stream id of an open session is a slot that its own OPEN allocated  *)
(* and that nobody has freed, and no other session has it: no late         *)
(* response is taken for another's, and no late CLOSE hits a new stream    *)
(* (sendSync's check of the response; close(), which forgets stream_id_).  *)
OwnStream ==
  /\ \A s \in Sessions :
       session[s].open /\ session[s].at # "close" =>
         /\ Found(session[s].id)
         /\ slot[session[s].id].owner = s
  /\ \A s, t \in Sessions :
       session[s].open /\ session[t].open /\ session[s].id = session[t].id
         => s = t

(* The control channel is open exactly while sessions hold it, each held   *)
(* once, and the open data channels are those of the running sessions, one *)
(* each (acquireAudioControlChannel, start(), stop(), close()).            *)
HostChannels ==
  /\ refs = Cardinality({s \in Sessions : session[s].acquired})
  /\ channels = ({session[s].channel : s \in Sessions} \ {None})
                  \cup (IF refs > 0 THEN {Control} ELSE {})
  /\ \A s, t \in Sessions :
       session[s].channel = session[t].channel /\ session[s].channel # None
         => s = t

(* A stream that runs has its DMA buffer, although a CONFIG that fails has *)
(* given the old one back and leaves the slot configured                   *)
(* (ac_audio_prepare_sof_stream; the early return of prepare()).           *)
RunningHasDma == \A i \in Slot : slot[i].running => slot[i].dma /\ slot[i].stream

(* docs/audio_studio_framework_design.md:1949 promises that the data of    *)
(* several streams never mix.  The data a worker handles come from the     *)
(* session that owns the slot.                                             *)
Unmixed(i) ==
  serving[i].from \in Sessions =>
    slot[i].allocated /\ slot[i].owner = serving[i].from

(* The promise, for every slot.  A reopened channel, whose ring has lost   *)
(* its mutex, does not keep it (ac_transport_close_channel).               *)
DataUnmixed == \A i \in Slot : Unmixed(i)

(* A data worker handles a request only for the session whose stream the   *)
(* slot holds, and the stream is not freed under it (STOP and CLOSE wait   *)
(* for the worker), as does rx.  That holds until two threads have changed *)
(* the count of a ring without its mutex, or one after the close, and on a *)
(* reliable link they never do.                                            *)
DataIsolated ==
  /\ \A i \in Slot : serving[i] # NoRequest /\ ~ring[i].raced =>
       Unmixed(i) /\ serving[i].from \in Sessions
  /\ rx.cmd = "data" => Found(rx.id) /\ slot[rx.id].owner = rx.from
  /\ ~setting.lossy => \A i \in Slot : ~ring[i].raced

(* Between calls both sides agree: an open session has exactly its slot,   *)
(* which runs when the session does, and a closed one has none left, also  *)
(* after steps of the controller that failed.                              *)
SidesAgree ==
  \A s \in Sessions : ~setting.lossy /\ session[s].at = "idle" =>
    LET own == {i \in Slot : slot[i].allocated /\ slot[i].owner = s}
    IN IF session[s].open
       THEN /\ own = {session[s].id}
            /\ slot[session[s].id].running = session[s].running
            /\ session[s].running => slot[session[s].id].open
       ELSE own = {}

(* No session ever has, frees or feeds the stream of another one, although *)
(* requests, answers and CLOSEs may come late.                             *)
StreamsIsolated == OwnStream /\ DataIsolated
=============================================================================
