----------------------------- MODULE GuiStreams -----------------------------
(* The audio streams of the GUI backend (GUI/backend, GuiRuntimeEngine with *)
(* PlaybackWorker and CaptureWorker) and their sessions on the simulator's *)
(* server.                                                                 *)
(*                                                                         *)
(* Run opens a session for each direction, push puts a frame of the input  *)
(* file in a queue that a thread writes to the server, EOS waits for the   *)
(* queue and closes, stop closes at once, pull reads a captured frame.     *)
(* The HTTP server handles one request at a time; a request interleaves    *)
(* with the playback thread, with calls that fail or whose answer is lost, *)
(* and with the server being replaced, as a build or unload does.          *)
EXTENDS Integers, Sequences

CONSTANTS
  QueueCap,    \* frames that fit in the queue (kMaxQueueBytes)
  MaxFrames,   \* bound: frames pushed to one stream
  MaxRequests, \* bound: requests other than push and pull
  MaxFaults,   \* bound: calls that fail or lose their answer
  MaxDeaths    \* bound: replacements of the server

Dirs == {"playback", "capture"}

VARIABLES
  running,   \* GuiRuntimeEngine::running_
  active, ready, error, \* active_, rpc_ready_, error_ (set or not), by direction
  eof, stopping,        \* eof_requested_ and stopping_ of playback
  queue,     \* PlaybackWorker::queue_, frames by number
  thread,    \* the playback thread: "none", "waiting", "writing", "ended"
  frame,     \* the frame the thread is writing, 0 for none
  inFlight,  \* in_flight_, which an EOS clears while the thread may still write
  handle,    \* by direction: playback_ or capture_ holds a remote handle
  server,    \* by direction: the session on the server
  req,       \* the request in hand: [op, todo, ok]
  answer,    \* history: the last EOS was answered ok, or not
  accepted,  \* history: frames accepted since the stream was cleared
  received,  \* history: the frames the server took of them
  unclean,   \* history, by direction: a call failed and left a session
  timedOut,  \* history: an EOS ran out of time and destroyed the handle
  requests, faults, deaths \* counters of the bounds

flags == <<running, active, ready, error, eof, stopping>>
worker == <<queue, thread, frame, inFlight>>
sides == <<handle, server>>
history == <<answer, accepted, received, unclean, timedOut>>
counts == <<requests, faults, deaths>>
vars == <<flags, worker, sides, req, history, counts>>

-----------------------------------------------------------------------------
(* A call to the server in session state s: it is done and answered, or    *)
(* refused; it may also fail, done or not, without an answer.              *)
Called(s, next, legal) ==
  LET done == IF legal THEN next ELSE s
  IN  {[srv |-> done, ok |-> legal, fault |-> FALSE]}
        \cup (IF faults = MaxFaults THEN {}
              ELSE {[srv |-> x, ok |-> FALSE, fault |-> TRUE] : x \in {s, done}})

CreateCall(s) == Called(s, "open", s = "none")
StartCall(s) == Called(s, "running", s # "none")
DrainCall(s) == Called(s, s, s = "running")
StopCall(s) == Called(s, "open", s # "none")
CloseCall(s) == Called(s, "none", s # "none")

(* cleanupRpc: an exception skips what is left of the calls.               *)
StopAndClose(s) ==
  {r \in StopCall(s) : ~r.ok}
    \cup UNION {CloseCall(r.srv) : r \in {x \in StopCall(s) : x.ok}}

(* finishRpc.                                                              *)
DrainAndClose(s) ==
  {r \in DrainCall(s) : ~r.ok}
    \cup UNION {StopAndClose(r.srv) : r \in {x \in DrainCall(s) : x.ok}}

Counted(r) == faults' = faults + IF r.fault THEN 1 ELSE 0

(* Closes the session of direction d, if there is a handle, and forgets    *)
(* the handle whatever came of it.                                         *)
CloseSession(d, results) ==
  IF handle[d]
  THEN \E r \in results :
         /\ server' = [server EXCEPT ![d] = r.srv]
         /\ handle' = [handle EXCEPT ![d] = FALSE]
         /\ unclean' = [unclean EXCEPT ![d] = ~r.ok /\ r.srv # "none"]
         /\ Counted(r)
  ELSE UNCHANGED <<server, handle, unclean, faults>>

-----------------------------------------------------------------------------
(* The playback thread.                                                    *)

(* A frame is taken only while the connection has not failed.              *)
MayTake == queue # <<>> /\ ready["playback"]

Take ==
  /\ thread = "waiting" /\ ~stopping
  /\ MayTake
  /\ frame' = Head(queue) /\ queue' = Tail(queue) /\ inFlight' = TRUE
  /\ thread' = "writing"
  /\ UNCHANGED <<flags, sides, req, history, counts>>

(* Faulty variant: a failed write does not stop the stream.                *)
WriteFailedGoesOn == UNCHANGED <<ready, error>>

(* writeFrames has thrown: nothing more is written to this session.        *)
WriteFailed ==
  /\ ready' = [ready EXCEPT !["playback"] = FALSE]
  /\ error' = [error EXCEPT !["playback"] = TRUE]

(* The write ends.  If the handle has been destroyed meanwhile, the thread *)
(* uses freed memory: the write may still succeed, or fail.                *)
Write ==
  /\ thread = "writing"
  /\ \E r \in Called("not", "taken", server["playback"] = "running") :
       /\ received' = IF r.srv = "taken" THEN Append(received, frame) ELSE received
       /\ IF r.ok THEN UNCHANGED <<ready, error>> ELSE WriteFailed
       /\ Counted(r)
  /\ thread' = "waiting" /\ frame' = 0 /\ inFlight' = FALSE
  /\ UNCHANGED <<running, active, eof, stopping, queue, sides, req,
                 answer, accepted, unclean, timedOut, requests, deaths>>

Exit ==
  /\ thread = "waiting" /\ stopping
  /\ thread' = "ended"
  /\ UNCHANGED <<flags, queue, frame, inFlight, sides, req, history, counts>>

-----------------------------------------------------------------------------
(* Requests.  req.todo lists the jobs left of the request in hand.         *)

Idle == req.todo = <<>>
Job(j) == ~Idle /\ Head(req.todo) = j
Done == req' = [req EXCEPT !.todo = Tail(@)]
Request(op, todo) ==
  /\ Idle /\ requests < MaxRequests
  /\ requests' = requests + 1
  /\ req' = [op |-> op, todo |-> todo, ok |-> TRUE]

(* GuiRuntimeEngine::run, for playback, capture or both: each worker is    *)
(* stopped before it is started.                                           *)
JobsOf(d) == IF d = "playback" THEN <<"halt", "join", "start">>
             ELSE <<"close capture", "start capture">>
Run(dirs) ==
  /\ Request("run", (IF "playback" \in dirs THEN JobsOf("playback") ELSE <<>>)
                      \o (IF "capture" \in dirs THEN JobsOf("capture") ELSE <<>>)
                      \o <<"report">>)
  /\ running' = TRUE
  /\ UNCHANGED <<active, ready, error, eof, stopping, worker, sides, history, faults, deaths>>

(* GuiRuntimeEngine::stop.                                                 *)
Stop ==
  /\ Request("stop", <<"halt", "join", "close capture">>)
  /\ running' = FALSE
  /\ UNCHANGED <<active, ready, error, eof, stopping, worker, sides, history, faults, deaths>>

(* GuiRuntimeEngine::finishAudioInput, only for playback.                  *)
Eos ==
  /\ Request("eos", <<"drain">>)
  /\ running' = FALSE
  /\ eof' = TRUE
  /\ active' = [active EXCEPT !["playback"] = FALSE]
  /\ answer' = "none"
  /\ UNCHANGED <<ready, error, stopping, worker, sides, accepted, received, unclean,
                 timedOut, faults, deaths>>

(* Faulty variant: ends the input, but not the thread.                     *)
HaltInput ==
  /\ Job("halt") /\ Done
  /\ eof' = TRUE
  /\ active' = [active EXCEPT !["playback"] = FALSE]
  /\ UNCHANGED <<running, ready, error, stopping, worker, sides, history, counts>>

(* PlaybackWorker::stop: the flags, then, when the thread has ended, the   *)
(* session and the queue.                                                  *)
Halt ==
  /\ Job("halt") /\ Done
  /\ stopping' = TRUE /\ eof' = TRUE
  /\ active' = [active EXCEPT !["playback"] = FALSE]
  /\ UNCHANGED <<running, ready, error, worker, sides, history, counts>>

Cleared ==
  /\ queue' = <<>> /\ inFlight' = FALSE
  /\ ready' = [ready EXCEPT !["playback"] = FALSE]

(* Faulty variant: does not wait for the thread.                           *)
JoinedAtOnce == TRUE

Joined == thread \in {"none", "ended"}

Join ==
  /\ Job("join") /\ Done
  /\ Joined
  /\ CloseSession("playback", StopAndClose(server["playback"]))
  /\ thread' = IF thread = "ended" THEN "none" ELSE thread
  /\ Cleared
  /\ accepted' = 0 /\ received' = <<>>
  /\ UNCHANGED <<running, active, error, eof, stopping, frame, answer, timedOut, requests, deaths>>

(* setupRpc: a session is created and started; the handle is kept as soon  *)
(* as the session is known to have been created.                           *)
Setup(d) ==
  \E c \in CreateCall(server[d]) :
    \E s \in IF c.ok THEN StartCall(c.srv) ELSE {c} :
      /\ server' = [server EXCEPT ![d] = s.srv]
      /\ handle' = [handle EXCEPT ![d] = c.ok]
      /\ unclean' = [unclean EXCEPT ![d] = ~c.ok /\ s.srv # "none"]
      /\ ready' = [ready EXCEPT ![d] = c.ok /\ s.ok]
      /\ error' = [error EXCEPT ![d] = ~(c.ok /\ s.ok)]
      /\ active' = [active EXCEPT ![d] = c.ok /\ s.ok]
      /\ req' = [req EXCEPT !.todo = Tail(@), !.ok = @ /\ c.ok /\ s.ok]
      /\ Counted(s)

(* PlaybackWorker::start: the thread is started if the session was.        *)
Start ==
  /\ Job("start")
  /\ Setup("playback")
  /\ stopping' = ~ready'["playback"] /\ eof' = ~ready'["playback"]
  /\ queue' = <<>> /\ inFlight' = FALSE
  /\ thread' = IF ready'["playback"] THEN "waiting" ELSE thread
  /\ UNCHANGED <<running, frame, answer, accepted, received, timedOut, requests, deaths>>

(* CaptureWorker::stop and start.                                          *)
CloseCapture ==
  /\ Job("close capture") /\ Done
  /\ CloseSession("capture", StopAndClose(server["capture"]))
  /\ active' = [active EXCEPT !["capture"] = FALSE]
  /\ ready' = [ready EXCEPT !["capture"] = FALSE]
  /\ UNCHANGED <<running, error, eof, stopping, worker, answer, accepted, received,
                 timedOut, requests, deaths>>

StartCapture ==
  /\ Job("start capture")
  /\ Setup("capture")
  /\ UNCHANGED <<running, eof, stopping, worker, answer, accepted, received, timedOut,
                 requests, deaths>>

(* The answer of run: a direction that could be started stays started when *)
(* the other could not.                                                    *)
Report ==
  /\ Job("report") /\ Done
  /\ running' = req.ok
  /\ UNCHANGED <<active, ready, error, eof, stopping, worker, sides, history, counts>>

(* Faulty variant: does not wait for the frame that is being written.      *)
DrainedButOne == ~ready["playback"] \/ queue = <<>>

(* PlaybackWorker::finish: waits until the queue has been written, or      *)
(* nothing can be written any more, and closes the session in order.       *)
Drained == ~ready["playback"] \/ (queue = <<>> /\ ~inFlight)

Finish ==
  /\ Job("drain") /\ Done
  /\ Drained
  /\ CloseSession("playback", DrainAndClose(server["playback"]))
  /\ Cleared
  /\ answer' = IF error["playback"] THEN "failed" ELSE "ok"
  /\ UNCHANGED <<running, active, error, eof, stopping, thread, frame, accepted, received,
                 timedOut, requests, deaths>>

(* The time is up: the session is closed under the thread, which may be    *)
(* writing, and the frames left are dropped.                               *)
GiveUp ==
  /\ Job("drain")
  /\ ~Drained
  /\ error' = [error EXCEPT !["playback"] = TRUE]
  /\ req' = [req EXCEPT !.todo = <<"cleanup">>]
  /\ UNCHANGED <<running, active, ready, eof, stopping, worker, sides, history, counts>>

Cleanup ==
  /\ Job("cleanup") /\ Done
  /\ CloseSession("playback", StopAndClose(server["playback"]))
  /\ Cleared
  /\ timedOut' = TRUE
  /\ answer' = "failed"
  /\ UNCHANGED <<running, active, error, eof, stopping, thread, frame, accepted, received,
                 requests, deaths>>

(* PlaybackWorker::enqueueStream.                                          *)
MayPush == active["playback"] /\ ~eof /\ Len(queue) < QueueCap
Push ==
  /\ Idle /\ accepted < MaxFrames
  /\ MayPush
  /\ accepted' = accepted + 1
  /\ queue' = Append(queue, accepted')
  /\ UNCHANGED <<flags, thread, frame, inFlight, sides, req, answer, received, unclean, timedOut, counts>>

(* CaptureWorker::pull, whose read may fail.                               *)
Pull ==
  /\ Idle
  /\ active["capture"] /\ ready["capture"] /\ ~error["capture"]
  /\ \E r \in Called(server["capture"], server["capture"], server["capture"] = "running") :
       /\ ready' = [ready EXCEPT !["capture"] = r.ok]
       /\ error' = [error EXCEPT !["capture"] = ~r.ok]
       /\ Counted(r)
  /\ UNCHANGED <<running, active, eof, stopping, worker, sides, req, history,
                 requests, deaths>>

(* A build or an unload stops the server; a new one knows no session.      *)
Replace ==
  /\ deaths < MaxDeaths
  /\ deaths' = deaths + 1
  /\ server' = [d \in Dirs |-> "none"]
  /\ unclean' = [d \in Dirs |-> FALSE]
  /\ UNCHANGED <<flags, worker, handle, req, answer, accepted, received, timedOut, requests, faults>>

-----------------------------------------------------------------------------
Init ==
  /\ running = FALSE
  /\ active = [d \in Dirs |-> FALSE] /\ ready = [d \in Dirs |-> FALSE]
  /\ error = [d \in Dirs |-> FALSE]
  /\ eof = FALSE /\ stopping = TRUE
  /\ queue = <<>> /\ thread = "none" /\ frame = 0 /\ inFlight = FALSE
  /\ handle = [d \in Dirs |-> FALSE] /\ server = [d \in Dirs |-> "none"]
  /\ req = [op |-> "none", todo |-> <<>>, ok |-> TRUE]
  /\ answer = "none" /\ accepted = 0 /\ received = <<>>
  /\ unclean = [d \in Dirs |-> FALSE] /\ timedOut = FALSE
  /\ requests = 0 /\ faults = 0 /\ deaths = 0

Step ==
  \/ Halt \/ Join \/ Start \/ CloseCapture \/ StartCapture \/ Report
  \/ Finish \/ GiveUp \/ Cleanup
Thread == Take \/ Write \/ Exit

Next ==
  \/ \E dirs \in (SUBSET Dirs) \ {{}} : Run(dirs)
  \/ Stop \/ Eos \/ Push \/ Pull \/ Replace
  \/ Step \/ Thread

(* The HTTP thread goes on with its request, the thread with its frames,   *)
(* and every call to the server ends, by its time limit if not otherwise.  *)
Spec == Init /\ [][Next]_vars /\ WF_vars(Step) /\ WF_vars(Thread)

-----------------------------------------------------------------------------
(* What must hold.                                                         *)

(* The server takes the frames of a stream in order, from the first, with  *)
(* none left out and none taken twice.                                     *)
PlayedInOrder == received = [i \in 1..Len(received) |-> i]

(* An EOS that is answered ok has played every frame that was accepted.    *)
EosOkMeansPlayed ==
  [][answer' # answer /\ answer' = "ok" => Len(received') = accepted']_vars

(* The thread never writes through a handle that was destroyed, unless an  *)
(* EOS ran out of time.                                                    *)
WriterHasSession == thread = "writing" => handle["playback"] \/ timedOut

(* A worker that has given up its handle has left no session behind on the *)
(* server, unless one of the calls to it failed: such a session makes      *)
(* every later run fail.                                                   *)
SessionClosed ==
  \A d \in Dirs : ~handle[d] /\ server[d] # "none" => unclean[d]

(* Every request is answered: neither join nor EOS waits for ever.         *)
RequestsReturn == ~Idle ~> Idle

(* The playback thread and the workers hold the sessions they use and      *)
(* leave none behind (PlaybackWorker::run, GuiRuntimeEngine::stop).        *)
HandlesMatchSessions == WriterHasSession /\ SessionClosed
============================================================================
