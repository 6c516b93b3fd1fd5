--------------------------- MODULE TransportManager ---------------------------
(***************************************************************************)
(* One channel of the host's TransportManager: the threads that open and   *)
(* close it, those that send on it, the worker thread of every incarnation *)
(* of the channel (a ChannelRuntime), and the data link they take turns to *)
(* use under io_mutex_.                                                    *)
(*                                                                         *)
(* A step is what a thread does under one lock, or between two.  The       *)
(* controller behind the link answers the requests in the order they       *)
(* arrived, each as late as it likes or never.                             *)
(***************************************************************************)
EXTENDS Integers, Sequences, FiniteSets

CONSTANTS
  Owners,        (* threads that open and close the channel               *)
  Senders,       (* threads that call sendSync, sendAsync and drainAsync  *)
  MaxRuntimes,   (* times the channel is opened                           *)
  MaxCalls,      (* calls of the senders and owners, in all               *)
  LinkFails,     (* TRUE: sendPacket can fail                             *)
  AnswersLate    (* TRUE: an answer may come after its request timed out  *)

Runtime == 1 .. MaxRuntimes

ASSUME TransportManagerAssumption ==
  /\ MaxRuntimes \in Nat
  /\ MaxCalls \in Nat
  /\ (Owners \cup Senders) \cap (0 .. MaxRuntimes) = {}
  /\ LinkFails \in BOOLEAN
  /\ AnswersLate \in BOOLEAN

Caller == Owners \cup Senders
Thread == Caller \cup Runtime   (* a runtime stands for its worker too     *)
Nobody == 0                     (* no thread, no runtime, no request       *)

VARIABLES
  channel,   (* channels_: the runtime the channel's id leads to, or none *)
  opened,    (* runtimes created so far                                   *)
  runtime,   (* the ChannelRuntime objects                                *)
  thread,    (* where each thread is, and its local variables             *)
  io,        (* the thread that holds io_mutex_                           *)
  sequence,  (* next_sequence_                                            *)
  asked,     (* requests that have reached the controller, unanswered     *)
  answers,   (* answers on the link                                       *)
  accepted,  (* history: the runtime of every asynchronous request, in    *)
             (* the order they were accepted; a request is its position   *)
  calledBack,(* history: those whose callback has run, in that order      *)
  calls      (* calls made so far                                         *)

link == <<io, asked, answers>>
vars == <<channel, opened, runtime, thread, link, sequence, accepted,
          calledBack, calls>>

Idle == [at |-> "idle", op |-> "none", runtime |-> Nobody, seq |-> 0,
         request |-> Nobody]

Closed == [open |-> FALSE, stopping |-> FALSE, active |-> FALSE,
           queue |-> <<>>, joined |-> FALSE]

Init ==
  /\ channel = Nobody
  /\ opened = 0
  /\ runtime = [r \in Runtime |-> Closed]
  /\ thread = [t \in Thread |-> Idle]
  /\ io = Nobody
  /\ sequence = 1
  /\ asked = <<>>
  /\ answers = <<>>
  /\ accepted = <<>>
  /\ calledBack = <<>>
  /\ calls = 0

At(t, place) == thread[t].at = place
Goto(t, place) == thread' = [thread EXCEPT ![t].at = place]
Return(t) == thread' = [thread EXCEPT ![t] = Idle]

(* A caller starts one of its operations.                                  *)
Begin(t, op, place) ==
  /\ At(t, "idle")
  /\ calls < MaxCalls
  /\ calls' = calls + 1
  /\ thread' = [thread EXCEPT ![t] = [Idle EXCEPT !.op = op, !.at = place]]

-----------------------------------------------------------------------------
(* openChannel: one step under channels_mutex_.                            *)
OpenChannel(t) ==
  /\ At(t, "idle")
  /\ calls < MaxCalls
  /\ calls' = calls + 1
  /\ \/ /\ channel # Nobody          (* "transport channel already exists" *)
        /\ UNCHANGED <<channel, opened, runtime, thread>>
     \/ /\ channel = Nobody
        /\ opened < MaxRuntimes
        /\ opened' = opened + 1
        /\ channel' = opened + 1
        /\ runtime' = [runtime EXCEPT ![opened + 1].open = TRUE]
        /\ thread' = [thread EXCEPT ![opened + 1].at = "wait"]
  /\ UNCHANGED <<link, sequence, accepted, calledBack>>

(* requireChannel: the runtime found, or "transport channel not found".    *)
Require(t, found, missing) ==
  /\ IF channel = Nobody THEN missing
     ELSE thread' = [thread EXCEPT ![t].at = found, ![t].runtime = channel]
  /\ UNCHANGED <<channel, opened, runtime, sequence, accepted, calledBack, calls>>

-----------------------------------------------------------------------------
(* sendSync, called by a sender or by the channel's worker.                *)

SendSync(t) ==
  /\ Begin(t, "sync", "require")
  /\ UNCHANGED <<channel, opened, runtime, link, sequence, accepted, calledBack>>

(* sendSync returns to its caller, or to the worker, which then runs the   *)
(* callback of the request.                                                *)
SyncReturns(t) ==
  IF t \in Runtime THEN Goto(t, "callback") ELSE Return(t)

SendRequire(t) ==
  /\ At(t, "require")
  /\ Require(t, "check", SyncReturns(t))
  /\ UNCHANGED link

(* The open flag is read under the runtime's mutex; the sequence is taken  *)
(* after it was released, and before io_mutex_.                            *)
SendCheck(t) ==
  /\ At(t, "check")
  /\ IF runtime[thread[t].runtime].open
     THEN /\ thread' = [thread EXCEPT ![t].at = "lock", ![t].seq = sequence]
          /\ sequence' = sequence + 1
     ELSE SyncReturns(t) /\ UNCHANGED sequence
  /\ UNCHANGED <<channel, opened, runtime, link, accepted, calledBack, calls>>

SendLock(t) ==
  /\ At(t, "lock")
  /\ io = Nobody
  /\ io' = t
  /\ Goto(t, "packet")
  /\ UNCHANGED <<channel, opened, runtime, asked, answers, sequence,
                 accepted, calledBack, calls>>

(* A packet reported as failed may have arrived all the same.              *)
SendPacket(t) ==
  /\ At(t, "packet")
  /\ \/ /\ Goto(t, "tx require")
        /\ asked' = Append(asked, thread[t].seq)
        /\ UNCHANGED io
     \/ /\ LinkFails
        /\ SyncReturns(t)
        /\ io' = Nobody
        /\ \/ UNCHANGED asked
           \/ asked' = Append(asked, thread[t].seq)
  /\ UNCHANGED <<channel, opened, runtime, answers, sequence, accepted,
                 calledBack, calls>>

(* An error after the lock was taken: io_lock is released on return.       *)
GiveUp(t) ==
  /\ SyncReturns(t)
  /\ io' = Nobody
  /\ UNCHANGED <<asked, answers>>

(* recordTx and recordRx look the channel up again, so that they count on  *)
(* the runtime that has the id by now and fail when it is closed.          *)
RecordTxRequire(t) ==
  /\ At(t, "tx require")
  /\ Require(t, "tx check", SyncReturns(t))
  /\ IF channel = Nobody
     THEN io' = Nobody /\ UNCHANGED <<asked, answers>>
     ELSE UNCHANGED link

RecordTx(t) ==
  /\ At(t, "tx check")
  /\ IF runtime[thread[t].runtime].open THEN Goto(t, "receive") /\ UNCHANGED link
     ELSE GiveUp(t)
  /\ UNCHANGED <<channel, opened, runtime, sequence, accepted, calledBack, calls>>

ReceiveOwnAnswer(t) ==
  /\ At(t, "receive")
  /\ answers # <<>>
  /\ Head(answers) = thread[t].seq
  /\ answers' = Tail(answers)
  /\ Goto(t, "rx require")
  /\ UNCHANGED <<channel, opened, runtime, io, asked, sequence, accepted,
                 calledBack, calls>>

(* "transport ACK does not match request"                                  *)
ReceiveOtherAnswer(t) ==
  /\ At(t, "receive")
  /\ answers # <<>>
  /\ Head(answers) # thread[t].seq
  /\ answers' = Tail(answers)
  /\ SyncReturns(t)
  /\ io' = Nobody
  /\ UNCHANGED <<channel, opened, runtime, asked, sequence, accepted,
                 calledBack, calls>>

ReceiveTimeout(t) ==
  /\ At(t, "receive")
  /\ answers = <<>>
  /\ AnswersLate
  /\ GiveUp(t)
  /\ UNCHANGED <<channel, opened, runtime, sequence, accepted, calledBack, calls>>

RecordRxRequire(t) ==
  /\ At(t, "rx require")
  /\ Require(t, "rx check", SyncReturns(t))
  /\ IF channel = Nobody
     THEN io' = Nobody /\ UNCHANGED <<asked, answers>>
     ELSE UNCHANGED link

(* Whether the count succeeds or not, sendSync returns here.               *)
RecordRx(t) ==
  /\ At(t, "rx check")
  /\ GiveUp(t)
  /\ UNCHANGED <<channel, opened, runtime, sequence, accepted, calledBack, calls>>

(* The controller answers the oldest request it holds.                     *)
Answer ==
  /\ asked # <<>>
  /\ answers' = Append(answers, Head(asked))
  /\ asked' = Tail(asked)
  /\ UNCHANGED <<channel, opened, runtime, thread, io, sequence, accepted,
                 calledBack, calls>>

-----------------------------------------------------------------------------
(* sendAsync                                                               *)

SendAsync(t) ==
  /\ Begin(t, "async", "async require")
  /\ UNCHANGED <<channel, opened, runtime, link, sequence, accepted, calledBack>>

AsyncRequire(t) ==
  /\ At(t, "async require")
  /\ Require(t, "async push", Return(t))
  /\ UNCHANGED link

AsyncPush(t) ==
  /\ At(t, "async push")
  /\ LET r == thread[t].runtime IN
     IF runtime[r].open
     THEN /\ accepted' = Append(accepted, r)
          /\ runtime' = [runtime EXCEPT ![r].queue = Append(@, Len(accepted) + 1)]
     ELSE UNCHANGED <<accepted, runtime>>
  /\ Return(t)
  /\ UNCHANGED <<channel, opened, link, sequence, calledBack, calls>>

-----------------------------------------------------------------------------
(* channelWorker                                                           *)

(* Faulty variants: the worker takes the newest request, or does not say   *)
(* that it is at work.                                                     *)
WorkerTakeNewest(r) ==
  /\ At(r, "wait")
  /\ runtime[r].queue # <<>>
  /\ LET n == Len(runtime[r].queue) IN
     /\ runtime' = [runtime EXCEPT ![r].queue = SubSeq(@, 1, n - 1), ![r].active = TRUE]
     /\ thread' = [thread EXCEPT ![r].at = "require",
                                 ![r].request = runtime[r].queue[n]]
  /\ UNCHANGED <<channel, opened, link, sequence, accepted, calledBack, calls>>

WorkerTakeUnmarked(r) ==
  /\ At(r, "wait")
  /\ runtime[r].queue # <<>>
  /\ runtime' = [runtime EXCEPT ![r].queue = Tail(@)]
  /\ thread' = [thread EXCEPT ![r].at = "require",
                              ![r].request = Head(runtime[r].queue)]
  /\ UNCHANGED <<channel, opened, link, sequence, accepted, calledBack, calls>>

WorkerTake(r) ==
  /\ At(r, "wait")
  /\ runtime[r].queue # <<>>
  /\ runtime' = [runtime EXCEPT ![r].queue = Tail(@), ![r].active = TRUE]
  /\ thread' = [thread EXCEPT ![r].at = "require",
                              ![r].request = Head(runtime[r].queue)]
  /\ UNCHANGED <<channel, opened, link, sequence, accepted, calledBack, calls>>

WorkerExit(r) ==
  /\ At(r, "wait")
  /\ runtime[r].stopping
  /\ runtime[r].queue = <<>>
  /\ Goto(r, "exited")
  /\ UNCHANGED <<channel, opened, runtime, link, sequence, accepted, calledBack,
                 calls>>

WorkerCallback(r) ==
  /\ At(r, "callback")
  /\ calledBack' = Append(calledBack, thread[r].request)
  /\ thread' = [thread EXCEPT ![r].at = "finish", ![r].request = Nobody]
  /\ UNCHANGED <<channel, opened, runtime, link, sequence, accepted, calls>>

WorkerFinish(r) ==
  /\ At(r, "finish")
  /\ runtime' = [runtime EXCEPT ![r].active = FALSE]
  /\ thread' = [thread EXCEPT ![r] = [Idle EXCEPT !.at = "wait"]]
  /\ UNCHANGED <<channel, opened, link, sequence, accepted, calledBack, calls>>

-----------------------------------------------------------------------------
(* drainAsync, alone or as the first part of closeChannel                  *)

DrainAsync(t) ==
  /\ Begin(t, "drain", "drain require")
  /\ UNCHANGED <<channel, opened, runtime, link, sequence, accepted, calledBack>>

DrainRequire(t) ==
  /\ At(t, "drain require")
  /\ Require(t, "drain", Return(t))
  /\ UNCHANGED link

Drained(r) == runtime[r].queue = <<>> /\ ~runtime[r].active

DrainReturn(t) ==
  /\ At(t, "drain")
  /\ Drained(thread[t].runtime)
  /\ Return(t)
  /\ UNCHANGED <<channel, opened, runtime, link, sequence, accepted, calledBack,
                 calls>>

-----------------------------------------------------------------------------
(* closeChannel.  request holds the runtime that the drain looked up.      *)

CloseChannel(t) ==
  /\ Begin(t, "close", "close require")
  /\ UNCHANGED <<channel, opened, runtime, link, sequence, accepted, calledBack>>

CloseRequire(t) ==
  /\ At(t, "close require")
  /\ Require(t, "close drain require", Return(t))
  /\ UNCHANGED link

CloseDrainRequire(t) ==
  /\ At(t, "close drain require")
  /\ thread' = [thread EXCEPT ![t].at = IF channel = Nobody THEN "close stop"
                                        ELSE "close drain",
                              ![t].request = channel]
  /\ UNCHANGED <<channel, opened, runtime, link, sequence, accepted, calledBack,
                 calls>>

CloseDrain(t) ==
  /\ At(t, "close drain")
  /\ Drained(thread[t].request)
  /\ Goto(t, "close stop")
  /\ UNCHANGED <<channel, opened, runtime, link, sequence, accepted, calledBack,
                 calls>>

(* Faulty variant: the worker is not told to stop.                         *)
CloseStopQuietly(t) ==
  /\ At(t, "close stop")
  /\ runtime' = [runtime EXCEPT ![thread[t].runtime].open = FALSE]
  /\ Goto(t, "join")
  /\ UNCHANGED <<channel, opened, link, sequence, accepted, calledBack, calls>>

CloseStop(t) ==
  /\ At(t, "close stop")
  /\ runtime' = [runtime EXCEPT ![thread[t].runtime].open = FALSE,
                                ![thread[t].runtime].stopping = TRUE]
  /\ Goto(t, "join")
  /\ UNCHANGED <<channel, opened, link, sequence, accepted, calledBack, calls>>

(* Faulty variant: the worker is detached.                                 *)
CloseDetach(t) ==
  /\ At(t, "join")
  /\ Goto(t, "erase")
  /\ UNCHANGED <<channel, opened, runtime, link, sequence, accepted, calledBack,
                 calls>>

(* joinable() is false once another thread has joined the worker.  Of the  *)
(* outcomes of two joins at once, which is undefined, the model takes the  *)
(* mildest: both return.                                                   *)
CloseJoin(t) ==
  /\ At(t, "join")
  /\ runtime[thread[t].runtime].joined \/ At(thread[t].runtime, "exited")
  /\ runtime' = [runtime EXCEPT ![thread[t].runtime].joined = TRUE]
  /\ Goto(t, "erase")
  /\ UNCHANGED <<channel, opened, link, sequence, accepted, calledBack, calls>>

(* channels_.erase(id): whatever runtime the id leads to by now.           *)
CloseErase(t) ==
  /\ At(t, "erase")
  /\ channel' = Nobody
  /\ Return(t)
  /\ UNCHANGED <<opened, runtime, link, sequence, accepted, calledBack, calls>>

-----------------------------------------------------------------------------
SyncStep(t) ==
  \/ SendRequire(t)      \/ SendCheck(t)         \/ SendLock(t)
  \/ SendPacket(t)       \/ RecordTxRequire(t)   \/ RecordTx(t)
  \/ ReceiveOwnAnswer(t) \/ ReceiveOtherAnswer(t)
  \/ ReceiveTimeout(t)   \/ RecordRxRequire(t)   \/ RecordRx(t)

WorkerStep(r) ==
  \/ SyncStep(r)
  \/ WorkerTake(r)
  \/ WorkerExit(r)
  \/ WorkerCallback(r)
  \/ WorkerFinish(r)

(* A call that has begun goes on.                                          *)
CallStep(t) ==
  \/ SyncStep(t)
  \/ AsyncRequire(t) \/ AsyncPush(t)
  \/ DrainRequire(t) \/ DrainReturn(t)
  \/ CloseRequire(t) \/ CloseDrainRequire(t) \/ CloseDrain(t)
  \/ CloseStop(t)    \/ CloseJoin(t)         \/ CloseErase(t)

Next ==
  \/ \E t \in Owners : OpenChannel(t) \/ CloseChannel(t)
  \/ \E t \in Senders : SendSync(t) \/ SendAsync(t) \/ DrainAsync(t)
  \/ \E t \in Caller : CallStep(t)
  \/ \E r \in Runtime : WorkerStep(r)
  \/ Answer

Spec == Init /\ [][Next]_vars

(* Every thread that can run does, and receivePacket ends at its deadline. *)
(* Nothing makes a caller call, nor the controller answer.                 *)
FairSpec ==
  /\ Spec
  /\ \A t \in Caller : WF_vars(CallStep(t))
  /\ \A r \in Runtime : WF_vars(WorkerStep(r))

-----------------------------------------------------------------------------
Place == {"idle", "require", "check", "lock", "packet", "tx require",
          "tx check", "receive", "rx require", "rx check", "async require",
          "async push", "wait", "callback", "finish", "exited",
          "drain require", "drain", "close require", "close drain require",
          "close drain", "close stop", "join", "erase"}

(* The places of a thread that has looked its runtime up.                  *)
Found == {"check", "lock", "packet", "tx require", "tx check", "receive",
          "rx require", "rx check", "async push", "drain",
          "close drain require", "close drain", "close stop", "join", "erase"}

(* A thread goes on with a runtime only when requireChannel found one.     *)
TypeOK ==
  /\ channel \in 0 .. opened
  /\ opened \in 0 .. MaxRuntimes
  /\ runtime \in [Runtime -> [open : BOOLEAN, stopping : BOOLEAN, active : BOOLEAN,
                              queue : Seq(Nat), joined : BOOLEAN]]
  /\ thread \in [Thread -> [at : Place, op : {"none", "sync", "async", "drain", "close"},
                            runtime : 0 .. MaxRuntimes, seq : Nat, request : Nat]]
  /\ \A t \in Thread : thread[t].at \in Found => thread[t].runtime \in 1 .. opened
  /\ io \in Thread \cup {Nobody}
  /\ sequence \in Nat /\ calls \in 0 .. MaxCalls
  /\ asked \in Seq(Nat) /\ answers \in Seq(Nat)
  /\ accepted \in Seq(Runtime) /\ calledBack \in Seq(Nat)

-----------------------------------------------------------------------------
(* What the callers rely on.                                               *)

(* drainAsync (alone or within closeChannel) returns only when the         *)
(* callback of every request accepted on its runtime has run.              *)
DrainComplete ==
  [][\A t \in Caller, r \in Runtime :
       \/ DrainReturn(t) /\ r = thread[t].runtime
       \/ CloseDrain(t) /\ r = thread[t].request
       => \A q \in 1 .. Len(accepted) :
            accepted[q] = r => \E i \in 1 .. Len(calledBack) : calledBack[i] = q]_vars

(* "The same channel id is open once at a time": of all the incarnations   *)
(* of the channel, only the one its id leads to has a live worker, waits   *)
(* for work or accepts more.                                               *)
OneIncarnation ==
  \A r \in 1 .. opened :
    r # channel => /\ ~runtime[r].open
                   /\ At(r, "exited")
                   /\ runtime[r].queue = <<>>

(* Callbacks of accepted requests run once each, in the order accepted.    *)
Hand(r) == IF thread[r].request = Nobody THEN <<>> ELSE <<thread[r].request>>

(* All that is left to call back is with the incarnation the id leads to.  *)
Pending == IF channel = Nobody THEN <<>> ELSE Hand(channel) \o runtime[channel].queue

Callbacks == INSTANCE CallbackService
  WITH taken <- Len(accepted), pending <- Pending, done <- calledBack

IsCallbackService == Callbacks!Spec

(* Every call returns: sendSync, drainAsync, and closeChannel, which waits *)
(* for the worker to be joined.                                            *)
CallsReturn == \A t \in Caller : (thread[t].op # "none") ~> (thread[t].op = "none")

(* Every request accepted is called back, also when the channel closes.    *)
EveryCallback ==
  \A q \in 1 .. MaxCalls :
    (Len(accepted) >= q) ~> (\E i \in 1 .. Len(calledBack) : calledBack[i] = q)

(* Nothing waits for ever, neither a caller nor an accepted request.       *)
EverythingEnds == CallsReturn /\ EveryCallback
=============================================================================
