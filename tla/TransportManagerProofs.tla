------------------------ MODULE TransportManagerProofs ------------------------
(***************************************************************************)
(* Proofs, for any senders and any number of incarnations, calls and late  *)
(* answers, that a channel whose one owner opens and closes it has at most *)
(* one incarnation alive, that draining it leaves no callback to come, and *)
(* that accepted requests are called back once each and in order.          *)
(***************************************************************************)
EXTENDS TransportManager, SequenceTheorems, TLAPS

ThreadState == [at : Place, op : {"none", "sync", "async", "drain", "close"},
                runtime : 0 .. MaxRuntimes, seq : Nat, request : Nat]
RuntimeState == [open : BOOLEAN, stopping : BOOLEAN, active : BOOLEAN,
                 queue : Seq(Nat), joined : BOOLEAN]

(* The places of sendSync, and those of a closeChannel that has found its  *)
(* channel.                                                                *)
SyncPlace == {"require", "check", "lock", "packet", "tx require", "tx check",
              "receive", "rx require", "rx check"}
ClosePlace == {"close drain require", "close drain", "close stop", "join", "erase"}

(* A worker that has left its loop was told to stop when nothing more could*)
(* come, and is not joined before.                                         *)
WorkersInv == \A r \in Runtime :
  /\ At(r, "exited") => runtime[r].stopping /\ runtime[r].queue = <<>>
  /\ runtime[r].stopping => ~runtime[r].open
  /\ runtime[r].joined => At(r, "exited")
  /\ r > opened => runtime[r] = Closed /\ At(r, "idle")

(* Nobody but the owner closes, and what it closes is still the channel.   *)
OwnerInv(o) ==
  /\ \A t \in Thread \ {o} : thread[t].at \notin ClosePlace \cup {"close require"}
  /\ thread[o].at \in ClosePlace => channel # Nobody /\ thread[o].runtime = channel
  /\ thread[o].at = "erase" => At(channel, "exited")

Inv(o) == TypeOK /\ WorkersInv /\ OwnerInv(o) /\ OneIncarnation

LEMMA Bounds == MaxRuntimes \in Nat /\ MaxCalls \in Nat
BY TransportManagerAssumption

LEMMA OneCallMore == ASSUME NEW n \in 0 .. MaxCalls, n < MaxCalls PROVE n + 1 \in 0 .. MaxCalls
BY Bounds

LEMMA Opened == ASSUME NEW n \in Nat, n <= MaxRuntimes PROVE \A r \in 1 .. n : r \in Runtime
BY Bounds DEF Runtime

LEMMA Threads ==
  /\ Caller \cap Runtime = {} /\ 0 \notin Thread /\ Nobody = 0
  /\ Caller \subseteq Thread /\ Runtime \subseteq Thread
<1>1. Runtime \subseteq 0 .. MaxRuntimes /\ 0 \notin Runtime /\ 0 \in 0 .. MaxRuntimes
  BY Bounds DEF Runtime
<1> QED BY <1>1, TransportManagerAssumption DEF Caller, Thread, Nobody

-----------------------------------------------------------------------------
(* One thread goes on.                                                     *)

(* Thread t goes from where it was to state s.                             *)
Steps(t, s) ==
  /\ s \in ThreadState
  /\ s.at \in Found => s.runtime \in 1 .. opened
  /\ thread' = [thread EXCEPT ![t] = s]

(* The data of the link and of the history keep their types.               *)
DataOK ==
  /\ io \in Thread \cup {Nobody}
  /\ sequence \in Nat /\ calls \in 0 .. MaxCalls
  /\ asked \in Seq(Nat) /\ answers \in Seq(Nat)
  /\ accepted \in Seq(Runtime) /\ calledBack \in Seq(Nat)

LEMMA StepsTypes ==
  ASSUME TypeOK, NEW t \in Thread, NEW s, Steps(t, s),
         runtime' \in [Runtime -> RuntimeState], UNCHANGED opened,
         channel' \in {channel, Nobody}, DataOK'
  PROVE  /\ TypeOK'
         /\ thread'[t] = s
         /\ \A u \in Thread \ {t} : thread'[u] = thread[u]
<1>1. thread \in [Thread -> ThreadState] /\ channel \in 0 .. opened /\ opened \in 0 .. MaxRuntimes
  BY DEF TypeOK, ThreadState
<1>2. /\ thread' \in [Thread -> ThreadState]
      /\ thread'[t] = s
      /\ \A u \in Thread \ {t} : thread'[u] = thread[u]
  BY <1>1 DEF Steps
<1>3. \A u \in Thread : thread'[u].at \in Found => thread'[u].runtime \in 1 .. opened
  BY <1>2 DEF Steps, TypeOK
<1>4. channel' \in 0 .. opened
  BY <1>1 DEF Nobody
<1> QED BY <1>1, <1>2, <1>3, <1>4 DEF TypeOK, DataOK, ThreadState, RuntimeState

LEMMA Typed ==
  ASSUME TypeOK
  PROVE  /\ thread \in [Thread -> ThreadState] /\ runtime \in [Runtime -> RuntimeState]
         /\ DataOK
         /\ opened \in Nat /\ opened <= MaxRuntimes /\ channel \in 0 .. opened
BY DEF TypeOK, ThreadState, RuntimeState, DataOK

LEMMA ChannelFound ==
  ASSUME TypeOK, channel # Nobody
  PROVE  channel \in 1 .. opened /\ channel \in 0 .. MaxRuntimes /\ channel \in Runtime
<1>1. channel \in 0 .. opened /\ opened \in Nat /\ opened <= MaxRuntimes /\ channel # 0
  BY Typed DEF Nobody
<1>2. channel \in 1 .. opened /\ channel \in 0 .. MaxRuntimes
  BY <1>1, Bounds
<1> QED BY <1>1, <1>2, Opened

(* A worker neither leaves its end nor starts by itself, only the owner    *)
(* comes to a place of closeChannel, with the channel, and it erases the   *)
(* channel only when the worker has ended.                                 *)
Orderly(o, t, s) ==
  /\ thread[t].at # "exited"
  /\ t \in Runtime => thread[t].at # "idle"
  /\ s.at \in ClosePlace \cup {"close require"} => t = o
  /\ s.at \in ClosePlace => channel # Nobody /\ s.runtime = channel
  /\ s.at = "erase" => At(channel, "exited")

LEMMA OwnerKeeps ==
  ASSUME NEW o \in Caller, Inv(o), NEW t \in Thread, NEW s,
         thread'[t] = s, \A u \in Thread \ {t} : thread'[u] = thread[u],
         channel' = channel, Orderly(o, t, s)
  PROVE  OwnerInv(o)'
<1>1. \A u \in Thread \ {o} : thread'[u].at \notin ClosePlace \cup {"close require"}
  BY DEF OwnerInv, Inv, Orderly
<1>2. thread'[o].at \in ClosePlace => channel # Nobody /\ thread'[o].runtime = channel
  BY Threads DEF OwnerInv, Inv, Orderly
<1>3. ASSUME thread'[o].at = "erase" PROVE At(channel, "exited")'
  <2>1. At(channel, "exited")
    BY <1>3, Threads DEF OwnerInv, Inv, Orderly
  <2>2. channel \in Runtime /\ thread[t].at # "exited"
    BY <1>2, <1>3, ChannelFound DEF ClosePlace, Inv, Orderly
  <2> QED BY <2>1, <2>2, Threads DEF At
<1> QED BY <1>1, <1>2, <1>3 DEF OwnerInv

(* A step that leaves the runtimes and the channel alone.                  *)
LEMMA QuietKeeps ==
  ASSUME NEW o \in Caller, Inv(o), NEW t \in Thread, NEW s, Steps(t, s),
         UNCHANGED <<channel, opened, runtime>>, DataOK',
         Orderly(o, t, s), s.at # "exited"
  PROVE  Inv(o)'
<1>1. /\ TypeOK'
      /\ thread'[t] = s
      /\ \A u \in Thread \ {t} : thread'[u] = thread[u]
  BY StepsTypes, Typed DEF Inv
<1>2. \A r \in Runtime : At(r, "exited")' <=> At(r, "exited")
  BY <1>1, Threads DEF At, Orderly
<1>3. WorkersInv'
  <2> SUFFICES ASSUME NEW r \in Runtime, r > opened PROVE thread'[r].at = "idle"
    BY <1>2 DEF WorkersInv, Inv, At
  <2>1. thread[r].at = "idle"
    BY DEF WorkersInv, Inv, At
  <2> QED BY <1>1, <2>1, Threads DEF Orderly
<1>4. OneIncarnation'
  <2>1. \A r \in 1 .. opened : r \in Runtime
    BY Typed, Opened DEF Inv
  <2> QED BY <1>2, <2>1 DEF OneIncarnation, Inv
<1> QED BY <1>1, <1>3, <1>4, OwnerKeeps DEF Inv

(* A step that changes the runtime of the channel.                         *)
LEMMA ChannelKeeps ==
  ASSUME NEW o \in Caller, Inv(o), NEW t \in Thread, NEW s, Steps(t, s),
         channel # Nobody, NEW q \in RuntimeState, runtime' = [runtime EXCEPT ![channel] = q],
         UNCHANGED <<channel, opened>>, DataOK', Orderly(o, t, s),
         s.at = "exited" => t = channel,
         At(channel, "exited") \/ s.at = "exited" => q.stopping /\ q.queue = <<>>,
         q.stopping => ~q.open,
         q.joined => At(channel, "exited")
  PROVE  Inv(o)'
<1>1. channel \in Runtime /\ channel \in 1 .. opened /\ runtime \in [Runtime -> RuntimeState]
  BY ChannelFound, Typed DEF Inv
<1>2. /\ TypeOK'
      /\ thread'[t] = s
      /\ \A u \in Thread \ {t} : thread'[u] = thread[u]
  BY <1>1, StepsTypes DEF Inv
<1>3. /\ \A r \in Runtime : At(r, "exited") => At(r, "exited")'
      /\ \A r \in Runtime : At(r, "exited")' => At(r, "exited") \/ (r = channel /\ s.at = "exited")
  BY <1>2, Threads DEF At, Orderly
<1>4. runtime'[channel] = q /\ \A r \in Runtime \ {channel} : runtime'[r] = runtime[r]
  BY <1>1
<1>5. ASSUME NEW r \in Runtime, r > opened PROVE runtime'[r] = Closed /\ At(r, "idle")'
  <2>1. r # channel /\ runtime[r] = Closed /\ thread[r].at = "idle"
    BY <1>1, <1>5, Typed DEF WorkersInv, Inv, At
  <2> QED BY <1>2, <1>4, <2>1, Threads DEF At, Orderly
<1>6. WorkersInv'
  <2> SUFFICES ASSUME NEW r \in Runtime
               PROVE  /\ At(r, "exited")' => runtime'[r].stopping /\ runtime'[r].queue = <<>>
                      /\ runtime'[r].stopping => ~runtime'[r].open
                      /\ runtime'[r].joined => At(r, "exited")'
    BY <1>5 DEF WorkersInv
  <2>1. CASE r = channel
    BY <1>3, <1>4, <2>1
  <2>2. CASE r # channel
    BY <1>3, <1>4, <2>2 DEF WorkersInv, Inv
  <2> QED BY <2>1, <2>2
<1>7. OneIncarnation'
  <2>1. \A r \in 1 .. opened : r \in Runtime
    BY Typed, Opened DEF Inv
  <2> QED BY <1>3, <1>4, <2>1 DEF OneIncarnation, Inv
<1> QED BY <1>2, <1>6, <1>7, OwnerKeeps DEF Inv

(* The ways in which the code moves a thread.                              *)
LEMMA GotoSteps ==
  ASSUME TypeOK, NEW t \in Thread, NEW place \in Place, Goto(t, place),
         place \in Found => thread[t].at \in Found
  PROVE  \E s : Steps(t, s) /\ s.at = place /\ s.runtime = thread[t].runtime
<1> DEFINE s == [thread[t] EXCEPT !.at = place]
<1>1. thread[t] \in ThreadState
  BY Typed
<1>2. s \in ThreadState /\ s.at = place /\ s.runtime = thread[t].runtime
  BY <1>1 DEF ThreadState
<1>3. thread' = [thread EXCEPT ![t] = s]
  BY DEF Goto
<1>4. place \in Found => thread[t].runtime \in 1 .. opened
  BY DEF TypeOK
<1> HIDE DEF s
<1> QED BY <1>2, <1>3, <1>4 DEF Steps

LEMMA IdleState == Idle \in ThreadState /\ Idle.at = "idle" /\ "idle" \notin Found
<1>1. "idle" \in Place /\ 0 \in 0 .. MaxRuntimes /\ 0 \in Nat
  BY Bounds DEF Place
<1> QED BY <1>1 DEF ThreadState, Idle, Nobody, Found

LEMMA ReturnSteps ==
  ASSUME TypeOK, NEW t \in Thread, Return(t)
  PROVE  Steps(t, Idle) /\ Idle.at = "idle"
BY IdleState DEF Return, Steps

LEMMA BeginSteps ==
  ASSUME TypeOK, NEW t \in Thread, NEW place \in Place, place \notin Found,
         NEW op \in {"sync", "async", "drain", "close"}, Begin(t, op, place)
  PROVE  \E s : Steps(t, s) /\ s.at = place
<1> DEFINE s == [Idle EXCEPT !.op = op, !.at = place]
<1>1. Idle \in ThreadState
  BY IdleState
<1>2. s \in ThreadState /\ s.at = place
  BY <1>1 DEF ThreadState
<1>3. thread' = [thread EXCEPT ![t] = s]
  BY DEF Begin
<1> HIDE DEF s
<1> QED BY <1>2, <1>3 DEF Steps

LEMMA SyncReturnsSteps ==
  ASSUME TypeOK, NEW t \in Thread, SyncReturns(t)
  PROVE  \E s : Steps(t, s) /\ s.at \in {"callback", "idle"}
<1>1. CASE t \in Runtime
  <2>1. Goto(t, "callback")
    BY <1>1 DEF SyncReturns
  <2>2. "callback" \in Place /\ "callback" \notin Found
    BY DEF Place, Found
  <2> QED BY <2>1, <2>2, GotoSteps
<1>2. CASE t \notin Runtime
  BY <1>2, ReturnSteps DEF SyncReturns
<1> QED BY <1>1, <1>2

LEMMA FoundSteps ==
  ASSUME TypeOK, NEW t \in Thread, NEW place \in Place, channel # Nobody,
         thread' = [thread EXCEPT ![t].at = place, ![t].runtime = channel]
  PROVE  \E s : Steps(t, s) /\ s.at = place /\ s.runtime = channel
<1> DEFINE s == [thread[t] EXCEPT !.at = place, !.runtime = channel]
<1>1. channel \in 1 .. opened /\ channel \in 0 .. MaxRuntimes
  BY ChannelFound
<1>2. thread[t] \in ThreadState
  BY Typed
<1>3. s \in ThreadState /\ s.at = place /\ s.runtime = channel
  BY <1>2, <1>1 DEF ThreadState
<1>4. thread' = [thread EXCEPT ![t] = s]
  OBVIOUS
<1> HIDE DEF s
<1> QED BY <1>3, <1>4, <1>1 DEF Steps

-----------------------------------------------------------------------------
(* sendSync.                                                               *)

LEMMA SyncSteps ==
  ASSUME TypeOK, NEW t \in Thread, SyncStep(t)
  PROVE  /\ thread[t].at \in SyncPlace
         /\ UNCHANGED <<channel, opened, runtime>>
         /\ DataOK'
         /\ \E s : Steps(t, s) /\ s.at \in SyncPlace \cup {"callback", "idle"}
<1> DEFINE Out == \E s : Steps(t, s) /\ s.at \in SyncPlace \cup {"callback", "idle"}
<1>a. /\ DataOK /\ thread[t] \in ThreadState
      /\ \A place \in SyncPlace : place \in Place
      /\ thread[t].at \in Found => thread[t].runtime \in 1 .. opened
  BY Typed DEF SyncPlace, Place, TypeOK
<1>b. SyncReturns(t) => Out
  BY SyncReturnsSteps
<1>c. ASSUME NEW place \in SyncPlace, Goto(t, place), thread[t].at \in Found PROVE Out
  BY <1>a, <1>c, GotoSteps
<1>d. ASSUME NEW place \in SyncPlace, Require(t, place, SyncReturns(t)) PROVE Out
  BY <1>a, <1>b, <1>d, FoundSteps DEF Require
<1>e. /\ UNCHANGED <<io, asked, answers>> /\ UNCHANGED <<sequence, accepted, calledBack, calls>> => DataOK'
      /\ io' = Nobody /\ UNCHANGED <<asked, answers, sequence, accepted, calledBack, calls>> => DataOK'
      /\ io' = t /\ UNCHANGED <<asked, answers, sequence, accepted, calledBack, calls>> => DataOK'
  BY <1>a DEF DataOK
<1> HIDE DEF Out
<1> USE DEF SyncPlace, At
<1>1. CASE SendRequire(t)
  BY <1>1, <1>d, <1>e DEF SendRequire, Require, link, Out
<1>2. CASE SendCheck(t)
  <2>1. /\ thread[t].at = "check" /\ sequence' \in Nat
        /\ UNCHANGED <<channel, opened, runtime, io, asked, answers, accepted, calledBack, calls>>
    <3>1. sequence \in Nat
      BY <1>a DEF DataOK
    <3>2. sequence' = sequence + 1 \/ sequence' = sequence
      BY <1>2 DEF SendCheck
    <3>3. sequence' \in Nat
      BY <3>1, <3>2
    <3> QED BY <1>2, <3>3 DEF SendCheck, link
  <2>2. DataOK'
    BY <2>1, <1>a DEF DataOK
  <2>3. CASE SyncReturns(t)
    BY <2>1, <2>2, <2>3, <1>b DEF Out
  <2>4. CASE thread' = [thread EXCEPT ![t].at = "lock", ![t].seq = sequence]
    <3> DEFINE s == [thread[t] EXCEPT !.at = "lock", !.seq = sequence]
    <3>1. s \in ThreadState /\ s.at = "lock" /\ s.runtime = thread[t].runtime
      BY <1>a DEF ThreadState, DataOK
    <3>2. thread[t].runtime \in 1 .. opened
      BY <2>1, <1>a DEF Found
    <3>3. thread' = [thread EXCEPT ![t] = s]
      BY <2>4
    <3> HIDE DEF s
    <3>4. Steps(t, s)
      BY <3>1, <3>2, <3>3 DEF Steps
    <3> QED BY <2>1, <2>2, <3>1, <3>4
  <2> QED BY <1>2, <2>3, <2>4 DEF SendCheck
<1>3. CASE SendLock(t)
  BY <1>3, <1>c, <1>e DEF SendLock, Found, Out
<1>4. CASE SendPacket(t)
  <2>1. /\ thread[t].at = "packet"
        /\ UNCHANGED <<channel, opened, runtime, answers, sequence, accepted, calledBack, calls>>
    BY <1>4 DEF SendPacket
  <2>2. thread[t].seq \in Nat /\ asked \in Seq(Nat) /\ io \in Thread \cup {Nobody}
    BY <1>a DEF ThreadState, DataOK
  <2>3. Append(asked, thread[t].seq) \in Seq(Nat)
    BY <2>2
  <2>4. /\ asked' = asked \/ asked' = Append(asked, thread[t].seq)
        /\ io' = io \/ io' = Nobody
        /\ Goto(t, "tx require") \/ SyncReturns(t)
    BY <1>4 DEF SendPacket
  <2>5. DataOK'
    BY <2>1, <2>2, <2>3, <2>4, <1>a DEF DataOK
  <2> QED BY <2>1, <2>4, <2>5, <1>b, <1>c DEF Found, Out
<1>5. CASE RecordTxRequire(t)
  BY <1>5, <1>d, <1>e DEF RecordTxRequire, Require, link, Out
<1>6. CASE RecordTx(t)
  BY <1>6, <1>b, <1>c, <1>e DEF RecordTx, GiveUp, link, Found, Out
<1>7. CASE ReceiveOwnAnswer(t)
  <2>1. /\ thread[t].at = "receive" /\ answers # <<>> /\ answers' = Tail(answers)
        /\ Goto(t, "rx require")
        /\ UNCHANGED <<channel, opened, runtime, io, asked, sequence, accepted, calledBack, calls>>
    BY <1>7 DEF ReceiveOwnAnswer
  <2>2. answers' \in Seq(Nat)
    <3>1. answers \in Seq(Nat)
      BY <1>a DEF DataOK
    <3>2. Tail(answers) \in Seq(Nat)
      BY <2>1, <3>1, HeadTailProperties
    <3> QED BY <2>1, <3>2
  <2>3. DataOK'
    BY <2>1, <2>2, <1>a DEF DataOK
  <2> QED BY <2>1, <2>3, <1>c DEF Found, Out
<1>8. CASE ReceiveOtherAnswer(t)
  <2>1. /\ thread[t].at = "receive" /\ answers # <<>> /\ answers' = Tail(answers)
        /\ SyncReturns(t) /\ io' = Nobody
        /\ UNCHANGED <<channel, opened, runtime, asked, sequence, accepted, calledBack, calls>>
    BY <1>8 DEF ReceiveOtherAnswer
  <2>2. answers' \in Seq(Nat)
    <3>1. answers \in Seq(Nat)
      BY <1>a DEF DataOK
    <3>2. Tail(answers) \in Seq(Nat)
      BY <2>1, <3>1, HeadTailProperties
    <3> QED BY <2>1, <3>2
  <2>3. DataOK'
    BY <2>1, <2>2, <1>a DEF DataOK
  <2> QED BY <2>1, <2>3, <1>b DEF Out
<1>9. CASE ReceiveTimeout(t)
  BY <1>9, <1>b, <1>e DEF ReceiveTimeout, GiveUp, Out
<1>10. CASE RecordRxRequire(t)
  BY <1>10, <1>d, <1>e DEF RecordRxRequire, Require, link, Out
<1>11. CASE RecordRx(t)
  BY <1>11, <1>b, <1>e DEF RecordRx, GiveUp, Out
<1> QED BY <1>1, <1>2, <1>3, <1>4, <1>5, <1>6, <1>7, <1>8, <1>9, <1>10, <1>11 DEF SyncStep

LEMMA SyncKeeps ==
  ASSUME NEW o \in Caller, Inv(o), NEW t \in Thread, SyncStep(t)
  PROVE  Inv(o)'
<1>1. /\ thread[t].at \in SyncPlace
      /\ UNCHANGED <<channel, opened, runtime>>
      /\ DataOK'
      /\ \E s : Steps(t, s) /\ s.at \in SyncPlace \cup {"callback", "idle"}
  BY SyncSteps DEF Inv
<1>2. PICK s : Steps(t, s) /\ s.at \in SyncPlace \cup {"callback", "idle"}
  BY <1>1
<1>3. Orderly(o, t, s) /\ s.at # "exited"
  BY <1>1, <1>2 DEF Orderly, SyncPlace, ClosePlace
<1> QED BY <1>1, <1>2, <1>3, QuietKeeps

-----------------------------------------------------------------------------
(* The other steps of the callers.                                         *)

LEMMA BeginsKeep ==
  ASSUME NEW o \in Caller, Inv(o), NEW t \in Caller,
         SendSync(t) \/ SendAsync(t) \/ DrainAsync(t) \/ (t = o /\ CloseChannel(t))
  PROVE  Inv(o)'
<1>1. PICK place \in {"require", "async require", "drain require", "close require"},
           op \in {"sync", "async", "drain", "close"} :
             Begin(t, op, place) /\ (place = "close require" => t = o)
  BY DEF SendSync, SendAsync, DrainAsync, CloseChannel
<1>2. UNCHANGED <<channel, opened, runtime, io, asked, answers, sequence, accepted, calledBack>>
  BY DEF SendSync, SendAsync, DrainAsync, CloseChannel, link
<1>3. place \in Place /\ place \notin Found
  BY DEF Place, Found
<1>4. t \in Thread /\ t \notin Runtime
  BY Threads
<1>5. PICK s : Steps(t, s) /\ s.at = place
  BY <1>1, <1>3, <1>4, BeginSteps DEF Inv
<1>6. Orderly(o, t, s) /\ s.at # "exited"
  BY <1>1, <1>4, <1>5 DEF Orderly, Begin, At, ClosePlace
<1>7. DataOK'
  <2>1. DataOK
    BY Typed DEF Inv
  <2>2. calls' \in 0 .. MaxCalls
    <3>1. calls \in 0 .. MaxCalls /\ calls < MaxCalls /\ calls' = calls + 1
      BY <1>1, <2>1 DEF Begin, DataOK
    <3> QED BY <3>1, OneCallMore
  <2> QED BY <1>2, <2>1, <2>2 DEF DataOK
<1> QED BY <1>2, <1>4, <1>5, <1>6, <1>7, QuietKeeps

(* Where nothing but the thread changes.                                   *)
LEMMA WaitsKeep ==
  ASSUME NEW o \in Caller, Inv(o), NEW t \in Caller,
         \/ AsyncRequire(t) \/ DrainRequire(t) \/ DrainReturn(t)
         \/ CloseRequire(t) \/ CloseDrainRequire(t) \/ CloseDrain(t)
  PROVE  Inv(o)'
<1>1. UNCHANGED <<channel, opened, runtime, io, asked, answers, sequence, accepted, calledBack, calls>>
  BY DEF AsyncRequire, DrainRequire, DrainReturn, CloseRequire, CloseDrainRequire, CloseDrain,
         Require, link
<1>2. DataOK'
  BY <1>1, Typed DEF DataOK, Inv
<1>3. t \in Thread /\ t \notin Runtime
  BY Threads
<1>4. TypeOK /\ OwnerInv(o)
  BY DEF Inv
<1>5. PICK s : Steps(t, s) /\ Orderly(o, t, s) /\ s.at # "exited"
  <2> SUFFICES \E s : Steps(t, s) /\ Orderly(o, t, s) /\ s.at # "exited"
    OBVIOUS
  <2>1. CASE Return(t) /\ thread[t].at # "exited"
    <3>1. Steps(t, Idle) /\ Idle.at = "idle"
      BY <1>3, <1>4, <2>1, ReturnSteps
    <3>2. Orderly(o, t, Idle)
      BY <1>3, <2>1, <3>1 DEF Orderly, ClosePlace
    <3> QED BY <3>1, <3>2
  <2>2. ASSUME NEW place \in {"async push", "drain", "close drain require"}, channel # Nobody,
               thread' = [thread EXCEPT ![t].at = place, ![t].runtime = channel],
               thread[t].at # "exited", place = "close drain require" => t = o
        PROVE  \E s : Steps(t, s) /\ Orderly(o, t, s) /\ s.at # "exited"
    <3>1. place \in Place
      BY DEF Place
    <3>2. PICK s : Steps(t, s) /\ s.at = place /\ s.runtime = channel
      BY <1>3, <1>4, <2>2, <3>1, FoundSteps
    <3>3. Orderly(o, t, s)
      BY <1>3, <2>2, <3>2 DEF Orderly, ClosePlace
    <3> QED BY <3>2, <3>3
  <2>3. CASE AsyncRequire(t) \/ DrainRequire(t)
    BY <2>1, <2>2, <2>3 DEF AsyncRequire, DrainRequire, Require, At
  <2>4. CASE DrainReturn(t)
    BY <2>1, <2>4 DEF DrainReturn, At
  <2>5. CASE CloseRequire(t)
    <3>1. t = o
      BY <1>3, <1>4, <2>5 DEF CloseRequire, At, OwnerInv
    <3> QED BY <2>1, <2>2, <2>5, <3>1 DEF CloseRequire, Require, At
  <2>6. CASE CloseDrainRequire(t)
    <3> DEFINE place == IF channel = Nobody THEN "close stop" ELSE "close drain"
               s == [thread[t] EXCEPT !.at = place, !.request = channel]
    <3>1. thread[t].at = "close drain require" /\ thread' = [thread EXCEPT ![t] = s]
      BY <2>6 DEF CloseDrainRequire, At
    <3>2. t = o
      BY <1>3, <1>4, <3>1 DEF OwnerInv, ClosePlace
    <3>3. channel # Nobody /\ thread[t].runtime = channel
      BY <1>4, <3>1, <3>2 DEF OwnerInv, ClosePlace
    <3>4. channel \in 1 .. opened /\ channel \in Nat
      <4>1. channel \in 1 .. opened
        BY <1>4, <3>3, ChannelFound
      <4> QED BY <4>1, <1>4, Typed
    <3>5. thread[t] \in ThreadState /\ "close drain" \in Place
      BY <1>3, <1>4, Typed DEF Place
    <3>6. s \in ThreadState /\ s.at = "close drain" /\ s.runtime = channel
      BY <3>3, <3>4, <3>5 DEF ThreadState
    <3> HIDE DEF s
    <3>7. Steps(t, s)
      BY <3>1, <3>4, <3>6 DEF Steps
    <3>8. Orderly(o, t, s)
      BY <1>3, <3>1, <3>2, <3>3, <3>6 DEF Orderly
    <3> QED BY <3>6, <3>7, <3>8
  <2>7. CASE CloseDrain(t)
    <3>1. thread[t].at = "close drain" /\ Goto(t, "close stop")
      BY <2>7 DEF CloseDrain, At
    <3>2. t = o
      BY <1>3, <1>4, <3>1 DEF OwnerInv, ClosePlace
    <3>3. channel # Nobody /\ thread[t].runtime = channel
      BY <1>4, <3>1, <3>2 DEF OwnerInv, ClosePlace
    <3>4. PICK s : Steps(t, s) /\ s.at = "close stop" /\ s.runtime = thread[t].runtime
      <4>1. "close stop" \in Place
        BY DEF Place
      <4>2. thread[t].at \in Found
        BY <3>1 DEF Found
      <4> QED BY <1>3, <1>4, <3>1, <4>1, <4>2, GotoSteps
    <3>5. Orderly(o, t, s)
      BY <1>3, <3>1, <3>2, <3>3, <3>4 DEF Orderly
    <3> QED BY <3>4, <3>5
  <2> QED BY <2>3, <2>4, <2>5, <2>6, <2>7
<1> QED BY <1>1, <1>2, <1>3, <1>5, QuietKeeps

(* Where the runtime of the channel changes.                               *)

LEMMA PushKeeps ==
  ASSUME NEW o \in Caller, Inv(o), NEW t \in Caller, AsyncPush(t)
  PROVE  Inv(o)'
<1> DEFINE r == thread[t].runtime
           n == Len(accepted) + 1
<1>1. /\ thread[t].at = "async push" /\ Return(t)
      /\ UNCHANGED <<channel, opened, io, asked, answers, sequence, calledBack, calls>>
  BY DEF AsyncPush, At, link
<1>2. t \in Thread /\ t \notin Runtime /\ TypeOK
  BY Threads DEF Inv
<1>3. Steps(t, Idle) /\ Idle.at = "idle"
  BY <1>1, <1>2, ReturnSteps
<1>4. Orderly(o, t, Idle)
  BY <1>1, <1>2, <1>3 DEF Orderly, ClosePlace
<1>5. DataOK /\ n \in Nat
  BY Typed DEF Inv, DataOK
<1>6. r \in 1 .. opened /\ r \in Runtime
  <2>1. r \in 1 .. opened
    BY <1>1, <1>2 DEF TypeOK, Found
  <2> QED BY <1>2, <2>1, Typed, Opened
<1>7. CASE runtime[r].open
  <2> DEFINE queue == Append(runtime[r].queue, n)
             q == [runtime[r] EXCEPT !.queue = queue]
  <2>1. accepted' = Append(accepted, r) /\ runtime' = [runtime EXCEPT ![r] = q]
    BY <1>7 DEF AsyncPush
  <2>2. r = channel /\ channel # Nobody
    <3>1. r = channel
      BY <1>6, <1>7 DEF Inv, OneIncarnation
    <3>2. r # 0
      BY <1>6, Threads
    <3> QED BY <3>1, <3>2 DEF Nobody
  <2>3. runtime[r] \in RuntimeState
    BY <1>2, <1>6, Typed
  <2>4. queue \in Seq(Nat)
    BY <1>5, <2>3 DEF RuntimeState
  <2> HIDE DEF queue
  <2>5. q \in RuntimeState /\ q.open /\ q.stopping = runtime[r].stopping
          /\ q.joined = runtime[r].joined
    BY <1>7, <2>3, <2>4 DEF RuntimeState
  <2>6. ~runtime[r].stopping /\ ~At(r, "exited") /\ ~runtime[r].joined
    BY <1>6, <1>7 DEF Inv, WorkersInv
  <2>7. accepted' \in Seq(Runtime)
    <3>1. accepted \in Seq(Runtime)
      BY <1>5 DEF DataOK
    <3> QED BY <1>6, <2>1, <3>1, AppendProperties
  <2>8. DataOK'
    BY <1>1, <1>5, <2>7 DEF DataOK
  <2> HIDE DEF q, r
  <2> QED BY <1>1, <1>2, <1>3, <1>4, <2>1, <2>2, <2>5, <2>6, <2>8, ChannelKeeps
<1>8. CASE ~runtime[r].open
  <2>1. UNCHANGED <<accepted, runtime>>
    BY <1>8 DEF AsyncPush
  <2>2. DataOK'
    BY <1>1, <1>5, <2>1 DEF DataOK
  <2> QED BY <1>1, <1>2, <1>3, <1>4, <2>1, <2>2, QuietKeeps
<1> QED BY <1>7, <1>8

(* A worker in its loop is that of the channel.                            *)
LEMMA AtWork ==
  ASSUME NEW o \in Caller, Inv(o), NEW r \in Runtime,
         thread[r].at \in {"wait", "callback", "finish"}
  PROVE  r = channel /\ channel # Nobody
<1>1. opened \in Nat /\ r \in Nat \ {0}
  BY Typed, Bounds DEF Inv, Runtime
<1>2. ~(r > opened)
  BY DEF Inv, WorkersInv, At
<1>3. r \in 1 .. opened
  BY <1>1, <1>2
<1>4. r = channel
  BY <1>3 DEF Inv, OneIncarnation, At
<1> QED BY <1>1, <1>4 DEF Nobody

LEMMA WorkerKeeps ==
  ASSUME NEW o \in Caller, Inv(o), NEW r \in Runtime,
         WorkerTake(r) \/ WorkerExit(r) \/ WorkerCallback(r) \/ WorkerFinish(r)
  PROVE  Inv(o)'
<1>1. r = channel /\ channel # Nobody
  BY AtWork DEF WorkerTake, WorkerExit, WorkerCallback, WorkerFinish, At
<1>2. r \in Thread /\ r # o /\ TypeOK /\ DataOK /\ thread[r] \in ThreadState
        /\ runtime[r] \in RuntimeState
  BY Threads, Typed DEF Inv
<1>3. /\ At(r, "exited") => runtime[r].stopping /\ runtime[r].queue = <<>>
      /\ runtime[r].stopping => ~runtime[r].open
      /\ runtime[r].joined => At(r, "exited")
  BY DEF Inv, WorkersInv
<1>4. CASE WorkerTake(r)
  <2> DEFINE request == Head(runtime[r].queue)
             queue == Tail(runtime[r].queue)
             s == [thread[r] EXCEPT !.at = "require", !.request = request]
             q == [runtime[r] EXCEPT !.queue = queue, !.active = TRUE]
  <2>1. /\ thread[r].at = "wait" /\ runtime[r].queue # <<>>
        /\ runtime' = [runtime EXCEPT ![r] = q] /\ thread' = [thread EXCEPT ![r] = s]
        /\ UNCHANGED <<channel, opened, io, asked, answers, sequence, accepted, calledBack, calls>>
    BY <1>4 DEF WorkerTake, At, link
  <2>2. runtime[r].queue \in Seq(Nat)
    BY <1>2 DEF RuntimeState
  <2>3. request \in Nat /\ queue \in Seq(Nat)
    BY <2>1, <2>2, HeadTailProperties
  <2> HIDE DEF request, queue
  <2>4. q \in RuntimeState /\ q.stopping = runtime[r].stopping /\ q.open = runtime[r].open
          /\ q.joined = runtime[r].joined
    BY <1>2, <2>3 DEF RuntimeState
  <2>5. "require" \in Place
    BY DEF Place
  <2>6. s \in ThreadState /\ s.at = "require"
    BY <1>2, <2>3, <2>5 DEF ThreadState
  <2> HIDE DEF s, q
  <2>7. Steps(r, s)
    BY <2>1, <2>6 DEF Steps, Found
  <2>8. Orderly(o, r, s) /\ s.at # "exited" /\ ~At(r, "exited")
    BY <2>1, <2>6 DEF Orderly, ClosePlace, At
  <2>9. DataOK'
    BY <1>2, <2>1 DEF DataOK
  <2> QED BY <1>1, <1>2, <1>3, <2>1, <2>4, <2>7, <2>8, <2>9, ChannelKeeps
<1>5. CASE WorkerExit(r)
  <2>1. /\ thread[r].at = "wait" /\ runtime[r].stopping /\ runtime[r].queue = <<>>
        /\ Goto(r, "exited")
        /\ UNCHANGED <<channel, opened, runtime, io, asked, answers, sequence, accepted, calledBack, calls>>
    BY <1>5 DEF WorkerExit, At, link
  <2>2. "exited" \in Place /\ "exited" \notin Found
    BY DEF Place, Found
  <2>3. PICK s : Steps(r, s) /\ s.at = "exited"
    BY <1>2, <2>1, <2>2, GotoSteps
  <2>4. Orderly(o, r, s)
    BY <2>1, <2>3 DEF Orderly, ClosePlace
  <2>5. DataOK'
    BY <1>2, <2>1 DEF DataOK
  <2>6. runtime' = [runtime EXCEPT ![r] = runtime[r]]
    BY <1>2, <2>1, Typed
  <2> QED BY <1>1, <1>2, <1>3, <2>1, <2>3, <2>4, <2>5, <2>6, ChannelKeeps
<1>6. CASE WorkerCallback(r)
  <2> DEFINE s == [thread[r] EXCEPT !.at = "finish", !.request = Nobody]
  <2>1. /\ thread[r].at = "callback" /\ thread' = [thread EXCEPT ![r] = s]
        /\ calledBack' = Append(calledBack, thread[r].request)
        /\ UNCHANGED <<channel, opened, runtime, io, asked, answers, sequence, accepted, calls>>
    BY <1>6 DEF WorkerCallback, At, link
  <2>2. "finish" \in Place /\ Nobody \in Nat
    BY DEF Place, Nobody
  <2>3. s \in ThreadState /\ s.at = "finish"
    BY <1>2, <2>2 DEF ThreadState
  <2> HIDE DEF s
  <2>4. Steps(r, s)
    BY <2>1, <2>3 DEF Steps, Found
  <2>5. Orderly(o, r, s) /\ s.at # "exited"
    BY <2>1, <2>3 DEF Orderly, ClosePlace
  <2>6. calledBack' \in Seq(Nat)
    <3>1. calledBack \in Seq(Nat) /\ thread[r].request \in Nat
      BY <1>2 DEF DataOK, ThreadState
    <3> QED BY <2>1, <3>1, AppendProperties
  <2>7. DataOK'
    BY <1>2, <2>1, <2>6 DEF DataOK
  <2> QED BY <1>2, <2>1, <2>4, <2>5, <2>7, QuietKeeps
<1>7. CASE WorkerFinish(r)
  <2> DEFINE s == [Idle EXCEPT !.at = "wait"]
             q == [runtime[r] EXCEPT !.active = FALSE]
  <2>1. /\ thread[r].at = "finish"
        /\ runtime' = [runtime EXCEPT ![r] = q] /\ thread' = [thread EXCEPT ![r] = s]
        /\ UNCHANGED <<channel, opened, io, asked, answers, sequence, accepted, calledBack, calls>>
    BY <1>7 DEF WorkerFinish, At, link
  <2>2. q \in RuntimeState /\ q.stopping = runtime[r].stopping /\ q.open = runtime[r].open
          /\ q.joined = runtime[r].joined
    BY <1>2 DEF RuntimeState
  <2>3. "wait" \in Place
    BY DEF Place
  <2>4. s \in ThreadState /\ s.at = "wait"
    BY <2>3, IdleState DEF ThreadState
  <2> HIDE DEF s, q
  <2>5. Steps(r, s)
    BY <2>1, <2>4 DEF Steps, Found
  <2>6. Orderly(o, r, s) /\ s.at # "exited" /\ ~At(r, "exited")
    BY <2>1, <2>4 DEF Orderly, ClosePlace, At
  <2>7. DataOK'
    BY <1>2, <2>1 DEF DataOK
  <2> QED BY <1>1, <1>2, <1>3, <2>1, <2>2, <2>5, <2>6, <2>7, ChannelKeeps
<1> QED BY <1>4, <1>5, <1>6, <1>7

-----------------------------------------------------------------------------
(* The end of closeChannel, and openChannel.                               *)

LEMMA StopKeeps ==
  ASSUME NEW o \in Caller, Inv(o), NEW t \in Caller, CloseStop(t) \/ CloseJoin(t)
  PROVE  Inv(o)'
<1>1. t \in Thread /\ t \notin Runtime /\ TypeOK /\ OwnerInv(o)
  BY Threads DEF Inv
<1>2. thread[t].at \in {"close stop", "join"}
  BY DEF CloseStop, CloseJoin, At
<1>3. t = o
  BY <1>1, <1>2 DEF OwnerInv, ClosePlace
<1>4. channel # Nobody /\ thread[t].runtime = channel
  BY <1>1, <1>2, <1>3 DEF OwnerInv, ClosePlace
<1>5. channel \in Runtime /\ runtime[channel] \in RuntimeState
  BY <1>1, <1>4, ChannelFound, Typed
<1>6. /\ At(channel, "exited") => runtime[channel].stopping /\ runtime[channel].queue = <<>>
      /\ runtime[channel].stopping => ~runtime[channel].open
      /\ runtime[channel].joined => At(channel, "exited")
  BY <1>5 DEF Inv, WorkersInv
<1>7. UNCHANGED <<channel, opened, io, asked, answers, sequence, accepted, calledBack, calls>>
  BY DEF CloseStop, CloseJoin, link
<1>8. DataOK'
  BY <1>1, <1>7, Typed DEF DataOK
<1>9. CASE CloseStop(t)
  <2> DEFINE q == [runtime[channel] EXCEPT !.open = FALSE, !.stopping = TRUE]
  <2>1. Goto(t, "join") /\ runtime' = [runtime EXCEPT ![channel] = q] /\ thread[t].at = "close stop"
    BY <1>4, <1>9 DEF CloseStop, At
  <2>2. q \in RuntimeState /\ ~q.open /\ q.stopping /\ q.queue = runtime[channel].queue
          /\ q.joined = runtime[channel].joined
    BY <1>5 DEF RuntimeState
  <2>3. "join" \in Place
    BY DEF Place
  <2>4. thread[t].at \in Found
    BY <2>1 DEF Found
  <2>5. PICK s : Steps(t, s) /\ s.at = "join" /\ s.runtime = thread[t].runtime
    BY <1>1, <2>1, <2>3, <2>4, GotoSteps
  <2> HIDE DEF q
  <2>6. Orderly(o, t, s) /\ s.at # "exited"
    BY <1>1, <1>3, <1>4, <2>1, <2>5 DEF Orderly
  <2> QED BY <1>1, <1>4, <1>6, <1>7, <1>8, <2>1, <2>2, <2>5, <2>6, ChannelKeeps
<1>10. CASE CloseJoin(t)
  <2> DEFINE q == [runtime[channel] EXCEPT !.joined = TRUE]
  <2>1. /\ Goto(t, "erase") /\ runtime' = [runtime EXCEPT ![channel] = q] /\ thread[t].at = "join"
        /\ runtime[channel].joined \/ At(channel, "exited")
    BY <1>4, <1>10 DEF CloseJoin, At
  <2>2. q \in RuntimeState /\ q.open = runtime[channel].open /\ q.queue = runtime[channel].queue
          /\ q.stopping = runtime[channel].stopping
    BY <1>5 DEF RuntimeState
  <2>3. "erase" \in Place
    BY DEF Place
  <2>4. thread[t].at \in Found
    BY <2>1 DEF Found
  <2>5. PICK s : Steps(t, s) /\ s.at = "erase" /\ s.runtime = thread[t].runtime
    BY <1>1, <2>1, <2>3, <2>4, GotoSteps
  <2> HIDE DEF q
  <2>6. Orderly(o, t, s) /\ s.at # "exited"
    BY <1>1, <1>3, <1>4, <1>6, <2>1, <2>5 DEF Orderly
  <2> QED BY <1>1, <1>4, <1>6, <1>7, <1>8, <2>1, <2>2, <2>5, <2>6, ChannelKeeps
<1> QED BY <1>9, <1>10

LEMMA EraseKeeps ==
  ASSUME NEW o \in Caller, Inv(o), NEW t \in Caller, CloseErase(t)
  PROVE  Inv(o)'
<1>1. t \in Thread /\ t \notin Runtime /\ TypeOK /\ OwnerInv(o) /\ o \in Thread
  BY Threads DEF Inv
<1>2. /\ thread[t].at = "erase" /\ Return(t) /\ channel' = Nobody
      /\ UNCHANGED <<opened, runtime, io, asked, answers, sequence, accepted, calledBack, calls>>
  BY DEF CloseErase, At, link
<1>3. t = o
  BY <1>1, <1>2 DEF OwnerInv, ClosePlace
<1>4. channel # Nobody /\ At(channel, "exited") /\ channel \in Runtime
  BY <1>1, <1>2, <1>3, ChannelFound DEF OwnerInv, ClosePlace
<1>5. DataOK' /\ runtime' \in [Runtime -> RuntimeState]
  BY <1>1, <1>2, Typed DEF DataOK
<1>6. Steps(t, Idle) /\ Idle.at = "idle"
  BY <1>1, <1>2, ReturnSteps
<1>7. /\ TypeOK'
      /\ thread'[t] = Idle
      /\ \A u \in Thread \ {t} : thread'[u] = thread[u]
  BY <1>1, <1>2, <1>5, <1>6, StepsTypes
<1>8. \A r \in Runtime : thread'[r] = thread[r]
  BY <1>1, <1>7, Threads
<1>9. WorkersInv'
  BY <1>2, <1>8 DEF WorkersInv, Inv, At
<1>10. OwnerInv(o)'
  BY <1>3, <1>6, <1>7 DEF OwnerInv, Inv, ClosePlace
<1>11. OneIncarnation'
  <2>1. \A r \in 1 .. opened : r \in Runtime
    BY <1>1, Typed, Opened
  <2>2. ~runtime[channel].open /\ runtime[channel].queue = <<>>
    BY <1>4 DEF WorkersInv, Inv
  <2>3. ASSUME NEW r \in 1 .. opened
        PROVE  ~runtime[r].open /\ thread[r].at = "exited" /\ runtime[r].queue = <<>>
    <3>1. CASE r = channel
      BY <1>4, <2>2, <3>1 DEF At
    <3>2. CASE r # channel
      BY <3>2 DEF OneIncarnation, Inv, At
    <3> QED BY <3>1, <3>2
  <2> QED BY <1>2, <1>8, <2>1, <2>3 DEF OneIncarnation, At
<1> QED BY <1>7, <1>9, <1>10, <1>11 DEF Inv

LEMMA OpenKeeps ==
  ASSUME NEW o \in Caller, Inv(o), OpenChannel(o)
  PROVE  Inv(o)'
<1> DEFINE n == opened + 1
<1>1. o \in Thread /\ o \notin Runtime /\ TypeOK
  BY Threads DEF Inv
<1>2. /\ thread[o].at = "idle" /\ calls < MaxCalls /\ calls' = calls + 1
      /\ UNCHANGED <<io, asked, answers, sequence, accepted, calledBack>>
  BY DEF OpenChannel, At, link
<1>3. DataOK'
  <2>1. DataOK
    BY <1>1, Typed
  <2>2. calls' \in 0 .. MaxCalls
    BY <1>2, <2>1, OneCallMore DEF DataOK
  <2> QED BY <1>2, <2>1, <2>2 DEF DataOK
<1>4. CASE UNCHANGED <<channel, opened, runtime, thread>>
  <2>1. thread[o] \in ThreadState /\ Steps(o, thread[o])
    BY <1>1, <1>4, Typed DEF Steps, TypeOK
  <2>2. Orderly(o, o, thread[o])
    BY <1>1, <1>2 DEF Orderly, ClosePlace
  <2> QED BY <1>1, <1>2, <1>3, <1>4, <2>1, <2>2, QuietKeeps
<1>5. CASE ~(UNCHANGED <<channel, opened, runtime, thread>>)
  <2> DEFINE q == [runtime[n] EXCEPT !.open = TRUE]
             s == [thread[n] EXCEPT !.at = "wait"]
  <2>1. /\ channel = Nobody /\ opened < MaxRuntimes /\ opened' = n /\ channel' = n
        /\ runtime' = [runtime EXCEPT ![n] = q] /\ thread' = [thread EXCEPT ![n] = s]
    BY <1>5 DEF OpenChannel
  <2>2. opened \in Nat /\ MaxRuntimes \in Nat /\ opened < MaxRuntimes
    BY <1>1, <2>1, Typed, Bounds
  <2>3. /\ n \in Nat /\ n > opened /\ n # 0 /\ n <= MaxRuntimes /\ n \in 0 .. MaxRuntimes
        /\ n \in 1 .. n /\ n \in 0 .. n /\ 1 .. opened \subseteq 1 .. n
        /\ \A r \in 1 .. n : r # n => r \in 1 .. opened
    BY <2>2
  <2>4. n \in Runtime /\ \A r \in 1 .. n : r \in Runtime
    BY <2>3, Opened
  <2>5. \A r \in Runtime : r > n => r > opened
    BY <2>2 DEF Runtime
  <2> HIDE DEF n
  <2>6. runtime[n] = Closed /\ thread[n].at = "idle"
    BY <2>3, <2>4 DEF Inv, WorkersInv, At
  <2>7. n \in Thread /\ n # o
    BY <1>1, <2>4, Threads
  <2>8. thread \in [Thread -> ThreadState] /\ runtime \in [Runtime -> RuntimeState]
    BY <1>1, Typed
  <2>9. runtime[n] \in RuntimeState /\ thread[n] \in ThreadState /\ "wait" \in Place
    BY <2>4, <2>7, <2>8 DEF Place
  <2>10. q \in RuntimeState /\ q.open /\ ~q.stopping /\ ~q.joined
    <3>1. ~runtime[n].stopping /\ ~runtime[n].joined
      BY <2>6 DEF Closed
    <3> QED BY <2>9, <3>1 DEF RuntimeState
  <2>11. s \in ThreadState /\ s.at = "wait"
    BY <2>9 DEF ThreadState
  <2> HIDE DEF q, s
  <2>12. /\ thread' \in [Thread -> ThreadState] /\ runtime' \in [Runtime -> RuntimeState]
         /\ thread'[n] = s /\ runtime'[n] = q
         /\ \A t \in Thread \ {n} : thread'[t] = thread[t]
         /\ \A r \in Runtime \ {n} : runtime'[r] = runtime[r]
    BY <2>1, <2>4, <2>7, <2>8, <2>10, <2>11
  <2>13. \A t \in Thread : thread'[t].at \in Found => thread'[t].runtime \in 1 .. n
    <3>1. s.at \notin Found
      BY <2>11 DEF Found
    <3>2. \A t \in Thread : thread[t].at \in Found => thread[t].runtime \in 1 .. opened
      BY <1>1 DEF TypeOK
    <3> QED BY <2>3, <2>12, <3>1, <3>2
  <2>14. TypeOK'
    BY <1>3, <2>1, <2>3, <2>12, <2>13 DEF TypeOK, DataOK, ThreadState, RuntimeState
  <2>15. WorkersInv'
    <3> SUFFICES ASSUME NEW r \in Runtime
                 PROVE  /\ thread'[r].at = "exited" => runtime'[r].stopping /\ runtime'[r].queue = <<>>
                        /\ runtime'[r].stopping => ~runtime'[r].open
                        /\ runtime'[r].joined => thread'[r].at = "exited"
                        /\ r > n => runtime'[r] = Closed /\ thread'[r].at = "idle"
      BY <2>1 DEF WorkersInv, At
    <3>1. CASE r = n
      BY <2>2, <2>3, <2>10, <2>11, <2>12, <3>1
    <3>2. CASE r # n
      <4>1. thread'[r] = thread[r] /\ runtime'[r] = runtime[r] /\ (r > n => r > opened)
        BY <2>5, <2>12, <3>2, Threads
      <4> QED BY <4>1 DEF Inv, WorkersInv, At
    <3> QED BY <3>1, <3>2
  <2>16. OwnerInv(o)'
    <3>1. \A t \in Thread \ {o} : thread'[t].at \notin ClosePlace \cup {"close require"}
      BY <2>11, <2>12 DEF Inv, OwnerInv, ClosePlace
    <3>2. thread'[o].at = "idle"
      BY <1>1, <1>2, <2>7, <2>12
    <3> QED BY <3>1, <3>2 DEF OwnerInv, ClosePlace
  <2>17. OneIncarnation'
    <3> SUFFICES ASSUME NEW r \in 1 .. n, r # n
                 PROVE  ~runtime'[r].open /\ thread'[r].at = "exited" /\ runtime'[r].queue = <<>>
      BY <2>1 DEF OneIncarnation, At
    <3>1. r \in 1 .. opened /\ r \in Runtime /\ r # channel
      BY <2>1, <2>3, <2>4, Threads
    <3>2. ~runtime[r].open /\ thread[r].at = "exited" /\ runtime[r].queue = <<>>
      BY <3>1 DEF Inv, OneIncarnation, At
    <3> QED BY <2>12, <3>1, <3>2, Threads
  <2> QED BY <2>14, <2>15, <2>16, <2>17 DEF Inv
<1> QED BY <1>4, <1>5

LEMMA AnswerKeeps ==
  ASSUME NEW o \in Caller, Inv(o), Answer
  PROVE  Inv(o)'
<1>1. UNCHANGED <<channel, opened, runtime, thread, io, sequence, accepted, calledBack, calls>>
  BY DEF Answer
<1>2. asked \in Seq(Nat) /\ answers \in Seq(Nat) /\ asked # <<>>
  BY Typed DEF Inv, DataOK, Answer
<1>3. Head(asked) \in Nat /\ Tail(asked) \in Seq(Nat)
  BY <1>2, HeadTailProperties
<1>4. answers' \in Seq(Nat) /\ asked' \in Seq(Nat)
  BY <1>2, <1>3, AppendProperties DEF Answer
<1>5. TypeOK'
  BY <1>1, <1>4 DEF Inv, TypeOK
<1> QED BY <1>1, <1>5 DEF Inv, WorkersInv, OwnerInv, OneIncarnation, At

-----------------------------------------------------------------------------
(* The invariant holds in every behaviour.                                 *)

LEMMA InitHolds == ASSUME NEW o \in Caller, Init PROVE Inv(o)
<1> USE DEF Init
<1>1. Nobody = 0 /\ 0 \in 0 .. MaxRuntimes /\ 0 \in 0 .. MaxCalls /\ opened = 0
  BY Bounds DEF Nobody
<1>2. thread \in [Thread -> ThreadState] /\ \A t \in Thread : thread[t] = Idle
  BY IdleState
<1>3. Closed \in RuntimeState
  <2>1. <<>> \in Seq(Nat)
    OBVIOUS
  <2> QED BY <2>1 DEF Closed, RuntimeState
<1>4. runtime \in [Runtime -> RuntimeState] /\ \A r \in Runtime : runtime[r] = Closed
  BY <1>3
<1>5. asked \in Seq(Nat) /\ answers \in Seq(Nat) /\ accepted \in Seq(Runtime) /\ calledBack \in Seq(Nat)
  BY EmptySeq
<1>6. TypeOK
  <2>1. \A t \in Thread : thread[t].at \notin Found
    BY <1>2, IdleState
  <2>2. io = Nobody /\ channel = 0 /\ sequence = 1 /\ calls = 0
    BY <1>1
  <2> QED BY <1>1, <1>2, <1>4, <1>5, <2>1, <2>2 DEF TypeOK, ThreadState, RuntimeState
<1>7. WorkersInv
  BY <1>2, <1>4, Threads DEF WorkersInv, Closed, Idle, At
<1>8. OwnerInv(o)
  BY <1>2, Threads DEF OwnerInv, ClosePlace, Idle
<1>9. OneIncarnation
  BY <1>1 DEF OneIncarnation
<1> QED BY <1>6, <1>7, <1>8, <1>9 DEF Inv

LEMMA NextKeeps ==
  ASSUME NEW o, Owners = {o}, Inv(o), [Next]_vars
  PROVE  Inv(o)'
<1>1. o \in Caller
  BY DEF Caller
<1>2. CASE UNCHANGED vars
  <2>1. UNCHANGED <<channel, opened, runtime, thread, io, asked, answers, sequence, accepted,
                    calledBack, calls>>
    BY <1>2 DEF vars, link
  <2> QED BY <2>1 DEF Inv, TypeOK, WorkersInv, OwnerInv, OneIncarnation, At
<1>3. CASE \E t \in Owners : OpenChannel(t) \/ CloseChannel(t)
  BY <1>1, <1>3, OpenKeeps, BeginsKeep
<1>4. CASE \E t \in Senders : SendSync(t) \/ SendAsync(t) \/ DrainAsync(t)
  <2>1. PICK t \in Caller : SendSync(t) \/ SendAsync(t) \/ DrainAsync(t)
    BY <1>4 DEF Caller
  <2> QED BY <1>1, <2>1, BeginsKeep
<1>5. ASSUME NEW t \in Caller, CallStep(t) PROVE Inv(o)'
  <2>1. CASE SyncStep(t)
    BY <1>1, <2>1, SyncKeeps, Threads
  <2>2. CASE \/ AsyncRequire(t) \/ DrainRequire(t) \/ DrainReturn(t)
             \/ CloseRequire(t) \/ CloseDrainRequire(t) \/ CloseDrain(t)
    BY <1>1, <2>2, WaitsKeep
  <2>3. CASE AsyncPush(t)
    BY <1>1, <2>3, PushKeeps
  <2>4. CASE CloseStop(t) \/ CloseJoin(t)
    BY <1>1, <2>4, StopKeeps
  <2>5. CASE CloseErase(t)
    BY <1>1, <2>5, EraseKeeps
  <2> QED BY <1>5, <2>1, <2>2, <2>3, <2>4, <2>5 DEF CallStep
<1>6. ASSUME NEW r \in Runtime, WorkerStep(r) PROVE Inv(o)'
  <2>1. CASE SyncStep(r)
    BY <1>1, <2>1, SyncKeeps, Threads
  <2>2. CASE WorkerTake(r) \/ WorkerExit(r) \/ WorkerCallback(r) \/ WorkerFinish(r)
    BY <1>1, <2>2, WorkerKeeps
  <2> QED BY <1>6, <2>1, <2>2 DEF WorkerStep
<1>7. CASE Answer
  BY <1>1, <1>7, AnswerKeeps
<1> QED BY <1>2, <1>3, <1>4, <1>5, <1>6, <1>7 DEF Next

(* Whatever its senders do meanwhile, a channel that one owner opens and   *)
(* closes has no worker, no queue and no open flag but those of the        *)
(* incarnation its id leads to (openChannel, closeChannel, channelWorker). *)
THEOREM ChannelOpenOnce ==
  ASSUME NEW o, Owners = {o}
  PROVE  Spec => []OneIncarnation
<1>1. Init => Inv(o)
  BY InitHolds DEF Caller
<1>2. Inv(o) /\ [Next]_vars => Inv(o)'
  BY NextKeeps
<1>3. Inv(o) => OneIncarnation
  BY DEF Inv
<1> QED BY <1>1, <1>2, <1>3, PTL DEF Spec

-----------------------------------------------------------------------------
(* What drainAsync waits for.                                              *)

(* A request that was accepted waits, is in the hands of the worker, which *)
(* then says that it is at work, or was called back.                       *)
CalledBack(n) == \E i \in 1 .. Len(calledBack) : calledBack[i] = n
Waits(r, n) == \E i \in 1 .. Len(runtime[r].queue) : runtime[r].queue[i] = n

DrainOf(r) ==
  /\ thread[r].request # Nobody => runtime[r].active /\ thread[r].at \in SyncPlace \cup {"callback"}
  /\ \A n \in 1 .. Len(accepted) : accepted[n] = r =>
       Waits(r, n) \/ thread[r].request = n \/ CalledBack(n)

DrainInv == \A r \in Runtime : DrainOf(r)

(* The worker and the runtime keep what they hold.                         *)
LEMMA SameDrain ==
  ASSUME NEW r, DrainOf(r), accepted' = accepted,
         \A n : CalledBack(n) => CalledBack(n)',
         thread'[r].request = thread[r].request,
         thread[r].request # Nobody => thread'[r].at \in SyncPlace \cup {"callback"},
         runtime'[r].active = runtime[r].active,
         runtime'[r].queue = runtime[r].queue
  PROVE  DrainOf(r)'
BY DEF DrainOf, Waits

LEMMA QuietDrain ==
  ASSUME DrainInv, accepted' = accepted, calledBack' = calledBack,
         \A r \in Runtime : /\ thread'[r] = thread[r]
                            /\ runtime'[r].active = runtime[r].active
                            /\ runtime'[r].queue = runtime[r].queue
  PROVE  DrainInv'
<1> SUFFICES ASSUME NEW r \in Runtime PROVE DrainOf(r)'
  BY DEF DrainInv
<1>1. DrainOf(r) /\ \A n : CalledBack(n) => CalledBack(n)'
  BY DEF DrainInv, CalledBack
<1>2. thread[r].request # Nobody => thread'[r].at \in SyncPlace \cup {"callback"}
  BY <1>1 DEF DrainOf
<1> QED BY <1>1, <1>2, SameDrain

(* No step of a caller but the push of a request touches what a worker     *)
(* holds: only closeChannel changes a runtime, and not its queue.          *)
Untouched ==
  /\ accepted' = accepted /\ calledBack' = calledBack
  /\ \A r \in Runtime : /\ thread'[r] = thread[r]
                         /\ runtime'[r].active = runtime[r].active
                         /\ runtime'[r].queue = runtime[r].queue

LEMMA CloseTouches ==
  ASSUME TypeOK, NEW t \in Caller, CloseStop(t) \/ CloseJoin(t)
  PROVE  Untouched
<1> DEFINE k == thread[t].runtime
<1>1. t \in Thread /\ t \notin Runtime
  BY Threads
<1>2. thread \in [Thread -> ThreadState] /\ runtime \in [Runtime -> RuntimeState]
  BY Typed
<1>3. k \in 1 .. opened
  BY <1>1 DEF CloseStop, CloseJoin, At, TypeOK, Found
<1>4. k \in Runtime
  BY <1>3, Typed, Opened
<1>5. accepted' = accepted /\ calledBack' = calledBack
  BY DEF CloseStop, CloseJoin
<1>6. \A r \in Runtime : thread'[r] = thread[r]
  BY <1>1, <1>2, Threads DEF CloseStop, CloseJoin, Goto
<1>7. PICK q : /\ runtime' = [runtime EXCEPT ![k] = q]
               /\ q.active = runtime[k].active /\ q.queue = runtime[k].queue
  <2>1. runtime[k] \in RuntimeState
    BY <1>2, <1>4
  <2>2. CASE CloseStop(t)
    <3> DEFINE q == [runtime[k] EXCEPT !.open = FALSE, !.stopping = TRUE]
    <3>1. q.active = runtime[k].active /\ q.queue = runtime[k].queue
      BY <2>1 DEF RuntimeState
    <3>2. runtime' = [runtime EXCEPT ![k] = q]
      BY <2>2 DEF CloseStop
    <3> QED BY <3>1, <3>2
  <2>3. CASE CloseJoin(t)
    <3> DEFINE q == [runtime[k] EXCEPT !.joined = TRUE]
    <3>1. q.active = runtime[k].active /\ q.queue = runtime[k].queue
      BY <2>1 DEF RuntimeState
    <3>2. runtime' = [runtime EXCEPT ![k] = q]
      BY <2>3 DEF CloseJoin
    <3> QED BY <3>1, <3>2
  <2> QED BY <2>2, <2>3
<1> HIDE DEF k
<1>8. \A r \in Runtime : runtime'[r].active = runtime[r].active /\ runtime'[r].queue = runtime[r].queue
  BY <1>2, <1>4, <1>7
<1> QED BY <1>5, <1>6, <1>8 DEF Untouched

(* What was waiting still waits behind a request that is pushed.           *)
LEMMA PushWaits ==
  ASSUME NEW k, NEW m \in Nat, runtime[k].queue \in Seq(Nat),
         runtime'[k].queue = Append(runtime[k].queue, m)
  PROVE  /\ \A n : Waits(k, n) => Waits(k, n)'
         /\ Waits(k, m)'
<1> DEFINE q == runtime[k].queue
           p == runtime'[k].queue
<1>1. /\ Len(p) = Len(q) + 1 /\ Len(q) \in Nat
      /\ \A i \in 1 .. Len(q) : p[i] = q[i]
      /\ p[Len(q) + 1] = m
  BY AppendProperties
<1> HIDE DEF p, q
<1>2. Len(p) \in 1 .. Len(p) /\ p[Len(p)] = m /\ 1 .. Len(q) \subseteq 1 .. Len(p)
  BY <1>1
<1>3. Waits(k, m)'
  BY <1>2 DEF Waits, p
<1>4. ASSUME NEW n, Waits(k, n) PROVE Waits(k, n)'
  <2>1. PICK i \in 1 .. Len(q) : q[i] = n
    BY <1>4 DEF Waits, q
  <2>2. i \in 1 .. Len(p) /\ p[i] = n
    BY <1>1, <1>2, <2>1
  <2> QED BY <2>2 DEF Waits, p
<1> QED BY <1>3, <1>4

LEMMA PushDrains ==
  ASSUME TypeOK, DrainInv, NEW t \in Caller, AsyncPush(t)
  PROVE  DrainInv'
<1>a. PICK k : k = thread[t].runtime
  OBVIOUS
<1>b. PICK m : m = Len(accepted) + 1
  OBVIOUS
<1>1. t \in Thread /\ t \notin Runtime
  BY Threads
<1>2. thread \in [Thread -> ThreadState] /\ runtime \in [Runtime -> RuntimeState]
  BY Typed
<1>3. \A r \in Runtime : thread'[r] = thread[r]
  BY <1>1, <1>2, Threads DEF AsyncPush, Return
<1>4. calledBack' = calledBack
  BY DEF AsyncPush
<1>5. CASE UNCHANGED <<accepted, runtime>>
  BY <1>3, <1>4, <1>5, QuietDrain
<1>6. CASE ~(UNCHANGED <<accepted, runtime>>)
  <2>1. accepted' = Append(accepted, k) /\ runtime' = [runtime EXCEPT ![k].queue = Append(@, m)]
    BY <1>a, <1>b, <1>6 DEF AsyncPush
  <2>2. k \in 1 .. opened
    BY <1>a, <1>1 DEF AsyncPush, At, TypeOK, Found
  <2>3. k \in Runtime
    BY <2>2, Typed, Opened
  <2>4. accepted \in Seq(Runtime) /\ Len(accepted) \in Nat /\ m \in Nat
    BY <1>b, Typed DEF DataOK
  <2>5. /\ Len(accepted') = m /\ accepted'[m] = k
        /\ \A n \in 1 .. Len(accepted) : accepted'[n] = accepted[n]
    BY <1>b, <2>1, <2>3, <2>4, AppendProperties
  <2>6. \A n \in 1 .. m : n = m \/ n \in 1 .. Len(accepted)
    BY <1>b, <2>4
  <2>7. runtime[k] \in RuntimeState /\ runtime[k].queue \in Seq(Nat)
    BY <1>2, <2>3 DEF RuntimeState
  <2>8. /\ runtime'[k].queue = Append(runtime[k].queue, m) /\ runtime'[k].active = runtime[k].active
        /\ \A r \in Runtime \ {k} : runtime'[r] = runtime[r]
    BY <1>2, <2>1, <2>3, <2>7 DEF RuntimeState
  <2>9. (\A n : Waits(k, n) => Waits(k, n)') /\ Waits(k, m)'
    BY <2>4, <2>7, <2>8, PushWaits
  <2> SUFFICES ASSUME NEW r \in Runtime PROVE DrainOf(r)'
    BY DEF DrainInv
  <2>10. DrainOf(r)
    BY DEF DrainInv
  <2>11. \A n : Waits(r, n) => Waits(r, n)'
    <3>1. CASE r = k
      BY <2>9, <3>1
    <3>2. CASE r # k
      <4>1. runtime'[r] = runtime[r]
        BY <2>8, <3>2
      <4> QED BY <4>1 DEF Waits
    <3> QED BY <3>1, <3>2
  <2>12. runtime'[r].active = runtime[r].active
    BY <2>8
  <2>13. \A n : CalledBack(n) => CalledBack(n)'
    BY <1>4 DEF CalledBack
  <2>14. ASSUME NEW n \in 1 .. Len(accepted'), accepted'[n] = r
         PROVE  Waits(r, n)' \/ thread'[r].request = n \/ CalledBack(n)'
    <3>1. CASE n = m
      BY <2>5, <2>9, <2>14, <3>1
    <3>2. CASE n # m
      <4>1. n \in 1 .. Len(accepted)
        BY <2>5, <2>6, <2>14, <3>2
      <4>2. accepted[n] = r
        BY <2>5, <2>14, <4>1
      <4>3. Waits(r, n) \/ thread[r].request = n \/ CalledBack(n)
        BY <2>10, <4>1, <4>2 DEF DrainOf
      <4> QED BY <1>3, <2>11, <2>13, <4>3
    <3> QED BY <3>1, <3>2
  <2>15. thread'[r].request # Nobody => runtime'[r].active /\ thread'[r].at \in SyncPlace \cup {"callback"}
    BY <1>3, <2>10, <2>12 DEF DrainOf
  <2> QED BY <2>14, <2>15 DEF DrainOf
<1> QED BY <1>5, <1>6

LEMMA CallersTouch ==
  ASSUME TypeOK, NEW t \in Caller, ~AsyncPush(t),
         CallStep(t) \/ SendSync(t) \/ SendAsync(t) \/ DrainAsync(t) \/ CloseChannel(t)
  PROVE  Untouched
<1>1. t \in Thread /\ t \notin Runtime
  BY Threads
<1>2. thread \in [Thread -> ThreadState]
  BY Typed
<1>3. \A s : thread' = [thread EXCEPT ![t] = s] => \A r \in Runtime : thread'[r] = thread[r]
  BY <1>1, <1>2, Threads
<1>4. UNCHANGED <<runtime, accepted, calledBack>> /\ (\A r \in Runtime : thread'[r] = thread[r])
      => Untouched
  BY DEF Untouched
<1>5. CASE SyncStep(t)
  <2>1. runtime' = runtime /\ \E s : Steps(t, s)
    BY <1>1, <1>5, SyncSteps
  <2>2. UNCHANGED <<accepted, calledBack>>
    BY <1>5 DEF SyncStep, SendRequire, SendCheck, SendLock, SendPacket, RecordTxRequire, RecordTx,
                ReceiveOwnAnswer, ReceiveOtherAnswer, ReceiveTimeout, RecordRxRequire, RecordRx, Require
  <2> QED BY <1>3, <1>4, <2>1, <2>2 DEF Steps
<1>6. CASE SendSync(t) \/ SendAsync(t) \/ DrainAsync(t) \/ CloseChannel(t)
  <2>1. UNCHANGED <<runtime, accepted, calledBack>>
    BY <1>6 DEF SendSync, SendAsync, DrainAsync, CloseChannel
  <2>2. \E s : thread' = [thread EXCEPT ![t] = s]
    BY <1>6 DEF SendSync, SendAsync, DrainAsync, CloseChannel, Begin
  <2> QED BY <1>3, <1>4, <2>1, <2>2
<1>7. CASE AsyncRequire(t) \/ DrainRequire(t) \/ CloseRequire(t)
  <2>1. UNCHANGED <<runtime, accepted, calledBack>>
    BY <1>7 DEF AsyncRequire, DrainRequire, CloseRequire, Require
  <2>2. \A r \in Runtime : thread'[r] = thread[r]
    BY <1>1, <1>2, <1>7, Threads DEF AsyncRequire, DrainRequire, CloseRequire, Require, Return
  <2> QED BY <1>4, <2>1, <2>2
<1>8. CASE DrainReturn(t) \/ CloseDrainRequire(t) \/ CloseDrain(t) \/ CloseErase(t)
  <2>1. UNCHANGED <<runtime, accepted, calledBack>>
    BY <1>8 DEF DrainReturn, CloseDrainRequire, CloseDrain, CloseErase
  <2>2. \A r \in Runtime : thread'[r] = thread[r]
    BY <1>1, <1>2, <1>8, Threads DEF DrainReturn, CloseDrainRequire, CloseDrain, CloseErase, Goto, Return
  <2> QED BY <1>4, <2>1, <2>2
<1>9. CASE CloseStop(t) \/ CloseJoin(t)
  BY <1>9, CloseTouches
<1> QED BY <1>5, <1>6, <1>7, <1>8, <1>9 DEF CallStep

LEMMA CallersDrain ==
  ASSUME TypeOK, DrainInv, NEW t \in Caller,
         CallStep(t) \/ SendSync(t) \/ SendAsync(t) \/ DrainAsync(t) \/ CloseChannel(t)
  PROVE  DrainInv'
<1>1. CASE AsyncPush(t)
  BY <1>1, PushDrains
<1>2. CASE ~AsyncPush(t)
  BY <1>2, CallersTouch, QuietDrain DEF Untouched
<1> QED BY <1>1, <1>2

(* A worker keeps its request until the callback.                          *)
LEMMA WorkerSync ==
  ASSUME TypeOK, NEW r \in Runtime, SyncStep(r)
  PROVE  thread'[r].request = thread[r].request /\ thread'[r].at \in SyncPlace \cup {"callback"}
<1> DEFINE Out == thread'[r].request = thread[r].request /\ thread'[r].at \in SyncPlace \cup {"callback"}
<1>1. r \in Thread /\ thread \in [Thread -> ThreadState] /\ thread[r] \in ThreadState
  BY Threads, Typed
<1>2. ASSUME NEW place \in SyncPlace \cup {"callback"}, Goto(r, place) PROVE Out
  BY <1>1, <1>2 DEF Goto, ThreadState
<1>3. SyncReturns(r) => Out
  BY <1>2 DEF SyncReturns
<1>4. ASSUME NEW place \in SyncPlace, Require(r, place, SyncReturns(r)) PROVE Out
  <2>1. CASE thread' = [thread EXCEPT ![r].at = place, ![r].runtime = channel]
    BY <1>1, <2>1 DEF ThreadState
  <2> QED BY <1>3, <1>4, <2>1 DEF Require
<1>5. thread' = [thread EXCEPT ![r].at = "lock", ![r].seq = sequence] => Out
  BY <1>1 DEF ThreadState, SyncPlace
<1> HIDE DEF Out
<1> USE DEF SyncPlace
<1>6. CASE SendRequire(r)
  BY <1>4, <1>6 DEF SendRequire, Out
<1>7. CASE SendCheck(r)
  BY <1>3, <1>5, <1>7 DEF SendCheck, Out
<1>8. CASE SendLock(r)
  BY <1>2, <1>8 DEF SendLock, Out
<1>9. CASE SendPacket(r)
  BY <1>2, <1>3, <1>9 DEF SendPacket, Out
<1>10. CASE RecordTxRequire(r)
  BY <1>4, <1>10 DEF RecordTxRequire, Out
<1>11. CASE RecordTx(r)
  BY <1>2, <1>3, <1>11 DEF RecordTx, GiveUp, Out
<1>12. CASE ReceiveOwnAnswer(r)
  BY <1>2, <1>12 DEF ReceiveOwnAnswer, Out
<1>13. CASE ReceiveOtherAnswer(r)
  BY <1>3, <1>13 DEF ReceiveOtherAnswer, Out
<1>14. CASE ReceiveTimeout(r)
  BY <1>3, <1>14 DEF ReceiveTimeout, GiveUp, Out
<1>15. CASE RecordRxRequire(r)
  BY <1>4, <1>15 DEF RecordRxRequire, Out
<1>16. CASE RecordRx(r)
  BY <1>3, <1>16 DEF RecordRx, GiveUp, Out
<1> QED BY <1>6, <1>7, <1>8, <1>9, <1>10, <1>11, <1>12, <1>13, <1>14, <1>15, <1>16 DEF SyncStep, Out

(* A worker disturbs no other runtime.                                     *)
LEMMA OneDrains ==
  ASSUME TypeOK, DrainInv, NEW k \in Runtime, NEW s, thread' = [thread EXCEPT ![k] = s],
         \A r \in Runtime \ {k} : runtime'[r] = runtime[r],
         accepted' = accepted, \A n : CalledBack(n) => CalledBack(n)', DrainOf(k)'
  PROVE  DrainInv'
<1> SUFFICES ASSUME NEW r \in Runtime, r # k PROVE DrainOf(r)'
  BY DEF DrainInv
<1>1. DrainOf(r) /\ thread'[r] = thread[r] /\ runtime'[r] = runtime[r]
  BY Threads, Typed DEF DrainInv
<1>2. thread[r].request # Nobody => thread'[r].at \in SyncPlace \cup {"callback"}
  BY <1>1 DEF DrainOf
<1> QED BY <1>1, <1>2, SameDrain

(* The request that is taken off the queue is in the worker's hands.       *)
LEMMA TakeDrains ==
  ASSUME TypeOK, DrainInv, NEW r \in Runtime, WorkerTake(r)
  PROVE  DrainInv'
<1> DEFINE q == runtime[r].queue
           d == [runtime[r] EXCEPT !.queue = Tail(q), !.active = TRUE]
           s == [thread[r] EXCEPT !.at = "require", !.request = Head(q)]
<1>1. thread[r] \in ThreadState /\ runtime[r] \in RuntimeState /\ q \in Seq(Nat)
      /\ runtime \in [Runtime -> RuntimeState] /\ thread \in [Thread -> ThreadState] /\ r \in Thread
  BY Typed, Threads DEF RuntimeState
<1>2. /\ thread[r].at = "wait" /\ q # <<>> /\ accepted' = accepted /\ calledBack' = calledBack
      /\ runtime' = [runtime EXCEPT ![r] = d] /\ thread' = [thread EXCEPT ![r] = s]
  BY DEF WorkerTake, At
<1>3. d.queue = Tail(q) /\ d.active = TRUE
  BY <1>1 DEF RuntimeState
<1>4. s.at = "require" /\ s.request = Head(q)
  BY <1>1 DEF ThreadState
<1>5. /\ Len(q) \in Nat /\ Len(Tail(q)) = Len(q) - 1 /\ Head(q) = q[1]
      /\ \A i \in 1 .. Len(Tail(q)) : Tail(q)[i] = q[i + 1]
  BY <1>1, <1>2, HeadTailProperties
<1> HIDE DEF q, d, s
<1>6. runtime'[r] = d /\ thread'[r] = s /\ \A k \in Runtime \ {r} : runtime'[k] = runtime[k]
  BY <1>1, <1>2
<1>7. ASSUME NEW n, Waits(r, n) PROVE Waits(r, n)' \/ n = Head(q)
  <2>1. PICK i \in 1 .. Len(q) : q[i] = n
    BY <1>7 DEF Waits, q
  <2>2. CASE i = 1
    BY <1>5, <2>1, <2>2
  <2>3. CASE i # 1
    <3>1. i - 1 \in 1 .. Len(Tail(q)) /\ (i - 1) + 1 = i
      BY <1>5, <2>1, <2>3
    <3>2. Tail(q)[i - 1] = n
      BY <1>5, <2>1, <3>1
    <3> QED BY <1>3, <1>6, <3>1, <3>2 DEF Waits
  <2> QED BY <2>2, <2>3
<1>8. DrainOf(r)
  BY DEF DrainInv
<1>9. thread[r].request = Nobody
  BY <1>2, <1>8 DEF DrainOf, SyncPlace
<1>10. \A n : CalledBack(n) => CalledBack(n)'
  BY <1>2 DEF CalledBack
<1>11. DrainOf(r)'
  <2>1. runtime'[r].active /\ thread'[r].at \in SyncPlace
    BY <1>3, <1>4, <1>6 DEF SyncPlace
  <2>2. ASSUME NEW n \in 1 .. Len(accepted'), accepted'[n] = r
        PROVE  Waits(r, n)' \/ thread'[r].request = n \/ CalledBack(n)'
    <3>1. n \in 1 .. Len(accepted) /\ n # Nobody
      BY <1>2, <2>2 DEF Nobody
    <3>2. Waits(r, n) \/ CalledBack(n)
      BY <1>2, <1>8, <1>9, <2>2, <3>1 DEF DrainOf
    <3> QED BY <1>4, <1>6, <1>7, <1>10, <3>2
  <2> QED BY <2>1, <2>2 DEF DrainOf
<1> QED BY <1>2, <1>6, <1>10, <1>11, OneDrains

LEMMA CallbackDrains ==
  ASSUME TypeOK, DrainInv, NEW r \in Runtime, WorkerCallback(r)
  PROVE  DrainInv'
<1>a. PICK q : q = thread[r].request
  OBVIOUS
<1> DEFINE s == [thread[r] EXCEPT !.at = "finish", !.request = Nobody]
<1>1. thread[r] \in ThreadState /\ thread \in [Thread -> ThreadState] /\ r \in Thread
      /\ calledBack \in Seq(Nat) /\ q \in Nat
  BY <1>a, Typed, Threads DEF ThreadState, DataOK
<1>2. /\ accepted' = accepted /\ calledBack' = Append(calledBack, q)
      /\ runtime' = runtime /\ thread' = [thread EXCEPT ![r] = s]
  BY <1>a DEF WorkerCallback
<1>3. s.request = Nobody
  BY <1>1 DEF ThreadState
<1>4. /\ Len(calledBack') = Len(calledBack) + 1 /\ Len(calledBack) \in Nat
      /\ \A i \in 1 .. Len(calledBack) : calledBack'[i] = calledBack[i]
      /\ calledBack'[Len(calledBack) + 1] = q
  BY <1>1, <1>2, AppendProperties
<1> HIDE DEF s
<1>5. /\ Len(calledBack') \in 1 .. Len(calledBack')
      /\ calledBack'[Len(calledBack')] = q
      /\ 1 .. Len(calledBack) \subseteq 1 .. Len(calledBack')
  BY <1>4
<1>6. CalledBack(q)'
  BY <1>5 DEF CalledBack
<1>7. ASSUME NEW n, CalledBack(n) PROVE CalledBack(n)'
  <2>1. PICK i \in 1 .. Len(calledBack) : calledBack[i] = n
    BY <1>7 DEF CalledBack
  <2>2. i \in 1 .. Len(calledBack') /\ calledBack'[i] = n
    BY <1>4, <1>5, <2>1
  <2> QED BY <2>2 DEF CalledBack
<1>8. thread'[r] = s
  BY <1>1, <1>2
<1>9. DrainOf(r)'
  <2>1. DrainOf(r)
    BY DEF DrainInv
  <2>2. ASSUME NEW n \in 1 .. Len(accepted'), accepted'[n] = r
        PROVE  Waits(r, n)' \/ CalledBack(n)'
    <3>1. Waits(r, n) \/ n = q \/ CalledBack(n)
      BY <1>a, <1>2, <2>1, <2>2 DEF DrainOf
    <3>2. Waits(r, n) => Waits(r, n)'
      BY <1>2 DEF Waits
    <3> QED BY <1>6, <1>7, <3>1, <3>2
  <2> QED BY <1>3, <1>8, <2>2 DEF DrainOf
<1> QED BY <1>2, <1>7, <1>9, OneDrains

(* The worker says that it is at rest when it has no request.              *)
LEMMA RestDrains ==
  ASSUME TypeOK, DrainInv, NEW r \in Runtime, WorkerExit(r) \/ WorkerFinish(r)
  PROVE  DrainInv'
<1>1. thread[r] \in ThreadState /\ thread \in [Thread -> ThreadState] /\ r \in Thread
      /\ runtime[r] \in RuntimeState /\ runtime \in [Runtime -> RuntimeState]
  BY Typed, Threads
<1>2. DrainOf(r) /\ accepted' = accepted /\ calledBack' = calledBack
      /\ \A n : CalledBack(n) => CalledBack(n)'
  BY DEF DrainInv, WorkerExit, WorkerFinish, CalledBack
<1>3. thread[r].request = Nobody
  BY <1>2 DEF WorkerExit, WorkerFinish, At, DrainOf, SyncPlace
<1>4. PICK s : thread' = [thread EXCEPT ![r] = s] /\ s.request = Nobody
  <2>1. CASE WorkerExit(r)
    <3> DEFINE s == [thread[r] EXCEPT !.at = "exited"]
    <3>1. s.request = Nobody
      BY <1>1, <1>3 DEF ThreadState
    <3>2. thread' = [thread EXCEPT ![r] = s]
      BY <2>1 DEF WorkerExit, Goto
    <3> QED BY <3>1, <3>2
  <2>2. CASE WorkerFinish(r)
    <3> DEFINE s == [Idle EXCEPT !.at = "wait"]
    <3>1. s.request = Nobody
      BY DEF Idle
    <3>2. thread' = [thread EXCEPT ![r] = s]
      BY <2>2 DEF WorkerFinish
    <3> QED BY <3>1, <3>2
  <2> QED BY <2>1, <2>2
<1>5. thread'[r] = s
  BY <1>1, <1>4
<1>6. /\ \A k \in Runtime \ {r} : runtime'[k] = runtime[k]
      /\ runtime'[r].queue = runtime[r].queue
  <2>1. CASE WorkerExit(r)
    BY <2>1 DEF WorkerExit
  <2>2. CASE WorkerFinish(r)
    <3> DEFINE d == [runtime[r] EXCEPT !.active = FALSE]
    <3>1. runtime' = [runtime EXCEPT ![r] = d]
      BY <2>2 DEF WorkerFinish
    <3>2. d.queue = runtime[r].queue
      BY <1>1 DEF RuntimeState
    <3> HIDE DEF d
    <3> QED BY <1>1, <3>1, <3>2
  <2> QED BY <2>1, <2>2
<1>7. DrainOf(r)'
  <2>1. ASSUME NEW n \in 1 .. Len(accepted'), accepted'[n] = r
        PROVE  Waits(r, n)' \/ CalledBack(n)'
    <3>1. n \in 1 .. Len(accepted) /\ n # Nobody
      BY <1>2, <2>1 DEF Nobody
    <3>2. Waits(r, n) \/ CalledBack(n)
      BY <1>2, <1>3, <2>1, <3>1 DEF DrainOf
    <3>3. Waits(r, n) => Waits(r, n)'
      BY <1>6 DEF Waits
    <3> QED BY <1>2, <3>2, <3>3
  <2> QED BY <1>4, <1>5, <2>1 DEF DrainOf
<1> QED BY <1>2, <1>4, <1>6, <1>7, OneDrains

LEMMA WorkersDrain ==
  ASSUME TypeOK, DrainInv, NEW r \in Runtime, WorkerStep(r)
  PROVE  DrainInv'
<1>1. CASE SyncStep(r)
  <2>1. runtime' = runtime /\ \E s : Steps(r, s)
    BY <1>1, SyncSteps, Threads
  <2>2. UNCHANGED <<accepted, calledBack>>
    BY <1>1 DEF SyncStep, SendRequire, SendCheck, SendLock, SendPacket, RecordTxRequire, RecordTx,
                ReceiveOwnAnswer, ReceiveOtherAnswer, ReceiveTimeout, RecordRxRequire, RecordRx, Require
  <2>3. \A n : CalledBack(n) => CalledBack(n)'
    BY <2>2 DEF CalledBack
  <2>4. PICK s : thread' = [thread EXCEPT ![r] = s]
    BY <2>1 DEF Steps
  <2>5. DrainOf(r)
    BY DEF DrainInv
  <2>6. DrainOf(r)'
    BY <1>1, <2>1, <2>2, <2>3, <2>5, SameDrain, WorkerSync
  <2> QED BY <2>1, <2>2, <2>3, <2>4, <2>6, OneDrains
<1> QED BY <1>1, TakeDrains, CallbackDrains, RestDrains DEF WorkerStep

(* The runtime that is opened has neither a request nor one accepted.      *)
LEMMA OpenDrains ==
  ASSUME TypeOK, WorkersInv, DrainInv, NEW t \in Owners, OpenChannel(t)
  PROVE  DrainInv'
<1>a. PICK n : n = opened + 1
  OBVIOUS
<1> DEFINE q == [runtime[n] EXCEPT !.open = TRUE]
           s == [thread[n] EXCEPT !.at = "wait"]
<1>1. accepted' = accepted /\ calledBack' = calledBack /\ \A i : CalledBack(i) => CalledBack(i)'
  BY DEF OpenChannel, CalledBack
<1>2. CASE UNCHANGED <<runtime, thread>>
  BY <1>1, <1>2, QuietDrain
<1>3. CASE ~(UNCHANGED <<runtime, thread>>)
  <2>1. opened < MaxRuntimes /\ runtime' = [runtime EXCEPT ![n] = q] /\ thread' = [thread EXCEPT ![n] = s]
    BY <1>a, <1>3 DEF OpenChannel
  <2>2. n \in Nat /\ n > opened /\ n <= MaxRuntimes /\ n \in 1 .. n
    BY <1>a, <2>1, Typed, Bounds
  <2>3. n \in Runtime
    BY <2>2, Opened
  <2>4. runtime[n] = Closed /\ thread[n].at = "idle"
    BY <2>2, <2>3 DEF WorkersInv, At
  <2>5. n \in Thread /\ thread \in [Thread -> ThreadState] /\ runtime \in [Runtime -> RuntimeState]
    BY <2>3, Typed, Threads
  <2>6. runtime[n] \in RuntimeState /\ thread[n] \in ThreadState
    BY <2>3, <2>5
  <2>7. q.queue = runtime[n].queue /\ q.active = runtime[n].active /\ s.request = thread[n].request
    BY <2>6 DEF RuntimeState, ThreadState
  <2> HIDE DEF q, s
  <2>8. /\ runtime'[n] = q /\ thread'[n] = s
        /\ \A r \in Runtime \ {n} : runtime'[r] = runtime[r]
    BY <2>1, <2>3, <2>5
  <2>9. DrainOf(n)
    BY <2>3 DEF DrainInv
  <2>10. thread[n].request = Nobody
    BY <2>4, <2>9 DEF DrainOf, SyncPlace
  <2>11. DrainOf(n)'
    BY <1>1, <2>7, <2>8, <2>9, <2>10, SameDrain
  <2> QED BY <1>1, <2>1, <2>3, <2>8, <2>11, OneDrains
<1> QED BY <1>2, <1>3

LEMMA DrainStarts == Init => DrainInv
<1> SUFFICES ASSUME Init, NEW r \in Runtime PROVE DrainOf(r)
  BY DEF DrainInv
<1>1. thread[r] = Idle
  BY Threads DEF Init
<1>2. Len(accepted) = 0
  BY DEF Init
<1> QED BY <1>1, <1>2 DEF DrainOf, Idle

LEMMA DrainKeeps ==
  ASSUME NEW o \in Caller, Owners = {o}, Inv(o), DrainInv, [Next]_vars
  PROVE  DrainInv'
<1>1. TypeOK /\ WorkersInv
  BY DEF Inv
<1>2. CASE UNCHANGED vars \/ Answer
  BY <1>2, QuietDrain DEF vars, Answer
<1>3. CASE \E t \in Owners : OpenChannel(t) \/ CloseChannel(t)
  BY <1>1, <1>3, OpenDrains, CallersDrain DEF Caller
<1>4. CASE \E t \in Senders : SendSync(t) \/ SendAsync(t) \/ DrainAsync(t)
  BY <1>1, <1>4, CallersDrain DEF Caller
<1>5. CASE \E t \in Caller : CallStep(t)
  BY <1>1, <1>5, CallersDrain
<1>6. CASE \E r \in Runtime : WorkerStep(r)
  BY <1>1, <1>6, WorkersDrain
<1> QED BY <1>2, <1>3, <1>4, <1>5, <1>6 DEF Next

(* Nothing is left in a runtime that is drained.                           *)
LEMMA NothingLeft ==
  ASSUME TypeOK, DrainInv, NEW r \in Runtime, Drained(r),
         NEW n \in 1 .. Len(accepted), accepted[n] = r
  PROVE  \E i \in 1 .. Len(calledBack) : calledBack[i] = n
<1>1. DrainOf(r) /\ n # Nobody
  BY DEF DrainInv, Nobody
<1>2. ~Waits(r, n)
  <2>1. runtime[r].queue = <<>>
    BY DEF Drained
  <2>2. Len(runtime[r].queue) = 0
    BY <2>1
  <2> QED BY <2>2 DEF Waits
<1>3. thread[r].request = Nobody
  BY <1>1 DEF DrainOf, Drained
<1> QED BY <1>1, <1>2, <1>3 DEF DrainOf, CalledBack

(* On a channel that one owner opens and closes, whoever waits in          *)
(* drainAsync, and closeChannel itself, goes on only when the callback of  *)
(* every request accepted so far has run, however many send meanwhile.     *)
THEOREM DrainsAreComplete ==
  ASSUME NEW o, Owners = {o}
  PROVE  Spec => DrainComplete
<1> DEFINE A == \A t \in Caller, r \in Runtime :
       \/ DrainReturn(t) /\ r = thread[t].runtime
       \/ CloseDrain(t) /\ r = thread[t].request
       => \A q \in 1 .. Len(accepted) :
            accepted[q] = r => \E i \in 1 .. Len(calledBack) : calledBack[i] = q
<1>1. Init => Inv(o) /\ DrainInv
  BY InitHolds, DrainStarts DEF Caller
<1>2. o \in Caller
  BY DEF Caller
<1>3. Inv(o) /\ DrainInv /\ [Next]_vars => Inv(o)' /\ DrainInv'
  BY <1>2, NextKeeps, DrainKeeps
<1>4. Inv(o) /\ DrainInv => A
  <2> SUFFICES ASSUME Inv(o), DrainInv, NEW t \in Caller, NEW r \in Runtime,
                      \/ DrainReturn(t) /\ r = thread[t].runtime
                      \/ CloseDrain(t) /\ r = thread[t].request,
                      NEW q \in 1 .. Len(accepted), accepted[q] = r
               PROVE  \E i \in 1 .. Len(calledBack) : calledBack[i] = q
    OBVIOUS
  <2>1. Drained(r)
    BY DEF DrainReturn, CloseDrain
  <2> QED BY <2>1, NothingLeft DEF Inv
<1> QED BY <1>1, <1>3, <1>4, PTL DEF Spec, DrainComplete

-----------------------------------------------------------------------------
(* The channel implements CallbackService.                                 *)

(* A worker at work has a request.                                         *)
HandsInv == \A r \in Runtime :
  /\ thread[r].at \in SyncPlace \cup {"callback"} => thread[r].request # Nobody
  /\ \A i \in 1 .. Len(runtime[r].queue) : runtime[r].queue[i] # Nobody

(* A step that neither accepts a request nor takes or calls one back.      *)
Calm ==
  /\ accepted' = accepted /\ calledBack' = calledBack
  /\ \A r \in Runtime :
       /\ thread'[r].request = thread[r].request
       /\ runtime'[r].queue = runtime[r].queue
       /\ thread'[r].at \in SyncPlace \cup {"callback"} =>
            thread[r].at \in SyncPlace \cup {"callback"}

LEMMA UntouchedCalm == Untouched => Calm
BY DEF Untouched, Calm

LEMMA OneCalm ==
  ASSUME TypeOK, NEW r \in Runtime, NEW s, thread' = [thread EXCEPT ![r] = s],
         NEW q, runtime' = [runtime EXCEPT ![r] = q],
         q.queue = runtime[r].queue, s.request = thread[r].request,
         s.at \in SyncPlace \cup {"callback"} => thread[r].at \in SyncPlace \cup {"callback"},
         accepted' = accepted, calledBack' = calledBack
  PROVE  Calm
<1>1. thread \in [Thread -> ThreadState] /\ runtime \in [Runtime -> RuntimeState] /\ r \in Thread
  BY Typed, Threads
<1>2. thread'[r] = s /\ runtime'[r] = q
  BY <1>1
<1>3. \A k \in Runtime : k # r => thread'[k] = thread[k] /\ runtime'[k] = runtime[k]
  BY <1>1, Threads
<1> QED BY <1>2, <1>3 DEF Calm

LEMMA OpenCalm ==
  ASSUME TypeOK, WorkersInv, NEW t \in Owners, OpenChannel(t)
  PROVE  Calm
<1>a. PICK n : n = opened + 1
  OBVIOUS
<1> DEFINE q == [runtime[n] EXCEPT !.open = TRUE]
           s == [thread[n] EXCEPT !.at = "wait"]
<1>1. accepted' = accepted /\ calledBack' = calledBack
  BY DEF OpenChannel
<1>2. CASE UNCHANGED <<runtime, thread>>
  BY <1>1, <1>2 DEF Calm
<1>3. CASE ~(UNCHANGED <<runtime, thread>>)
  <2>1. opened < MaxRuntimes /\ runtime' = [runtime EXCEPT ![n] = q] /\ thread' = [thread EXCEPT ![n] = s]
    BY <1>a, <1>3 DEF OpenChannel
  <2>2. n \in Runtime
    <3>1. n \in Nat /\ n <= MaxRuntimes /\ n \in 1 .. n
      BY <1>a, <2>1, Typed, Bounds
    <3> QED BY <3>1, Opened
  <2>3. runtime[n] \in RuntimeState /\ thread[n] \in ThreadState
    BY <2>2, Typed, Threads
  <2>4. q.queue = runtime[n].queue /\ s.request = thread[n].request /\ s.at = "wait"
    BY <2>3 DEF RuntimeState, ThreadState
  <2>5. s.at \notin SyncPlace \cup {"callback"}
    BY <2>4 DEF SyncPlace
  <2> HIDE DEF q, s
  <2> QED BY <1>1, <2>1, <2>2, <2>4, <2>5, OneCalm
<1> QED BY <1>2, <1>3

LEMMA WorkerCalm ==
  ASSUME TypeOK, DrainInv, NEW r \in Runtime, SyncStep(r) \/ WorkerExit(r) \/ WorkerFinish(r)
  PROVE  Calm
<1>1. /\ thread \in [Thread -> ThreadState] /\ thread[r] \in ThreadState
      /\ runtime \in [Runtime -> RuntimeState] /\ runtime[r] \in RuntimeState
  BY Typed, Threads
<1>2. CASE SyncStep(r)
  <2>1. runtime' = runtime /\ thread[r].at \in SyncPlace /\ \E s : Steps(r, s)
    BY <1>2, SyncSteps, Threads
  <2>2. UNCHANGED <<accepted, calledBack>>
    BY <1>2 DEF SyncStep, SendRequire, SendCheck, SendLock, SendPacket, RecordTxRequire, RecordTx,
                ReceiveOwnAnswer, ReceiveOtherAnswer, ReceiveTimeout, RecordRxRequire, RecordRx, Require
  <2>3. PICK s : thread' = [thread EXCEPT ![r] = s]
    BY <2>1 DEF Steps
  <2>4. thread'[r].request = thread[r].request
    BY <1>2, WorkerSync
  <2>5. \A k \in Runtime : k # r => thread'[k] = thread[k]
    BY <1>1, <2>3, Threads
  <2> QED BY <2>1, <2>2, <2>4, <2>5 DEF Calm
<1>3. CASE WorkerExit(r)
  <2> DEFINE s == [thread[r] EXCEPT !.at = "exited"]
  <2>1. s.request = thread[r].request /\ s.at = "exited"
    BY <1>1 DEF ThreadState
  <2>2. thread' = [thread EXCEPT ![r] = s] /\ runtime' = runtime
        /\ accepted' = accepted /\ calledBack' = calledBack
    BY <1>3 DEF WorkerExit, Goto
  <2>3. s.at \notin SyncPlace \cup {"callback"}
    BY <2>1 DEF SyncPlace
  <2>4. runtime' = [runtime EXCEPT ![r] = runtime[r]]
    BY <1>1, <2>2
  <2> HIDE DEF s
  <2> QED BY <2>1, <2>2, <2>3, <2>4, OneCalm
<1>4. CASE WorkerFinish(r)
  <2> DEFINE s == [Idle EXCEPT !.at = "wait"]
             q == [runtime[r] EXCEPT !.active = FALSE]
  <2>1. thread[r].at = "finish" /\ DrainOf(r)
    BY <1>4 DEF WorkerFinish, At, DrainInv
  <2>2. thread[r].request = Nobody
    BY <2>1 DEF DrainOf, SyncPlace
  <2>3. s.request = Nobody /\ s.at = "wait" /\ s.at \notin SyncPlace \cup {"callback"}
    BY DEF Idle, SyncPlace
  <2>4. q.queue = runtime[r].queue
    BY <1>1 DEF RuntimeState
  <2>5. /\ thread' = [thread EXCEPT ![r] = s] /\ runtime' = [runtime EXCEPT ![r] = q]
        /\ accepted' = accepted /\ calledBack' = calledBack
    BY <1>4 DEF WorkerFinish
  <2> HIDE DEF s, q
  <2> QED BY <2>2, <2>3, <2>4, <2>5, OneCalm
<1> QED BY <1>2, <1>3, <1>4

(* Apart from the three steps that move a request, all are calm, and only  *)
(* openChannel and closeChannel change what the channel's id leads to.     *)
LEMMA CalmSteps ==
  ASSUME TypeOK, WorkersInv, DrainInv, [Next]_vars
  PROVE  \/ Calm /\ \/ channel' = channel
                    \/ \E t \in Owners : OpenChannel(t)
                    \/ \E t \in Caller : CloseErase(t)
         \/ \E t \in Caller : AsyncPush(t)
         \/ \E r \in Runtime : WorkerTake(r) \/ WorkerCallback(r)
<1>1. CASE UNCHANGED vars \/ Answer
  BY <1>1 DEF vars, Answer, Calm
<1>2. CASE \E t \in Owners : OpenChannel(t)
  BY <1>2, OpenCalm
<1>3. ASSUME NEW t \in Caller, ~AsyncPush(t),
             CallStep(t) \/ SendSync(t) \/ SendAsync(t) \/ DrainAsync(t) \/ CloseChannel(t)
      PROVE  Calm /\ (channel' = channel \/ CloseErase(t))
  <2>1. Calm
    BY <1>3, CallersTouch, UntouchedCalm
  <2>2. SyncStep(t) => channel' = channel
    BY SyncSteps, Threads
  <2>3. channel' = channel \/ CloseErase(t)
    BY <1>3, <2>2 DEF CallStep, SendSync, SendAsync, DrainAsync, CloseChannel, AsyncRequire,
       DrainRequire, DrainReturn, CloseRequire, CloseDrainRequire, CloseDrain, CloseStop,
       CloseJoin, Require
  <2> QED BY <2>1, <2>3
<1>4. ASSUME NEW r \in Runtime, SyncStep(r) \/ WorkerExit(r) \/ WorkerFinish(r)
      PROVE  Calm /\ channel' = channel
  <2>1. channel' = channel
    BY <1>4, SyncSteps, Threads DEF WorkerExit, WorkerFinish
  <2> QED BY <1>4, <2>1, WorkerCalm
<1> QED BY <1>1, <1>2, <1>3, <1>4 DEF Next, WorkerStep, Caller

(* The request of a worker that is not at its end is the channel's.        *)
LEMMA AtWorkOnChannel ==
  ASSUME NEW o \in Caller, Inv(o), NEW r \in Runtime,
         thread[r].at \in {"wait", "callback"}
  PROVE  r = channel /\ channel # Nobody
<1>1. r <= opened
  BY Typed DEF Inv, WorkersInv, At, Runtime
<1>2. r \in 1 .. opened
  BY <1>1, Typed DEF Inv, Runtime
<1>3. r = channel
  BY <1>2 DEF Inv, OneIncarnation, At
<1> QED BY <1>2, <1>3 DEF Nobody

LEMMA HandsKeep ==
  ASSUME NEW o \in Caller, Inv(o), DrainInv, HandsInv, [Next]_vars
  PROVE  HandsInv'
<1>1. TypeOK /\ WorkersInv
  BY DEF Inv
<1>2. CASE Calm
  BY <1>2 DEF Calm, HandsInv
<1>3. ASSUME NEW t \in Caller, AsyncPush(t) PROVE HandsInv'
  <2> DEFINE k == thread[t].runtime
             m == Len(accepted) + 1
             q == [runtime[k] EXCEPT !.queue = Append(runtime[k].queue, m)]
  <2>1. t \in Thread /\ t \notin Runtime /\ thread \in [Thread -> ThreadState]
        /\ runtime \in [Runtime -> RuntimeState]
    BY <1>1, Threads, Typed
  <2>2. \A r \in Runtime : thread'[r] = thread[r]
    BY <1>3, <2>1, Threads DEF AsyncPush, Return
  <2>3. k \in Runtime
    <3>1. k \in 1 .. opened
      BY <1>1, <1>3, <2>1 DEF AsyncPush, At, TypeOK, Found
    <3> QED BY <1>1, <3>1, Typed, Opened
  <2>4. runtime' = runtime \/ runtime' = [runtime EXCEPT ![k] = q]
    BY <1>3 DEF AsyncPush
  <2>5. runtime[k] \in RuntimeState /\ runtime[k].queue \in Seq(Nat)
    BY <2>1, <2>3 DEF RuntimeState
  <2>6. m \in Nat /\ m # Nobody
    BY <1>1, Typed DEF DataOK, Nobody
  <2>7. q.queue = Append(runtime[k].queue, m)
    BY <2>5 DEF RuntimeState
  <2>8. \A i \in 1 .. Len(q.queue) : q.queue[i] # Nobody
    <3> HIDE DEF m, k
    <3>1. /\ Len(q.queue) = Len(runtime[k].queue) + 1 /\ Len(runtime[k].queue) \in Nat
          /\ \A i \in 1 .. Len(runtime[k].queue) : q.queue[i] = runtime[k].queue[i]
          /\ q.queue[Len(runtime[k].queue) + 1] = m
      BY <2>5, <2>6, <2>7, AppendProperties
    <3>2. \A i \in 1 .. Len(runtime[k].queue) : runtime[k].queue[i] # Nobody
      BY <2>3 DEF HandsInv
    <3> HIDE DEF q
    <3> QED BY <2>6, <3>1, <3>2
  <2> HIDE DEF q, k, m
  <2>9. \A r \in Runtime : runtime'[r] = runtime[r] \/ runtime'[r] = q
    BY <2>1, <2>3, <2>4
  <2> QED BY <2>2, <2>8, <2>9 DEF HandsInv
<1>4. ASSUME NEW r \in Runtime, WorkerTake(r) PROVE HandsInv'
  <2> DEFINE q == runtime[r].queue
             d == [runtime[r] EXCEPT !.queue = Tail(q), !.active = TRUE]
             s == [thread[r] EXCEPT !.at = "require", !.request = Head(q)]
  <2>1. thread[r] \in ThreadState /\ runtime[r] \in RuntimeState /\ q \in Seq(Nat)
        /\ runtime \in [Runtime -> RuntimeState] /\ thread \in [Thread -> ThreadState] /\ r \in Thread
    BY <1>1, Typed, Threads DEF RuntimeState
  <2>2. q # <<>> /\ runtime' = [runtime EXCEPT ![r] = d] /\ thread' = [thread EXCEPT ![r] = s]
    BY <1>4 DEF WorkerTake
  <2>3. d.queue = Tail(q) /\ s.request = Head(q)
    BY <2>1 DEF RuntimeState, ThreadState
  <2>4. /\ Len(q) \in Nat /\ Len(Tail(q)) = Len(q) - 1 /\ Head(q) = q[1] /\ 1 \in 1 .. Len(q)
        /\ \A i \in 1 .. Len(Tail(q)) : Tail(q)[i] = q[i + 1]
    BY <2>1, <2>2, HeadTailProperties
  <2>5. \A i \in 1 .. Len(q) : q[i] # Nobody
    BY DEF HandsInv
  <2> HIDE DEF q, d, s
  <2>6. \A i \in 1 .. Len(Tail(q)) : i + 1 \in 1 .. Len(q)
    BY <2>4
  <2>7. /\ thread'[r] = s /\ runtime'[r] = d
        /\ \A k \in Runtime \ {r} : thread'[k] = thread[k] /\ runtime'[k] = runtime[k]
    BY <2>1, <2>2, Threads
  <2>8. s.request # Nobody /\ \A i \in 1 .. Len(d.queue) : d.queue[i] # Nobody
    BY <2>3, <2>4, <2>5, <2>6
  <2> QED BY <2>7, <2>8 DEF HandsInv
<1>5. ASSUME NEW r \in Runtime, WorkerCallback(r) PROVE HandsInv'
  <2> DEFINE s == [thread[r] EXCEPT !.at = "finish", !.request = Nobody]
  <2>1. thread[r] \in ThreadState /\ thread \in [Thread -> ThreadState] /\ r \in Thread
    BY <1>1, Typed, Threads
  <2>2. thread' = [thread EXCEPT ![r] = s] /\ runtime' = runtime
    BY <1>5 DEF WorkerCallback
  <2>3. s.at = "finish"
    BY <2>1 DEF ThreadState
  <2>4. s.at \notin SyncPlace \cup {"callback"}
    BY <2>3 DEF SyncPlace
  <2> HIDE DEF s
  <2>5. thread'[r] = s /\ \A k \in Runtime \ {r} : thread'[k] = thread[k]
    BY <2>1, <2>2, Threads
  <2> QED BY <2>2, <2>4, <2>5 DEF HandsInv
<1> QED BY <1>1, <1>2, <1>3, <1>4, <1>5, CalmSteps

LEMMA HandsStart == Init => HandsInv
<1> SUFFICES ASSUME Init, NEW r \in Runtime
             PROVE  /\ thread[r].at \in SyncPlace \cup {"callback"} => thread[r].request # Nobody
                    /\ \A i \in 1 .. Len(runtime[r].queue) : runtime[r].queue[i] # Nobody
  BY DEF HandsInv
<1>1. thread[r] = Idle /\ runtime[r] = Closed
  BY Threads DEF Init
<1> QED BY <1>1 DEF Idle, Closed, SyncPlace

(* Nothing is pending at a channel that is opened or erased.               *)
LEMMA NothingPending ==
  ASSUME TypeOK, WorkersInv, DrainInv, NEW r \in Runtime, At(r, "exited") \/ r > opened
  PROVE  Hand(r) \o runtime[r].queue = <<>>
<1>1. runtime[r].queue = <<>> /\ thread[r].at \in {"exited", "idle"}
  BY DEF WorkersInv, Closed, At
<1>2. thread[r].request = Nobody
  BY <1>1 DEF DrainInv, DrainOf, SyncPlace
<1>3. Hand(r) = <<>>
  BY <1>2 DEF Hand
<1> QED BY <1>1, <1>3, EmptySeq, ConcatEmptySeq

LEMMA CalmPending ==
  ASSUME NEW o, Owners = {o}, Inv(o), DrainInv, Calm,
         \/ channel' = channel
         \/ \E t \in Owners : OpenChannel(t)
         \/ \E t \in Caller : CloseErase(t)
  PROVE  Pending' = Pending
<1>1. TypeOK /\ WorkersInv /\ OwnerInv(o) /\ o \in Caller /\ o \in Thread
  BY Threads DEF Inv, Caller
<1>2. \A r \in Runtime : /\ Hand(r)' = Hand(r)
                         /\ runtime'[r].queue = runtime[r].queue
  BY DEF Calm, Hand
<1>3. CASE channel' = channel
  <2>1. channel # Nobody => channel \in Runtime
    BY <1>1, ChannelFound
  <2>2. channel # Nobody => (Hand(channel))' = Hand(channel)
    BY <1>2, <1>3, <2>1 DEF Hand
  <2> QED BY <1>2, <1>3, <2>1, <2>2 DEF Pending
<1>4. ASSUME NEW t \in Owners, OpenChannel(t), channel' # channel
      PROVE  Pending' = Pending
  <2>a. PICK n : n = opened + 1
    OBVIOUS
  <2>1. channel = Nobody /\ opened < MaxRuntimes /\ channel' = n
    BY <1>4, <2>a DEF OpenChannel
  <2>2. n \in Runtime /\ n > opened
    <3>1. n \in Nat /\ n > opened /\ n <= MaxRuntimes /\ n \in 1 .. n
      BY <1>1, <2>a, <2>1, Typed, Bounds
    <3> QED BY <3>1, Opened
  <2>3. Hand(n) \o runtime[n].queue = <<>>
    BY <1>1, <2>2, NothingPending
  <2>4. Hand(n)' \o runtime'[n].queue = <<>>
    BY <1>2, <2>2, <2>3
  <2>5. (Hand(channel))' = Hand(n)'
    BY <2>1 DEF Hand
  <2> QED BY <2>1, <2>4, <2>5 DEF Pending
<1>5. ASSUME NEW t \in Caller, CloseErase(t) PROVE Pending' = Pending
  <2>1. thread[t].at = "erase" /\ channel' = Nobody
    BY <1>5 DEF CloseErase, At
  <2>2. t = o
    BY <1>1, <2>1, Threads DEF OwnerInv, ClosePlace
  <2>3. channel # Nobody /\ At(channel, "exited")
    BY <1>1, <2>1, <2>2 DEF OwnerInv, ClosePlace
  <2>4. channel \in Runtime
    BY <1>1, <2>3, ChannelFound
  <2>5. Pending = <<>>
    BY <1>1, <2>3, <2>4, NothingPending DEF Pending
  <2> QED BY <2>1, <2>5 DEF Pending
<1> QED BY <1>3, <1>4, <1>5

(* A request that is pushed is the last one pending.                       *)
LEMMA PushPends ==
  ASSUME NEW o \in Caller, Inv(o), NEW t \in Caller, AsyncPush(t)
  PROVE  [Callbacks!Next]_(Callbacks!vars)
<1>a. PICK k, m : k = thread[t].runtime /\ m = Len(accepted) + 1
  OBVIOUS
<1> DEFINE q == [runtime[k] EXCEPT !.queue = Append(runtime[k].queue, m)]
<1>1. /\ t \in Thread /\ t \notin Runtime /\ TypeOK
      /\ thread \in [Thread -> ThreadState] /\ runtime \in [Runtime -> RuntimeState]
  BY Threads, Typed DEF Inv
<1>2. channel' = channel /\ calledBack' = calledBack
  BY DEF AsyncPush
<1>3. k \in 1 .. opened /\ k \in Runtime /\ k # Nobody
  <2>1. k \in 1 .. opened
    BY <1>a, <1>1 DEF AsyncPush, At, TypeOK, Found
  <2> QED BY <1>1, <2>1, Typed, Opened DEF Nobody
<1>4. \A r \in Runtime : thread'[r] = thread[r]
  BY <1>1, Threads DEF AsyncPush, Return
<1>5. CASE ~runtime[k].open
  <2>1. UNCHANGED <<accepted, runtime>>
    BY <1>a, <1>5 DEF AsyncPush
  <2>2. channel # Nobody => channel \in Runtime
    BY <1>1, ChannelFound
  <2>3. Pending' = Pending
    BY <1>2, <1>4, <2>1, <2>2 DEF Pending, Hand
  <2> QED BY <1>2, <2>1, <2>3 DEF Callbacks!vars
<1>6. CASE runtime[k].open
  <2>1. k = channel
    BY <1>3, <1>6 DEF Inv, OneIncarnation
  <2>2. runtime' = [runtime EXCEPT ![k] = q] /\ accepted' = Append(accepted, k)
    BY <1>a, <1>6 DEF AsyncPush
  <2>3. m \in Nat /\ Len(accepted') = Len(accepted) + 1
    BY <1>a, <1>1, <1>3, <2>2, Typed, AppendProperties DEF DataOK
  <2>4. runtime[k] \in RuntimeState /\ runtime[k].queue \in Seq(Nat)
    BY <1>1, <1>3 DEF RuntimeState
  <2>5. q.queue = Append(runtime[k].queue, m)
    BY <2>4 DEF RuntimeState
  <2>6. runtime'[k] = q
    BY <1>1, <1>3, <2>2
  <2> HIDE DEF q
  <2>7. Hand(k) \in Seq(Nat) /\ Hand(k)' = Hand(k)
    <3>1. thread[k].request \in Nat
      BY <1>1, <1>3, Threads DEF ThreadState
    <3> QED BY <1>3, <1>4, <3>1 DEF Hand
  <2>8. Hand(k) \o Append(runtime[k].queue, m) = Append(Hand(k) \o runtime[k].queue, m)
    <3>1. PICK h, g : h = Hand(k) /\ g = runtime[k].queue
      OBVIOUS
    <3>2. h \in Seq(Nat) /\ g \in Seq(Nat) /\ h \o g \in Seq(Nat) /\ <<m>> \in Seq(Nat)
      BY <2>3, <2>4, <2>7, <3>1, ConcatProperties
    <3>3. Append(g, m) = g \o <<m>> /\ Append(h \o g, m) = (h \o g) \o <<m>>
      BY <2>3, <3>2, AppendIsConcat
    <3>4. (h \o g) \o <<m>> = h \o (g \o <<m>>)
      BY <3>2, ConcatAssociative
    <3> QED BY <3>1, <3>3, <3>4
  <2>9. Pending = Hand(k) \o runtime[k].queue
    BY <1>3, <2>1 DEF Pending
  <2>10. Pending' = Hand(k) \o q.queue
    <3>1. (Hand(channel))' = Hand(k)
      BY <1>2, <2>1, <2>7 DEF Hand
    <3> QED BY <1>2, <1>3, <2>1, <2>6, <3>1 DEF Pending
  <2>11. Pending' = Append(Pending, Len(accepted'))
    BY <1>a, <2>3, <2>5, <2>8, <2>9, <2>10
  <2>12. Callbacks!Accept
    BY <1>2, <2>3, <2>11 DEF Callbacks!Accept
  <2> QED BY <2>12 DEF Callbacks!Next
<1> QED BY <1>5, <1>6

(* A request in the worker's hands is still the first one pending.         *)
LEMMA TakePends ==
  ASSUME NEW o \in Caller, Inv(o), DrainInv, HandsInv, NEW r \in Runtime, WorkerTake(r)
  PROVE  UNCHANGED <<Len(accepted), Pending, calledBack>>
<1>a. PICK q : q = runtime[r].queue
  OBVIOUS
<1> DEFINE d == [runtime[r] EXCEPT !.queue = Tail(q), !.active = TRUE]
           s == [thread[r] EXCEPT !.at = "require", !.request = Head(q)]
<1>1. thread[r] \in ThreadState /\ runtime[r] \in RuntimeState /\ q \in Seq(Nat)
      /\ runtime \in [Runtime -> RuntimeState] /\ thread \in [Thread -> ThreadState] /\ r \in Thread
  BY <1>a, Typed, Threads DEF RuntimeState, Inv
<1>2. /\ thread[r].at = "wait" /\ q # <<>> /\ channel' = channel
      /\ accepted' = accepted /\ calledBack' = calledBack
      /\ runtime' = [runtime EXCEPT ![r] = d] /\ thread' = [thread EXCEPT ![r] = s]
  BY <1>a DEF WorkerTake, At
<1>3. d.queue = Tail(q) /\ s.request = Head(q)
  BY <1>1 DEF RuntimeState, ThreadState
<1>4. r = channel /\ channel # Nobody
  BY <1>2, AtWorkOnChannel
<1>5. thread[r].request = Nobody
  BY <1>2 DEF DrainInv, DrainOf, SyncPlace
<1> HIDE DEF d, s
<1>6. runtime'[r] = d /\ thread'[r] = s
  BY <1>1, <1>2
<1>7. Pending = q
  <2>1. Hand(r) = <<>>
    BY <1>5 DEF Hand
  <2> QED BY <1>a, <1>1, <1>4, <2>1, ConcatEmptySeq DEF Pending
<1>8. Pending' = <<Head(q)>> \o Tail(q)
  <2>1. Head(q) # Nobody
    <3>1. 1 \in 1 .. Len(q) /\ Head(q) = q[1]
      BY <1>1, <1>2, HeadTailProperties
    <3> QED BY <1>a, <3>1 DEF HandsInv
  <2>2. (Hand(channel))' = <<Head(q)>>
    BY <1>2, <1>3, <1>4, <1>6, <2>1 DEF Hand
  <2> QED BY <1>2, <1>3, <1>4, <1>6, <2>2 DEF Pending
<1>9. <<Head(q)>> \o Tail(q) = q
  BY <1>1, <1>2
<1> QED BY <1>2, <1>7, <1>8, <1>9

LEMMA CallbackPends ==
  ASSUME NEW o \in Caller, Inv(o), HandsInv, NEW r \in Runtime, WorkerCallback(r)
  PROVE  Callbacks!CallBack
<1>a. PICK x, q : x = thread[r].request /\ q = runtime[r].queue
  OBVIOUS
<1> DEFINE s == [thread[r] EXCEPT !.at = "finish", !.request = Nobody]
<1>1. /\ thread[r] \in ThreadState /\ thread \in [Thread -> ThreadState] /\ r \in Thread
      /\ runtime \in [Runtime -> RuntimeState] /\ x \in Nat /\ q \in Seq(Nat)
  BY <1>a, Typed, Threads DEF ThreadState, RuntimeState, Inv
<1>2. /\ thread[r].at = "callback" /\ accepted' = accepted /\ channel' = channel
      /\ calledBack' = Append(calledBack, x)
      /\ runtime' = runtime /\ thread' = [thread EXCEPT ![r] = s]
  BY <1>a DEF WorkerCallback, At
<1>3. s.request = Nobody
  BY <1>1 DEF ThreadState
<1>4. r = channel /\ channel # Nobody
  BY <1>2, AtWorkOnChannel
<1>5. x # Nobody
  BY <1>a, <1>2 DEF HandsInv
<1> HIDE DEF s
<1>6. Pending = <<x>> \o q
  BY <1>a, <1>4, <1>5 DEF Pending, Hand
<1>7. Pending' = q
  <2>1. thread'[r] = s
    BY <1>1, <1>2
  <2>2. (Hand(channel))' = <<>>
    BY <1>2, <1>3, <1>4, <2>1 DEF Hand
  <2> QED BY <1>a, <1>1, <1>2, <1>4, <2>2, ConcatEmptySeq DEF Pending
<1>8. <<x>> \o q # <<>> /\ Head(<<x>> \o q) = x /\ Tail(<<x>> \o q) = q
  BY <1>1
<1> QED BY <1>2, <1>6, <1>7, <1>8 DEF Callbacks!CallBack

(* Every step of the channel is a step of the service, or leaves it alone. *)
LEMMA StepOfCallbacks ==
  ASSUME NEW o, Owners = {o}, Inv(o), DrainInv, HandsInv, [Next]_vars
  PROVE  [Callbacks!Next]_(Callbacks!vars)
<1>1. TypeOK /\ WorkersInv /\ o \in Caller
  BY DEF Inv, Caller
<1>2. CASE Calm /\ \/ channel' = channel
                   \/ \E t \in Owners : OpenChannel(t)
                   \/ \E t \in Caller : CloseErase(t)
  BY <1>2, CalmPending DEF Calm, Callbacks!vars
<1>3. CASE \E t \in Caller : AsyncPush(t)
  BY <1>1, <1>3, PushPends
<1>4. CASE \E r \in Runtime : WorkerTake(r)
  BY <1>1, <1>4, TakePends DEF Callbacks!vars
<1>5. CASE \E r \in Runtime : WorkerCallback(r)
  BY <1>1, <1>5, CallbackPends DEF Callbacks!Next
<1> QED BY <1>1, <1>2, <1>3, <1>4, <1>5, CalmSteps

(* On a channel that one owner opens and closes, every request sendAsync   *)
(* accepts is called back exactly once and in the order of acceptance, and *)
(* none is dropped when closeChannel takes the channel away.               *)
THEOREM CallbacksKeepOrder ==
  ASSUME NEW o, Owners = {o}
  PROVE  Spec => IsCallbackService
<1>1. Init => Inv(o) /\ DrainInv /\ HandsInv /\ Callbacks!Init
  BY InitHolds, DrainStarts, HandsStart DEF Caller, Init, Pending, Callbacks!Init
<1>2. Inv(o) /\ DrainInv /\ HandsInv /\ [Next]_vars
      => Inv(o)' /\ DrainInv' /\ HandsInv' /\ [Callbacks!Next]_(Callbacks!vars)
  BY NextKeeps, DrainKeeps, HandsKeep, StepOfCallbacks DEF Caller
<1> QED BY <1>1, <1>2, PTL DEF Spec, IsCallbackService, Callbacks!Spec
=============================================================================
