------------------------------- MODULE GuiProofs -------------------------------
(***************************************************************************)
(* Proofs about the GUI backend.  For queues of any length and any number  *)
(* of frames, requests, failures and replacements of the server, the       *)
(* playback stream plays its frames in order, an EOS is only answered ok   *)
(* when all of them were played, and the workers leave no session behind.  *)
(* For any project, snapshots and number of builds, sessions and restarts, *)
(* no validation session runs on under its leader with nobody to stop it,  *)
(* a save writes what was built last, what is shown as loaded is what was  *)
(* started, and until a save every scope of the project can be built.      *)
(***************************************************************************)
EXTENDS GuiStreams, GuiProject, SequenceTheorems, WellFoundedInduction, TLAPS

(***************************************************************************)
(* The audio streams.                                                      *)
(***************************************************************************)

Flags == [Dirs -> BOOLEAN]
Session == {"none", "open", "running"}

JobName == {"halt", "join", "start", "close capture", "start capture", "report",
            "drain", "cleanup"}
Requested == [op : {"none", "run", "stop", "eos"}, todo : Seq(JobName), ok : BOOLEAN]

Types ==
  /\ active \in Flags /\ ready \in Flags /\ error \in Flags
  /\ handle \in Flags /\ unclean \in Flags /\ server \in [Dirs -> Session]
  /\ queue \in Seq(Nat) /\ received \in Seq(Nat) /\ accepted \in Nat
  /\ req \in Requested

(* The state in which the worker may be started again.                     *)
Fresh == accepted = 0 /\ received = <<>> /\ thread = "none"

(* The worker is started only after it was joined, joined only when no     *)
(* more frames come in, and so drained.                                    *)
Orderly ==
  \A i \in 1 .. Len(req.todo) :
    /\ req.todo[i] = "start" => IF i = 1 THEN Fresh ELSE req.todo[i - 1] = "join"
    /\ req.todo[i] = "join" => IF i = 1 THEN ~active["playback"]
                                        ELSE req.todo[i - 1] = "halt"
    /\ req.todo[i] \in {"drain", "cleanup"} => i = 1 /\ ~active["playback"]
    /\ req.todo[i] = "cleanup" => error["playback"]

(* The frames in the server, in the thread's hand and in the queue are     *)
(* numbered on, until the connection has failed.                           *)
Hand == IF thread = "writing" THEN 1 ELSE 0

Numbered ==
  /\ \A i \in 1 .. Len(received) : received[i] = i
  /\ thread = "writing" => frame = Len(received) + 1
  /\ ready["playback"] =>
       /\ accepted = Len(received) + Hand + Len(queue)
       /\ \A i \in 1 .. Len(queue) : queue[i] = Len(received) + Hand + i

(* What the flags say about the thread.                                    *)
FlagsTell ==
  /\ ready["playback"] => handle["playback"] /\ (inFlight <=> thread = "writing")
  /\ ~ready["playback"] /\ ~error["playback"] => accepted = Len(received)
  /\ thread = "writing" => ready["playback"] \/ (timedOut /\ error["playback"])
  /\ active["playback"] => ready["playback"] \/ error["playback"]

Inv == Types /\ Orderly /\ Numbered /\ FlagsTell /\ SessionClosed

LEMMA Directions == "playback" \in Dirs /\ "capture" \in Dirs /\ "playback" # "capture"
BY DEF Dirs

-----------------------------------------------------------------------------
(* The calls to the server.                                                *)

(* A call is done and ok, or it is not ok.                                 *)
Result(r, s, after) == r.srv \in {s, after} /\ r.ok \in BOOLEAN /\ (r.ok => r.srv = after)

LEMMA CallDone ==
  ASSUME NEW s, NEW after, NEW r \in Called(s, after, TRUE)
  PROVE  Result(r, s, after)
<1>1. CASE r = [srv |-> after, ok |-> TRUE, fault |-> FALSE]
  BY <1>1 DEF Result
<1>2. CASE \E x \in {s, after} : r = [srv |-> x, ok |-> FALSE, fault |-> TRUE]
  BY <1>2 DEF Result
<1>3. r \in {[srv |-> after, ok |-> TRUE, fault |-> FALSE]}
            \cup (IF faults = MaxFaults THEN {}
                  ELSE {[srv |-> x, ok |-> FALSE, fault |-> TRUE] : x \in {s, after}})
  BY DEF Called
<1> QED BY <1>1, <1>2, <1>3

LEMMA CallRefused ==
  ASSUME NEW s, NEW after, NEW r \in Called(s, after, FALSE)
  PROVE  Result(r, s, after) /\ ~r.ok /\ r.srv = s
<1>1. CASE r = [srv |-> s, ok |-> FALSE, fault |-> FALSE]
  BY <1>1 DEF Result
<1>2. CASE \E x \in {s} : r = [srv |-> x, ok |-> FALSE, fault |-> TRUE]
  BY <1>2 DEF Result
<1>3. r \in {[srv |-> s, ok |-> FALSE, fault |-> FALSE]}
            \cup (IF faults = MaxFaults THEN {}
                  ELSE {[srv |-> x, ok |-> FALSE, fault |-> TRUE] : x \in {s, s}})
  BY DEF Called
<1> QED BY <1>1, <1>2, <1>3

LEMMA CallResult ==
  ASSUME NEW s, NEW after, NEW legal \in BOOLEAN, NEW r \in Called(s, after, legal)
  PROVE  Result(r, s, after) /\ (r.ok => legal)
<1>1. CASE legal = TRUE
  BY <1>1, CallDone
<1>2. CASE legal = FALSE
  BY <1>2, CallRefused
<1> QED BY <1>1, <1>2

LEMMA CallResults ==
  ASSUME NEW s \in Session
  PROVE  /\ \A r \in CreateCall(s) : Result(r, s, "open")
         /\ \A r \in StartCall(s) : Result(r, s, "running")
         /\ \A r \in DrainCall(s) : Result(r, s, s)
         /\ \A r \in StopCall(s) : Result(r, s, "open")
         /\ \A r \in CloseCall(s) : Result(r, s, "none")
<1>1. \A t : (s = t) \in BOOLEAN /\ (s # t) \in BOOLEAN
  OBVIOUS
<1> QED BY <1>1, CallResult DEF CreateCall, StartCall, DrainCall, StopCall, CloseCall

(* A session that was closed without an error is gone.                     *)
Closing(r) == r.srv \in Session /\ r.ok \in BOOLEAN /\ (r.ok => r.srv = "none")

LEMMA StopAndCloseResult ==
  ASSUME NEW s \in Session, NEW r \in StopAndClose(s)
  PROVE  Closing(r)
<1>1. \A x \in StopCall(s) : x.srv \in Session /\ x.ok \in BOOLEAN
  BY CallResults DEF Result, Session
<1>2. \A c \in Session : \A x \in CloseCall(c) : Closing(x)
  BY CallResults DEF Result, Session, Closing
<1>3. CASE r \in {x \in StopCall(s) : ~x.ok}
  BY <1>1, <1>3 DEF Closing
<1>4. CASE r \in UNION {CloseCall(x.srv) : x \in {y \in StopCall(s) : y.ok}}
  BY <1>1, <1>2, <1>4
<1> QED BY <1>3, <1>4 DEF StopAndClose

LEMMA DrainAndCloseResult ==
  ASSUME NEW s \in Session, NEW r \in DrainAndClose(s)
  PROVE  Closing(r)
<1>1. \A x \in DrainCall(s) : x.srv \in Session /\ x.ok \in BOOLEAN
  BY CallResults DEF Result
<1>2. CASE r \in {x \in DrainCall(s) : ~x.ok}
  BY <1>1, <1>2 DEF Closing
<1>3. CASE r \in UNION {StopAndClose(x.srv) : x \in {y \in DrainCall(s) : y.ok}}
  BY <1>1, <1>3, StopAndCloseResult
<1> QED BY <1>2, <1>3 DEF DrainAndClose

(* What becomes of the sessions when one is closed.                        *)
LEMMA SessionIsClosed ==
  ASSUME Types, SessionClosed, NEW d \in Dirs, NEW results, \A r \in results : Closing(r),
         CloseSession(d, results)
  PROVE  /\ server' \in [Dirs -> Session] /\ handle' \in Flags /\ unclean' \in Flags
         /\ SessionClosed'
         /\ \A e \in Dirs \ {d} : handle'[e] = handle[e]
<1>1. CASE handle[d]
  <2>1. PICK r \in results : /\ server' = [server EXCEPT ![d] = r.srv]
                             /\ handle' = [handle EXCEPT ![d] = FALSE]
                             /\ unclean' = [unclean EXCEPT ![d] = ~r.ok /\ r.srv # "none"]
    BY <1>1 DEF CloseSession
  <2>2. Closing(r)
    OBVIOUS
  <2>3. (~r.ok /\ r.srv # "none") \in BOOLEAN
    OBVIOUS
  <2>4. server' \in [Dirs -> Session] /\ handle' \in Flags /\ unclean' \in Flags
    BY <2>1, <2>2, <2>3 DEF Types, Flags, Closing
  <2>5. ASSUME NEW e \in Dirs, ~handle'[e], server'[e] # "none" PROVE unclean'[e]
    <3>1. CASE e = d
      BY <2>1, <2>2, <2>5, <3>1 DEF Types, Flags, Closing
    <3>2. CASE e # d
      BY <2>1, <2>5, <3>2 DEF Types, Flags, SessionClosed
    <3> QED BY <3>1, <3>2
  <2> QED BY <2>1, <2>4, <2>5 DEF SessionClosed, Types, Flags
<1>2. CASE ~handle[d]
  BY <1>2 DEF CloseSession, Types, SessionClosed
<1> QED BY <1>1, <1>2 DEF Types, Flags

(* What becomes of them when one is set up.                                *)
LEMMA SessionIsSetUp ==
  ASSUME Types, SessionClosed, NEW d \in Dirs, Setup(d)
  PROVE  /\ server' \in [Dirs -> Session] /\ handle' \in Flags /\ unclean' \in Flags
         /\ ready' \in Flags /\ error' \in Flags /\ active' \in Flags
         /\ SessionClosed'
         /\ ready'[d] => handle'[d]
         /\ error'[d] = ~ready'[d] /\ active'[d] = ready'[d]
         /\ \A e \in Dirs \ {d} : /\ ready'[e] = ready[e] /\ error'[e] = error[e]
                                  /\ active'[e] = active[e] /\ handle'[e] = handle[e]
         /\ \E ok : req' = [req EXCEPT !.todo = Tail(@), !.ok = ok] /\ ok \in BOOLEAN
<1>a. PICK c \in CreateCall(server[d]) :
        \E r \in IF c.ok THEN StartCall(c.srv) ELSE {c} :
          /\ server' = [server EXCEPT ![d] = r.srv]
          /\ handle' = [handle EXCEPT ![d] = c.ok]
          /\ unclean' = [unclean EXCEPT ![d] = ~c.ok /\ r.srv # "none"]
          /\ ready' = [ready EXCEPT ![d] = c.ok /\ r.ok]
          /\ error' = [error EXCEPT ![d] = ~(c.ok /\ r.ok)]
          /\ active' = [active EXCEPT ![d] = c.ok /\ r.ok]
          /\ req' = [req EXCEPT !.todo = Tail(@), !.ok = @ /\ c.ok /\ r.ok]
  BY DEF Setup
<1>1. PICK r \in IF c.ok THEN StartCall(c.srv) ELSE {c} :
        /\ server' = [server EXCEPT ![d] = r.srv]
        /\ handle' = [handle EXCEPT ![d] = c.ok]
        /\ unclean' = [unclean EXCEPT ![d] = ~c.ok /\ r.srv # "none"]
        /\ ready' = [ready EXCEPT ![d] = c.ok /\ r.ok]
        /\ error' = [error EXCEPT ![d] = ~(c.ok /\ r.ok)]
        /\ active' = [active EXCEPT ![d] = c.ok /\ r.ok]
        /\ req' = [req EXCEPT !.todo = Tail(@), !.ok = @ /\ c.ok /\ r.ok]
  BY <1>a
<1>2. server[d] \in Session
  BY DEF Types
<1>3. c.srv \in Session /\ c.ok \in BOOLEAN
  BY <1>2, CallResults DEF Result, Session
<1>4. r.srv \in Session /\ r.ok \in BOOLEAN
  <2>1. CASE c.ok
    BY <1>1, <1>3, <2>1, CallResults DEF Result, Session
  <2>2. CASE ~c.ok
    BY <1>1, <1>3, <2>2
  <2> QED BY <2>1, <2>2
<1> DEFINE left == (~c.ok /\ r.srv # "none")
           fine == (c.ok /\ r.ok)
           good == (req.ok /\ c.ok /\ r.ok)
<1>5. left \in BOOLEAN /\ fine \in BOOLEAN /\ (~fine) \in BOOLEAN /\ good \in BOOLEAN
  OBVIOUS
<1>6. fine => c.ok
  OBVIOUS
<1>7. ~c.ok /\ r.srv # "none" => left
  OBVIOUS
<1>8. req' = [req EXCEPT !.todo = Tail(@), !.ok = good]
  BY <1>1
<1> HIDE DEF left, fine, good
<1>9. /\ server' = [server EXCEPT ![d] = r.srv]
      /\ handle' = [handle EXCEPT ![d] = c.ok]
      /\ unclean' = [unclean EXCEPT ![d] = left]
      /\ ready' = [ready EXCEPT ![d] = fine]
      /\ error' = [error EXCEPT ![d] = ~fine]
      /\ active' = [active EXCEPT ![d] = fine]
  BY <1>1 DEF left, fine
<1>10. /\ server' \in [Dirs -> Session] /\ handle' \in Flags /\ unclean' \in Flags
       /\ ready' \in Flags /\ error' \in Flags /\ active' \in Flags
  BY <1>3, <1>4, <1>5, <1>9 DEF Types, Flags
<1>11. /\ server'[d] = r.srv /\ handle'[d] = c.ok /\ unclean'[d] = left
       /\ ready'[d] = fine /\ error'[d] = ~fine /\ active'[d] = fine
       /\ \A e \in Dirs \ {d} : /\ ready'[e] = ready[e] /\ error'[e] = error[e]
                                /\ active'[e] = active[e] /\ handle'[e] = handle[e]
                                /\ server'[e] = server[e] /\ unclean'[e] = unclean[e]
  BY <1>9 DEF Types, Flags
<1>12. SessionClosed'
  <2> SUFFICES ASSUME NEW e \in Dirs, ~handle'[e], server'[e] # "none" PROVE unclean'[e]
    BY DEF SessionClosed
  <2>1. CASE e = d
    BY <1>7, <1>11, <2>1
  <2>2. CASE e # d
    BY <1>11, <2>2 DEF SessionClosed
  <2> QED BY <2>1, <2>2
<1>13. error'[d] = ~ready'[d] /\ active'[d] = ready'[d] /\ (ready'[d] => handle'[d])
  BY <1>6, <1>11
<1> QED BY <1>5, <1>8, <1>10, <1>11, <1>12, <1>13

-----------------------------------------------------------------------------
(* The order of the jobs.                                                  *)

LEMMA OrderSame ==
  ASSUME Orderly, req' = req, Fresh => Fresh', ~active["playback"] => ~active'["playback"],
         error["playback"] => error'["playback"]
  PROVE  Orderly'
BY DEF Orderly

LEMMA OrderNone ==
  ASSUME req'.todo = <<>>
  PROVE  Orderly'
<1>1. Len(req'.todo) = 0
  OBVIOUS
<1> QED BY <1>1 DEF Orderly

(* The next job, when the one in hand is done.                             *)
LEMMA OrderTail ==
  ASSUME Types, Orderly, NEW j, Job(j), req'.todo = Tail(req.todo),
         j = "join" => Fresh', j = "halt" => ~active'["playback"]
  PROVE  Orderly'
<1> DEFINE todo == req.todo
           rest == req'.todo
<1>1. todo \in Seq(JobName) /\ todo # <<>> /\ Head(todo) = j
  BY DEF Types, Requested, Job, Idle
<1>2. /\ Len(todo) \in Nat /\ Len(rest) = Len(todo) - 1 /\ todo[1] = j
      /\ \A i \in 1 .. Len(rest) : rest[i] = todo[i + 1]
  BY <1>1, HeadTailProperties
<1> HIDE DEF todo, rest
<1> SUFFICES ASSUME NEW i \in 1 .. Len(rest)
             PROVE  /\ rest[i] = "start" => IF i = 1 THEN Fresh' ELSE rest[i - 1] = "join"
                    /\ rest[i] = "join" => IF i = 1 THEN ~active'["playback"]
                                                        ELSE rest[i - 1] = "halt"
                    /\ rest[i] \notin {"drain", "cleanup"}
  BY DEF Orderly, rest
<1>3. i + 1 \in 1 .. Len(todo) /\ i + 1 # 1 /\ (i + 1) - 1 = i /\ rest[i] = todo[i + 1]
  BY <1>2
<1>4. /\ todo[i + 1] = "start" => todo[(i + 1) - 1] = "join"
      /\ todo[i + 1] = "join" => todo[(i + 1) - 1] = "halt"
      /\ todo[i + 1] \notin {"drain", "cleanup"}
  BY <1>3 DEF Orderly, todo
<1>5. /\ rest[i] = "start" => todo[i] = "join"
      /\ rest[i] = "join" => todo[i] = "halt"
      /\ rest[i] \notin {"drain", "cleanup"}
  BY <1>3, <1>4
<1>6. CASE i = 1
  BY <1>2, <1>5, <1>6
<1>7. CASE i # 1
  <2>1. i - 1 \in 1 .. Len(rest) /\ (i - 1) + 1 = i
    BY <1>2, <1>7
  <2>2. rest[i - 1] = todo[i]
    BY <1>2, <2>1
  <2> QED BY <1>5, <1>7, <2>2
<1> QED BY <1>6, <1>7

(* A list of jobs that holds whatever the state.                           *)
Chain(s) ==
  /\ s \in Seq(JobName)
  /\ \A i \in 1 .. Len(s) :
       /\ s[i] = "start" => i # 1 /\ s[i - 1] = "join"
       /\ s[i] = "join" => i # 1 /\ s[i - 1] = "halt"
       /\ s[i] \notin {"drain", "cleanup"}

LEMMA OrderChain ==
  ASSUME Chain(req'.todo)
  PROVE  Orderly'
<1> QED BY DEF Orderly, Chain

LEMMA ChainConcat ==
  ASSUME NEW s, NEW t, Chain(s), Chain(t)
  PROVE  Chain(s \o t)
<1> DEFINE u == s \o t
<1>1. s \in Seq(JobName) /\ t \in Seq(JobName)
  BY DEF Chain
<1>2. Len(s) \in Nat /\ Len(t) \in Nat
  BY <1>1
<1>3. /\ u \in Seq(JobName) /\ Len(u) = Len(s) + Len(t)
      /\ \A i \in 1 .. Len(s) + Len(t) : u[i] = IF i <= Len(s) THEN s[i] ELSE t[i - Len(s)]
  BY <1>1, ConcatProperties
<1> HIDE DEF u
<1> SUFFICES ASSUME NEW i \in 1 .. Len(u)
             PROVE  /\ u[i] = "start" => i # 1 /\ u[i - 1] = "join"
                    /\ u[i] = "join" => i # 1 /\ u[i - 1] = "halt"
                    /\ u[i] \notin {"drain", "cleanup"}
  BY <1>3 DEF Chain, u
<1>4. CASE i <= Len(s)
  <2>1. i \in 1 .. Len(s) /\ u[i] = s[i] /\ (i # 1 => i - 1 \in 1 .. Len(s) + Len(t) /\ i - 1 <= Len(s))
    BY <1>2, <1>3, <1>4
  <2>2. i # 1 => u[i - 1] = s[i - 1]
    BY <1>3, <2>1
  <2> QED BY <2>1, <2>2 DEF Chain
<1>5. CASE ~(i <= Len(s))
  <2> DEFINE k == i - Len(s)
  <2>1. /\ k \in 1 .. Len(t) /\ (i # 1 \/ k = 1)
        /\ k # 1 => /\ i # 1 /\ i - 1 \in 1 .. Len(s) + Len(t) /\ ~(i - 1 <= Len(s))
                    /\ (i - 1) - Len(s) = k - 1
    BY <1>2, <1>3, <1>5
  <2>2. k \in 1 .. Len(t) /\ u[i] = t[k]
    BY <1>2, <1>3, <1>5
  <2>3. k # 1 => u[i - 1] = t[k - 1]
    BY <1>3, <2>1
  <2> HIDE DEF k
  <2> QED BY <2>1, <2>2, <2>3 DEF Chain
<1> QED BY <1>4, <1>5

LEMMA OneJob ==
  ASSUME NEW S, NEW a \in S
  PROVE  <<a>> \in Seq(S) /\ Len(<<a>>) = 1 /\ <<a>>[1] = a
OBVIOUS

LEMMA TwoJobs ==
  ASSUME NEW S, NEW a \in S, NEW b \in S
  PROVE  /\ <<a, b>> \in Seq(S) /\ Len(<<a, b>>) = 2
         /\ <<a, b>>[1] = a /\ <<a, b>>[2] = b
OBVIOUS

LEMMA ThreeJobs ==
  ASSUME NEW S, NEW a \in S, NEW b \in S, NEW c \in S
  PROVE  /\ <<a, b, c>> \in Seq(S) /\ Len(<<a, b, c>>) = 3
         /\ <<a, b, c>>[1] = a /\ <<a, b, c>>[2] = b /\ <<a, b, c>>[3] = c
OBVIOUS

LEMMA Positions ==
  /\ \A i \in 1 .. 2 : i = 1 \/ i = 2
  /\ \A i \in 1 .. 3 : i = 1 \/ (i = 2 /\ i - 1 = 1) \/ (i = 3 /\ i - 1 = 2)
<1>1. \A i \in 1 .. 2 : i = 1 \/ i = 2
  OBVIOUS
<1>2. \A i \in 1 .. 3 : i = 1 \/ (i = 2 /\ i - 1 = 1) \/ (i = 3 /\ i - 1 = 2)
  OBVIOUS
<1> QED BY <1>1, <1>2

LEMMA Plans ==
  /\ Chain(<<>>) /\ Chain(<<"report">>) /\ Chain(<<"halt", "join", "start">>)
  /\ Chain(<<"close capture", "start capture">>) /\ Chain(<<"halt", "join", "close capture">>)
<1>1. Chain(<<>>)
  <2>1. <<>> \in Seq(JobName) /\ Len(<<>>) = 0
    BY EmptySeq
  <2> QED BY <2>1 DEF Chain
<1>2. Chain(<<"report">>)
  <2> DEFINE s == <<"report">>
  <2>1. s \in Seq(JobName) /\ Len(s) = 1 /\ s[1] = "report"
    BY OneJob DEF JobName
  <2> HIDE DEF s
  <2>2. \A i \in 1 .. Len(s) : i = 1
    BY <2>1
  <2>3. Chain(s)
    BY <2>1, <2>2 DEF Chain
  <2> QED BY <2>3 DEF s
<1>3. Chain(<<"halt", "join", "start">>)
  <2> DEFINE s == <<"halt", "join", "start">>
  <2>1. s \in Seq(JobName) /\ Len(s) = 3 /\ s[1] = "halt" /\ s[2] = "join" /\ s[3] = "start"
    BY ThreeJobs DEF JobName
  <2> HIDE DEF s
  <2>2. \A i \in 1 .. Len(s) : i = 1 \/ (i = 2 /\ i - 1 = 1) \/ (i = 3 /\ i - 1 = 2)
    BY <2>1, Positions
  <2>3. Chain(s)
    BY <2>1, <2>2 DEF Chain
  <2> QED BY <2>3 DEF s
<1>4. Chain(<<"close capture", "start capture">>)
  <2> DEFINE s == <<"close capture", "start capture">>
  <2>1. s \in Seq(JobName) /\ Len(s) = 2 /\ s[1] = "close capture" /\ s[2] = "start capture"
    BY TwoJobs DEF JobName
  <2> HIDE DEF s
  <2>2. \A i \in 1 .. Len(s) : i = 1 \/ i = 2
    BY <2>1, Positions
  <2>3. Chain(s)
    BY <2>1, <2>2 DEF Chain
  <2> QED BY <2>3 DEF s
<1>5. Chain(<<"halt", "join", "close capture">>)
  <2> DEFINE s == <<"halt", "join", "close capture">>
  <2>1. s \in Seq(JobName) /\ Len(s) = 3 /\ s[1] = "halt" /\ s[2] = "join" /\ s[3] = "close capture"
    BY ThreeJobs DEF JobName
  <2> HIDE DEF s
  <2>2. \A i \in 1 .. Len(s) : i = 1 \/ (i = 2 /\ i - 1 = 1) \/ (i = 3 /\ i - 1 = 2)
    BY <2>1, Positions
  <2>3. Chain(s)
    BY <2>1, <2>2 DEF Chain
  <2> QED BY <2>3 DEF s
<1> QED BY <1>1, <1>2, <1>3, <1>4, <1>5

-----------------------------------------------------------------------------
(* The playback thread.                                                    *)

LEMMA TakeKeeps == ASSUME Inv, Take PROVE Inv'
<1>1. /\ thread = "waiting" /\ queue # <<>> /\ ready["playback"]
      /\ frame' = Head(queue) /\ queue' = Tail(queue) /\ inFlight' = TRUE /\ thread' = "writing"
      /\ UNCHANGED <<active, ready, error, handle, server, req, accepted, received, unclean, timedOut>>
  BY DEF Take, MayTake, flags, sides, history
<1>2. queue \in Seq(Nat) /\ Len(received) \in Nat
  BY DEF Inv, Types
<1>3. /\ queue' \in Seq(Nat) /\ Len(queue') = Len(queue) - 1 /\ Len(queue) \in Nat /\ Len(queue) # 0
      /\ frame' = queue[1] /\ \A i \in 1 .. Len(queue') : queue'[i] = queue[i + 1]
  BY <1>1, <1>2, HeadTailProperties
<1>4. Types'
  BY <1>1, <1>3 DEF Inv, Types
<1>5. Orderly'
  BY <1>1, OrderSame DEF Inv, Fresh
<1>6. Numbered'
  <2>1. /\ \A i \in 1 .. Len(received) : received[i] = i
        /\ accepted = Len(received) + Len(queue)
        /\ \A i \in 1 .. Len(queue) : queue[i] = Len(received) + i
    BY <1>1, <1>2 DEF Inv, Numbered, Hand
  <2>2. frame' = Len(received') + 1
    BY <1>1, <1>2, <1>3, <2>1
  <2>3. Hand' = 1
    BY <1>1 DEF Hand
  <2>4. accepted' = Len(received') + 1 + Len(queue')
    BY <1>1, <1>2, <1>3, <2>1
  <2>5. ASSUME NEW i \in 1 .. Len(queue') PROVE queue'[i] = Len(received') + 1 + i
    <3>1. i + 1 \in 1 .. Len(queue) /\ i \in Int
      BY <1>3
    <3>2. queue'[i] = Len(received) + (i + 1)
      BY <1>3, <2>1, <3>1
    <3> QED BY <1>1, <1>2, <3>1, <3>2
  <2> QED BY <1>1, <2>1, <2>2, <2>3, <2>4, <2>5 DEF Numbered
<1>7. FlagsTell'
  BY <1>1 DEF Inv, FlagsTell
<1>8. SessionClosed'
  BY <1>1 DEF Inv, SessionClosed
<1> QED BY <1>4, <1>5, <1>6, <1>7, <1>8 DEF Inv

LEMMA WriteKeeps == ASSUME Inv, Write PROVE Inv'
<1>1. PICK r \in Called("not", "taken", server["playback"] = "running") :
        /\ received' = IF r.srv = "taken" THEN Append(received, frame) ELSE received
        /\ IF r.ok THEN UNCHANGED <<ready, error>> ELSE WriteFailed
  BY DEF Write
<1>2. /\ thread = "writing" /\ thread' = "waiting" /\ inFlight' = FALSE
      /\ UNCHANGED <<active, handle, server, req, queue, accepted, unclean, timedOut>>
  BY DEF Write, sides
<1>3. Result(r, "not", "taken")
  <2>1. (server["playback"] = "running") \in BOOLEAN
    OBVIOUS
  <2> QED BY <1>1, <2>1, CallResult
<1>4. /\ frame = Len(received) + 1 /\ received \in Seq(Nat) /\ queue \in Seq(Nat) /\ Len(queue) \in Nat
      /\ accepted \in Nat /\ Len(received) \in Nat
      /\ \A i \in 1 .. Len(received) : received[i] = i
  BY <1>2 DEF Inv, Types, Numbered
<1>5. /\ received' \in Seq(Nat) /\ Len(received') \in Nat
      /\ \A i \in 1 .. Len(received') : received'[i] = i
  <2>1. CASE r.srv = "taken"
    <3>1. received' = Append(received, frame) /\ frame \in Nat
      BY <1>1, <1>4, <2>1
    <3>2. /\ received' \in Seq(Nat) /\ Len(received') = Len(received) + 1
          /\ received'[Len(received) + 1] = frame
          /\ \A i \in 1 .. Len(received) : received'[i] = received[i]
      BY <1>4, <3>1, AppendProperties
    <3>3. ASSUME NEW i \in 1 .. Len(received') PROVE received'[i] = i
      <4>1. i = Len(received) + 1 \/ i \in 1 .. Len(received)
        BY <1>4, <3>2, <3>3
      <4> QED BY <1>4, <3>2, <4>1
    <3>4. Len(received') \in Nat
      BY <1>4, <3>2
    <3> QED BY <3>2, <3>3, <3>4
  <2>2. CASE r.srv # "taken"
    BY <1>1, <1>4, <2>2
  <2> QED BY <2>1, <2>2
<1>6. r.ok => Len(received') = Len(received) + 1
  <2> SUFFICES ASSUME r.ok PROVE Len(received') = Len(received) + 1
    OBVIOUS
  <2>1. received' = Append(received, frame) /\ frame \in Nat
    BY <1>1, <1>3, <1>4 DEF Result
  <2> QED BY <1>4, <2>1, AppendProperties
<1>7. /\ ready' \in Flags /\ error' \in Flags
      /\ ready'["playback"] => r.ok /\ ready["playback"]
      /\ r.ok => ready'["playback"] = ready["playback"]
      /\ error["playback"] => error'["playback"]
      /\ ~r.ok => error'["playback"]
      /\ r.ok => error'["playback"] = error["playback"]
  <2>1. CASE r.ok
    <3>1. ready' = ready /\ error' = error
      BY <1>1, <2>1
    <3> QED BY <2>1, <3>1 DEF Inv, Types
  <2>2. CASE ~r.ok
    <3>1. ready' = [ready EXCEPT !["playback"] = FALSE] /\ error' = [error EXCEPT !["playback"] = TRUE]
      BY <1>1, <2>2 DEF WriteFailed
    <3>2. /\ ready' \in Flags /\ error' \in Flags
          /\ ready'["playback"] = FALSE /\ error'["playback"] = TRUE
      BY <3>1, Directions DEF Inv, Types, Flags
    <3> QED BY <2>2, <3>2
  <2> QED BY <2>1, <2>2
<1>8. Types'
  BY <1>2, <1>5, <1>7 DEF Inv, Types
<1>9. Orderly'
  BY <1>2, <1>7, OrderSame DEF Inv, Fresh
<1>10. Numbered'
  <2>1. Hand = 1 /\ Hand' = 0
    BY <1>2 DEF Hand
  <2>2. ASSUME ready'["playback"]
        PROVE  /\ accepted' = Len(received') + 0 + Len(queue')
               /\ \A i \in 1 .. Len(queue') : queue'[i] = Len(received') + 0 + i
    <3>1. Len(received') = Len(received) + 1 /\ ready["playback"]
      BY <1>6, <1>7, <2>2
    <3>2. /\ accepted = Len(received) + 1 + Len(queue)
          /\ \A i \in 1 .. Len(queue) : queue[i] = Len(received) + 1 + i
      BY <2>1, <3>1 DEF Inv, Numbered
    <3> QED BY <1>2, <1>4, <3>1, <3>2
  <2> QED BY <1>2, <1>5, <2>1, <2>2 DEF Numbered
<1>11. FlagsTell'
  <2>1. ~ready'["playback"] => error'["playback"]
    BY <1>2, <1>7 DEF Inv, FlagsTell
  <2> QED BY <1>2, <1>7, <2>1 DEF Inv, FlagsTell
<1>12. SessionClosed'
  BY <1>2 DEF Inv, SessionClosed
<1> QED BY <1>8, <1>9, <1>10, <1>11, <1>12 DEF Inv

(* A step that leaves the playback's frames and flags alone.               *)
LEMMA AsideKeeps ==
  ASSUME Inv, Types', Orderly', SessionClosed',
         thread' = thread \/ (thread # "writing" /\ thread' # "writing"),
         UNCHANGED <<queue, frame, inFlight, accepted, received, timedOut>>,
         ready'["playback"] = ready["playback"], error'["playback"] = error["playback"],
         handle'["playback"] = handle["playback"],
         active'["playback"] => active["playback"]
  PROVE  Inv'
<1>1. Numbered'
  <2>1. Hand' = Hand /\ (thread' = "writing" <=> thread = "writing")
    BY DEF Hand
  <2> QED BY <2>1 DEF Inv, Numbered
<1>2. FlagsTell'
  BY DEF Inv, FlagsTell
<1> QED BY <1>1, <1>2 DEF Inv

LEMMA ExitKeeps == ASSUME Inv, Exit PROVE Inv'
<1>1. /\ thread = "waiting" /\ thread' = "ended"
      /\ UNCHANGED <<active, ready, error, handle, server, req, queue, frame, inFlight, accepted,
                     received, unclean, timedOut>>
  BY DEF Exit, flags, sides, history
<1>2. Types' /\ SessionClosed'
  BY <1>1 DEF Inv, Types, SessionClosed
<1>3. Orderly'
  BY <1>1, OrderSame DEF Inv, Fresh
<1> QED BY <1>1, <1>2, <1>3, AsideKeeps

-----------------------------------------------------------------------------
(* The requests.                                                           *)

LEMMA RunKeeps ==
  ASSUME Inv, NEW dirs \in SUBSET Dirs, Run(dirs)
  PROVE  Inv'
<1> DEFINE a == IF "playback" \in dirs THEN JobsOf("playback") ELSE <<>>
           b == IF "capture" \in dirs THEN JobsOf("capture") ELSE <<>>
<1>1. /\ req' = [op |-> "run", todo |-> a \o b \o <<"report">>, ok |-> TRUE]
      /\ UNCHANGED <<active, ready, error, handle, server, thread, queue, frame, inFlight, accepted,
                     received, unclean, timedOut>>
  BY DEF Run, Request, worker, sides, history
<1>2. Chain(a) /\ Chain(b)
  BY Plans DEF JobsOf
<1> HIDE DEF a, b
<1>3. Chain(a \o b \o <<"report">>)
  <2>1. Chain(a \o b)
    BY <1>2, ChainConcat
  <2> QED BY <2>1, Plans, ChainConcat
<1>4. Chain(req'.todo) /\ req' \in Requested
  BY <1>1, <1>3 DEF Requested, Chain
<1>5. Types' /\ SessionClosed'
  BY <1>1, <1>4 DEF Inv, Types, SessionClosed
<1>6. Orderly'
  BY <1>4, OrderChain
<1> QED BY <1>1, <1>5, <1>6, AsideKeeps

LEMMA StopKeeps == ASSUME Inv, Stop PROVE Inv'
<1> DEFINE a == <<"halt", "join", "close capture">>
<1>1. /\ req' = [op |-> "stop", todo |-> a, ok |-> TRUE]
      /\ UNCHANGED <<active, ready, error, handle, server, thread, queue, frame, inFlight, accepted,
                     received, unclean, timedOut>>
  BY DEF Stop, Request, worker, sides, history
<1>2. Chain(a)
  BY Plans
<1> HIDE DEF a
<1>3. Chain(req'.todo) /\ req' \in Requested
  BY <1>1, <1>2 DEF Requested, Chain
<1>4. Types' /\ SessionClosed'
  BY <1>1, <1>3 DEF Inv, Types, SessionClosed
<1>5. Orderly'
  BY <1>3, OrderChain
<1> QED BY <1>1, <1>4, <1>5, AsideKeeps

(* A single job that needs no other before it.                             *)
LEMMA OrderOne ==
  ASSUME NEW j, req'.todo = <<j>>, j \in {"drain", "cleanup"}, ~active'["playback"],
         j = "cleanup" => error'["playback"]
  PROVE  Orderly'
<1>1. Len(req'.todo) = 1 /\ req'.todo[1] = j
  BY OneJob
<1>2. \A i \in 1 .. Len(req'.todo) : i = 1
  BY <1>1
<1> QED BY <1>1, <1>2 DEF Orderly

LEMMA EosKeeps == ASSUME Inv, Eos PROVE Inv'
<1>1. /\ req' = [op |-> "eos", todo |-> <<"drain">>, ok |-> TRUE]
      /\ active' = [active EXCEPT !["playback"] = FALSE]
      /\ UNCHANGED <<ready, error, handle, server, thread, queue, frame, inFlight, accepted,
                     received, unclean, timedOut>>
  BY DEF Eos, Request, worker, sides
<1>2. <<"drain">> \in Seq(JobName)
  BY OneJob DEF JobName
<1>3. req' \in Requested /\ req'.todo = <<"drain">>
  BY <1>1, <1>2 DEF Requested
<1>4. active' \in Flags /\ ~active'["playback"]
  BY <1>1, Directions DEF Inv, Types, Flags
<1>5. Types' /\ SessionClosed'
  BY <1>1, <1>3, <1>4 DEF Inv, Types, SessionClosed
<1>6. Orderly'
  BY <1>3, <1>4, OrderOne
<1> QED BY <1>1, <1>4, <1>5, <1>6, AsideKeeps

-----------------------------------------------------------------------------
(* The jobs.                                                               *)

LEMMA JobDone ==
  ASSUME Types, NEW j, Job(j), req' = [req EXCEPT !.todo = Tail(@)]
  PROVE  req' \in Requested /\ req'.todo = Tail(req.todo)
<1>1. req \in Requested /\ req.todo \in Seq(JobName) /\ req.todo # <<>>
  BY DEF Types, Requested, Job, Idle
<1>2. Tail(req.todo) \in Seq(JobName)
  BY <1>1, HeadTailProperties
<1> QED BY <1>1, <1>2 DEF Requested

LEMMA JobSet ==
  ASSUME Types, NEW j, Job(j),
         \E ok : req' = [req EXCEPT !.todo = Tail(@), !.ok = ok] /\ ok \in BOOLEAN
  PROVE  req' \in Requested /\ req'.todo = Tail(req.todo)
<1>1. req \in Requested /\ req.todo \in Seq(JobName) /\ req.todo # <<>>
  BY DEF Types, Requested, Job, Idle
<1>2. Tail(req.todo) \in Seq(JobName)
  BY <1>1, HeadTailProperties
<1> QED BY <1>1, <1>2 DEF Requested

(* What holds of the job in hand.                                          *)
LEMMA JobInHand ==
  ASSUME Inv, NEW j, Job(j)
  PROVE  /\ j = "start" => Fresh
         /\ j = "join" => ~active["playback"]
         /\ j \in {"drain", "cleanup"} => ~active["playback"]
         /\ j = "cleanup" => error["playback"]
<1>1. req.todo \in Seq(JobName) /\ req.todo # <<>> /\ Head(req.todo) = j
  BY DEF Inv, Types, Requested, Job, Idle
<1>2. 1 \in 1 .. Len(req.todo) /\ req.todo[1] = j
  <2>1. Len(req.todo) \in Nat \ {0}
    BY <1>1, EmptySeq
  <2>2. 1 \in 1 .. Len(req.todo)
    BY <2>1
  <2> QED BY <1>1, <2>2
<1> QED BY <1>2 DEF Inv, Orderly

LEMMA HaltKeeps == ASSUME Inv, Halt PROVE Inv'
<1>1. /\ Job("halt") /\ req' = [req EXCEPT !.todo = Tail(@)]
      /\ active' = [active EXCEPT !["playback"] = FALSE]
      /\ UNCHANGED <<ready, error, handle, server, thread, queue, frame, inFlight, accepted,
                     received, unclean, timedOut>>
  BY DEF Halt, Done, worker, sides, history
<1>2. req' \in Requested /\ req'.todo = Tail(req.todo)
  BY <1>1, JobDone DEF Inv
<1>3. active' \in Flags /\ ~active'["playback"]
  BY <1>1, Directions DEF Inv, Types, Flags
<1>4. Types' /\ SessionClosed'
  BY <1>1, <1>2, <1>3 DEF Inv, Types, SessionClosed
<1>5. Orderly'
  BY <1>1, <1>2, <1>3, OrderTail DEF Inv
<1> QED BY <1>1, <1>3, <1>4, <1>5, AsideKeeps

LEMMA ReportKeeps == ASSUME Inv, Report PROVE Inv'
<1>1. /\ Job("report") /\ req' = [req EXCEPT !.todo = Tail(@)]
      /\ UNCHANGED <<active, ready, error, handle, server, thread, queue, frame, inFlight, accepted,
                     received, unclean, timedOut>>
  BY DEF Report, Done, worker, sides, history
<1>2. req' \in Requested /\ req'.todo = Tail(req.todo)
  BY <1>1, JobDone DEF Inv
<1>3. Types' /\ SessionClosed'
  BY <1>1, <1>2 DEF Inv, Types, SessionClosed
<1>4. Orderly'
  BY <1>1, <1>2, OrderTail DEF Inv
<1> QED BY <1>1, <1>3, <1>4, AsideKeeps

LEMMA CloseCaptureKeeps == ASSUME Inv, CloseCapture PROVE Inv'
<1>1. /\ Job("close capture") /\ req' = [req EXCEPT !.todo = Tail(@)]
      /\ CloseSession("capture", StopAndClose(server["capture"]))
      /\ active' = [active EXCEPT !["capture"] = FALSE]
      /\ ready' = [ready EXCEPT !["capture"] = FALSE]
      /\ UNCHANGED <<error, thread, queue, frame, inFlight, accepted, received, timedOut>>
  BY DEF CloseCapture, Done, worker
<1>2. req' \in Requested /\ req'.todo = Tail(req.todo)
  BY <1>1, JobDone DEF Inv
<1>3. server["capture"] \in Session
  BY Directions DEF Inv, Types
<1>4. /\ server' \in [Dirs -> Session] /\ handle' \in Flags /\ unclean' \in Flags
      /\ SessionClosed' /\ handle'["playback"] = handle["playback"]
  BY <1>1, <1>3, Directions, SessionIsClosed, StopAndCloseResult DEF Inv
<1>5. /\ active' \in Flags /\ ready' \in Flags
      /\ active'["playback"] = active["playback"] /\ ready'["playback"] = ready["playback"]
  BY <1>1, Directions DEF Inv, Types, Flags
<1>6. Types'
  BY <1>1, <1>2, <1>4, <1>5 DEF Inv, Types
<1>7. Orderly'
  BY <1>1, <1>2, OrderTail DEF Inv
<1> QED BY <1>1, <1>4, <1>5, <1>6, <1>7, AsideKeeps

LEMMA StartCaptureKeeps == ASSUME Inv, StartCapture PROVE Inv'
<1>1. /\ Job("start capture") /\ Setup("capture")
      /\ UNCHANGED <<thread, queue, frame, inFlight, accepted, received, timedOut>>
  BY DEF StartCapture, worker
<1>2. /\ server' \in [Dirs -> Session] /\ handle' \in Flags /\ unclean' \in Flags
      /\ ready' \in Flags /\ error' \in Flags /\ active' \in Flags
      /\ SessionClosed'
      /\ ready'["playback"] = ready["playback"] /\ error'["playback"] = error["playback"]
      /\ active'["playback"] = active["playback"] /\ handle'["playback"] = handle["playback"]
      /\ \E ok : req' = [req EXCEPT !.todo = Tail(@), !.ok = ok] /\ ok \in BOOLEAN
  BY <1>1, Directions, SessionIsSetUp DEF Inv
<1>3. req' \in Requested /\ req'.todo = Tail(req.todo)
  BY <1>1, <1>2, JobSet DEF Inv
<1>4. Types'
  BY <1>1, <1>2, <1>3 DEF Inv, Types
<1>5. Orderly'
  BY <1>1, <1>3, OrderTail DEF Inv
<1> QED BY <1>1, <1>2, <1>4, <1>5, AsideKeeps

(* The worker that is started anew has nothing and knows of nothing.       *)
LEMMA StartKeeps == ASSUME Inv, Start PROVE Inv'
<1>1. /\ Job("start") /\ Setup("playback")
      /\ queue' = <<>> /\ inFlight' = FALSE
      /\ thread' = IF ready'["playback"] THEN "waiting" ELSE thread
      /\ UNCHANGED <<frame, accepted, received, timedOut>>
  BY DEF Start
<1>2. /\ server' \in [Dirs -> Session] /\ handle' \in Flags /\ unclean' \in Flags
      /\ ready' \in Flags /\ error' \in Flags /\ active' \in Flags
      /\ SessionClosed'
      /\ ready'["playback"] => handle'["playback"]
      /\ error'["playback"] = ~ready'["playback"] /\ active'["playback"] = ready'["playback"]
      /\ \E ok : req' = [req EXCEPT !.todo = Tail(@), !.ok = ok] /\ ok \in BOOLEAN
  BY <1>1, Directions, SessionIsSetUp DEF Inv
<1>3. req' \in Requested /\ req'.todo = Tail(req.todo)
  BY <1>1, <1>2, JobSet DEF Inv
<1>4. accepted = 0 /\ received = <<>> /\ thread = "none"
  BY <1>1, JobInHand DEF Fresh
<1>5. <<>> \in Seq(Nat) /\ Len(<<>>) = 0
  BY EmptySeq
<1>6. Types'
  BY <1>1, <1>2, <1>3, <1>5 DEF Inv, Types
<1>7. Orderly'
  BY <1>1, <1>3, OrderTail DEF Inv
<1>8. Len(queue') = 0 /\ Len(received') = 0 /\ accepted' = 0 /\ thread' # "writing"
  BY <1>1, <1>4, <1>5
<1>9. Numbered'
  <2>1. Hand' = 0
    BY <1>8 DEF Hand
  <2>2. 1 .. 0 = {}
    OBVIOUS
  <2> QED BY <1>8, <2>1, <2>2 DEF Numbered
<1>10. FlagsTell'
  BY <1>1, <1>2, <1>8 DEF FlagsTell
<1> QED BY <1>2, <1>6, <1>7, <1>9, <1>10 DEF Inv

LEMMA JoinKeeps == ASSUME Inv, Join PROVE Inv'
<1>1. /\ Job("join") /\ req' = [req EXCEPT !.todo = Tail(@)]
      /\ thread \in {"none", "ended"}
      /\ CloseSession("playback", StopAndClose(server["playback"]))
      /\ thread' = IF thread = "ended" THEN "none" ELSE thread
      /\ queue' = <<>> /\ ready' = [ready EXCEPT !["playback"] = FALSE]
      /\ accepted' = 0 /\ received' = <<>>
      /\ UNCHANGED <<active, error, frame, timedOut>>
  BY DEF Join, Joined, Done, Cleared
<1>2. req' \in Requested /\ req'.todo = Tail(req.todo)
  BY <1>1, JobDone DEF Inv
<1>3. server["playback"] \in Session
  BY Directions DEF Inv, Types
<1>4. /\ server' \in [Dirs -> Session] /\ handle' \in Flags /\ unclean' \in Flags
      /\ SessionClosed'
  BY <1>1, <1>3, Directions, SessionIsClosed, StopAndCloseResult DEF Inv
<1>5. ready' \in Flags /\ ~ready'["playback"]
  BY <1>1, Directions DEF Inv, Types, Flags
<1>6. <<>> \in Seq(Nat) /\ Len(<<>>) = 0 /\ 0 \in Nat
  BY EmptySeq
<1>7. Types'
  BY <1>1, <1>2, <1>4, <1>5, <1>6 DEF Inv, Types
<1>8. Fresh'
  BY <1>1 DEF Fresh
<1>9. Orderly'
  BY <1>1, <1>2, <1>8, OrderTail DEF Inv
<1>10. ~active["playback"]
  BY <1>1, JobInHand
<1>11. Numbered'
  <2>1. 1 .. 0 = {}
    OBVIOUS
  <2> QED BY <1>1, <1>5, <1>6, <1>8, <2>1 DEF Numbered, Fresh
<1>12. FlagsTell'
  BY <1>1, <1>5, <1>6, <1>8, <1>10 DEF FlagsTell, Fresh
<1> QED BY <1>4, <1>7, <1>9, <1>11, <1>12 DEF Inv

(* The stream is over: no frame that the thread still has is needed.       *)
LEMMA ClearKeeps ==
  ASSUME Inv, Types', Orderly', SessionClosed',
         UNCHANGED <<thread, frame, accepted, received>>,
         ~ready'["playback"], ~active'["playback"],
         error'["playback"] = error["playback"],
         ready["playback"] /\ ~error["playback"] => accepted = Len(received),
         thread = "writing" => timedOut' /\ error["playback"]
  PROVE  Inv'
<1>1. Numbered'
  BY DEF Inv, Numbered
<1>2. FlagsTell'
  BY DEF Inv, FlagsTell
<1> QED BY <1>1, <1>2 DEF Inv

(* Whatever was accepted has been played when an EOS finds nothing wrong.  *)
LEMMA AllPlayed ==
  ASSUME Inv, Drained, ~error["playback"]
  PROVE  accepted = Len(received)
<1>1. CASE ~ready["playback"]
  BY <1>1 DEF Inv, FlagsTell
<1>2. CASE ready["playback"]
  <2>1. queue = <<>> /\ thread # "writing"
    BY <1>2 DEF Drained, Inv, FlagsTell
  <2>2. Len(queue) = 0 /\ Hand = 0 /\ Len(received) \in Nat
    BY <2>1, EmptySeq DEF Hand, Inv, Types
  <2> QED BY <1>2, <2>2 DEF Inv, Numbered
<1> QED BY <1>1, <1>2

LEMMA FinishKeeps == ASSUME Inv, Finish PROVE Inv'
<1>1. /\ Job("drain") /\ req' = [req EXCEPT !.todo = Tail(@)] /\ Drained
      /\ CloseSession("playback", DrainAndClose(server["playback"]))
      /\ queue' = <<>> /\ ready' = [ready EXCEPT !["playback"] = FALSE]
      /\ UNCHANGED <<active, error, thread, frame, accepted, received, timedOut>>
  BY DEF Finish, Done, Cleared
<1>2. req' \in Requested /\ req'.todo = Tail(req.todo)
  BY <1>1, JobDone DEF Inv
<1>3. server["playback"] \in Session
  BY Directions DEF Inv, Types
<1>4. /\ server' \in [Dirs -> Session] /\ handle' \in Flags /\ unclean' \in Flags
      /\ SessionClosed'
  BY <1>1, <1>3, Directions, SessionIsClosed, DrainAndCloseResult DEF Inv
<1>5. ready' \in Flags /\ ~ready'["playback"]
  BY <1>1, Directions DEF Inv, Types, Flags
<1>6. <<>> \in Seq(Nat)
  BY EmptySeq
<1>7. Types'
  BY <1>1, <1>2, <1>4, <1>5, <1>6 DEF Inv, Types
<1>8. Orderly'
  BY <1>1, <1>2, OrderTail DEF Inv
<1>9. ~active["playback"]
  BY <1>1, JobInHand
<1>10. thread = "writing" => timedOut /\ error["playback"]
  <2>1. ready["playback"] => thread # "writing"
    BY <1>1 DEF Drained, Inv, FlagsTell
  <2> QED BY <2>1 DEF Inv, FlagsTell
<1>11. ready["playback"] /\ ~error["playback"] => accepted = Len(received)
  BY <1>1, AllPlayed
<1> QED BY <1>1, <1>4, <1>5, <1>7, <1>8, <1>9, <1>10, <1>11, ClearKeeps

LEMMA CleanupKeeps == ASSUME Inv, Cleanup PROVE Inv'
<1>1. /\ Job("cleanup") /\ req' = [req EXCEPT !.todo = Tail(@)]
      /\ CloseSession("playback", StopAndClose(server["playback"]))
      /\ queue' = <<>> /\ ready' = [ready EXCEPT !["playback"] = FALSE]
      /\ timedOut' = TRUE
      /\ UNCHANGED <<active, error, thread, frame, accepted, received>>
  BY DEF Cleanup, Done, Cleared
<1>2. req' \in Requested /\ req'.todo = Tail(req.todo)
  BY <1>1, JobDone DEF Inv
<1>3. server["playback"] \in Session
  BY Directions DEF Inv, Types
<1>4. /\ server' \in [Dirs -> Session] /\ handle' \in Flags /\ unclean' \in Flags
      /\ SessionClosed'
  BY <1>1, <1>3, Directions, SessionIsClosed, StopAndCloseResult DEF Inv
<1>5. ready' \in Flags /\ ~ready'["playback"]
  BY <1>1, Directions DEF Inv, Types, Flags
<1>6. <<>> \in Seq(Nat)
  BY EmptySeq
<1>7. Types'
  BY <1>1, <1>2, <1>4, <1>5, <1>6 DEF Inv, Types
<1>8. Orderly'
  BY <1>1, <1>2, OrderTail DEF Inv
<1>9. ~active["playback"] /\ error["playback"]
  BY <1>1, JobInHand
<1> QED BY <1>1, <1>4, <1>5, <1>7, <1>8, <1>9, ClearKeeps

LEMMA GiveUpKeeps == ASSUME Inv, GiveUp PROVE Inv'
<1>1. /\ Job("drain") /\ req' = [req EXCEPT !.todo = <<"cleanup">>]
      /\ error' = [error EXCEPT !["playback"] = TRUE]
      /\ UNCHANGED <<active, ready, handle, server, thread, queue, frame, inFlight, accepted,
                     received, unclean, timedOut>>
  BY DEF GiveUp, worker, sides, history
<1>2. <<"cleanup">> \in Seq(JobName)
  BY OneJob DEF JobName
<1>3. req' \in Requested /\ req'.todo = <<"cleanup">>
  BY <1>1, <1>2 DEF Inv, Types, Requested
<1>4. error' \in Flags /\ error'["playback"]
  BY <1>1, Directions DEF Inv, Types, Flags
<1>5. Types' /\ SessionClosed'
  BY <1>1, <1>3, <1>4 DEF Inv, Types, SessionClosed
<1>6. Orderly'
  BY <1>1, <1>3, <1>4, JobInHand, OrderOne
<1>7. Numbered'
  <2>1. Hand' = Hand
    BY <1>1 DEF Hand
  <2> QED BY <1>1, <2>1 DEF Inv, Numbered
<1>8. FlagsTell'
  BY <1>1, <1>4 DEF Inv, FlagsTell
<1> QED BY <1>5, <1>6, <1>7, <1>8 DEF Inv

-----------------------------------------------------------------------------
(* Frames pushed and pulled, and the server.                               *)

LEMMA PushKeeps == ASSUME Inv, Push PROVE Inv'
<1>1. /\ req.todo = <<>> /\ active["playback"] /\ accepted' = accepted + 1
      /\ queue' = Append(queue, accepted')
      /\ UNCHANGED <<active, ready, error, handle, server, req, thread, frame, inFlight,
                     received, unclean, timedOut>>
  BY DEF Push, MayPush, Idle, flags, sides
<1>2. accepted' \in Nat /\ queue \in Seq(Nat) /\ Len(queue) \in Nat /\ Len(received) \in Nat
      /\ accepted \in Nat
  BY <1>1 DEF Inv, Types
<1>3. /\ queue' \in Seq(Nat) /\ Len(queue') = Len(queue) + 1
      /\ queue'[Len(queue) + 1] = accepted'
      /\ \A i \in 1 .. Len(queue) : queue'[i] = queue[i]
  BY <1>1, <1>2, AppendProperties
<1>4. Types' /\ SessionClosed'
  BY <1>1, <1>2, <1>3 DEF Inv, Types, SessionClosed
<1>5. Orderly'
  BY <1>1, OrderNone
<1>6. Numbered'
  <2>1. Hand' = Hand /\ Hand \in Nat
    BY <1>1 DEF Hand
  <2>2. ASSUME ready["playback"]
        PROVE  /\ accepted' = Len(received) + Hand + Len(queue')
               /\ \A i \in 1 .. Len(queue') : queue'[i] = Len(received) + Hand + i
    <3>1. /\ accepted = Len(received) + Hand + Len(queue)
          /\ \A i \in 1 .. Len(queue) : queue[i] = Len(received) + Hand + i
      BY <2>2 DEF Inv, Numbered
    <3>2. accepted' = Len(received) + Hand + (Len(queue) + 1)
      BY <1>1, <1>2, <2>1, <3>1
    <3>3. ASSUME NEW i \in 1 .. Len(queue') PROVE queue'[i] = Len(received) + Hand + i
      <4>1. i = Len(queue) + 1 \/ i \in 1 .. Len(queue)
        BY <1>2, <1>3, <3>3
      <4> QED BY <1>3, <3>1, <3>2, <4>1
    <3> QED BY <1>3, <3>2, <3>3
  <2> QED BY <1>1, <2>1, <2>2 DEF Inv, Numbered
<1>7. FlagsTell'
  BY <1>1 DEF Inv, FlagsTell
<1> QED BY <1>4, <1>5, <1>6, <1>7 DEF Inv

LEMMA PullKeeps == ASSUME Inv, Pull PROVE Inv'
<1>1. PICK r \in Called(server["capture"], server["capture"], server["capture"] = "running") :
        /\ ready' = [ready EXCEPT !["capture"] = r.ok]
        /\ error' = [error EXCEPT !["capture"] = ~r.ok]
  BY DEF Pull
<1>2. /\ req.todo = <<>>
      /\ UNCHANGED <<active, handle, server, req, thread, queue, frame, inFlight, accepted,
                     received, unclean, timedOut>>
  BY DEF Pull, Idle, worker, sides, history
<1>3. r.ok \in BOOLEAN
  <2>1. (server["capture"] = "running") \in BOOLEAN
    OBVIOUS
  <2> QED BY <1>1, <2>1, CallResult DEF Result
<1>4. /\ ready' \in Flags /\ error' \in Flags
      /\ ready'["playback"] = ready["playback"] /\ error'["playback"] = error["playback"]
  BY <1>1, <1>3, Directions DEF Inv, Types, Flags
<1>5. Types' /\ SessionClosed'
  BY <1>2, <1>4 DEF Inv, Types, SessionClosed
<1>6. Orderly'
  BY <1>2, OrderNone
<1> QED BY <1>2, <1>4, <1>5, <1>6, AsideKeeps

LEMMA ReplaceKeeps == ASSUME Inv, Replace PROVE Inv'
<1>1. /\ server' = [d \in Dirs |-> "none"] /\ unclean' = [d \in Dirs |-> FALSE]
      /\ UNCHANGED <<active, ready, error, handle, req, thread, queue, frame, inFlight, accepted,
                     received, timedOut>>
  BY DEF Replace, flags, worker
<1>2. server' \in [Dirs -> Session] /\ unclean' \in Flags /\ \A d \in Dirs : server'[d] = "none"
  BY <1>1 DEF Session, Flags
<1>3. Types' /\ SessionClosed'
  BY <1>1, <1>2 DEF Inv, Types, SessionClosed
<1>4. Orderly'
  BY <1>1, OrderSame DEF Inv, Fresh
<1> QED BY <1>1, <1>3, <1>4, AsideKeeps

-----------------------------------------------------------------------------
LEMMA InitHolds == Init => Inv
<1> SUFFICES ASSUME Init PROVE Inv
  OBVIOUS
<1>1. <<>> \in Seq(Nat) /\ <<>> \in Seq(JobName) /\ Len(<<>>) = 0 /\ 0 \in Nat
  BY EmptySeq
<1>2. Types
  BY <1>1 DEF Init, Types, Flags, Session, Requested
<1>3. 1 .. 0 = {}
  OBVIOUS
<1>4. Orderly
  BY <1>1, <1>3 DEF Init, Orderly
<1>5. Numbered
  BY <1>1, <1>3, Directions DEF Init, Numbered
<1>6. FlagsTell
  BY <1>1, Directions DEF Init, FlagsTell
<1>7. SessionClosed
  BY DEF Init, SessionClosed
<1> QED BY <1>2, <1>4, <1>5, <1>6, <1>7 DEF Inv

LEMMA NextKeeps ==
  ASSUME Inv, [Next]_vars
  PROVE  Inv'
<1>1. CASE UNCHANGED vars
  <2>1. UNCHANGED <<active, ready, error, handle, server, req, thread, queue, frame, inFlight,
                    accepted, received, unclean, timedOut>>
    BY <1>1 DEF vars, flags, worker, sides, history
  <2>2. Types' /\ SessionClosed'
    BY <2>1 DEF Inv, Types, SessionClosed
  <2>3. Orderly'
    BY <2>1, OrderSame DEF Inv, Fresh
  <2> QED BY <2>1, <2>2, <2>3, AsideKeeps
<1>2. CASE \E dirs \in (SUBSET Dirs) \ {{}} : Run(dirs)
  BY <1>2, RunKeeps
<1>3. CASE Stop \/ Eos \/ Push \/ Pull \/ Replace
  BY <1>3, StopKeeps, EosKeeps, PushKeeps, PullKeeps, ReplaceKeeps
<1>4. CASE Step
  BY <1>4, HaltKeeps, JoinKeeps, StartKeeps, CloseCaptureKeeps, StartCaptureKeeps, ReportKeeps,
     FinishKeeps, GiveUpKeeps, CleanupKeeps DEF Step
<1>5. CASE Thread
  BY <1>5, TakeKeeps, WriteKeeps, ExitKeeps DEF Thread
<1> QED BY <1>1, <1>2, <1>3, <1>4, <1>5 DEF Next

LEMMA Invariance == Spec => []Inv
<1> QED BY InitHolds, NextKeeps, PTL DEF Spec

(* Whatever fails, however late an EOS gives up and whenever the server is *)
(* replaced, the frames of a stream reach the server in order, none left   *)
(* out and none twice (PlaybackWorker::run, stop, finish).                 *)
THEOREM FramesInOrder == Spec => []PlayedInOrder
<1>1. ASSUME Inv PROVE PlayedInOrder
  <2> DEFINE all == [i \in 1 .. Len(received) |-> i]
  <2>1. received \in Seq(Nat) /\ \A i \in 1 .. Len(received) : received[i] = i
    BY <1>1 DEF Inv, Types, Numbered
  <2>2. received \in [1 .. Len(received) -> Nat]
    BY <2>1, LenProperties
  <2> QED BY <2>1, <2>2 DEF PlayedInOrder
<1> QED BY <1>1, Invariance, PTL

(* The thread writes only through a session that its worker holds, and a   *)
(* worker that has given its handle up leaves a session behind only when a *)
(* call to it failed.                                                      *)
THEOREM HandlesAlwaysMatch == Spec => []HandlesMatchSessions
<1>1. ASSUME Inv PROVE HandlesMatchSessions
  BY <1>1 DEF Inv, FlagsTell, HandlesMatchSessions, WriterHasSession
<1> QED BY <1>1, Invariance, PTL

(* An EOS that is answered ok has played all that was accepted, with any   *)
(* queue and however the requests fall between the thread's steps.         *)
THEOREM EosOkAlwaysPlayed == Spec => EosOkMeansPlayed
<1> DEFINE A == answer' # answer /\ answer' = "ok" => Len(received') = accepted'
<1>1. ASSUME Inv, Next PROVE A
  <2>1. CASE Finish
    BY <1>1, <2>1, AllPlayed DEF Finish
  <2>2. CASE Cleanup \/ Eos
    BY <2>2 DEF Cleanup, Eos
  <2>3. CASE Halt \/ Join \/ Start \/ CloseCapture \/ StartCapture \/ Report \/ GiveUp \/ Thread
             \/ Stop \/ Push \/ Pull \/ Replace \/ \E dirs \in (SUBSET Dirs) \ {{}} : Run(dirs)
    <3>1. UNCHANGED answer
      BY <2>3 DEF Halt, Join, Start, CloseCapture, StartCapture, Report, GiveUp, Thread, Take, Write,
                  Exit, Stop, Push, Pull, Replace, Run, history
    <3> QED BY <3>1
  <2> QED BY <1>1, <2>1, <2>2, <2>3 DEF Next, Step
<1>2. Inv /\ [Next]_vars => [A]_vars
  BY <1>1
<1> QED BY <1>2, Invariance, PTL DEF Spec, EosOkMeansPlayed
-----------------------------------------------------------------------------
(***************************************************************************)
(* The project and its builds.                                             *)
(***************************************************************************)

(* The shapes of the records, whatever their documents are.                *)
IsRec(r) == r = [open |-> r.open, rev |-> r.rev, ok |-> r.ok, loaded |-> r.loaded,
                 validated |-> r.validated]
IsProc(p) == p = [doc |-> p.doc, sel |-> p.sel, lead |-> p.lead, live |-> p.live,
                  wrote |-> p.wrote, left |-> p.left]

Building == {"regenerate", "write", "compile", "fork", "poll", "record"}

(* What may be saved is what was built last.                               *)
SaveInv ==
  /\ IsRec(rec)
  /\ rec.ok \in BOOLEAN /\ rec.open \in BOOLEAN
  /\ rec.ok => rec.open /\ pc \notin Building /\ lastBuilt = ws
  /\ pc # "idle" => rec.open
  /\ pc = "compile" => ws \in {next, Torn}
  /\ pc \in {"fork", "poll", "record"} => ws = next

(* A session is forked when none is recorded, and recorded next.           *)
LeakInv ==
  /\ \E S : procs \in Seq(S)
  /\ \A p \in DOMAIN procs : IsProc(procs[p]) /\ (procs[p].lead => procs[p].live)
  /\ pc \notin {"poll", "record"} => child = 0
  /\ pc \in Building \ {"record"} => sessions = 0
  /\ pc = "record" => sessions = child
  /\ NoSessionLeaks

LEMMA RecOpened ==
  ASSUME SaveInv
  PROVE  /\ IsRec(Opened) /\ Opened.open = TRUE /\ Opened.ok \in BOOLEAN
         /\ Opened.ok => rec.ok /\ rec.open
         /\ rec.open => Opened = rec
<1>1. CASE rec.open
  BY <1>1 DEF Opened, SaveInv
<1>2. CASE ~rec.open
  BY <1>2 DEF Opened, Closed, IsRec
<1> QED BY <1>1, <1>2

LEMMA OpenFileKeeps ==
  ASSUME SaveInv, OpenFile
  PROVE  rec.open => ws' = ws
BY DEF OpenFile

LEMMA SaveKept ==
  ASSUME SaveInv, [ProjectNext]_projectVars
  PROVE  SaveInv'
<1> USE DEF Building
<1>1. CASE UNCHANGED <<ws, rec, lastBuilt, pc, next>>
  BY <1>1 DEF SaveInv
<1>2. CASE Open \/ \E s \in Snapshots : BuildRequest(s)
  <2>1. /\ rec' = Opened /\ OpenFile /\ lastBuilt' = lastBuilt /\ next' = next
        /\ pc = "idle" /\ pc' \in {"idle", "stop"}
    BY <1>2 DEF Open, BuildRequest, build, projectHistory
  <2> QED BY <2>1, RecOpened, OpenFileKeeps DEF SaveInv
<1>3. CASE Unload
  <2>1. /\ rec' = [Opened EXCEPT !.loaded = {}, !.validated = {}]
        /\ OpenFile /\ UNCHANGED <<lastBuilt, pc, next>> /\ pc = "idle"
    BY <1>3 DEF Unload, build, projectHistory
  <2>2. /\ IsRec(rec') /\ rec'.open = Opened.open /\ rec'.ok = Opened.ok
    BY <2>1, RecOpened DEF IsRec
  <2> QED BY <2>1, <2>2, RecOpened, OpenFileKeeps DEF SaveInv
<1>4. CASE Restart
  BY <1>4 DEF Restart, Closed, IsRec, SaveInv
<1>5. CASE BuildStop
  <2>1. /\ rec' = [rec EXCEPT !.loaded = {}, !.validated = {}, !.ok = FALSE] /\ pc' = "regenerate"
    BY <1>5 DEF BuildStop, Unbuilt
  <2>2. pc = "stop" /\ rec.open = TRUE
    BY <1>5 DEF BuildStop, SaveInv
  <2>3. IsRec(rec') /\ rec'.open = TRUE /\ rec'.ok = FALSE
    BY <2>1, <2>2 DEF SaveInv, IsRec
  <2>4. ws' = ws /\ next' = next
    BY <1>5 DEF BuildStop, files
  <2> QED BY <2>1, <2>3, <2>4 DEF SaveInv
<1>6. CASE BuildRegenerate
  <2>1. /\ rec' = rec /\ ws' = ws /\ lastBuilt' = lastBuilt
        /\ pc = "regenerate" /\ pc' \in {"idle", "write"}
    BY <1>6 DEF BuildRegenerate, Fails, files
  <2>2. IsRec(rec) /\ rec.open = TRUE /\ rec.ok = FALSE
    BY <2>1 DEF SaveInv
  <2>3. IsRec(rec') /\ rec'.open = TRUE /\ rec'.ok = FALSE
    BY <2>1, <2>2
  <2> QED BY <2>1, <2>3 DEF SaveInv
<1>7. CASE BuildWrite
  <2>1. PICK told \in BOOLEAN :
          /\ Written(ws, next, told)
          /\ IF told
             THEN /\ rec' = [rec EXCEPT !.ok = FALSE, !.rev = @ + 1]
                  /\ pc' = "compile"
                  /\ UNCHANGED <<snap, next, child>>
             ELSE Fails /\ UNCHANGED rec
    BY <1>7 DEF BuildWrite
  <2>2. pc = "write" /\ rec.open = TRUE /\ ~rec.ok
    BY <1>7 DEF BuildWrite, SaveInv
  <2>3. CASE told
    <3>1. rec' = [rec EXCEPT !.ok = FALSE, !.rev = @ + 1] /\ pc' = "compile" /\ next' = next
      BY <2>1, <2>3
    <3>2. IsRec(rec') /\ rec'.open = TRUE /\ rec'.ok = FALSE
      BY <2>2, <3>1 DEF SaveInv, IsRec
    <3>3. ws' \in {next, Torn}
      BY <2>1, <2>3 DEF Written
    <3> QED BY <3>1, <3>2, <3>3 DEF SaveInv
  <2>4. CASE ~told
    <3>1. rec' = rec /\ pc' = "idle" /\ lastBuilt' = lastBuilt
      BY <1>7, <2>1, <2>4 DEF BuildWrite, Fails, projectHistory
    <3>2. IsRec(rec) /\ rec.open = TRUE /\ rec.ok = FALSE
      BY <2>2 DEF SaveInv
    <3>3. IsRec(rec') /\ rec'.open = TRUE /\ rec'.ok = FALSE
      BY <3>1, <3>2
    <3> QED BY <3>1, <3>3 DEF SaveInv
  <2> QED BY <2>3, <2>4
<1>8. CASE BuildCompile
  <2>1. /\ rec' = rec /\ ws' = ws /\ lastBuilt' = lastBuilt /\ pc = "compile"
        /\ \/ ws # Torn /\ pc' = "fork" /\ next' = next
           \/ pc' = "idle"
    BY <1>8 DEF BuildCompile, Fails, files, projectHistory
  <2> QED BY <2>1 DEF SaveInv
<1>9. CASE BuildFork \/ PollReady \/ PollEnded \/ PollTimeout
  <2>1. /\ rec' = rec /\ ws' = ws /\ lastBuilt' = lastBuilt /\ pc \in {"fork", "poll"}
        /\ \/ pc' \in {"poll", "record"} /\ next' = next
           \/ pc' = "idle"
    BY <1>9 DEF BuildFork, PollReady, PollEnded, PollTimeout, Fails, files, projectHistory
  <2> QED BY <2>1 DEF SaveInv
<1>10. CASE BuildRecord
  <2>1. /\ rec' = [rec EXCEPT !.validated = PipeIds(next), !.loaded = PipeIds(next),
                              !.ok = PipeIds(next) # {}]
        /\ lastBuilt' = next /\ ws' = ws /\ pc = "record" /\ pc' = "idle"
    BY <1>10 DEF BuildRecord, files
  <2>2. IsRec(rec') /\ rec'.open = rec.open /\ rec'.ok \in BOOLEAN
    BY <2>1 DEF SaveInv, IsRec
  <2>3. ws = next
    BY <2>1 DEF SaveInv
  <2>4. rec.open
    BY <2>1 DEF SaveInv
  <2> QED BY <2>1, <2>2, <2>3, <2>4 DEF SaveInv
<1>11. CASE Save \/ \E p \in DOMAIN procs : Ready(p) \/ Ends(p)
  BY <1>1, <1>11 DEF Save, Ready, Ends, build, files, projectHistory
<1> QED BY <1>1, <1>2, <1>3, <1>4, <1>5, <1>6, <1>7, <1>8, <1>9, <1>10, <1>11
        DEF ProjectNext, BuildStep, projectVars, files, build, projectHistory

-----------------------------------------------------------------------------
(* A step that changes one session leaves the others as they were.         *)
LEMMA OneChanges ==
  ASSUME LeakInv, NEW q, NEW e, procs' = [procs EXCEPT ![q] = e]
  PROVE  /\ \E S : procs' \in Seq(S)
         /\ DOMAIN procs' = DOMAIN procs
         /\ \A p \in DOMAIN procs : procs'[p] = IF p = q THEN e ELSE procs[p]
<1>1. PICK S : procs \in Seq(S)
  BY DEF LeakInv
<1>2. DOMAIN procs = 1 .. Len(procs) /\ Len(procs) \in Nat
  BY <1>1, LenProperties
<1>3. CASE q \in DOMAIN procs
  <2>1. procs \in Seq(S \cup {e})
    BY <1>1, SeqMonotonic
  <2>2. procs' \in Seq(S \cup {e})
    BY <1>2, <1>3, <2>1, ExceptSeq
  <2> QED BY <1>3, <2>2
<1>4. CASE q \notin DOMAIN procs
  <2>1. procs = [p \in DOMAIN procs |-> procs[p]]
    BY <1>1
  <2>2. procs' = procs
    BY <1>4, <2>1
  <2> QED BY <1>1, <1>4, <2>2
<1> QED BY <1>3, <1>4

(* A session never comes back to life, gets its leader back, forgets what  *)
(* it was started for or when it wrote the marker, or is taken up again.   *)
Ages(g, f) ==
  /\ IsProc(f) /\ (f.lead => f.live)
  /\ f.doc = g.doc /\ f.sel = g.sel
  /\ f.lead => g.lead
  /\ f.live => g.live
  /\ g.wrote # 0 => f.wrote = g.wrote
  /\ g.left # "no" => f.left # "no"

(* A session the backend need not answer for.                              *)
GivenAway(g) == ~g.lead /\ (g.live => g.left # "no")

LEMMA SameAges ==
  ASSUME LeakInv, NEW p \in DOMAIN procs
  PROVE  Ages(procs[p], procs[p])
BY DEF LeakInv, Ages

LEMMA StayGivenAway ==
  ASSUME NEW g, NEW f, Ages(g, f), GivenAway(g)
  PROVE  GivenAway(f)
BY DEF Ages, GivenAway

LEMMA SignalledAges ==
  ASSUME NEW g, IsProc(g), g.lead => g.live, NEW f \in Signalled(g)
  PROVE  Ages(g, f) /\ GivenAway(f)
<1>1. CASE ~g.live
  BY <1>1 DEF Signalled, Ages, GivenAway
<1>2. CASE g.live
  <2>1. PICK survivors \in BOOLEAN :
          f = [g EXCEPT !.lead = FALSE, !.live = survivors, !.left = "signalled"]
    BY <1>2 DEF Signalled
  <2>2. /\ IsProc(f) /\ f.lead = FALSE /\ f.left = "signalled"
        /\ f.doc = g.doc /\ f.sel = g.sel /\ f.wrote = g.wrote
    BY <2>1 DEF IsProc
  <2> QED BY <1>2, <2>2 DEF Ages, GivenAway
<1> QED BY <1>1, <1>2

(* What a step does to the sessions there were.                            *)
ProcsAge ==
  /\ \E S : procs' \in Seq(S)
  /\ DOMAIN procs' = DOMAIN procs
  /\ \A p \in DOMAIN procs : Ages(procs[p], procs'[p])

LEMMA SameProcs ==
  ASSUME LeakInv, procs' = procs
  PROVE  ProcsAge
BY SameAges DEF LeakInv, ProcsAge

LEMMA OneAges ==
  ASSUME LeakInv, NEW q, NEW e, procs' = [procs EXCEPT ![q] = e],
         q \in DOMAIN procs => Ages(procs[q], e)
  PROVE  ProcsAge
<1>1. /\ \E S : procs' \in Seq(S)
      /\ DOMAIN procs' = DOMAIN procs
      /\ \A p \in DOMAIN procs : procs'[p] = IF p = q THEN e ELSE procs[p]
  BY OneChanges
<1>2. ASSUME NEW p \in DOMAIN procs PROVE Ages(procs[p], procs'[p])
  BY <1>1, SameAges
<1> QED BY <1>1, <1>2 DEF ProcsAge

LEMMA StopGroupAges ==
  ASSUME LeakInv, NEW q, StopGroup(q)
  PROVE  ProcsAge /\ (q \in DOMAIN procs => GivenAway(procs'[q]))
<1>1. PICK e \in Signalled(procs[q]) : procs' = [procs EXCEPT ![q] = e]
  BY DEF StopGroup
<1>2. q \in DOMAIN procs => Ages(procs[q], e) /\ GivenAway(e)
  BY SignalledAges DEF LeakInv
<1>3. q \in DOMAIN procs => procs'[q] = e
  BY <1>1, OneChanges
<1> QED BY <1>1, <1>2, <1>3, OneAges

LEMMA ReadyAges ==
  ASSUME LeakInv, NEW q \in DOMAIN procs, Ready(q)
  PROVE  ProcsAge /\ procs'[q].wrote = Len(procs)
<1> DEFINE e == [procs[q] EXCEPT !.wrote = Len(procs)]
<1>1. procs' = [procs EXCEPT ![q] = e] /\ procs[q].wrote = 0
  BY DEF Ready
<1>2. Ages(procs[q], e) /\ e.wrote = Len(procs)
  BY <1>1 DEF LeakInv, IsProc, Ages
<1> HIDE DEF e
<1>3. procs'[q] = e
  BY <1>1, OneChanges
<1> QED BY <1>1, <1>2, <1>3, OneAges

LEMMA EndedAges ==
  ASSUME NEW g, IsProc(g), g.live, NEW rest \in BOOLEAN,
         NEW f, f = [g EXCEPT !.lead = FALSE, !.live = rest]
  PROVE  Ages(g, f)
<1>1. /\ IsProc(f) /\ f.lead = FALSE
      /\ f.doc = g.doc /\ f.sel = g.sel /\ f.wrote = g.wrote /\ f.left = g.left
  BY DEF IsProc
<1> QED BY <1>1 DEF Ages

LEMMA EndsAges ==
  ASSUME LeakInv, NEW q \in DOMAIN procs, Ends(q)
  PROVE  ProcsAge
<1>1. PICK rest \in BOOLEAN : procs' = [procs EXCEPT ![q].lead = FALSE, ![q].live = rest]
  BY DEF Ends
<1> DEFINE e == [procs[q] EXCEPT !.lead = FALSE, !.live = rest]
<1>2. procs' = [procs EXCEPT ![q] = e]
  BY <1>1
<1>3. procs[q].live
  BY DEF Ends
<1>4. IsProc(procs[q])
  BY DEF LeakInv
<1>5. Ages(procs[q], e)
  BY <1>3, <1>4, EndedAges
<1> HIDE DEF e
<1> QED BY <1>2, <1>5, OneAges

(* The session of a build whose leader has ended is left as it is.         *)
LEMMA ReapedAges ==
  ASSUME LeakInv, PollEnded
  PROVE  ProcsAge /\ (child \in DOMAIN procs => GivenAway(procs'[child]))
<1> DEFINE e == [procs[child] EXCEPT !.left = "reaped"]
<1>1. procs' = [procs EXCEPT ![child] = e] /\ ~procs[child].lead
  BY DEF PollEnded
<1>2. child \in DOMAIN procs => Ages(procs[child], e) /\ GivenAway(e)
  BY <1>1 DEF LeakInv, IsProc, Ages, GivenAway
<1> HIDE DEF e
<1>3. child \in DOMAIN procs => procs'[child] = e
  BY <1>1, OneChanges
<1> QED BY <1>1, <1>2, <1>3, OneAges

LEMMA NumberedFromOne ==
  ASSUME LeakInv
  PROVE  0 \notin DOMAIN procs
<1>1. PICK S : procs \in Seq(S)
  BY DEF LeakInv
<1> QED BY <1>1, LenProperties

(* Nothing leaks in a step that gives away no session it should stop.      *)
LEMMA AgingKeeps ==
  ASSUME LeakInv, ProcsAge,
         \A p \in (DOMAIN procs \cap Held) \ Held' : GivenAway(procs'[p])
  PROVE  /\ \E S : procs' \in Seq(S)
         /\ \A p \in DOMAIN procs' : IsProc(procs'[p]) /\ (procs'[p].lead => procs'[p].live)
         /\ NoSessionLeaks'
<1>1. \A p \in DOMAIN procs \ Held : GivenAway(procs[p])
  BY DEF LeakInv, NoSessionLeaks, GivenAway
<1>2. \A p \in DOMAIN procs \ Held' : GivenAway(procs'[p])
  BY <1>1, StayGivenAway DEF ProcsAge
<1>3. NoSessionLeaks'
  BY <1>2 DEF NoSessionLeaks, GivenAway, ProcsAge
<1> QED BY <1>3 DEF ProcsAge, Ages

LEMMA LeakKept ==
  ASSUME LeakInv, [ProjectNext]_projectVars
  PROVE  LeakInv'
<1> USE DEF Building
<1>1. CASE UNCHANGED <<procs, sessions, orphans, child, pc>>
  <2>1. Held' = Held
    BY <1>1 DEF Held
  <2> QED BY <1>1, <2>1 DEF LeakInv, NoSessionLeaks
<1>2. CASE \E s \in Snapshots : BuildRequest(s)
  <2>1. UNCHANGED <<procs, sessions, orphans, child>> /\ pc = "idle" /\ pc' \in {"idle", "stop"}
    BY <1>2 DEF BuildRequest, runner, projectHistory
  <2>2. Held' = Held
    BY <2>1 DEF Held
  <2> QED BY <2>1, <2>2 DEF LeakInv, NoSessionLeaks
<1>3. CASE Unload \/ BuildStop
  <2>1. /\ StopSession /\ UNCHANGED <<orphans, child>> /\ pc \in {"idle", "stop"}
        /\ pc' \in {"idle", "regenerate"} /\ sessions' = 0
    BY <1>3 DEF Unload, BuildStop, build, projectHistory, StopSession
  <2>2. Held \ Held' \subseteq {sessions}
    BY <2>1 DEF Held
  <2>3. ProcsAge /\ (sessions \in DOMAIN procs => GivenAway(procs'[sessions]))
    BY <2>1, SameProcs, StopGroupAges, NumberedFromOne DEF StopSession
  <2>4. \A p \in (DOMAIN procs \cap Held) \ Held' : GivenAway(procs'[p])
    BY <2>2, <2>3
  <2> QED BY <2>1, <2>3, <2>4, AgingKeeps DEF LeakInv
<1>4. CASE BuildRegenerate \/ BuildWrite \/ BuildCompile
  <2>1. /\ UNCHANGED <<procs, sessions, orphans>> /\ pc \in {"regenerate", "write", "compile"}
        /\ pc' \in {"idle", "write", "compile", "fork"} /\ child' \in {0, child}
    BY <1>4 DEF BuildRegenerate, BuildWrite, BuildCompile, Fails, runner, projectHistory
  <2>2. child = 0
    BY <2>1 DEF LeakInv
  <2>3. Held' = Held
    BY <2>1, <2>2 DEF Held
  <2> QED BY <2>1, <2>2, <2>3 DEF LeakInv, NoSessionLeaks
<1>5. CASE BuildFork
  <2>1. pc = "fork" /\ UNCHANGED <<sessions, orphans>> /\ child = 0 /\ sessions = 0
    BY <1>5 DEF BuildFork, projectHistory, LeakInv
  <2>2. CASE procs' = procs /\ pc' = "idle" /\ child' = 0
    <3>1. Held' = Held
      BY <2>1, <2>2 DEF Held
    <3> QED BY <2>1, <2>2, <3>1 DEF LeakInv, NoSessionLeaks
  <2>3. CASE Fork(ws) /\ pc' = "poll"
    <3> DEFINE e == NewGroup(ws, Selector(snap, ws.pipes))
    <3>1. procs' = Append(procs, e) /\ child' = Len(procs) + 1
      BY <2>3 DEF Fork
    <3>2. IsProc(e) /\ e.live
      BY DEF IsProc, NewGroup
    <3>3. PICK S : procs \in Seq(S)
      BY DEF LeakInv
    <3> HIDE DEF e
    <3>4. procs \in Seq(S \cup {e})
      BY <3>3, SeqMonotonic
    <3>5. /\ procs' \in Seq(S \cup {e}) /\ Len(procs') = Len(procs) + 1 /\ Len(procs) \in Nat
          /\ \A p \in 1 .. Len(procs) : procs'[p] = procs[p]
          /\ procs'[Len(procs) + 1] = e
      BY <3>1, <3>4, AppendProperties
    <3>6. DOMAIN procs = 1 .. Len(procs) /\ DOMAIN procs' = 1 .. Len(procs')
      BY <3>4, <3>5, LenProperties
    <3>7. \A p \in DOMAIN procs' : p = child' \/ p \in DOMAIN procs
      BY <3>1, <3>5, <3>6
    <3>8. \A p \in DOMAIN procs' : IsProc(procs'[p]) /\ (procs'[p].lead => procs'[p].live)
      BY <3>1, <3>2, <3>5, <3>6, <3>7 DEF LeakInv
    <3>9. Held' = Held \cup {child'}
      BY <2>1 DEF Held
    <3>10. \A p \in DOMAIN procs' \ Held' : p \in DOMAIN procs \ Held /\ procs'[p] = procs[p]
      BY <3>5, <3>6, <3>7, <3>9
    <3>11. NoSessionLeaks'
      BY <3>10 DEF LeakInv, NoSessionLeaks
    <3> QED BY <2>1, <2>3, <3>5, <3>8, <3>11 DEF LeakInv
  <2> QED BY <1>5, <2>2, <2>3 DEF BuildFork, Fails
<1>6. CASE PollReady
  <2>1. /\ UNCHANGED <<procs, orphans, child>> /\ pc = "poll" /\ pc' = "record" /\ sessions' = child
    BY <1>6 DEF PollReady, projectHistory
  <2>2. sessions = 0
    BY <2>1 DEF LeakInv
  <2>3. Held \ Held' \subseteq {0}
    BY <2>1, <2>2 DEF Held
  <2>4. \A p \in (DOMAIN procs \cap Held) \ Held' : GivenAway(procs'[p])
    BY <2>3, NumberedFromOne
  <2> QED BY <2>1, <2>4, SameProcs, AgingKeeps DEF LeakInv
<1>7. CASE PollEnded \/ PollTimeout
  <2>1. /\ UNCHANGED <<sessions, orphans>> /\ pc' = "idle" /\ child' = 0
        /\ PollEnded \/ StopGroup(child)
    BY <1>7 DEF PollEnded, PollTimeout, GivenUp, Fails, projectHistory
  <2>2. Held \ Held' \subseteq {child}
    BY <2>1 DEF Held
  <2>3. ProcsAge /\ (child \in DOMAIN procs => GivenAway(procs'[child]))
    BY <2>1, ReapedAges, StopGroupAges
  <2>4. \A p \in (DOMAIN procs \cap Held) \ Held' : GivenAway(procs'[p])
    BY <2>2, <2>3
  <2> QED BY <2>1, <2>3, <2>4, AgingKeeps DEF LeakInv
<1>8. CASE BuildRecord
  <2>1. UNCHANGED <<procs, sessions, orphans>> /\ pc = "record" /\ pc' = "idle" /\ child' = 0
    BY <1>8 DEF BuildRecord, runner
  <2>2. sessions = child
    BY <2>1 DEF LeakInv
  <2>3. Held \ Held' = {}
    BY <2>1, <2>2 DEF Held
  <2>4. \A p \in (DOMAIN procs \cap Held) \ Held' : GivenAway(procs'[p])
    BY <2>3
  <2> QED BY <2>1, <2>4, SameProcs, AgingKeeps DEF LeakInv
<1>9. CASE Restart
  <2>1. /\ procs' = procs /\ orphans' = orphans \cup DOMAIN procs /\ child' = 0 /\ pc' = "idle"
    BY <1>9 DEF Restart
  <2>2. DOMAIN procs \subseteq Held'
    BY <2>1 DEF Held
  <2>3. \A p \in (DOMAIN procs \cap Held) \ Held' : GivenAway(procs'[p])
    BY <2>2
  <2> QED BY <2>1, <2>3, SameProcs, AgingKeeps DEF LeakInv
<1>10. CASE \E q \in DOMAIN procs : Ready(q) \/ Ends(q)
  <2>1. UNCHANGED <<sessions, orphans, child, pc>>
    BY <1>10 DEF Ready, Ends, build, projectHistory
  <2>2. ProcsAge
    BY <1>10, ReadyAges, EndsAges
  <2>3. \A p \in (DOMAIN procs \cap Held) \ Held' : GivenAway(procs'[p])
    BY <2>1 DEF Held
  <2> QED BY <2>1, <2>2, <2>3, AgingKeeps DEF LeakInv
<1>11. CASE Open \/ Save
  BY <1>1, <1>11 DEF Open, Save, build, runner, projectHistory
<1> QED BY <1>1, <1>2, <1>3, <1>4, <1>5, <1>6, <1>7, <1>8, <1>9, <1>10, <1>11
        DEF ProjectNext, BuildStep, projectVars, runner, build, projectHistory

-----------------------------------------------------------------------------
(* What is loaded is what was started.                                     *)

(* A document, as opposed to the marks of a torn and of a missing file.    *)
IsDoc(d) ==
  d = [insts |-> d.insts, pipes |-> d.pipes, presets |-> d.presets, view |-> d.view]

Generating == Building \ {"regenerate"}

(* Session p was started for the document, to install one of its pipelines.*)
StartedFor(p, doc) ==
  /\ p \in DOMAIN procs
  /\ procs[p].doc = doc
  /\ procs[p].sel \in DOMAIN doc.pipes

(* Since session p was forked the marker was written, by itself or by      *)
(* processes left behind.                                                  *)
FoundReady(p) ==
  \E q \in DOMAIN procs :
    procs[q].wrote = p /\ (q = p \/ q \in orphans \/ ~procs[q].lead)

(* No session was forked after p.                                          *)
Newest(p) == p \in DOMAIN procs /\ \A q \in DOMAIN procs : q <= p

(* The build on its way to what it will show as loaded, and what is shown. *)
PathInv ==
  /\ pc # "idle" => snap \in Snapshots
  /\ pc \in Generating =>
       IsDoc(next) /\ next.pipes # <<>> /\ next.pipes \in Seq(ToSet(next.pipes))
  /\ pc \in {"poll", "record"} => StartedFor(child, next)
  /\ pc = "poll" => Newest(child) /\ (marker = 0 \/ FoundReady(child))
  /\ pc = "record" => FoundReady(child)

ShownInv ==
  rec.loaded # {} =>
    /\ rec.open /\ pc \in {"idle", "stop"}
    /\ IsDoc(ws) /\ rec.loaded = PipeIds(ws)
    /\ StartedFor(sessions, ws) /\ FoundReady(sessions)

LoadedInv == PathInv /\ ShownInv

LEMMA FirstOf ==
  ASSUME NEW S, S \subseteq Nat, S # {}
  PROVE  (CHOOSE i \in S : \A j \in S : i <= j) \in S
<1>1. PICK x \in S : \A y \in S : <<y, x>> \notin OpToRel(<, Nat)
  BY WFMin, NatLessThanWellFounded, Zenon
<1>2. \A y \in S : ~(y < x)
  BY <1>1, Zenon DEF OpToRel
<1>3. \A y \in S : x <= y
  BY <1>2
<1> QED BY <1>3

(* The session installs a pipeline of the document.                        *)
LEMMA SelectorIn ==
  ASSUME NEW s, NEW pipes, pipes \in Seq(ToSet(pipes)), pipes # <<>>
  PROVE  Selector(s, pipes) \in DOMAIN pipes
<1>1. DOMAIN pipes \subseteq Nat /\ 1 \in DOMAIN pipes
  <2>1. DOMAIN pipes = 1 .. Len(pipes) /\ Len(pipes) \in Nat /\ Len(pipes) # 0
    BY LenProperties, EmptySeq
  <2> QED BY <2>1
<1> DEFINE at(id) == {i \in DOMAIN pipes : pipes[i].id = id}
           first(is) == CHOOSE i \in is : \A j \in is : i <= j
<1>2. \A id : at(id) # {} => first(at(id)) \in DOMAIN pipes
  <2> SUFFICES ASSUME NEW id, at(id) # {} PROVE first(at(id)) \in DOMAIN pipes
    OBVIOUS
  <2>1. at(id) \subseteq DOMAIN pipes
    OBVIOUS
  <2> HIDE DEF at
  <2>2. first(at(id)) \in at(id)
    BY <1>1, <2>1, FirstOf
  <2> QED BY <2>1, <2>2
<1>3. Selector(s, pipes) = IF at(GroupPipeline(s)) # {} THEN first(at(GroupPipeline(s)))
                           ELSE IF at(s.active) # {} THEN first(at(s.active)) ELSE 1
  BY DEF Selector
<1> HIDE DEF at, first
<1> QED BY <1>1, <1>2, <1>3

(* What a build generates is a document with a pipeline for each group.    *)
LEMMA MergedIsDoc ==
  ASSUME NEW c, NEW d, NEW s \in Snapshots, Regenerates(Baseline(c, d), s)
  PROVE  /\ IsDoc(Merged(c, d, s))
         /\ Merged(c, d, s).pipes # <<>>
         /\ Merged(c, d, s).pipes \in Seq(ToSet(Merged(c, d, s).pipes))
<1> DEFINE pipes == [i \in DOMAIN s.groups |-> PipelineOf(s.groups[i], Baseline(c, d), s)]
<1>1. IsDoc(Merged(c, d, s)) /\ Merged(c, d, s).pipes = pipes
  BY DEF Merged, IsDoc
<1>2. s.groups \in Seq(ToSet(s.groups)) /\ s.groups # <<>>
  BY GroupsInOrder DEF Regenerates
<1>3. DOMAIN s.groups = 1 .. Len(s.groups) /\ Len(s.groups) \in Nat /\ Len(s.groups) # 0
  BY <1>2, LenProperties, EmptySeq
<1>4. \A i \in DOMAIN pipes : pipes[i] \in ToSet(pipes)
  BY DEF ToSet
<1>5. DOMAIN pipes = 1 .. Len(s.groups)
  BY <1>3
<1>6. pipes \in Seq(ToSet(pipes)) /\ 1 \in DOMAIN pipes
  <2>1. pipes \in [1 .. Len(s.groups) -> ToSet(pipes)]
    BY <1>4, <1>5
  <2> HIDE DEF pipes
  <2> QED BY <1>3, <2>1, SeqDef
<1>7. pipes # <<>>
  BY <1>6, EmptySeq
<1> QED BY <1>1, <1>6, <1>7

(* What a session was started for stays, and what it did.                  *)
Stays(p) == p \in DOMAIN procs' /\ Ages(procs[p], procs'[p])

LEMMA SessionsStay ==
  ASSUME LeakInv, [ProjectNext]_projectVars
  PROVE  /\ \A p \in DOMAIN procs : Stays(p)
         /\ ~BuildFork => DOMAIN procs' = DOMAIN procs
<1>1. ProcsAge => (\A p \in DOMAIN procs : Stays(p)) /\ DOMAIN procs' = DOMAIN procs
  BY DEF ProcsAge, Stays
<1>2. CASE procs' = procs
  BY <1>1, <1>2, SameProcs
<1>3. CASE Unload \/ BuildStop
  <2>1. procs' = procs \/ StopGroup(sessions)
    BY <1>3 DEF Unload, BuildStop, StopSession
  <2> QED BY <1>1, <1>2, <2>1, StopGroupAges
<1>4. CASE PollTimeout
  BY <1>1, <1>4, StopGroupAges DEF PollTimeout, GivenUp
<1>5. CASE PollEnded
  BY <1>1, <1>5, ReapedAges
<1>6. CASE \E q \in DOMAIN procs : Ready(q) \/ Ends(q)
  BY <1>1, <1>6, ReadyAges, EndsAges
<1>7. CASE BuildFork
  <2>1. CASE Fork(ws)
    <3> DEFINE e == NewGroup(ws, Selector(snap, ws.pipes))
    <3>1. procs' = Append(procs, e)
      BY <2>1 DEF Fork
    <3>2. PICK S : procs \in Seq(S)
      BY DEF LeakInv
    <3> HIDE DEF e
    <3>3. procs \in Seq(S \cup {e})
      BY <3>2, SeqMonotonic
    <3>4. /\ Len(procs') = Len(procs) + 1 /\ procs' \in Seq(S \cup {e})
          /\ \A p \in 1 .. Len(procs) : procs'[p] = procs[p]
      BY <3>1, <3>3, AppendProperties
    <3>5. DOMAIN procs = 1 .. Len(procs) /\ DOMAIN procs' = 1 .. Len(procs') /\ Len(procs) \in Nat
      BY <3>3, <3>4, LenProperties
    <3>6. \A p \in DOMAIN procs : p \in DOMAIN procs' /\ procs'[p] = procs[p]
      BY <3>4, <3>5
    <3> QED BY <1>7, <3>6, SameAges DEF Stays
  <2> QED BY <1>2, <1>7, <2>1 DEF BuildFork
<1> QED BY <1>2, <1>3, <1>4, <1>5, <1>6, <1>7 DEF ProjectNext, BuildStep, Open, Save, Restart, BuildRequest,
      BuildRegenerate, BuildWrite, BuildCompile, PollReady, BuildRecord, projectVars, runner

(* What was found ready stays so.                                          *)
LEMMA FoundStays ==
  ASSUME LeakInv, \A q \in DOMAIN procs : Stays(q), orphans \subseteq orphans',
         NEW p \in DOMAIN procs, FoundReady(p)
  PROVE  FoundReady(p)'
<1>1. PICK q \in DOMAIN procs : procs[q].wrote = p /\ (q = p \/ q \in orphans \/ ~procs[q].lead)
  BY DEF FoundReady
<1>2. p # 0
  BY NumberedFromOne
<1>3. q \in DOMAIN procs' /\ Ages(procs[q], procs'[q])
  BY <1>1 DEF Stays
<1>4. procs'[q].wrote = p /\ (procs'[q].lead => procs[q].lead)
  BY <1>1, <1>2, <1>3 DEF Ages
<1> QED BY <1>1, <1>3, <1>4 DEF FoundReady

(* The session a build forks is started for the workspace file.            *)
LEMMA ForkStarts ==
  ASSUME LeakInv, Fork(ws), ws.pipes # <<>>, ws.pipes \in Seq(ToSet(ws.pipes))
  PROVE  Newest(child)' /\ (ws' = ws => StartedFor(child, ws)')
<1> DEFINE e == NewGroup(ws, Selector(snap, ws.pipes))
<1>1. procs' = Append(procs, e) /\ child' = Len(procs) + 1
  BY DEF Fork
<1>2. e.doc = ws /\ e.sel \in DOMAIN ws.pipes
  BY SelectorIn DEF NewGroup
<1>3. PICK S : procs \in Seq(S)
  BY DEF LeakInv
<1> HIDE DEF e
<1>4. procs \in Seq(S \cup {e})
  BY <1>3, SeqMonotonic
<1>5. /\ Len(procs') = Len(procs) + 1 /\ procs' \in Seq(S \cup {e})
      /\ procs'[Len(procs) + 1] = e
  BY <1>1, <1>4, AppendProperties
<1>6. child' \in DOMAIN procs' /\ \A q \in DOMAIN procs' : q <= child'
  BY <1>1, <1>4, <1>5, LenProperties
<1> QED BY <1>1, <1>2, <1>5, <1>6 DEF StartedFor, Newest

(* No step but BuildRecord loads anything, and what was loaded stays only  *)
(* as long as file and session stay.                                       *)
LEMMA LoadedStays ==
  ASSUME SaveInv, LeakInv, LoadedInv, [ProjectNext]_projectVars, ~BuildRecord, rec'.loaded # {}
  PROVE  /\ rec.loaded # {} /\ rec'.loaded = rec.loaded /\ rec'.open
         /\ pc' \in {"idle", "stop"}
         /\ ws' = ws /\ sessions' = sessions /\ orphans' = orphans
<1> USE DEF Building
<1>1. IsRec(rec) /\ (rec.open => Opened = rec) /\ (~rec.open => Opened.loaded = {}) /\ IsRec(Opened)
  <2>1. ~rec.open => Opened.loaded = {}
    BY DEF Opened, Closed
  <2> QED BY <2>1, RecOpened DEF SaveInv
<1>2. CASE Open \/ \E s \in Snapshots : BuildRequest(s)
  <2>1. /\ rec' = Opened /\ OpenFile /\ sessions' = sessions /\ orphans' = orphans
        /\ pc' \in {"idle", "stop"}
    BY <1>2 DEF Open, BuildRequest, runner, projectHistory, build
  <2> QED BY <1>1, <2>1 DEF OpenFile
<1>3. CASE Unload
  <2>1. rec'.loaded = {}
    BY <1>1, <1>3 DEF Unload, IsRec
  <2> QED BY <2>1
<1>4. CASE Restart
  BY <1>4 DEF Restart, Closed
<1>5. CASE BuildStop
  <2>1. rec'.loaded = {}
    BY <1>1, <1>5 DEF BuildStop, Unbuilt, IsRec
  <2> QED BY <2>1
<1>6. CASE BuildWrite
  <2>1. rec'.loaded = rec.loaded /\ pc = "write"
    BY <1>1, <1>6 DEF BuildWrite, IsRec
  <2> QED BY <2>1 DEF LoadedInv, ShownInv
<1>7. CASE BuildRegenerate \/ BuildCompile \/ BuildFork \/ PollReady \/ PollEnded \/ PollTimeout
  <2>1. rec' = rec /\ pc \notin {"idle", "stop"}
    BY <1>7 DEF BuildRegenerate, BuildCompile, BuildFork, PollReady, PollEnded, PollTimeout
  <2> QED BY <2>1 DEF LoadedInv, ShownInv
<1>8. CASE Save \/ \E p \in DOMAIN procs : Ready(p) \/ Ends(p)
  <2>1. UNCHANGED <<rec, pc, ws, sessions, orphans>>
    BY <1>8 DEF Save, Ready, Ends, build, files, runner, projectHistory
  <2> QED BY <2>1 DEF LoadedInv, ShownInv
<1>9. CASE UNCHANGED projectVars
  <2>1. UNCHANGED <<rec, pc, ws, sessions, orphans>>
    BY <1>9 DEF projectVars, build, files, runner, projectHistory
  <2> QED BY <2>1 DEF LoadedInv, ShownInv
<1> QED BY <1>2, <1>3, <1>4, <1>5, <1>6, <1>7, <1>8, <1>9 DEF ProjectNext, BuildStep

LEMMA ShownKept ==
  ASSUME SaveInv, LeakInv, LoadedInv, [ProjectNext]_projectVars
  PROVE  ShownInv'
<1> SUFFICES ASSUME rec'.loaded # {} PROVE ShownInv'
  BY DEF ShownInv
<1>1. \A p \in DOMAIN procs : Stays(p)
  BY SessionsStay
<1>2. CASE ~BuildRecord
  <2>1. /\ rec.loaded # {} /\ rec'.loaded = rec.loaded /\ rec'.open
        /\ pc' \in {"idle", "stop"}
        /\ ws' = ws /\ sessions' = sessions /\ orphans' = orphans
    BY <1>2, LoadedStays
  <2>2. /\ IsDoc(ws) /\ rec.loaded = PipeIds(ws)
        /\ StartedFor(sessions, ws) /\ FoundReady(sessions)
    BY <2>1 DEF LoadedInv, ShownInv
  <2>3. Stays(sessions) /\ sessions \in DOMAIN procs
    BY <1>1, <2>2 DEF StartedFor
  <2>4. FoundReady(sessions)'
    <3>1. ASSUME NEW p, p = sessions PROVE FoundReady(p)'
      BY <1>1, <2>1, <2>2, <2>3, <3>1, FoundStays
    <3> QED BY <2>1, <3>1 DEF FoundReady
  <2>5. StartedFor(sessions, ws)'
    BY <2>1, <2>2, <2>3 DEF StartedFor, Stays, Ages
  <2> QED BY <2>1, <2>2, <2>4, <2>5 DEF ShownInv
<1>3. CASE BuildRecord
  <2>1. /\ rec' = [rec EXCEPT !.validated = PipeIds(next), !.loaded = PipeIds(next),
                              !.ok = PipeIds(next) # {}]
        /\ pc = "record" /\ pc' = "idle"
        /\ UNCHANGED <<ws, procs, sessions, orphans>>
    BY <1>3 DEF BuildRecord, files, runner
  <2>2. rec'.loaded = PipeIds(next) /\ rec'.open = rec.open
    BY <2>1 DEF SaveInv, IsRec
  <2>3. ws = next /\ rec.open /\ sessions = child
    BY <2>1 DEF SaveInv, LeakInv
  <2>4. IsDoc(next) /\ StartedFor(child, next) /\ FoundReady(child)
    BY <2>1 DEF LoadedInv, PathInv, Generating, Building
  <2> QED BY <2>1, <2>2, <2>3, <2>4 DEF ShownInv, StartedFor, FoundReady
<1> QED BY <1>2, <1>3

LEMMA PathKept ==
  ASSUME SaveInv, LeakInv, LoadedInv, [ProjectNext]_projectVars
  PROVE  PathInv'
<1> USE DEF Generating, Building
<1>1. \A p \in DOMAIN procs : Stays(p)
  BY SessionsStay
<1>2. CASE pc' = "idle"
  BY <1>2 DEF PathInv
<1>0. ASSUME pc \in {"poll", "record"}, ~BuildFork, UNCHANGED <<next, child, orphans>>
      PROVE  /\ StartedFor(child, next)'
             /\ Newest(child) => Newest(child)'
             /\ FoundReady(child) => FoundReady(child)'
  <2>1. StartedFor(child, next) /\ child \in DOMAIN procs
    BY <1>0 DEF LoadedInv, PathInv, StartedFor
  <2>2. Stays(child) /\ DOMAIN procs' = DOMAIN procs
    BY <1>0, <1>1, <2>1, SessionsStay
  <2>3. StartedFor(child, next)'
    BY <1>0, <2>1, <2>2 DEF StartedFor, Stays, Ages
  <2>4. ASSUME FoundReady(child) PROVE FoundReady(child)'
    <3>1. ASSUME NEW p, p = child PROVE FoundReady(p)'
      BY <1>0, <1>1, <2>1, <2>4, <3>1, FoundStays
    <3> QED BY <1>0, <3>1 DEF FoundReady
  <2> QED BY <1>0, <2>2, <2>3, <2>4 DEF Newest
<1>3. CASE UNCHANGED <<pc, snap, next, child, marker, orphans>> /\ ~BuildFork
  BY <1>0, <1>3 DEF LoadedInv, PathInv
<1>4. ASSUME NEW s \in Snapshots, BuildRequest(s) PROVE PathInv'
  <2>1. pc = "idle" /\ (pc' = "idle" \/ (pc' = "stop" /\ snap' = s))
    BY <1>4 DEF BuildRequest
  <2> QED BY <1>2, <2>1 DEF PathInv
<1>5. CASE BuildStop
  <2>1. pc = "stop" /\ pc' = "regenerate" /\ snap' = snap
    BY <1>5 DEF BuildStop
  <2> QED BY <2>1 DEF LoadedInv, PathInv
<1>6. CASE BuildRegenerate
  <2>1. CASE Regenerates(Baseline(ws, src), snap)
    <3>1. pc' = "write" /\ snap' = snap /\ snap \in Snapshots /\ next' = Merged(ws, src, snap)
      BY <1>6, <2>1 DEF BuildRegenerate, LoadedInv, PathInv
    <3>2. /\ IsDoc(Merged(ws, src, snap)) /\ Merged(ws, src, snap).pipes # <<>>
          /\ Merged(ws, src, snap).pipes \in Seq(ToSet(Merged(ws, src, snap).pipes))
      BY <2>1, <3>1, MergedIsDoc
    <3> QED BY <3>1, <3>2 DEF PathInv, IsDoc
  <2> QED BY <1>2, <1>6, <2>1 DEF BuildRegenerate, Fails
<1>7. CASE BuildWrite \/ BuildCompile
  <2>1. /\ pc \in {"write", "compile"}
        /\ pc' # "idle" => pc' \in {"compile", "fork"} /\ snap' = snap /\ next' = next
    BY <1>7 DEF BuildWrite, BuildCompile, Fails
  <2> QED BY <1>2, <2>1 DEF LoadedInv, PathInv
<1>8. CASE BuildFork
  <2>1. CASE Fork(ws) /\ pc' = "poll" /\ snap' = snap /\ next' = next
    <3>1. /\ IsDoc(next) /\ next.pipes # <<>> /\ next.pipes \in Seq(ToSet(next.pipes))
          /\ snap \in Snapshots /\ ws = next /\ ws' = ws
      BY <1>8 DEF BuildFork, LoadedInv, PathInv, SaveInv, files
    <3>2. StartedFor(child, ws)' /\ Newest(child)'
      BY <2>1, <3>1, ForkStarts
    <3>3. marker' = 0
      BY <2>1 DEF Fork
    <3> QED BY <2>1, <3>1, <3>2, <3>3 DEF PathInv, StartedFor
  <2> QED BY <1>2, <1>8, <2>1 DEF BuildFork, Fails
<1>9. CASE PollReady
  <2>1. /\ pc = "poll" /\ pc' = "record" /\ marker # 0
        /\ UNCHANGED <<snap, next, child, orphans>> /\ ~BuildFork
    BY <1>9 DEF PollReady, BuildFork, projectHistory
  <2> QED BY <1>0, <2>1 DEF LoadedInv, PathInv
<1>10. CASE PollEnded \/ PollTimeout \/ BuildRecord \/ Restart
  BY <1>2, <1>10 DEF PollEnded, PollTimeout, BuildRecord, Restart, Fails
<1>11. ASSUME NEW q \in DOMAIN procs, Ready(q) PROVE PathInv'
  <2>1. UNCHANGED <<pc, snap, next, child, sessions, orphans>>
    BY <1>11 DEF Ready, build, projectHistory
  <2>2. pc \in {"poll", "record"} => ~BuildFork
    BY DEF BuildFork
  <2>3. ASSUME pc = "poll" PROVE FoundReady(child)'
    <3>1. sessions = 0 /\ q # 0 /\ child \in DOMAIN procs /\ \A p \in DOMAIN procs : p <= child
      BY <2>3, NumberedFromOne DEF LeakInv, LoadedInv, PathInv, Newest
    <3>2. q = child \/ q \in orphans \/ ~procs[q].lead
      BY <3>1 DEF LeakInv, NoSessionLeaks, Held
    <3>3. procs'[q].wrote = Len(procs)
      BY <1>11, ReadyAges
    <3>4. Len(procs) = child
      <4>1. PICK S : procs \in Seq(S)
        BY DEF LeakInv
      <4>2. DOMAIN procs = 1 .. Len(procs) /\ Len(procs) \in Nat
        BY <4>1, LenProperties
      <4>3. PICK n \in Nat : n = Len(procs)
        BY <4>2
      <4>4. child \in 1 .. n /\ \A p \in 1 .. n : p <= child
        BY <3>1, <4>2, <4>3
      <4>5. n \in 1 .. n
        BY <4>4
      <4> QED BY <4>3, <4>4, <4>5
    <3>5. q \in DOMAIN procs' /\ (procs'[q].lead => procs[q].lead)
      BY <1>1 DEF Stays, Ages
    <3> QED BY <2>1, <3>2, <3>3, <3>4, <3>5 DEF FoundReady
  <2> QED BY <1>0, <2>1, <2>2, <2>3 DEF LoadedInv, PathInv
<1>12. CASE Open \/ Unload \/ Save \/ (\E p \in DOMAIN procs : Ends(p)) \/ UNCHANGED projectVars
  <2>1. UNCHANGED <<pc, snap, next, child, marker, orphans>>
    BY <1>12 DEF Open, Unload, Save, Ends, projectVars, build, runner, projectHistory
  <2>2. ~BuildFork
    BY <2>1 DEF BuildFork, Fails
  <2> QED BY <1>3, <2>1, <2>2
<1> QED BY <1>4, <1>5, <1>6, <1>7, <1>8, <1>9, <1>10, <1>11, <1>12 DEF ProjectNext, BuildStep

-----------------------------------------------------------------------------
(* Scopes.                                                                 *)

Marks == {Torn, NoFile}

DocInv ==
  /\ DocumentsConsistent
  /\ pc = "write" => Consistent(next)

(* The only origin of a group that does not list its nodes is a pipeline   *)
(* of the source file: one that only the workspace holds could give the    *)
(* group the nodes of another one.                                         *)
OriginsInSource ==
  \A s \in Snapshots : \A g \in ToSet(s.groups) :
    g.nodes = {} /\ Len(g.origins) = 1 => g.origins[1] \in PipeIds(SourceDoc)

ScopeInv ==
  /\ pc # "idle" => snap \in Snapshots
  /\ ~saved => src = SourceDoc
  /\ ScopesSwitch

(* A generated pipeline refers to its own nodes and to instances that the  *)
(* document holds.                                                         *)
LEMMA PipelineRefers ==
  ASSUME NEW base, NEW s, Regenerates(base, s), NEW g \in ToSet(s.groups)
  PROVE  LET p == PipelineOf(g, base, s)
         IN  /\ \A n \in p.nodes : n.ref \in {i.id : i \in Instances(base, s)}
             /\ p.edges \subseteq {n.local : n \in p.nodes} \X {n.local : n \in p.nodes}
<1> DEFINE nodes == GroupNodes(g, base, s)
           id == PipeIdOf(g, base)
           p == PipelineOf(g, base, s)
           used == UNION {{<<n, PipeIdOf(h, base)>> : n \in GroupNodes(h, base, s)} : h \in ToSet(s.groups)}
<1>1. /\ p.nodes = {[local |-> LocalId(n), ref |-> InstRef(n, id)] : n \in nodes}
      /\ p.edges = Edges(s, nodes)
  BY DEF PipelineOf
<1>2. ASSUME NEW m \in nodes PROVE InstRef(m, id) \in {i.id : i \in Instances(base, s)}
  <2>1. <<m, id>> \in used
    OBVIOUS
  <2>2. Instances(base, s) =
          {i \in base.insts : \E u \in used : u[1].ref = i.id}
            \cup {[id |-> InstRef(u[1], u[2]), type |-> u[1].type] : u \in {v \in used : v[1].ref = None}}
    BY DEF Instances
  <2> HIDE DEF used, id
  <2> DEFINE w == <<m, id>>
  <2>3. CASE m.ref = None
    <3>1. [id |-> InstRef(m, id), type |-> m.type] \in Instances(base, s)
      BY <2>1, <2>2, <2>3
    <3> QED BY <3>1
  <2>4. CASE m.ref # None
    <3>1. m.ref \in {i.id : i \in base.insts}
      BY <2>4 DEF Regenerates, Refused, nodes
    <3>2. PICK i \in base.insts : i.id = m.ref
      BY <3>1
    <3>3. i \in Instances(base, s)
      BY <2>1, <2>2, <3>2
    <3> QED BY <2>4, <3>2, <3>3 DEF InstRef
  <2> QED BY <2>3, <2>4
<1>3. \A n \in p.nodes : n.ref \in {i.id : i \in Instances(base, s)}
  BY <1>1, <1>2
<1>4. {LocalId(n) : n \in nodes} \subseteq {n.local : n \in p.nodes}
  <2> SUFFICES ASSUME NEW n \in nodes PROVE LocalId(n) \in {m.local : m \in p.nodes}
    OBVIOUS
  <2>1. [local |-> LocalId(n), ref |-> InstRef(n, id)] \in p.nodes
    BY <1>1
  <2> HIDE DEF p, nodes, id
  <2> QED BY <2>1
<1>5. Edges(s, nodes) \subseteq {LocalId(n) : n \in nodes} \X {LocalId(n) : n \in nodes}
  <2> HIDE DEF nodes
  <2> SUFFICES ASSUME NEW e \in Edges(s, nodes)
               PROVE  e \in {LocalId(n) : n \in nodes} \X {LocalId(n) : n \in nodes}
    OBVIOUS
  <2> DEFINE gids == {n.gid : n \in nodes}
             localOf(end) == LocalId(CHOOSE n \in nodes : n.gid = end)
  <2> DEFINE inner == {c \in s.conns : c.from \in gids /\ c.to \in gids}
             kept == {d \in inner : /\ EndDomain(s, d.from, d.fromDomain) = "sof"
                                    /\ EndDomain(s, d.to, d.toDomain) = "sof"}
  <2>1. Edges(s, nodes) = {<<localOf(c.from), localOf(c.to)>> : c \in kept}
    BY DEF Edges
  <2>2. kept \subseteq inner
    OBVIOUS
  <2> HIDE DEF kept, localOf
  <2>3. PICK c \in kept : e = <<localOf(c.from), localOf(c.to)>>
    BY <2>1
  <2>4. c.from \in gids /\ c.to \in gids
    BY <2>2
  <2>5. ASSUME NEW end \in gids PROVE localOf(end) \in {LocalId(n) : n \in nodes}
    <3>1. (CHOOSE n \in nodes : n.gid = end) \in nodes
      BY <2>5
    <3> QED BY <3>1 DEF localOf
  <2>6. localOf(c.from) \in {LocalId(n) : n \in nodes} /\ localOf(c.to) \in {LocalId(n) : n \in nodes}
    BY <2>4, <2>5
  <2> QED BY <2>3, <2>6
<1> QED BY <1>1, <1>3, <1>4, <1>5

(* What a build generates is consistent, whatever it regenerates from.     *)
LEMMA MergedConsistent ==
  ASSUME NEW c, NEW d, NEW s, Regenerates(Baseline(c, d), s)
  PROVE  Consistent(Merged(c, d, s))
<1> DEFINE base == Baseline(c, d)
           pipes == [i \in DOMAIN s.groups |-> PipelineOf(s.groups[i], base, s)]
           doc == Merged(c, d, s)
<1>1. /\ doc.insts = Instances(base, s) /\ doc.pipes = pipes
      /\ doc.presets = KeptPresets(c.presets, pipes)
  BY DEF Merged
<1>2. ASSUME NEW p \in ToSet(doc.pipes)
      PROVE  /\ \A n \in p.nodes : n.ref \in InstIds(doc)
             /\ p.edges \subseteq {n.local : n \in p.nodes} \X {n.local : n \in p.nodes}
  <2>1. PICK i \in DOMAIN s.groups : p = PipelineOf(s.groups[i], base, s)
    BY <1>1 DEF ToSet
  <2>2. s.groups[i] \in ToSet(s.groups)
    BY DEF ToSet
  <2> HIDE DEF base, doc
  <2>3. /\ \A n \in p.nodes : n.ref \in {j.id : j \in Instances(base, s)}
        /\ p.edges \subseteq {n.local : n \in p.nodes} \X {n.local : n \in p.nodes}
    BY <2>1, <2>2, PipelineRefers DEF base
  <2> QED BY <1>1, <2>3 DEF InstIds
<1>3. doc.presets \subseteq Keys(doc.pipes)
  BY <1>1 DEF KeptPresets
<1> QED BY <1>2, <1>3 DEF Consistent

(* A snapshot that the source file supports is supported whatever was      *)
(* built since into the workspace file.                                    *)
LEMMA StillSupported ==
  ASSUME OriginsInSource, NEW c, NEW s \in Snapshots, Supported(s)
  PROVE  Regenerates(Baseline(c, SourceDoc), s)
<1> DEFINE b0 == Baseline(SourceDoc, SourceDoc)
           b == Baseline(c, SourceDoc)
           ids(x) == {i.id : i \in x.insts}
           known(x) == {p.id : p \in x.pipes}
<1>1. /\ b.insts = MergedById(c.insts, SourceDoc.insts)
      /\ b.pipes = MergedById(ToSet(c.pipes), ToSet(SourceDoc.pipes))
      /\ b0.insts = MergedById(SourceDoc.insts, SourceDoc.insts)
      /\ b0.pipes = MergedById(ToSet(SourceDoc.pipes), ToSet(SourceDoc.pipes))
  BY SourceConsistent DEF Baseline
<1>2. b0.insts = SourceDoc.insts /\ b0.pipes = ToSet(SourceDoc.pipes)
  BY <1>1 DEF MergedById
<1>3. /\ {i.id : i \in SourceDoc.insts} \subseteq ids(b)
      /\ PipeIds(SourceDoc) \subseteq known(b)
  BY <1>1 DEF MergedById, PipeIds
<1>4. known(b0) = PipeIds(SourceDoc) /\ ids(b0) = {i.id : i \in SourceDoc.insts}
  BY <1>2 DEF PipeIds
<1>5. s.groups # <<>> /\ \A g \in ToSet(s.groups) : \A n \in GroupNodes(g, b0, s) : ~Refused(n, b0)
  BY DEF Supported, Regenerates
<1> HIDE DEF b, b0
<1>6. ASSUME NEW g \in ToSet(s.groups) PROVE GroupNodes(g, b, s) = GroupNodes(g, b0, s)
  <2>1. CASE g.nodes # {}
    BY <2>1 DEF GroupNodes
  <2>2. CASE g.nodes = {}
    <3>1. Len(g.origins) = 1 => g.origins[1] \in PipeIds(SourceDoc)
      BY <2>2 DEF OriginsInSource
    <3>2. PipeIdOf(g, b) = PipeIdOf(g, b0)
      BY <1>3, <1>4, <3>1 DEF PipeIdOf, OriginOf
    <3> QED BY <3>2 DEF GroupNodes
  <2> QED BY <2>1, <2>2
<1>7. \A n : Refused(n, b) => Refused(n, b0)
  BY <1>3, <1>4 DEF Refused
<1> QED BY <1>5, <1>6, <1>7 DEF Regenerates, b

LEMMA DocKept ==
  ASSUME DocInv, [ProjectNext]_projectVars
  PROVE  DocInv'
<1>1. /\ src \in Marks \/ Consistent(src)
      /\ ws \in Marks \/ Consistent(ws)
  BY DEF DocInv, DocumentsConsistent, Marks
<1> SUFFICES /\ src' \in Marks \/ Consistent(src')
             /\ ws' \in Marks \/ Consistent(ws')
             /\ pc' = "write" => Consistent(next')
  BY DEF DocInv, DocumentsConsistent, Marks
<1>2. OpenFile => ws' \in {ws, src, Torn}
  BY DEF OpenFile, Written
<1>3. CASE Open \/ Unload \/ \E s \in Snapshots : BuildRequest(s)
  <2>1. OpenFile /\ src' = src /\ pc' # "write"
    BY <1>3 DEF Open, Unload, BuildRequest, build
  <2> QED BY <1>1, <1>2, <2>1 DEF Marks
<1>4. CASE Save
  <2>1. src' \in {src, ws, Torn} /\ ws' = ws /\ pc' = "idle"
    BY <1>4 DEF Save, Written, build
  <2> QED BY <1>1, <2>1 DEF Marks
<1>5. CASE BuildRegenerate
  <2>1. UNCHANGED <<src, ws>>
    BY <1>5 DEF BuildRegenerate, files
  <2>2. CASE Regenerates(Baseline(ws, src), snap)
    <3>1. next' = Merged(ws, src, snap)
      BY <1>5, <2>2 DEF BuildRegenerate
    <3> QED BY <1>1, <2>1, <2>2, <3>1, MergedConsistent
  <2>3. CASE ~Regenerates(Baseline(ws, src), snap)
    BY <1>1, <1>5, <2>1, <2>3 DEF BuildRegenerate, Fails
  <2> QED BY <2>2, <2>3
<1>6. CASE BuildWrite
  <2>1. ws' \in {next, ws, Torn} /\ src' = src /\ pc' # "write" /\ pc = "write"
    BY <1>6 DEF BuildWrite, Written, Fails
  <2> QED BY <1>1, <2>1 DEF DocInv, Marks
<1>7. CASE \/ Restart \/ BuildStop \/ BuildCompile \/ BuildFork \/ PollReady
           \/ PollEnded \/ PollTimeout \/ BuildRecord
  <2>1. UNCHANGED <<src, ws>> /\ pc' # "write"
    BY <1>7 DEF Restart, BuildStop, BuildCompile, BuildFork, PollReady, PollEnded, PollTimeout, BuildRecord,
       Fails, files
  <2> QED BY <1>1, <2>1
<1>8. CASE (\E p \in DOMAIN procs : Ready(p) \/ Ends(p)) \/ UNCHANGED projectVars
  <2>1. UNCHANGED <<src, ws, pc, next>>
    BY <1>8 DEF Ready, Ends, projectVars, files, build
  <2> QED BY <1>1, <2>1 DEF DocInv
<1> QED BY <1>3, <1>4, <1>5, <1>6, <1>7, <1>8 DEF ProjectNext, BuildStep

LEMMA ScopeKept ==
  ASSUME OriginsInSource, ScopeInv, [ProjectNext]_projectVars
  PROVE  ScopeInv'
<1>1. CASE BuildRegenerate
  <2>1. UNCHANGED <<src, saved>> /\ pc = "regenerate" /\ (pc' = "idle" \/ snap' = snap)
    BY <1>1 DEF BuildRegenerate, Fails, files
  <2>2. snap \in Snapshots
    BY <2>1 DEF ScopeInv
  <2>3. CASE Regenerates(Baseline(ws, src), snap)
    BY <1>1, <2>1, <2>2, <2>3 DEF BuildRegenerate, ScopeInv, ScopesSwitch
  <2>4. CASE ~Regenerates(Baseline(ws, src), snap)
    <3>1. refused' = refused \cup {snap}
      BY <1>1, <2>4 DEF BuildRegenerate
    <3>2. ~saved => ~Supported(snap)
      BY <2>2, <2>4, StillSupported DEF ScopeInv
    <3> QED BY <2>1, <2>2, <3>1, <3>2 DEF ScopeInv, ScopesSwitch
  <2> QED BY <2>3, <2>4
<1>2. CASE Save
  <2>1. saved' = TRUE /\ UNCHANGED <<pc, snap>>
    BY <1>2 DEF Save, build
  <2> QED BY <2>1 DEF ScopeInv, ScopesSwitch
<1>3. ASSUME NEW s \in Snapshots, BuildRequest(s) PROVE ScopeInv'
  <2>1. UNCHANGED <<src, saved, refused>> /\ pc = "idle" /\ (pc' = "idle" \/ snap' = s)
    BY <1>3 DEF BuildRequest, projectHistory
  <2> QED BY <2>1 DEF ScopeInv, ScopesSwitch
<1>4. CASE \/ Open \/ Unload \/ Restart \/ BuildStop \/ BuildWrite \/ BuildCompile \/ BuildFork
           \/ PollReady \/ PollEnded \/ PollTimeout \/ BuildRecord
           \/ (\E p \in DOMAIN procs : Ready(p) \/ Ends(p)) \/ UNCHANGED projectVars
  <2>1. /\ UNCHANGED <<src, saved, refused>>
        /\ pc' # "idle" => snap' = snap /\ pc # "idle"
    BY <1>4 DEF Open, Unload, Restart, BuildStop, BuildWrite, BuildCompile, BuildFork, PollReady,
       PollEnded, PollTimeout, BuildRecord, Ready, Ends, Fails, projectVars, files, build, projectHistory
  <2> QED BY <2>1 DEF ScopeInv, ScopesSwitch
<1> QED BY <1>1, <1>2, <1>3, <1>4 DEF ProjectNext, BuildStep

LEMMA ProjectInitHolds == ProjectInit => SaveInv /\ LeakInv /\ LoadedInv
<1> SUFFICES ASSUME ProjectInit PROVE SaveInv /\ LeakInv /\ LoadedInv
  OBVIOUS
<1>1. SaveInv
  BY DEF ProjectInit, SaveInv, Closed, IsRec, Building
<1>2. \A S : <<>> \in Seq(S) /\ DOMAIN <<>> = {}
  BY EmptySeq
<1>3. LeakInv
  BY <1>2 DEF ProjectInit, LeakInv, NoSessionLeaks, Building
<1>4. LoadedInv
  BY DEF ProjectInit, LoadedInv, PathInv, ShownInv, Closed, Generating, Building
<1> QED BY <1>1, <1>3, <1>4

(* Whatever fails, ends by itself or is restarted in the midst of a build: *)
(* of every validation session but the one recorded, the one just forked   *)
(* and those of an earlier life of the backend, the leader has ended, and  *)
(* what outlives it was signalled, or left by a build that saw the leader  *)
(* end (ProcessValidationRunner::start and stop, build, unload).           *)
THEOREM SessionsNeverLeak == ProjectSpec => []NoSessionLeaks
<1>1. LeakInv => NoSessionLeaks
  BY DEF LeakInv
<1>2. LeakInv /\ [ProjectNext]_projectVars => LeakInv'
  BY LeakKept
<1> QED BY <1>1, <1>2, ProjectInitHolds, PTL DEF ProjectSpec

(* A save puts into the source file what the latest build validated, or    *)
(* leaves it torn; never the document of a build that failed or was begun  *)
(* since (saveProject; build, which withdraws the old result first).       *)
THEOREM SavedIsBuilt == ProjectSpec => SavesLatestBuild
<1> DEFINE A == src' # src => src' \in {Torn, lastBuilt}
<1>1. SaveInv /\ [ProjectNext]_projectVars => SaveInv'
  BY SaveKept
<1>2. ASSUME SaveInv, ProjectNext PROVE A
  <2>1. CASE Save
    <3>1. PICK told \in BOOLEAN : Written(src, ws, told)
      BY <2>1 DEF Save
    <3>2. ws = lastBuilt
      BY <1>2, <2>1 DEF Save, MaySave, SaveInv
    <3> QED BY <3>1, <3>2 DEF Written
  <2>2. CASE ~Save
    <3>1. src' = src
      BY <1>2, <2>2 DEF ProjectNext, Open, Unload, Restart, BuildRequest, BuildStep, BuildStop, BuildRegenerate,
         BuildWrite, BuildCompile, BuildFork, PollReady, PollEnded, PollTimeout, BuildRecord, Ready, Ends,
         files
    <3> QED BY <3>1
  <2> QED BY <2>1, <2>2
<1>3. SaveInv /\ [ProjectNext]_projectVars => [A]_projectVars
  BY <1>2
<1> QED BY <1>1, <1>3, ProjectInitHolds, PTL DEF ProjectSpec, SavesLatestBuild

(* Whatever fails, ends by itself or is restarted in the midst of a build, *)
(* what is shown as loaded is what the session recorded was started for,   *)
(* and is still in the workspace file; and since the session was forked    *)
(* the ready marker was written, by it or by processes left behind (build, *)
(* which forgets what was loaded before it stops the old session; unload). *)
(* The marks of a torn and of a missing file are no documents.             *)
THEOREM LoadedAlwaysCurrent ==
  ASSUME ~IsDoc(Torn), ~IsDoc(NoFile)
  PROVE  ProjectSpec => []LoadedIsCurrent
<1>1. SaveInv /\ LeakInv /\ LoadedInv /\ [ProjectNext]_projectVars => (SaveInv /\ LeakInv /\ LoadedInv)'
  BY SaveKept, LeakKept, ShownKept, PathKept DEF LoadedInv
<1>2. LeakInv /\ LoadedInv => LoadedIsCurrent
  BY NumberedFromOne DEF LoadedInv, ShownInv, StartedFor, FoundReady, LoadedIsCurrent
<1> QED BY <1>1, <1>2, ProjectInitHolds, PTL DEF ProjectSpec

(* Whatever scopes are built one after the other, what fails and is        *)
(* restarted, no file holds a document with a reference to what it does    *)
(* not hold; and while nothing was saved, a snapshot is refused only if    *)
(* the source file does not support it (workspaceJsonWithSourceBaseline,   *)
(* regenerateProjectFromSnapshot, filterPresetNodeValues).                 *)
THEOREM ScopesAlwaysBuildable ==
  ASSUME OriginsInSource
  PROVE  ProjectSpec => []ScopesStayBuildable
<1>1. ProjectInit => DocInv /\ ScopeInv
  BY SourceConsistent DEF ProjectInit, DocInv, DocumentsConsistent, ScopeInv, ScopesSwitch
<1>2. DocInv /\ ScopeInv /\ [ProjectNext]_projectVars => (DocInv /\ ScopeInv)'
  BY DocKept, ScopeKept
<1>3. DocInv /\ ScopeInv => ScopesStayBuildable
  BY DEF DocInv, ScopeInv, ScopesStayBuildable
<1> QED BY <1>1, <1>2, <1>3, PTL DEF ProjectSpec
=============================================================================
