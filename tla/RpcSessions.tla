---------------------------- MODULE RpcSessions ----------------------------
(***************************************************************************)
(* Sessions of as_server seen from its clients: the command line tools     *)
(* as_play, as_record, as_log and as_control, each with a worker thread of *)
(* RpcSocketServer that serves it, the handlers of the RPC API, the tables *)
(* of AudioService and the numeric ids of RpcRuntimeContext.               *)
(*                                                                         *)
(* Each step of a worker is what it does between two releases of a mutex:  *)
(* sessions_mutex_ over the tables, ids_mutex_ over the numbers, the mutex *)
(* of one session, LogService::mutex_.  A transfer or a drain holds the    *)
(* session's mutex while the device is busy.                               *)
(*                                                                         *)
(* The sessions of AudioStreams and LogService are here what the tables    *)
(* need of them: open, prepared, running, closed, and calls that may fail. *)
(***************************************************************************)
EXTENDS Integers, Sequences, FiniteSets

CONSTANTS
  Clients,      (* the processes that run tools                            *)
  Nobody,       (* no client                                               *)
  NoId,         (* no session id                                           *)
  Given,        (* session ids given with --session                        *)
  MaxNumber,    (* bound: values of next_id_                               *)
  MaxSessions,  (* bound: audio devices opened                             *)
  MaxRuns,      (* bound: tools started                                    *)
  MaxFailures   (* bound: calls of a device that fail                      *)

Kind == {"playback", "capture"}
None == 0
Number == 1 .. MaxNumber
SessionId == Given \cup (Kind \X Number)

ASSUME RpcAssumption ==
  /\ MaxNumber \in Nat
  /\ MaxSessions \in Nat
  /\ MaxRuns \in Nat
  /\ MaxFailures \in Nat
  /\ Nobody \notin Clients
  /\ NoId \notin SessionId

VARIABLES
  tool,            (* the tool each client runs                            *)
  job,             (* the request its worker serves                        *)
  table,           (* playback_sessions_ and capture_sessions_             *)
  sessions,        (* the AudioPlaybackSession and AudioCaptureSession     *)
                   (* objects, with their devices, in the order of opening *)
  logs,            (* LogService::sessions_                                *)
  counter,         (* next_id_                                             *)
  sessionIds,      (* session_ids_: number of a session id                 *)
  numericSessions, (* numeric_sessions_: session id of a number            *)
  streamIds,       (* stream_ids_                                          *)
  runs,            (* tools started                                        *)
  failures         (* calls of a device that failed                        *)

audio == <<table, sessions>>
numbers == <<counter, sessionIds, numericSessions, streamIds>>
vars == <<tool, job, audio, logs, numbers, runs, failures>>

NoTool == [at |-> "idle", kind |-> "none", id |-> NoId, number |-> None,
           session |-> None, cleanup |-> FALSE, stuck |-> FALSE]
NoJob == [call |-> "none", at |-> "idle", kind |-> "none", id |-> NoId,
          session |-> None, number |-> None, left |-> {}, ids |-> {}]
NoLog == [open |-> FALSE, running |-> FALSE, by |-> Nobody]

Init ==
  /\ tool = [c \in Clients |-> NoTool]
  /\ job = [c \in Clients |-> NoJob]
  /\ table = [k \in Kind |-> [i \in SessionId |-> None]]
  /\ sessions = <<>>
  /\ logs = [i \in SessionId |-> NoLog]
  /\ counter = 1
  /\ sessionIds = [i \in SessionId |-> None]
  /\ numericSessions = [n \in Number |-> NoId]
  /\ streamIds = [i \in SessionId |-> None]
  /\ runs = 0
  /\ failures = 0

Goes(c, at) == job' = [job EXCEPT ![c].at = at]

(* A call of a device succeeds or not.                                     *)
Outcome(ok) ==
  /\ ok \/ failures < MaxFailures
  /\ failures' = IF ok THEN failures ELSE failures + 1

-----------------------------------------------------------------------------
(* The tools.  Each sends a request and waits for its answer; the worker   *)
(* that takes the request has nothing to share until its first lock.       *)

(* The step of the worker at which a call begins.                          *)
Entry(t) ==
  IF t.kind = "log" THEN "log"
  ELSE CASE t.at = "create" -> "look"
         [] t.at = "transfer" -> "resolve"
         [] t.at = "close" -> "remove"
         [] t.at = "stats" -> "get"
         [] t.at = "list" -> "collect"
         [] OTHER -> "find"

JobOf(t) ==
  IF t.at = "over" THEN NoJob
  ELSE [NoJob EXCEPT !.call = t.at, !.at = Entry(t),
                     !.kind = t.kind, !.id = t.id, !.number = t.number]

Sends(c, t) ==
  /\ tool' = [tool EXCEPT ![c] = t]
  /\ job' = [job EXCEPT ![c] = JobOf(t)]

(* A command line starts as_play, as_record, as_log, or as_control with one*)
(* method.                                                                 *)
Starts(c, t) ==
  /\ tool[c].at \in {"idle", "over"}
  /\ runs < MaxRuns
  /\ runs' = runs + 1
  /\ Sends(c, t)
  /\ logs' = [i \in SessionId |-> [logs[i] EXCEPT !.by = IF @ = c THEN Nobody ELSE @]]
  /\ UNCHANGED <<audio, sessionIds, numericSessions, streamIds, failures>>

(* audioStreamFromParams takes a number for the id of a new session, also  *)
(* when the session is named.                                              *)
StartStream(c) ==
  /\ counter <= MaxNumber
  /\ counter' = counter + 1
  /\ \E kind \in Kind, id \in Given \cup {NoId} :
       Starts(c, [NoTool EXCEPT !.at = "create", !.kind = kind,
                                !.id = IF id = NoId THEN <<kind, counter>> ELSE id])

Method == {"prepare", "start", "drain", "stop", "close", "stats", "list"}

StartTool(c) ==
  /\ \/ \E id \in Given : Starts(c, [NoTool EXCEPT !.at = "create", !.kind = "log", !.id = id])
     \/ \E at \in Method, id \in Given :
          Starts(c, [NoTool EXCEPT !.at = at, !.kind = "control", !.id = id])
  /\ UNCHANGED counter

(* A tool that has ended; stuck: it has left its session.                  *)
Over(t, stuck) ==
  [NoTool EXCEPT !.at = "over", !.kind = t.kind, !.session = t.session, !.stuck = stuck]

(* Faulty variant: nothing is closed when the drain has failed.            *)
AfterFailureLeaves(t) ==
  IF t.at = "drain" \/ t.cleanup
  THEN Over(t, t.at = "stop")
  ELSE [t EXCEPT !.at = "stop", !.cleanup = TRUE]

(* After an error between create and the end the tool stops and closes the *)
(* session, and gives up at the second error.  as_log starts its session   *)
(* outside of that block.                                                  *)
AfterFailure(t) ==
  IF t.kind = "control" \/ t.at = "create" THEN Over(t, FALSE)
  ELSE IF t.kind = "log" /\ t.at = "start" THEN Over(t, TRUE)
  ELSE IF t.cleanup THEN Over(t, t.at = "stop")
  ELSE [t EXCEPT !.at = "stop", !.cleanup = TRUE]

(* What may come after each call that succeeded.  Without a file as_play   *)
(* and as_record leave their session as it was created.                    *)
PlayScript ==
  [create |-> {"start", "left"}, start |-> {"transfer", "drain"},
   transfer |-> {"transfer", "drain"}, drain |-> {"stop"},
   stop |-> {"close"}, close |-> {"over"}]
RecordScript ==
  [create |-> {"start", "left"}, start |-> {"transfer", "stop"},
   transfer |-> {"transfer", "stop"}, stop |-> {"close"}, close |-> {"over"}]
LogScript ==
  [create |-> {"start"}, start |-> {"transfer"},
   transfer |-> {"transfer", "stop"}, stop |-> {"close"}, close |-> {"over"}]

AfterSuccess(t) ==
  LET next == CASE t.kind = "control"  -> {"over"}
                [] t.kind = "playback" -> PlayScript[t.at]
                [] t.kind = "capture"  -> RecordScript[t.at]
                [] t.kind = "log"      -> LogScript[t.at]
  IN {IF at \in {"left", "over"} THEN Over(t, at = "left")
      ELSE [t EXCEPT !.at = at] : at \in next}

(* The worker's answer ends the job, and the tool goes on.                 *)
Fails(c) == Sends(c, AfterFailure(tool[c]))

Succeeds(c) == \E t \in AfterSuccess(tool[c]) : Sends(c, t)

-----------------------------------------------------------------------------
(* AudioService::createPlaybackSession and createCaptureSession.           *)

HasSession(i) == \E k \in Kind : table[k][i] # None

Look(c) ==
  /\ job[c].at = "look"
  /\ IF HasSession(job[c].id) THEN Fails(c) ELSE Goes(c, "open") /\ UNCHANGED tool
  /\ UNCHANGED <<audio, logs, numbers, runs, failures>>

(* The device is opened outside of the lock.                               *)
Open(c) == \E ok \in BOOLEAN :
  /\ job[c].at = "open" /\ Len(sessions) < MaxSessions
  /\ Outcome(ok)
  /\ IF ok
     THEN /\ sessions' = Append(sessions,
                [id |-> job[c].id, kind |-> job[c].kind, prepared |-> FALSE,
                 running |-> FALSE, closed |-> FALSE, holder |-> Nobody])
          /\ job' = [job EXCEPT ![c].at = "insert", ![c].session = Len(sessions')]
          /\ UNCHANGED tool
     ELSE Fails(c) /\ UNCHANGED sessions
  /\ UNCHANGED <<table, logs, numbers, runs>>

Shut(k) == sessions' = [sessions EXCEPT ![k].closed = TRUE,
                                        ![k].running = FALSE, ![k].prepared = FALSE]

(* Faulty variant: the table is not looked at again.                       *)
InsertUnseen(c) ==
  /\ job[c].at = "insert"
  /\ table' = [table EXCEPT ![job[c].kind][job[c].id] = IF @ = None THEN job[c].session ELSE @]
  /\ tool' = [tool EXCEPT ![c].session = job[c].session]
  /\ Goes(c, "get")
  /\ UNCHANGED <<sessions, logs, numbers, runs, failures>>

(* A session that lost the race is destroyed, which closes its device.     *)
Insert(c) ==
  /\ job[c].at = "insert"
  /\ IF HasSession(job[c].id)
     THEN Shut(job[c].session) /\ Fails(c) /\ UNCHANGED table
     ELSE /\ table' = [table EXCEPT ![job[c].kind][job[c].id] = job[c].session]
          /\ tool' = [tool EXCEPT ![c].session = job[c].session]
          /\ Goes(c, "get")
          /\ UNCHANGED sessions
  /\ UNCHANGED <<logs, numbers, runs, failures>>

-----------------------------------------------------------------------------
(* Calls of a session.                                                     *)

(* The session of an id among these kinds: playback before capture.        *)
(* The code looks into one table after the other; as no id is in both, what *)
(* it finds was true at one moment in between.                             *)
Find(i, kinds) ==
  IF "playback" \in kinds /\ table["playback"][i] # None
  THEN table["playback"][i]
  ELSE IF "capture" \in kinds THEN table["capture"][i] ELSE None

(* drain and writeFrames know playback sessions only, readFrames capture.  *)
Kinds(call, kind) ==
  CASE call = "drain" -> {"playback"}
    [] call = "transfer" -> {kind}
    [] OTHER -> Kind

Finds(c, from, to) ==
  /\ job[c].at = from
  /\ LET found == Find(job[c].id, Kinds(job[c].call, job[c].kind))
     IN IF found = None
        THEN Fails(c)
        ELSE job' = [job EXCEPT ![c].session = found, ![c].at = to] /\ UNCHANGED tool
  /\ UNCHANGED <<audio, logs, numbers, runs, failures>>

FindSession(c) == Finds(c, "find", "do")

(* audioStreamResponse finds the session id of a frame by its number.      *)
Resolve(c) ==
  /\ job[c].at = "resolve"
  /\ IF job[c].number = None \/ numericSessions[job[c].number] = NoId
     THEN Fails(c)
     ELSE job' = [job EXCEPT ![c].id = numericSessions[job[c].number], ![c].at = "find"]
          /\ UNCHANGED tool
  /\ UNCHANGED <<audio, logs, numbers, runs, failures>>

Locks(c, at) ==
  /\ job[c].at = at
  /\ sessions[job[c].session].holder = Nobody

(* A handler ends with the state of the session, a frame with its answer.  *)
Done(c) == IF job[c].call = "transfer" THEN Succeeds(c)
           ELSE Goes(c, "get") /\ UNCHANGED tool

Prepare(c) ==
  /\ Locks(c, "do") /\ job[c].call = "prepare"
  /\ LET k == job[c].session
     IN \E ok \in BOOLEAN :
          IF sessions[k].closed THEN Fails(c) /\ UNCHANGED <<sessions, failures>>
          ELSE IF sessions[k].prepared THEN Done(c) /\ UNCHANGED <<sessions, failures>>
          ELSE /\ Outcome(ok)
               /\ sessions' = [sessions EXCEPT ![k].prepared = ok]
               /\ IF ok THEN Done(c) ELSE Fails(c)
  /\ UNCHANGED <<table, logs, numbers, runs>>

(* Faulty variant: a session that was closed meanwhile is started.         *)
StartUnchecked(c) ==
  /\ Locks(c, "do") /\ job[c].call = "start"
  /\ sessions' = [sessions EXCEPT ![job[c].session].prepared = TRUE,
                                  ![job[c].session].running = TRUE]
  /\ Done(c)
  /\ UNCHANGED <<table, logs, numbers, runs, failures>>

(* start() prepares the device first where that was not done.              *)
Start(c) ==
  /\ Locks(c, "do") /\ job[c].call = "start"
  /\ LET k == job[c].session
     IN IF sessions[k].closed THEN Fails(c) /\ UNCHANGED <<sessions, failures>>
        ELSE \E prepared, ok \in BOOLEAN :
          /\ sessions[k].prepared => prepared
          /\ ok => prepared
          /\ Outcome(ok)
          /\ sessions' = [sessions EXCEPT ![k].prepared = prepared,
                                          ![k].running = @ \/ ok]
          /\ IF ok THEN Done(c) ELSE Fails(c)
  /\ UNCHANGED <<table, logs, numbers, runs>>

(* stop() of a closed session does nothing.                                *)
Stop(c) ==
  /\ Locks(c, "do") /\ job[c].call = "stop"
  /\ LET k == job[c].session
     IN IF sessions[k].closed THEN Done(c) /\ UNCHANGED <<sessions, failures>>
        ELSE \E ok \in BOOLEAN :
          /\ Outcome(ok)
          /\ sessions' = [sessions EXCEPT ![k].running = @ /\ ~ok]
          /\ IF ok THEN Done(c) ELSE Fails(c)
  /\ UNCHANGED <<table, logs, numbers, runs>>

(* The mutex of the session is kept while its device is busy.              *)
Occupies(c, may) ==
  /\ IF may
     THEN /\ sessions' = [sessions EXCEPT ![job[c].session].holder = c]
          /\ Goes(c, "device") /\ UNCHANGED tool
     ELSE Fails(c) /\ UNCHANGED sessions
  /\ UNCHANGED <<table, logs, numbers, runs, failures>>

WriteFrames(c) ==
  /\ Locks(c, "do") /\ job[c].call = "transfer" /\ job[c].kind = "playback"
  /\ LET s == sessions[job[c].session] IN Occupies(c, ~s.closed /\ s.running)

ReadFrames(c) ==
  /\ Locks(c, "do") /\ job[c].call = "transfer" /\ job[c].kind = "capture"
  /\ LET s == sessions[job[c].session] IN Occupies(c, ~s.closed /\ s.running)

Drain(c) ==
  /\ Locks(c, "do") /\ job[c].call = "drain"
  /\ Occupies(c, ~sessions[job[c].session].closed)

(* The device has done it, or says that it could not.                      *)
DeviceEnds(c) ==
  /\ job[c].at = "device"
  /\ sessions' = [sessions EXCEPT ![job[c].session].holder = Nobody]
  /\ \E ok \in BOOLEAN : Outcome(ok) /\ (IF ok THEN Done(c) ELSE Fails(c))
  /\ UNCHANGED <<table, logs, numbers, runs>>

-----------------------------------------------------------------------------
(* What a handler reads for its answer.                                    *)

(* AudioService::get looks the session up again: it may be gone, or be a   *)
(* new session of the same id.                                             *)
Get(c) == Finds(c, "get", "snapshot")

(* getStats copies the state under the mutex of the session and looks the  *)
(* session up once more.                                                   *)
Snapshot(c) ==
  /\ Locks(c, "snapshot") /\ job[c].call = "stats"
  /\ Goes(c, "stats")
  /\ UNCHANGED <<tool, audio, logs, numbers, runs, failures>>

FindStats(c) == Finds(c, "stats", "read stats")

ReadStats(c) ==
  /\ Locks(c, "read stats")
  /\ Succeeds(c)
  /\ UNCHANGED <<audio, logs, numbers, runs, failures>>

(* Faulty variant: the next id that asks gets the same number.             *)
TakeSameNumber(i) ==
  IF sessionIds[i] # None
  THEN UNCHANGED <<counter, sessionIds, numericSessions>>
  ELSE /\ counter <= MaxNumber
       /\ UNCHANGED counter
       /\ sessionIds' = [sessionIds EXCEPT ![i] = counter]
       /\ numericSessions' = [numericSessions EXCEPT ![counter] = i]

(* numericSessionId gives an id its number when it is first asked for it.  *)
TakeNumber(i) ==
  IF sessionIds[i] # None
  THEN UNCHANGED <<counter, sessionIds, numericSessions>>
  ELSE /\ counter <= MaxNumber
       /\ counter' = counter + 1
       /\ sessionIds' = [sessionIds EXCEPT ![i] = counter]
       /\ numericSessions' = [numericSessions EXCEPT ![counter] = i]

(* The others copy the state and ask for the number (streamToJson).  The   *)
(* answer of a create also describes the stream.                           *)
GiveNumber(c) ==
  /\ Locks(c, "snapshot") /\ job[c].call # "stats"
  /\ TakeNumber(job[c].id)
  /\ IF job[c].call = "create"
     THEN /\ tool' = [tool EXCEPT ![c].number = sessionIds'[job[c].id]]
          /\ Goes(c, "describe")
     ELSE Succeeds(c)
  /\ UNCHANGED <<audio, logs, streamIds, runs, failures>>

(* numericStreamId.                                                        *)
Describe(c) ==
  /\ job[c].at = "describe"
  /\ IF streamIds[job[c].id] # None
     THEN UNCHANGED <<counter, streamIds>>
     ELSE /\ counter <= MaxNumber
          /\ counter' = counter + 1
          /\ streamIds' = [streamIds EXCEPT ![job[c].id] = counter]
  /\ Succeeds(c)
  /\ UNCHANGED <<audio, logs, sessionIds, numericSessions, runs, failures>>

(* AudioService::list copies both tables under the lock, then asks each    *)
(* session for its state, and listSessions asks for the numbers.           *)
Collect(c) ==
  /\ job[c].at = "collect"
  /\ job' = [job EXCEPT ![c].at = "list",
               ![c].left = (UNION {{table[k][i] : i \in SessionId} : k \in Kind}) \ {None}]
  /\ UNCHANGED <<tool, audio, logs, numbers, runs, failures>>

List(c) ==
  /\ job[c].at = "list"
  /\ IF job[c].left = {} THEN Goes(c, "list numbers")
     ELSE \E k \in job[c].left :
            /\ sessions[k].holder = Nobody
            /\ job' = [job EXCEPT ![c].left = @ \ {k}, ![c].ids = @ \cup {sessions[k].id}]
  /\ UNCHANGED <<tool, audio, logs, numbers, runs, failures>>

ListNumber(c) ==
  /\ job[c].at = "list numbers"
  /\ IF job[c].ids = {} THEN Succeeds(c) /\ UNCHANGED numbers
     ELSE \E i \in job[c].ids :
            /\ TakeNumber(i)
            /\ job' = [job EXCEPT ![c].ids = @ \ {i}]
            /\ UNCHANGED <<tool, streamIds>>
  /\ UNCHANGED <<audio, logs, runs, failures>>

-----------------------------------------------------------------------------
(* closeSession: out of the table, closed, and its numbers released, each  *)
(* under a lock of its own.                                                *)

Remove(c) ==
  /\ job[c].at = "remove"
  /\ LET found == Find(job[c].id, Kind)
     IN IF found = None
        THEN Fails(c) /\ UNCHANGED table
        ELSE /\ table' = [table EXCEPT ![sessions[found].kind][job[c].id] = None]
             /\ job' = [job EXCEPT ![c].session = found, ![c].at = "close"]
             /\ UNCHANGED tool
  /\ UNCHANGED <<sessions, logs, numbers, runs, failures>>

Close(c) ==
  /\ Locks(c, "close")
  /\ Shut(job[c].session)
  /\ Goes(c, "release")
  /\ UNCHANGED <<tool, table, logs, numbers, runs, failures>>

Release(c) ==
  /\ job[c].at = "release"
  /\ LET i == job[c].id
     IN /\ numericSessions' = IF sessionIds[i] = None THEN numericSessions
                              ELSE [numericSessions EXCEPT ![sessionIds[i]] = NoId]
        /\ sessionIds' = [sessionIds EXCEPT ![i] = None]
        /\ streamIds' = [streamIds EXCEPT ![i] = None]
  /\ Succeeds(c)
  /\ UNCHANGED <<audio, logs, counter, runs, failures>>

-----------------------------------------------------------------------------
(* The calls of as_log.  LogService keeps its mutex through each of them.  *)

LogCall(c, call) == job[c].at = "log" /\ job[c].call = call

(* An unknown session is refused.                                          *)
Unknown(c) ==
  /\ ~logs[job[c].id].open
  /\ Fails(c)
  /\ UNCHANGED <<audio, logs, numbers, runs, failures>>

LogCreate(c) ==
  /\ LogCall(c, "create")
  /\ IF ~logs[job[c].id].open
     THEN logs' = [logs EXCEPT ![job[c].id] = [NoLog EXCEPT !.open = TRUE, !.by = c]] /\ Succeeds(c)
     ELSE UNCHANGED logs /\ Fails(c)
  /\ UNCHANGED <<audio, numbers, runs, failures>>

LogSwitch(c, call, on) ==
  /\ LogCall(c, call)
  /\ \/ Unknown(c)
     \/ /\ logs[job[c].id].open
        /\ \E ok \in BOOLEAN :
             /\ Outcome(ok)
             /\ logs' = [logs EXCEPT ![job[c].id].running = IF ok THEN on ELSE @]
             /\ IF ok THEN Succeeds(c) ELSE Fails(c)
        /\ UNCHANGED <<audio, numbers, runs>>

LogStart(c) == LogSwitch(c, "start", TRUE)
LogStop(c) == LogSwitch(c, "stop", FALSE)

LogRead(c) ==
  /\ LogCall(c, "transfer")
  /\ \/ Unknown(c)
     \/ /\ logs[job[c].id].open
        /\ \E ok \in BOOLEAN :
             /\ Outcome(ok)
             /\ IF ok /\ logs[job[c].id].running THEN Succeeds(c) ELSE Fails(c)
        /\ UNCHANGED <<audio, logs, numbers, runs>>

LogClose(c) ==
  /\ LogCall(c, "close")
  /\ \/ Unknown(c)
     \/ /\ logs[job[c].id].open
        /\ logs' = [logs EXCEPT ![job[c].id] = NoLog]
        /\ Succeeds(c)
        /\ UNCHANGED <<audio, numbers, runs, failures>>

-----------------------------------------------------------------------------
(* The worker's next step, whatever it is serving.                         *)
Serves(c) ==
  \/ Look(c) \/ Open(c) \/ Insert(c)
  \/ FindSession(c) \/ Resolve(c)
  \/ Prepare(c) \/ Start(c) \/ Stop(c)
  \/ WriteFrames(c) \/ ReadFrames(c) \/ Drain(c) \/ DeviceEnds(c)
  \/ Get(c) \/ Snapshot(c) \/ FindStats(c) \/ ReadStats(c)
  \/ GiveNumber(c) \/ Describe(c)
  \/ Collect(c) \/ List(c) \/ ListNumber(c)
  \/ Remove(c) \/ Close(c) \/ Release(c)
  \/ LogCreate(c) \/ LogStart(c) \/ LogRead(c) \/ LogStop(c) \/ LogClose(c)

Next == \E c \in Clients : StartStream(c) \/ StartTool(c) \/ Serves(c)

Spec == Init /\ [][Next]_vars

-----------------------------------------------------------------------------
(* No id is in both tables: of two creates of one id that both found it    *)
(* free, one is refused at the second look (createPlaybackSession,         *)
(* createCaptureSession).                                                  *)
OneSessionPerId == \A i \in SessionId :
  table["playback"][i] = None \/ table["capture"][i] = None

(* A device that is open belongs to the session of its id in the table, or *)
(* to a create or a close that is still under way: none is forgotten,      *)
(* whichever calls of one id overlap (create..., remove).                  *)
OpenIsHeld == \A k \in DOMAIN sessions :
  \/ sessions[k].closed
  \/ table[sessions[k].kind][sessions[k].id] = k
  \/ \E c \in Clients : job[c].session = k /\ job[c].at \in {"insert", "close"}

(* A call that found a session before another removed and closed it leaves *)
(* the closed device alone (closed_ in start, prepare and writeFrames).    *)
ClosedIsQuiet == \A k \in DOMAIN sessions : sessions[k].closed =>
  ~sessions[k].running /\ ~sessions[k].prepared /\ sessions[k].holder = Nobody

(* A frame that carries the number a tool got from its create reaches a    *)
(* session of the tool's id or none, also when that session was closed and *)
(* others have come since (numericSessionId, releaseSession,               *)
(* sessionIdForNumeric).                                                   *)
FramesStayInId == \A c \in Clients :
  job[c].call = "transfer" /\ job[c].at \in {"do", "device"} /\ tool[c].kind # "log"
    => sessions[job[c].session].id = tool[c].id

(* A tool that was given a file and has ended has not left its session in  *)
(* the table, whatever else failed, except by a second error, at the stop, *)
(* or, as_log, by a failed start (runPlayback, runRecord, runLogTool).     *)
ToolLeavesNothing == \A c \in Clients : tool[c].at = "over" /\ ~tool[c].stuck =>
  /\ \A k \in Kind, i \in SessionId : table[k][i] # None => table[k][i] # tool[c].session
  /\ \A i \in SessionId : tool[c].kind = "log" => logs[i].by # c

(* The tables hold one session of an id, and every device that is open.    *)
TablesHold == OneSessionPerId /\ OpenIsHeld
=============================================================================
