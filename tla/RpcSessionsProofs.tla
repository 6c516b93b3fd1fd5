------------------------- MODULE RpcSessionsProofs -------------------------
(***************************************************************************)
(* Proofs, for any clients, any given ids, any number of tools, devices and*)
(* failures, that the tables of AudioService hold one session of an id and *)
(* every open device, that a closed device is left alone, that a frame     *)
(* never reaches the session of another id, and that a tool leaves no      *)
(* session behind.                                                         *)
(***************************************************************************)
EXTENDS RpcSessions, SequenceTheorems, TLAPS

USE RpcAssumption

CallName == {"create", "start", "transfer", "drain", "stop", "close", "prepare",
             "stats", "list"}
Place == {"idle", "look", "open", "insert", "get", "snapshot", "describe", "find",
          "do", "device", "resolve", "stats", "read stats", "collect", "list",
          "list numbers", "remove", "close", "release", "log"}
ToolKind == Kind \cup {"log", "control", "none"}
AnyId == SessionId \cup {NoId}
AnyNumber == Number \cup {None}

ToolType == [at : CallName \cup {"idle", "over"}, kind : ToolKind, id : AnyId,
             number : AnyNumber, session : Nat, cleanup : BOOLEAN, stuck : BOOLEAN]
JobType == [call : CallName \cup {"none"}, at : Place, kind : ToolKind, id : AnyId,
            session : Nat, number : AnyNumber, left : SUBSET Nat, ids : SUBSET SessionId]
SessionType == [id : SessionId, kind : Kind, prepared : BOOLEAN, running : BOOLEAN,
                closed : BOOLEAN, holder : Clients \cup {Nobody}]

-----------------------------------------------------------------------------
(* A tool, and the job its worker has for it.                              *)

Active(t) == t.at \notin {"idle", "over"}

(* A tool is at a call of its script, and has an id.                       *)
ToolOK(t) ==
  /\ t \in ToolType
  /\ t.kind = "playback" => t.at \in {"create", "start", "transfer", "drain", "stop", "close", "over"}
  /\ t.kind \in {"capture", "log"} => t.at \in {"create", "start", "transfer", "stop", "close", "over"}
  /\ t.kind = "control" => t.at \in Method \cup {"over"}
  /\ t.kind = "none" => t.at = "idle"
  /\ Active(t) => t.id \in SessionId

(* A worker serves the call its client waits for, on the client's id.      *)
Serving(j, t) ==
  /\ j.call = t.at
  /\ j.kind = t.kind
  /\ j.id = t.id
  /\ j.at # "idle"
  /\ j.call # "create" => j.number = t.number

JobOK(j, t) ==
  /\ j \in JobType
  /\ Active(t) => Serving(j, t)
  /\ ~Active(t) => j = NoJob
  /\ j.at \in {"look", "open", "insert"} => j.kind \in Kind
  /\ j.at = "resolve" => j.call = "transfer" /\ j.session = None
  /\ j.kind = "log" => j.at = "log"
  /\ j.at \in {"insert", "do", "device", "snapshot", "read stats", "close"} => j.session # None

(* What the next call of a tool keeps of the last one.                     *)
Continues(u, t) ==
  /\ ToolOK(u)
  /\ u.at # "idle"
  /\ u.number # None => u.number = t.number /\ u.id = t.id

LEMMA AfterOK ==
  ASSUME NEW t, ToolOK(t), Active(t)
  PROVE  /\ Continues(AfterFailure(t), t)
         /\ \A u \in AfterSuccess(t) : Continues(u, t)
<1> USE DEF ToolOK, ToolType, Active, Continues
<1>1. \A stuck \in BOOLEAN : Continues(Over(t, stuck), t)
  BY DEF Over, NoTool, ToolKind, CallName, AnyNumber, AnyId, None
<1>2. Continues([t EXCEPT !.at = "stop", !.cleanup = TRUE], t)
        \/ t.kind = "control" \/ t.kind = "none"
  BY DEF CallName, ToolKind, Kind
<1>3. Continues(AfterFailure(t), t)
  <2>1. CASE t.kind = "control" \/ t.at = "create"
    BY <2>1, <1>1 DEF AfterFailure
  <2>2. CASE ~(t.kind = "control" \/ t.at = "create")
    <3>1. CASE t.kind = "log" /\ t.at = "start"
      BY <2>2, <3>1, <1>1 DEF AfterFailure
    <3>2. CASE ~(t.kind = "log" /\ t.at = "start") /\ t.cleanup
      BY <2>2, <3>2, <1>1 DEF AfterFailure
    <3>3. CASE ~(t.kind = "log" /\ t.at = "start") /\ ~t.cleanup
      <4>1. AfterFailure(t) = [t EXCEPT !.at = "stop", !.cleanup = TRUE]
        BY <2>2, <3>3 DEF AfterFailure
      <4>2. Continues([t EXCEPT !.at = "stop", !.cleanup = TRUE], t)
        BY <1>2, <2>2
      <4> QED BY <4>1, <4>2
    <3> QED BY <3>1, <3>2, <3>3
  <2> QED BY <2>1, <2>2
<1>4. ASSUME NEW u \in AfterSuccess(t) PROVE Continues(u, t)
  <2> DEFINE next == CASE t.kind = "control"  -> {"over"}
                       [] t.kind = "playback" -> PlayScript[t.at]
                       [] t.kind = "capture"  -> RecordScript[t.at]
                       [] t.kind = "log"      -> LogScript[t.at]
  <2>1. PICK at \in next : u = IF at \in {"left", "over"} THEN Over(t, at = "left")
                               ELSE [t EXCEPT !.at = at]
    BY <1>4 DEF AfterSuccess
  <2>2. CASE at \in {"left", "over"}
    BY <2>1, <2>2, <1>1
  <2>3. CASE at \notin {"left", "over"}
    <3>1. u = [t EXCEPT !.at = at]
      BY <2>1, <2>3
    <3>2. CASE t.kind = "playback"
      <4>1. at \in PlayScript[t.at]
        BY <3>2
      <4>2. at \in {"start", "transfer", "drain", "stop", "close"}
        BY <4>1, <3>2, <2>3 DEF PlayScript
      <4> QED BY <4>2, <3>1, <3>2 DEF CallName
    <3>3. CASE t.kind = "capture"
      <4>1. at \in RecordScript[t.at]
        BY <3>3
      <4>2. at \in {"start", "transfer", "stop", "close"}
        BY <4>1, <3>3, <2>3 DEF RecordScript
      <4> QED BY <4>2, <3>1, <3>3 DEF CallName
    <3>4. CASE t.kind = "log"
      <4>1. at \in LogScript[t.at]
        BY <3>4
      <4>2. at \in {"start", "transfer", "stop", "close"}
        BY <4>1, <3>4, <2>3 DEF LogScript
      <4> QED BY <4>2, <3>1, <3>4 DEF CallName
    <3>5. CASE t.kind = "control"
      BY <3>5, <2>3
    <3>6. t.kind # "none"
      OBVIOUS
    <3> QED BY <3>2, <3>3, <3>4, <3>5, <3>6 DEF ToolKind, Kind
  <2> QED BY <2>2, <2>3
<1> QED BY <1>3, <1>4

(* A new job has no session yet.                                           *)
Begins(j) == j.session = None /\ j.left = {} /\ j.ids = {}
               /\ j.at \notin {"insert", "device", "close", "describe"}

LEMMA JobOfOK ==
  ASSUME NEW t, ToolOK(t), t.at # "idle"
  PROVE  JobOK(JobOf(t), t) /\ Begins(JobOf(t))
<1> USE DEF ToolOK, ToolType, Begins
<1>1. CASE t.at = "over"
  BY <1>1 DEF JobOf, JobOK, NoJob, Active, JobType, CallName, Place, ToolKind, AnyId, AnyNumber,
              None, Serving
<1>2. CASE t.at # "over"
  <2> DEFINE j == JobOf(t)
  <2>1. j = [NoJob EXCEPT !.call = t.at, !.at = Entry(t),
                          !.kind = t.kind, !.id = t.id, !.number = t.number]
    BY <1>2 DEF JobOf
  <2>2. /\ j.call = t.at /\ j.at = Entry(t) /\ j.kind = t.kind /\ j.id = t.id
        /\ j.number = t.number /\ j.session = None /\ j.left = {} /\ j.ids = {}
    BY <2>1 DEF NoJob
  <2>3. /\ Entry(t) \in {"log", "look", "resolve", "remove", "get", "collect", "find"}
        /\ t.kind = "log" => Entry(t) = "log"
        /\ Entry(t) = "look" => t.at = "create" /\ t.kind # "log"
        /\ Entry(t) = "resolve" => t.at = "transfer"
    BY DEF Entry
  <2>4. j \in JobType
    <3>1. j = [call |-> t.at, at |-> Entry(t), kind |-> t.kind, id |-> t.id,
               session |-> 0, number |-> t.number, left |-> {}, ids |-> {}]
      BY <2>1 DEF NoJob, None
    <3>2. t.at \in CallName /\ t.kind \in ToolKind /\ t.id \in AnyId /\ t.number \in AnyNumber
      BY <1>2
    <3>3. Entry(t) \in Place
      BY <2>3 DEF Place
    <3> HIDE DEF j
    <3> QED BY <3>1, <3>2, <3>3 DEF JobType
  <2>5. Entry(t) = "look" => t.kind \in Kind
    BY <2>3, <1>2 DEF Method, ToolKind
  <2> HIDE DEF j
  <2>6. JobOK(j, t)
    BY <2>2, <2>3, <2>4, <2>5, <1>2 DEF JobOK, Active, Serving
  <2> QED BY <2>6, <2>2, <2>3 DEF j
<1> QED BY <1>1, <1>2

-----------------------------------------------------------------------------
(* The clients: each step is one client's, and keeps tool and job together.*)

ClientsInv ==
  /\ tool \in [Clients -> ToolType]
  /\ job \in [Clients -> JobType]
  /\ \A c \in Clients : ToolOK(tool[c]) /\ JobOK(job[c], tool[c])

Others(c) ==
  /\ tool' \in [Clients -> ToolType]
  /\ job' \in [Clients -> JobType]
  /\ \A d \in Clients \ {c} : tool'[d] = tool[d] /\ job'[d] = job[d]

Kept(c) == ToolOK(tool'[c]) /\ JobOK(job'[c], tool'[c])

LEMMA ClientsKeep ==
  ASSUME ClientsInv, NEW c \in Clients, Others(c), Kept(c)
  PROVE  ClientsInv'
BY DEF ClientsInv, Others, Kept

LEMMA AtWork ==
  ASSUME ClientsInv, NEW c \in Clients, job[c].at # "idle"
  PROVE  Active(tool[c]) /\ Serving(job[c], tool[c]) /\ job[c].id \in SessionId
<1>1. ToolOK(tool[c]) /\ JobOK(job[c], tool[c])
  BY DEF ClientsInv
<1>2. Active(tool[c])
  <2> SUFFICES ASSUME ~Active(tool[c]) PROVE FALSE
    OBVIOUS
  <2>1. job[c] = NoJob
    BY <1>1 DEF JobOK
  <2>2. NoJob.at = "idle"
    BY DEF NoJob
  <2> QED BY <2>1, <2>2
<1>3. Serving(job[c], tool[c])
  BY <1>1, <1>2 DEF JobOK
<1>4. tool[c].id \in SessionId
  BY <1>1, <1>2 DEF ToolOK
<1> QED BY <1>2, <1>3, <1>4 DEF Serving

LEMMA SendsOK ==
  ASSUME ClientsInv, NEW c \in Clients, NEW u, ToolOK(u), u.at # "idle", Sends(c, u)
  PROVE  /\ Others(c)
         /\ Kept(c)
         /\ tool'[c] = u
         /\ Begins(job'[c])
<1>1. JobOK(JobOf(u), u) /\ Begins(JobOf(u))
  BY JobOfOK
<1>2. u \in ToolType /\ JobOf(u) \in JobType
  BY <1>1 DEF ToolOK, JobOK
<1>3. tool'[c] = u /\ job'[c] = JobOf(u)
  BY DEF Sends, ClientsInv
<1>4. Others(c)
  BY <1>2 DEF Sends, ClientsInv, Others
<1> QED BY <1>1, <1>3, <1>4 DEF Kept

(* The end of a call.                                                      *)
LEMMA EndsOK ==
  ASSUME ClientsInv, NEW c \in Clients, job[c].at # "idle", Fails(c) \/ Succeeds(c)
  PROVE  /\ Others(c)
         /\ Kept(c)
         /\ Continues(tool'[c], tool[c])
         /\ Begins(job'[c])
<1>1. Active(tool[c]) /\ ToolOK(tool[c])
  BY AtWork DEF ClientsInv
<1>2. PICK u : Continues(u, tool[c]) /\ Sends(c, u)
  <2>1. CASE Fails(c)
    BY <2>1, <1>1, AfterOK DEF Fails
  <2>2. CASE Succeeds(c)
    BY <2>2, <1>1, AfterOK DEF Succeeds
  <2> QED BY <2>1, <2>2
<1>3. ToolOK(u) /\ u.at # "idle"
  BY <1>2 DEF Continues
<1> QED BY <1>2, <1>3, SendsOK

(* A step within a call.                                                   *)
Inside == Place \ {"idle", "look", "open", "insert", "resolve", "log"}

LEMMA MovesOK ==
  ASSUME ClientsInv, NEW c \in Clients, job[c].at \notin {"idle", "log"}, NEW j \in JobType,
         job' = [job EXCEPT ![c] = j], tool' = tool,
         j.call = job[c].call, j.kind = job[c].kind, j.id = job[c].id, j.number = job[c].number,
         j.at \in Inside \cup {"open", "insert"},
         j.at \in {"open", "insert"} => job[c].at \in {"look", "open"},
         j.at \in {"insert", "do", "device", "snapshot", "read stats", "close"} => j.session # None
  PROVE  Others(c) /\ Kept(c) /\ job'[c] = j
<1>1. job'[c] = j /\ Others(c)
  BY DEF ClientsInv, Others
<1>2. Active(tool[c]) /\ Serving(job[c], tool[c])
  BY AtWork
<1>3. /\ job[c].kind # "log"
      /\ job[c].at \in {"look", "open"} => job[c].kind \in Kind
  BY DEF ClientsInv, JobOK
<1>4. JobOK(j, tool[c])
  BY <1>2, <1>3 DEF JobOK, Serving, Inside
<1> QED BY <1>1, <1>4 DEF Kept, ClientsInv

LEMMA GoesOK ==
  ASSUME ClientsInv, NEW c \in Clients, job[c].at \notin {"idle", "log"}, NEW at \in Inside \cup {"open"},
         Goes(c, at), tool' = tool,
         at = "open" => job[c].at = "look",
         at \in {"do", "device", "snapshot", "read stats", "close"} => job[c].session # None
  PROVE  Others(c) /\ Kept(c) /\ job'[c] = [job[c] EXCEPT !.at = at]
<1> DEFINE j == [job[c] EXCEPT !.at = at]
<1>1. job[c] \in JobType
  BY DEF ClientsInv
<1>2. j \in JobType
  BY <1>1 DEF JobType, Inside, Place
<1>3. /\ j.call = job[c].call /\ j.kind = job[c].kind /\ j.id = job[c].id
      /\ j.number = job[c].number /\ j.at = at /\ j.session = job[c].session
  BY <1>1 DEF JobType
<1>4. job' = [job EXCEPT ![c] = j]
  BY DEF Goes
<1> HIDE DEF j
<1>5. Others(c) /\ Kept(c) /\ job'[c] = j
  BY <1>2, <1>3, <1>4, MovesOK DEF Inside
<1> QED BY <1>5 DEF j

-----------------------------------------------------------------------------
(* The tables and the sessions.                                            *)

Quiet(s) == s.closed => ~s.running /\ ~s.prepared /\ s.holder = Nobody

AudioTypes ==
  /\ table \in [Kind -> [SessionId -> Nat]]
  /\ sessions \in Seq(SessionType)

(* An entry of a table is a session of that table's kind and of that id.   *)
TableInv == \A k \in Kind, i \in SessionId : table[k][i] # None =>
  /\ table[k][i] \in DOMAIN sessions
  /\ sessions[table[k][i]].kind = k
  /\ sessions[table[k][i]].id = i

(* What a job has found is of the id it serves.                            *)
PointsInv == \A c \in Clients :
  /\ job[c].session # None => /\ job[c].session \in DOMAIN sessions
                              /\ sessions[job[c].session].id = job[c].id
  /\ job[c].left \subseteq DOMAIN sessions

(* A session on its way into the table is known to its creator alone.      *)
FreshInv == \A c \in Clients : job[c].at = "insert" =>
  /\ sessions[job[c].session].kind = job[c].kind
  /\ sessions[job[c].session].holder = Nobody
  /\ \A k \in Kind, i \in SessionId : table[k][i] # job[c].session
  /\ \A d \in Clients \ {c} : job[d].session # job[c].session

AudioInv ==
  /\ AudioTypes
  /\ TableInv
  /\ PointsInv
  /\ FreshInv
  /\ OneSessionPerId
  /\ OpenIsHeld
  /\ ClosedIsQuiet

(* A step changes no session but the one its client's job has found, and   *)
(* that one neither in its id nor in its kind, nor opens it again.         *)
Adjusts(c) ==
  /\ sessions' \in Seq(SessionType)
  /\ DOMAIN sessions' = DOMAIN sessions
  /\ \A k \in DOMAIN sessions :
       /\ sessions'[k].id = sessions[k].id
       /\ sessions'[k].kind = sessions[k].kind
       /\ sessions[k].closed => sessions'[k].closed
       /\ Quiet(sessions'[k])
       /\ k # job[c].session => sessions'[k] = sessions[k]
  /\ job[c].at \in {"insert", "close"} => sessions'[job[c].session].closed

(* The job goes on with the session it had, or one of its id in a table.   *)
Points(c) ==
  /\ job'[c].at \notin {"insert", "close"}
  /\ job'[c].session # None =>
       \/ job'[c].session = job[c].session /\ job'[c].id = job[c].id
       \/ /\ job'[c].id \in SessionId
          /\ \E k \in Kind : table[k][job'[c].id] = job'[c].session
  /\ job'[c].left \subseteq DOMAIN sessions

LEMMA AdjustsKeep ==
  ASSUME ClientsInv, AudioInv, NEW c \in Clients,
         Others(c), Points(c), Adjusts(c), table' = table
  PROVE  AudioInv'
<1> USE DEF AudioInv
<1>1. AudioTypes'
  BY DEF AudioTypes, Adjusts
<1>2. TableInv'
  BY DEF TableInv, Adjusts
<1>3. PointsInv'
  <2> SUFFICES ASSUME NEW d \in Clients
               PROVE  /\ job'[d].session # None => /\ job'[d].session \in DOMAIN sessions
                                                   /\ sessions[job'[d].session].id = job'[d].id
                      /\ job'[d].left \subseteq DOMAIN sessions
    BY DEF PointsInv, Adjusts
  <2>1. CASE d # c
    BY <2>1 DEF Others, PointsInv
  <2>2. CASE d = c
    BY <2>2 DEF Points, PointsInv, TableInv
  <2> QED BY <2>1, <2>2
<1>4. FreshInv'
  <2> SUFFICES ASSUME NEW d \in Clients, job'[d].at = "insert"
               PROVE  /\ sessions'[job'[d].session].kind = job'[d].kind
                      /\ sessions'[job'[d].session].holder = Nobody
                      /\ \A k \in Kind, i \in SessionId : table[k][i] # job'[d].session
                      /\ \A e \in Clients \ {d} : job'[e].session # job'[d].session
    BY DEF FreshInv
  <2>1. d # c /\ job'[d] = job[d] /\ job[d].at = "insert"
    BY DEF Points, Others
  <2>2. job[d].session \in DOMAIN sessions /\ job[d].session # None
    BY <2>1 DEF ClientsInv, JobOK, PointsInv
  <2>3. job[d].session # job[c].session
    BY <2>1 DEF FreshInv
  <2>4. job[d].session # job'[c].session
    BY <2>1, <2>2, <2>3 DEF FreshInv, Points
  <2>5. sessions'[job[d].session] = sessions[job[d].session]
    BY <2>2, <2>3 DEF Adjusts
  <2> QED BY <2>1, <2>4, <2>5 DEF FreshInv, Others
<1>5. OneSessionPerId'
  BY DEF OneSessionPerId
<1>6. OpenIsHeld'
  <2> SUFFICES ASSUME NEW k \in DOMAIN sessions, ~sessions'[k].closed
               PROVE  \/ table[sessions[k].kind][sessions[k].id] = k
                      \/ \E d \in Clients : job'[d].session = k /\ job'[d].at \in {"insert", "close"}
    BY DEF OpenIsHeld, Adjusts
  <2>1. ~sessions[k].closed
    BY DEF Adjusts
  <2>2. CASE table[sessions[k].kind][sessions[k].id] = k
    BY <2>2
  <2>3. ASSUME NEW d \in Clients, job[d].session = k, job[d].at \in {"insert", "close"}
        PROVE  \E e \in Clients : job'[e].session = k /\ job'[e].at \in {"insert", "close"}
    <3>1. d # c
      BY <2>3 DEF Adjusts
    <3> QED BY <2>3, <3>1 DEF Others
  <2> QED BY <2>1, <2>2, <2>3 DEF OpenIsHeld
<1>7. ClosedIsQuiet'
  BY DEF ClosedIsQuiet, Adjusts, Quiet
<1> QED BY <1>1, <1>2, <1>3, <1>4, <1>5, <1>6, <1>7

-----------------------------------------------------------------------------
(* The numbers.                                                            *)

(* A number stands for the id that has it or for none, and is not given    *)
(* twice: what a tool remembers is its own id's or nobody's.               *)
NumbersInv ==
  /\ counter \in Nat \ {0}
  /\ sessionIds \in [SessionId -> AnyNumber]
  /\ numericSessions \in [Number -> AnyId]
  /\ \A i \in SessionId : sessionIds[i] # None =>
       sessionIds[i] < counter /\ numericSessions[sessionIds[i]] = i
  /\ \A n \in Number : n >= counter => numericSessions[n] = NoId
  /\ \A c \in Clients : tool[c].number # None =>
       tool[c].number < counter /\ numericSessions[tool[c].number] \in {NoId, tool[c].id}

(* The client remembers no other number than before.                       *)
Remembers(c) ==
  tool'[c].number # None => tool'[c].number = tool[c].number /\ tool'[c].id = tool[c].id

(* Numbers are taken or released, never moved to another id.               *)
Renumbers ==
  /\ counter' \in Nat \ {0}
  /\ counter <= counter'
  /\ sessionIds' \in [SessionId -> AnyNumber]
  /\ numericSessions' \in [Number -> AnyId]
  /\ \A i \in SessionId : sessionIds'[i] # None =>
       sessionIds'[i] < counter' /\ numericSessions'[sessionIds'[i]] = i
  /\ \A n \in Number : n >= counter' => numericSessions'[n] = NoId
  /\ \A n \in Number : n < counter => numericSessions'[n] \in {NoId, numericSessions[n]}

LEMMA NumbersKeep ==
  ASSUME NumbersInv, ClientsInv, NEW c \in Clients, Others(c), Remembers(c), Renumbers
  PROVE  NumbersInv'
<1>1. ASSUME NEW d \in Clients, tool'[d].number # None
      PROVE  tool'[d].number < counter' /\ numericSessions'[tool'[d].number] \in {NoId, tool'[d].id}
  <2>1. tool'[d].number = tool[d].number /\ tool'[d].id = tool[d].id
    BY <1>1 DEF Others, Remembers
  <2>2. tool[d].number \in Number
    BY <1>1, <2>1 DEF ClientsInv, ToolType, AnyNumber
  <2>3. tool[d].number < counter /\ numericSessions[tool[d].number] \in {NoId, tool[d].id}
    BY <1>1, <2>1 DEF NumbersInv
  <2>4. numericSessions'[tool[d].number] \in {NoId, numericSessions[tool[d].number]}
    BY <2>2, <2>3 DEF Renumbers
  <2>5. tool[d].number < counter'
    BY <2>2, <2>3 DEF Renumbers, NumbersInv, Number
  <2> QED BY <2>1, <2>3, <2>4, <2>5
<1> QED BY <1>1 DEF NumbersInv, Renumbers

LEMMA SameNumbers ==
  ASSUME NumbersInv, counter' \in Nat, counter <= counter',
         UNCHANGED <<sessionIds, numericSessions>>
  PROVE  Renumbers
BY DEF NumbersInv, Renumbers, AnyNumber, Number, None

LEMMA TakesNumber ==
  ASSUME NumbersInv, NEW i \in SessionId, TakeNumber(i)
  PROVE  /\ Renumbers
         /\ sessionIds'[i] # None
<1>1. CASE sessionIds[i] # None
  BY <1>1, SameNumbers DEF TakeNumber, NumbersInv
<1>2. CASE sessionIds[i] = None
  <2>1. /\ counter \in Number /\ counter' = counter + 1
        /\ sessionIds' = [sessionIds EXCEPT ![i] = counter]
        /\ numericSessions' = [numericSessions EXCEPT ![counter] = i]
    BY <1>2 DEF TakeNumber, NumbersInv, Number
  <2>2. sessionIds' \in [SessionId -> AnyNumber] /\ numericSessions' \in [Number -> AnyId]
    BY <2>1 DEF NumbersInv, AnyNumber, AnyId
  <2>3. ASSUME NEW h \in SessionId, sessionIds'[h] # None
        PROVE  sessionIds'[h] < counter' /\ numericSessions'[sessionIds'[h]] = h
    <3>1. CASE h = i
      BY <2>1, <3>1 DEF NumbersInv, Number
    <3>2. CASE h # i
      <4>1. sessionIds'[h] = sessionIds[h] /\ sessionIds[h] \in Number
        BY <2>1, <2>3, <3>2 DEF NumbersInv, AnyNumber
      <4>2. sessionIds[h] < counter /\ numericSessions[sessionIds[h]] = h
        BY <2>3, <4>1 DEF NumbersInv
      <4> QED BY <2>1, <4>1, <4>2 DEF NumbersInv, Number
    <3> QED BY <3>1, <3>2
  <2>4. \A n \in Number : n >= counter' => numericSessions'[n] = NoId
    BY <2>1 DEF NumbersInv, Number
  <2>5. \A n \in Number : n < counter => numericSessions'[n] \in {NoId, numericSessions[n]}
    BY <2>1 DEF NumbersInv, Number
  <2>6. sessionIds'[i] # None
    BY <2>1 DEF NumbersInv, Number, None
  <2>7. counter' \in Nat \ {0} /\ counter <= counter'
    BY <2>1 DEF NumbersInv
  <2> QED BY <2>2, <2>3, <2>4, <2>5, <2>6, <2>7 DEF Renumbers
<1> QED BY <1>1, <1>2

-----------------------------------------------------------------------------
(* The steps that leave tables, sessions and numbers alone.                *)

Invariants == ClientsInv /\ AudioInv /\ NumbersInv

(* What a step of a client owes the invariants.                            *)
Tidy(c) == Others(c) /\ Kept(c) /\ Points(c) /\ Remembers(c)

LEMMA TidyKeeps ==
  ASSUME Invariants, NEW c \in Clients, Tidy(c), Adjusts(c), table' = table, Renumbers
  PROVE  Invariants'
BY ClientsKeep, AdjustsKeep, NumbersKeep DEF Invariants, Tidy

LEMMA SameSessions ==
  ASSUME AudioInv, NEW c \in Clients, job[c].at \notin {"insert", "close"}, sessions' = sessions
  PROVE  Adjusts(c)
BY DEF Adjusts, AudioInv, AudioTypes, ClosedIsQuiet, Quiet

LEMMA OwnSession ==
  ASSUME Invariants, NEW c \in Clients, job[c].session # None
  PROVE  /\ job[c].session \in DOMAIN sessions
         /\ sessions[job[c].session] \in SessionType
         /\ sessions[job[c].session].id = job[c].id
         /\ Quiet(sessions[job[c].session])
<1>1. job[c].session \in DOMAIN sessions /\ sessions[job[c].session].id = job[c].id
  BY DEF Invariants, AudioInv, PointsInv
<1>2. sessions \in Seq(SessionType)
  BY DEF Invariants, AudioInv, AudioTypes
<1> QED BY <1>1, <1>2 DEF Invariants, AudioInv, ClosedIsQuiet, Quiet

LEMMA AtDevice ==
  ASSUME Invariants, NEW c \in Clients,
         job[c].at \in {"insert", "do", "device", "snapshot", "read stats", "close"}
  PROVE  job[c].session # None
BY DEF Invariants, ClientsInv, JobOK

LEMMA QuietKeeps ==
  ASSUME Invariants, NEW c \in Clients, job[c].at \notin {"insert", "close"}, Tidy(c),
         UNCHANGED <<audio, counter, sessionIds, numericSessions>>
  PROVE  Invariants'
<1>1. Adjusts(c) /\ table' = table
  BY SameSessions DEF Invariants, audio
<1>2. Renumbers
  BY SameNumbers DEF Invariants, NumbersInv
<1> QED BY <1>1, <1>2, TidyKeeps

LEMMA EndsTidy ==
  ASSUME Invariants, NEW c \in Clients, job[c].at # "idle", Fails(c) \/ Succeeds(c)
  PROVE  Tidy(c)
<1>1. /\ Others(c) /\ Kept(c)
      /\ Continues(tool'[c], tool[c])
      /\ Begins(job'[c])
  BY EndsOK DEF Invariants
<1> QED BY <1>1 DEF Tidy, Continues, Remembers, Begins, Points, None

LEMMA GoesTidy ==
  ASSUME Invariants, NEW c \in Clients, job[c].at \notin {"idle", "log"},
         NEW at \in (Inside \ {"close"}) \cup {"open"}, Goes(c, at), tool' = tool,
         at = "open" => job[c].at = "look",
         at \in {"do", "device", "snapshot", "read stats"} => job[c].session # None
  PROVE  Tidy(c)
<1>1. Others(c) /\ Kept(c) /\ job'[c] = [job[c] EXCEPT !.at = at]
  BY GoesOK DEF Invariants
<1>2. /\ job'[c].at = at /\ job'[c].session = job[c].session /\ job'[c].id = job[c].id
      /\ job'[c].left = job[c].left
  <2>1. job[c] \in JobType
    BY DEF Invariants, ClientsInv
  <2> QED BY <1>1, <2>1 DEF JobType
<1>3. job[c].left \subseteq DOMAIN sessions
  BY DEF Invariants, AudioInv, PointsInv
<1>4. Points(c)
  BY <1>2, <1>3 DEF Points, Inside
<1> QED BY <1>1, <1>4 DEF Tidy, Remembers

(* A job that goes on with other data.                                     *)
LEMMA MovesTidy ==
  ASSUME Invariants, NEW c \in Clients, job[c].at \notin {"idle", "log"}, NEW j \in JobType,
         job' = [job EXCEPT ![c] = j], tool' = tool,
         j.call = job[c].call, j.kind = job[c].kind, j.id = job[c].id, j.number = job[c].number,
         j.at \in Inside \ {"close"},
         j.at \in {"do", "device", "snapshot", "read stats"} => j.session # None,
         \/ j.session = job[c].session
         \/ \E k \in Kind : table[k][job[c].id] = j.session,
         j.left \subseteq DOMAIN sessions
  PROVE  Tidy(c)
<1>1. Others(c) /\ Kept(c) /\ job'[c] = j
  BY MovesOK DEF Invariants, Inside
<1>2. job[c].id \in SessionId
  BY AtWork DEF Invariants
<1>3. Points(c)
  BY <1>1, <1>2 DEF Points, Inside
<1> QED BY <1>1, <1>3 DEF Tidy, Remembers

LEMMA DoneTidy ==
  ASSUME Invariants, NEW c \in Clients, job[c].at \in {"do", "device"}, Done(c)
  PROVE  Tidy(c)
<1>1. CASE job[c].call = "transfer"
  BY <1>1, EndsTidy DEF Done
<1>2. CASE job[c].call # "transfer"
  BY <1>2, GoesTidy DEF Done, Inside, Place
<1> QED BY <1>1, <1>2

LEMMA FindsKeeps ==
  ASSUME Invariants, NEW c \in Clients, NEW from \in {"find", "get", "stats"},
         NEW to \in {"do", "snapshot", "read stats"}, Finds(c, from, to)
  PROVE  Invariants'
<1> DEFINE found == Find(job[c].id, Kinds(job[c].call, job[c].kind))
<1>1. CASE found = None
  BY <1>1, EndsTidy, QuietKeeps DEF Finds, numbers
<1>2. CASE found # None
  <2> DEFINE j == [job[c] EXCEPT !.session = found, !.at = to]
  <2>1. job' = [job EXCEPT ![c] = j] /\ tool' = tool
    BY <1>2 DEF Finds
  <2>2. job[c] \in JobType /\ job[c].id \in SessionId
    BY AtWork DEF Invariants, ClientsInv, Finds
  <2>3. \E k \in Kind : table[k][job[c].id] = found
    BY <1>2 DEF Find, Kind
  <2>4. found \in Nat
    <3>1. PICK k \in Kind : table[k][job[c].id] = found
      BY <2>3
    <3>2. table[k] \in [SessionId -> Nat]
      BY DEF Invariants, AudioInv, AudioTypes
    <3>3. table[k][job[c].id] \in Nat
      BY <2>2, <3>2
    <3> QED BY <3>1, <3>3
  <2> HIDE DEF found
  <2>5. /\ j.call = job[c].call /\ j.kind = job[c].kind /\ j.id = job[c].id
        /\ j.number = job[c].number /\ j.at = to /\ j.session = found /\ j.left = job[c].left
    BY <2>2 DEF JobType
  <2>6. j \in JobType
    BY <2>2, <2>4 DEF JobType, Place
  <2>7. job[c].left \subseteq DOMAIN sessions
    BY DEF Invariants, AudioInv, PointsInv
  <2> HIDE DEF j
  <2>8. Tidy(c)
    <3>1. job[c].at \notin {"idle", "log"} /\ to \in Inside \ {"close"}
      BY DEF Finds, Inside, Place
    <3> QED BY <1>2, <2>1, <2>3, <2>5, <2>6, <2>7, <3>1, MovesTidy
  <2> QED BY <2>8, QuietKeeps DEF Finds, numbers
<1> QED BY <1>1, <1>2

(* A call of a session changes this session alone.                         *)
LEMMA OneAdjusts ==
  ASSUME Invariants, NEW c \in Clients, job[c].at \in {"do", "device", "close"},
         NEW s \in SessionType, sessions' = [sessions EXCEPT ![job[c].session] = s],
         s.id = sessions[job[c].session].id, s.kind = sessions[job[c].session].kind,
         sessions[job[c].session].closed => s.closed,
         Quiet(s),
         job[c].at = "close" => s.closed
  PROVE  Adjusts(c)
<1>1. job[c].session \in DOMAIN sessions
  BY DEF Invariants, ClientsInv, JobOK, AudioInv, PointsInv
<1>2. sessions \in Seq(SessionType)
  BY DEF Invariants, AudioInv, AudioTypes
<1>3. sessions' \in Seq(SessionType) /\ DOMAIN sessions' = DOMAIN sessions
  BY <1>1, <1>2
<1>4. \A k \in DOMAIN sessions : Quiet(sessions[k])
  BY DEF Invariants, AudioInv, ClosedIsQuiet, Quiet
<1> QED BY <1>1, <1>2, <1>3, <1>4 DEF Adjusts

(* The calls of a session.                                                 *)

LEMMA CallKeeps ==
  ASSUME Invariants, NEW c \in Clients, job[c].at \in {"do", "device"},
         Tidy(c), Adjusts(c), UNCHANGED <<table, numbers>>
  PROVE  Invariants'
BY SameNumbers, TidyKeeps DEF Invariants, NumbersInv, numbers

LEMMA PrepareKeeps ==
  ASSUME Invariants, NEW c \in Clients, Prepare(c)
  PROVE  Invariants'
<1> DEFINE k == job[c].session
<1>1. job[c].at = "do" /\ UNCHANGED <<table, numbers>>
  BY DEF Prepare, Locks, numbers
<1>2. CASE sessions' = sessions
  <2>1. Tidy(c)
    BY <1>1, EndsTidy, DoneTidy DEF Prepare
  <2> QED BY <1>1, <1>2, <2>1, SameSessions, CallKeeps DEF Invariants
<1>3. CASE sessions' # sessions
  <2>1. PICK ok \in BOOLEAN : /\ ~sessions[k].closed
                              /\ sessions' = [sessions EXCEPT ![k].prepared = ok]
                              /\ Done(c) \/ Fails(c)
    BY <1>3 DEF Prepare
  <2>2. Tidy(c)
    BY <1>1, <2>1, EndsTidy, DoneTidy
  <2> DEFINE s == [sessions[k] EXCEPT !.prepared = ok]
  <2>3. sessions[k] \in SessionType
    BY <1>1, AtDevice, OwnSession
  <2>4. s \in SessionType /\ s.id = sessions[k].id /\ s.kind = sessions[k].kind
          /\ s.closed = sessions[k].closed
    BY <2>3 DEF SessionType
  <2>5. sessions' = [sessions EXCEPT ![k] = s]
    BY <2>1
  <2> HIDE DEF s
  <2>6. Adjusts(c)
    BY <1>1, <2>1, <2>4, <2>5, OneAdjusts DEF Quiet
  <2> QED BY <1>1, <2>2, <2>6, CallKeeps
<1> QED BY <1>2, <1>3

LEMMA StartKeeps ==
  ASSUME Invariants, NEW c \in Clients, Start(c)
  PROVE  Invariants'
<1> DEFINE k == job[c].session
<1>1. job[c].at = "do" /\ UNCHANGED <<table, numbers>>
  BY DEF Start, Locks, numbers
<1>2. CASE sessions[k].closed
  <2>1. Tidy(c) /\ sessions' = sessions
    BY <1>1, <1>2, EndsTidy DEF Start
  <2> QED BY <1>1, <2>1, SameSessions, CallKeeps DEF Invariants
<1>3. CASE ~sessions[k].closed
  <2>1. PICK prepared, ok \in BOOLEAN :
          /\ sessions' = [sessions EXCEPT ![k].prepared = prepared, ![k].running = @ \/ ok]
          /\ Done(c) \/ Fails(c)
    BY <1>3 DEF Start
  <2>2. Tidy(c)
    BY <1>1, <2>1, EndsTidy, DoneTidy
  <2>3. sessions[k] \in SessionType /\ k \in DOMAIN sessions
    BY <1>1, AtDevice, OwnSession
  <2> DEFINE running == sessions[k].running \/ ok
             s == [sessions[k] EXCEPT !.prepared = prepared, !.running = running]
  <2>4. running \in BOOLEAN
    OBVIOUS
  <2>5. sessions' = [sessions EXCEPT ![k] = s]
    BY <2>1
  <2> HIDE DEF running
  <2>6. s \in SessionType /\ s.id = sessions[k].id /\ s.kind = sessions[k].kind
          /\ s.closed = sessions[k].closed
    BY <2>3, <2>4 DEF SessionType
  <2> HIDE DEF s
  <2>7. Adjusts(c)
    BY <1>1, <1>3, <2>5, <2>6, OneAdjusts DEF Quiet
  <2> QED BY <1>1, <2>2, <2>7, CallKeeps
<1> QED BY <1>2, <1>3

LEMMA StopKeeps ==
  ASSUME Invariants, NEW c \in Clients, Stop(c)
  PROVE  Invariants'
<1> DEFINE k == job[c].session
<1>1. job[c].at = "do" /\ UNCHANGED <<table, numbers>>
  BY DEF Stop, Locks, numbers
<1>2. CASE sessions[k].closed
  <2>1. Tidy(c) /\ sessions' = sessions
    BY <1>1, <1>2, DoneTidy DEF Stop
  <2> QED BY <1>1, <2>1, SameSessions, CallKeeps DEF Invariants
<1>3. CASE ~sessions[k].closed
  <2>1. PICK ok \in BOOLEAN :
          /\ sessions' = [sessions EXCEPT ![k].running = @ /\ ~ok]
          /\ Done(c) \/ Fails(c)
    BY <1>3 DEF Stop
  <2>2. Tidy(c)
    BY <1>1, <2>1, EndsTidy, DoneTidy
  <2>3. sessions[k] \in SessionType /\ k \in DOMAIN sessions
    BY <1>1, AtDevice, OwnSession
  <2> DEFINE running == sessions[k].running /\ ~ok
             s == [sessions[k] EXCEPT !.running = running]
  <2>4. running \in BOOLEAN
    OBVIOUS
  <2>5. sessions' = [sessions EXCEPT ![k] = s]
    BY <2>1
  <2> HIDE DEF running
  <2>6. s \in SessionType /\ s.id = sessions[k].id /\ s.kind = sessions[k].kind
          /\ s.closed = sessions[k].closed
    BY <2>3, <2>4 DEF SessionType
  <2> HIDE DEF s
  <2>7. Adjusts(c)
    BY <1>1, <1>3, <2>5, <2>6, OneAdjusts DEF Quiet
  <2> QED BY <1>1, <2>2, <2>7, CallKeeps
<1> QED BY <1>2, <1>3

LEMMA HolderKeeps ==
  ASSUME Invariants, NEW c \in Clients, job[c].at \in {"do", "device"},
         NEW h \in Clients \cup {Nobody},
         sessions' = [sessions EXCEPT ![job[c].session].holder = h],
         sessions[job[c].session].closed => h = Nobody,
         Tidy(c), UNCHANGED <<table, numbers>>
  PROVE  Invariants'
<1> DEFINE k == job[c].session
           s == [sessions[k] EXCEPT !.holder = h]
<1>1. k \in DOMAIN sessions /\ sessions[k] \in SessionType /\ Quiet(sessions[k])
  BY AtDevice, OwnSession
<1>2. s \in SessionType /\ s.id = sessions[k].id /\ s.kind = sessions[k].kind
        /\ s.closed = sessions[k].closed /\ s.running = sessions[k].running
        /\ s.prepared = sessions[k].prepared /\ s.holder = h
  BY <1>1 DEF SessionType
<1>3. sessions' = [sessions EXCEPT ![k] = s]
  OBVIOUS
<1> HIDE DEF s
<1>4. Quiet(s)
  BY <1>1, <1>2 DEF Quiet
<1>5. Adjusts(c)
  BY <1>2, <1>3, <1>4, OneAdjusts
<1> QED BY <1>5, CallKeeps

LEMMA OccupiesKeeps ==
  ASSUME Invariants, NEW c \in Clients, job[c].at = "do", NEW may \in BOOLEAN,
         may => ~sessions[job[c].session].closed, Occupies(c, may)
  PROVE  Invariants'
<1>1. UNCHANGED <<table, numbers>>
  BY DEF Occupies, numbers
<1>2. CASE may
  <2>1. job[c].session # None
    BY DEF Invariants, ClientsInv, JobOK
  <2>2. Tidy(c)
    BY <1>2, <2>1, GoesTidy DEF Occupies, Inside, Place
  <2> QED BY <1>1, <1>2, <2>2, HolderKeeps DEF Occupies
<1>3. CASE ~may
  <2>1. Tidy(c)
    BY <1>3, EndsTidy DEF Occupies
  <2> QED BY <1>1, <1>3, <2>1, SameSessions, CallKeeps DEF Occupies, Invariants
<1> QED BY <1>2, <1>3

LEMMA DeviceEndsKeeps ==
  ASSUME Invariants, NEW c \in Clients, DeviceEnds(c)
  PROVE  Invariants'
<1>1. Tidy(c)
  BY EndsTidy, DoneTidy DEF DeviceEnds
<1> QED BY <1>1, HolderKeeps DEF DeviceEnds, numbers

-----------------------------------------------------------------------------
(* What a handler reads, and the log calls: tables and sessions stay.      *)

LEMMA ReadsKeep ==
  ASSUME Invariants, NEW c \in Clients,
         \/ Look(c) \/ Snapshot(c) \/ ReadStats(c) \/ Resolve(c)
         \/ LogCreate(c) \/ LogStart(c) \/ LogRead(c) \/ LogStop(c) \/ LogClose(c)
  PROVE  Invariants'
<1>1. /\ UNCHANGED <<audio, counter, sessionIds, numericSessions>>
      /\ job[c].at \notin {"insert", "close", "idle"}
  <2> USE DEF numbers
  <2>1. CASE Look(c) \/ Snapshot(c) \/ ReadStats(c) \/ Resolve(c)
    BY <2>1 DEF Look, Snapshot, ReadStats, Resolve, Locks
  <2>2. CASE LogCreate(c) \/ LogRead(c) \/ LogClose(c)
    BY <2>2 DEF LogCreate, LogRead, LogClose, LogCall, Unknown
  <2>3. CASE LogStart(c) \/ LogStop(c)
    BY <2>3 DEF LogStart, LogStop, LogSwitch, LogCall, Unknown
  <2> QED BY <2>1, <2>2, <2>3
<1>2. CASE Fails(c) \/ Succeeds(c)
  BY <1>1, <1>2, EndsTidy, QuietKeeps
<1>3. CASE ~(Fails(c) \/ Succeeds(c))
  <2>1. CASE Look(c)
    <3>1. job[c].at = "look" /\ Goes(c, "open") /\ tool' = tool
      BY <1>3, <2>1 DEF Look
    <3>2. Tidy(c)
      BY <3>1, GoesTidy
    <3> QED BY <1>1, <3>2, QuietKeeps
  <2>2. CASE Snapshot(c)
    <3>1. job[c].at = "snapshot" /\ Goes(c, "stats") /\ tool' = tool
      BY <2>2 DEF Snapshot, Locks
    <3>2. Tidy(c)
      BY <3>1, GoesTidy DEF Inside, Place
    <3> QED BY <1>1, <3>2, QuietKeeps
  <2>3. CASE Resolve(c)
    <3> DEFINE number == job[c].number
               j == [job[c] EXCEPT !.id = numericSessions[number], !.at = "find"]
    <3>1. /\ job[c].at = "resolve" /\ number # None /\ numericSessions[number] # NoId
          /\ job' = [job EXCEPT ![c] = j] /\ tool' = tool
      BY <1>3, <2>3 DEF Resolve
    <3>2. /\ Active(tool[c]) /\ Serving(job[c], tool[c])
          /\ job[c].call = "transfer" /\ job[c] \in JobType
      BY <3>1, AtWork DEF Invariants, ClientsInv, JobOK
    <3>3. number = tool[c].number /\ job[c].id = tool[c].id
      BY <3>2 DEF Serving
    <3>4. numericSessions[number] = job[c].id
      BY <3>1, <3>3 DEF Invariants, NumbersInv
    <3>5. j = [job[c] EXCEPT !.id = job[c].id, !.at = "find"]
      BY <3>4
    <3>6. j \in JobType /\ j.call = job[c].call /\ j.kind = job[c].kind /\ j.id = job[c].id
            /\ j.number = job[c].number /\ j.at = "find" /\ j.session = job[c].session
            /\ j.left = job[c].left
      BY <3>2, <3>5 DEF JobType, Place
    <3>7. job[c].left \subseteq DOMAIN sessions
      BY DEF Invariants, AudioInv, PointsInv
    <3> HIDE DEF j
    <3>8. Tidy(c)
      BY <3>1, <3>6, <3>7, MovesTidy DEF Inside, Place
    <3> QED BY <1>1, <3>8, QuietKeeps
  <2>4. CASE ReadStats(c)
    BY <1>3, <2>4 DEF ReadStats
  <2>5. CASE LogCreate(c) \/ LogRead(c) \/ LogClose(c)
    BY <1>3, <2>5 DEF LogCreate, LogRead, LogClose, Unknown
  <2>6. CASE LogStart(c) \/ LogStop(c)
    BY <1>3, <2>6 DEF LogStart, LogStop, LogSwitch, Unknown
  <2> QED BY <2>1, <2>2, <2>3, <2>4, <2>5, <2>6
<1> QED BY <1>2, <1>3

-----------------------------------------------------------------------------
(* The steps that give or release numbers.                                 *)

LEMMA NumberedKeeps ==
  ASSUME Invariants, NEW c \in Clients, job[c].at \notin {"insert", "close"},
         Tidy(c), UNCHANGED audio, Renumbers
  PROVE  Invariants'
BY SameSessions, TidyKeeps DEF Invariants, audio

LEMMA GiveNumberKeeps ==
  ASSUME Invariants, NEW c \in Clients, GiveNumber(c)
  PROVE  Invariants'
<1>1. job[c].at = "snapshot" /\ UNCHANGED audio
  BY DEF GiveNumber, Locks
<1>2. /\ Active(tool[c]) /\ Serving(job[c], tool[c]) /\ job[c].id \in SessionId
      /\ ToolOK(tool[c]) /\ JobOK(job[c], tool[c])
  BY <1>1, AtWork DEF Invariants, ClientsInv
<1>3. Renumbers /\ sessionIds'[job[c].id] # None
  BY <1>2, TakesNumber DEF GiveNumber, Invariants
<1>4. CASE job[c].call # "create"
  <2>1. Tidy(c)
    BY <1>1, <1>4, EndsTidy DEF GiveNumber
  <2> QED BY <1>1, <1>3, <2>1, NumberedKeeps
<1>5. CASE job[c].call = "create"
  <2> DEFINE i == job[c].id
             n == sessionIds'[i]
             t == [tool[c] EXCEPT !.number = n]
             j == [job[c] EXCEPT !.at = "describe"]
  <2>1. tool' = [tool EXCEPT ![c] = t] /\ job' = [job EXCEPT ![c] = j]
    BY <1>5 DEF GiveNumber, Goes
  <2>2. n \in Number
    BY <1>2, <1>3 DEF Renumbers, AnyNumber
  <2>3. t \in ToolType /\ t.at = tool[c].at /\ t.kind = tool[c].kind /\ t.id = tool[c].id /\ t.number = n
    BY <1>2, <2>2 DEF ToolOK, ToolType, AnyNumber
  <2>4. /\ j \in JobType /\ j.at = "describe" /\ j.call = "create" /\ j.kind = job[c].kind
        /\ j.id = i /\ j.session = job[c].session /\ j.left = job[c].left
    BY <1>2, <1>5 DEF JobOK, JobType, Place
  <2>5. tool[c].id = i /\ tool[c].at = "create" /\ tool[c].kind = job[c].kind /\ job[c].kind # "log"
    BY <1>1, <1>2, <1>5 DEF Serving, JobOK
  <2> HIDE DEF t, j
  <2>6. ToolOK(t) /\ Active(t)
    BY <1>2, <2>3 DEF ToolOK, Active
  <2>7. JobOK(j, t)
    BY <2>3, <2>4, <2>5, <2>6 DEF JobOK, Serving
  <2>8. tool'[c] = t /\ job'[c] = j /\ Others(c)
    BY <2>1, <2>3, <2>4 DEF Others, Invariants, ClientsInv
  <2>9. ClientsInv'
    BY <2>6, <2>7, <2>8, ClientsKeep DEF Kept, Invariants
  <2>10. Points(c)
    <3>1. job[c].left \subseteq DOMAIN sessions
      BY DEF Invariants, AudioInv, PointsInv
    <3> QED BY <2>4, <2>8, <3>1 DEF Points
  <2>11. AudioInv'
    BY <1>1, <2>8, <2>10, SameSessions, AdjustsKeep DEF Invariants, audio
  <2>12. n < counter' /\ numericSessions'[n] = tool[c].id
    BY <1>2, <1>3, <2>5 DEF Renumbers
  <2>13. ASSUME NEW d \in Clients, tool'[d].number # None
         PROVE  tool'[d].number < counter' /\ numericSessions'[tool'[d].number] \in {NoId, tool'[d].id}
    <3>1. CASE d = c
      BY <2>3, <2>8, <2>12, <3>1
    <3>2. CASE d # c
      <4>1. tool'[d] = tool[d] /\ tool[d].number \in Number
        BY <2>8, <2>13, <3>2 DEF Others, Invariants, ClientsInv, ToolType, AnyNumber
      <4>2. tool[d].number < counter /\ numericSessions[tool[d].number] \in {NoId, tool[d].id}
        BY <2>13, <4>1 DEF Invariants, NumbersInv
      <4>3. numericSessions'[tool[d].number] \in {NoId, numericSessions[tool[d].number]}
        BY <1>3, <4>1, <4>2 DEF Renumbers
      <4>4. tool[d].number < counter'
        BY <1>3, <4>1, <4>2 DEF Renumbers, Invariants, NumbersInv, Number
      <4> QED BY <4>1, <4>2, <4>3, <4>4
    <3> QED BY <3>1, <3>2
  <2>14. NumbersInv'
    BY <1>3, <2>13 DEF Renumbers, NumbersInv
  <2> QED BY <2>9, <2>11, <2>14 DEF Invariants
<1> QED BY <1>4, <1>5

LEMMA DescribeKeeps ==
  ASSUME Invariants, NEW c \in Clients, Describe(c)
  PROVE  Invariants'
<1>1. Tidy(c) /\ UNCHANGED audio /\ job[c].at = "describe"
  BY EndsTidy DEF Describe
<1>2. Renumbers
  BY SameNumbers DEF Describe, Invariants, NumbersInv
<1> QED BY <1>1, <1>2, NumberedKeeps

LEMMA ReleaseKeeps ==
  ASSUME Invariants, NEW c \in Clients, Release(c)
  PROVE  Invariants'
<1> DEFINE i == job[c].id
<1>1. Tidy(c) /\ UNCHANGED audio /\ job[c].at = "release" /\ counter' = counter
  BY EndsTidy DEF Release
<1>2. i \in SessionId
  BY <1>1, AtWork DEF Invariants
<1>3. sessionIds' = [sessionIds EXCEPT ![i] = None]
  BY DEF Release
<1>4. NumbersInv
  BY DEF Invariants
<1>5. CASE sessionIds[i] = None
  <2>1. numericSessions' = numericSessions /\ sessionIds' = sessionIds
    BY <1>2, <1>3, <1>4, <1>5 DEF Release, NumbersInv
  <2>2. Renumbers
    BY <1>1, <1>4, <2>1, SameNumbers DEF NumbersInv
  <2> QED BY <1>1, <2>2, NumberedKeeps
<1>6. CASE sessionIds[i] # None
  <2> DEFINE n == sessionIds[i]
  <2>1. numericSessions' = [numericSessions EXCEPT ![n] = NoId] /\ n \in Number
    BY <1>2, <1>4, <1>6 DEF Release, NumbersInv, AnyNumber
  <2>2. numericSessions' \in [Number -> AnyId] /\ sessionIds' \in [SessionId -> AnyNumber]
    BY <1>3, <1>4, <2>1 DEF NumbersInv, AnyId, AnyNumber
  <2>3. ASSUME NEW h \in SessionId, sessionIds'[h] # None
        PROVE  sessionIds'[h] < counter' /\ numericSessions'[sessionIds'[h]] = h
    <3>1. h # i /\ sessionIds'[h] = sessionIds[h]
      BY <1>2, <1>3, <1>4, <2>3 DEF NumbersInv
    <3>2. sessionIds[h] < counter /\ numericSessions[sessionIds[h]] = h /\ numericSessions[n] = i
      BY <1>2, <1>4, <1>6, <2>3, <3>1 DEF NumbersInv
    <3>3. sessionIds[h] \in Number /\ sessionIds[h] # n
      BY <1>4, <2>3, <3>1, <3>2 DEF NumbersInv, AnyNumber
    <3> QED BY <1>1, <1>4, <2>1, <3>1, <3>2, <3>3 DEF NumbersInv
  <2>4. \A m \in Number : m >= counter' => numericSessions'[m] = NoId
    BY <1>1, <1>4, <2>1 DEF NumbersInv
  <2>5. \A m \in Number : numericSessions'[m] \in {NoId, numericSessions[m]}
    BY <1>4, <2>1 DEF NumbersInv
  <2>6. Renumbers
    BY <1>1, <1>4, <2>2, <2>3, <2>4, <2>5 DEF Renumbers, NumbersInv
  <2> QED BY <1>1, <2>6, NumberedKeeps
<1> QED BY <1>5, <1>6

-----------------------------------------------------------------------------
(* The list of all sessions.                                               *)

LEMMA ListsKeep ==
  ASSUME Invariants, NEW c \in Clients, Collect(c) \/ List(c) \/ ListNumber(c)
  PROVE  Invariants'
<1>1. job[c] \in JobType /\ job[c].left \subseteq DOMAIN sessions
  BY DEF Invariants, ClientsInv, AudioInv, PointsInv
<1>2. CASE Collect(c)
  <2> DEFINE left == (UNION {{table[k][i] : i \in SessionId} : k \in Kind}) \ {None}
             j == [job[c] EXCEPT !.at = "list", !.left = left]
  <2>1. left \subseteq DOMAIN sessions
    <3> SUFFICES ASSUME NEW k \in left PROVE k \in DOMAIN sessions
      OBVIOUS
    <3>1. PICK S \in {{table[h][i] : i \in SessionId} : h \in Kind} : k \in S /\ k # None
      BY DEF None
    <3>2. PICK h \in Kind : S = {table[h][i] : i \in SessionId}
      BY <3>1
    <3>3. PICK i \in SessionId : k = table[h][i]
      BY <3>1, <3>2
    <3> QED BY <3>1, <3>3 DEF Invariants, AudioInv, TableInv
  <2>2. DOMAIN sessions \subseteq Nat
    BY DEF Invariants, AudioInv, AudioTypes
  <2>3. job' = [job EXCEPT ![c] = j] /\ tool' = tool /\ job[c].at = "collect"
    BY <1>2 DEF Collect
  <2> HIDE DEF left
  <2>4. /\ j \in JobType /\ j.call = job[c].call /\ j.kind = job[c].kind /\ j.id = job[c].id
        /\ j.number = job[c].number /\ j.at = "list" /\ j.session = job[c].session /\ j.left = left
    BY <1>1, <2>1, <2>2 DEF JobType, Place
  <2> HIDE DEF j
  <2>5. Tidy(c)
    BY <2>1, <2>3, <2>4, MovesTidy DEF Inside, Place
  <2> QED BY <1>2, <2>3, <2>5, QuietKeeps DEF Collect, numbers
<1>3. CASE List(c)
  <2>1. job[c].at = "list" /\ tool' = tool /\ UNCHANGED <<audio, numbers>>
    BY <1>3 DEF List
  <2>2. CASE job[c].left = {}
    <3>1. Tidy(c)
      BY <1>3, <2>1, <2>2, GoesTidy DEF List, Inside, Place
    <3> QED BY <2>1, <3>1, QuietKeeps DEF numbers
  <2>3. CASE job[c].left # {}
    <3>1. PICK k \in job[c].left :
            job' = [job EXCEPT ![c].left = @ \ {k}, ![c].ids = @ \cup {sessions[k].id}]
      BY <1>3, <2>3 DEF List
    <3> DEFINE left == job[c].left \ {k}
               ids == job[c].ids \cup {sessions[k].id}
               j == [job[c] EXCEPT !.left = left, !.ids = ids]
    <3>2. sessions[k].id \in SessionId
      <4>1. sessions \in Seq(SessionType) /\ k \in DOMAIN sessions
        BY <1>1 DEF Invariants, AudioInv, AudioTypes
      <4>2. sessions[k] \in SessionType
        BY <4>1
      <4> QED BY <4>2 DEF SessionType
    <3>3. left \in SUBSET Nat /\ ids \in SUBSET SessionId /\ left \subseteq DOMAIN sessions
      BY <1>1, <3>2 DEF JobType
    <3>4. job' = [job EXCEPT ![c] = j]
      BY <3>1
    <3> HIDE DEF left, ids
    <3>5. /\ j \in JobType /\ j.call = job[c].call /\ j.kind = job[c].kind /\ j.id = job[c].id
          /\ j.number = job[c].number /\ j.at = "list" /\ j.session = job[c].session /\ j.left = left
      BY <1>1, <2>1, <3>3 DEF JobType
    <3> HIDE DEF j
    <3>6. Tidy(c)
      BY <2>1, <3>3, <3>4, <3>5, MovesTidy DEF Inside, Place
    <3> QED BY <2>1, <3>6, QuietKeeps DEF numbers
  <2> QED BY <2>2, <2>3
<1>4. CASE ListNumber(c)
  <2>1. job[c].at = "list numbers" /\ UNCHANGED audio
    BY <1>4 DEF ListNumber
  <2>2. CASE job[c].ids = {}
    <3>1. Tidy(c) /\ UNCHANGED numbers
      BY <1>4, <2>1, <2>2, EndsTidy DEF ListNumber
    <3> QED BY <2>1, <3>1, QuietKeeps DEF numbers
  <2>3. CASE job[c].ids # {}
    <3>1. PICK i \in job[c].ids : /\ TakeNumber(i)
                                  /\ job' = [job EXCEPT ![c].ids = @ \ {i}]
                                  /\ tool' = tool
      BY <1>4, <2>3 DEF ListNumber
    <3> DEFINE ids == job[c].ids \ {i}
               j == [job[c] EXCEPT !.ids = ids]
    <3>2. i \in SessionId /\ ids \in SUBSET SessionId
      BY <1>1 DEF JobType
    <3>3. job' = [job EXCEPT ![c] = j]
      BY <3>1
    <3> HIDE DEF ids
    <3>4. /\ j \in JobType /\ j.call = job[c].call /\ j.kind = job[c].kind /\ j.id = job[c].id
          /\ j.number = job[c].number /\ j.at = "list numbers" /\ j.session = job[c].session
          /\ j.left = job[c].left
      BY <1>1, <2>1, <3>2 DEF JobType
    <3> HIDE DEF j
    <3>5. Tidy(c)
      BY <1>1, <2>1, <3>1, <3>3, <3>4, MovesTidy DEF Inside, Place
    <3>6. Renumbers
      BY <3>1, <3>2, TakesNumber DEF Invariants
    <3> QED BY <2>1, <3>5, <3>6, NumberedKeeps
  <2> QED BY <2>2, <2>3
<1> QED BY <1>2, <1>3, <1>4

-----------------------------------------------------------------------------
(* The steps that change a table, open a device or close one.              *)

LEMMA UnchangedNumbers ==
  ASSUME Invariants, NEW c \in Clients, Others(c), Remembers(c),
         UNCHANGED <<counter, sessionIds, numericSessions>>
  PROVE  NumbersInv'
BY SameNumbers, NumbersKeep DEF Invariants, NumbersInv

LEMMA CloseKeeps ==
  ASSUME Invariants, NEW c \in Clients, Close(c)
  PROVE  Invariants'
<1> DEFINE k == job[c].session
           s == [sessions[k] EXCEPT !.closed = TRUE, !.running = FALSE, !.prepared = FALSE]
<1>1. job[c].at = "close" /\ sessions[k].holder = Nobody /\ table' = table /\ UNCHANGED numbers
  BY DEF Close, Locks, numbers
<1>2. sessions[k] \in SessionType
  BY <1>1, AtDevice, OwnSession
<1>3. s \in SessionType /\ s.id = sessions[k].id /\ s.kind = sessions[k].kind /\ s.closed
        /\ ~s.running /\ ~s.prepared /\ s.holder = Nobody
  BY <1>1, <1>2 DEF SessionType
<1>4. sessions' = [sessions EXCEPT ![k] = s]
  BY DEF Close, Shut
<1> HIDE DEF s
<1>5. Adjusts(c)
  BY <1>1, <1>3, <1>4, OneAdjusts DEF Quiet
<1>6. Tidy(c)
  BY <1>1, GoesTidy DEF Close, Inside, Place
<1>7. Renumbers
  BY <1>1, SameNumbers DEF numbers, Invariants, NumbersInv
<1> QED BY <1>1, <1>5, <1>6, <1>7, TidyKeeps

LEMMA OpenKeeps ==
  ASSUME Invariants, NEW c \in Clients, Open(c)
  PROVE  Invariants'
<1>1. job[c].at = "open" /\ table' = table /\ UNCHANGED numbers
  BY DEF Open
<1>2. CASE Fails(c) /\ sessions' = sessions
  <2>1. Tidy(c)
    BY <1>1, <1>2, EndsTidy
  <2> QED BY <1>1, <1>2, <2>1, QuietKeeps DEF audio, numbers
<1>3. CASE ~(Fails(c) /\ sessions' = sessions)
  <2> DEFINE k == Len(sessions) + 1
             s == [id |-> job[c].id, kind |-> job[c].kind, prepared |-> FALSE,
                   running |-> FALSE, closed |-> FALSE, holder |-> Nobody]
             j == [job[c] EXCEPT !.at = "insert", !.session = k]
  <2>1. sessions' = Append(sessions, s) /\ tool' = tool
    BY <1>3 DEF Open
  <2>2. sessions \in Seq(SessionType)
    BY DEF Invariants, AudioInv, AudioTypes
  <2>3. job[c] \in JobType /\ job[c].id \in SessionId /\ job[c].kind \in Kind
    BY <1>1, AtWork DEF Invariants, ClientsInv, JobOK
  <2>4. s \in SessionType
    BY <2>3 DEF SessionType
  <2> HIDE DEF s
  <2>5. /\ sessions' \in Seq(SessionType) /\ Len(sessions') = k /\ DOMAIN sessions' = 1..k
        /\ DOMAIN sessions = 1..(k - 1) /\ k \in Nat
        /\ sessions'[k] = s /\ \A h \in DOMAIN sessions : sessions'[h] = sessions[h]
    BY <2>1, <2>2, <2>4
  <2>6. job' = [job EXCEPT ![c] = j]
    <3>1. job' = [job EXCEPT ![c].at = "insert", ![c].session = Len(sessions')]
      BY <1>3 DEF Open
    <3> QED BY <2>5, <3>1
  <2> HIDE DEF k
  <2>7. /\ j \in JobType /\ j.call = job[c].call /\ j.kind = job[c].kind /\ j.id = job[c].id
        /\ j.number = job[c].number /\ j.at = "insert" /\ j.session = k /\ j.left = job[c].left
    BY <2>3, <2>5 DEF JobType, Place
  <2>8. k # None /\ k \notin DOMAIN sessions
    BY <2>5 DEF k, None
  <2> HIDE DEF j
  <2>9. Others(c) /\ Kept(c) /\ job'[c] = j
    BY <1>1, <2>1, <2>6, <2>7, <2>8, MovesOK DEF Invariants
  <2>10. ClientsInv'
    BY <2>9, ClientsKeep DEF Invariants
  <2>11. NumbersInv'
    BY <1>1, <2>1, <2>9, UnchangedNumbers DEF numbers, Remembers
  <2>12. s.id = job[c].id /\ s.kind = job[c].kind /\ ~s.closed /\ s.holder = Nobody
    BY DEF s
  <2> USE DEF AudioInv, Invariants
  <2>13. AudioTypes'
    BY <1>1, <2>5 DEF AudioTypes
  <2>14. DOMAIN sessions \subseteq DOMAIN sessions'
    BY <2>5
  <2>15. TableInv'
    BY <1>1, <2>5, <2>14 DEF TableInv
  <2>16. PointsInv'
    <3> SUFFICES ASSUME NEW d \in Clients
                 PROVE  /\ job'[d].session # None => /\ job'[d].session \in DOMAIN sessions'
                                                     /\ sessions'[job'[d].session].id = job'[d].id
                        /\ job'[d].left \subseteq DOMAIN sessions'
      BY DEF PointsInv
    <3>1. CASE d = c
      <4>1. job[c].left \subseteq DOMAIN sessions
        BY DEF PointsInv
      <4>2. k \in DOMAIN sessions' /\ sessions'[k].id = job[c].id
        BY <2>5, <2>12 DEF k
      <4> QED BY <2>7, <2>9, <2>14, <3>1, <4>1, <4>2
    <3>2. CASE d # c
      <4>1. job'[d] = job[d]
        BY <2>9, <3>2 DEF Others
      <4> QED BY <2>5, <2>14, <4>1 DEF PointsInv
    <3> QED BY <3>1, <3>2
  <2>17. FreshInv'
    <3> SUFFICES ASSUME NEW d \in Clients, job'[d].at = "insert"
                 PROVE  /\ sessions'[job'[d].session].kind = job'[d].kind
                        /\ sessions'[job'[d].session].holder = Nobody
                        /\ \A h \in Kind, i \in SessionId : table[h][i] # job'[d].session
                        /\ \A e \in Clients \ {d} : job'[e].session # job'[d].session
      BY <1>1 DEF FreshInv
    <3>1. \A h \in Kind, i \in SessionId : table[h][i] # k
      BY <2>8 DEF TableInv
    <3>2. \A e \in Clients : job[e].session # k
      BY <2>8 DEF PointsInv
    <3>3. CASE d = c
      BY <2>5, <2>7, <2>9, <2>12, <3>1, <3>2, <3>3 DEF Others
    <3>4. CASE d # c
      <4>1. job'[d] = job[d] /\ job[d].session \in DOMAIN sessions
        BY <2>9, <3>4, AtDevice DEF Others, PointsInv
      <4>2. sessions'[job[d].session] = sessions[job[d].session]
        BY <2>5, <4>1
      <4>3. \A e \in Clients \ {d} : job'[e].session # job[d].session
        BY <2>7, <2>9, <3>2, <4>1 DEF Others, FreshInv
      <4> QED BY <4>1, <4>2, <4>3 DEF FreshInv
    <3> QED BY <3>3, <3>4
  <2>18. OneSessionPerId'
    BY <1>1 DEF OneSessionPerId
  <2>19. OpenIsHeld'
    <3> SUFFICES ASSUME NEW h \in DOMAIN sessions', ~sessions'[h].closed
                 PROVE  \/ table[sessions'[h].kind][sessions'[h].id] = h
                        \/ \E d \in Clients : job'[d].session = h /\ job'[d].at \in {"insert", "close"}
      BY <1>1 DEF OpenIsHeld
    <3>1. CASE h = k
      BY <2>7, <2>9, <3>1
    <3>2. CASE h # k
      <4>1. h \in DOMAIN sessions /\ sessions'[h] = sessions[h]
        BY <2>5, <3>2 DEF k
      <4>2. ASSUME NEW d \in Clients, job[d].session = h, job[d].at \in {"insert", "close"}
            PROVE  \E e \in Clients : job'[e].session = h /\ job'[e].at \in {"insert", "close"}
        BY <1>1, <2>9, <4>2 DEF Others
      <4> QED BY <4>1, <4>2 DEF OpenIsHeld
    <3> QED BY <3>1, <3>2
  <2>20. ClosedIsQuiet'
    <3> SUFFICES ASSUME NEW h \in DOMAIN sessions', sessions'[h].closed
                 PROVE  ~sessions'[h].running /\ ~sessions'[h].prepared /\ sessions'[h].holder = Nobody
      BY DEF ClosedIsQuiet
    <3>1. h \in DOMAIN sessions /\ sessions'[h] = sessions[h]
      BY <2>5, <2>12 DEF k
    <3> QED BY <3>1 DEF ClosedIsQuiet
  <2> QED BY <2>10, <2>11, <2>13, <2>15, <2>16, <2>17, <2>18, <2>19, <2>20
<1> QED BY <1>2, <1>3

LEMMA InsertKeeps ==
  ASSUME Invariants, NEW c \in Clients, Insert(c)
  PROVE  Invariants'
<1> DEFINE k == job[c].session
           kind == job[c].kind
           i == job[c].id
<1>1. /\ job[c].at = "insert" /\ UNCHANGED numbers
      /\ k # None /\ k \in DOMAIN sessions /\ sessions[k] \in SessionType /\ sessions[k].id = i
      /\ job[c] \in JobType /\ kind \in Kind /\ i \in SessionId
  BY AtDevice, OwnSession, AtWork DEF Insert, Invariants, ClientsInv, JobOK
<1>2. /\ sessions[k].kind = kind /\ sessions[k].holder = Nobody
      /\ \A h \in Kind, g \in SessionId : table[h][g] # k
      /\ \A d \in Clients \ {c} : job[d].session # k
  BY <1>1 DEF Invariants, AudioInv, FreshInv
<1>3. CASE HasSession(i)
  <2>1. Shut(k) /\ Fails(c) /\ table' = table
    BY <1>3 DEF Insert
  <2>2. Tidy(c)
    BY <1>1, <2>1, EndsTidy
  <2> DEFINE s == [sessions[k] EXCEPT !.closed = TRUE, !.running = FALSE, !.prepared = FALSE]
  <2>3. s \in SessionType /\ s.id = sessions[k].id /\ s.kind = sessions[k].kind /\ s.closed
          /\ ~s.running /\ ~s.prepared /\ s.holder = Nobody
    BY <1>1, <1>2 DEF SessionType
  <2>4. sessions' = [sessions EXCEPT ![k] = s]
    BY <2>1 DEF Shut
  <2> HIDE DEF s
  <2>5. sessions' \in Seq(SessionType) /\ DOMAIN sessions' = DOMAIN sessions
    BY <1>1, <2>3, <2>4 DEF Invariants, AudioInv, AudioTypes
  <2>6. \A h \in DOMAIN sessions : Quiet(sessions[h])
    BY DEF Invariants, AudioInv, ClosedIsQuiet, Quiet
  <2>7. Adjusts(c)
    BY <1>1, <2>3, <2>4, <2>5, <2>6 DEF Adjusts, Quiet
  <2>8. Renumbers
    BY <1>1, SameNumbers DEF numbers, Invariants, NumbersInv
  <2> QED BY <2>1, <2>2, <2>7, <2>8, TidyKeeps
<1>4. CASE ~HasSession(i)
  <2> DEFINE t == [tool[c] EXCEPT !.session = k]
             j == [job[c] EXCEPT !.at = "get"]
  <2>1. /\ table' = [table EXCEPT ![kind][i] = k] /\ sessions' = sessions
        /\ tool' = [tool EXCEPT ![c] = t] /\ job' = [job EXCEPT ![c] = j]
    BY <1>4 DEF Insert, Goes
  <2>2. ToolOK(tool[c]) /\ tool[c] \in ToolType /\ Active(tool[c]) /\ Serving(job[c], tool[c]) /\ kind # "log"
    BY <1>1, AtWork DEF Invariants, ClientsInv, ToolOK, Kind
  <2>3. k \in Nat
    BY <1>1 DEF JobType
  <2>4. /\ t \in ToolType /\ t.at = tool[c].at /\ t.kind = tool[c].kind /\ t.id = tool[c].id
        /\ t.number = tool[c].number
    BY <2>2, <2>3 DEF ToolType
  <2>5. /\ j \in JobType /\ j.call = job[c].call /\ j.kind = kind /\ j.id = i
        /\ j.number = job[c].number /\ j.at = "get" /\ j.session = k /\ j.left = job[c].left
    BY <1>1 DEF JobType, Place
  <2> HIDE DEF t, j
  <2>6. ToolOK(t) /\ Active(t)
    BY <2>2, <2>4 DEF ToolOK, Active
  <2>7. JobOK(j, t)
    BY <2>2, <2>4, <2>5, <2>6 DEF JobOK, Serving
  <2>8. tool'[c] = t /\ job'[c] = j /\ Others(c)
    BY <2>1, <2>4, <2>5 DEF Others, Invariants, ClientsInv
  <2>9. ClientsInv'
    BY <2>6, <2>7, <2>8, ClientsKeep DEF Kept, Invariants
  <2>10. NumbersInv'
    BY <1>1, <2>4, <2>8, UnchangedNumbers DEF numbers, Remembers
  <2> USE DEF AudioInv, Invariants
  <2>11. table \in [Kind -> [SessionId -> Nat]] /\ \A h \in Kind : table[h][i] = None
    BY <1>4 DEF AudioTypes, HasSession
  <2>12. /\ table' \in [Kind -> [SessionId -> Nat]]
         /\ table'[kind][i] = k
         /\ \A h \in Kind, g \in SessionId : h # kind \/ g # i => table'[h][g] = table[h][g]
    BY <1>1, <2>1, <2>3, <2>11
  <2>13. AudioTypes' /\ ClosedIsQuiet'
    BY <2>1, <2>12 DEF AudioTypes, ClosedIsQuiet
  <2>14. TableInv'
    BY <1>1, <1>2, <2>1, <2>12 DEF TableInv
  <2>15. PointsInv'
    BY <2>1, <2>5, <2>8 DEF PointsInv, Others
  <2>16. FreshInv'
    <3> SUFFICES ASSUME NEW d \in Clients, job'[d].at = "insert"
                 PROVE  /\ sessions[job'[d].session].kind = job'[d].kind
                        /\ sessions[job'[d].session].holder = Nobody
                        /\ \A h \in Kind, g \in SessionId : table'[h][g] # job'[d].session
                        /\ \A e \in Clients \ {d} : job'[e].session # job'[d].session
      BY <2>1 DEF FreshInv
    <3>1. d # c /\ job'[d] = job[d]
      BY <2>5, <2>8 DEF Others
    <3>2. job[d].session # k
      BY <1>2, <3>1
    <3>3. \A h \in Kind, g \in SessionId : table'[h][g] # job[d].session
      BY <2>12, <3>1, <3>2 DEF FreshInv
    <3>4. \A e \in Clients \ {d} : job'[e].session # job[d].session
      BY <2>5, <2>8, <3>1, <3>2 DEF FreshInv, Others
    <3> QED BY <3>1, <3>3, <3>4 DEF FreshInv
  <2>17. OneSessionPerId'
    <3> SUFFICES ASSUME NEW g \in SessionId
                 PROVE  table'["playback"][g] = None \/ table'["capture"][g] = None
      BY DEF OneSessionPerId
    <3>1. CASE g = i
      BY <2>11, <2>12, <3>1 DEF Kind
    <3>2. CASE g # i
      BY <2>12, <3>2 DEF OneSessionPerId, Kind
    <3> QED BY <3>1, <3>2
  <2>18. OpenIsHeld'
    <3> SUFFICES ASSUME NEW h \in DOMAIN sessions, ~sessions[h].closed
                 PROVE  \/ table'[sessions[h].kind][sessions[h].id] = h
                        \/ \E d \in Clients : job'[d].session = h /\ job'[d].at \in {"insert", "close"}
      BY <2>1 DEF OpenIsHeld
    <3>1. CASE h = k
      BY <1>1, <1>2, <2>12, <3>1
    <3>2. CASE h # k
      <4>1. sessions[h].kind \in Kind /\ sessions[h].id \in SessionId /\ h # None
        <5>1. sessions[h] \in SessionType /\ h # None
          BY DEF AudioTypes, None
        <5> QED BY <5>1 DEF SessionType
      <4>2. CASE table[sessions[h].kind][sessions[h].id] = h
        <5>1. sessions[h].kind # kind \/ sessions[h].id # i
          BY <1>1, <2>11, <4>1, <4>2
        <5> QED BY <2>12, <4>1, <4>2, <5>1
      <4>3. ASSUME NEW d \in Clients, job[d].session = h, job[d].at \in {"insert", "close"}
            PROVE  \E e \in Clients : job'[e].session = h /\ job'[e].at \in {"insert", "close"}
        BY <2>8, <3>2, <4>3 DEF Others
      <4> QED BY <4>2, <4>3 DEF OpenIsHeld
    <3> QED BY <3>1, <3>2
  <2> QED BY <2>9, <2>10, <2>13, <2>14, <2>15, <2>16, <2>17, <2>18
<1> QED BY <1>3, <1>4

LEMMA RemoveKeeps ==
  ASSUME Invariants, NEW c \in Clients, Remove(c)
  PROVE  Invariants'
<1> DEFINE i == job[c].id
           k == Find(i, Kind)
           kind == sessions[k].kind
<1>1. job[c].at = "remove" /\ UNCHANGED numbers /\ sessions' = sessions
  BY DEF Remove
<1>2. CASE k = None
  <2>1. Tidy(c) /\ table' = table
    BY <1>1, <1>2, EndsTidy DEF Remove
  <2> QED BY <1>1, <2>1, QuietKeeps DEF audio, numbers
<1>3. CASE k # None
  <2> DEFINE j == [job[c] EXCEPT !.session = k, !.at = "close"]
  <2>1. table' = [table EXCEPT ![kind][i] = None] /\ job' = [job EXCEPT ![c] = j] /\ tool' = tool
    BY <1>3 DEF Remove
  <2>2. job[c] \in JobType /\ i \in SessionId
    BY <1>1, AtWork DEF Invariants, ClientsInv
  <2>3. \E h \in Kind : table[h][i] = k
    BY <1>3 DEF Find, Kind
  <2> HIDE DEF k
  <2> USE DEF AudioInv, Invariants
  <2>4. k \in DOMAIN sessions /\ kind \in Kind /\ sessions[k].id = i /\ table[kind][i] = k /\ k \in Nat
    <3>1. PICK h \in Kind : table[h][i] = k
      BY <2>3
    <3>2. k \in DOMAIN sessions /\ sessions[k].kind = h /\ sessions[k].id = i
      BY <1>3, <2>2, <3>1 DEF TableInv
    <3>3. k \in Nat
      BY <3>2 DEF AudioTypes
    <3> QED BY <3>1, <3>2, <3>3
  <2> HIDE DEF kind
  <2>5. /\ j \in JobType /\ j.call = job[c].call /\ j.kind = job[c].kind /\ j.id = i
        /\ j.number = job[c].number /\ j.at = "close" /\ j.session = k /\ j.left = job[c].left
    BY <2>2, <2>4 DEF JobType, Place
  <2> HIDE DEF j
  <2>6. Others(c) /\ Kept(c) /\ job'[c] = j
    BY <1>1, <1>3, <2>1, <2>5, MovesOK DEF Inside, Place
  <2>7. ClientsInv' /\ NumbersInv'
    BY <1>1, <2>1, <2>6, ClientsKeep, UnchangedNumbers DEF numbers, Remembers
  <2>8. /\ table' \in [Kind -> [SessionId -> Nat]]
        /\ table'[kind][i] = None
        /\ \A h \in Kind, g \in SessionId : h # kind \/ g # i => table'[h][g] = table[h][g]
    BY <2>1, <2>2, <2>4 DEF AudioTypes, None
  <2>9. AudioTypes' /\ ClosedIsQuiet'
    BY <1>1, <2>8 DEF AudioTypes, ClosedIsQuiet
  <2>10. TableInv'
    BY <1>1, <2>8 DEF TableInv
  <2>11. PointsInv'
    BY <1>1, <2>4, <2>5, <2>6 DEF PointsInv, Others
  <2>12. FreshInv'
    <3> SUFFICES ASSUME NEW d \in Clients, job'[d].at = "insert"
                 PROVE  /\ sessions[job'[d].session].kind = job'[d].kind
                        /\ sessions[job'[d].session].holder = Nobody
                        /\ \A h \in Kind, g \in SessionId : table'[h][g] # job'[d].session
                        /\ \A e \in Clients \ {d} : job'[e].session # job'[d].session
      BY <1>1 DEF FreshInv
    <3>1. d # c /\ job'[d] = job[d]
      BY <2>5, <2>6 DEF Others
    <3>2. job[d].session # k /\ job[d].session # None
      BY <2>2, <2>4, <3>1, AtDevice DEF FreshInv
    <3>3. \A h \in Kind, g \in SessionId : table'[h][g] # job[d].session
      BY <2>8, <3>1, <3>2 DEF FreshInv
    <3>4. \A e \in Clients \ {d} : job'[e].session # job[d].session
      BY <2>5, <2>6, <3>1, <3>2 DEF FreshInv, Others
    <3> QED BY <3>1, <3>3, <3>4 DEF FreshInv
  <2>13. OneSessionPerId'
    <3> SUFFICES ASSUME NEW g \in SessionId
                 PROVE  table'["playback"][g] = None \/ table'["capture"][g] = None
      BY DEF OneSessionPerId
    <3> QED BY <2>8 DEF OneSessionPerId, Kind
  <2>14. OpenIsHeld'
    <3> SUFFICES ASSUME NEW h \in DOMAIN sessions, ~sessions[h].closed
                 PROVE  \/ table'[sessions[h].kind][sessions[h].id] = h
                        \/ \E d \in Clients : job'[d].session = h /\ job'[d].at \in {"insert", "close"}
      BY <1>1 DEF OpenIsHeld
    <3>1. CASE h = k
      BY <2>5, <2>6, <3>1
    <3>2. CASE h # k
      <4>1. sessions[h].kind \in Kind /\ sessions[h].id \in SessionId
        <5>1. sessions[h] \in SessionType
          BY DEF AudioTypes
        <5> QED BY <5>1 DEF SessionType
      <4>2. CASE table[sessions[h].kind][sessions[h].id] = h
        <5>1. sessions[h].kind # kind \/ sessions[h].id # i
          BY <2>4, <3>2, <4>2
        <5> QED BY <2>8, <4>1, <4>2, <5>1
      <4>3. ASSUME NEW d \in Clients, job[d].session = h, job[d].at \in {"insert", "close"}
            PROVE  \E e \in Clients : job'[e].session = h /\ job'[e].at \in {"insert", "close"}
        BY <1>1, <2>6, <4>3 DEF Others
      <4> QED BY <4>2, <4>3 DEF OpenIsHeld
    <3> QED BY <3>1, <3>2
  <2> QED BY <2>7, <2>9, <2>10, <2>11, <2>12, <2>13, <2>14
<1> QED BY <1>2, <1>3

-----------------------------------------------------------------------------
(* A new tool.                                                             *)

LEMMA StartsKeep ==
  ASSUME Invariants, NEW c \in Clients, NEW t, Starts(c, t),
         ToolOK(t), t.at # "idle", t.number = None,
         counter' \in Nat, counter <= counter'
  PROVE  Invariants'
<1>1. Others(c) /\ Kept(c) /\ tool'[c] = t /\ Begins(job'[c])
  BY SendsOK DEF Invariants, Starts
<1>2. job[c].at = "idle"
  <2>1. ~Active(tool[c]) /\ JobOK(job[c], tool[c])
    BY DEF Starts, Active, Invariants, ClientsInv
  <2>2. job[c] = NoJob
    BY <2>1 DEF JobOK
  <2> QED BY <2>2 DEF NoJob
<1>3. Points(c) /\ Remembers(c)
  BY <1>1 DEF Begins, Points, Remembers, None
<1>4. Renumbers
  BY SameNumbers DEF Starts, Invariants
<1>5. UNCHANGED audio
  BY DEF Starts
<1> QED BY <1>1, <1>2, <1>3, <1>4, <1>5, NumberedKeeps DEF Tidy

LEMMA StartToolsKeep ==
  ASSUME Invariants, NEW c \in Clients, StartStream(c) \/ StartTool(c)
  PROVE  Invariants'
<1>1. counter \in Nat \ {0}
  BY DEF Invariants, NumbersInv
<1>2. CASE StartStream(c)
  <2>1. counter <= MaxNumber /\ counter' = counter + 1
    BY <1>2 DEF StartStream
  <2>2. PICK kind \in Kind, id \in Given \cup {NoId} :
          Starts(c, [NoTool EXCEPT !.at = "create", !.kind = kind,
                                   !.id = IF id = NoId THEN <<kind, counter>> ELSE id])
    BY <1>2 DEF StartStream
  <2> DEFINE i == IF id = NoId THEN <<kind, counter>> ELSE id
             t == [NoTool EXCEPT !.at = "create", !.kind = kind, !.id = i]
  <2>3. counter \in Number
    BY <1>1, <2>1 DEF Number
  <2>4. i \in SessionId
    BY <2>3 DEF SessionId
  <2>5. Starts(c, t)
    BY <2>2
  <2> HIDE DEF i
  <2>6. NoTool \in ToolType /\ NoTool.number = None
    BY DEF NoTool, ToolType, ToolKind, AnyId, AnyNumber, None
  <2>7. t \in ToolType /\ t.at = "create" /\ t.kind = kind /\ t.id = i /\ t.number = None
    BY <2>4, <2>6 DEF ToolType, CallName, ToolKind, AnyId, AnyNumber, None
  <2>8. ToolOK(t)
    BY <2>4, <2>7 DEF ToolOK, Kind
  <2> HIDE DEF t
  <2> QED BY <1>1, <2>1, <2>5, <2>7, <2>8, StartsKeep
<1>3. CASE StartTool(c)
  <2>1. PICK at \in Method \cup {"create"}, kind \in {"log", "control"}, id \in Given :
          /\ Starts(c, [NoTool EXCEPT !.at = at, !.kind = kind, !.id = id])
          /\ at = "create" <=> kind = "log"
    BY <1>3 DEF StartTool, Method
  <2> DEFINE t == [NoTool EXCEPT !.at = at, !.kind = kind, !.id = id]
  <2>2. NoTool \in ToolType /\ NoTool.number = None
    BY DEF NoTool, ToolType, ToolKind, AnyId, AnyNumber, None
  <2>3. Starts(c, t)
    BY <2>1
  <2>4. id \in SessionId
    BY DEF SessionId
  <2>5. t \in ToolType /\ t.at = at /\ t.kind = kind /\ t.id = id /\ t.number = None
    BY <2>2, <2>4 DEF ToolType, CallName, ToolKind, AnyId, AnyNumber, None, Method
  <2>6. ToolOK(t) /\ t.at # "idle"
    BY <2>1, <2>4, <2>5 DEF ToolOK, Kind, Method
  <2> HIDE DEF t
  <2>7. counter' = counter
    BY <1>3 DEF StartTool
  <2> QED BY <1>1, <2>3, <2>5, <2>6, <2>7, StartsKeep
<1> QED BY <1>2, <1>3

-----------------------------------------------------------------------------
(* The invariants hold in every behaviour.                                 *)

LEMMA InitHolds == Init => Invariants
<1> SUFFICES ASSUME Init PROVE Invariants
  OBVIOUS
<1> USE DEF Init, None
<1>1. ClientsInv
  <2>1. NoTool \in ToolType /\ ToolOK(NoTool) /\ ~Active(NoTool)
    BY DEF NoTool, ToolType, ToolOK, Active, ToolKind, AnyId, AnyNumber
  <2>2. NoJob \in JobType /\ JobOK(NoJob, NoTool)
    BY <2>1 DEF NoJob, JobType, JobOK, Place, ToolKind, AnyId, AnyNumber
  <2> QED BY <2>1, <2>2 DEF ClientsInv
<1>2. \A c \in Clients : job[c].session = 0 /\ job[c].left = {} /\ job[c].at = "idle"
                         /\ tool[c].number = 0
  BY DEF NoJob, NoTool
<1>3. AudioInv
  <2>1. sessions \in Seq(SessionType) /\ DOMAIN sessions = {}
    OBVIOUS
  <2>2. AudioTypes /\ TableInv /\ OneSessionPerId
    BY <2>1 DEF AudioTypes, TableInv, OneSessionPerId, Kind
  <2>3. PointsInv /\ FreshInv
    BY <1>2 DEF PointsInv, FreshInv
  <2>4. OpenIsHeld /\ ClosedIsQuiet
    BY <2>1 DEF OpenIsHeld, ClosedIsQuiet
  <2> QED BY <2>2, <2>3, <2>4 DEF AudioInv
<1>4. NumbersInv
  BY <1>2 DEF NumbersInv, AnyId, AnyNumber
<1> QED BY <1>1, <1>3, <1>4 DEF Invariants

LEMMA NextKeeps == Invariants /\ [Next]_vars => Invariants'
<1> SUFFICES ASSUME Invariants, [Next]_vars PROVE Invariants'
  OBVIOUS
<1>1. CASE UNCHANGED vars
  BY <1>1 DEF vars, audio, numbers, Invariants, ClientsInv, AudioInv, NumbersInv, AudioTypes,
              TableInv, PointsInv, FreshInv, OneSessionPerId, OpenIsHeld, ClosedIsQuiet
<1>2. ASSUME NEW c \in Clients, StartStream(c) \/ StartTool(c) PROVE Invariants'
  BY <1>2, StartToolsKeep
<1>3. ASSUME NEW c \in Clients, Serves(c) PROVE Invariants'
  <2>1. CASE Open(c)
    BY <2>1, OpenKeeps
  <2>2. CASE Insert(c)
    BY <2>2, InsertKeeps
  <2>3. CASE FindSession(c) \/ Get(c) \/ FindStats(c)
    BY <2>3, FindsKeeps DEF FindSession, Get, FindStats
  <2>4. CASE Prepare(c) \/ Start(c) \/ Stop(c)
    BY <2>4, PrepareKeeps, StartKeeps, StopKeeps
  <2>5. CASE WriteFrames(c) \/ ReadFrames(c) \/ Drain(c)
    <3> DEFINE s == sessions[job[c].session]
    <3>1. PICK may \in BOOLEAN : (may => ~s.closed) /\ Occupies(c, may)
      <4>1. CASE WriteFrames(c)
        BY <4>1 DEF WriteFrames
      <4>2. CASE ReadFrames(c)
        BY <4>2 DEF ReadFrames
      <4>3. CASE Drain(c)
        BY <4>3 DEF Drain
      <4> QED BY <2>5, <4>1, <4>2, <4>3
    <3> QED BY <2>5, <3>1, OccupiesKeeps DEF WriteFrames, ReadFrames, Drain, Locks
  <2>6. CASE DeviceEnds(c)
    BY <2>6, DeviceEndsKeeps
  <2>7. CASE \/ Look(c) \/ Snapshot(c) \/ ReadStats(c) \/ Resolve(c)
             \/ LogCreate(c) \/ LogStart(c) \/ LogRead(c) \/ LogStop(c) \/ LogClose(c)
    BY <2>7, ReadsKeep
  <2>8. CASE GiveNumber(c) \/ Describe(c) \/ Release(c)
    BY <2>8, GiveNumberKeeps, DescribeKeeps, ReleaseKeeps
  <2>9. CASE Collect(c) \/ List(c) \/ ListNumber(c)
    BY <2>9, ListsKeep
  <2>10. CASE Remove(c) \/ Close(c)
    BY <2>10, RemoveKeeps, CloseKeeps
  <2> QED BY <1>3, <2>1, <2>2, <2>3, <2>4, <2>5, <2>6, <2>7, <2>8, <2>9, <2>10 DEF Serves
<1> QED BY <1>1, <1>2, <1>3 DEF Next

(* Whatever requests of the tools overlap in RpcSocketServer's workers,    *)
(* tools and their jobs, tables, sessions and numbers stay together.       *)
THEOREM Correct == Spec => []Invariants
BY InitHolds, NextKeeps, PTL DEF Spec

(* Creates and closes of one id that overlap neither put two sessions of it*)
(* into the tables nor forget an open device (createPlaybackSession,       *)
(* createCaptureSession, remove, close).                                   *)
THEOREM TablesAlwaysHold == Spec => []TablesHold
<1>1. Invariants => TablesHold
  BY DEF Invariants, AudioInv, TablesHold
<1> QED BY <1>1, Correct, PTL

(* A call that found its session before a close leaves the closed device   *)
(* alone (closed_ in prepare, start, writeFrames and drain).               *)
THEOREM ClosedStaysQuiet == Spec => []ClosedIsQuiet
<1>1. Invariants => ClosedIsQuiet
  BY DEF Invariants, AudioInv
<1> QED BY <1>1, Correct, PTL

(* A frame sent with a tool's number never reaches the session of another  *)
(* id (numericSessionId, releaseSession, sessionIdForNumeric).             *)
THEOREM FramesReachTheirId == Spec => []FramesStayInId
<1>1. ASSUME Invariants PROVE FramesStayInId
  <2> SUFFICES ASSUME NEW c \in Clients, job[c].at \in {"do", "device"}
               PROVE  sessions[job[c].session].id = tool[c].id
    BY DEF FramesStayInId
  <2>1. Serving(job[c], tool[c])
    BY <1>1, AtWork DEF Invariants
  <2>2. sessions[job[c].session].id = job[c].id
    BY <1>1, AtDevice, OwnSession
  <2> QED BY <2>1, <2>2 DEF Serving
<1> QED BY <1>1, Correct, PTL

-----------------------------------------------------------------------------
(* What a tool leaves behind.                                              *)

Tabled(k) == \E kind \in Kind, i \in SessionId : table[kind][i] = k

(* A job is at a step of its call, and a tool that cleans up only stops and*)
(* closes.                                                                 *)
CallInv == \A c \in Clients :
  /\ job[c].call = "create" =>
       job[c].at \in {"look", "open", "insert", "get", "snapshot", "describe", "log"}
  /\ job[c].call = "close" => job[c].at \in {"remove", "close", "release", "log"}
  /\ job[c].at = "log" => job[c].kind = "log"
  /\ tool[c].cleanup => tool[c].at \in {"stop", "close"}

(* The session a tool has created is of its id; it is out of the table when*)
(* a close has removed it or the tool has ended, and no create brings it   *)
(* back.                                                                   *)
OwnOf(c) ==
  /\ tool[c].session # None => /\ tool[c].session \in DOMAIN sessions
                               /\ tool[c].kind \in Kind
                               /\ Active(tool[c]) => sessions[tool[c].session].id = tool[c].id
  /\ job[c].at \in {"look", "open", "insert"} => tool[c].session = None
  /\ job[c].at \in {"close", "release"} \/ (tool[c].at = "over" /\ ~tool[c].stuck) =>
       tool[c].session = None \/ ~Tabled(tool[c].session)
  /\ job[c].at = "insert" => \A d \in Clients : tool[d].session # job[c].session

OwnInv == \A c \in Clients : OwnOf(c)

(* A log session is its tool's, which has not ended but by a second error. *)
LogType == [open : BOOLEAN, running : BOOLEAN, by : Clients \cup {Nobody}]

LogsInv ==
  /\ logs \in [SessionId -> LogType]
  /\ \A c \in Clients, i \in SessionId : logs[i].by = c =>
       /\ logs[i].open
       /\ tool[c].kind = "log"
       /\ tool[c].at \notin {"idle", "create"}
       /\ tool[c].at = "over" => tool[c].stuck
       /\ Active(tool[c]) => tool[c].id = i

(* No session of an id is in a table that has none for it.                 *)
LEMMA FreeId ==
  ASSUME TableInv, NEW k, k # None, NEW i,
         k \in DOMAIN sessions, sessions[k].id = i,
         \A kind \in Kind : table[kind][i] = None
  PROVE  ~Tabled(k)
BY DEF TableInv, Tabled

(* The ways in which a worker goes on: its call fails or succeeds, or it is*)
(* at its next step.                                                       *)
FailsAt(c) ==
  /\ Fails(c)
  /\ job[c].call \in {"create", "close"} =>
       \/ job[c].at \in {"look", "open", "insert", "log"}
       \/ \A kind \in Kind : table[kind][job[c].id] = None

SucceedsAt(c) ==
  /\ Succeeds(c)
  /\ job[c].call = "close" => job[c].at \in {"release", "log"}

MovesAt(c) ==
  /\ Others(c)
  /\ \A d \in Clients : /\ tool'[d].at = tool[d].at /\ tool'[d].kind = tool[d].kind
                        /\ tool'[d].id = tool[d].id /\ tool'[d].session = tool[d].session
                        /\ tool'[d].cleanup = tool[d].cleanup /\ tool'[d].stuck = tool[d].stuck
  /\ job'[c].call = job[c].call /\ job'[c].kind = job[c].kind
  /\ job'[c].at \notin {"look", "insert", "log"}
  /\ job'[c].at = "open" => job[c].at = "look"
  /\ job'[c].at = "release" => job[c].at = "close"
  /\ job'[c].at = "close" => \A kind \in Kind : table'[kind][job[c].id] = None
  /\ job[c].call = "create" => job'[c].at \in {"open", "get", "snapshot", "describe"}
  /\ job[c].call = "close" => job'[c].at \in {"close", "release"}

Shrinks ==
  /\ DOMAIN sessions' = DOMAIN sessions
  /\ \A k \in DOMAIN sessions : sessions'[k].id = sessions[k].id
  /\ \A k : Tabled(k)' => k = None \/ Tabled(k)

LEMMA SameShrinks ==
  ASSUME UNCHANGED table, \E c \in Clients : Adjusts(c)
  PROVE  Shrinks
BY DEF Shrinks, Tabled, Adjusts

LEMMA StillShrinks ==
  ASSUME UNCHANGED <<table, sessions>>
  PROVE  Shrinks
BY DEF Shrinks, Tabled

LEMMA FindNone ==
  ASSUME NEW i, Find(i, Kind) = None
  PROVE  \A kind \in Kind : table[kind][i] = None
<1>1. "playback" \in Kind /\ "capture" \in Kind /\ \A kind \in Kind : kind \in {"playback", "capture"}
  BY DEF Kind
<1>2. table["playback"][i] = None
  BY <1>1 DEF Find
<1>3. table["capture"][i] = None
  BY <1>1, <1>2 DEF Find
<1> QED BY <1>1, <1>2, <1>3

(* A worker at its next step.                                              *)
LEMMA GoesMoves ==
  ASSUME Invariants, NEW c \in Clients, tool' = tool,
         NEW j, job' = [job EXCEPT ![c] = j], j \in JobType,
         j.call = job[c].call, j.kind = job[c].kind,
         j.at \notin {"look", "insert", "log"},
         j.at = "open" => job[c].at = "look",
         j.at = "release" => job[c].at = "close",
         j.at = "close" => \A kind \in Kind : table'[kind][job[c].id] = None,
         job[c].call = "create" => j.at \in {"open", "get", "snapshot", "describe"},
         job[c].call = "close" => j.at \in {"close", "release"}
  PROVE  MovesAt(c)
<1>1. job \in [Clients -> JobType] /\ tool \in [Clients -> ToolType]
  BY DEF Invariants, ClientsInv
<1>2. job'[c] = j /\ Others(c)
  BY <1>1 DEF Others
<1> QED BY <1>2 DEF MovesAt

LEMMA PlainGoes ==
  ASSUME Invariants, NEW c \in Clients, tool' = tool, NEW at \in Place, Goes(c, at),
         at \notin {"look", "insert", "log", "close"},
         at = "open" => job[c].at = "look",
         at = "release" => job[c].at = "close",
         job[c].call = "create" => at \in {"open", "get", "snapshot", "describe"},
         job[c].call = "close" => at \in {"close", "release"}
  PROVE  MovesAt(c)
<1> DEFINE j == [job[c] EXCEPT !.at = at]
<1>1. job[c] \in JobType
  BY DEF Invariants, ClientsInv
<1>2. j \in JobType /\ j.call = job[c].call /\ j.kind = job[c].kind /\ j.at = at
  BY <1>1 DEF JobType
<1>3. job' = [job EXCEPT ![c] = j]
  BY DEF Goes
<1> HIDE DEF j
<1> QED BY <1>2, <1>3, GoesMoves

LEMMA FindsMoves ==
  ASSUME Invariants, CallInv, NEW c \in Clients, NEW from \in {"find", "get", "stats"},
         NEW to \in {"do", "snapshot", "read stats"}, Finds(c, from, to),
         to = "snapshot" <=> from = "get"
  PROVE  FailsAt(c) \/ MovesAt(c)
<1> DEFINE found == Find(job[c].id, Kinds(job[c].call, job[c].kind))
<1>1. /\ job[c] \in JobType /\ job[c].at = from /\ job[c].id \in SessionId
      /\ job[c].call = "create" => from = "get"
      /\ job[c].call # "close"
  BY AtWork DEF Invariants, ClientsInv, CallInv, Finds
<1>2. CASE found = None
  <2>1. Fails(c)
    BY <1>2 DEF Finds
  <2>2. job[c].call = "create" => \A kind \in Kind : table[kind][job[c].id] = None
    <3>1. job[c].call = "create" => Kinds(job[c].call, job[c].kind) = Kind
      BY DEF Kinds
    <3> QED BY <1>2, <3>1, FindNone
  <2> QED BY <1>1, <2>1, <2>2 DEF FailsAt
<1>3. CASE found # None
  <2> DEFINE j == [job[c] EXCEPT !.session = found, !.at = to]
  <2>1. job' = [job EXCEPT ![c] = j] /\ tool' = tool
    BY <1>3 DEF Finds
  <2>2. found \in Nat
    <3>1. \A k \in Kind : table[k] \in [SessionId -> Nat]
      BY DEF Invariants, AudioInv, AudioTypes
    <3>2. \A k \in Kind : table[k][job[c].id] \in Nat
      BY <1>1, <3>1
    <3> QED BY <3>2, <1>3 DEF Find, Kind
  <2> HIDE DEF found
  <2>3. j \in JobType /\ j.call = job[c].call /\ j.kind = job[c].kind /\ j.at = to
    BY <1>1, <2>2 DEF JobType, Place
  <2> HIDE DEF j
  <2> QED BY <1>1, <2>1, <2>3, GoesMoves
<1> QED BY <1>2, <1>3

(* The steps that change neither the tables nor the log sessions.          *)
LEMMA CallMoves ==
  ASSUME Invariants, CallInv, NEW c \in Clients,
         \/ Prepare(c) \/ Start(c) \/ Stop(c)
         \/ WriteFrames(c) \/ ReadFrames(c) \/ Drain(c) \/ DeviceEnds(c)
  PROVE  FailsAt(c) \/ SucceedsAt(c) \/ MovesAt(c)
<1>1. job[c].at \in {"do", "device"}
  BY DEF Prepare, Start, Stop, WriteFrames, ReadFrames, Drain, DeviceEnds, Locks
<1>2. job[c].call \notin {"create", "close"}
  BY <1>1 DEF CallInv
<1>3. \/ Fails(c) \/ Done(c) \/ (Goes(c, "device") /\ tool' = tool)
  BY DEF Prepare, Start, Stop, WriteFrames, ReadFrames, Drain, DeviceEnds, Occupies
<1>4. CASE Fails(c)
  BY <1>2, <1>4 DEF FailsAt
<1>5. CASE Done(c)
  <2>1. CASE Succeeds(c)
    BY <1>2, <2>1 DEF SucceedsAt
  <2>2. CASE Goes(c, "get") /\ tool' = tool
    BY <1>2, <2>2, PlainGoes DEF Place
  <2> QED BY <1>5, <2>1, <2>2 DEF Done
<1>6. CASE Goes(c, "device") /\ tool' = tool
  BY <1>2, <1>6, PlainGoes DEF Place
<1> QED BY <1>3, <1>4, <1>5, <1>6

LEMMA ReadMoves ==
  ASSUME Invariants, CallInv, NEW c \in Clients,
         \/ Look(c) \/ Resolve(c) \/ Snapshot(c) \/ ReadStats(c) \/ GiveNumber(c) \/ Describe(c)
         \/ Collect(c) \/ List(c) \/ ListNumber(c) \/ Close(c) \/ Release(c)
  PROVE  FailsAt(c) \/ SucceedsAt(c) \/ MovesAt(c)
<1>a. /\ job[c] \in JobType /\ job \in [Clients -> JobType]
      /\ tool[c] \in ToolType /\ tool \in [Clients -> ToolType]
  BY DEF Invariants, ClientsInv
<1>b. /\ job[c].call = "create" =>
          job[c].at \in {"look", "open", "insert", "get", "snapshot", "describe", "log"}
      /\ job[c].call = "close" => job[c].at \in {"remove", "close", "release", "log"}
  BY DEF CallInv
<1>1. CASE Look(c)
  <2>1. job[c].at = "look" /\ (Fails(c) \/ (Goes(c, "open") /\ tool' = tool))
    BY <1>1 DEF Look
  <2>2. "open" \in Place
    BY DEF Place
  <2> QED BY <1>b, <2>1, <2>2, PlainGoes DEF FailsAt
<1>2. CASE Resolve(c)
  <2>1. job[c].at = "resolve"
    BY <1>2 DEF Resolve
  <2>2. CASE Fails(c)
    BY <1>b, <2>1, <2>2 DEF FailsAt
  <2>3. CASE ~Fails(c)
    <3> DEFINE n == job[c].number
               j == [job[c] EXCEPT !.id = numericSessions[n], !.at = "find"]
    <3>1. n # None /\ job' = [job EXCEPT ![c] = j] /\ tool' = tool
      BY <1>2, <2>3 DEF Resolve
    <3>2. n \in Number
      BY <1>a, <3>1 DEF JobType, AnyNumber
    <3>3. numericSessions[n] \in AnyId
      BY <3>2 DEF Invariants, NumbersInv
    <3>4. j \in JobType /\ j.call = job[c].call /\ j.kind = job[c].kind /\ j.at = "find"
      BY <1>a, <3>3 DEF JobType, Place
    <3> HIDE DEF j
    <3> QED BY <1>b, <2>1, <3>1, <3>4, GoesMoves
  <2> QED BY <2>2, <2>3
<1>3. CASE Snapshot(c)
  <2>1. job[c].call = "stats" /\ Goes(c, "stats") /\ tool' = tool
    BY <1>3 DEF Snapshot
  <2> QED BY <2>1, PlainGoes DEF Place
<1>4. CASE ReadStats(c)
  BY <1>4, <1>b DEF ReadStats, Locks, SucceedsAt
<1>5. CASE GiveNumber(c)
  <2>1. job[c].at = "snapshot"
    BY <1>5 DEF GiveNumber, Locks
  <2>2. CASE job[c].call = "create"
    <3> DEFINE n == sessionIds'[job[c].id]
    <3>1. tool' = [tool EXCEPT ![c].number = n] /\ Goes(c, "describe")
      BY <1>5, <2>2 DEF GiveNumber
    <3> HIDE DEF n
    <3> DEFINE j == [job[c] EXCEPT !.at = "describe"]
               u == [tool[c] EXCEPT !.number = n]
    <3>2. job' = [job EXCEPT ![c] = j] /\ tool' = [tool EXCEPT ![c] = u]
      BY <3>1 DEF Goes
    <3>3. j.call = job[c].call /\ j.kind = job[c].kind /\ j.at = "describe"
      BY <1>a DEF JobType
    <3>4. /\ u.at = tool[c].at /\ u.kind = tool[c].kind /\ u.id = tool[c].id
          /\ u.session = tool[c].session /\ u.cleanup = tool[c].cleanup /\ u.stuck = tool[c].stuck
      BY <1>a DEF ToolType
    <3> HIDE DEF j, u
    <3>5. /\ job'[c] = j /\ tool'[c] = u
          /\ \A d \in Clients \ {c} : tool'[d] = tool[d] /\ job'[d] = job[d]
      BY <1>a, <3>2
    <3>6. tool' \in [Clients -> ToolType] /\ job' \in [Clients -> JobType]
      <4>1. Invariants'
        BY <1>5, GiveNumberKeeps
      <4> QED BY <4>1 DEF Invariants, ClientsInv
    <3>7. Others(c)
      BY <3>5, <3>6 DEF Others
    <3> QED BY <2>2, <3>3, <3>4, <3>5, <3>7 DEF MovesAt
  <2>3. CASE job[c].call # "create"
    BY <1>5, <1>b, <2>1, <2>3 DEF GiveNumber, SucceedsAt
  <2> QED BY <2>2, <2>3
<1>6. CASE Describe(c)
  BY <1>6, <1>b DEF Describe, SucceedsAt
<1>7. CASE Collect(c) \/ List(c) \/ ListNumber(c)
  <2>1. job[c].at \in {"collect", "list", "list numbers"}
    BY <1>7 DEF Collect, List, ListNumber
  <2>2. job[c].call \notin {"create", "close"}
    BY <1>b, <2>1
  <2>3. CASE Succeeds(c)
    BY <2>2, <2>3 DEF SucceedsAt
  <2>4. CASE ~Succeeds(c)
    <3>1. Others(c) /\ tool' = tool
      <4>1. job' \in [Clients -> JobType]
        <5>1. Invariants'
          BY <1>7, ListsKeep
        <5> QED BY <5>1 DEF Invariants, ClientsInv
      <4>2. tool' = tool /\ \A d \in Clients \ {c} : job'[d] = job[d]
        BY <1>7, <1>a, <2>4 DEF Collect, List, ListNumber, Goes
      <4> QED BY <1>a, <4>1, <4>2 DEF Others
    <3>2. /\ job'[c].call = job[c].call /\ job'[c].kind = job[c].kind
          /\ job'[c].at \in {"list", "list numbers"}
      <4>1. CASE Collect(c)
        BY <4>1, <1>a DEF Collect, JobType
      <4>2. CASE List(c)
        <5>1. PICK at, left, ids : job'[c] = [job[c] EXCEPT !.at = at, !.left = left, !.ids = ids]
                                   /\ at \in {"list", "list numbers"}
          <6>1. CASE job[c].left = {}
            <7>1. job'[c] = [job[c] EXCEPT !.at = "list numbers", !.left = job[c].left,
                                           !.ids = job[c].ids]
              <8>1. job'[c] = [job[c] EXCEPT !.at = "list numbers"]
                BY <4>2, <6>1, <1>a DEF List, Goes
              <8> QED BY <8>1, <1>a DEF JobType
            <7> QED BY <7>1
          <6>2. CASE job[c].left # {}
            <7>1. PICK left, ids : job' = [job EXCEPT ![c].left = left, ![c].ids = ids]
              BY <4>2, <6>2 DEF List
            <7>2. job[c].at = "list"
              BY <4>2 DEF List
            <7>3. job'[c] = [job[c] EXCEPT !.at = "list", !.left = left, !.ids = ids]
              BY <7>1, <7>2, <1>a DEF JobType
            <7> QED BY <7>3
          <6> QED BY <6>1, <6>2
        <5> QED BY <5>1, <1>a DEF JobType
      <4>3. CASE ListNumber(c)
        <5>1. PICK ids : job' = [job EXCEPT ![c].ids = ids]
          BY <4>3, <2>4 DEF ListNumber
        <5>2. job[c].at = "list numbers"
          BY <4>3 DEF ListNumber
        <5>3. job'[c] = [job[c] EXCEPT !.ids = ids]
          BY <5>1, <1>a
        <5> QED BY <5>2, <5>3, <1>a DEF JobType
      <4> QED BY <1>7, <4>1, <4>2, <4>3
    <3> QED BY <2>2, <3>1, <3>2 DEF MovesAt
  <2> QED BY <2>3, <2>4
<1>8. CASE Close(c)
  <2>1. job[c].at = "close" /\ Goes(c, "release") /\ tool' = tool
    BY <1>8 DEF Close, Locks
  <2>2. job[c].call # "create"
    BY <1>b, <2>1
  <2>3. "release" \in Place
    BY DEF Place
  <2> QED BY <2>1, <2>2, <2>3, PlainGoes
<1>9. CASE Release(c)
  BY <1>9 DEF Release, SucceedsAt
<1> QED BY <1>1, <1>2, <1>3, <1>4, <1>5, <1>6, <1>7, <1>8, <1>9

LEMMA RemoveMoves ==
  ASSUME Invariants, CallInv, NEW c \in Clients, Remove(c)
  PROVE  FailsAt(c) \/ MovesAt(c)
<1> DEFINE found == Find(job[c].id, Kind)
<1>a. job[c] \in JobType /\ job[c].id \in SessionId /\ job[c].at = "remove"
  BY AtWork DEF Invariants, ClientsInv, Remove
<1>b. job[c].call # "create"
  BY <1>a DEF CallInv
<1>1. CASE found = None
  <2>1. Fails(c)
    BY <1>1 DEF Remove
  <2>2. \A kind \in Kind : table[kind][job[c].id] = None
    BY <1>1, FindNone
  <2> QED BY <2>1, <2>2 DEF FailsAt
<1>2. CASE found # None
  <2>a. PICK k, i : k = found /\ i = job[c].id
    OBVIOUS
  <2> DEFINE j == [job[c] EXCEPT !.session = k, !.at = "close"]
  <2>1. /\ table' = [table EXCEPT ![sessions[k].kind][i] = None]
        /\ job' = [job EXCEPT ![c] = j] /\ tool' = tool
    BY <1>2, <2>a DEF Remove
  <2>2. PICK kind \in Kind : table[kind][i] = k
    BY <1>2, <2>a DEF Find, Kind
  <2>3. k # None /\ i \in SessionId
    BY <1>2, <1>a, <2>a
  <2>4. sessions[k].kind = kind
    BY <2>2, <2>3 DEF Invariants, AudioInv, TableInv
  <2>5. table \in [Kind -> [SessionId -> Nat]]
    BY DEF Invariants, AudioInv, AudioTypes
  <2>6. k \in Nat
    <3>1. table[kind] \in [SessionId -> Nat]
      BY <2>5
    <3> QED BY <2>2, <2>3, <3>1
  <2>7. \A o \in Kind : table'[o][i] = None
    <3>1. \A o \in Kind : o # kind => table[o][i] = None
      BY <2>2, <2>3 DEF Invariants, AudioInv, OneSessionPerId, Kind
    <3>2. table' = [table EXCEPT ![kind] = [table[kind] EXCEPT ![i] = None]]
      BY <2>1, <2>4
    <3>3. \A o \in Kind : o # kind => table'[o] = table[o]
      BY <2>5, <3>2
    <3>4. table'[kind] = [table[kind] EXCEPT ![i] = None]
      BY <2>5, <3>2
    <3>5. table[kind] \in [SessionId -> Nat]
      BY <2>5
    <3>6. table'[kind][i] = None
      BY <2>3, <3>4, <3>5
    <3> QED BY <3>1, <3>3, <3>6
  <2>8. j \in JobType /\ j.call = job[c].call /\ j.kind = job[c].kind /\ j.at = "close"
    BY <1>a, <2>6 DEF JobType, Place
  <2> HIDE DEF j
  <2> QED BY <1>b, <2>1, <2>7, <2>8, <2>a, GoesMoves
<1> QED BY <1>1, <1>2

-----------------------------------------------------------------------------
(* The tool after a call.                                                  *)

EndsAs(t, u) ==
  /\ u.session = t.session /\ u.kind = t.kind
  /\ u.at \notin {"idle", "create"}
  /\ u.at # "over" => u.id = t.id
  /\ u.cleanup => u.at \in {"stop", "close"}

LEMMA FailureEnds ==
  ASSUME NEW t, ToolOK(t), Active(t)
  PROVE  /\ EndsAs(t, AfterFailure(t))
         /\ AfterFailure(t).at = "over" /\ ~AfterFailure(t).stuck
              => t.kind = "control" \/ t.at \in {"create", "close"} \/ (t.cleanup /\ t.at # "stop")
<1> USE DEF ToolOK, ToolType, EndsAs
<1>1. \A stuck \in BOOLEAN : /\ EndsAs(t, Over(t, stuck))
                             /\ Over(t, stuck).stuck = stuck
  BY DEF Over, NoTool
<1>2. EndsAs(t, [t EXCEPT !.at = "stop", !.cleanup = TRUE])
  OBVIOUS
<1>3. [t EXCEPT !.at = "stop", !.cleanup = TRUE].at = "stop"
  OBVIOUS
<1> HIDE DEF ToolOK, ToolType, EndsAs
<1>4. CASE t.kind = "control" \/ t.at = "create"
  BY <1>4, <1>1 DEF AfterFailure
<1>5. CASE ~(t.kind = "control" \/ t.at = "create") /\ t.kind = "log" /\ t.at = "start"
  BY <1>5, <1>1 DEF AfterFailure
<1>6. CASE /\ ~(t.kind = "control" \/ t.at = "create") /\ ~(t.kind = "log" /\ t.at = "start")
           /\ t.cleanup
  <2>1. AfterFailure(t) = Over(t, t.at = "stop")
    BY <1>6 DEF AfterFailure
  <2>2. EndsAs(t, Over(t, t.at = "stop")) /\ (Over(t, t.at = "stop").stuck <=> t.at = "stop")
    BY <1>1
  <2> QED BY <1>6, <2>1, <2>2
<1>7. CASE /\ ~(t.kind = "control" \/ t.at = "create") /\ ~(t.kind = "log" /\ t.at = "start")
           /\ ~t.cleanup
  <2>1. AfterFailure(t) = [t EXCEPT !.at = "stop", !.cleanup = TRUE]
    BY <1>7 DEF AfterFailure
  <2> QED BY <2>1, <1>2, <1>3
<1> QED BY <1>4, <1>5, <1>6, <1>7

LEMMA SuccessEnds ==
  ASSUME NEW t, ToolOK(t), Active(t), t.cleanup => t.at \in {"stop", "close"},
         NEW u \in AfterSuccess(t)
  PROVE  /\ EndsAs(t, u)
         /\ u.at = "over" /\ ~u.stuck => t.kind = "control" \/ t.at = "close"
<1> DEFINE next == CASE t.kind = "control"  -> {"over"}
                     [] t.kind = "playback" -> PlayScript[t.at]
                     [] t.kind = "capture"  -> RecordScript[t.at]
                     [] t.kind = "log"      -> LogScript[t.at]
<1>1. PICK at \in next : u = IF at \in {"left", "over"} THEN Over(t, at = "left")
                             ELSE [t EXCEPT !.at = at]
  BY DEF AfterSuccess
<1>2. /\ at \notin {"idle", "create"}
      /\ at = "over" => t.kind = "control" \/ t.at = "close"
      /\ t.at = "stop" => at \in {"close", "over"}
      /\ t.at = "close" => at = "over"
  <2>1. CASE t.kind = "control"
    BY <1>1, <2>1
  <2>2. CASE t.kind = "playback"
    <3>1. at \in PlayScript[t.at]
      BY <1>1, <2>2
    <3>2. t.at \in {"create", "start", "transfer", "drain", "stop", "close"}
      BY <2>2 DEF ToolOK, Active
    <3> QED BY <3>1, <3>2 DEF PlayScript
  <2>3. CASE t.kind = "capture"
    <3>1. at \in RecordScript[t.at]
      BY <1>1, <2>3
    <3>2. t.at \in {"create", "start", "transfer", "stop", "close"}
      BY <2>3 DEF ToolOK, Active
    <3> QED BY <3>1, <3>2 DEF RecordScript
  <2>4. CASE t.kind = "log"
    <3>1. at \in LogScript[t.at]
      BY <1>1, <2>4
    <3>2. t.at \in {"create", "start", "transfer", "stop", "close"}
      BY <2>4 DEF ToolOK, Active
    <3> QED BY <3>1, <3>2 DEF LogScript
  <2> QED BY <2>1, <2>2, <2>3, <2>4 DEF ToolOK, ToolType, ToolKind, Kind, Active
<1> HIDE DEF next
<1>3. CASE at \in {"left", "over"}
  <2>1. u = Over(t, at = "left")
    BY <1>1, <1>3
  <2>2. u.at = "over" /\ ~u.cleanup /\ (u.stuck <=> at = "left") /\ u.session = t.session
        /\ u.kind = t.kind
    BY <2>1 DEF Over, NoTool
  <2> QED BY <1>2, <1>3, <2>2 DEF EndsAs
<1>4. CASE at \notin {"left", "over"}
  <2>1. u = [t EXCEPT !.at = at]
    BY <1>1, <1>4
  <2>2. /\ u.at = at /\ u.cleanup = t.cleanup /\ u.session = t.session
        /\ u.kind = t.kind /\ u.id = t.id
    BY <2>1 DEF ToolOK, ToolType
  <2>3. t.cleanup => t.at = "stop"
    BY <1>2, <1>4
  <2> QED BY <1>2, <1>4, <2>2, <2>3 DEF EndsAs
<1> QED BY <1>3, <1>4

(* A tool that ends, and has not been left, was closing or had created     *)
(* nothing.                                                                *)
LEMMA EndsAt ==
  ASSUME Invariants, CallInv, NEW c \in Clients, job[c].at # "idle",
         FailsAt(c) \/ SucceedsAt(c)
  PROVE  /\ Others(c) /\ Kept(c)
         /\ job'[c] = JobOf(tool'[c])
         /\ EndsAs(tool[c], tool'[c])
         /\ tool'[c].at = "over" /\ ~tool'[c].stuck =>
              \/ tool[c].kind = "control"
              \/ FailsAt(c) /\ tool[c].at = "create"
              \/ tool[c].at = "close"
<1>1. Active(tool[c]) /\ ToolOK(tool[c]) /\ (tool[c].cleanup => tool[c].at \in {"stop", "close"})
  BY AtWork DEF Invariants, ClientsInv, CallInv
<1>2. Others(c) /\ Kept(c)
  BY EndsOK DEF Invariants, FailsAt, SucceedsAt
<1>3. tool \in [Clients -> ToolType] /\ job \in [Clients -> JobType]
  BY DEF Invariants, ClientsInv
<1>4. CASE FailsAt(c)
  <2>1. tool'[c] = AfterFailure(tool[c]) /\ job'[c] = JobOf(tool'[c])
    BY <1>3, <1>4 DEF FailsAt, Fails, Sends
  <2> QED BY <1>1, <1>2, <1>4, <2>1, FailureEnds
<1>5. CASE SucceedsAt(c)
  <2>1. PICK u \in AfterSuccess(tool[c]) : tool'[c] = u /\ job'[c] = JobOf(tool'[c])
    BY <1>3, <1>5 DEF SucceedsAt, Succeeds, Sends
  <2> QED BY <1>1, <1>2, <2>1, SuccessEnds
<1> QED BY <1>4, <1>5

LEMMA NewJob ==
  ASSUME NEW t, ToolOK(t), t.at # "idle"
  PROVE  /\ JobOf(t).call = "create" => JobOf(t).at \in {"look", "log"} /\ t.at = "create"
         /\ JobOf(t).call = "close" => JobOf(t).at \in {"remove", "log"}
         /\ JobOf(t).at = "log" => JobOf(t).kind = "log"
         /\ JobOf(t).at = "look" => t.at = "create"
         /\ JobOf(t).at \notin {"open", "insert", "close", "release"}
<1>1. CASE t.at = "over"
  BY <1>1 DEF JobOf, NoJob
<1>2. CASE t.at # "over"
  <2>1. /\ JobOf(t).call = t.at /\ JobOf(t).at = Entry(t) /\ JobOf(t).kind = t.kind
    BY <1>2 DEF JobOf, NoJob
  <2>2. /\ Entry(t) \in {"log", "look", "resolve", "remove", "get", "collect", "find"}
        /\ Entry(t) = "log" => t.kind = "log"
        /\ Entry(t) = "look" => t.at = "create"
        /\ t.at = "create" => Entry(t) \in {"look", "log"}
        /\ t.at = "close" => Entry(t) \in {"remove", "log"}
    BY DEF Entry
  <2> QED BY <2>1, <2>2
<1> QED BY <1>1, <1>2

(* What the end of a call leaves of the two invariants.                    *)
LEMMA EndsOwn ==
  ASSUME Invariants, CallInv, OwnInv, NEW c \in Clients, job[c].at # "idle",
         FailsAt(c) \/ SucceedsAt(c), Shrinks
  PROVE  CallInv' /\ OwnInv'
<1> DEFINE u == tool'[c]
           t == tool[c]
<1>1. /\ Others(c) /\ ToolOK(u) /\ job'[c] = JobOf(u) /\ EndsAs(t, u)
      /\ u.at = "over" /\ ~u.stuck =>
              \/ t.kind = "control"
              \/ FailsAt(c) /\ t.at = "create"
              \/ t.at = "close"
  BY EndsAt DEF Kept
<1>2. /\ job'[c].call = "create" => job'[c].at \in {"look", "log"} /\ u.at = "create"
      /\ job'[c].call = "close" => job'[c].at \in {"remove", "log"}
      /\ job'[c].at = "log" => job'[c].kind = "log"
      /\ job'[c].at = "look" => u.at = "create"
      /\ job'[c].at \notin {"open", "insert", "close", "release"}
      /\ u.at # "create"
  BY <1>1, NewJob DEF EndsAs
<1>3. Active(t) /\ Serving(job[c], t) /\ job[c].id = t.id
  BY AtWork DEF Invariants, Serving
<1>4. CallInv'
  BY <1>1, <1>2 DEF CallInv, Others, EndsAs
<1>5. /\ DOMAIN sessions' = DOMAIN sessions
      /\ \A k \in DOMAIN sessions : sessions'[k].id = sessions[k].id
      /\ \A k : Tabled(k)' => k = None \/ Tabled(k)
  BY DEF Shrinks
<1>6. u.at = "over" /\ ~u.stuck => t.session = None \/ ~Tabled(t.session)
  <2> SUFFICES ASSUME u.at = "over", ~u.stuck, t.session # None
               PROVE  ~Tabled(t.session)
    OBVIOUS
  <2>1. t.kind \in Kind /\ t.session \in DOMAIN sessions /\ sessions[t.session].id = t.id
    BY <1>3 DEF OwnInv, OwnOf
  <2>2. t.kind \notin {"control", "log"}
    BY <2>1 DEF Kind
  <2>3. \/ FailsAt(c) /\ job[c].call \in {"create", "close"}
        \/ SucceedsAt(c) /\ job[c].call = "close"
    BY <1>1, <1>3, <2>2 DEF Serving
  <2>4. job[c].at \notin {"look", "open", "insert", "log"}
    BY <1>3, <2>2 DEF OwnInv, OwnOf, CallInv, Serving
  <2>5. CASE \A kind \in Kind : table[kind][job[c].id] = None
    BY <1>3, <2>1, <2>5, FreeId DEF Invariants, AudioInv
  <2>6. CASE ~(\A kind \in Kind : table[kind][job[c].id] = None)
    <3>1. SucceedsAt(c) /\ job[c].call = "close"
      BY <2>1, <2>3, <2>4, <2>6 DEF FailsAt
    <3>2. job[c].at = "release"
      BY <2>4, <3>1 DEF SucceedsAt
    <3> QED BY <2>1, <3>2 DEF OwnInv, OwnOf
  <2> QED BY <2>5, <2>6
<1>7. OwnInv'
  <2> SUFFICES ASSUME NEW d \in Clients PROVE OwnOf(d)'
    BY DEF OwnInv
  <2>1. \A e \in Clients : tool'[e].session = tool[e].session
    BY <1>1 DEF Others, EndsAs
  <2>2. CASE d = c
    <3>1. u.session # None => /\ u.session \in DOMAIN sessions'
                              /\ u.kind \in Kind
                              /\ Active(u) => sessions'[u.session].id = u.id
      BY <1>1, <1>3, <1>5 DEF OwnInv, OwnOf, EndsAs, Active
    <3>2. PICK k : k = t.session
      OBVIOUS
    <3>3. u.at = "over" /\ ~u.stuck => k = None \/ ~Tabled(k)'
      BY <1>5, <1>6, <3>2
    <3>4. tool'[c].session = k
      BY <1>1, <3>2 DEF EndsAs
    <3>5. tool'[c].at = "over" /\ ~tool'[c].stuck =>
            tool'[c].session = None \/ ~(\E kind \in Kind, i \in SessionId :
                                            table'[kind][i] = tool'[c].session)
      BY <3>3, <3>4 DEF Tabled
    <3> QED BY <1>2, <2>2, <3>1, <3>5 DEF Tabled, OwnOf
  <2>3. CASE d # c
    <3>1. tool'[d] = tool[d] /\ job'[d] = job[d]
      BY <1>1, <2>3 DEF Others
    <3> QED BY <3>1, <2>1, <1>5 DEF OwnInv, OwnOf
  <2> QED BY <2>2, <2>3
<1> QED BY <1>4, <1>7

(* What a step within a call leaves of them.                               *)
LEMMA MovesOwn ==
  ASSUME Invariants, Invariants', CallInv, OwnInv, NEW c \in Clients, job[c].at # "idle",
         MovesAt(c), Shrinks
  PROVE  CallInv' /\ OwnInv'
<1>1. Others(c)
  BY DEF MovesAt
<1>2. /\ DOMAIN sessions' = DOMAIN sessions
      /\ \A k \in DOMAIN sessions : sessions'[k].id = sessions[k].id
      /\ \A k : Tabled(k)' => k = None \/ Tabled(k)
  BY DEF Shrinks
<1>3. \A e \in Clients : /\ tool'[e].at = tool[e].at /\ tool'[e].kind = tool[e].kind
                         /\ tool'[e].id = tool[e].id /\ tool'[e].session = tool[e].session
                         /\ tool'[e].cleanup = tool[e].cleanup /\ tool'[e].stuck = tool[e].stuck
  BY DEF MovesAt
<1>4. Active(tool[c]) /\ job[c].id = tool[c].id
  BY AtWork DEF Invariants, Serving
<1>5. CallInv'
  BY <1>1, <1>3 DEF CallInv, Others, MovesAt
<1>6. ASSUME NEW k, k = tool[c].session, job'[c].at \in {"close", "release"}, k # None
      PROVE  ~Tabled(k)'
  <2>1. k \in DOMAIN sessions /\ sessions[k].id = job[c].id
    BY <1>4, <1>6 DEF OwnInv, OwnOf
  <2>2. CASE job'[c].at = "release"
    BY <1>2, <1>6, <2>1, <2>2 DEF OwnInv, OwnOf, MovesAt
  <2>3. CASE job'[c].at = "close"
    <3>1. \A kind \in Kind : table'[kind][job[c].id] = None
      BY <2>3 DEF MovesAt
    <3>2. TableInv'
      BY DEF Invariants, AudioInv
    <3>3. sessions'[k].id = job[c].id
      BY <1>2, <2>1
    <3>4. \A kind \in Kind, i \in SessionId : table'[kind][i] # k
      BY <1>6, <3>1, <3>2, <3>3 DEF TableInv
    <3> QED BY <3>4 DEF Tabled
  <2> QED BY <1>6, <2>2, <2>3
<1>7. OwnInv'
  <2> SUFFICES ASSUME NEW d \in Clients PROVE OwnOf(d)'
    BY DEF OwnInv
  <2>1. tool'[d].session # None => /\ tool'[d].session \in DOMAIN sessions'
                                   /\ tool'[d].kind \in Kind
                                   /\ Active(tool'[d]) =>
                                        sessions'[tool'[d].session].id = tool'[d].id
    BY <1>2, <1>3 DEF OwnInv, OwnOf, Active
  <2>2. CASE d = c
    <3>1. job'[c].at \in {"look", "open", "insert"} => tool[c].session = None
      BY DEF MovesAt, OwnInv, OwnOf
    <3>2. job'[c].at # "insert"
      BY DEF MovesAt
    <3>3. tool'[c].at # "over"
      BY <1>3, <1>4 DEF Active
    <3>4. job'[c].at \in {"close", "release"} =>
            tool'[c].session = None \/ ~(\E kind \in Kind, i \in SessionId :
                                            table'[kind][i] = tool'[c].session)
      BY <1>3, <1>6 DEF Tabled
    <3> QED BY <2>1, <2>2, <3>1, <3>2, <3>3, <3>4, <1>3 DEF Tabled, OwnOf
  <2>3. CASE d # c
    <3>1. tool'[d] = tool[d] /\ job'[d] = job[d]
      BY <1>1, <2>3 DEF Others
    <3> QED BY <3>1, <2>1, <1>2, <1>3 DEF OwnInv, OwnOf
  <2> QED BY <2>2, <2>3
<1> QED BY <1>5, <1>7

(* A session that changes keeps its id.                                    *)
LEMMA OneShrinks ==
  ASSUME Invariants, UNCHANGED table, NEW c \in Clients,
         job[c].at \in {"insert", "do", "device", "close"},
         NEW s, s.id = sessions[job[c].session].id,
         sessions' = [sessions EXCEPT ![job[c].session] = s]
  PROVE  Shrinks
<1>1. sessions \in Seq(SessionType) /\ job[c].session \in DOMAIN sessions
  BY AtDevice, OwnSession DEF Invariants, AudioInv, AudioTypes
<1>2. DOMAIN sessions' = DOMAIN sessions
  BY <1>1
<1>3. \A k \in DOMAIN sessions : sessions'[k].id = sessions[k].id
  BY <1>1
<1> QED BY <1>2, <1>3 DEF Shrinks, Tabled

LEMMA HolderShrinks ==
  ASSUME Invariants, UNCHANGED table, NEW c \in Clients, job[c].at \in {"do", "device"}, NEW h,
         sessions' = [sessions EXCEPT ![job[c].session].holder = h]
  PROVE  Shrinks
<1> DEFINE k == job[c].session
           s == [sessions[k] EXCEPT !.holder = h]
<1>1. sessions[k] \in SessionType
  BY AtDevice, OwnSession
<1>2. s.id = sessions[k].id
  BY <1>1 DEF SessionType
<1>3. sessions' = [sessions EXCEPT ![k] = s]
  OBVIOUS
<1> HIDE DEF s
<1> QED BY <1>2, <1>3, OneShrinks

LEMMA ShutShrinks ==
  ASSUME Invariants, UNCHANGED table, NEW c \in Clients, job[c].at \in {"insert", "close"},
         Shut(job[c].session)
  PROVE  Shrinks
<1> DEFINE k == job[c].session
           s == [sessions[k] EXCEPT !.closed = TRUE, !.running = FALSE, !.prepared = FALSE]
<1>1. sessions[k] \in SessionType
  BY AtDevice, OwnSession
<1>2. s.id = sessions[k].id
  BY <1>1 DEF SessionType
<1>3. sessions' = [sessions EXCEPT ![k] = s]
  BY DEF Shut
<1> HIDE DEF s
<1> QED BY <1>2, <1>3, OneShrinks

LEMMA CallShrinks ==
  ASSUME Invariants, NEW c \in Clients,
         \/ Prepare(c) \/ Start(c) \/ Stop(c)
         \/ WriteFrames(c) \/ ReadFrames(c) \/ Drain(c) \/ DeviceEnds(c)
  PROVE  Shrinks
<1> DEFINE k == job[c].session
<1>1. UNCHANGED table /\ job[c].at \in {"do", "device"}
  BY DEF Prepare, Start, Stop, WriteFrames, ReadFrames, Drain, DeviceEnds, Locks, Occupies
<1>2. sessions[k] \in SessionType
  BY <1>1, AtDevice, OwnSession
<1>3. CASE sessions' = sessions
  BY <1>1, <1>3, StillShrinks
<1>4. CASE sessions' # sessions /\ (Prepare(c) \/ Start(c) \/ Stop(c))
  <2>1. PICK p, r : \/ sessions' = [sessions EXCEPT ![k].prepared = p]
                    \/ sessions' = [sessions EXCEPT ![k].prepared = p, ![k].running = @ \/ r]
                    \/ sessions' = [sessions EXCEPT ![k].running = @ /\ ~r]
    <3>1. CASE Prepare(c)
      BY <1>4, <3>1 DEF Prepare
    <3>2. CASE Start(c)
      BY <1>4, <3>2 DEF Start
    <3>3. CASE Stop(c)
      BY <1>4, <3>3 DEF Stop
    <3> QED BY <1>4, <3>1, <3>2, <3>3
  <2>2. CASE sessions' = [sessions EXCEPT ![k].prepared = p]
    <3> DEFINE s == [sessions[k] EXCEPT !.prepared = p]
    <3>1. s.id = sessions[k].id
      BY <1>2 DEF SessionType
    <3>2. sessions' = [sessions EXCEPT ![k] = s]
      BY <2>2
    <3> HIDE DEF s
    <3> QED BY <1>1, <3>1, <3>2, OneShrinks
  <2>3. CASE sessions' = [sessions EXCEPT ![k].prepared = p, ![k].running = @ \/ r]
    <3> DEFINE on == sessions[k].running \/ r
               s == [sessions[k] EXCEPT !.prepared = p, !.running = on]
    <3>1. sessions' = [sessions EXCEPT ![k] = s]
      BY <2>3
    <3> HIDE DEF on
    <3>2. s.id = sessions[k].id
      BY <1>2 DEF SessionType
    <3> HIDE DEF s
    <3> QED BY <1>1, <3>1, <3>2, OneShrinks
  <2>4. CASE sessions' = [sessions EXCEPT ![k].running = @ /\ ~r]
    <3> DEFINE on == sessions[k].running /\ ~r
               s == [sessions[k] EXCEPT !.running = on]
    <3>1. sessions' = [sessions EXCEPT ![k] = s]
      BY <2>4
    <3> HIDE DEF on
    <3>2. s.id = sessions[k].id
      BY <1>2 DEF SessionType
    <3> HIDE DEF s
    <3> QED BY <1>1, <3>1, <3>2, OneShrinks
  <2> QED BY <2>1, <2>2, <2>3, <2>4
<1>5. CASE sessions' # sessions /\ ~(Prepare(c) \/ Start(c) \/ Stop(c))
  <2>1. PICK h : sessions' = [sessions EXCEPT ![k].holder = h]
    BY <1>5 DEF WriteFrames, ReadFrames, Drain, DeviceEnds, Occupies
  <2> QED BY <1>1, <2>1, HolderShrinks
<1> QED BY <1>3, <1>4, <1>5

LEMMA RemoveShrinks ==
  ASSUME Invariants, NEW c \in Clients, Remove(c)
  PROVE  Shrinks
<1>1. sessions' = sessions
  BY DEF Remove
<1>2. CASE table' = table
  BY <1>1, <1>2, StillShrinks
<1>3. CASE table' # table
  <2>1. PICK kind, i : table' = [table EXCEPT ![kind][i] = None]
    BY <1>3 DEF Remove
  <2>2. table \in [Kind -> [SessionId -> Nat]]
    BY DEF Invariants, AudioInv, AudioTypes
  <2>3. \A o \in Kind, n \in SessionId : table'[o][n] = table[o][n] \/ table'[o][n] = None
    <3> SUFFICES ASSUME NEW o \in Kind, NEW n \in SessionId
                 PROVE  table'[o][n] = table[o][n] \/ table'[o][n] = None
      OBVIOUS
    <3>1. table' = [table EXCEPT ![kind] = [table[kind] EXCEPT ![i] = None]]
      BY <2>1
    <3>2. table[o] \in [SessionId -> Nat]
      BY <2>2
    <3>3. CASE o = kind
      <4>1. table'[o] = [table[o] EXCEPT ![i] = None]
        BY <2>2, <3>1, <3>3
      <4> QED BY <3>2, <4>1
    <3>4. CASE o # kind
      BY <2>2, <3>1, <3>4
    <3> QED BY <3>3, <3>4
  <2>4. \A k : Tabled(k)' => k = None \/ Tabled(k)
    BY <2>3 DEF Tabled
  <2> QED BY <1>1, <2>4 DEF Shrinks
<1> QED BY <1>2, <1>3

(* The log sessions at the end of a call, and within one.                  *)
LEMMA EndsLogs ==
  ASSUME Invariants, CallInv, LogsInv, NEW c \in Clients, job[c].at # "idle",
         FailsAt(c) \/ SucceedsAt(c),
         logs' \in [SessionId -> LogType],
         \A d \in Clients, i \in SessionId : logs'[i].by = d =>
           /\ logs'[i].open
           /\ \/ logs[i].by = d
              \/ d = c /\ i = tool[c].id /\ tool[c].kind = "log" /\ tool'[c].at # "over",
         tool[c].at = "close" => \A i \in SessionId : logs'[i].by # c
  PROVE  LogsInv'
<1>1. /\ Others(c) /\ EndsAs(tool[c], tool'[c])
      /\ tool'[c].at = "over" /\ ~tool'[c].stuck =>
           tool[c].kind = "control" \/ tool[c].at \in {"create", "close"}
  BY EndsAt
<1>2. Active(tool[c])
  BY AtWork DEF Invariants
<1> SUFFICES ASSUME NEW d \in Clients, NEW i \in SessionId, logs'[i].by = d
             PROVE  /\ logs'[i].open
                    /\ tool'[d].kind = "log"
                    /\ tool'[d].at \notin {"idle", "create"}
                    /\ tool'[d].at = "over" => tool'[d].stuck
                    /\ Active(tool'[d]) => tool'[d].id = i
  BY DEF LogsInv
<1>3. CASE d = c
  <2>1. tool[c].kind = "log" /\ tool[c].id = i /\ tool[c].at # "close"
    BY <1>2, <1>3 DEF LogsInv
  <2>2. tool'[c].at = "over" => tool'[c].stuck
    BY <1>1, <1>3, <2>1 DEF LogsInv
  <2> QED BY <1>1, <1>3, <2>1, <2>2 DEF EndsAs, Active
<1>4. CASE d # c
  <2>1. tool'[d] = tool[d] /\ logs[i].by = d
    BY <1>1, <1>4 DEF Others
  <2> QED BY <2>1 DEF LogsInv
<1> QED BY <1>3, <1>4

LEMMA MovesLogs ==
  ASSUME LogsInv, NEW c \in Clients, MovesAt(c), UNCHANGED logs
  PROVE  LogsInv'
BY DEF LogsInv, MovesAt, Active

(* All of it, at a step of a worker that serves no log call.               *)
LeavesInv == CallInv /\ OwnInv /\ LogsInv

LEMMA StepsOwn ==
  ASSUME Invariants, Invariants', LeavesInv, NEW c \in Clients,
         job[c].at \notin {"idle", "log"}, UNCHANGED logs, Shrinks,
         FailsAt(c) \/ SucceedsAt(c) \/ MovesAt(c)
  PROVE  LeavesInv'
<1>1. tool[c].kind # "log"
  <2>1. Serving(job[c], tool[c]) /\ JobOK(job[c], tool[c])
    BY AtWork DEF Invariants, ClientsInv
  <2> QED BY <2>1 DEF Serving, JobOK
<1>2. LogsInv'
  <2>1. CASE FailsAt(c) \/ SucceedsAt(c)
    BY <1>1, <2>1, EndsLogs DEF LeavesInv, LogsInv
  <2>2. CASE MovesAt(c)
    BY <2>2, MovesLogs DEF LeavesInv
  <2> QED BY <2>1, <2>2
<1>3. CallInv' /\ OwnInv'
  BY EndsOwn, MovesOwn DEF LeavesInv
<1> QED BY <1>2, <1>3 DEF LeavesInv

LEMMA OpenLeaves ==
  ASSUME Invariants, Invariants', LeavesInv, NEW c \in Clients, Open(c)
  PROVE  LeavesInv'
<1>1. job[c].at = "open" /\ table' = table /\ UNCHANGED logs
  BY DEF Open
<1>2. CASE Fails(c) /\ sessions' = sessions
  <2>1. FailsAt(c) /\ Shrinks
    BY <1>1, <1>2, StillShrinks DEF FailsAt
  <2> QED BY <1>1, <2>1, StepsOwn
<1>3. CASE ~(Fails(c) /\ sessions' = sessions)
  <2>1. PICK s : sessions' = Append(sessions, s) /\ tool' = tool
                 /\ job' = [job EXCEPT ![c].at = "insert", ![c].session = Len(sessions')]
    BY <1>3 DEF Open
  <2>2. sessions \in Seq(SessionType)
    BY DEF Invariants, AudioInv, AudioTypes
  <2>3. sessions' \in Seq(SessionType)
    BY DEF Invariants, AudioInv, AudioTypes
  <2>4. PICK k : k = Len(sessions) + 1
    OBVIOUS
  <2>5. /\ Len(sessions') = k /\ DOMAIN sessions \subseteq DOMAIN sessions'
        /\ k \notin DOMAIN sessions /\ k # None
        /\ \A h \in DOMAIN sessions : sessions'[h] = sessions[h]
    BY <2>1, <2>2, <2>4, AppendProperties, LenProperties DEF None
  <2>6. job \in [Clients -> JobType]
    BY DEF Invariants, ClientsInv
  <2> DEFINE j == [job[c] EXCEPT !.at = "insert", !.session = k]
  <2>7. job'[c] = j /\ \A d \in Clients \ {c} : job'[d] = job[d]
    BY <2>1, <2>5, <2>6
  <2>8. j.call = job[c].call /\ j.kind = job[c].kind /\ j.at = "insert" /\ j.session = k
    BY <2>6 DEF JobType
  <2> HIDE DEF j
  <2>9. CallInv'
    <3>1. job[c].call # "close" /\ (tool[c].cleanup => tool[c].at \in {"stop", "close"})
      BY <1>1 DEF LeavesInv, CallInv
    <3>2. job'[c].call # "close" /\ job'[c].at = "insert"
      BY <2>7, <2>8, <3>1
    <3> QED BY <2>1, <2>7, <3>1, <3>2 DEF LeavesInv, CallInv
  <2>10. \A d \in Clients : tool[d].session # k
    BY <2>5 DEF LeavesInv, OwnInv, OwnOf
  <2>11. OwnInv'
    <3> SUFFICES ASSUME NEW d \in Clients PROVE OwnOf(d)'
      BY DEF OwnInv
    <3>1. OwnOf(d)
      BY DEF LeavesInv, OwnInv
    <3>2. tool[d].session # None => /\ tool[d].session \in DOMAIN sessions'
                                    /\ tool[d].kind \in Kind
                                    /\ Active(tool[d]) =>
                                         sessions'[tool[d].session].id = tool[d].id
      BY <2>5, <3>1 DEF OwnOf
    <3>3. CASE d = c
      <4>1. Active(tool[c]) /\ tool[c].session = None
        BY <1>1, AtWork DEF Invariants, LeavesInv, OwnInv, OwnOf
      <4> QED BY <2>1, <2>7, <2>8, <2>10, <3>2, <3>3, <4>1 DEF OwnOf, Active
    <3>4. CASE d # c
      BY <1>1, <2>1, <2>7, <3>1, <3>2, <3>4 DEF OwnOf, Tabled
    <3> QED BY <3>3, <3>4
  <2>12. LogsInv'
    BY <1>1, <2>1 DEF LeavesInv, LogsInv
  <2> QED BY <2>9, <2>11, <2>12 DEF LeavesInv
<1> QED BY <1>2, <1>3

LEMMA InsertLeaves ==
  ASSUME Invariants, Invariants', LeavesInv, NEW c \in Clients, Insert(c)
  PROVE  LeavesInv'
<1>1. job[c].at = "insert" /\ UNCHANGED logs
  BY DEF Insert
<1>2. CASE HasSession(job[c].id)
  <2>1. Fails(c) /\ table' = table /\ Shut(job[c].session)
    BY <1>2 DEF Insert
  <2>2. FailsAt(c) /\ Shrinks
    BY <1>1, <2>1, ShutShrinks DEF FailsAt
  <2> QED BY <1>1, <2>2, StepsOwn
<1>3. CASE ~HasSession(job[c].id)
  <2>1. PICK k, i, kind : k = job[c].session /\ i = job[c].id /\ kind = job[c].kind
    OBVIOUS
  <2>2. /\ table' = [table EXCEPT ![kind][i] = k]
        /\ tool' = [tool EXCEPT ![c].session = k]
        /\ Goes(c, "get") /\ sessions' = sessions
    BY <1>3, <2>1 DEF Insert
  <2>3. /\ job \in [Clients -> JobType] /\ tool \in [Clients -> ToolType]
        /\ kind \in Kind /\ Active(tool[c]) /\ tool[c].kind = kind /\ tool[c].id = i
    BY <1>1, <2>1, AtWork DEF Invariants, ClientsInv, JobOK, Serving
  <2>4. k # None /\ k \in DOMAIN sessions /\ sessions[k].id = i
    BY <1>1, <2>1, AtDevice, OwnSession
  <2>5. \A d \in Clients : tool[d].session # k
    BY <1>1, <2>1 DEF LeavesInv, OwnInv, OwnOf
  <2>6. \A d \in Clients \ {c} : job[d].session # k
    BY <1>1, <2>1 DEF Invariants, AudioInv, FreshInv
  <2>7. \A h : Tabled(h)' => h = k \/ Tabled(h)
    <3>1. \A o \in Kind, n \in SessionId : table'[o][n] = table[o][n] \/ table'[o][n] = k
      <4> SUFFICES ASSUME NEW o \in Kind, NEW n \in SessionId
                   PROVE  table'[o][n] = table[o][n] \/ table'[o][n] = k
        OBVIOUS
      <4>1. table' = [table EXCEPT ![kind] = [table[kind] EXCEPT ![i] = k]]
        BY <2>2
      <4>2. table \in [Kind -> [SessionId -> Nat]] /\ table[o] \in [SessionId -> Nat]
        BY DEF Invariants, AudioInv, AudioTypes
      <4>3. CASE o = kind
        <5>1. table'[o] = [table[o] EXCEPT ![i] = k]
          BY <4>1, <4>2, <4>3
        <5> QED BY <4>2, <5>1
      <4>4. CASE o # kind
        BY <4>1, <4>2, <4>4
      <4> QED BY <4>3, <4>4
    <3> QED BY <3>1 DEF Tabled
  <2> DEFINE j == [job[c] EXCEPT !.at = "get"]
             u == [tool[c] EXCEPT !.session = k]
  <2>8. /\ job'[c] = j /\ tool'[c] = u
        /\ \A d \in Clients \ {c} : job'[d] = job[d] /\ tool'[d] = tool[d]
    BY <2>2, <2>3 DEF Goes
  <2>9. /\ j.call = job[c].call /\ j.kind = job[c].kind /\ j.at = "get"
        /\ u.at = tool[c].at /\ u.kind = tool[c].kind /\ u.id = tool[c].id /\ u.session = k
        /\ u.cleanup = tool[c].cleanup /\ u.stuck = tool[c].stuck
    BY <2>3 DEF JobType, ToolType
  <2> HIDE DEF j, u
  <2>10. CallInv'
    <3>1. /\ job[c].call # "close"
          /\ tool[c].cleanup => tool[c].at \in {"stop", "close"}
      BY <1>1 DEF LeavesInv, CallInv
    <3>2. /\ job'[c].call # "close" /\ job'[c].at = "get"
          /\ tool'[c].cleanup => tool'[c].at \in {"stop", "close"}
      BY <2>8, <2>9, <3>1
    <3> QED BY <2>8, <3>2 DEF LeavesInv, CallInv
  <2>11. OwnInv'
    <3> SUFFICES ASSUME NEW d \in Clients PROVE OwnOf(d)'
      BY DEF OwnInv
    <3>1. CASE d = c
      <4>1. u.at # "over"
        BY <2>3, <2>9 DEF Active
      <4> QED BY <2>2, <2>3, <2>4, <2>8, <2>9, <3>1, <4>1 DEF OwnOf, Active
    <3>2. CASE d # c
      <4>1. OwnOf(d) /\ tool'[d] = tool[d] /\ job'[d] = job[d]
        BY <2>8, <3>2 DEF LeavesInv, OwnInv
      <4>2. PICK h : h = tool[d].session
        OBVIOUS
      <4>3. h # k /\ (Tabled(h)' => Tabled(h))
        BY <2>5, <2>7, <4>2
      <4>4. ~Tabled(h) => ~(\E o \in Kind, n \in SessionId : table'[o][n] = tool'[d].session)
        BY <4>1, <4>2, <4>3 DEF Tabled
      <4>5. job[d].at = "insert" => \A e \in Clients : tool'[e].session # job[d].session
        BY <2>6, <2>8, <2>9, <3>2, <4>1 DEF OwnOf
      <4> QED BY <2>2, <4>1, <4>2, <4>4, <4>5 DEF OwnOf, Tabled
    <3> QED BY <3>1, <3>2
  <2>12. LogsInv'
    BY <1>1, <2>8, <2>9 DEF LeavesInv, LogsInv, Active
  <2> QED BY <2>10, <2>11, <2>12 DEF LeavesInv
<1> QED BY <1>2, <1>3

LEMMA StartsLeave ==
  ASSUME Invariants, LeavesInv, NEW c \in Clients, NEW t, Starts(c, t), ToolOK(t),
         t.at \notin {"idle", "over"}, t.session = None, ~t.cleanup
  PROVE  LeavesInv'
<1>1. /\ Others(c) /\ tool'[c] = t /\ job'[c] = JobOf(t)
  BY SendsOK DEF Invariants, ClientsInv, Starts, Sends
<1>2. /\ JobOf(t).call = "create" => JobOf(t).at \in {"look", "log"}
      /\ JobOf(t).call = "close" => JobOf(t).at \in {"remove", "log"}
      /\ JobOf(t).at = "log" => JobOf(t).kind = "log"
      /\ JobOf(t).at \notin {"insert", "close", "release"}
  BY NewJob
<1>3. UNCHANGED <<table, sessions>>
  BY DEF Starts, audio
<1>4. CallInv'
  BY <1>1, <1>2 DEF LeavesInv, CallInv, Others
<1>5. OwnInv'
  <2> SUFFICES ASSUME NEW d \in Clients PROVE OwnOf(d)'
    BY DEF OwnInv
  <2>1. CASE d = c
    BY <1>1, <1>2, <2>1 DEF OwnOf
  <2>2. CASE d # c
    <3>1. OwnOf(d) /\ tool'[d] = tool[d] /\ job'[d] = job[d]
      BY <1>1, <2>2 DEF Others, LeavesInv, OwnInv
    <3>2. job[d].at = "insert" => \A e \in Clients : tool'[e].session # job[d].session
      BY <1>1, <3>1, AtDevice DEF Others, OwnOf
    <3> QED BY <1>3, <3>1, <3>2 DEF OwnOf, Tabled
  <2> QED BY <2>1, <2>2
<1>6. LogsInv'
  <2>1. logs \in [SessionId -> LogType]
    BY DEF LeavesInv, LogsInv
  <2>2. logs' = [i \in SessionId |-> [logs[i] EXCEPT !.by = IF @ = c THEN Nobody ELSE @]]
    BY DEF Starts
  <2>3. \A i \in SessionId : /\ logs'[i] \in LogType
                             /\ logs'[i].open = logs[i].open
                             /\ logs'[i].by = IF logs[i].by = c THEN Nobody ELSE logs[i].by
    <3> SUFFICES ASSUME NEW i \in SessionId
                 PROVE  /\ logs'[i] \in LogType
                        /\ logs'[i].open = logs[i].open
                        /\ logs'[i].by = IF logs[i].by = c THEN Nobody ELSE logs[i].by
      OBVIOUS
    <3> DEFINE b == IF logs[i].by = c THEN Nobody ELSE logs[i].by
    <3>1. logs'[i] = [logs[i] EXCEPT !.by = b]
      BY <2>2
    <3>2. logs[i] \in LogType
      BY <2>1
    <3>3. b \in Clients \cup {Nobody}
      BY <3>2 DEF LogType
    <3> HIDE DEF b
    <3>4. logs'[i] \in LogType /\ logs'[i].open = logs[i].open /\ logs'[i].by = b
      BY <3>1, <3>2, <3>3 DEF LogType
    <3> QED BY <3>4 DEF b
  <2>4. logs' \in [SessionId -> LogType]
    BY <2>2, <2>3
  <2>5. \A d \in Clients, i \in SessionId : logs'[i].by = d =>
          d # c /\ logs[i].by = d /\ logs'[i].open = logs[i].open
    BY <2>3, RpcAssumption
  <2> QED BY <1>1, <2>4, <2>5 DEF LeavesInv, LogsInv, Others
<1> QED BY <1>4, <1>5, <1>6 DEF LeavesInv

LEMMA StartToolsLeave ==
  ASSUME Invariants, LeavesInv, NEW c \in Clients, StartStream(c) \/ StartTool(c)
  PROVE  LeavesInv'
<1>1. PICK at \in Method \cup {"create"}, kind \in Kind \cup {"log", "control"}, i \in SessionId :
        /\ Starts(c, [NoTool EXCEPT !.at = at, !.kind = kind, !.id = i])
        /\ at = "create" <=> kind # "control"
  <2>1. CASE StartStream(c)
    <3>1. PICK kind \in Kind, id \in Given \cup {NoId} :
            Starts(c, [NoTool EXCEPT !.at = "create", !.kind = kind,
                                     !.id = IF id = NoId THEN <<kind, counter>> ELSE id])
      BY <2>1 DEF StartStream
    <3>2. counter \in Nat \ {0} /\ counter <= MaxNumber
      BY <2>1 DEF StartStream, Invariants, NumbersInv
    <3>3. counter \in Number
      BY <3>2 DEF Number
    <3>4. PICK i : i = IF id = NoId THEN <<kind, counter>> ELSE id
      OBVIOUS
    <3>5. i \in SessionId /\ kind \in Kind \cup {"log", "control"} /\ kind # "control"
      BY <3>3, <3>4 DEF SessionId, Kind
    <3>6. Starts(c, [NoTool EXCEPT !.at = "create", !.kind = kind, !.id = i])
      BY <3>1, <3>4
    <3> QED BY <3>5, <3>6
  <2>2. CASE StartTool(c)
    <3>1. PICK at \in Method \cup {"create"}, kind \in {"log", "control"}, id \in Given :
            /\ Starts(c, [NoTool EXCEPT !.at = at, !.kind = kind, !.id = id])
            /\ at = "create" <=> kind # "control"
      BY <2>2 DEF StartTool, Method
    <3> QED BY <3>1 DEF SessionId
  <2> QED BY <2>1, <2>2
<1> DEFINE t == [NoTool EXCEPT !.at = at, !.kind = kind, !.id = i]
<1>2. NoTool \in ToolType
  BY DEF NoTool, ToolType, ToolKind, AnyId, AnyNumber, None
<1>3. /\ t \in ToolType /\ t.at = at /\ t.kind = kind /\ t.id = i
  BY <1>1, <1>2 DEF ToolType, CallName, ToolKind, AnyId, Method
<1>4. t.session = None /\ ~t.cleanup
  BY DEF NoTool
<1>5. ToolOK(t) /\ t.at \notin {"idle", "over"}
  BY <1>1, <1>3 DEF ToolOK, Kind, Method
<1>6. Starts(c, t)
  BY <1>1
<1> HIDE DEF t
<1> QED BY <1>4, <1>5, <1>6, StartsLeave

-----------------------------------------------------------------------------
(* The calls of as_log.                                                    *)

LEMMA LogCallsAt ==
  ASSUME Invariants, LeavesInv, NEW c \in Clients, NEW call, LogCall(c, call)
  PROVE  /\ Active(tool[c]) /\ ToolOK(tool[c]) /\ tool[c].kind = "log" /\ tool[c].at = call
         /\ job[c].id = tool[c].id /\ job[c].id \in SessionId
         /\ Fails(c) => FailsAt(c)
         /\ Succeeds(c) => SucceedsAt(c)
<1>1. job[c].at = "log" /\ job[c].call = call
  BY DEF LogCall
<1>2. Active(tool[c]) /\ Serving(job[c], tool[c]) /\ job[c].id \in SessionId
  BY <1>1, AtWork DEF Invariants
<1>3. job[c].kind = "log" /\ ToolOK(tool[c])
  BY <1>1 DEF LeavesInv, CallInv, Invariants, ClientsInv
<1> QED BY <1>1, <1>2, <1>3 DEF Serving, FailsAt, SucceedsAt

(* What is left when a log call has ended.                                 *)
LEMMA LogCallLeaves ==
  ASSUME Invariants, Invariants', LeavesInv, NEW c \in Clients, NEW call, LogCall(c, call),
         Fails(c) \/ Succeeds(c), UNCHANGED <<table, sessions>>,
         logs' \in [SessionId -> LogType],
         \A d \in Clients, i \in SessionId : logs'[i].by = d =>
           /\ logs'[i].open
           /\ \/ logs[i].by = d
              \/ d = c /\ i = job[c].id /\ tool'[c].at # "over",
         call = "close" => \A i \in SessionId : logs'[i].by # c
  PROVE  LeavesInv'
<1>1. /\ FailsAt(c) \/ SucceedsAt(c)
      /\ tool[c].kind = "log" /\ tool[c].at = call /\ job[c].id = tool[c].id
  BY LogCallsAt
<1>2. Shrinks /\ job[c].at # "idle"
  BY StillShrinks DEF LogCall
<1>3. LogsInv'
  BY <1>1, <1>2, EndsLogs DEF LeavesInv
<1> QED BY <1>1, <1>2, <1>3, EndsOwn DEF LeavesInv

LEMMA LogsLeave ==
  ASSUME Invariants, Invariants', LeavesInv, NEW c \in Clients,
         LogCreate(c) \/ LogStart(c) \/ LogRead(c) \/ LogStop(c) \/ LogClose(c)
  PROVE  LeavesInv'
<1>1. /\ logs \in [SessionId -> LogType]
      /\ \A d \in Clients, i \in SessionId : logs[i].by = d =>
           logs[i].open /\ (Active(tool[d]) => tool[d].id = i)
  BY DEF LeavesInv, LogsInv
<1>2. UNCHANGED <<table, sessions>>
  BY DEF LogCreate, LogStart, LogStop, LogSwitch, LogRead, LogClose, Unknown, audio
<1>a. NoLog \in LogType /\ NoLog.by = Nobody
  BY DEF NoLog, LogType
<1>3. ASSUME NEW call, LogCall(c, call), Unknown(c) PROVE LeavesInv'
  <2>1. UNCHANGED logs /\ Fails(c) /\ ~logs[job[c].id].open
    BY <1>3 DEF Unknown
  <2>2. Active(tool[c]) /\ job[c].id = tool[c].id
    BY <1>3, LogCallsAt
  <2>3. \A i \in SessionId : logs[i].by # c
    BY <1>1, <2>1, <2>2
  <2> QED BY <1>1, <1>2, <1>3, <2>1, <2>3, LogCallLeaves
<1>4. CASE LogCreate(c)
  <2>1. /\ Active(tool[c]) /\ ToolOK(tool[c]) /\ tool[c].kind = "log" /\ tool[c].at = "create"
        /\ job[c].id \in SessionId /\ LogCall(c, "create")
    BY <1>4, LogCallsAt DEF LogCreate
  <2>2. CASE UNCHANGED logs /\ Fails(c)
    BY <1>1, <1>2, <2>1, <2>2, LogCallLeaves
  <2>3. CASE ~(UNCHANGED logs /\ Fails(c))
    <3> DEFINE l == [NoLog EXCEPT !.open = TRUE, !.by = c]
    <3>1. logs' = [logs EXCEPT ![job[c].id] = l] /\ Succeeds(c)
      BY <1>4, <2>3 DEF LogCreate
    <3>2. l \in LogType /\ l.by = c /\ l.open
      BY DEF NoLog, LogType
    <3> HIDE DEF l
    <3>3. /\ logs' \in [SessionId -> LogType]
          /\ \A i \in SessionId : logs'[i] = IF i = job[c].id THEN l ELSE logs[i]
      BY <1>1, <3>1, <3>2
    <3>4. tool'[c].at = "start"
      <4>1. PICK u \in AfterSuccess(tool[c]) : Sends(c, u)
        BY <3>1 DEF Succeeds
      <4>2. AfterSuccess(tool[c]) = {[tool[c] EXCEPT !.at = "start"]}
        BY <2>1 DEF AfterSuccess, LogScript, ToolOK, ToolType
      <4>3. u.at = "start"
        BY <2>1, <4>1, <4>2 DEF ToolOK, ToolType
      <4> QED BY <4>1, <4>3 DEF Sends, Invariants, ClientsInv
    <3> QED BY <1>1, <1>2, <2>1, <3>1, <3>2, <3>3, <3>4, LogCallLeaves
  <2> QED BY <2>2, <2>3
<1>5. ASSUME NEW call \in {"start", "stop"}, NEW on \in BOOLEAN, LogSwitch(c, call, on)
      PROVE  LeavesInv'
  <2>1. LogCall(c, call) /\ job[c].id \in SessionId
    BY <1>5, LogCallsAt DEF LogSwitch
  <2>2. CASE Unknown(c)
    BY <1>3, <2>1, <2>2
  <2>3. CASE ~Unknown(c)
    <3>1. PICK r \in BOOLEAN : /\ logs' = [logs EXCEPT ![job[c].id].running = r]
                               /\ Fails(c) \/ Succeeds(c)
      <4>1. PICK ok \in BOOLEAN :
              /\ logs' = [logs EXCEPT ![job[c].id].running = IF ok THEN on ELSE @]
              /\ Fails(c) \/ Succeeds(c)
        BY <1>5, <2>3 DEF LogSwitch
      <4>2. logs[job[c].id].running \in BOOLEAN
        BY <1>1, <2>1 DEF LogType
      <4>3. CASE ok
        BY <4>1, <4>3
      <4>4. CASE ~ok
        <5>1. logs' = [logs EXCEPT ![job[c].id].running = logs[job[c].id].running]
          BY <4>1, <4>4
        <5> QED BY <4>1, <4>2, <5>1
      <4> QED BY <4>3, <4>4
    <3> DEFINE l == [logs[job[c].id] EXCEPT !.running = r]
    <3>2. logs' = [logs EXCEPT ![job[c].id] = l]
      BY <3>1
    <3>3. l \in LogType /\ l.by = logs[job[c].id].by /\ l.open = logs[job[c].id].open
      BY <1>1, <2>1 DEF LogType
    <3> HIDE DEF l
    <3>4. /\ logs' \in [SessionId -> LogType]
          /\ \A i \in SessionId : logs'[i].by = logs[i].by /\ logs'[i].open = logs[i].open
      BY <1>1, <2>1, <3>2, <3>3
    <3> QED BY <1>1, <1>2, <2>1, <3>1, <3>4, LogCallLeaves
  <2> QED BY <2>2, <2>3
<1>6. CASE LogRead(c)
  <2>1. LogCall(c, "transfer")
    BY <1>6 DEF LogRead
  <2>2. CASE Unknown(c)
    BY <1>3, <2>1, <2>2
  <2>3. CASE ~Unknown(c)
    <3>1. UNCHANGED logs /\ (Fails(c) \/ Succeeds(c))
      BY <1>6, <2>3 DEF LogRead
    <3> QED BY <1>1, <1>2, <2>1, <3>1, LogCallLeaves
  <2> QED BY <2>2, <2>3
<1>7. CASE LogClose(c)
  <2>1. LogCall(c, "close")
    BY <1>7 DEF LogClose
  <2>2. CASE Unknown(c)
    BY <1>3, <2>1, <2>2
  <2>3. CASE ~Unknown(c)
    <3>1. logs' = [logs EXCEPT ![job[c].id] = NoLog] /\ Succeeds(c)
      BY <1>7, <2>3 DEF LogClose
    <3>2. Active(tool[c]) /\ job[c].id = tool[c].id /\ job[c].id \in SessionId
      BY <2>1, LogCallsAt
    <3>3. /\ logs' \in [SessionId -> LogType]
          /\ \A i \in SessionId : logs'[i] = IF i = job[c].id THEN NoLog ELSE logs[i]
      BY <1>1, <1>a, <3>1
    <3>4. \A d \in Clients, i \in SessionId : logs'[i].by = d =>
            logs'[i].open /\ logs[i].by = d /\ d # c
      BY <1>1, <1>a, <3>2, <3>3, RpcAssumption
    <3> QED BY <1>2, <2>1, <3>1, <3>3, <3>4, LogCallLeaves
  <2> QED BY <2>2, <2>3
<1> QED BY <1>4, <1>5, <1>6, <1>7 DEF LogStart, LogStop

LEMMA ServesLeave ==
  ASSUME Invariants, Invariants', LeavesInv, NEW c \in Clients, Serves(c)
  PROVE  LeavesInv'
<1> USE DEF LeavesInv
<1>1. CASE Open(c)
  BY <1>1, OpenLeaves
<1>2. CASE Insert(c)
  BY <1>2, InsertLeaves
<1>3. CASE LogCreate(c) \/ LogStart(c) \/ LogRead(c) \/ LogStop(c) \/ LogClose(c)
  BY <1>3, LogsLeave
<1>4. CASE FindSession(c) \/ Get(c) \/ FindStats(c)
  <2>1. PICK from \in {"find", "get", "stats"}, to \in {"do", "snapshot", "read stats"} :
          /\ Finds(c, from, to)
          /\ to = "snapshot" <=> from = "get"
    BY <1>4 DEF FindSession, Get, FindStats
  <2>2. FailsAt(c) \/ MovesAt(c)
    BY <2>1, FindsMoves
  <2>3. Shrinks
    BY <2>1, StillShrinks DEF Finds, audio
  <2>4. UNCHANGED logs /\ job[c].at \notin {"idle", "log"}
    BY <2>1 DEF Finds
  <2> QED BY <2>2, <2>3, <2>4, StepsOwn
<1>5. CASE \/ Prepare(c) \/ Start(c) \/ Stop(c)
           \/ WriteFrames(c) \/ ReadFrames(c) \/ Drain(c) \/ DeviceEnds(c)
  <2>1. UNCHANGED logs /\ job[c].at \notin {"idle", "log"}
    BY <1>5 DEF Prepare, Start, Stop, WriteFrames, ReadFrames, Drain, DeviceEnds, Locks, Occupies
  <2> QED BY <1>5, <2>1, CallMoves, CallShrinks, StepsOwn
<1>6. CASE \/ Look(c) \/ Resolve(c) \/ Snapshot(c) \/ ReadStats(c) \/ GiveNumber(c)
           \/ Describe(c) \/ Collect(c) \/ List(c) \/ ListNumber(c) \/ Close(c) \/ Release(c)
  <2>1. UNCHANGED logs /\ job[c].at \notin {"idle", "log"}
    <3>1. CASE Look(c) \/ Resolve(c) \/ Snapshot(c) \/ ReadStats(c) \/ GiveNumber(c)
      BY <3>1 DEF Look, Resolve, Snapshot, ReadStats, GiveNumber, Locks
    <3>2. CASE \/ Describe(c) \/ Collect(c) \/ List(c) \/ ListNumber(c) \/ Close(c) \/ Release(c)
      BY <3>2 DEF Describe, Collect, List, ListNumber, Close, Release, Locks
    <3> QED BY <1>6, <3>1, <3>2
  <2>2. Shrinks
    <3>1. CASE Close(c)
      BY <3>1, ShutShrinks DEF Close, Locks
    <3>2. CASE ~Close(c)
      <4>1. UNCHANGED <<table, sessions>>
        BY <1>6, <3>2 DEF Look, Resolve, Snapshot, ReadStats, GiveNumber, Describe, Collect, List,
                          ListNumber, Release, audio
      <4> QED BY <4>1, StillShrinks
    <3> QED BY <3>1, <3>2
  <2> QED BY <1>6, <2>1, <2>2, ReadMoves, StepsOwn
<1>7. CASE Remove(c)
  <2>1. UNCHANGED logs /\ job[c].at \notin {"idle", "log"}
    BY <1>7 DEF Remove
  <2> QED BY <1>7, <2>1, RemoveMoves, RemoveShrinks, StepsOwn
<1> QED BY <1>1, <1>2, <1>3, <1>4, <1>5, <1>6, <1>7 DEF Serves

LEMMA NextLeaves == Invariants /\ LeavesInv /\ [Next]_vars => LeavesInv'
<1> SUFFICES ASSUME Invariants, LeavesInv, [Next]_vars PROVE LeavesInv'
  OBVIOUS
<1>1. Invariants'
  BY NextKeeps
<1>2. CASE UNCHANGED vars
  BY <1>2 DEF vars, audio, LeavesInv, CallInv, OwnInv, OwnOf, LogsInv, Tabled
<1>3. CASE Next
  BY <1>1, <1>3, StartToolsLeave, ServesLeave DEF Next
<1> QED BY <1>2, <1>3

LEMMA InitLeaves == Init => LeavesInv
<1> SUFFICES ASSUME Init PROVE LeavesInv
  OBVIOUS
<1>1. \A c \in Clients : tool[c] = NoTool /\ job[c] = NoJob
  BY DEF Init
<1>2. CallInv
  BY <1>1 DEF CallInv, NoTool, NoJob
<1>3. OwnInv
  BY <1>1 DEF OwnInv, OwnOf, NoTool, NoJob, None
<1>4. NoLog \in LogType /\ NoLog.by = Nobody
  BY DEF NoLog, LogType
<1>5. LogsInv
  BY <1>4, RpcAssumption DEF Init, LogsInv
<1> QED BY <1>2, <1>3, <1>5 DEF LeavesInv

(* A tool that has ended, and has not given up at the stop, leaves no      *)
(* session of its own in the tables and no log session, whatever failed,   *)
(* and whatever the tools of other clients did to its session (runPlayback,*)
(* runRecord, runLogTool and their handlers).                              *)
THEOREM ToolsLeaveNothing == Spec => []ToolLeavesNothing
<1>1. ASSUME Invariants, LeavesInv PROVE ToolLeavesNothing
  <2> SUFFICES ASSUME NEW c \in Clients, tool[c].at = "over", ~tool[c].stuck
               PROVE  /\ \A k \in Kind, i \in SessionId :
                           table[k][i] # None => table[k][i] # tool[c].session
                      /\ \A i \in SessionId : tool[c].kind = "log" => logs[i].by # c
    BY DEF ToolLeavesNothing
  <2>1. tool[c].session = None \/ ~Tabled(tool[c].session)
    BY <1>1 DEF LeavesInv, OwnInv, OwnOf
  <2>2. \A i \in SessionId : logs[i].by # c
    BY <1>1 DEF LeavesInv, LogsInv
  <2> QED BY <2>1, <2>2 DEF Tabled
<1>2. Spec => [](Invariants /\ LeavesInv)
  BY InitHolds, NextKeeps, InitLeaves, NextLeaves, PTL DEF Spec
<1> QED BY <1>1, <1>2, PTL
=============================================================================
