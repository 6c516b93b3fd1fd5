------------------------------ MODULE LogService ------------------------------
(***************************************************************************)
(* The log of the controller as the host reads it: LogService, the log     *)
(* device over the controller's log channel (simulator_log_device.cpp,     *)
(* ac_log.c), and the pump thread of SystemInfoService.                    *)
(*                                                                         *)
(* Every call of LogService is one step under its mutex, except that       *)
(* readEntries is a step for each chunk and for each line, or for each     *)
(* entry it mirrors: it holds the mutex meanwhile, so that no other call   *)
(* comes in between.                                                       *)
(*                                                                         *)
(* The controller's text is cut into parts 1, 2, 3, ...: line n is part    *)
(* 2n - 1 and then part 2n, which ends with the newline.  How much of it   *)
(* the controller has written by the time of a log read is left open.      *)
(***************************************************************************)
EXTENDS Integers, Sequences, FiniteSets, Functions

CONSTANTS
  Clients,       (* log sessions of clients; a closed one may come again   *)
  Pump,          (* the pump's session, and Nobody no session              *)
  Nobody,
  MaxLines,      (* lines the controller writes                            *)
  Records,       (* those that the entry interceptor takes (ASINFO|)       *)
  Minor,         (* those that do not pass the level of a strict session   *)
  ChunkSize,     (* parts in one chunk (AC_LOG_TRANSPORT_READ_CHUNK)       *)
  ReadMax,       (* max_entries of a read                                  *)
  MaxStored,     (* kMaxStoredEntries                                      *)
  MaxFailures,   (* round trips on the log channel that fail               *)
  SecondStarts   (* TRUE: clients also start sessions that run             *)

Line == 1 .. MaxLines
Part == 1 .. 2 * MaxLines
Session == Clients \cup {Pump}

ASSUME LogServiceAssumption ==
  /\ Pump \notin Clients /\ Nobody \notin Session
  /\ MaxLines \in Nat /\ MaxFailures \in Nat
  /\ Records \subseteq Line /\ Minor \subseteq Line
  /\ ChunkSize \in Nat \ {0} /\ ReadMax \in Nat \ {0} /\ MaxStored \in Nat \ {0}
  /\ SecondStarts \in BOOLEAN

VARIABLES
  heard,     (* parts of the text that log reads have taken                *)
  started,   (* the controller's log source runs                           *)
  failures,  (* round trips that have failed                               *)
  channel,   (* the host's log channel is open                             *)
  session,   (* sessions_                                                  *)
  returned,  (* history: the sequence ids of the entries a session has read*)
  device,    (* the SimulatorLogDevice of each session                     *)
  store,     (* entries_                                                   *)
  sequence,  (* next_sequence_                                             *)
  reading,   (* the readEntries under way                                  *)
  pump,      (* where the pump thread is                                   *)
  stopping   (* pump_stop_requested_                                       *)

controller == <<heard, started, failures>>
log == <<session, returned, device, channel, store, sequence, reading>>
vars == <<controller, log, pump, stopping>>

NoDevice == [manager |-> FALSE, ready |-> FALSE, running |-> FALSE]

Absent == [exists |-> FALSE, mirror |-> FALSE, strict |-> FALSE,
           running |-> FALSE, cursor |-> 0, pending |-> <<>>]

NotReading == [by |-> Nobody, at |-> "none", got |-> 0]

Init ==
  /\ heard = 0
  /\ started = FALSE
  /\ failures = 0
  /\ channel = FALSE
  /\ session = [s \in Session |-> Absent]
  /\ returned = [s \in Session |-> <<>>]
  /\ device = [s \in Session |-> NoDevice]
  /\ store = <<>>
  /\ sequence = 1
  /\ reading = NotReading
  /\ pump = [at |-> "decide", active |-> FALSE, last |-> FALSE]
  /\ stopping = FALSE

Unlocked == reading = NotReading

-----------------------------------------------------------------------------
(* Round trips on the log channel that fail.                               *)

Fails ==
  /\ failures < MaxFailures
  /\ failures' = failures + 1

-----------------------------------------------------------------------------
(* Sessions.  Pump and clients call the operators; the actions are below.  *)

(* A session that does not ask for raw chunks mirrors what the pump reads. *)
Mirrors(s, raw) == s # Pump /\ ~raw /\ session[Pump].running

CreateSession(s, raw, strict) ==
  /\ Unlocked
  /\ ~session[s].exists
  /\ session' = [session EXCEPT ![s] = [Absent EXCEPT !.exists = TRUE,
                                                      !.mirror = Mirrors(s, raw),
                                                      !.strict = strict]]
  /\ returned' = [returned EXCEPT ![s] = <<>>]
  /\ UNCHANGED <<controller, device, channel, store, sequence, reading>>

(* Faulty variant: the channel stays open when LOG_OPEN fails.             *)
DeviceStartKeepsChannel(s, ok) ==
  \/ /\ ok
     /\ ~channel
     /\ device' = [device EXCEPT ![s] = [manager |-> TRUE, ready |-> TRUE,
                                         running |-> TRUE]]
     /\ channel' = TRUE
     /\ started' = TRUE
     /\ UNCHANGED failures
  \/ /\ ~ok
     /\ device' = [device EXCEPT ![s].manager = FALSE]
     /\ channel' = TRUE
     /\ Fails
     /\ UNCHANGED started

(* SimulatorLogDevice::start: the channel may be open already, and the     *)
(* round trip of LOG_OPEN may fail, with or without effect.                *)
DeviceStart(s, ok) ==
  \/ /\ ok
     /\ ~channel
     /\ device' = [device EXCEPT ![s] = [manager |-> TRUE, ready |-> TRUE,
                                         running |-> TRUE]]
     /\ channel' = TRUE
     /\ started' = TRUE
     /\ UNCHANGED failures
  \/ /\ ~ok
     /\ channel
     /\ device' = [device EXCEPT ![s].manager = FALSE]
     /\ UNCHANGED <<channel, started, failures>>
  \/ /\ ~ok
     /\ ~channel
     /\ device' = [device EXCEPT ![s].manager = FALSE]
     /\ started' \in {started, TRUE}
     /\ Fails
     /\ UNCHANGED channel

(* Faulty variant: a mirror starts from the first entry again.             *)
StartSessionFromFirst(s, ok) ==
  /\ Unlocked
  /\ session[s].exists
  /\ IF session[s].mirror
     THEN ok /\ UNCHANGED <<device, channel, started, failures>>
     ELSE DeviceStart(s, ok)
  /\ session' = IF ok THEN [session EXCEPT ![s].running = TRUE, ![s].cursor = 0]
                      ELSE session
  /\ UNCHANGED <<heard, returned, store, sequence, reading>>

StartSession(s, ok) ==
  /\ Unlocked
  /\ session[s].exists
  /\ IF session[s].mirror
     THEN ok /\ UNCHANGED <<device, channel, started, failures>>
     ELSE DeviceStart(s, ok)
  /\ session' = IF ok THEN [session EXCEPT ![s].running = TRUE] ELSE session
  /\ UNCHANGED <<heard, returned, store, sequence, reading>>

(* SimulatorLogDevice::stop: whatever comes of the round trip of LOG_CLOSE.*)
DeviceStop(s) ==
  /\ channel' = (channel /\ ~device[s].manager)
  /\ started' \in IF device[s].manager /\ device[s].ready THEN {started, FALSE}
                                                         ELSE {started}

StopSession(s) ==
  /\ Unlocked
  /\ session[s].exists
  /\ IF session[s].mirror
     THEN UNCHANGED <<device, channel, started>>
     ELSE DeviceStop(s) /\ device' = [device EXCEPT ![s] = NoDevice]
  /\ session' = [session EXCEPT ![s].running = FALSE]
  /\ UNCHANGED <<heard, failures, returned, store, sequence, reading>>

(* Only a device that runs is stopped when it is closed.                   *)
CloseSession(s) ==
  /\ Unlocked
  /\ session[s].exists
  /\ IF device[s].running THEN DeviceStop(s) ELSE UNCHANGED <<channel, started>>
  /\ device' = [device EXCEPT ![s] = NoDevice]
  /\ session' = [session EXCEPT ![s] = Absent]
  /\ returned' = [returned EXCEPT ![s] = <<>>]
  /\ UNCHANGED <<heard, failures, store, sequence, reading>>

-----------------------------------------------------------------------------
(* Entries.                                                                *)

LineOf(part) == (part + 1) \div 2
BeginsLine(part) == part % 2 = 1

(* The text from the prefix ASINFO| on is a record, wherever it stands.    *)
Intercepted(text) == \E p \in Range(text) : BeginsLine(p) /\ LineOf(p) \in Records

(* The level stands at the front of the text; without one it is "info".    *)
Passes(text, strict) ==
  strict => ~(BeginsLine(Head(text)) /\ LineOf(Head(text)) \in Minor)

AppendEntry(entry) ==
  store' = IF Len(store) = MaxStored THEN Tail(Append(store, entry))
                                     ELSE Append(store, entry)

(* The text becomes an entry of session s, or is taken or filtered out.    *)
Decode(s, text, left) ==
  /\ sequence' = sequence + 1
  /\ session' = [session EXCEPT ![s].pending = left]
  /\ IF Passes(text, session[s].strict) /\ ~Intercepted(text)
     THEN /\ AppendEntry([sequence |-> sequence, text |-> text])
          /\ returned' = [returned EXCEPT ![s] = Append(@, sequence)]
     ELSE UNCHANGED <<store, returned>>

Returned(text, s) ==
  IF Passes(text, session[s].strict) /\ ~Intercepted(text) THEN 1 ELSE 0

-----------------------------------------------------------------------------
(* readEntries.                                                            *)

BeginRead(s) ==
  /\ Unlocked
  /\ session[s].exists
  /\ session[s].mirror => session[s].running
  /\ reading' = [by |-> s, at |-> IF session[s].mirror THEN "mirror" ELSE "chunk",
                 got |-> 0]
  /\ UNCHANGED <<controller, session, returned, device, channel, store, sequence>>

(* readEntries returns; the pump closes its session after an error.        *)
Return(ok) ==
  /\ reading' = NotReading
  /\ pump' = IF reading.by = Pump
             THEN [pump EXCEPT !.at = IF ok THEN "decide" ELSE "close"]
             ELSE pump

Usable(s) == session[s].running /\ device[s].running
               /\ device[s].ready /\ device[s].manager

(* The parts that a log read may take: a source that does not run has none.*)
Taken == {n \in 1 .. ChunkSize : started /\ heard + n <= 2 * MaxLines}

ReadText == \E n \in Taken :
  /\ reading.at = "chunk"
  /\ Usable(reading.by)
  /\ heard' = heard + n
  /\ session' = [session EXCEPT
                   ![reading.by].pending = @ \o [i \in 1 .. n |-> heard + i]]
  /\ reading' = [reading EXCEPT !.at = "parse"]
  /\ UNCHANGED <<started, failures, returned, device, channel, store, sequence,
                 pump, stopping>>

(* The controller has written no more so far.                              *)
ReadNothing ==
  /\ reading.at = "chunk"
  /\ Usable(reading.by)
  /\ Return(TRUE)
  /\ UNCHANGED <<controller, session, returned, device, channel, store,
                 sequence, stopping>>

(* A round trip that times out counts as an empty chunk.                   *)
ReadLost == \E n \in Taken \cup {0} :
  /\ reading.at = "chunk"
  /\ Usable(reading.by)
  /\ heard' = heard + n
  /\ Fails
  /\ Return(TRUE)
  /\ UNCHANGED <<started, session, returned, device, channel, store, sequence,
                 stopping>>

(* After an error the pending text makes an entry, however many lines it   *)
(* has.                                                                    *)
ReadError ==
  /\ reading.at = "chunk"
  /\ IF Usable(reading.by) THEN Fails ELSE UNCHANGED failures
  /\ LET text == session[reading.by].pending
     IN IF text # <<>>
        THEN Decode(reading.by, text, <<>>) /\ Return(TRUE)
        ELSE Return(reading.got > 0)
               /\ UNCHANGED <<session, returned, store, sequence>>
  /\ UNCHANGED <<heard, started, device, channel, stopping>>

LineEnds(text) == {i \in DOMAIN text : ~BeginsLine(text[i])}

(* parseTextLines: the first line of the pending text.                     *)
ParseLine ==
  /\ reading.at = "parse"
  /\ reading.got < ReadMax
  /\ \E end \in LineEnds(session[reading.by].pending) :
       LET text == session[reading.by].pending
           line == SubSeq(text, 1, end)
       IN /\ \A i \in LineEnds(text) : end <= i
          /\ Decode(reading.by, line, SubSeq(text, end + 1, Len(text)))
          /\ reading' = [reading EXCEPT !.got = @ + Returned(line, reading.by)]
  /\ UNCHANGED <<controller, device, channel, pump, stopping>>

(* No newline is left, or max_entries is reached.                          *)
ParseDone ==
  /\ reading.at = "parse"
  /\ \/ /\ reading.got = ReadMax
        /\ Return(TRUE)
     \/ /\ reading.got < ReadMax
        /\ LineEnds(session[reading.by].pending) = {}
        /\ reading' = [reading EXCEPT !.at = "chunk"]
        /\ UNCHANGED pump
  /\ UNCHANGED <<controller, session, returned, device, channel, store,
                 sequence, stopping>>

(* readMirrorEntriesLocked: the next entry of the store, if it passes.     *)
MirrorEntry ==
  /\ reading.at = "mirror"
  /\ reading.got < ReadMax
  /\ session[reading.by].cursor < Len(store)
  /\ LET s == reading.by
         next == session[s].cursor + 1
     IN /\ session' = [session EXCEPT ![s].cursor = next]
        /\ IF Passes(store[next].text, session[s].strict)
           THEN /\ returned' = [returned EXCEPT ![s] = Append(@, store[next].sequence)]
                /\ reading' = [reading EXCEPT !.got = @ + 1]
           ELSE UNCHANGED <<returned, reading>>
  /\ UNCHANGED <<controller, device, channel, store, sequence, pump, stopping>>

(* It ends at the last entry of the store or with max_entries.             *)
MirrorDone ==
  /\ reading.at = "mirror"
  /\ reading.got = ReadMax \/ session[reading.by].cursor = Len(store)
  /\ Return(TRUE)
  /\ UNCHANGED <<controller, session, returned, device, channel, store,
                 sequence, stopping>>

ReadStep ==
  \/ ReadText \/ ReadNothing \/ ReadLost \/ ReadError \/ ParseLine \/ ParseDone
  \/ MirrorEntry \/ MirrorDone

-----------------------------------------------------------------------------
(* logPumpLoop.                                                            *)

PumpGoes(to) == pump' = [pump EXCEPT !.at = to]

(* Faulty variant: the pump ends without closing its session.              *)
PumpDecideLeaves ==
  /\ pump.at = "decide"
  /\ pump' = IF stopping THEN [pump EXCEPT !.last = TRUE, !.at = "ended"]
             ELSE [pump EXCEPT !.at = IF pump.active THEN "read" ELSE "create"]
  /\ UNCHANGED <<controller, log, stopping>>

(* The wait at the end of the loop and the look at the flag at its top.    *)
PumpDecide ==
  /\ pump.at = "decide"
  /\ pump' = IF stopping
             THEN [pump EXCEPT !.last = TRUE,
                               !.at = IF pump.active THEN "close" ELSE "ended"]
             ELSE [pump EXCEPT !.at = IF pump.active THEN "read" ELSE "create"]
  /\ UNCHANGED <<controller, log, stopping>>

PumpCreate ==
  /\ pump.at = "create"
  /\ CreateSession(Pump, FALSE, FALSE)
  /\ PumpGoes("start")
  /\ UNCHANGED stopping

(* Faulty variant: the session that could not be started is kept.          *)
PumpStartKeeps == \E ok \in BOOLEAN :
  /\ pump.at = "start"
  /\ StartSession(Pump, ok)
  /\ pump' = IF ok THEN [pump EXCEPT !.at = "read", !.active = TRUE]
                   ELSE [pump EXCEPT !.at = "decide"]
  /\ UNCHANGED stopping

PumpStart == \E ok \in BOOLEAN :
  /\ pump.at = "start"
  /\ StartSession(Pump, ok)
  /\ pump' = IF ok THEN [pump EXCEPT !.at = "read", !.active = TRUE]
                   ELSE [pump EXCEPT !.at = "drop"]
  /\ UNCHANGED stopping

PumpDrop ==
  /\ pump.at = "drop"
  /\ CloseSession(Pump)
  /\ PumpGoes("decide")
  /\ UNCHANGED stopping

PumpRead ==
  /\ pump.at = "read"
  /\ BeginRead(Pump)
  /\ PumpGoes("reading")
  /\ UNCHANGED stopping

(* close_active_session: stop, then closeSession.                          *)
PumpStops ==
  /\ pump.at = "close"
  /\ StopSession(Pump)
  /\ PumpGoes("erase")
  /\ UNCHANGED stopping

PumpErases ==
  /\ pump.at = "erase"
  /\ CloseSession(Pump)
  /\ pump' = [pump EXCEPT !.active = FALSE,
                          !.at = IF pump.last THEN "ended" ELSE "decide"]
  /\ UNCHANGED stopping

(* stopLogPump, which then waits for the thread to end.                    *)
RequestStop ==
  /\ ~stopping
  /\ stopping' = TRUE
  /\ UNCHANGED <<controller, log, pump>>

PumpStep ==
  PumpDecide \/ PumpCreate \/ PumpStart \/ PumpDrop \/ PumpRead \/ PumpStops
    \/ PumpErases

-----------------------------------------------------------------------------
(* The RPC calls of a client on its session.                               *)

Create(c) == \E raw, strict \in BOOLEAN :
  /\ CreateSession(c, raw, strict)
  /\ UNCHANGED <<pump, stopping>>

Start(c) == \E ok \in BOOLEAN :
  /\ session[c].running => SecondStarts
  /\ StartSession(c, ok)
  /\ UNCHANGED <<pump, stopping>>

Stop(c) == StopSession(c) /\ UNCHANGED <<pump, stopping>>

Close(c) == CloseSession(c) /\ UNCHANGED <<pump, stopping>>

Read(c) == BeginRead(c) /\ UNCHANGED <<pump, stopping>>

Next ==
  \/ ReadStep
  \/ PumpStep
  \/ RequestStop
  \/ \E c \in Clients : Create(c) \/ Start(c) \/ Stop(c) \/ Close(c) \/ Read(c)

Spec == Init /\ [][Next]_vars

(* A read goes on, and a thread that waits for the mutex gets it in the    *)
(* end.                                                                    *)
FairSpec == Spec /\ WF_vars(ReadStep) /\ SF_vars(PumpStep)

-----------------------------------------------------------------------------
(* Properties.                                                             *)

PumpPlaces == {"decide", "create", "start", "drop", "read", "reading", "close",
               "erase", "ended"}

(* The store never holds more than kMaxStoredEntries entries, and a mirror *)
(* never points beyond its end.                                            *)
TypeOK ==
  /\ heard \in 0 .. 2 * MaxLines
  /\ started \in BOOLEAN /\ channel \in BOOLEAN /\ stopping \in BOOLEAN
  /\ failures \in 0 .. MaxFailures
  /\ \A s \in Session :
       /\ session[s].exists \in BOOLEAN /\ session[s].mirror \in BOOLEAN
       /\ session[s].strict \in BOOLEAN /\ session[s].running \in BOOLEAN
       /\ session[s].cursor \in 0 .. Len(store)
       /\ session[s].pending \in Seq(Part)
       /\ returned[s] \in Seq(1 .. sequence - 1)
  /\ device \in [Session -> [manager : BOOLEAN, ready : BOOLEAN, running : BOOLEAN]]
  /\ Len(store) <= MaxStored
  /\ \A i \in DOMAIN store : /\ store[i].sequence \in 1 .. sequence - 1
                             /\ store[i].text \in Seq(Part) /\ store[i].text # <<>>
  /\ sequence \in Nat \ {0}
  /\ reading \in [by : Session, at : {"chunk", "parse", "mirror"}, got : 0 .. ReadMax]
                  \cup {NotReading}
  /\ pump \in [at : PumpPlaces, active : BOOLEAN, last : BOOLEAN]

(* The log channel of the host is open exactly while one device has the    *)
(* transport manager; a device that failed to start gives it back.         *)
ChannelHeld ==
  Cardinality({s \in Session : device[s].manager}) = IF channel THEN 1 ELSE 0

(* Each part of the controller's text stands in at most one place: in one  *)
(* stored entry or in the pending text of one session, and there once.     *)
NoTextTwice ==
  /\ \A i, j \in DOMAIN store :
       \A a \in DOMAIN store[i].text, b \in DOMAIN store[j].text :
         store[i].text[a] = store[j].text[b] => i = j /\ a = b
  /\ \A s, t \in Session :
       \A a \in DOMAIN session[s].pending, b \in DOMAIN session[t].pending :
         session[s].pending[a] = session[t].pending[b] => s = t /\ a = b
  /\ \A s \in Session, i \in DOMAIN store :
       \A a \in DOMAIN session[s].pending, b \in DOMAIN store[i].text :
         session[s].pending[a] # store[i].text[b]

(* A session gets the entries in the order in which they were read from    *)
(* the controller, and none of them again, whether it reads them itself or *)
(* mirrors those of the pump.                                              *)
MirrorInOrder ==
  \A s \in Session : \A i, j \in DOMAIN returned[s] :
    i < j => returned[s][i] < returned[s][j]

(* Text of the controller is given out once, in its order.                 *)
TextInOrder == NoTextTwice /\ MirrorInOrder

(* When the pump thread has ended its session is closed, so that a client  *)
(* finds the log channel free or held by another client.                   *)
StopLeavesNothing == pump.at = "ended" => ~session[Pump].exists

(* The pump gets its session back after every error, once the clients      *)
(* leave the log channel to it.                                            *)
PumpRecovers ==
  <>[](~stopping /\ \A c \in Clients : ~device[c].running) => []<>(pump.active)

(* stopLogPump returns: the thread it joins ends.                          *)
StopReturns == stopping ~> pump.at = "ended"

(* The pump ends when it is told to, and until then comes back.            *)
PumpLives == PumpRecovers /\ StopReturns

=============================================================================
