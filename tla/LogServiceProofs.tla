-------------------------- MODULE LogServiceProofs --------------------------
(***************************************************************************)
(* Proofs, for any clients, any text and any number of failures, that one  *)
(* device at a time has the log channel, that the store keeps to its       *)
(* limit, that the pump leaves no session behind, and that every session   *)
(* is given the text of the controller once and in its order.              *)
(***************************************************************************)
EXTENDS LogService, SequenceTheorems, FiniteSetTheorems, TLAPS

USE LogServiceAssumption

Entry == [sequence : Nat, text : Seq(Part)]

Place == [at : PumpPlaces, active : BOOLEAN, last : BOOLEAN]

Reader == [by : Session, at : {"chunk", "parse", "mirror"}, got : Nat] \cup {NotReading}

SessionState == [exists : BOOLEAN, mirror : BOOLEAN, strict : BOOLEAN,
                 running : BOOLEAN, cursor : Nat, pending : Seq(Part)]

DeviceState == [manager : BOOLEAN, ready : BOOLEAN, running : BOOLEAN]

(* The types of what the code keeps.                                       *)
SessionsTyped ==
  /\ session \in [Session -> SessionState]
  /\ \A s \in Session : session[s].cursor <= Len(store)

StoreTyped ==
  /\ store \in Seq(Entry)
  /\ Len(store) <= MaxStored

Types ==
  /\ SessionsTyped
  /\ StoreTyped
  /\ device \in [Session -> DeviceState]
  /\ channel \in BOOLEAN
  /\ heard \in 0 .. 2 * MaxLines
  /\ sequence \in Nat
  /\ reading \in Reader
  /\ pump \in Place

(* Who has the manager has the channel, and is a running session of its    *)
(* own: start, stop and close then know of it.                             *)
HolderInv ==
  \A s \in Session : device[s].manager =>
    /\ channel
    /\ device[s].running
    /\ session[s].exists /\ session[s].running /\ ~session[s].mirror

OneHolder ==
  \A s, t \in Session : device[s].manager /\ device[t].manager => s = t

SomeHolder == channel => \E s \in Session : device[s].manager

Held == HolderInv /\ OneHolder /\ SomeHolder

(* The pump thread knows whether its session exists.                       *)
PumpInv ==
  /\ session[Pump].exists <=>
       \/ pump.at \in {"start", "drop", "read", "reading", "close", "erase"}
       \/ pump.at = "decide" /\ pump.active
  /\ pump.at = "start" => ~session[Pump].running
  /\ pump.at \in {"read", "reading"} => pump.active
  /\ pump.at \in {"create", "start", "drop"} => ~pump.active
  /\ reading.by = Pump => pump.at = "reading"

IInv == Types /\ Held /\ PumpInv

(* What the reading of text leaves as it is.                               *)
SameSessions ==
  /\ UNCHANGED <<device, channel>>
  /\ \A s \in Session : /\ session'[s].exists = session[s].exists
                        /\ session'[s].mirror = session[s].mirror
                        /\ session'[s].running = session[s].running

(* What every call on session s but a read does.                           *)
CallTyped(s) ==
  /\ SessionsTyped' /\ StoreTyped'
  /\ device' \in [Session -> DeviceState] /\ channel' \in BOOLEAN
  /\ UNCHANGED <<heard, sequence, reading>>
  /\ reading = NotReading
  /\ \A t \in Session \ {s} : session'[t] = session[t]

-----------------------------------------------------------------------------
(* Reading.                                                                *)

LEMMA SameHeld == ASSUME Held, SameSessions PROVE Held'
BY DEF Held, HolderInv, OneHolder, SomeHolder, SameSessions

(* One entry more or less in the store.                                    *)
LEMMA AppendTyped ==
  ASSUME StoreTyped, NEW entry \in Entry, AppendEntry(entry)
  PROVE  StoreTyped' /\ Len(store') >= Len(store)
<1>1. store \in Seq(Entry) /\ Len(store) \in Nat /\ Len(store) <= MaxStored
  BY DEF StoreTyped
<1>2. /\ Append(store, entry) \in Seq(Entry)
      /\ Len(Append(store, entry)) = Len(store) + 1
  BY <1>1, AppendProperties
<1>3. Append(store, entry) # <<>>
  BY <1>1, <1>2
<1>4. /\ Tail(Append(store, entry)) \in Seq(Entry)
      /\ Len(Tail(Append(store, entry))) = Len(store)
  BY <1>1, <1>2, <1>3, HeadTailProperties
<1>5. CASE Len(store) = MaxStored
  BY <1>1, <1>4, <1>5 DEF AppendEntry, StoreTyped
<1>6. CASE Len(store) # MaxStored
  <2>1. store' = Append(store, entry)
    BY <1>6 DEF AppendEntry
  <2>2. Len(store) + 1 <= MaxStored
    BY <1>1, <1>6
  <2> QED
    BY <1>1, <1>2, <2>1, <2>2 DEF StoreTyped
<1> QED
  BY <1>5, <1>6

(* A text that is decoded.                                                 *)
LEMMA DecodeTyped ==
  ASSUME SessionsTyped, StoreTyped, sequence \in Nat, NEW s \in Session,
         NEW text \in Seq(Part), NEW left \in Seq(Part), Decode(s, text, left)
  PROVE  /\ SessionsTyped' /\ StoreTyped' /\ sequence' \in Nat
         /\ \A t \in Session : /\ session'[t].exists = session[t].exists
                               /\ session'[t].mirror = session[t].mirror
                               /\ session'[t].running = session[t].running
<1>1. StoreTyped' /\ Len(store') >= Len(store)
  <2>1. [sequence |-> sequence, text |-> text] \in Entry
    BY DEF Entry
  <2>2. CASE AppendEntry([sequence |-> sequence, text |-> text])
    BY <2>1, <2>2, AppendTyped
  <2>3. CASE store' = store
    BY <2>3 DEF StoreTyped
  <2> QED
    BY <2>2, <2>3 DEF Decode
<1>2. session' = [session EXCEPT ![s].pending = left]
  BY DEF Decode
<1>3. session \in [Session -> SessionState]
  BY DEF SessionsTyped
<1>4. session' \in [Session -> SessionState]
  BY <1>2, <1>3 DEF SessionState
<1>5. \A t \in Session : /\ session'[t].cursor = session[t].cursor
                         /\ session'[t].exists = session[t].exists
                         /\ session'[t].mirror = session[t].mirror
                         /\ session'[t].running = session[t].running
  BY <1>2, <1>3 DEF SessionState
<1>6. Len(store) \in Nat /\ Len(store') \in Nat
  BY <1>1 DEF StoreTyped
<1>7. \A t \in Session : session'[t].cursor <= Len(store')
  <2> TAKE t \in Session
  <2>1. session[t].cursor \in Nat /\ session[t].cursor <= Len(store)
    BY <1>3 DEF SessionsTyped, SessionState
  <2> QED
    BY <2>1, <1>1, <1>5, <1>6
<1> QED
  BY <1>1, <1>4, <1>5, <1>7 DEF SessionsTyped, Decode

LEMMA PumpIsSession == Pump \in Session /\ Pump # Nobody
BY DEF Session

(* A step of a read that is not its last.                                  *)
LEMMA GoesOnKeeps ==
  ASSUME PumpInv, SameSessions, pump' = pump, reading'.by = reading.by
  PROVE  PumpInv'
<1>1. /\ session'[Pump].exists = session[Pump].exists
      /\ session'[Pump].running = session[Pump].running
  BY PumpIsSession DEF SameSessions
<1> QED
  BY <1>1 DEF PumpInv

(* The end of a read.                                                      *)
LEMMA ReturnKeeps ==
  ASSUME PumpInv, pump \in Place, SameSessions, NEW ok \in BOOLEAN, Return(ok)
  PROVE  PumpInv' /\ reading' \in Reader /\ pump' \in Place
<1>1. /\ session'[Pump].exists = session[Pump].exists
      /\ session'[Pump].running = session[Pump].running
  BY PumpIsSession DEF SameSessions
<1>2. reading' = NotReading /\ reading' \in Reader /\ reading'.by # Pump
  BY PumpIsSession DEF Return, Reader, NotReading
<1>3. CASE reading.by # Pump
  <2>1. pump' = pump
    BY <1>3 DEF Return
  <2> QED
    BY <1>1, <1>2, <2>1 DEF PumpInv
<1>4. CASE reading.by = Pump
  <2>1. pump.at = "reading" /\ pump.active /\ session[Pump].exists
    BY <1>4 DEF PumpInv
  <2>2. pump' = [pump EXCEPT !.at = IF ok THEN "decide" ELSE "close"]
    BY <1>4 DEF Return
  <2>3. pump' \in Place /\ pump'.active /\ pump'.at \in {"decide", "close"}
    BY <2>1, <2>2 DEF Place, PumpPlaces
  <2> QED
    BY <1>1, <1>2, <2>1, <2>3 DEF PumpInv
<1> QED
  BY <1>3, <1>4

(* A read knows where it is.                                               *)
LEMMA ReaderIsSession ==
  ASSUME reading \in Reader, reading.at \in {"chunk", "parse", "mirror"}
  PROVE  reading.by \in Session /\ reading.got \in Nat
BY DEF Reader, NotReading

LEMMA ReadTextKeeps ==
  ASSUME Types, Held, PumpInv, ReadText
  PROVE  Types' /\ Held' /\ PumpInv'
<1>1. PICK n \in Taken :
        /\ heard' = heard + n
        /\ session' = [session EXCEPT
             ![reading.by].pending = @ \o [i \in 1 .. n |-> heard + i]]
  BY DEF ReadText
<1>2. reading.by \in Session /\ reading.got \in Nat
  BY ReaderIsSession DEF ReadText, Types
<1>3. n \in Nat /\ n + heard <= 2 * MaxLines /\ heard \in Nat
  BY DEF Taken, Types
<1>4. [i \in 1 .. n |-> heard + i] \in Seq(Part)
  BY <1>3 DEF Part
<1>5. session \in [Session -> SessionState]
  BY DEF Types, SessionsTyped
<1>6. session[reading.by].pending \o [i \in 1 .. n |-> heard + i] \in Seq(Part)
  BY <1>2, <1>4, <1>5, ConcatProperties DEF SessionState
<1>7. session' \in [Session -> SessionState]
  BY <1>1, <1>5, <1>6 DEF SessionState
<1>8. \A t \in Session : /\ session'[t].cursor = session[t].cursor
                         /\ session'[t].exists = session[t].exists
                         /\ session'[t].mirror = session[t].mirror
                         /\ session'[t].running = session[t].running
  BY <1>1, <1>5 DEF SessionState
<1>9. SameSessions
  BY <1>8 DEF SameSessions, ReadText
<1>10. reading' = [reading EXCEPT !.at = "parse"] /\ reading \in Reader
  BY DEF ReadText, Types
<1>11. reading' \in Reader /\ reading'.by = reading.by
  BY <1>2, <1>10, ReaderIsSession DEF Reader, ReadText, NotReading
<1>12. Types'
  BY <1>1, <1>3, <1>7, <1>8, <1>11 DEF Types, SessionsTyped, StoreTyped, ReadText
<1> QED
  BY <1>9, <1>11, <1>12, SameHeld, GoesOnKeeps DEF ReadText

(* The returns that leave the text as it is.                               *)
LEMMA ReadIdleKeeps ==
  ASSUME Types, Held, PumpInv, ReadNothing \/ ReadLost
  PROVE  Types' /\ Held' /\ PumpInv'
<1>1. heard' \in 0 .. 2 * MaxLines
  <2>1. heard \in 0 .. 2 * MaxLines
    BY DEF Types
  <2>2. CASE ReadNothing
    BY <2>1, <2>2 DEF ReadNothing, controller
  <2>3. CASE ReadLost
    <3>1. PICK n \in Taken \cup {0} : heard' = heard + n
      BY <2>3 DEF ReadLost
    <3>2. n \in Nat /\ heard + n <= 2 * MaxLines
      BY <2>1 DEF Taken
    <3> QED
      BY <2>1, <3>1, <3>2
  <2> QED
    BY <2>2, <2>3
<1>2. UNCHANGED <<session, device, channel, store, sequence>> /\ Return(TRUE)
  BY DEF ReadNothing, ReadLost, controller
<1>3. SameSessions
  BY <1>2 DEF SameSessions
<1>4. PumpInv' /\ reading' \in Reader /\ pump' \in Place
  BY <1>2, <1>3, ReturnKeeps DEF Types
<1> QED
  BY <1>1, <1>2, <1>3, <1>4, SameHeld DEF Types, SessionsTyped, StoreTyped

LEMMA ReadErrorKeeps ==
  ASSUME Types, Held, PumpInv, ReadError
  PROVE  Types' /\ Held' /\ PumpInv'
<1> DEFINE s == reading.by
           text == session[s].pending
<1>1. s \in Session /\ reading.got \in Nat
  BY ReaderIsSession DEF ReadError, Types
<1>2. UNCHANGED <<heard, device, channel>>
  BY DEF ReadError
<1>3. PICK ok \in BOOLEAN :
        /\ Return(ok)
        /\ \/ Decode(s, text, <<>>)
           \/ UNCHANGED <<session, store, sequence>>
  <2>1. CASE text # <<>>
    BY <2>1 DEF ReadError
  <2>2. CASE text = <<>>
    <3>1. (reading.got > 0) \in BOOLEAN
      OBVIOUS
    <3>2. Return(reading.got > 0) /\ UNCHANGED <<session, store, sequence>>
      BY <2>2 DEF ReadError
    <3> QED
      BY <3>1, <3>2
  <2> QED
    BY <2>1, <2>2
<1>4. text \in Seq(Part) /\ <<>> \in Seq(Part)
  BY <1>1 DEF Types, SessionsTyped, SessionState
<1>5. /\ SessionsTyped' /\ StoreTyped' /\ sequence' \in Nat
      /\ SameSessions
  <2>1. CASE Decode(s, text, <<>>)
    BY <1>1, <1>2, <1>4, <2>1, DecodeTyped DEF Types, SameSessions
  <2>2. CASE UNCHANGED <<session, store, sequence>>
    BY <1>2, <2>2 DEF Types, SessionsTyped, StoreTyped, SameSessions
  <2> QED
    BY <1>3, <2>1, <2>2
<1>6. PumpInv' /\ reading' \in Reader /\ pump' \in Place
  BY <1>3, <1>5, ReturnKeeps DEF Types
<1> QED
  BY <1>2, <1>5, <1>6, SameHeld DEF Types

LEMMA ParseLineKeeps ==
  ASSUME Types, Held, PumpInv, ParseLine
  PROVE  Types' /\ Held' /\ PumpInv'
<1> DEFINE s == reading.by
           text == session[s].pending
<1>1. PICK end \in LineEnds(text) :
        /\ reading.at = "parse"
        /\ Decode(s, SubSeq(text, 1, end), SubSeq(text, end + 1, Len(text)))
        /\ reading' = [reading EXCEPT !.got = @ + Returned(SubSeq(text, 1, end), s)]
        /\ UNCHANGED <<heard, device, channel, pump>>
  BY DEF ParseLine, controller
<1>2. s \in Session /\ reading.got \in Nat
  BY <1>1, ReaderIsSession DEF Types
<1>3. text \in Seq(Part) /\ Len(text) \in Nat
  BY <1>2 DEF Types, SessionsTyped, SessionState
<1>4. end \in 1 .. Len(text)
  BY <1>3 DEF LineEnds
<1>5. /\ SubSeq(text, 1, end) \in Seq(Part)
      /\ SubSeq(text, end + 1, Len(text)) \in Seq(Part)
  BY <1>3, <1>4, SubSeqProperties
<1>6. /\ SessionsTyped' /\ StoreTyped' /\ sequence' \in Nat
      /\ SameSessions
  BY <1>1, <1>2, <1>5, DecodeTyped DEF Types, SameSessions
<1>7. reading.got + Returned(SubSeq(text, 1, end), s) \in Nat
  BY <1>2 DEF Returned
<1>8. reading' \in Reader /\ reading'.by = reading.by
  BY <1>1, <1>2, <1>7, ReaderIsSession DEF Reader, Types, NotReading
<1> QED
  BY <1>1, <1>6, <1>8, SameHeld, GoesOnKeeps DEF Types

LEMMA ParseDoneKeeps ==
  ASSUME Types, Held, PumpInv, ParseDone
  PROVE  Types' /\ Held' /\ PumpInv'
<1>1. UNCHANGED <<heard, session, device, channel, store, sequence>>
  BY DEF ParseDone, controller
<1>2. SameSessions
  BY <1>1 DEF SameSessions
<1>3. PumpInv' /\ reading' \in Reader /\ pump' \in Place
  <2>1. CASE Return(TRUE)
    BY <1>2, <2>1, ReturnKeeps DEF Types
  <2>2. CASE reading' = [reading EXCEPT !.at = "chunk"] /\ pump' = pump
    <3>1. reading' \in Reader /\ reading'.by = reading.by
      BY <2>2, ReaderIsSession DEF Reader, Types, NotReading, ParseDone
    <3> QED
      BY <1>2, <2>2, <3>1, GoesOnKeeps DEF Types
  <2> QED
    BY <2>1, <2>2 DEF ParseDone
<1> QED
  BY <1>1, <1>2, <1>3, SameHeld DEF Types, SessionsTyped, StoreTyped

LEMMA MirrorEntryKeeps ==
  ASSUME Types, Held, PumpInv, MirrorEntry
  PROVE  Types' /\ Held' /\ PumpInv'
<1>1. PICK s, next : s = reading.by /\ next = session[s].cursor + 1
  OBVIOUS
<1>2. s \in Session /\ reading.got \in Nat /\ reading \in Reader
  BY <1>1, ReaderIsSession DEF MirrorEntry, Types
<1>3. /\ session' = [session EXCEPT ![s].cursor = next]
      /\ session[s].cursor < Len(store)
      /\ UNCHANGED <<heard, device, channel, store, sequence, pump>>
  BY <1>1 DEF MirrorEntry, controller
<1>4. session \in [Session -> SessionState] /\ Len(store) \in Nat
  BY DEF Types, SessionsTyped, StoreTyped
<1>5. next \in Nat /\ next <= Len(store)
  BY <1>1, <1>2, <1>3, <1>4 DEF SessionState
<1>6. session' \in [Session -> SessionState]
  BY <1>3, <1>4, <1>5 DEF SessionState
<1>7. \A t \in Session : /\ session'[t].cursor = IF t = s THEN next ELSE session[t].cursor
                         /\ session'[t].exists = session[t].exists
                         /\ session'[t].mirror = session[t].mirror
                         /\ session'[t].running = session[t].running
  BY <1>2, <1>3, <1>4 DEF SessionState
<1>8. SameSessions
  BY <1>3, <1>7 DEF SameSessions
<1>9. reading' \in Reader /\ reading'.by = reading.by
  <2>1. CASE reading' = [reading EXCEPT !.got = @ + 1]
    BY <1>2, <2>1, ReaderIsSession DEF Reader, MirrorEntry, NotReading
  <2>2. CASE reading' = reading
    BY <1>2, <2>2
  <2> QED
    BY <2>1, <2>2 DEF MirrorEntry
<1>10. Types'
  BY <1>3, <1>5, <1>6, <1>7, <1>9 DEF Types, SessionsTyped, StoreTyped
<1> QED
  BY <1>3, <1>8, <1>9, <1>10, SameHeld, GoesOnKeeps

LEMMA MirrorDoneKeeps ==
  ASSUME Types, Held, PumpInv, MirrorDone
  PROVE  Types' /\ Held' /\ PumpInv'
<1>1. UNCHANGED <<heard, session, device, channel, store, sequence>> /\ Return(TRUE)
  BY DEF MirrorDone, controller
<1>2. SameSessions
  BY <1>1 DEF SameSessions
<1>3. PumpInv' /\ reading' \in Reader /\ pump' \in Place
  BY <1>1, <1>2, ReturnKeeps DEF Types
<1> QED
  BY <1>1, <1>2, <1>3, SameHeld DEF Types, SessionsTyped, StoreTyped

LEMMA ReadStepKeeps ==
  ASSUME Types, Held, PumpInv, ReadStep
  PROVE  Types' /\ Held' /\ PumpInv'
BY ReadTextKeeps, ReadIdleKeeps, ReadErrorKeeps, ParseLineKeeps, ParseDoneKeeps,
   MirrorEntryKeeps, MirrorDoneKeeps
   DEF ReadStep

-----------------------------------------------------------------------------
(* The calls.                                                              *)

(* Sessions that change without the store stay within it.                  *)
LEMMA CallOnSession ==
  ASSUME Types, NEW s \in Session, NEW new \in SessionState, new.cursor <= Len(store),
         session' = [session EXCEPT ![s] = new], store' = store
  PROVE  /\ SessionsTyped' /\ StoreTyped'
         /\ session'[s] = new
         /\ \A t \in Session \ {s} : session'[t] = session[t]
<1>1. session \in [Session -> SessionState]
  BY DEF Types, SessionsTyped
<1>2. session' \in [Session -> SessionState]
  BY <1>1
<1>3. \A t \in Session : session'[t].cursor <= Len(store')
  BY <1>1 DEF Types, SessionsTyped
<1> QED
  BY <1>1, <1>2, <1>3 DEF Types, SessionsTyped, StoreTyped

LEMMA CreateKeeps ==
  ASSUME Types, Held, NEW s \in Session, NEW raw \in BOOLEAN,
         NEW strict \in BOOLEAN, CreateSession(s, raw, strict)
  PROVE  /\ CallTyped(s) /\ Held'
         /\ ~session[s].exists
         /\ session'[s].exists /\ ~session'[s].running
<1> DEFINE new == [Absent EXCEPT !.exists = TRUE, !.mirror = Mirrors(s, raw),
                                 !.strict = strict]
<1>1. new \in SessionState /\ new.cursor = 0 /\ new.exists /\ ~new.running
  <2>1. Mirrors(s, raw) \in BOOLEAN
    BY DEF Mirrors
  <2>2. <<>> \in Seq(Part)
    OBVIOUS
  <2> QED
    BY <2>1, <2>2 DEF SessionState, Absent
<1>2. /\ session' = [session EXCEPT ![s] = new] /\ ~session[s].exists
      /\ UNCHANGED <<heard, device, channel, store, sequence, reading>>
      /\ reading = NotReading
  BY DEF CreateSession, controller, Unlocked
<1>3. new.cursor <= Len(store)
  <2>1. Len(store) \in Nat
    BY DEF Types, StoreTyped
  <2> QED
    BY <1>1, <2>1
<1> HIDE DEF new
<1>4. /\ SessionsTyped' /\ StoreTyped' /\ session'[s] = new
      /\ \A t \in Session \ {s} : session'[t] = session[t]
  BY <1>1, <1>2, <1>3, CallOnSession
<1>5. CallTyped(s)
  BY <1>2, <1>4 DEF CallTyped, Types
<1>6. Held'
  <2>1. ~device[s].manager
    BY <1>2 DEF Held, HolderInv
  <2>2. HolderInv'
    BY <1>2, <1>4, <2>1 DEF Held, HolderInv
  <2> QED
    BY <1>2, <2>2 DEF Held, OneHolder, SomeHolder
<1> QED
  BY <1>1, <1>2, <1>4, <1>5, <1>6

(* A session that is started again forgets its manager: only one that does *)
(* not run keeps the properties of a holder.                               *)
LEMMA StartKeeps ==
  ASSUME Types, Held, NEW s \in Session, ~session[s].running,
         NEW ok \in BOOLEAN, StartSession(s, ok)
  PROVE  /\ CallTyped(s) /\ Held'
         /\ session[s].exists /\ session'[s].exists
<1> DEFINE new == [session[s] EXCEPT !.running = ok]
<1>1. session[s] \in SessionState /\ session[s].cursor <= Len(store)
  BY DEF Types, SessionsTyped
<1>2. /\ new \in SessionState /\ new.cursor = session[s].cursor
      /\ new.exists = session[s].exists /\ new.mirror = session[s].mirror
      /\ new.running = ok
  BY <1>1 DEF SessionState
<1>3. /\ session' = [session EXCEPT ![s] = new] /\ session[s].exists
      /\ UNCHANGED <<heard, store, sequence, reading>>
      /\ reading = NotReading
  <2>1. CASE ok
    BY <2>1 DEF StartSession, Unlocked
  <2>2. CASE ~ok
    <3>1. session' = session
      BY <2>2 DEF StartSession
    <3>2. new = session[s]
      BY <1>1, <2>2 DEF SessionState
    <3>3. session = [session EXCEPT ![s] = session[s]]
      BY DEF Types, SessionsTyped
    <3> QED
      BY <3>1, <3>2, <3>3 DEF StartSession, Unlocked
  <2> QED
    BY <2>1, <2>2
<1> HIDE DEF new
<1>4. /\ SessionsTyped' /\ StoreTyped' /\ session'[s] = new
      /\ \A t \in Session \ {s} : session'[t] = session[t]
  BY <1>1, <1>2, <1>3, CallOnSession
<1>5. ~device[s].manager /\ device \in [Session -> DeviceState]
  BY DEF Held, HolderInv, Types
<1>6. CASE UNCHANGED <<device, channel>>
  <2>1. HolderInv'
    BY <1>4, <1>5, <1>6 DEF Held, HolderInv
  <2> QED
    BY <1>2, <1>3, <1>4, <1>6, <2>1
       DEF Held, OneHolder, SomeHolder, CallTyped, Types
<1>7. CASE ~session[s].mirror /\ DeviceStart(s, ok)
  <2>1. CASE ~ok
    <3>1. device' = [device EXCEPT ![s].manager = FALSE] /\ channel' = channel
      BY <1>7, <2>1 DEF DeviceStart
    <3>2. device' = device
      BY <1>5, <3>1 DEF DeviceState
    <3> QED
      BY <1>6, <3>1, <3>2
  <2>2. CASE ok
    <3>1. /\ ~channel /\ channel' = TRUE
          /\ device' = [device EXCEPT ![s] = [manager |-> TRUE, ready |-> TRUE,
                                              running |-> TRUE]]
      BY <1>7, <2>2 DEF DeviceStart
    <3>2. \A t \in Session : ~device[t].manager
      BY <3>1 DEF Held, HolderInv
    <3>3. /\ device' \in [Session -> DeviceState]
          /\ device'[s].manager /\ device'[s].running
          /\ \A t \in Session \ {s} : ~device'[t].manager
      BY <1>5, <3>1, <3>2 DEF DeviceState
    <3>4. session'[s].exists /\ session'[s].running /\ ~session'[s].mirror
      BY <1>2, <1>3, <1>4, <1>7, <2>2
    <3>5. Held'
      BY <3>1, <3>3, <3>4 DEF Held, HolderInv, OneHolder, SomeHolder
    <3> QED
      BY <1>2, <1>3, <1>4, <3>1, <3>3, <3>5 DEF CallTyped
  <2> QED
    BY <2>1, <2>2
<1> QED
  BY <1>6, <1>7 DEF StartSession

(* A device that is stopped gives the channel back if it has it.           *)
LEMMA StopKeepsHeld ==
  ASSUME Types, Held, NEW s \in Session, DeviceStop(s),
         device' = [device EXCEPT ![s] = NoDevice],
         \A t \in Session \ {s} : session'[t] = session[t]
  PROVE  Held' /\ device' \in [Session -> DeviceState] /\ channel' \in BOOLEAN
<1>1. /\ channel' = (channel /\ ~device[s].manager)
      /\ device \in [Session -> DeviceState] /\ channel \in BOOLEAN
  BY DEF DeviceStop, Types
<1>2. /\ device' \in [Session -> DeviceState] /\ ~device'[s].manager
      /\ \A t \in Session \ {s} : device'[t] = device[t]
  BY <1>1 DEF NoDevice, DeviceState
<1>3. CASE device[s].manager
  <2>1. \A t \in Session \ {s} : ~device[t].manager
    BY <1>3 DEF Held, OneHolder
  <2> QED
    BY <1>1, <1>2, <1>3, <2>1 DEF Held, HolderInv, OneHolder, SomeHolder
<1>4. CASE ~device[s].manager
  <2>1. channel' = channel
    BY <1>1, <1>4
  <2> QED
    BY <1>1, <1>2, <1>4, <2>1 DEF Held, HolderInv, OneHolder, SomeHolder
<1> QED
  BY <1>3, <1>4

LEMMA StopKeeps ==
  ASSUME Types, Held, NEW s \in Session, StopSession(s)
  PROVE  /\ CallTyped(s) /\ Held'
         /\ session[s].exists /\ session'[s].exists
<1> DEFINE new == [session[s] EXCEPT !.running = FALSE]
<1>1. session[s] \in SessionState /\ session[s].cursor <= Len(store)
  BY DEF Types, SessionsTyped
<1>2. /\ new \in SessionState /\ new.cursor = session[s].cursor
      /\ new.exists = session[s].exists
  BY <1>1 DEF SessionState
<1>3. /\ session' = [session EXCEPT ![s] = new] /\ session[s].exists
      /\ UNCHANGED <<heard, store, sequence, reading>>
      /\ reading = NotReading
  BY DEF StopSession, Unlocked
<1> HIDE DEF new
<1>4. /\ SessionsTyped' /\ StoreTyped' /\ session'[s] = new
      /\ \A t \in Session \ {s} : session'[t] = session[t]
  BY <1>1, <1>2, <1>3, CallOnSession
<1>5. Held' /\ device' \in [Session -> DeviceState] /\ channel' \in BOOLEAN
  <2>1. CASE session[s].mirror /\ UNCHANGED <<device, channel>>
    <3>1. ~device[s].manager
      BY <2>1 DEF Held, HolderInv
    <3>2. HolderInv'
      BY <1>4, <2>1, <3>1 DEF Held, HolderInv
    <3> QED
      BY <2>1, <3>2 DEF Held, OneHolder, SomeHolder, Types
  <2>2. CASE DeviceStop(s) /\ device' = [device EXCEPT ![s] = NoDevice]
    BY <1>4, <2>2, StopKeepsHeld
  <2> QED
    BY <2>1, <2>2 DEF StopSession
<1> QED
  BY <1>2, <1>3, <1>4, <1>5 DEF CallTyped

LEMMA CloseKeeps ==
  ASSUME Types, Held, NEW s \in Session, CloseSession(s)
  PROVE  /\ CallTyped(s) /\ Held'
         /\ session[s].exists /\ ~session'[s].exists
<1>1. Absent \in SessionState /\ Absent.cursor = 0 /\ ~Absent.exists
  <2>1. <<>> \in Seq(Part)
    OBVIOUS
  <2> QED
    BY <2>1 DEF Absent, SessionState
<1>2. Absent.cursor <= Len(store)
  <2>1. Len(store) \in Nat
    BY DEF Types, StoreTyped
  <2> QED
    BY <1>1, <2>1
<1>3. /\ session' = [session EXCEPT ![s] = Absent] /\ session[s].exists
      /\ device' = [device EXCEPT ![s] = NoDevice]
      /\ UNCHANGED <<heard, store, sequence, reading>>
      /\ reading = NotReading
  BY DEF CloseSession, Unlocked
<1>4. /\ SessionsTyped' /\ StoreTyped' /\ session'[s] = Absent
      /\ \A t \in Session \ {s} : session'[t] = session[t]
  BY <1>1, <1>2, <1>3, CallOnSession
<1>5. Held' /\ device' \in [Session -> DeviceState] /\ channel' \in BOOLEAN
  <2>1. CASE DeviceStop(s)
    BY <1>3, <1>4, <2>1, StopKeepsHeld
  <2>2. CASE ~device[s].running /\ channel' = channel
    <3>1. ~device[s].manager
      BY <2>2 DEF Held, HolderInv
    <3>2. /\ device' \in [Session -> DeviceState] /\ ~device'[s].manager
          /\ \A t \in Session \ {s} : device'[t] = device[t]
      BY <1>3 DEF NoDevice, DeviceState, Types
    <3> QED
      BY <1>4, <2>2, <3>1, <3>2 DEF Held, HolderInv, OneHolder, SomeHolder, Types
  <2> QED
    BY <2>1, <2>2 DEF CloseSession
<1> QED
  BY <1>1, <1>3, <1>4, <1>5 DEF CallTyped

(* readEntries begins.                                                     *)
LEMMA BeginReadKeeps ==
  ASSUME Types, Held, NEW s \in Session, BeginRead(s)
  PROVE  /\ UNCHANGED <<heard, session, device, channel, store, sequence>>
         /\ reading' \in Reader /\ reading'.by = s
         /\ Held'
<1>1. UNCHANGED <<heard, session, device, channel, store, sequence>>
  BY DEF BeginRead, controller
<1>2. PICK at \in {"chunk", "mirror"} : reading' = [by |-> s, at |-> at, got |-> 0]
  BY DEF BeginRead
<1>3. reading' \in Reader /\ reading'.by = s
  BY <1>2 DEF Reader
<1> QED
  BY <1>1, <1>3 DEF Held, HolderInv, OneHolder, SomeHolder

-----------------------------------------------------------------------------
(* The steps of the pump and of the clients.                               *)

(* A call of the pump on its session, after which it knows of it.          *)
LEMMA PumpCalls ==
  ASSUME IInv, CallTyped(Pump), Held', pump' \in Place,
         session'[Pump].exists <=>
           \/ pump'.at \in {"start", "drop", "read", "reading", "close", "erase"}
           \/ pump'.at = "decide" /\ pump'.active,
         pump'.at = "start" => ~session'[Pump].running,
         pump'.at \in {"read", "reading"} => pump'.active,
         pump'.at \in {"create", "start", "drop"} => ~pump'.active
  PROVE  IInv'
<1>1. Types'
  BY DEF IInv, Types, CallTyped
<1>2. reading'.by # Pump
  BY PumpIsSession DEF CallTyped, NotReading
<1>3. PumpInv'
  BY <1>2 DEF PumpInv
<1> QED
  BY <1>1, <1>3 DEF IInv

(* A call of a client leaves the pump as it is.                            *)
LEMMA ClientCalls ==
  ASSUME IInv, NEW c \in Clients, CallTyped(c), Held', pump' = pump
  PROVE  IInv'
<1>1. Types'
  BY DEF IInv, Types, CallTyped
<1>2. session'[Pump] = session[Pump] /\ reading' = reading
  BY PumpIsSession DEF CallTyped
<1>3. PumpInv'
  BY <1>2 DEF PumpInv, IInv
<1> QED
  BY <1>1, <1>3 DEF IInv

LEMMA PumpStepKeeps ==
  ASSUME IInv, PumpStep
  PROVE  IInv'
<1> USE PumpIsSession
<1>1. Types /\ Held /\ PumpInv /\ pump \in Place
  BY DEF IInv, Types
<1>2. CASE PumpDecide
  <2>1. UNCHANGED <<heard, session, device, channel, store, sequence, reading>>
    BY <1>2 DEF PumpDecide, controller, log
  <2>2. pump.at = "decide"
    BY <1>2 DEF PumpDecide
  <2>3. pump' \in Place
    BY <1>1, <1>2 DEF PumpDecide, Place, PumpPlaces
  <2>4. /\ pump'.active = pump.active
        /\ pump'.at \in IF pump.active THEN {"close", "read"} ELSE {"ended", "create"}
    BY <1>1, <1>2 DEF PumpDecide, Place
  <2>5. Types'
    BY <1>1, <2>1, <2>3 DEF Types, SessionsTyped, StoreTyped
  <2>6. Held'
    BY <1>1, <2>1 DEF Held, HolderInv, OneHolder, SomeHolder
  <2>7. PumpInv'
    BY <1>1, <2>1, <2>2, <2>4 DEF PumpInv
  <2> QED
    BY <2>5, <2>6, <2>7 DEF IInv
<1>3. CASE PumpCreate
  <2>1. /\ pump.at = "create" /\ CreateSession(Pump, FALSE, FALSE)
        /\ pump' = [pump EXCEPT !.at = "start"]
    BY <1>3 DEF PumpCreate, PumpGoes
  <2>2. /\ CallTyped(Pump) /\ Held'
        /\ session'[Pump].exists /\ ~session'[Pump].running
    BY <1>1, <2>1, CreateKeeps
  <2>3. pump' \in Place /\ pump'.at = "start" /\ ~pump'.active
    BY <1>1, <2>1 DEF Place, PumpPlaces, PumpInv
  <2> QED
    BY <2>2, <2>3, PumpCalls
<1>4. CASE PumpStart
  <2>1. PICK ok \in BOOLEAN :
          /\ pump.at = "start" /\ StartSession(Pump, ok)
          /\ pump' = IF ok THEN [pump EXCEPT !.at = "read", !.active = TRUE]
                           ELSE [pump EXCEPT !.at = "drop"]
    BY <1>4 DEF PumpStart
  <2>2. ~session[Pump].running /\ ~pump.active
    BY <1>1, <2>1 DEF PumpInv
  <2>3. CallTyped(Pump) /\ Held' /\ session'[Pump].exists
    BY <1>1, <2>1, <2>2, StartKeeps
  <2>4. /\ pump' \in Place
        /\ \/ pump'.at = "read" /\ pump'.active
           \/ pump'.at = "drop" /\ ~pump'.active
    BY <1>1, <2>1, <2>2 DEF Place, PumpPlaces
  <2> QED
    BY <2>3, <2>4, PumpCalls
<1>5. CASE PumpDrop
  <2>1. /\ pump.at = "drop" /\ CloseSession(Pump)
        /\ pump' = [pump EXCEPT !.at = "decide"]
    BY <1>5 DEF PumpDrop, PumpGoes
  <2>2. CallTyped(Pump) /\ Held' /\ ~session'[Pump].exists
    BY <1>1, <2>1, CloseKeeps
  <2>3. pump' \in Place /\ pump'.at = "decide" /\ ~pump'.active
    BY <1>1, <2>1 DEF Place, PumpPlaces, PumpInv
  <2> QED
    BY <2>2, <2>3, PumpCalls
<1>6. CASE PumpRead
  <2>1. /\ pump.at = "read" /\ BeginRead(Pump)
        /\ pump' = [pump EXCEPT !.at = "reading"]
    BY <1>6 DEF PumpRead, PumpGoes
  <2>2. /\ UNCHANGED <<heard, session, device, channel, store, sequence>>
        /\ reading' \in Reader /\ Held'
    BY <1>1, <2>1, BeginReadKeeps
  <2>3. pump' \in Place /\ pump'.at = "reading" /\ pump'.active
    BY <1>1, <2>1 DEF Place, PumpPlaces, PumpInv
  <2>4. Types'
    BY <1>1, <2>2, <2>3 DEF Types, SessionsTyped, StoreTyped
  <2>5. PumpInv'
    BY <1>1, <2>1, <2>2, <2>3 DEF PumpInv
  <2> QED
    BY <2>2, <2>4, <2>5 DEF IInv
<1>7. CASE PumpStops
  <2>1. /\ pump.at = "close" /\ StopSession(Pump)
        /\ pump' = [pump EXCEPT !.at = "erase"]
    BY <1>7 DEF PumpStops, PumpGoes
  <2>2. CallTyped(Pump) /\ Held' /\ session'[Pump].exists
    BY <1>1, <2>1, StopKeeps
  <2>3. pump' \in Place /\ pump'.at = "erase"
    BY <1>1, <2>1 DEF Place, PumpPlaces
  <2> QED
    BY <2>2, <2>3, PumpCalls
<1>8. CASE PumpErases
  <2>1. /\ pump.at = "erase" /\ CloseSession(Pump)
        /\ pump' = [pump EXCEPT !.active = FALSE,
                                !.at = IF pump.last THEN "ended" ELSE "decide"]
    BY <1>8 DEF PumpErases
  <2>2. CallTyped(Pump) /\ Held' /\ ~session'[Pump].exists
    BY <1>1, <2>1, CloseKeeps
  <2>3. pump' \in Place /\ pump'.at \in {"ended", "decide"} /\ ~pump'.active
    BY <1>1, <2>1 DEF Place, PumpPlaces
  <2> QED
    BY <2>2, <2>3, PumpCalls
<1> QED
  BY <1>2, <1>3, <1>4, <1>5, <1>6, <1>7, <1>8 DEF PumpStep

(* Clients start a session that does not run (SecondStarts FALSE).         *)
LEMMA ClientStepKeeps ==
  ASSUME IInv, ~SecondStarts, NEW c \in Clients,
         Create(c) \/ Start(c) \/ Stop(c) \/ Close(c) \/ Read(c)
  PROVE  IInv'
<1>1. Types /\ Held /\ PumpInv /\ c \in Session /\ c # Pump
  BY DEF IInv, Session
<1>2. CASE Create(c)
  <2>1. PICK raw, strict \in BOOLEAN : CreateSession(c, raw, strict)
    BY <1>2 DEF Create
  <2>2. CallTyped(c) /\ Held'
    BY <1>1, <2>1, CreateKeeps
  <2> QED
    BY <1>2, <2>2, ClientCalls DEF Create
<1>3. CASE Start(c)
  <2>1. PICK ok \in BOOLEAN : StartSession(c, ok) /\ ~session[c].running
    BY <1>3 DEF Start
  <2>2. CallTyped(c) /\ Held'
    BY <1>1, <2>1, StartKeeps
  <2> QED
    BY <1>3, <2>2, ClientCalls DEF Start
<1>4. CASE Stop(c)
  <2>1. CallTyped(c) /\ Held'
    BY <1>1, <1>4, StopKeeps DEF Stop
  <2> QED
    BY <1>4, <2>1, ClientCalls DEF Stop
<1>5. CASE Close(c)
  <2>1. CallTyped(c) /\ Held'
    BY <1>1, <1>5, CloseKeeps DEF Close
  <2> QED
    BY <1>5, <2>1, ClientCalls DEF Close
<1>6. CASE Read(c)
  <2>1. /\ UNCHANGED <<heard, session, device, channel, store, sequence, pump>>
        /\ reading' \in Reader /\ reading'.by = c /\ Held'
    BY <1>1, <1>6, BeginReadKeeps DEF Read
  <2>2. Types'
    BY <1>1, <2>1 DEF Types, SessionsTyped, StoreTyped
  <2>3. PumpInv'
    BY <1>1, <2>1 DEF PumpInv
  <2> QED
    BY <2>1, <2>2, <2>3 DEF IInv
<1> QED
  BY <1>2, <1>3, <1>4, <1>5, <1>6

-----------------------------------------------------------------------------
(* The theorems.                                                           *)

(* The inductive invariant holds as long as no client starts a session     *)
(* that runs.                                                              *)
THEOREM LogInvariance == ASSUME ~SecondStarts PROVE Spec => []IInv
<1>1. Init => IInv
  <2> SUFFICES ASSUME Init PROVE IInv
    OBVIOUS
  <2>1. <<>> \in Seq(Part) /\ <<>> \in Seq(Entry) /\ Len(<<>>) = 0
    OBVIOUS
  <2>2. Absent \in SessionState /\ Absent.cursor = 0 /\ ~Absent.exists
    BY <2>1 DEF Absent, SessionState
  <2>3. SessionsTyped /\ StoreTyped
    BY <2>1, <2>2 DEF Init, SessionsTyped, StoreTyped
  <2>4. device \in [Session -> DeviceState] /\ \A s \in Session : ~device[s].manager
    BY DEF Init, NoDevice, DeviceState
  <2>5. pump \in Place /\ pump.at = "decide" /\ ~pump.active
    BY DEF Init, Place, PumpPlaces
  <2>6. Types
    <3>1. heard \in 0 .. 2 * MaxLines
      BY DEF Init
    <3>2. channel \in BOOLEAN /\ sequence \in Nat /\ reading \in Reader
      BY DEF Init, Reader
    <3> QED
      BY <2>3, <2>4, <2>5, <3>1, <3>2 DEF Types
  <2>7. Held
    BY <2>4 DEF Init, Held, HolderInv, OneHolder, SomeHolder
  <2>8. PumpInv
    BY <2>2, <2>5, PumpIsSession DEF Init, PumpInv, NotReading
  <2> QED
    BY <2>6, <2>7, <2>8 DEF IInv
<1>2. IInv /\ [Next]_vars => IInv'
  <2> SUFFICES ASSUME IInv, [Next]_vars PROVE IInv'
    OBVIOUS
  <2>1. CASE ReadStep
    BY <2>1, ReadStepKeeps DEF IInv
  <2>2. CASE PumpStep
    BY <2>2, PumpStepKeeps
  <2>3. CASE RequestStop \/ UNCHANGED vars
    <3>1. UNCHANGED <<heard, session, device, channel, store, sequence,
                      reading, pump>>
      BY <2>3 DEF RequestStop, vars, controller, log
    <3>2. Types'
      BY <3>1 DEF IInv, Types, SessionsTyped, StoreTyped
    <3>3. Held' /\ PumpInv'
      BY <3>1 DEF IInv, Held, HolderInv, OneHolder, SomeHolder, PumpInv
    <3> QED
      BY <3>2, <3>3 DEF IInv
  <2>4. ASSUME NEW c \in Clients,
               Create(c) \/ Start(c) \/ Stop(c) \/ Close(c) \/ Read(c)
        PROVE  IInv'
    BY <2>4, ClientStepKeeps
  <2> QED
    BY <2>1, <2>2, <2>3, <2>4 DEF Next
<1> QED
  BY <1>1, <1>2, PTL DEF Spec

(* The store keeps to kMaxStoredEntries, and no mirror points beyond it.   *)
THEOREM StoreKeepsLimit ==
  ASSUME ~SecondStarts
  PROVE  Spec => [](/\ Len(store) <= MaxStored
                    /\ \A s \in Session : session[s].cursor <= Len(store))
<1>1. IInv => /\ Len(store) <= MaxStored
              /\ \A s \in Session : session[s].cursor <= Len(store)
  BY DEF IInv, Types, SessionsTyped, StoreTyped
<1> QED
  BY <1>1, LogInvariance, PTL

(* The log channel is open exactly while one device has the manager.       *)
THEOREM OneDeviceHasChannel == ASSUME ~SecondStarts PROVE Spec => []ChannelHeld
<1>1. IInv => ChannelHeld
  <2> SUFFICES ASSUME IInv PROVE ChannelHeld
    OBVIOUS
  <2> DEFINE holders == {s \in Session : device[s].manager}
  <2>1. CASE channel
    <3>1. PICK s \in Session : device[s].manager
      BY <2>1 DEF IInv, Held, SomeHolder
    <3>2. holders = {s}
      BY <3>1 DEF IInv, Held, OneHolder
    <3>3. Cardinality(holders) = 1
      BY <3>2, FS_Singleton
    <3> QED
      BY <2>1, <3>3 DEF ChannelHeld
  <2>2. CASE ~channel
    <3>1. holders = {}
      BY <2>2 DEF IInv, Held, HolderInv
    <3>2. Cardinality(holders) = 0
      BY <3>1, FS_EmptySet
    <3> QED
      BY <2>2, <3>2 DEF ChannelHeld
  <2> QED
    BY <2>1, <2>2
<1> QED
  BY <1>1, LogInvariance, PTL

(* The pump's session is closed when the pump thread has ended.            *)
THEOREM PumpLeavesNothing ==
  ASSUME ~SecondStarts
  PROVE  Spec => []StopLeavesNothing
<1>1. IInv => StopLeavesNothing
  BY DEF IInv, PumpInv, StopLeavesNothing
<1> QED
  BY <1>1, LogInvariance, PTL

-----------------------------------------------------------------------------
(* The order of the text, whoever starts sessions.                         *)

(* Each part is kept at one place, and none is kept that is still to come. *)
PartsOK(st, ses, h) ==
  /\ \A i, j \in DOMAIN st : \A a \in DOMAIN st[i].text, b \in DOMAIN st[j].text :
       st[i].text[a] = st[j].text[b] => i = j /\ a = b
  /\ \A s, t \in Session : \A a \in DOMAIN ses[s].pending, b \in DOMAIN ses[t].pending :
       ses[s].pending[a] = ses[t].pending[b] => s = t /\ a = b
  /\ \A s \in Session, i \in DOMAIN st :
       \A a \in DOMAIN ses[s].pending, b \in DOMAIN st[i].text :
         ses[s].pending[a] # st[i].text[b]
  /\ \A i \in DOMAIN st : \A a \in DOMAIN st[i].text : st[i].text[a] <= h
  /\ \A s \in Session : \A a \in DOMAIN ses[s].pending : ses[s].pending[a] <= h

(* The numbers of the entries grow, in the store and for every session,    *)
(* and what a mirror has returned stands before its cursor.                *)
NumbersOK(st, ses, ret, q) ==
  /\ \A i \in DOMAIN st : st[i].sequence < q
  /\ \A i, j \in DOMAIN st : i < j => st[i].sequence < st[j].sequence
  /\ \A s \in Session : \A i \in DOMAIN ret[s] : ret[s][i] < q
  /\ \A s \in Session : \A i, j \in DOMAIN ret[s] : i < j => ret[s][i] < ret[s][j]
  /\ \A s \in Session : ses[s].mirror =>
       \A i \in DOMAIN ret[s], j \in DOMAIN st :
         ses[s].cursor < j => ret[s][i] < st[j].sequence

Sessions == [Session -> SessionState]
Returns == [Session -> Seq(Nat)]

(* A session keeps its text, or begins anew.                               *)
KeepsOrBegins(ses, ses2, ret, ret2) == \A s \in Session :
  \/ /\ ses2[s].pending = ses[s].pending /\ ses2[s].cursor = ses[s].cursor
     /\ ses2[s].mirror = ses[s].mirror /\ ret2[s] = ret[s]
  \/ ses2[s].pending = <<>> /\ ret2[s] = <<>>

LEMMA QuietText ==
  ASSUME NEW st, NEW ses, NEW ses2, NEW ret, NEW ret2, NEW q, NEW h \in Nat, NEW h2 \in Nat,
         KeepsOrBegins(ses, ses2, ret, ret2), h <= h2,
         st \in Seq(Entry), ses \in Sessions,
         PartsOK(st, ses, h), NumbersOK(st, ses, ret, q)
  PROVE  PartsOK(st, ses2, h2) /\ NumbersOK(st, ses2, ret2, q)
<1>1. DOMAIN <<>> = {}
  OBVIOUS
<1>2. \A s \in Session : \A a \in DOMAIN ses2[s].pending :
        a \in DOMAIN ses[s].pending /\ ses2[s].pending = ses[s].pending
  BY <1>1 DEF KeepsOrBegins
<1>3. \A s \in Session : \A a \in DOMAIN ret2[s] :
        /\ a \in DOMAIN ret[s] /\ ret2[s] = ret[s]
        /\ ses2[s].cursor = ses[s].cursor /\ ses2[s].mirror = ses[s].mirror
  BY <1>1 DEF KeepsOrBegins
<1>4. /\ \A i \in DOMAIN st : \A a \in DOMAIN st[i].text : st[i].text[a] \in Nat
      /\ \A s \in Session : \A a \in DOMAIN ses[s].pending : ses[s].pending[a] \in Nat
  <2>1. ASSUME NEW text \in Seq(Part) PROVE \A a \in DOMAIN text : text[a] \in Nat
    BY DEF Part
  <2>a. \A i \in DOMAIN st : st[i] \in Entry
    OBVIOUS
  <2>2. \A i \in DOMAIN st : st[i].text \in Seq(Part)
    BY <2>a DEF Entry
  <2>3. \A s \in Session : ses[s].pending \in Seq(Part)
    BY DEF Sessions, SessionState
  <2> QED BY <2>1, <2>2, <2>3
<1>5. PartsOK(st, ses2, h2)
  <2>1. /\ \A i \in DOMAIN st : \A a \in DOMAIN st[i].text : st[i].text[a] <= h2
        /\ \A s \in Session : \A a \in DOMAIN ses[s].pending : ses[s].pending[a] <= h2
    BY <1>4 DEF PartsOK
  <2> QED BY <1>2, <2>1 DEF PartsOK
<1>6. NumbersOK(st, ses2, ret2, q)
  BY <1>3 DEF NumbersOK
<1> QED BY <1>5, <1>6

(* One entry less in the store.                                            *)
LEMMA TailText ==
  ASSUME NEW st \in Seq(Entry), st # <<>>, NEW ses \in Sessions, NEW ret, NEW q, NEW h,
         PartsOK(st, ses, h), NumbersOK(st, ses, ret, q)
  PROVE  PartsOK(Tail(st), ses, h) /\ NumbersOK(Tail(st), ses, ret, q)
<1>1. PICK tl : tl = Tail(st)
  OBVIOUS
<1>2. /\ tl \in Seq(Entry) /\ DOMAIN st = 1 .. Len(st) /\ Len(st) \in Nat \ {0}
      /\ DOMAIN tl = 1 .. Len(st) - 1
      /\ \A i \in DOMAIN tl : tl[i] = st[i + 1]
  BY <1>1, HeadTailProperties, LenProperties, EmptySeq
<1>3. \A i \in DOMAIN tl : i + 1 \in DOMAIN st /\ i \in Nat
  BY <1>2
<1>4. \A i, j \in DOMAIN tl : i + 1 = j + 1 => i = j
  BY <1>3
<1>5. PartsOK(tl, ses, h)
  BY <1>2, <1>3, <1>4 DEF PartsOK
<1>6. \A s \in Session : ses[s].cursor \in Nat
  BY DEF Sessions, SessionState
<1>7. NumbersOK(tl, ses, ret, q)
  <2>1. \A i, j \in DOMAIN tl : i < j => i + 1 < j + 1
    BY <1>3
  <2>2. \A s \in Session, j \in DOMAIN tl : ses[s].cursor < j => ses[s].cursor < j + 1
    BY <1>3, <1>6
  <2> QED BY <1>2, <1>3, <2>1, <2>2 DEF NumbersOK
<1> QED BY <1>1, <1>5, <1>7

(* Numbers beyond h, and places beyond l.                                  *)
LEMMA Beyond ==
  ASSUME NEW h \in Nat, NEW n \in Nat
  PROVE  /\ \A k \in 1 .. n : h + k <= h + n
         /\ \A x \in Nat : x <= h => x <= h + n
         /\ \A x \in Nat, k \in 1 .. n : x <= h => x # h + k
         /\ \A k, m \in 1 .. n : h + k = h + m => k = m
         /\ \A k \in 1 .. n : h + k \in 1 .. (h + n) /\ ~(h + k <= h) /\ (h + k) - h = k
OBVIOUS

LEMMA Within ==
  ASSUME NEW h \in Nat, NEW n \in Nat, NEW a \in 1 .. (h + n)
  PROVE  a \in 1 .. h \/ \E k \in 1 .. n : a = h + k
<1>1. a \in 1 .. h \/ (a - h \in 1 .. n /\ a = h + (a - h))
  OBVIOUS
<1> QED BY <1>1

(* Text that comes after a pending text p, which has l parts.              *)
Continues(r, p, l, h, n) ==
  \A a \in DOMAIN r :
    \/ a \in DOMAIN p /\ r[a] = p[a]
    \/ \E k \in 1 .. n : a = l + k /\ r[a] = h + k

LEMMA ContinuesBy ==
  ASSUME NEW p, NEW r, NEW h \in Nat, NEW n \in Nat, NEW l \in Nat,
         DOMAIN p = 1 .. l, DOMAIN r = 1 .. (l + n),
         \A a \in 1 .. l : r[a] = p[a], \A k \in 1 .. n : r[l + k] = h + k
  PROVE  Continues(r, p, l, h, n)
<1> SUFFICES ASSUME NEW a \in 1 .. (l + n)
             PROVE  \/ a \in DOMAIN p /\ r[a] = p[a]
                    \/ \E k \in 1 .. n : a = l + k /\ r[a] = h + k
  BY DEF Continues
<1>1. a \in 1 .. l \/ \E k \in 1 .. n : a = l + k
  BY Within
<1> QED BY <1>1

LEMMA MoreText ==
  ASSUME NEW p \in Seq(Part), NEW h \in Nat, NEW n \in Nat, NEW l \in Nat, l = Len(p),
         NEW new, new = [i \in 1 .. n |-> h + i], NEW r, r = p \o new
  PROVE  Continues(r, p, l, h, n)
<1>1. new \in Seq(Nat) /\ Len(new) = n
  OBVIOUS
<1>2. p \in Seq(Nat)
  BY DEF Part
<1>3. DOMAIN p = 1 .. l
  BY <1>2, LenProperties
<1>4. /\ p \o new \in Seq(Nat) /\ Len(p \o new) = l + n
      /\ \A a \in 1 .. (l + n) : (p \o new)[a] = IF a <= l THEN p[a] ELSE new[a - l]
  BY <1>1, <1>2, ConcatProperties
<1>5. DOMAIN r = 1 .. (l + n)
  BY <1>4, LenProperties
<1>6. ASSUME NEW a \in 1 .. l PROVE r[a] = p[a]
  <2>1. a \in 1 .. (l + n) /\ a <= l
    OBVIOUS
  <2> QED BY <1>4, <2>1
<1>7. ASSUME NEW k \in 1 .. n PROVE r[l + k] = h + k
  <2>1. l + k \in 1 .. (l + n) /\ ~(l + k <= l) /\ (l + k) - l = k
    BY Beyond
  <2>2. r[l + k] = new[k]
    BY <1>4, <2>1
  <2>3. new[k] = h + k
    OBVIOUS
  <2> QED BY <2>2, <2>3
<1> QED BY <1>3, <1>5, <1>6, <1>7, ContinuesBy

Hears(ses2, ses, s, h, n) ==
  ses2 = [ses EXCEPT ![s].pending = @ \o [i \in 1 .. n |-> h + i]]

(* More text for a session that reads.                                     *)
LEMMA HeardText ==
  ASSUME NEW st \in Seq(Entry), NEW ses \in Sessions, NEW ses2, NEW ret, NEW q, NEW h \in Nat,
         NEW s \in Session, NEW n \in Nat,
         Hears(ses2, ses, s, h, n),
         PartsOK(st, ses, h), NumbersOK(st, ses, ret, q)
  PROVE  PartsOK(st, ses2, h + n) /\ NumbersOK(st, ses2, ret, q)
<1>1. PICK p, new, r : /\ p = ses[s].pending /\ new = [i \in 1 .. n |-> h + i]
                        /\ r = p \o new
  OBVIOUS
<1>2. p \in Seq(Part)
  BY <1>1 DEF Sessions, SessionState
<1>3. PICK l \in Nat : l = Len(p)
  BY <1>2, LenProperties
<1>4. \A a \in DOMAIN r :
        \/ a \in DOMAIN p /\ r[a] = p[a]
        \/ \E k \in 1 .. n : a = l + k /\ r[a] = h + k
  <2>1. Continues(r, p, l, h, n)
    BY <1>1, <1>2, <1>3, MoreText
  <2> QED BY <2>1 DEF Continues
<1>5. /\ ses2[s].pending = r
      /\ \A t \in Session \ {s} : ses2[t].pending = ses[t].pending
      /\ \A t \in Session : ses2[t].mirror = ses[t].mirror /\ ses2[t].cursor = ses[t].cursor
  <2>1. PICK e \in SessionState : e = ses[s] /\ p = e.pending
    BY <1>1 DEF Sessions
  <2>2. ses2 = [ses EXCEPT ![s] = [e EXCEPT !.pending = r]]
    BY <1>1, <2>1 DEF Hears
  <2>3. ses2[s] = [e EXCEPT !.pending = r] /\ \A t \in Session \ {s} : ses2[t] = ses[t]
    BY <2>2 DEF Sessions
  <2>4. ses2[s].pending = r /\ ses2[s].mirror = e.mirror /\ ses2[s].cursor = e.cursor
    BY <2>3 DEF SessionState
  <2> QED BY <2>1, <2>3, <2>4
<1>6. /\ \A i \in DOMAIN st : \A a \in DOMAIN st[i].text : st[i].text[a] \in Nat /\ st[i].text[a] <= h
      /\ \A t \in Session : \A a \in DOMAIN ses[t].pending :
           ses[t].pending[a] \in Nat /\ ses[t].pending[a] <= h
  <2>1. ASSUME NEW text \in Seq(Part) PROVE \A a \in DOMAIN text : text[a] \in Nat
    BY DEF Part
  <2>a. \A i \in DOMAIN st : st[i] \in Entry
    OBVIOUS
  <2>2. \A i \in DOMAIN st : st[i].text \in Seq(Part)
    BY <2>a DEF Entry
  <2>3. \A t \in Session : ses[t].pending \in Seq(Part)
    BY DEF Sessions, SessionState
  <2> QED BY <2>1, <2>2, <2>3 DEF PartsOK
<1>7. ASSUME NEW t \in Session, NEW a \in DOMAIN ses2[t].pending
      PROVE  \/ /\ a \in DOMAIN ses[t].pending
                /\ ses2[t].pending[a] = ses[t].pending[a]
                /\ ses2[t].pending[a] \in Nat /\ ses2[t].pending[a] <= h
             \/ /\ t = s
                /\ \E k \in 1 .. n : a = l + k /\ ses2[t].pending[a] = h + k
  <2>1. CASE t = s
    <3>1. a \in DOMAIN r /\ ses2[t].pending[a] = r[a]
      BY <1>5, <2>1
    <3>2. CASE a \in DOMAIN p /\ r[a] = p[a]
      <4>1. a \in DOMAIN ses[t].pending /\ ses2[t].pending[a] = ses[t].pending[a]
        BY <1>1, <2>1, <3>1, <3>2
      <4> QED BY <1>6, <4>1
    <3>3. CASE \E k \in 1 .. n : a = l + k /\ r[a] = h + k
      BY <2>1, <3>1, <3>3
    <3> QED BY <1>4, <3>1, <3>2, <3>3
  <2>2. CASE t # s
    <3>1. ses2[t].pending = ses[t].pending
      BY <1>5, <2>2
    <3> QED BY <1>6, <3>1
  <2> QED BY <2>1, <2>2
<1>b. /\ \A k \in 1 .. n : h + k <= h + n
      /\ \A x \in Nat : x <= h => x <= h + n
      /\ \A x \in Nat, k \in 1 .. n : x <= h => x # h + k
      /\ \A k, m \in 1 .. n : h + k = h + m => k = m
  BY Beyond
<1> DEFINE old(v, c) == /\ c \in DOMAIN ses[v].pending
                        /\ ses2[v].pending[c] = ses[v].pending[c]
                        /\ ses2[v].pending[c] \in Nat /\ ses2[v].pending[c] <= h
           fresh(v, c) == /\ v = s
                          /\ \E k \in 1 .. n : c = l + k /\ ses2[v].pending[c] = h + k
<1>a. \A t \in Session : \A a \in DOMAIN ses2[t].pending : old(t, a) \/ fresh(t, a)
  BY <1>7
<1>8. ASSUME NEW t \in Session, NEW u \in Session,
             NEW a \in DOMAIN ses2[t].pending, NEW b \in DOMAIN ses2[u].pending,
             ses2[t].pending[a] = ses2[u].pending[b]
      PROVE  t = u /\ a = b
  <2>1. CASE old(t, a) /\ old(u, b)
    <3>1. /\ a \in DOMAIN ses[t].pending /\ b \in DOMAIN ses[u].pending
          /\ ses[t].pending[a] = ses[u].pending[b]
      BY <1>8, <2>1
    <3>2. \A v, w \in Session :
            \A x \in DOMAIN ses[v].pending, y \in DOMAIN ses[w].pending :
              ses[v].pending[x] = ses[w].pending[y] => v = w /\ x = y
      BY DEF PartsOK
    <3> QED BY <3>1, <3>2
  <2>2. CASE fresh(t, a) /\ fresh(u, b)
    <3>1. PICK k, m \in 1 .. n : /\ a = l + k /\ ses2[t].pending[a] = h + k
                                 /\ b = l + m /\ ses2[u].pending[b] = h + m
      BY <2>2
    <3>2. k = m
      BY <1>8, <1>b, <3>1, Zenon
    <3> QED BY <2>2, <3>1, <3>2
  <2>3. ASSUME NEW v \in Session, NEW w \in Session, NEW c, NEW d, old(v, c), fresh(w, d)
        PROVE  ses2[v].pending[c] # ses2[w].pending[d]
    <3>1. PICK k \in 1 .. n : ses2[w].pending[d] = h + k
      BY <2>3
    <3>2. ses2[v].pending[c] \in Nat /\ ses2[v].pending[c] <= h
      BY <2>3
    <3> QED BY <1>b, <3>1, <3>2, Zenon
  <2>4. CASE old(t, a) /\ fresh(u, b)
    BY <1>8, <2>3, <2>4
  <2>5. CASE fresh(t, a) /\ old(u, b)
    BY <1>8, <2>3, <2>5
  <2> HIDE DEF old, fresh
  <2> QED BY <1>a, <2>1, <2>2, <2>4, <2>5
<1>9. ASSUME NEW t \in Session, NEW i \in DOMAIN st,
             NEW a \in DOMAIN ses2[t].pending, NEW b \in DOMAIN st[i].text
      PROVE  ses2[t].pending[a] # st[i].text[b]
  <2>1. st[i].text[b] \in Nat /\ st[i].text[b] <= h
    BY <1>6
  <2>2. CASE old(t, a)
    BY <2>2 DEF PartsOK
  <2>3. CASE fresh(t, a)
    <3>1. PICK k \in 1 .. n : ses2[t].pending[a] = h + k
      BY <2>3
    <3> QED BY <1>b, <2>1, <3>1, Zenon
  <2> QED BY <1>a, <2>2, <2>3
<1>10. ASSUME NEW t \in Session, NEW a \in DOMAIN ses2[t].pending
       PROVE  ses2[t].pending[a] <= h + n
  <2>1. CASE old(t, a)
    BY <1>b, <2>1, Zenon
  <2>2. CASE fresh(t, a)
    <3>1. PICK k \in 1 .. n : ses2[t].pending[a] = h + k
      BY <2>2
    <3> QED BY <1>b, <3>1, Zenon
  <2> QED BY <1>a, <2>1, <2>2
<1>11. ASSUME NEW i \in DOMAIN st, NEW a \in DOMAIN st[i].text PROVE st[i].text[a] <= h + n
  BY <1>6, Beyond
<1>12. PartsOK(st, ses2, h + n)
  BY <1>8, <1>9, <1>10, <1>11 DEF PartsOK
<1>13. NumbersOK(st, ses2, ret, q)
  BY <1>5 DEF NumbersOK
<1> QED BY <1>12, <1>13

(* A text and what is left of it.                                          *)
Splits(text, left, p, d) ==
  /\ \A a \in DOMAIN text : a \in DOMAIN p /\ a <= d /\ text[a] = p[a]
  /\ \A a \in DOMAIN left : a + d \in DOMAIN p /\ a > 0 /\ left[a] = p[a + d]

Leaves(ses2, ses, s, left) == ses2 = [ses EXCEPT ![s].pending = left]

(* The text that a session has parsed leaves its pending text.             *)
LEMMA DropText ==
  ASSUME NEW st \in Seq(Entry), NEW ses \in Sessions, NEW ses2, NEW ret, NEW q \in Nat, NEW h,
         NEW s \in Session, NEW text \in Seq(Part), NEW left \in Seq(Part), NEW d \in Nat,
         Splits(text, left, ses[s].pending, d),
         Leaves(ses2, ses, s, left),
         PartsOK(st, ses, h), NumbersOK(st, ses, ret, q), ret \in Returns
  PROVE  PartsOK(st, ses2, h) /\ NumbersOK(st, ses2, ret, q + 1)
<1>1. /\ ses2[s].pending = left
      /\ \A t \in Session \ {s} : ses2[t].pending = ses[t].pending
      /\ \A t \in Session : ses2[t].mirror = ses[t].mirror /\ ses2[t].cursor = ses[t].cursor
  <2>1. PICK e \in SessionState : e = ses[s]
    BY DEF Sessions
  <2>2. ses2 = [ses EXCEPT ![s] = [e EXCEPT !.pending = left]]
    BY <2>1 DEF Leaves
  <2>3. ses2[s] = [e EXCEPT !.pending = left] /\ \A t \in Session \ {s} : ses2[t] = ses[t]
    BY <2>2 DEF Sessions
  <2>4. ses2[s].pending = left /\ ses2[s].mirror = e.mirror /\ ses2[s].cursor = e.cursor
    BY <2>3 DEF SessionState
  <2> QED BY <2>1, <2>3, <2>4
<1>2. \A t \in Session : \A a \in DOMAIN ses2[t].pending :
        LET b == IF t = s THEN a + d ELSE a
        IN b \in DOMAIN ses[t].pending /\ ses2[t].pending[a] = ses[t].pending[b]
  BY <1>1 DEF Splits
<1>3. \A t \in Session : \A a, b \in DOMAIN ses2[t].pending : a + d = b + d => a = b
  <2>1. \A t \in Session : ses2[t].pending \in Seq(Part)
    BY <1>1 DEF Sessions, SessionState
  <2>2. \A t \in Session : \A a \in DOMAIN ses2[t].pending : a \in Nat
    <3> SUFFICES ASSUME NEW t \in Session, NEW a \in DOMAIN ses2[t].pending PROVE a \in Nat
      OBVIOUS
    <3>1. ses2[t].pending \in Seq(Part)
      BY <2>1
    <3> QED BY <3>1
  <2> QED BY <2>2
<1>4. PartsOK(st, ses2, h)
  <2>1. ASSUME NEW t \in Session, NEW u \in Session,
               NEW a \in DOMAIN ses2[t].pending, NEW b \in DOMAIN ses2[u].pending,
               ses2[t].pending[a] = ses2[u].pending[b]
        PROVE  t = u /\ a = b
    <3>1. PICK c \in DOMAIN ses[t].pending :
            c = (IF t = s THEN a + d ELSE a) /\ ses2[t].pending[a] = ses[t].pending[c]
      BY <1>2
    <3>2. PICK e \in DOMAIN ses[u].pending :
            e = (IF u = s THEN b + d ELSE b) /\ ses2[u].pending[b] = ses[u].pending[e]
      BY <1>2
    <3>3. t = u /\ c = e
      <4>1. ses[t].pending[c] = ses[u].pending[e]
        BY <2>1, <3>1, <3>2
      <4>2. \A v, w \in Session :
              \A x \in DOMAIN ses[v].pending, y \in DOMAIN ses[w].pending :
                ses[v].pending[x] = ses[w].pending[y] => v = w /\ x = y
        BY DEF PartsOK
      <4>3. c \in DOMAIN ses[t].pending /\ e \in DOMAIN ses[u].pending
        BY <3>1, <3>2
      <4>4. t = u
        BY <4>1, <4>2, <4>3
      <4>5. c = e
        BY <4>1, <4>2, <4>3
      <4> QED BY <4>4, <4>5
    <3> QED BY <1>3, <3>1, <3>2, <3>3
  <2>2. \A t \in Session, i \in DOMAIN st :
          \A a \in DOMAIN ses2[t].pending, b \in DOMAIN st[i].text :
            ses2[t].pending[a] # st[i].text[b]
    BY <1>2 DEF PartsOK
  <2>3. \A t \in Session : \A a \in DOMAIN ses2[t].pending : ses2[t].pending[a] <= h
    BY <1>2 DEF PartsOK
  <2> QED BY <2>1, <2>2, <2>3 DEF PartsOK
<1>5. NumbersOK(st, ses2, ret, q + 1)
  <2>1. /\ \A i \in DOMAIN st : st[i].sequence \in Nat
        /\ \A t \in Session : \A i \in DOMAIN ret[t] : ret[t][i] \in Nat
    <3>1. \A i \in DOMAIN st : st[i] \in Entry
      OBVIOUS
    <3>2. \A t \in Session : ret[t] \in Seq(Nat)
      BY DEF Returns
    <3>3. ASSUME NEW r \in Seq(Nat) PROVE \A i \in DOMAIN r : r[i] \in Nat
      OBVIOUS
    <3> QED BY <3>1, <3>2, <3>3 DEF Entry
  <2>2. /\ \A i \in DOMAIN st : st[i].sequence < q + 1
        /\ \A t \in Session : \A i \in DOMAIN ret[t] : ret[t][i] < q + 1
    BY <2>1 DEF NumbersOK
  <2> QED BY <1>1, <2>2 DEF NumbersOK
<1> QED BY <1>4, <1>5

(* What Append adds comes last.                                            *)
Adds(g, r, x, n) ==
  /\ \A i \in DOMAIN g :
       (i \in DOMAIN r /\ g[i] = r[i]) \/ (i \notin DOMAIN r /\ i = n /\ g[i] = x)
  /\ \A i \in DOMAIN r : i < n /\ ~(n < i)
  /\ ~(n < n)

LEMMA AddsLast ==
  ASSUME NEW S, NEW r \in Seq(S), NEW x \in S, NEW g, g = Append(r, x)
  PROVE  Adds(g, r, x, Len(r) + 1)
<1>1. PICK n \in Nat : n = Len(r)
  BY LenProperties
<1>2. DOMAIN r = 1 .. n
  BY <1>1, LenProperties
<1>3. g \in Seq(S) /\ Len(g) = n + 1 /\ g[n + 1] = x /\ \A i \in 1 .. n : g[i] = r[i]
  BY <1>1, AppendProperties
<1>4. DOMAIN g = 1 .. (n + 1)
  BY <1>3, LenProperties
<1>5. ASSUME NEW i \in 1 .. (n + 1)
      PROVE  i \in 1 .. n \/ (i \notin 1 .. n /\ i = n + 1)
  OBVIOUS
<1>6. (\A i \in 1 .. n : i < n + 1 /\ ~(n + 1 < i)) /\ ~(n + 1 < n + 1)
  OBVIOUS
<1>7. \A i \in DOMAIN g : \/ i \in DOMAIN r /\ g[i] = r[i]
                          \/ i \notin DOMAIN r /\ i = n + 1 /\ g[i] = x
  BY <1>2, <1>3, <1>4, <1>5
<1> QED BY <1>1, <1>2, <1>6, <1>7 DEF Adds

Gains(ret2, ret, s, q) == ret2 = [ret EXCEPT ![s] = Append(@, q)]

(* A parsed text becomes the next entry of the session that reads it.      *)
LEMMA EntryText ==
  ASSUME NEW st \in Seq(Entry), NEW ses \in Sessions, NEW ses2, NEW ret \in Returns, NEW ret2,
         NEW q \in Nat, NEW h, NEW s \in Session,
         NEW text \in Seq(Part), NEW left \in Seq(Part), NEW d \in Nat,
         Splits(text, left, ses[s].pending, d),
         Leaves(ses2, ses, s, left), ~ses[s].mirror,
         Gains(ret2, ret, s, q),
         NEW e \in Entry, e.text = text, e.sequence = q,
         NEW st2, st2 = Append(st, e),
         PartsOK(st, ses, h), NumbersOK(st, ses, ret, q)
  PROVE  PartsOK(st2, ses2, h) /\ NumbersOK(st2, ses2, ret2, q + 1)
<1>1. PartsOK(st, ses2, h) /\ NumbersOK(st, ses2, ret, q + 1)
  BY DropText
<1>2. PICK n : n = Len(st) + 1
  OBVIOUS
<1>3. /\ \A i \in DOMAIN st2 : \/ i \in DOMAIN st /\ st2[i] = st[i]
                               \/ i \notin DOMAIN st /\ i = n /\ st2[i] = e
      /\ \A i \in DOMAIN st : i < n /\ ~(n < i)
      /\ ~(n < n)
  <2>1. Adds(st2, st, e, n)
    BY <1>2, AddsLast
  <2> QED BY <2>1 DEF Adds
<1>4. /\ ses2[s].pending = left /\ ses2[s].mirror = FALSE
      /\ \A t \in Session \ {s} : ses2[t].pending = ses[t].pending
  <2>1. PICK f \in SessionState : f = ses[s]
    BY DEF Sessions
  <2>2. ses2 = [ses EXCEPT ![s] = [f EXCEPT !.pending = left]]
    BY <2>1 DEF Leaves
  <2>3. ses2[s] = [f EXCEPT !.pending = left] /\ \A t \in Session \ {s} : ses2[t] = ses[t]
    BY <2>2 DEF Sessions
  <2>4. ses2[s].pending = left /\ ses2[s].mirror = f.mirror
    BY <2>3 DEF SessionState
  <2>5. f.mirror = FALSE
    BY <2>1 DEF SessionState
  <2> QED BY <2>3, <2>4, <2>5
<1>5. \A a \in DOMAIN text : a \in DOMAIN ses[s].pending /\ text[a] = ses[s].pending[a]
  BY DEF Splits
<1>6. ASSUME NEW i \in DOMAIN st, NEW a \in DOMAIN st[i].text, NEW b \in DOMAIN text
      PROVE  st[i].text[a] # text[b]
  BY <1>5 DEF PartsOK
<1>7. ASSUME NEW t \in Session, NEW a \in DOMAIN ses2[t].pending, NEW b \in DOMAIN text
      PROVE  ses2[t].pending[a] # text[b]
  <2>1. CASE t # s
    <3>1. ses2[t].pending = ses[t].pending /\ a \in DOMAIN ses[t].pending
      BY <1>4, <2>1
    <3>2. ses[t].pending[a] # ses[s].pending[b]
      BY <1>5, <2>1, <3>1 DEF PartsOK
    <3> QED BY <1>5, <3>1, <3>2
  <2>2. CASE t = s
    <3>1. a \in DOMAIN left
      BY <1>4, <2>2
    <3>2. PICK x \in Nat : x = a /\ x > 0
      BY <3>1 DEF Splits
    <3>3. /\ a + d \in DOMAIN ses[s].pending
          /\ left[a] = ses[s].pending[a + d]
      BY <3>1 DEF Splits
    <3>4. PICK y \in Nat : y = b /\ y <= d
      BY DEF Splits
    <3>5. x + d # y
      BY <3>2, <3>4
    <3>6. a + d # b
      BY <3>2, <3>4, <3>5
    <3>7. ses[s].pending[a + d] # ses[s].pending[b]
      BY <1>5, <3>3, <3>6 DEF PartsOK
    <3> QED BY <1>4, <1>5, <2>2, <3>3, <3>7
  <2> QED BY <2>1, <2>2
<1>8. PartsOK(st2, ses2, h)
  <2>1. ASSUME NEW i \in DOMAIN st2, NEW j \in DOMAIN st2,
               NEW a \in DOMAIN st2[i].text, NEW b \in DOMAIN st2[j].text,
               st2[i].text[a] = st2[j].text[b]
        PROVE  i = j /\ a = b
    <3>1. CASE st2[i] = st[i] /\ st2[j] = st[j] /\ i \in DOMAIN st /\ j \in DOMAIN st
      BY <2>1, <3>1 DEF PartsOK
    <3>2. CASE st2[i] = st[i] /\ i \in DOMAIN st /\ st2[j] = e
      BY <1>6, <2>1, <3>2
    <3>3. CASE st2[i] = e /\ st2[j] = st[j] /\ j \in DOMAIN st
      BY <1>6, <2>1, <3>3
    <3>4. CASE i = n /\ j = n /\ st2[i] = e /\ st2[j] = e
      BY <1>5, <2>1, <3>4 DEF PartsOK
    <3> QED BY <1>3, <3>1, <3>2, <3>3, <3>4
  <2>2. ASSUME NEW t \in Session, NEW i \in DOMAIN st2,
               NEW a \in DOMAIN ses2[t].pending, NEW b \in DOMAIN st2[i].text
        PROVE  ses2[t].pending[a] # st2[i].text[b]
    <3>1. CASE st2[i] = st[i] /\ i \in DOMAIN st
      BY <1>1, <3>1 DEF PartsOK
    <3>2. CASE st2[i] = e
      BY <1>7, <3>2
    <3> QED BY <1>3, <3>1, <3>2
  <2>3. ASSUME NEW i \in DOMAIN st2, NEW a \in DOMAIN st2[i].text PROVE st2[i].text[a] <= h
    <3>1. CASE st2[i] = st[i] /\ i \in DOMAIN st
      BY <3>1 DEF PartsOK
    <3>2. CASE st2[i] = e
      BY <1>5, <3>2 DEF PartsOK
    <3> QED BY <1>3, <3>1, <3>2
  <2> QED BY <1>1, <2>1, <2>2, <2>3 DEF PartsOK
<1>9. NumbersOK(st2, ses2, ret2, q + 1)
  <2>1. q < q + 1
    OBVIOUS
  <2>2. /\ \A i \in DOMAIN st2 : st2[i].sequence < q + 1
        /\ \A i, j \in DOMAIN st2 : i < j => st2[i].sequence < st2[j].sequence
    <3>1. \A i \in DOMAIN st : st[i].sequence < q
      BY DEF NumbersOK
    <3>2. ASSUME NEW i \in DOMAIN st2 PROVE st2[i].sequence < q + 1
      BY <1>1, <1>3, <2>1 DEF NumbersOK
    <3>3. ASSUME NEW i \in DOMAIN st2, NEW j \in DOMAIN st2, i < j
          PROVE  st2[i].sequence < st2[j].sequence
      <4>1. CASE st2[i] = st[i] /\ st2[j] = st[j] /\ i \in DOMAIN st /\ j \in DOMAIN st
        BY <3>3, <4>1 DEF NumbersOK
      <4>2. CASE st2[i] = st[i] /\ i \in DOMAIN st /\ st2[j] = e
        BY <3>1, <4>2
      <4>3. ~(i = n /\ (j \in DOMAIN st \/ j = n))
        BY <1>3, <3>3
      <4> QED BY <1>3, <4>1, <4>2, <4>3
    <3> QED BY <3>2, <3>3
  <2>3. /\ \A t \in Session \ {s} : ret2[t] = ret[t]
        /\ ret2[s] = Append(ret[s], q)
    BY DEF Returns, Gains
  <2>4. PICK r, m : r = ret[s] /\ m = Len(r) + 1
    OBVIOUS
  <2>5. r \in Seq(Nat)
    BY <2>4 DEF Returns
  <2>6. /\ \A i \in DOMAIN ret2[s] : \/ i \in DOMAIN r /\ ret2[s][i] = r[i]
                                     \/ i \notin DOMAIN r /\ i = m /\ ret2[s][i] = q
        /\ \A i \in DOMAIN r : i < m /\ ~(m < i)
        /\ ~(m < m)
    <3>1. q \in Nat /\ ret2[s] = Append(r, q)
      BY <2>3, <2>4
    <3>2. Adds(ret2[s], r, q, m)
      BY <2>4, <2>5, <3>1, AddsLast
    <3> QED BY <3>2 DEF Adds
  <2>7. /\ \A i \in DOMAIN r : r[i] < q /\ r[i] < q + 1
        /\ \A i, j \in DOMAIN r : i < j => r[i] < r[j]
    BY <1>1, <2>4 DEF NumbersOK
  <2>8. ASSUME NEW t \in Session, NEW i \in DOMAIN ret2[t] PROVE ret2[t][i] < q + 1
    <3>1. CASE t = s
      BY <2>1, <2>6, <2>7, <3>1
    <3>2. CASE t # s
      BY <1>1, <2>3, <3>2 DEF NumbersOK
    <3> QED BY <3>1, <3>2
  <2>9. ASSUME NEW t \in Session, NEW i \in DOMAIN ret2[t], NEW j \in DOMAIN ret2[t], i < j
        PROVE  ret2[t][i] < ret2[t][j]
    <3>1. CASE t = s
      <4>1. ~(i = m /\ (j \in DOMAIN r \/ j = m))
        BY <2>6, <2>9
      <4>2. i \in DOMAIN r /\ ret2[s][i] = r[i]
        BY <2>6, <3>1, <4>1
      <4>3. CASE j \in DOMAIN r /\ ret2[s][j] = r[j]
        BY <2>7, <2>9, <3>1, <4>2, <4>3
      <4>4. CASE ret2[s][j] = q
        BY <2>7, <3>1, <4>2, <4>4
      <4> QED BY <2>6, <3>1, <4>3, <4>4
    <3>2. CASE t # s
      BY <2>3, <2>9, <3>2 DEF NumbersOK
    <3> QED BY <3>1, <3>2
  <2>10. ASSUME NEW t \in Session, ses2[t].mirror, NEW i \in DOMAIN ret2[t], NEW j \in DOMAIN st2,
                ses2[t].cursor < j
         PROVE  ret2[t][i] < st2[j].sequence
    <3>1. t # s /\ ret2[t] = ret[t]
      BY <1>4, <2>3, <2>10
    <3>2. CASE st2[j] = st[j] /\ j \in DOMAIN st
      BY <1>1, <2>10, <3>1, <3>2 DEF NumbersOK
    <3>3. CASE st2[j] = e
      BY <3>1, <3>3 DEF NumbersOK
    <3> QED BY <1>3, <3>2, <3>3
  <2> QED BY <2>2, <2>8, <2>9, <2>10 DEF NumbersOK
<1> QED BY <1>8, <1>9

MirrorsOn(ses2, ses, ret2, ret, st, s, c) ==
  /\ ses2 = [ses EXCEPT ![s].cursor = c + 1]
  /\ ret2 \in {ret, [ret EXCEPT ![s] = Append(@, st[c + 1].sequence)]}

(* A mirror has read on: the next entry of the store, or one it leaves out.*)
LEMMA MirrorText ==
  ASSUME NEW st \in Seq(Entry), NEW ses \in Sessions, NEW ses2, NEW ret \in Returns, NEW ret2,
         NEW q \in Nat, NEW h, NEW s \in Session, NEW c \in Nat,
         ses[s].mirror, ses[s].cursor = c, c + 1 \in DOMAIN st,
         MirrorsOn(ses2, ses, ret2, ret, st, s, c),
         PartsOK(st, ses, h), NumbersOK(st, ses, ret, q)
  PROVE  /\ ses2 \in Sessions /\ ret2 \in Returns
         /\ \A t \in Session : ses2[t].mirror = ses[t].mirror
         /\ PartsOK(st, ses2, h) /\ NumbersOK(st, ses2, ret2, q)
<1>1. /\ ses2 \in Sessions
      /\ ses2[s].cursor = c + 1
      /\ \A t \in Session \ {s} : ses2[t].cursor = ses[t].cursor
      /\ \A t \in Session : ses2[t].pending = ses[t].pending /\ ses2[t].mirror = ses[t].mirror
  <2>1. PICK f \in SessionState : f = ses[s]
    BY DEF Sessions
  <2>2. PICK n \in Nat : n = c + 1
    OBVIOUS
  <2>3. PICK g : g = [f EXCEPT !.cursor = n]
    OBVIOUS
  <2>4. ses2 = [ses EXCEPT ![s] = g]
    BY <2>1, <2>2, <2>3 DEF MirrorsOn
  <2>5. g \in SessionState /\ g.cursor = n /\ g.pending = f.pending /\ g.mirror = f.mirror
    BY <2>1, <2>2, <2>3 DEF SessionState
  <2>6. ses2 \in Sessions /\ ses2[s] = g /\ \A t \in Session \ {s} : ses2[t] = ses[t]
    BY <2>4, <2>5 DEF Sessions
  <2> QED BY <2>1, <2>2, <2>5, <2>6
<1>2. PartsOK(st, ses2, h)
  BY <1>1 DEF PartsOK
<1>3. PICK e \in Entry : e = st[c + 1]
  OBVIOUS
<1>4. PICK q0 \in Nat : q0 = st[c + 1].sequence
  BY <1>3 DEF Entry
<1>5. \A t \in Session, j \in DOMAIN st : ses2[t].cursor < j => ses[t].cursor < j
  <2>1. \A j \in DOMAIN st : c + 1 < j => c < j
    OBVIOUS
  <2> QED BY <1>1, <2>1
<1>6. c < c + 1
  OBVIOUS
<1>7. CASE ret2 = ret
  BY <1>1, <1>2, <1>5, <1>7 DEF NumbersOK
<1>8. CASE ret2 = [ret EXCEPT ![s] = Append(@, st[c + 1].sequence)]
  <2>1. PICK r, m : r = ret[s] /\ m = Len(r) + 1
    OBVIOUS
  <2>2. r \in Seq(Nat)
    BY <2>1 DEF Returns
  <2>3. /\ \A t \in Session \ {s} : ret2[t] = ret[t]
        /\ ret2[s] = Append(r, q0)
        /\ ret2 \in Returns
    <3>1. ret2 = [ret EXCEPT ![s] = Append(r, q0)]
      BY <1>4, <1>8, <2>1
    <3>2. Append(r, q0) \in Seq(Nat)
      BY <2>2, AppendProperties
    <3> QED BY <3>1, <3>2 DEF Returns
  <2>4. /\ \A i \in DOMAIN ret2[s] : \/ i \in DOMAIN r /\ ret2[s][i] = r[i]
                                     \/ i \notin DOMAIN r /\ i = m /\ ret2[s][i] = q0
        /\ \A i \in DOMAIN r : i < m /\ ~(m < i)
        /\ ~(m < m)
    <3>1. Adds(ret2[s], r, q0, m)
      BY <2>1, <2>2, <2>3, AddsLast
    <3> QED BY <3>1 DEF Adds
  <2>5. /\ q0 < q
        /\ \A i \in DOMAIN r : r[i] < q
        /\ \A i, j \in DOMAIN r : i < j => r[i] < r[j]
        /\ \A i \in DOMAIN r : r[i] < q0
    BY <1>4, <1>6, <2>1 DEF NumbersOK
  <2>6. ASSUME NEW t \in Session, NEW i \in DOMAIN ret2[t] PROVE ret2[t][i] < q
    <3>1. CASE t = s
      BY <2>4, <2>5, <3>1
    <3>2. CASE t # s
      BY <2>3, <3>2 DEF NumbersOK
    <3> QED BY <3>1, <3>2
  <2>7. ASSUME NEW t \in Session, NEW i \in DOMAIN ret2[t], NEW j \in DOMAIN ret2[t], i < j
        PROVE  ret2[t][i] < ret2[t][j]
    <3>1. CASE t = s
      <4>1. ~(i = m /\ (j \in DOMAIN r \/ j = m))
        BY <2>4, <2>7
      <4>2. i \in DOMAIN r /\ ret2[s][i] = r[i]
        BY <2>4, <3>1, <4>1
      <4>3. CASE j \in DOMAIN r /\ ret2[s][j] = r[j]
        BY <2>5, <2>7, <3>1, <4>2, <4>3
      <4>4. CASE ret2[s][j] = q0
        BY <2>5, <3>1, <4>2, <4>4
      <4> QED BY <2>4, <3>1, <4>3, <4>4
    <3>2. CASE t # s
      BY <2>3, <2>7, <3>2 DEF NumbersOK
    <3> QED BY <3>1, <3>2
  <2>8. ASSUME NEW t \in Session, ses2[t].mirror, NEW i \in DOMAIN ret2[t], NEW j \in DOMAIN st,
               ses2[t].cursor < j
        PROVE  ret2[t][i] < st[j].sequence
    <3>1. CASE t = s
      <4>1. q0 < st[j].sequence
        BY <1>1, <1>4, <2>8, <3>1 DEF NumbersOK
      <4>2. ret2[s][i] = q0 \/ (i \in DOMAIN r /\ ret2[s][i] = r[i])
        BY <2>4, <3>1
      <4>3. \A k \in DOMAIN r : r[k] < st[j].sequence
        BY <1>1, <1>5, <2>1, <2>8, <3>1 DEF NumbersOK
      <4> QED BY <3>1, <4>1, <4>2, <4>3
    <3>2. CASE t # s
      BY <1>1, <2>3, <2>8, <3>2 DEF NumbersOK
    <3> QED BY <3>1, <3>2
  <2>9. /\ \A i \in DOMAIN st : st[i].sequence < q
        /\ \A i, j \in DOMAIN st : i < j => st[i].sequence < st[j].sequence
    BY DEF NumbersOK
  <2>10. NumbersOK(st, ses2, ret2, q)
    BY <2>6, <2>7, <2>8, <2>9 DEF NumbersOK
  <2> QED BY <1>1, <1>2, <2>3, <2>10
<1> QED BY <1>1, <1>2, <1>7, <1>8 DEF MirrorsOn

(* The whole text, and its first line, with what is left of it.            *)
LEMMA WholeText ==
  ASSUME NEW p \in Seq(Part)
  PROVE  Splits(p, <<>>, p, Len(p))
<1>1. Len(p) \in Nat /\ DOMAIN p = 1 .. Len(p) /\ DOMAIN <<>> = {}
  BY LenProperties
<1> QED BY <1>1 DEF Splits

LEMMA FirstLine ==
  ASSUME NEW p \in Seq(Part), NEW end \in 1 .. Len(p)
  PROVE  /\ Splits(SubSeq(p, 1, end), SubSeq(p, end + 1, Len(p)), p, end)
         /\ SubSeq(p, 1, end) \in Seq(Part) /\ SubSeq(p, end + 1, Len(p)) \in Seq(Part)
<1>1. PICK l \in Nat : l = Len(p)
  BY LenProperties
<1>2. PICK a, b : a = SubSeq(p, 1, end) /\ b = SubSeq(p, end + 1, l)
  OBVIOUS
<1>3. DOMAIN p = 1 .. l /\ end \in 1 .. l
  BY <1>1, LenProperties
<1>4. a \in Seq(Part) /\ Len(a) = end /\ \A i \in 1 .. end : a[i] = p[i]
  BY <1>1, <1>2, <1>3, SubSeqProperties
<1>5. b \in Seq(Part) /\ Len(b) = l - end /\ \A i \in 1 .. (l - end) : b[i] = p[end + i]
  BY <1>1, <1>2, <1>3, SubSeqProperties
<1>6. DOMAIN a = 1 .. end /\ DOMAIN b = 1 .. (l - end)
  BY <1>4, <1>5, LenProperties
<1>7. \A i \in 1 .. end : i \in 1 .. l /\ i <= end
  BY <1>3
<1>8. \A i \in 1 .. (l - end) : i + end \in 1 .. l /\ i > 0 /\ i + end = end + i
  BY <1>3
<1>9. Splits(a, b, p, end)
  BY <1>3, <1>4, <1>5, <1>6, <1>7, <1>8 DEF Splits
<1> QED BY <1>1, <1>2, <1>4, <1>5, <1>9

-----------------------------------------------------------------------------
(* What the service keeps of the text.                                     *)

TextTypes ==
  /\ session \in Sessions
  /\ store \in Seq(Entry)
  /\ returned \in Returns
  /\ heard \in 0 .. 2 * MaxLines
  /\ sequence \in Nat
  /\ reading \in Reader

(* Only a session of its own takes text, and only a mirror mirrors.        *)
ReaderInv ==
  /\ reading.at \in {"chunk", "parse"} => ~session[reading.by].mirror
  /\ reading.at = "mirror" => session[reading.by].mirror

TextInv ==
  /\ TextTypes
  /\ ReaderInv
  /\ PartsOK(store, session, heard)
  /\ NumbersOK(store, session, returned, sequence)

(* A step that at most lets sessions begin anew.                           *)
LEMMA QuietKeeps ==
  ASSUME TextInv, session' \in Sessions, returned' \in Returns,
         KeepsOrBegins(session, session', returned, returned'),
         UNCHANGED <<store, sequence>>,
         heard' \in 0 .. 2 * MaxLines, heard <= heard', reading' \in Reader, ReaderInv'
  PROVE  TextInv'
<1>1. PICK st, ses, ses2, ret, ret2, q, h, h2 :
        /\ st = store /\ ses = session /\ ses2 = session' /\ ret = returned
        /\ ret2 = returned' /\ q = sequence /\ h = heard /\ h2 = heard'
  OBVIOUS
<1>2. /\ h \in Nat /\ h2 \in Nat /\ h <= h2
      /\ st \in Seq(Entry) /\ ses \in Sessions
      /\ KeepsOrBegins(ses, ses2, ret, ret2)
      /\ PartsOK(st, ses, h) /\ NumbersOK(st, ses, ret, q)
  BY <1>1 DEF TextInv, TextTypes
<1>3. PartsOK(st, ses2, h2) /\ NumbersOK(st, ses2, ret2, q)
  BY <1>2, QuietText
<1>4. PartsOK(store', session', heard') /\ NumbersOK(store', session', returned', sequence')
  BY <1>1, <1>3
<1> QED BY <1>4 DEF TextInv, TextTypes

(* A call on a session.                                                    *)
LEMMA CallKeepsText ==
  ASSUME TextInv, NEW s \in Session, NEW new \in SessionState,
         session' = [session EXCEPT ![s] = new],
         \/ /\ returned' = returned
            /\ new.pending = session[s].pending /\ new.cursor = session[s].cursor
            /\ new.mirror = session[s].mirror
         \/ returned' = [returned EXCEPT ![s] = <<>>] /\ new.pending = <<>>,
         UNCHANGED <<heard, store, sequence, reading>>, reading = NotReading
  PROVE  TextInv'
<1>1. session \in Sessions /\ returned \in Returns /\ heard \in 0 .. 2 * MaxLines
  BY DEF TextInv, TextTypes
<1>2. /\ session' \in Sessions /\ session'[s] = new
      /\ \A t \in Session \ {s} : session'[t] = session[t]
  BY <1>1 DEF Sessions
<1>3. /\ returned' \in Returns
      /\ \A t \in Session \ {s} : returned'[t] = returned[t]
      /\ returned'[s] = returned[s] \/ (returned'[s] = <<>> /\ new.pending = <<>>)
  <2>1. <<>> \in Seq(Nat)
    OBVIOUS
  <2> QED BY <1>1, <2>1 DEF Returns
<1>4. KeepsOrBegins(session, session', returned, returned')
  <2> SUFFICES ASSUME NEW t \in Session
               PROVE  \/ /\ session'[t].pending = session[t].pending
                         /\ session'[t].cursor = session[t].cursor
                         /\ session'[t].mirror = session[t].mirror
                         /\ returned'[t] = returned[t]
                      \/ session'[t].pending = <<>> /\ returned'[t] = <<>>
    BY DEF KeepsOrBegins
  <2>1. CASE t # s
    BY <1>2, <1>3, <2>1
  <2>2. CASE t = s
    <3>1. CASE returned' = returned /\ new.pending = session[s].pending
                 /\ new.cursor = session[s].cursor /\ new.mirror = session[s].mirror
      BY <1>2, <2>2, <3>1
    <3>2. CASE returned' = [returned EXCEPT ![s] = <<>>] /\ new.pending = <<>>
      <4>1. returned'[s] = <<>>
        BY <1>1, <3>2 DEF Returns
      <4> QED BY <1>2, <2>2, <3>2, <4>1
    <3> QED BY <3>1, <3>2
  <2> QED BY <2>1, <2>2
<1>5. reading' \in Reader /\ ReaderInv' /\ heard <= heard'
  BY <1>1 DEF ReaderInv, Reader, NotReading
<1> QED BY <1>1, <1>2, <1>3, <1>4, <1>5, QuietKeeps

LEMMA CreateText ==
  ASSUME TextInv, NEW s \in Session, NEW raw \in BOOLEAN, NEW strict \in BOOLEAN,
         CreateSession(s, raw, strict)
  PROVE  TextInv'
<1>1. PICK m \in BOOLEAN : m = Mirrors(s, raw)
  BY DEF Mirrors
<1>2. PICK new : new = [Absent EXCEPT !.exists = TRUE, !.mirror = m, !.strict = strict]
  OBVIOUS
<1>3. new \in SessionState /\ new.pending = <<>>
  <2>1. <<>> \in Seq(Part)
    OBVIOUS
  <2> QED BY <1>1, <1>2, <2>1 DEF SessionState, Absent
<1>4. /\ session' = [session EXCEPT ![s] = new]
      /\ returned' = [returned EXCEPT ![s] = <<>>]
      /\ UNCHANGED <<heard, store, sequence, reading>> /\ reading = NotReading
  BY <1>1, <1>2 DEF CreateSession, Unlocked, controller
<1> QED BY <1>3, <1>4, CallKeepsText

LEMMA CloseText ==
  ASSUME TextInv, NEW s \in Session, CloseSession(s)
  PROVE  TextInv'
<1>1. Absent \in SessionState /\ Absent.pending = <<>>
  <2>1. <<>> \in Seq(Part)
    OBVIOUS
  <2> QED BY <2>1 DEF SessionState, Absent
<1>2. /\ session' = [session EXCEPT ![s] = Absent]
      /\ returned' = [returned EXCEPT ![s] = <<>>]
      /\ UNCHANGED <<heard, store, sequence, reading>> /\ reading = NotReading
  BY DEF CloseSession, Unlocked
<1> QED BY <1>1, <1>2, CallKeepsText

(* Whether a session runs does not matter to its text.                     *)
LEMMA RunsText ==
  ASSUME TextInv, NEW s \in Session,
         \/ session' = session
         \/ \E run \in BOOLEAN : session' = [session EXCEPT ![s].running = run],
         UNCHANGED <<heard, returned, store, sequence, reading>>, reading = NotReading
  PROVE  TextInv'
<1>1. PICK old \in SessionState : old = session[s]
  BY DEF TextInv, TextTypes, Sessions
<1>2. session \in Sessions
  BY DEF TextInv, TextTypes
<1>3. PICK new \in SessionState :
        /\ session' = [session EXCEPT ![s] = new]
        /\ new.pending = old.pending /\ new.cursor = old.cursor /\ new.mirror = old.mirror
  <2>1. CASE session' = session
    <3>1. session = [session EXCEPT ![s] = old]
      BY <1>1, <1>2 DEF Sessions
    <3> QED BY <1>1, <2>1, <3>1
  <2>2. CASE \E run \in BOOLEAN : session' = [session EXCEPT ![s].running = run]
    <3>1. PICK run \in BOOLEAN : session' = [session EXCEPT ![s].running = run]
      BY <2>2
    <3>2. PICK new : new = [old EXCEPT !.running = run]
      OBVIOUS
    <3>3. /\ new \in SessionState
          /\ new.pending = old.pending /\ new.cursor = old.cursor /\ new.mirror = old.mirror
      BY <1>1, <3>1, <3>2 DEF SessionState
    <3>4. session' = [session EXCEPT ![s] = new]
      BY <1>1, <3>1, <3>2
    <3> QED BY <3>3, <3>4
  <2> QED BY <2>1, <2>2
<1> QED BY <1>1, <1>3, CallKeepsText

LEMMA StartStopText ==
  ASSUME TextInv, NEW s \in Session, NEW ok \in BOOLEAN, StartSession(s, ok) \/ StopSession(s)
  PROVE  TextInv'
<1>1. /\ UNCHANGED <<heard, returned, store, sequence, reading>> /\ reading = NotReading
      /\ \/ session' = session
         \/ session' = [session EXCEPT ![s].running = TRUE]
         \/ session' = [session EXCEPT ![s].running = FALSE]
  BY DEF StartSession, StopSession, Unlocked
<1> QED BY <1>1, RunsText

(* A step that leaves the sessions and the entries as they are.            *)
LEMMA SameText ==
  ASSUME TextInv, UNCHANGED <<session, returned, store, sequence>>,
         heard' \in 0 .. 2 * MaxLines, heard <= heard', reading' \in Reader, ReaderInv'
  PROVE  TextInv'
<1>1. session' \in Sessions /\ returned' \in Returns
  BY DEF TextInv, TextTypes
<1>2. KeepsOrBegins(session, session', returned, returned')
  BY DEF KeepsOrBegins
<1> QED BY <1>1, <1>2, QuietKeeps

LEMMA BeginReadText ==
  ASSUME TextInv, NEW s \in Session, BeginRead(s)
  PROVE  TextInv'
<1>1. PICK m \in BOOLEAN : m = session[s].mirror
  BY DEF TextInv, TextTypes, Sessions, SessionState
<1>2. /\ reading' = [by |-> s, at |-> IF m THEN "mirror" ELSE "chunk", got |-> 0]
      /\ UNCHANGED <<heard, session, returned, store, sequence>>
  BY <1>1 DEF BeginRead, controller
<1>3. reading' \in Reader
  BY <1>2 DEF Reader
<1>4. ReaderInv'
  BY <1>1, <1>2 DEF ReaderInv
<1>5. heard \in 0 .. 2 * MaxLines /\ heard' = heard /\ heard <= heard
  BY <1>2 DEF TextInv, TextTypes
<1> QED BY <1>2, <1>3, <1>4, <1>5, SameText

-----------------------------------------------------------------------------
(* The steps of a read.                                                    *)

(* The reader is a session, and which kind of one.                         *)
LEMMA TextReader ==
  ASSUME TextInv, reading.at \in {"chunk", "parse", "mirror"}
  PROVE  /\ reading.by \in Session /\ reading.got \in Nat
         /\ session[reading.by] \in SessionState
         /\ reading.at # "mirror" => ~session[reading.by].mirror
         /\ reading.at = "mirror" => session[reading.by].mirror
<1>1. reading.by \in Session /\ reading.got \in Nat
  BY ReaderIsSession DEF TextInv, TextTypes
<1> QED BY <1>1 DEF TextInv, TextTypes, ReaderInv, Sessions

LEMMA ReturnText ==
  ASSUME TextInv, UNCHANGED <<session, returned, store, sequence>>,
         heard' \in 0 .. 2 * MaxLines, heard <= heard', reading' = NotReading
  PROVE  TextInv'
<1>1. reading' \in Reader /\ ReaderInv'
  BY DEF Reader, ReaderInv, NotReading
<1> QED BY <1>1, SameText

LEMMA IdleText ==
  ASSUME TextInv, ReadNothing \/ ReadLost \/ MirrorDone \/ ParseDone
  PROVE  TextInv'
<1>1. heard \in 0 .. 2 * MaxLines
  BY DEF TextInv, TextTypes
<1>2. UNCHANGED <<session, returned, store, sequence>>
  BY DEF ReadNothing, ReadLost, MirrorDone, ParseDone
<1>3. CASE heard' \in 0 .. 2 * MaxLines /\ heard <= heard' /\ reading' = NotReading
  BY <1>2, <1>3, ReturnText
<1>4. CASE ReadNothing \/ MirrorDone
  BY <1>1, <1>3, <1>4 DEF ReadNothing, MirrorDone, Return, controller
<1>5. CASE ReadLost
  <2>1. PICK n \in Taken \cup {0} : heard' = heard + n
    BY <1>5 DEF ReadLost
  <2>2. n \in Nat /\ heard + n <= 2 * MaxLines
    BY <1>1 DEF Taken
  <2>3. heard' \in 0 .. 2 * MaxLines /\ heard <= heard'
    BY <1>1, <2>1, <2>2
  <2> QED BY <1>3, <1>5, <2>3 DEF ReadLost, Return
<1>6. CASE ParseDone
  <2>1. reading.at = "parse" /\ heard' = heard /\ heard <= heard
    BY <1>1, <1>6 DEF ParseDone, controller
  <2>2. CASE reading' = NotReading
    BY <1>1, <1>3, <2>1, <2>2
  <2>3. CASE reading' = [reading EXCEPT !.at = "chunk"]
    <3>1. reading.by \in Session /\ ~session[reading.by].mirror
      BY <2>1, TextReader
    <3>2. PICK r \in Reader : r = reading
      BY DEF TextInv, TextTypes
    <3>3. r.by \in Session /\ r # NotReading
      BY <2>1, <3>1, <3>2 DEF NotReading
    <3>4. reading' = [r EXCEPT !.at = "chunk"]
      BY <2>3, <3>2
    <3>5. reading' \in Reader /\ reading'.by = r.by /\ reading'.at = "chunk"
      BY <3>3, <3>4 DEF Reader
    <3>6. ReaderInv'
      BY <1>2, <3>1, <3>2, <3>5 DEF ReaderInv
    <3> QED BY <1>1, <1>2, <2>1, <3>5, <3>6, SameText
  <2> QED BY <1>6, <2>2, <2>3 DEF ParseDone, Return
<1> QED BY <1>4, <1>5, <1>6

LEMMA ReadTextText ==
  ASSUME TextInv, ReadText
  PROVE  TextInv'
<1>1. PICK n \in Taken :
        /\ reading.at = "chunk"
        /\ heard' = heard + n
        /\ session' = [session EXCEPT
             ![reading.by].pending = @ \o [i \in 1 .. n |-> heard + i]]
        /\ reading' = [reading EXCEPT !.at = "parse"]
        /\ UNCHANGED <<returned, store, sequence>>
  BY DEF ReadText
<1>2. PICK s \in Session : s = reading.by /\ ~session[s].mirror
  BY <1>1, TextReader
<1>3. PICK st, ses, ses2, ret, q, h :
        /\ st = store /\ ses = session /\ ses2 = session' /\ ret = returned
        /\ q = sequence /\ h = heard
  OBVIOUS
<1>4. h \in 0 .. 2 * MaxLines
  BY <1>3 DEF TextInv, TextTypes
<1>5. h \in Nat /\ n \in Nat /\ h + n <= 2 * MaxLines
  BY <1>3, <1>4 DEF Taken
<1>6. /\ st \in Seq(Entry) /\ ses \in Sessions
      /\ PartsOK(st, ses, h) /\ NumbersOK(st, ses, ret, q)
      /\ Hears(ses2, ses, s, h, n)
  BY <1>1, <1>2, <1>3 DEF TextInv, TextTypes, Hears
<1>7. PartsOK(st, ses2, h + n) /\ NumbersOK(st, ses2, ret, q)
  BY <1>5, <1>6, HeardText
<1>8. /\ ses2 \in Sessions
      /\ \A t \in Session : ses2[t].mirror = ses[t].mirror
  <2>1. PICK f \in SessionState : f = ses[s]
    BY <1>6 DEF Sessions
  <2>2. PICK p : p = f.pending \o [i \in 1 .. n |-> h + i]
    OBVIOUS
  <2>3. [i \in 1 .. n |-> h + i] \in Seq(Part)
    BY <1>5 DEF Part
  <2>4. p \in Seq(Part)
    BY <2>1, <2>2, <2>3, ConcatProperties DEF SessionState
  <2>5. PICK g : g = [f EXCEPT !.pending = p]
    OBVIOUS
  <2>6. ses2 = [ses EXCEPT ![s] = g]
    BY <1>6, <2>1, <2>2, <2>5 DEF Hears
  <2>7. g \in SessionState /\ g.mirror = f.mirror
    BY <2>1, <2>4, <2>5 DEF SessionState
  <2>8. ses2 \in Sessions /\ ses2[s] = g /\ \A t \in Session \ {s} : ses2[t] = ses[t]
    BY <1>6, <2>6, <2>7 DEF Sessions
  <2> QED BY <2>1, <2>7, <2>8
<1>9. reading' \in Reader /\ reading'.by = s /\ reading'.at = "parse"
  <2>1. PICK r \in Reader : r = reading
    BY DEF TextInv, TextTypes
  <2>2. r # NotReading
    BY <1>1, <2>1 DEF NotReading
  <2> QED BY <1>1, <1>2, <2>1, <2>2 DEF Reader
<1>10. ReaderInv'
  BY <1>2, <1>3, <1>8, <1>9 DEF ReaderInv
<1>11. heard' = h + n /\ h + n \in 0 .. 2 * MaxLines
  BY <1>1, <1>3, <1>5
<1>12. TextTypes'
  BY <1>1, <1>3, <1>8, <1>9, <1>11 DEF TextInv, TextTypes
<1>13. PartsOK(store', session', heard') /\ NumbersOK(store', session', returned', sequence')
  BY <1>1, <1>3, <1>7, <1>11
<1> QED BY <1>10, <1>12, <1>13 DEF TextInv

LEMMA MirrorEntryText ==
  ASSUME TextInv, MirrorEntry
  PROVE  TextInv'
<1>1. PICK s \in Session : s = reading.by /\ session[s].mirror
  BY TextReader DEF MirrorEntry
<1>2. PICK c \in Nat : c = session[s].cursor
  BY DEF TextInv, TextTypes, Sessions, SessionState
<1>3. /\ c < Len(store)
      /\ session' = [session EXCEPT ![s].cursor = c + 1]
      /\ \/ /\ returned' = [returned EXCEPT ![s] = Append(@, store[c + 1].sequence)]
            /\ reading' = [reading EXCEPT !.got = @ + 1]
         \/ returned' = returned /\ reading' = reading
      /\ UNCHANGED <<heard, store, sequence>>
  BY <1>1, <1>2 DEF MirrorEntry, controller
<1>4. PICK st, ses, ses2, ret, ret2, q, h :
        /\ st = store /\ ses = session /\ ses2 = session' /\ ret = returned
        /\ ret2 = returned' /\ q = sequence /\ h = heard
  OBVIOUS
<1>5. /\ st \in Seq(Entry) /\ ses \in Sessions /\ ret \in Returns /\ q \in Nat
      /\ ses[s].mirror /\ ses[s].cursor = c
      /\ PartsOK(st, ses, h) /\ NumbersOK(st, ses, ret, q)
      /\ MirrorsOn(ses2, ses, ret2, ret, st, s, c)
  BY <1>1, <1>2, <1>3, <1>4 DEF TextInv, TextTypes, MirrorsOn
<1>6. c + 1 \in DOMAIN st
  <2>1. Len(st) \in Nat /\ DOMAIN st = 1 .. Len(st) /\ c < Len(st)
    BY <1>3, <1>4, <1>5, LenProperties
  <2> QED BY <2>1
<1>7. /\ ses2 \in Sessions /\ ret2 \in Returns
      /\ \A t \in Session : ses2[t].mirror = ses[t].mirror
      /\ PartsOK(st, ses2, h) /\ NumbersOK(st, ses2, ret2, q)
  BY <1>5, <1>6, MirrorText
<1>8. reading' \in Reader /\ reading'.by = reading.by /\ reading'.at = "mirror"
  <2>1. PICK r \in Reader : r = reading /\ r.at = "mirror"
    BY DEF TextInv, TextTypes, MirrorEntry
  <2>2. r # NotReading
    BY <2>1 DEF NotReading
  <2>3. [r EXCEPT !.got = @ + 1] \in Reader
    BY <2>1, <2>2 DEF Reader
  <2> QED BY <1>3, <2>1, <2>2, <2>3 DEF Reader
<1>9. ReaderInv'
  BY <1>1, <1>4, <1>7, <1>8 DEF ReaderInv
<1>10. TextTypes'
  BY <1>3, <1>4, <1>7, <1>8 DEF TextInv, TextTypes
<1>11. PartsOK(store', session', heard') /\ NumbersOK(store', session', returned', sequence')
  BY <1>3, <1>4, <1>7
<1> QED BY <1>9, <1>10, <1>11 DEF TextInv

(* A text that a session of its own decodes.                               *)
LEMMA DecodeText ==
  ASSUME TextInv, NEW s \in Session, ~session[s].mirror,
         NEW text \in Seq(Part), NEW left \in Seq(Part), NEW d \in Nat,
         Splits(text, left, session[s].pending, d), Decode(s, text, left),
         heard' = heard
  PROVE  /\ session' \in Sessions /\ store' \in Seq(Entry) /\ returned' \in Returns
         /\ sequence' \in Nat /\ heard' \in 0 .. 2 * MaxLines
         /\ \A t \in Session : session'[t].mirror = session[t].mirror
         /\ PartsOK(store', session', heard')
         /\ NumbersOK(store', session', returned', sequence')
<1>1. PICK st, ses, ses2, ret, ret2, q, h :
        /\ st = store /\ ses = session /\ ses2 = session' /\ ret = returned
        /\ ret2 = returned' /\ q = sequence /\ h = heard
  OBVIOUS
<1>2. /\ st \in Seq(Entry) /\ ses \in Sessions /\ ret \in Returns /\ q \in Nat
      /\ h \in 0 .. 2 * MaxLines
      /\ PartsOK(st, ses, h) /\ NumbersOK(st, ses, ret, q)
  BY <1>1 DEF TextInv, TextTypes
<1>3. /\ sequence' = q + 1 /\ q + 1 \in Nat
      /\ Leaves(ses2, ses, s, left)
      /\ ~ses[s].mirror /\ Splits(text, left, ses[s].pending, d)
  BY <1>1, <1>2 DEF Decode, Leaves
<1>4. PICK e \in Entry : e = [sequence |-> q, text |-> text]
  BY <1>2 DEF Entry
<1>5. /\ ses2 \in Sessions
      /\ \A t \in Session : ses2[t].mirror = ses[t].mirror
  <2>1. PICK f \in SessionState : f = ses[s]
    BY <1>2 DEF Sessions
  <2>2. PICK g : g = [f EXCEPT !.pending = left]
    OBVIOUS
  <2>3. ses2 = [ses EXCEPT ![s] = g]
    BY <1>3, <2>1, <2>2 DEF Leaves
  <2>4. g \in SessionState /\ g.mirror = f.mirror
    BY <2>1, <2>2 DEF SessionState
  <2>5. ses2 \in Sessions /\ ses2[s] = g /\ \A t \in Session \ {s} : ses2[t] = ses[t]
    BY <1>2, <2>3, <2>4 DEF Sessions
  <2> QED BY <2>1, <2>4, <2>5
<1>6. CASE UNCHANGED <<store, returned>>
  <2>1. PartsOK(st, ses2, h) /\ NumbersOK(st, ses2, ret, q + 1)
    BY <1>2, <1>3, DropText
  <2> QED BY <1>1, <1>2, <1>3, <1>5, <1>6, <2>1
<1>7. CASE AppendEntry(e) /\ returned' = [returned EXCEPT ![s] = Append(@, sequence)]
  <2>1. PICK st2 : st2 = Append(st, e)
    OBVIOUS
  <2>2. /\ e.text = text /\ e.sequence = q
        /\ Gains(ret2, ret, s, q)
    BY <1>1, <1>4, <1>7 DEF Gains
  <2>3. PartsOK(st2, ses2, h) /\ NumbersOK(st2, ses2, ret2, q + 1)
    BY <1>2, <1>3, <2>1, <2>2, EntryText
  <2>4. st2 \in Seq(Entry) /\ st2 # <<>>
    <3>1. st2 \in Seq(Entry) /\ Len(st2) = Len(st) + 1 /\ Len(st) \in Nat
      BY <1>2, <2>1, AppendProperties, LenProperties
    <3>2. Len(st2) # 0
      BY <3>1
    <3> QED BY <3>1, <3>2
  <2>5. Tail(st2) \in Seq(Entry) /\ PartsOK(Tail(st2), ses2, h)
          /\ NumbersOK(Tail(st2), ses2, ret2, q + 1)
    BY <1>5, <2>3, <2>4, TailText, HeadTailProperties
  <2>6. store' \in {st2, Tail(st2)}
    BY <1>1, <1>7, <2>1 DEF AppendEntry
  <2>7. ret2 \in Returns
    <3>1. PICK r \in Seq(Nat) : r = ret[s]
      BY <1>2 DEF Returns
    <3>2. Append(r, q) \in Seq(Nat)
      BY <1>2, <3>1, AppendProperties
    <3>3. ret2 = [ret EXCEPT ![s] = Append(r, q)]
      BY <2>2, <3>1 DEF Gains
    <3> QED BY <1>2, <3>2, <3>3 DEF Returns
  <2>8. PICK st3 : st3 = store'
    OBVIOUS
  <2>9. st3 \in Seq(Entry) /\ PartsOK(st3, ses2, h) /\ NumbersOK(st3, ses2, ret2, q + 1)
    BY <2>3, <2>4, <2>5, <2>6, <2>8
  <2> QED BY <1>1, <1>2, <1>3, <1>5, <2>7, <2>8, <2>9
<1> QED BY <1>1, <1>4, <1>6, <1>7 DEF Decode

(* After it the read ends or goes on.                                      *)
LEMMA DecodeKeepsText ==
  ASSUME TextInv, reading.at \in {"chunk", "parse"},
         NEW text \in Seq(Part), NEW left \in Seq(Part), NEW d \in Nat,
         Splits(text, left, session[reading.by].pending, d),
         Decode(reading.by, text, left), heard' = heard,
         \/ reading' = NotReading
         \/ \E n \in Nat : reading' = [reading EXCEPT !.got = n]
  PROVE  TextInv'
<1>1. PICK s \in Session : s = reading.by /\ ~session[s].mirror
  BY TextReader
<1>2. Splits(text, left, session[s].pending, d) /\ Decode(s, text, left)
  BY <1>1
<1>3. /\ session' \in Sessions /\ store' \in Seq(Entry) /\ returned' \in Returns
      /\ sequence' \in Nat /\ heard' \in 0 .. 2 * MaxLines
      /\ \A t \in Session : session'[t].mirror = session[t].mirror
      /\ PartsOK(store', session', heard')
      /\ NumbersOK(store', session', returned', sequence')
  BY <1>1, <1>2, DecodeText
<1>4. reading' \in Reader /\ ReaderInv'
  <2>1. CASE reading' = NotReading
    BY <2>1 DEF Reader, NotReading, ReaderInv
  <2>2. CASE \E n \in Nat : reading' = [reading EXCEPT !.got = n]
    <3>1. PICK n \in Nat : reading' = [reading EXCEPT !.got = n]
      BY <2>2
    <3>2. PICK r \in Reader : r = reading /\ r.at \in {"chunk", "parse"}
      BY DEF TextInv, TextTypes
    <3>3. r # NotReading
      BY <3>2 DEF NotReading
    <3>4. /\ reading' \in Reader /\ reading'.by = s /\ reading'.at \in {"chunk", "parse"}
      BY <1>1, <3>1, <3>2, <3>3 DEF Reader
    <3> QED BY <1>1, <1>3, <3>4 DEF ReaderInv
  <2> QED BY <2>1, <2>2
<1> QED BY <1>3, <1>4 DEF TextInv, TextTypes

LEMMA ReadErrorText ==
  ASSUME TextInv, ReadError
  PROVE  TextInv'
<1>1. PICK p : p = session[reading.by].pending
  OBVIOUS
<1>2. reading.at = "chunk" /\ heard' = heard /\ reading' = NotReading
  BY DEF ReadError, Return
<1>3. p \in Seq(Part)
  BY <1>1, <1>2, TextReader DEF SessionState
<1>4. CASE p = <<>>
  <2>1. UNCHANGED <<session, returned, store, sequence>>
    BY <1>1, <1>4 DEF ReadError
  <2>2. heard \in 0 .. 2 * MaxLines /\ heard <= heard
    BY DEF TextInv, TextTypes
  <2> QED BY <1>2, <2>1, <2>2, ReturnText
<1>5. CASE p # <<>>
  <2>1. Decode(reading.by, p, <<>>)
    BY <1>1, <1>5 DEF ReadError
  <2>2. PICK d \in Nat : d = Len(p)
    BY <1>3, LenProperties
  <2>3. Splits(p, <<>>, session[reading.by].pending, d)
    BY <1>1, <1>3, <2>2, WholeText
  <2>4. <<>> \in Seq(Part)
    OBVIOUS
  <2> QED BY <1>2, <1>3, <2>1, <2>3, <2>4, DecodeKeepsText
<1> QED BY <1>4, <1>5

LEMMA ParseLineText ==
  ASSUME TextInv, ParseLine
  PROVE  TextInv'
<1>1. PICK p : p = session[reading.by].pending
  OBVIOUS
<1>2. reading.at = "parse" /\ heard' = heard
  BY DEF ParseLine, controller
<1>3. p \in Seq(Part) /\ reading.got \in Nat
  BY <1>1, <1>2, TextReader DEF SessionState
<1>4. PICK end \in LineEnds(p) :
        /\ Decode(reading.by, SubSeq(p, 1, end), SubSeq(p, end + 1, Len(p)))
        /\ reading' = [reading EXCEPT
                         !.got = @ + Returned(SubSeq(p, 1, end), reading.by)]
  BY <1>1 DEF ParseLine
<1>5. end \in 1 .. Len(p) /\ end \in Nat
  BY <1>3, <1>4, LenProperties DEF LineEnds
<1>6. PICK text, left : text = SubSeq(p, 1, end) /\ left = SubSeq(p, end + 1, Len(p))
  OBVIOUS
<1>7. Splits(text, left, p, end) /\ text \in Seq(Part) /\ left \in Seq(Part)
  BY <1>3, <1>5, <1>6, FirstLine
<1>8. PICK n \in Nat : n = reading.got + Returned(text, reading.by)
  BY <1>3 DEF Returned
<1>9. /\ Splits(text, left, session[reading.by].pending, end)
      /\ Decode(reading.by, text, left)
      /\ reading' = [reading EXCEPT !.got = n]
  BY <1>1, <1>4, <1>6, <1>7, <1>8
<1> QED BY <1>2, <1>5, <1>7, <1>9, DecodeKeepsText

LEMMA ReadStepText ==
  ASSUME TextInv, ReadStep
  PROVE  TextInv'
BY IdleText, ReadTextText, ReadErrorText, ParseLineText, MirrorEntryText DEF ReadStep

-----------------------------------------------------------------------------
(* The order of the text.                                                  *)

LEMMA PumpStepText ==
  ASSUME TextInv, PumpStep
  PROVE  TextInv'
<1> USE PumpIsSession
<1>1. CASE PumpDecide
  <2>1. UNCHANGED <<heard, session, returned, store, sequence, reading>>
    BY <1>1 DEF PumpDecide, controller, log
  <2> QED BY <2>1 DEF TextInv, TextTypes, ReaderInv
<1>2. CASE PumpCreate
  BY <1>2, CreateText DEF PumpCreate
<1>3. CASE PumpStart
  BY <1>3, StartStopText DEF PumpStart
<1>4. CASE PumpDrop \/ PumpErases
  BY <1>4, CloseText DEF PumpDrop, PumpErases
<1>5. CASE PumpRead
  BY <1>5, BeginReadText DEF PumpRead
<1>6. CASE PumpStops
  <2>1. TRUE \in BOOLEAN
    OBVIOUS
  <2> QED BY <1>6, <2>1, StartStopText DEF PumpStops
<1> QED BY <1>1, <1>2, <1>3, <1>4, <1>5, <1>6 DEF PumpStep

LEMMA ClientStepText ==
  ASSUME TextInv, NEW c \in Clients,
         Create(c) \/ Start(c) \/ Stop(c) \/ Close(c) \/ Read(c)
  PROVE  TextInv'
<1>1. c \in Session /\ TRUE \in BOOLEAN
  BY DEF Session
<1>2. CASE Create(c)
  BY <1>1, <1>2, CreateText DEF Create
<1>3. CASE Start(c)
  BY <1>1, <1>3, StartStopText DEF Start
<1>4. CASE Stop(c)
  BY <1>1, <1>4, StartStopText DEF Stop
<1>5. CASE Close(c)
  BY <1>1, <1>5, CloseText DEF Close
<1>6. CASE Read(c)
  BY <1>1, <1>6, BeginReadText DEF Read
<1> QED BY <1>2, <1>3, <1>4, <1>5, <1>6

(* Every part of the controller's text is kept at one place at most, and   *)
(* every session gets the entries in their order and once: through resets  *)
(* of a session, lost round trips, overflow of the store, mirrors and, with *)
(* SecondStarts, sessions that are started twice.                          *)
THEOREM TextKeepsOrder == Spec => []TextInOrder
<1>1. Init => TextInv
  <2> SUFFICES ASSUME Init PROVE TextInv
    OBVIOUS
  <2>1. <<>> \in Seq(Part) /\ <<>> \in Seq(Entry) /\ <<>> \in Seq(Nat) /\ DOMAIN <<>> = {}
    OBVIOUS
  <2>2. Absent \in SessionState /\ Absent.pending = <<>>
    BY <2>1 DEF Absent, SessionState
  <2>3. /\ session \in Sessions /\ returned \in Returns /\ store = <<>>
        /\ \A s \in Session : session[s].pending = <<>> /\ returned[s] = <<>>
    BY <2>1, <2>2 DEF Init, Sessions, Returns
  <2>4. TextTypes /\ ReaderInv
    BY <2>1, <2>3 DEF Init, TextTypes, ReaderInv, Reader, NotReading
  <2>5. PartsOK(store, session, heard) /\ NumbersOK(store, session, returned, sequence)
    BY <2>1, <2>3 DEF PartsOK, NumbersOK
  <2> QED BY <2>4, <2>5 DEF TextInv
<1>2. TextInv /\ [Next]_vars => TextInv'
  <2> SUFFICES ASSUME TextInv, [Next]_vars PROVE TextInv'
    OBVIOUS
  <2>1. CASE RequestStop \/ UNCHANGED vars
    <3>1. UNCHANGED <<heard, session, returned, store, sequence, reading>>
      BY <2>1 DEF RequestStop, vars, controller, log
    <3> QED BY <3>1 DEF TextInv, TextTypes, ReaderInv
  <2> QED BY <2>1, ReadStepText, PumpStepText, ClientStepText DEF Next
<1>3. TextInv => TextInOrder
  BY DEF TextInv, PartsOK, NumbersOK, TextInOrder, NoTextTwice, MirrorInOrder
<1> QED BY <1>1, <1>2, <1>3, PTL DEF Spec
=============================================================================
