------------------------------ MODULE SystemInfo ------------------------------
(***************************************************************************)
(* The state of the firmware that SystemInfoService keeps from the lines   *)
(* ASINFO|type|key=value of the log, the systemInfo methods of the server, *)
(* and the frames the GUI makes of their answers.                          *)
(*                                                                         *)
(* A value is the number of the record it came in, counted since the       *)
(* service last cleared its rows; 0 is the value of a field nobody         *)
(* reported.  The text of a record is parsed to what the code gets from    *)
(* it: a type, a key, and the fields whose value can be read.  A field     *)
(* that is absent and one whose value is no number are the same to it.     *)
(***************************************************************************)
EXTENDS Integers, Sequences

CONSTANTS
  Keys,        (* ids of rows, the one an absent id stands for included *)
  Zero,        (* that id: 0, or "heap" for a heap                      *)
  NoKey,       (* a record without an id                                *)
  Fields,      (* the fields of a row other than its id                 *)
  Reported,    (* the tables the controller reports                     *)
  Nodes,       (* the nodes a GUI page asks the costs of, in its order  *)
  CoresShown,  (* the cores it asks for                                 *)
  Timeout,     (* heartbeat_timeout_, in ticks                          *)
  MaxRecords   (* bound: records between two clearings                  *)

Tables == {"core", "module", "buffer", "heap", "pipeline"}

ASSUME SystemInfoAssumption ==
  /\ Zero \in Keys
  /\ NoKey \notin Keys
  /\ Reported \subseteq Tables
  /\ Nodes \in Seq(Keys)
  /\ CoresShown \in 1 .. 64
  /\ Timeout \in Nat
  /\ MaxRecords \in Nat

VARIABLES
  rows,        (* the tables of snapshot_, in the order of first report *)
  connected,   (* snapshot_.connected, which running always equals      *)
  silence,     (* ticks since last_update_, up to one beyond Timeout    *)
  frame,       (* the answer just given or the frame just shown         *)
  received,    (* history: the records since the rows were cleared      *)
  since        (* history: ticks since the last record of any type, and *)
               (* since the last heartbeat or the start; both up to one *)
               (* beyond Timeout                                        *)

vars == <<rows, connected, silence, frame, received, since>>

(* A record that parses to something, whatever it says. *)
Records ==
  [table : Reported, key : Keys \cup {NoKey}, fields : SUBSET Fields]
    \cup [table : {"heartbeat", "other"}, key : {NoKey}, fields : {{}}]

Unreported == [f \in Fields |-> 0]

NoFrame ==
  [view |-> "none", answered |-> FALSE, connected |-> FALSE, rows |-> <<>>]

(* A counter of ticks that stops one beyond Timeout. *)
Later(ticks) == IF ticks > Timeout THEN ticks ELSE ticks + 1

Init ==
  /\ rows = [t \in Tables |-> <<>>]
  /\ connected = FALSE
  /\ silence = 0
  /\ frame = NoFrame
  /\ received = <<>>
  /\ since = [any |-> Timeout + 1, heartbeat |-> 0]

-------------------------------------------------------------------------------
(* Records. *)

(* Modules and buffers keep what a record does not say of them. *)
Merged == {"module", "buffer"}

(* The row a record is about: one without an id is about the row Zero of a  *)
(* table whose rows are replaced, and about none of a merged table.         *)
KeyOf(r) == IF r.key = NoKey /\ r.table \notin Merged THEN Zero ELSE r.key

Position(table, key) ==
  IF \E i \in DOMAIN table : table[i].key = key
  THEN CHOOSE i \in DOMAIN table : table[i].key = key
  ELSE 0

(* The value of a field: the record's, or a fallback when it has none. *)
Field(r, f, n, fallback) == IF f \in r.fields THEN n ELSE fallback

(* What a row of a merged table becomes. *)
Merge(table, r, n) ==
  LET p == Position(table, KeyOf(r))
      existing == IF p = 0 THEN Unreported ELSE table[p].value
  IN  [f \in Fields |-> Field(r, f, n, existing[f])]

(* What a row of another table becomes. *)
Replace(r, n) == [f \in Fields |-> Field(r, f, n, 0)]

(* Faulty variant: a row that is reported again goes to the end. *)
UpsertLast(table, row) ==
  Append(SelectSeq(table, LAMBDA other : other.key # row.key), row)

Upsert(table, row) ==
  LET p == Position(table, row.key)
  IN  IF p = 0 THEN Append(table, row) ELSE [table EXCEPT ![p] = row]

(* The tables after record number n; a record of another type and one of a  *)
(* merged table without an id change none.                                  *)
Apply(r, n) ==
  IF r.table \notin Tables \/ KeyOf(r) = NoKey
  THEN rows
  ELSE LET value == IF r.table \in Merged
                    THEN Merge(rows[r.table], r, n)
                    ELSE Replace(r, n)
       IN  [rows EXCEPT ![r.table] =
              Upsert(@, [key |-> KeyOf(r), value |-> value])]

(* Any record that parses makes the service connected and counts as a sign *)
(* of life.  A line without a type is left to the log sessions and changes *)
(* nothing here.                                                           *)
Consume ==
  \E r \in Records :
    /\ Len(received) < MaxRecords
    /\ rows' = Apply(r, Len(received) + 1)
    /\ connected' = TRUE
    /\ silence' = 0
    /\ received' = Append(received, r)
    /\ since' = [any |-> 0,
                 heartbeat |-> IF r.table = "heartbeat" THEN 0
                               ELSE since.heartbeat]
    /\ frame' = NoFrame

Tick ==
  /\ silence' = Later(silence)
  /\ since' = [any |-> Later(since.any), heartbeat |-> Later(since.heartbeat)]
  /\ frame' = NoFrame
  /\ UNCHANGED <<rows, connected, received>>

-------------------------------------------------------------------------------
(* Answers. *)

Stale == connected /\ silence > Timeout

NoRows == [t \in Tables |-> <<>>]

(* Faulty variant: the rows of a silent firmware are kept. *)
SnapshotKeeps == [connected |-> connected /\ ~Stale, rows |-> rows]

(* snapshot(): looking is what makes the service forget. *)
Snapshot ==
  IF Stale THEN [connected |-> FALSE, rows |-> NoRows]
  ELSE [connected |-> connected, rows |-> rows]

Forget == received' = IF Stale THEN <<>> ELSE received

(* The rows of every table one after another: systemInfo.snapshot. *)
WholeAnswer(snap) ==
  snap.rows["core"] \o snap.rows["module"] \o snap.rows["buffer"]
    \o snap.rows["heap"] \o snap.rows["pipeline"]

ComponentsAnswer(snap) == snap.rows["module"]

BuffersAnswer(snap) == snap.rows["buffer"]

(* systemInfo.health: the connection, then the heaps; only they have values. *)
HealthAnswer(snap) ==
  <<[key |-> Zero, value |-> Unreported]>> \o snap.rows["heap"]

(* The costs of the nodes of a page: the i-th node gets the i-th component *)
(* the firmware ever reported, the last one when there are fewer, and      *)
(* zeros when there is none; a page that names no node gets them all.      *)
Costs(snap) ==
  LET components == snap.rows["module"]
      count == Len(components)
      last(i) == IF i < count THEN i ELSE count
  IN  IF Nodes = <<>> THEN components
      ELSE [i \in DOMAIN Nodes |->
              [key |-> Nodes[i],
               value |-> IF count = 0 THEN Unreported
                         ELSE components[last(i)].value]]

(* The load of the cores, or idle cores as many as asked for. *)
CoreLoading(snap) ==
  IF snap.rows["core"] = <<>>
  THEN [i \in 1 .. CoresShown |-> [key |-> Zero, value |-> Unreported]]
  ELSE snap.rows["core"]

Health(snap) == HealthAnswer(snap)

Views == {"snapshot", "components", "buffers", "health",
          "costs", "loading", "page health"}

Shown(view, snap) ==
  CASE view = "snapshot" -> WholeAnswer(snap)
    [] view = "components" -> ComponentsAnswer(snap)
    [] view = "buffers" -> BuffersAnswer(snap)
    [] view = "health" -> HealthAnswer(snap)
    [] view = "costs" -> Costs(snap)
    [] view = "loading" -> CoreLoading(snap)
    [] view = "page health" -> Health(snap)

(* A call that the server answers. *)
Answer ==
  \E view \in Views :
    /\ rows' = Snapshot.rows
    /\ connected' = Snapshot.connected
    /\ frame' = [view |-> view, answered |-> TRUE,
                 connected |-> Snapshot.connected,
                 rows |-> Shown(view, Snapshot)]
    /\ Forget
    /\ UNCHANGED <<silence, since>>

(* The frame of a call that failed: the GUI shows what it has for a         *)
(* firmware that is silent.                                                 *)
Disconnected ==
  \E view \in {"costs", "loading", "page health"} :
    /\ frame' = [view |-> view, answered |-> FALSE, connected |-> FALSE,
                 rows |-> IF view = "page health"
                          THEN <<[key |-> Zero, value |-> Unreported]>>
                          ELSE <<>>]
    /\ UNCHANGED <<rows, connected, silence, received, since>>

Next == Consume \/ Tick \/ Answer \/ Disconnected

Spec == Init /\ [][Next]_vars

-------------------------------------------------------------------------------
(* Properties. *)

(* The numbers of the records that are about a row. *)
About(t, k) ==
  {n \in DOMAIN received : received[n].table = t /\ KeyOf(received[n]) = k}

Newest(S) == CHOOSE n \in S : \A m \in S : m <= n
Oldest(S) == CHOOSE n \in S : \A m \in S : n <= m

(* The records that may speak for a field of a row: all about the row when *)
(* the table is merged, only the newest when it is replaced.               *)
Speaking(t, k) ==
  IF t \in Merged THEN About(t, k) ELSE {Newest(About(t, k))}

Told(t, k, f) ==
  LET said == {n \in Speaking(t, k) : f \in received[n].fields}
  IN  IF said = {} THEN 0 ELSE Newest(said)

(* The tables are exactly what the records since the last clearing say: one  *)
(* row for each id, in the order in which they were first named, and in each *)
(* field the newest value that any record (or, where rows are replaced, the  *)
(* newest record) gave (system_info_service.cpp:168-248).                    *)
RowsTellRecords ==
  \A t \in Tables :
    LET named == {k \in Keys : About(t, k) # {}}
    IN  /\ {rows[t][i].key : i \in DOMAIN rows[t]} = named
        /\ \A i, j \in DOMAIN rows[t] :
             i < j => Oldest(About(t, rows[t][i].key))
                        < Oldest(About(t, rows[t][j].key))
        /\ \A i \in DOMAIN rows[t] : \A f \in Fields :
             rows[t][i].value[f] = Told(t, rows[t][i].key, f)

(* Whatever method is called or page shown, an answer shows the firmware     *)
(* connected exactly when one of its records came within the timeout: also   *)
(* the first answer after a silence that ended, asked or unasked.  What is   *)
(* shown disconnected, a call that failed included, shows no value           *)
(* (system_info_service.cpp:77-83, :156-159, system_info_controllers.cpp:    *)
(* 93-110).                                                                  *)
SilentShowsNothing ==
  /\ frame.answered => (frame.connected <=> since.any <= Timeout)
  /\ ~frame.connected => \A i \in DOMAIN frame.rows :
                           frame.rows[i].value = Unreported

(* The design document's rule for an answer: when no heartbeat was received  *)
(* for the timeout, the firmware is shown disconnected.  In the code any     *)
(* record is a sign of life (system_info_service.cpp:156-161).               *)
HeartbeatsConnect ==
  frame.answered /\ frame.connected => since.heartbeat <= Timeout

===============================================================================
