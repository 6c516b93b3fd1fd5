----------------------------- MODULE ServiceProofs -----------------------------
(***************************************************************************)
(* Proofs about two services of the server and about the controller the    *)
(* second one feeds.  SystemInfoService: for any rows, fields, pages and   *)
(* timeout, nothing of a silent firmware is shown, and a row tells what    *)
(* the latest records about its key said.  The config service: for any     *)
(* projects, plugins and failing steps, a compilation that succeeds has    *)
(* written every file, and one that refuses its project none; the topology *)
(* written routes every edge and gives each SOF module its defaults, and   *)
(* the private section describes every parameter once.  The topology of    *)
(* the audio controller: for any files, and whichever allocation or SOF    *)
(* call fails, nothing leaks and nothing is freed twice.                   *)
(***************************************************************************)
EXTENDS SystemInfo, ConfigService, AcTopology,
        SequenceTheorems, FiniteSetTheorems, WellFoundedInduction, TLAPS

USE SystemInfoAssumption

Row == [key : Keys, value : [Fields -> Nat]]

(* While the service is not connected it has no rows and no record came    *)
(* within the timeout; it is connected from the first record on, until     *)
(* someone looks at it after a silence, and knows how long ago the last    *)
(* one came.                                                               *)
KnownRows ==
  /\ rows \in [Tables -> Seq(Row)]
  /\ connected \in BOOLEAN
  /\ silence \in Nat
  /\ received \in Seq(Records)
  /\ connected => received # <<>>
  /\ ~connected => rows = NoRows
  /\ since.any \in Nat
  /\ IF connected THEN silence = since.any ELSE since.any > Timeout

Invariant == KnownRows /\ SilentShowsNothing

LEMMA SnapshotKnown ==
  ASSUME KnownRows
  PROVE  /\ Snapshot.connected \in BOOLEAN
         /\ Snapshot.connected => connected /\ silence <= Timeout /\ Snapshot.rows = rows
         /\ ~Snapshot.connected => Snapshot.rows = NoRows
         /\ Snapshot.rows \in [Tables -> Seq(Row)]
<1>1. NoRows \in [Tables -> Seq(Row)]
  BY DEF NoRows
<1>2. CASE Stale
  <2>1. Snapshot.connected = FALSE /\ Snapshot.rows = NoRows
    BY <1>2 DEF Snapshot
  <2> QED BY <1>1, <2>1
<1>3. CASE ~Stale
  <2>1. Snapshot.connected = connected /\ Snapshot.rows = rows
    BY <1>3 DEF Snapshot
  <2>2. connected => silence <= Timeout
    BY <1>3 DEF Stale, KnownRows
  <2> QED BY <2>1, <2>2 DEF KnownRows
<1> QED BY <1>2, <1>3

LEMMA OneRowShowsNothing ==
  ASSUME NEW s \in {<<>>, <<[key |-> Zero, value |-> Unreported]>>}
  PROVE  \A i \in DOMAIN s : s[i].value = Unreported
<1>1. CASE s = <<>>
  BY <1>1
<1>2. CASE s = <<[key |-> Zero, value |-> Unreported]>>
  BY <1>2
<1> QED BY <1>1, <1>2

(* What each view makes of a snapshot without rows.                        *)
LEMMA EmptyShowsNothing ==
  ASSUME NEW snap, snap.rows = NoRows, NEW view \in Views
  PROVE  \A i \in DOMAIN Shown(view, snap) : Shown(view, snap)[i].value = Unreported
<1>1. \A t \in Tables : snap.rows[t] = <<>>
  BY DEF NoRows
<1>2. WholeAnswer(snap) = <<>> /\ ComponentsAnswer(snap) = <<>> /\ BuffersAnswer(snap) = <<>>
  BY <1>1 DEF WholeAnswer, ComponentsAnswer, BuffersAnswer, Tables
<1>3. HealthAnswer(snap) = <<[key |-> Zero, value |-> Unreported]>>
  <2>1. snap.rows["heap"] = <<>>
    BY <1>1 DEF Tables
  <2> QED BY <2>1 DEF HealthAnswer
<1>4. \A i \in DOMAIN Costs(snap) : Costs(snap)[i].value = Unreported
  <2>1. snap.rows["module"] = <<>>
    BY <1>1 DEF Tables
  <2>2. CASE Nodes = <<>>
    BY <2>1, <2>2 DEF Costs
  <2>3. CASE Nodes # <<>>
    <3>1. Costs(snap) = [i \in DOMAIN Nodes |-> [key |-> Nodes[i], value |-> Unreported]]
      BY <2>1, <2>3 DEF Costs
    <3> QED BY <3>1
  <2> QED BY <2>2, <2>3
<1>5. \A i \in DOMAIN CoreLoading(snap) : CoreLoading(snap)[i].value = Unreported
  <2>1. snap.rows["core"] = <<>>
    BY <1>1 DEF Tables
  <2>2. CoreLoading(snap) = [i \in 1 .. CoresShown |-> [key |-> Zero, value |-> Unreported]]
    BY <2>1 DEF CoreLoading
  <2> QED BY <2>2
<1>6. \A i \in DOMAIN HealthAnswer(snap) : HealthAnswer(snap)[i].value = Unreported
  BY <1>3
<1>7. CASE view \in {"snapshot", "components", "buffers"}
  <2>1. Shown(view, snap) = <<>>
    BY <1>2, <1>7 DEF Shown
  <2> QED BY <2>1
<1>8. CASE view \in {"health", "page health"}
  <2>1. Shown(view, snap) = HealthAnswer(snap)
    BY <1>8 DEF Shown, Health
  <2> QED BY <1>6, <2>1
<1>9. CASE view = "costs"
  <2>1. Shown(view, snap) = Costs(snap)
    BY <1>9 DEF Shown
  <2> QED BY <1>4, <2>1
<1>10. CASE view = "loading"
  <2>1. Shown(view, snap) = CoreLoading(snap)
    BY <1>10 DEF Shown
  <2> QED BY <1>5, <2>1
<1> QED BY <1>7, <1>8, <1>9, <1>10 DEF Views

-------------------------------------------------------------------------------
(* The tables keep their form when a record is applied.                    *)

LEMMA UpsertType ==
  ASSUME NEW table \in Seq(Row), NEW row \in Row
  PROVE  Upsert(table, row) \in Seq(Row)
<1> DEFINE p == Position(table, row.key)
<1>1. p = 0 \/ p \in DOMAIN table
  BY DEF Position
<1> HIDE DEF p
<1>2. Append(table, row) \in Seq(Row)
  OBVIOUS
<1>3. ASSUME p \in DOMAIN table PROVE [table EXCEPT ![p] = row] \in Seq(Row)
  BY <1>3
<1> QED BY <1>1, <1>2, <1>3 DEF Upsert, p

LEMMA MergeType ==
  ASSUME NEW table \in Seq(Row), NEW r \in Records, NEW n \in Nat
  PROVE  Merge(table, r, n) \in [Fields -> Nat]
<1>1. PICK p : p = Position(table, KeyOf(r))
  OBVIOUS
<1>2. p = 0 \/ p \in DOMAIN table
  BY <1>1 DEF Position
<1>3. p # 0 => table[p] \in Row
  BY <1>2
<1>4. PICK existing \in [Fields -> Nat] :
        existing = IF p = 0 THEN Unreported ELSE table[p].value
  BY <1>3 DEF Row, Unreported
<1>5. Merge(table, r, n) = [f \in Fields |-> Field(r, f, n, existing[f])]
  BY <1>1, <1>4 DEF Merge
<1> QED BY <1>5 DEF Field

LEMMA ApplyType ==
  ASSUME KnownRows, NEW r \in Records, NEW n \in Nat
  PROVE  Apply(r, n) \in [Tables -> Seq(Row)]
<1>1. rows \in [Tables -> Seq(Row)]
  BY DEF KnownRows
<1>2. CASE r.table \notin Tables \/ KeyOf(r) = NoKey
  BY <1>1, <1>2 DEF Apply
<1>3. CASE ~(r.table \notin Tables \/ KeyOf(r) = NoKey)
  <2> DEFINE t == r.table
             value == IF t \in Merged THEN Merge(rows[t], r, n) ELSE Replace(r, n)
             row == [key |-> KeyOf(r), value |-> value]
  <2>1. t \in Tables /\ rows[t] \in Seq(Row)
    BY <1>1, <1>3
  <2>2. KeyOf(r) \in Keys
    BY <1>3 DEF KeyOf, Records
  <2>3. Replace(r, n) \in [Fields -> Nat]
    BY DEF Replace, Field
  <2>4. Merge(rows[t], r, n) \in [Fields -> Nat]
    BY <2>1, MergeType
  <2>5. row \in Row
    BY <2>2, <2>3, <2>4 DEF Row
  <2>6. Upsert(rows[t], row) \in Seq(Row)
    BY <2>1, <2>5, UpsertType
  <2>7. Apply(r, n) = [rows EXCEPT ![t] = Upsert(rows[t], row)]
    BY <1>3 DEF Apply
  <2> QED BY <1>1, <2>6, <2>7
<1> QED BY <1>2, <1>3

-------------------------------------------------------------------------------
(* What the records say, as the list rec of them grows.                    *)

Abt(rec, t, k) == {n \in DOMAIN rec : rec[n].table = t /\ KeyOf(rec[n]) = k}

Said(rec, t, k, f) ==
  {n \in (IF t \in Merged THEN Abt(rec, t, k) ELSE {Newest(Abt(rec, t, k))}) :
     f \in rec[n].fields}

Says(rec, t, k, f) == IF Said(rec, t, k, f) = {} THEN 0 ELSE Newest(Said(rec, t, k, f))

(* The table of type t is what the records rec say, and what they say has  *)
(* a beginning and an end.                                                 *)
Tells(table, t, rec) ==
  /\ \A i \in DOMAIN table : Abt(rec, t, table[i].key) # {}
  /\ \A k \in Keys : Abt(rec, t, k) # {} => \E i \in DOMAIN table : table[i].key = k
  /\ \A i, j \in DOMAIN table :
       i < j => Oldest(Abt(rec, t, table[i].key)) < Oldest(Abt(rec, t, table[j].key))
  /\ \A i \in DOMAIN table : \A f \in Fields :
       table[i].value[f] = Says(rec, t, table[i].key, f)

Bounded(t, rec) ==
  \A k \in Keys : Abt(rec, t, k) # {} =>
    /\ \E o \in Abt(rec, t, k) : \A m \in Abt(rec, t, k) : o <= m
    /\ \E n \in Abt(rec, t, k) : \A m \in Abt(rec, t, k) : m <= n

LEMMA NewestIs ==
  ASSUME NEW S \in SUBSET Nat, NEW n \in S, \A m \in S : m <= n
  PROVE  Newest(S) = n
<1>1. PICK x \in S : x = Newest(S) /\ \A m \in S : m <= x
  BY DEF Newest
<1>2. x \in Nat /\ n \in Nat /\ x <= n /\ n <= x
  BY <1>1
<1>3. x = n
  BY <1>2
<1> QED BY <1>1, <1>3

LEMMA OldestIs ==
  ASSUME NEW S \in SUBSET Nat, NEW n \in S, \A m \in S : n <= m
  PROVE  Oldest(S) = n
<1>1. PICK x \in S : x = Oldest(S) /\ \A m \in S : x <= m
  BY DEF Oldest
<1>2. x \in Nat /\ n \in Nat /\ x <= n /\ n <= x
  BY <1>1
<1>3. x = n
  BY <1>2
<1> QED BY <1>1, <1>3

(* One more record.                                                        *)
Grows(rec2, rec, r, N) ==
  /\ DOMAIN rec2 = DOMAIN rec \cup {N} /\ rec2[N] = r
  /\ N \in Nat /\ N \notin DOMAIN rec
  /\ \A n \in DOMAIN rec : n \in Nat /\ n < N /\ n <= N /\ rec2[n] = rec[n]

LEMMA AppendGrows ==
  ASSUME NEW rec \in Seq(Records), NEW r \in Records
  PROVE  Grows(Append(rec, r), rec, r, Len(rec) + 1)
<1>1. PICK l \in Nat : l = Len(rec)
  BY LenProperties
<1>2. PICK g : g = Append(rec, r)
  OBVIOUS
<1>3. DOMAIN rec = 1 .. l
  BY <1>1, LenProperties
<1>4. g \in Seq(Records) /\ Len(g) = l + 1 /\ g[l + 1] = r /\ \A i \in 1 .. l : g[i] = rec[i]
  BY <1>1, <1>2, AppendProperties
<1>5. DOMAIN g = 1 .. (l + 1)
  BY <1>4, LenProperties
<1>6. /\ 1 .. (l + 1) = (1 .. l) \cup {l + 1} /\ l + 1 \in Nat /\ l + 1 \notin 1 .. l
      /\ \A n \in 1 .. l : n \in Nat /\ n < l + 1 /\ n <= l + 1
  OBVIOUS
<1>7. Grows(g, rec, r, l + 1)
  BY <1>3, <1>4, <1>5, <1>6 DEF Grows
<1> QED BY <1>1, <1>2, <1>7

LEMMA AboutGrows ==
  ASSUME NEW rec2, NEW rec, NEW r, NEW N, Grows(rec2, rec, r, N), NEW t, NEW k
  PROVE  /\ Abt(rec2, t, k) = IF t = r.table /\ k = KeyOf(r) THEN Abt(rec, t, k) \cup {N}
                                                           ELSE Abt(rec, t, k)
         /\ \A n \in Abt(rec, t, k) : n \in Nat /\ n < N /\ n <= N /\ rec2[n] = rec[n]
         /\ N \in Nat
BY DEF Grows, Abt

(* The oldest record about a row that there is stays the oldest.           *)
LEMMA OldestStays ==
  ASSUME NEW rec2, NEW rec, NEW r, NEW N, Grows(rec2, rec, r, N), NEW t, NEW k \in Keys,
         Bounded(t, rec), Abt(rec, t, k) # {}
  PROVE  /\ Oldest(Abt(rec2, t, k)) = Oldest(Abt(rec, t, k))
         /\ Oldest(Abt(rec, t, k)) \in Abt(rec, t, k)
         /\ \A m \in Abt(rec2, t, k) : Oldest(Abt(rec, t, k)) <= m
         /\ Oldest(Abt(rec, t, k)) \in Nat /\ Oldest(Abt(rec, t, k)) < N
<1>1. PICK o \in Abt(rec, t, k) : \A m \in Abt(rec, t, k) : o <= m
  BY DEF Bounded
<1>a. /\ Abt(rec2, t, k) = IF t = r.table /\ k = KeyOf(r) THEN Abt(rec, t, k) \cup {N}
                                                        ELSE Abt(rec, t, k)
      /\ \A n \in Abt(rec, t, k) : n \in Nat /\ n < N /\ n <= N /\ rec2[n] = rec[n]
      /\ N \in Nat
  BY AboutGrows
<1>2. /\ Abt(rec2, t, k) \in {Abt(rec, t, k), Abt(rec, t, k) \cup {N}}
      /\ \A n \in Abt(rec, t, k) : n \in Nat /\ n < N /\ n <= N
      /\ N \in Nat
  BY <1>a
<1>3. \A m \in Abt(rec2, t, k) : o <= m
  BY <1>1, <1>2
<1>4. o \in Abt(rec2, t, k) /\ Abt(rec, t, k) \in SUBSET Nat /\ Abt(rec2, t, k) \in SUBSET Nat
  BY <1>1, <1>2
<1>5. Oldest(Abt(rec, t, k)) = o /\ Oldest(Abt(rec2, t, k)) = o
  BY <1>1, <1>3, <1>4, OldestIs
<1> QED BY <1>1, <1>2, <1>3, <1>5

LEMMA StaysBounded ==
  ASSUME NEW rec2, NEW rec, NEW r, NEW N, Grows(rec2, rec, r, N), NEW t, Bounded(t, rec)
  PROVE  Bounded(t, rec2)
<1> SUFFICES ASSUME NEW k \in Keys, Abt(rec2, t, k) # {}
             PROVE  /\ \E o \in Abt(rec2, t, k) : \A m \in Abt(rec2, t, k) : o <= m
                    /\ \E n \in Abt(rec2, t, k) : \A m \in Abt(rec2, t, k) : m <= n
  BY DEF Bounded
<1>a. /\ Abt(rec2, t, k) = IF t = r.table /\ k = KeyOf(r) THEN Abt(rec, t, k) \cup {N}
                                                        ELSE Abt(rec, t, k)
      /\ \A n \in Abt(rec, t, k) : n \in Nat /\ n < N /\ n <= N /\ rec2[n] = rec[n]
      /\ N \in Nat
  BY AboutGrows
<1>1. CASE Abt(rec, t, k) # {}
  <2>1. /\ Oldest(Abt(rec, t, k)) \in Abt(rec2, t, k)
        /\ \A m \in Abt(rec2, t, k) : Oldest(Abt(rec, t, k)) <= m
    BY <1>1, <1>a, OldestStays
  <2>2. \E n \in Abt(rec2, t, k) : \A m \in Abt(rec2, t, k) : m <= n
    <3>1. CASE Abt(rec2, t, k) = Abt(rec, t, k)
      BY <1>1, <3>1 DEF Bounded
    <3>2. CASE Abt(rec2, t, k) = Abt(rec, t, k) \cup {N}
      <4>1. N <= N
        BY <1>a
      <4> QED BY <1>a, <3>2, <4>1
    <3> QED BY <1>a, <3>1, <3>2
  <2> QED BY <2>1, <2>2
<1>2. CASE Abt(rec, t, k) = {}
  <2>1. Abt(rec2, t, k) = {N} /\ N \in Nat
    BY <1>2, <1>a
  <2>2. N <= N
    BY <2>1
  <2> QED BY <2>1, <2>2
<1> QED BY <1>1, <1>2

(* A row that the record is not about is told as before.                   *)
LEMMA OthersSayTheSame ==
  ASSUME NEW rec2, NEW rec, NEW r, NEW N, Grows(rec2, rec, r, N), NEW t, NEW k \in Keys,
         ~(t = r.table /\ k = KeyOf(r)), Bounded(t, rec), Abt(rec, t, k) # {}, NEW f
  PROVE  Says(rec2, t, k, f) = Says(rec, t, k, f)
<1>1. /\ Abt(rec2, t, k) = Abt(rec, t, k)
      /\ \A n \in Abt(rec, t, k) : n \in Nat /\ rec2[n] = rec[n]
  BY AboutGrows
<1>2. PICK x \in Abt(rec, t, k) : \A m \in Abt(rec, t, k) : m <= x
  BY DEF Bounded
<1>3. Newest(Abt(rec, t, k)) = x
  <2>1. Abt(rec, t, k) \in SUBSET Nat
    BY <1>1
  <2> QED BY <1>2, <2>1, NewestIs
<1>4. Said(rec2, t, k, f) = Said(rec, t, k, f)
  BY <1>1, <1>2, <1>3 DEF Said
<1> QED BY <1>4 DEF Says

(* The row that it is about: of a merged table what it leaves out stays.   *)
LEMMA NamedSaysNew ==
  ASSUME NEW rec2, NEW rec, NEW r, NEW N, Grows(rec2, rec, r, N), NEW t, NEW k \in Keys,
         t = r.table, k = KeyOf(r), NEW f
  PROVE  Says(rec2, t, k, f) = IF f \in r.fields THEN N
                               ELSE IF t \in Merged THEN Says(rec, t, k, f) ELSE 0
<1>1. /\ Abt(rec2, t, k) = Abt(rec, t, k) \cup {N}
      /\ \A n \in Abt(rec, t, k) : n \in Nat /\ n <= N /\ rec2[n] = rec[n]
      /\ N \in Nat
  BY AboutGrows
<1>2. rec2[N] = r /\ N <= N
  BY <1>1 DEF Grows
<1>3. CASE t \in Merged
  <2>1. /\ Said(rec2, t, k, f) = {n \in Abt(rec2, t, k) : f \in rec2[n].fields}
        /\ Said(rec, t, k, f) = {n \in Abt(rec, t, k) : f \in rec[n].fields}
    BY <1>3 DEF Said
  <2>2. CASE f \in r.fields
    <3>1. /\ Said(rec2, t, k, f) \in SUBSET Nat /\ N \in Said(rec2, t, k, f)
          /\ \A m \in Said(rec2, t, k, f) : m <= N
      BY <1>1, <1>2, <2>1, <2>2
    <3>2. Newest(Said(rec2, t, k, f)) = N
      BY <3>1, NewestIs
    <3> QED BY <2>2, <3>1, <3>2 DEF Says
  <2>3. CASE f \notin r.fields
    <3>1. Said(rec2, t, k, f) = Said(rec, t, k, f)
      BY <1>1, <1>2, <2>1, <2>3
    <3> QED BY <1>3, <2>3, <3>1 DEF Says
  <2> QED BY <2>2, <2>3
<1>4. CASE t \notin Merged
  <2>1. Newest(Abt(rec2, t, k)) = N
    <3>1. /\ Abt(rec2, t, k) \in SUBSET Nat /\ N \in Abt(rec2, t, k)
          /\ \A m \in Abt(rec2, t, k) : m <= N
      BY <1>1, <1>2
    <3> QED BY <3>1, NewestIs
  <2>2. Said(rec2, t, k, f) = IF f \in r.fields THEN {N} ELSE {}
    BY <1>2, <1>4, <2>1 DEF Said
  <2>3. Newest({N}) = N
    <3>1. {N} \in SUBSET Nat /\ N \in {N} /\ \A m \in {N} : m <= N
      BY <1>1, <1>2
    <3> QED BY <3>1, NewestIs
  <2> QED BY <1>4, <2>2, <2>3 DEF Says
<1> QED BY <1>3, <1>4

LEMMA PositionIs ==
  ASSUME NEW table \in Seq(Row), NEW k
  PROVE  /\ Position(table, k) # 0 => /\ Position(table, k) \in DOMAIN table
                                      /\ table[Position(table, k)].key = k
         /\ Position(table, k) = 0 => \A i \in DOMAIN table : table[i].key # k
<1>1. 0 \notin DOMAIN table
  <2>1. DOMAIN table = 1 .. Len(table)
    BY LenProperties
  <2>2. 0 \notin 1 .. Len(table)
    OBVIOUS
  <2> QED BY <2>1, <2>2
<1> QED BY <1>1 DEF Position

(* What the records say of row k before any of them is about it.           *)
LEMMA NothingSaid ==
  ASSUME NEW rec, NEW t \in Merged, NEW k, Abt(rec, t, k) = {}, NEW f
  PROVE  Says(rec, t, k, f) = 0
BY DEF Says, Said

(* A table that the record is not about.                                   *)
LEMMA OtherTableTells ==
  ASSUME NEW rec2, NEW rec, NEW r, NEW N, Grows(rec2, rec, r, N), NEW t,
         t # r.table \/ KeyOf(r) \notin Keys,
         NEW table \in Seq(Row), Tells(table, t, rec), Bounded(t, rec)
  PROVE  Tells(table, t, rec2)
<1>1. \A k \in Keys : Abt(rec2, t, k) = Abt(rec, t, k)
  <2> SUFFICES ASSUME NEW k \in Keys PROVE Abt(rec2, t, k) = Abt(rec, t, k)
    OBVIOUS
  <2>1. ~(t = r.table /\ k = KeyOf(r))
    OBVIOUS
  <2> QED BY <2>1, AboutGrows
<1>2. \A i \in DOMAIN table : table[i] \in Row
  OBVIOUS
<1>3. \A i \in DOMAIN table : table[i].key \in Keys
  BY <1>2 DEF Row
<1>4. \A i \in DOMAIN table : \A f \in Fields :
        Says(rec2, t, table[i].key, f) = Says(rec, t, table[i].key, f)
  <2> SUFFICES ASSUME NEW i \in DOMAIN table, NEW f \in Fields
               PROVE  Says(rec2, t, table[i].key, f) = Says(rec, t, table[i].key, f)
    OBVIOUS
  <2>1. PICK k \in Keys : k = table[i].key
    BY <1>3
  <2>2. ~(t = r.table /\ k = KeyOf(r)) /\ Abt(rec, t, k) # {}
    BY <2>1 DEF Tells
  <2> QED BY <2>1, <2>2, OthersSayTheSame
<1> QED BY <1>1, <1>3, <1>4 DEF Tells

(* The table that it is about.                                             *)
LEMMA UpsertTells ==
  ASSUME NEW rec2, NEW rec, NEW r, NEW N, Grows(rec2, rec, r, N), NEW t, NEW k \in Keys,
         t = r.table, k = KeyOf(r),
         NEW table \in Seq(Row), Tells(table, t, rec), Bounded(t, rec),
         NEW row \in Row, row.key = k,
         \A f \in Fields : row.value[f] = Says(rec2, t, k, f)
  PROVE  Tells(Upsert(table, row), t, rec2)
<1>1. PICK p : p = Position(table, k)
  OBVIOUS
<1>2. \A i \in DOMAIN table : table[i].key \in Keys
  <2>1. \A i \in DOMAIN table : table[i] \in Row
    OBVIOUS
  <2> QED BY <2>1 DEF Row
<1>a. /\ Abt(rec2, t, k) = Abt(rec, t, k) \cup {N}
      /\ \A x \in Keys : x # k => Abt(rec2, t, x) = Abt(rec, t, x)
      /\ N \in Nat
  BY AboutGrows
<1>3. \A i \in DOMAIN table :
        LET o == Oldest(Abt(rec, t, table[i].key))
        IN  /\ Oldest(Abt(rec2, t, table[i].key)) = o
            /\ o \in Nat /\ o < N
            /\ Abt(rec2, t, table[i].key) # {}
  <2> SUFFICES ASSUME NEW i \in DOMAIN table
               PROVE  LET o == Oldest(Abt(rec, t, table[i].key))
                      IN  /\ Oldest(Abt(rec2, t, table[i].key)) = o
                          /\ o \in Nat /\ o < N
                          /\ Abt(rec2, t, table[i].key) # {}
    OBVIOUS
  <2>1. PICK x \in Keys : x = table[i].key
    BY <1>2
  <2>2. Abt(rec, t, x) # {}
    BY <2>1 DEF Tells
  <2>3. /\ Oldest(Abt(rec2, t, x)) = Oldest(Abt(rec, t, x))
        /\ Oldest(Abt(rec, t, x)) \in Nat /\ Oldest(Abt(rec, t, x)) < N
    BY <2>2, OldestStays
  <2>4. Abt(rec2, t, x) # {}
    BY <1>a, <2>2
  <2> QED BY <2>1, <2>3, <2>4
<1>4. ASSUME NEW i \in DOMAIN table, table[i].key # k, NEW f \in Fields
      PROVE  Says(rec2, t, table[i].key, f) = Says(rec, t, table[i].key, f)
  <2>1. PICK x \in Keys : x = table[i].key
    BY <1>2
  <2>2. ~(t = r.table /\ x = KeyOf(r)) /\ Abt(rec, t, x) # {}
    BY <1>4, <2>1 DEF Tells
  <2> QED BY <2>1, <2>2, OthersSayTheSame
<1>5. CASE p = 0
  <2>1. \A i \in DOMAIN table : table[i].key # k
    BY <1>1, <1>5, PositionIs
  <2>2. Abt(rec, t, k) = {}
    BY <2>1 DEF Tells
  <2>3. PICK n \in Nat : n = Len(table)
    BY LenProperties
  <2>4. PICK g : g = Append(table, row)
    OBVIOUS
  <2>5. DOMAIN table = 1 .. n
    BY <2>3, LenProperties
  <2>6. g \in Seq(Row) /\ Len(g) = n + 1 /\ g[n + 1] = row /\ \A i \in 1 .. n : g[i] = table[i]
    BY <2>3, <2>4, AppendProperties
  <2>7. DOMAIN g = 1 .. (n + 1)
    BY <2>6, LenProperties
  <2>8. /\ 1 .. (n + 1) = (1 .. n) \cup {n + 1}
        /\ \A i \in 1 .. n : ~(n + 1 < i)
        /\ ~(n + 1 < n + 1)
    OBVIOUS
  <2>9. /\ DOMAIN g = DOMAIN table \cup {n + 1} /\ g[n + 1] = row
        /\ \A i \in DOMAIN table : g[i] = table[i] /\ ~(n + 1 < i)
        /\ ~(n + 1 < n + 1)
    BY <2>5, <2>6, <2>7, <2>8
  <2>10. Abt(rec2, t, k) = {N} /\ Oldest({N}) = N
    <3>1. Abt(rec2, t, k) = {N}
      BY <1>a, <2>2
    <3>2. N <= N
      BY <1>a
    <3>3. {N} \in SUBSET Nat /\ N \in {N} /\ \A m \in {N} : N <= m
      BY <1>a, <3>2
    <3> QED BY <3>1, <3>3, OldestIs
  <2>11. ASSUME NEW i \in DOMAIN g, NEW j \in DOMAIN g, i < j
         PROVE  Oldest(Abt(rec2, t, g[i].key)) < Oldest(Abt(rec2, t, g[j].key))
    <3>1. i \in DOMAIN table /\ g[i] = table[i]
      BY <2>9, <2>11
    <3>2. CASE j = n + 1
      <4>1. Oldest(Abt(rec2, t, g[j].key)) = N
        BY <2>9, <2>10, <3>2
      <4>2. Oldest(Abt(rec2, t, g[i].key)) < N
        BY <1>3, <3>1
      <4> QED BY <4>1, <4>2
    <3>3. CASE j \in DOMAIN table
      BY <1>3, <2>9, <2>11, <3>1, <3>3 DEF Tells
    <3> QED BY <2>9, <3>2, <3>3
  <2>12. \A i \in DOMAIN g : \A f \in Fields : g[i].value[f] = Says(rec2, t, g[i].key, f)
    BY <1>4, <2>1, <2>9 DEF Tells
  <2>13. \A i \in DOMAIN g : Abt(rec2, t, g[i].key) # {}
    BY <1>3, <2>9, <2>10
  <2>14. ASSUME NEW x \in Keys, Abt(rec2, t, x) # {}
         PROVE  \E i \in DOMAIN g : g[i].key = x
    <3>1. CASE x = k
      BY <2>9, <3>1
    <3>2. CASE x # k
      BY <1>a, <2>9, <2>14, <3>2 DEF Tells
    <3> QED BY <3>1, <3>2
  <2>15. Tells(g, t, rec2)
    BY <2>11, <2>12, <2>13, <2>14 DEF Tells
  <2> QED BY <1>1, <1>5, <2>4, <2>15 DEF Upsert
<1>6. CASE p # 0
  <2>1. p \in DOMAIN table /\ table[p].key = k
    BY <1>1, <1>6, PositionIs
  <2>2. PICK g : g = [table EXCEPT ![p] = row]
    OBVIOUS
  <2>3. /\ DOMAIN g = DOMAIN table /\ g[p] = row
        /\ \A i \in DOMAIN table : i # p => g[i] = table[i]
    BY <2>1, <2>2
  <2>4. \A i \in DOMAIN g : g[i].key = table[i].key
    BY <2>1, <2>3
  <2>5. ASSUME NEW i \in DOMAIN table, i # p PROVE table[i].key # k
    <3>1. i < p \/ p < i
      <4>1. DOMAIN table = 1 .. Len(table)
        BY LenProperties
      <4>2. i \in Nat /\ p \in Nat
        BY <2>1, <4>1
      <4> QED BY <2>5, <4>2
    <3>2. PICK x, y \in Nat : /\ x = Oldest(Abt(rec, t, table[i].key))
                              /\ y = Oldest(Abt(rec, t, table[p].key))
      BY <1>3, <2>1
    <3>3. x < y \/ y < x
      BY <2>1, <3>1, <3>2 DEF Tells
    <3>4. x # y
      BY <3>3
    <3> QED BY <2>1, <3>2, <3>4
  <2>6. ASSUME NEW i \in DOMAIN g, NEW j \in DOMAIN g, i < j
        PROVE  Oldest(Abt(rec2, t, g[i].key)) < Oldest(Abt(rec2, t, g[j].key))
    <3>1. Oldest(Abt(rec, t, table[i].key)) < Oldest(Abt(rec, t, table[j].key))
      BY <2>3, <2>6 DEF Tells
    <3> QED BY <1>3, <2>3, <2>4, <3>1
  <2>7. ASSUME NEW i \in DOMAIN g, NEW f \in Fields
        PROVE  g[i].value[f] = Says(rec2, t, g[i].key, f)
    <3>1. CASE i = p
      BY <2>1, <2>3, <3>1
    <3>2. CASE i # p
      BY <1>4, <2>3, <2>5, <3>2 DEF Tells
    <3> QED BY <3>1, <3>2
  <2>8. \A i \in DOMAIN g : Abt(rec2, t, g[i].key) # {}
    BY <1>3, <2>3, <2>4
  <2>9. ASSUME NEW x \in Keys, Abt(rec2, t, x) # {}
        PROVE  \E i \in DOMAIN g : g[i].key = x
    <3>1. CASE x = k
      BY <2>1, <2>3, <2>4, <3>1
    <3>2. CASE x # k
      BY <1>a, <2>3, <2>4, <2>9, <3>2 DEF Tells
    <3> QED BY <3>1, <3>2
  <2>10. Tells(g, t, rec2)
    BY <2>6, <2>7, <2>8, <2>9 DEF Tells
  <2> QED BY <1>1, <1>6, <2>2, <2>10 DEF Upsert
<1> QED BY <1>5, <1>6

-------------------------------------------------------------------------------
LEMMA FailureShowsNothing ==
  ASSUME Disconnected
  PROVE  /\ ~frame'.answered /\ ~frame'.connected
         /\ \A i \in DOMAIN frame'.rows : frame'.rows[i].value = Unreported
         /\ UNCHANGED <<rows, connected, silence, received, since>>
<1>1. PICK view \in {"costs", "loading", "page health"} :
        frame' = [view |-> view, answered |-> FALSE, connected |-> FALSE,
                  rows |-> IF view = "page health"
                           THEN <<[key |-> Zero, value |-> Unreported]>> ELSE <<>>]
  BY DEF Disconnected
<1>2. /\ frame'.connected = FALSE /\ frame'.answered = FALSE
      /\ frame'.rows \in {<<>>, <<[key |-> Zero, value |-> Unreported]>>}
  BY <1>1
<1>3. \A i \in DOMAIN frame'.rows : frame'.rows[i].value = Unreported
  BY <1>2, OneRowShowsNothing
<1>4. UNCHANGED <<rows, connected, silence, received, since>>
  BY DEF Disconnected
<1> QED BY <1>2, <1>3, <1>4

LEMMA StepKeeps == Invariant /\ [Next]_vars => Invariant'
<1> SUFFICES ASSUME Invariant, [Next]_vars PROVE Invariant'
  OBVIOUS
<1> USE DEF Invariant
<1>1. CASE UNCHANGED vars
  BY <1>1 DEF vars, KnownRows, SilentShowsNothing, NoRows
<1>2. CASE Consume
  <2>1. PICK r \in Records :
          /\ rows' = Apply(r, Len(received) + 1)
          /\ received' = Append(received, r)
    BY <1>2 DEF Consume
  <2>2. received' \in Seq(Records) /\ received' # <<>>
    BY <2>1 DEF KnownRows
  <2>3. rows' \in [Tables -> Seq(Row)]
    <3>1. Len(received) + 1 \in Nat
      BY DEF KnownRows
    <3> QED BY <2>1, <3>1, ApplyType
  <2>4. connected' = TRUE /\ silence' = 0 /\ frame' = NoFrame /\ since'.any = 0
    BY <1>2 DEF Consume
  <2>5. SilentShowsNothing'
    BY <2>4 DEF SilentShowsNothing, NoFrame
  <2> QED BY <2>2, <2>3, <2>4, <2>5 DEF KnownRows
<1>3. CASE Tick
  <2>1. /\ silence' = Later(silence) /\ since'.any = Later(since.any)
        /\ UNCHANGED <<rows, connected, received>> /\ frame' = NoFrame
    BY <1>3 DEF Tick
  <2>2. SilentShowsNothing'
    BY <2>1 DEF SilentShowsNothing, NoFrame
  <2>3. silence' \in Nat /\ since'.any \in Nat
    BY <2>1 DEF Later, KnownRows
  <2>4. IF connected THEN silence' = since'.any ELSE since'.any > Timeout
    BY <2>1 DEF Later, KnownRows
  <2> QED BY <2>1, <2>2, <2>3, <2>4 DEF KnownRows, NoRows
<1>4. CASE Answer
  <2>1. PICK view \in Views :
          frame' = [view |-> view, answered |-> TRUE,
                    connected |-> Snapshot.connected,
                    rows |-> Shown(view, Snapshot)]
    BY <1>4 DEF Answer
  <2>2. /\ rows' = Snapshot.rows /\ connected' = Snapshot.connected
        /\ silence' = silence /\ since' = since /\ Forget
    BY <1>4 DEF Answer
  <2>3. Snapshot.connected => received' = received /\ received # <<>>
    <3>1. Snapshot.connected => connected /\ ~Stale
      BY SnapshotKnown DEF Stale, KnownRows
    <3> QED BY <2>2, <3>1 DEF Forget, KnownRows
  <2>4. received' \in Seq(Records)
    BY <2>2 DEF Forget, KnownRows
  <2>a. Snapshot.connected <=> since.any <= Timeout
    BY DEF Snapshot, Stale, KnownRows
  <2>b. Snapshot.connected => connected
    BY SnapshotKnown
  <2>c. IF connected' THEN silence' = since'.any ELSE since'.any > Timeout
    BY <2>2, <2>a, <2>b DEF KnownRows
  <2>5. KnownRows'
    BY <2>2, <2>3, <2>4, <2>c, SnapshotKnown DEF KnownRows, NoRows
  <2>6. ~Snapshot.connected =>
          \A i \in DOMAIN Shown(view, Snapshot) : Shown(view, Snapshot)[i].value = Unreported
    BY SnapshotKnown, EmptyShowsNothing
  <2>7. frame'.connected = Snapshot.connected /\ frame'.rows = Shown(view, Snapshot)
    BY <2>1
  <2> QED BY <2>2, <2>5, <2>6, <2>7, <2>a DEF SilentShowsNothing, Unreported
<1>5. CASE Disconnected
  <2>1. /\ ~frame'.answered /\ ~frame'.connected
        /\ \A i \in DOMAIN frame'.rows : frame'.rows[i].value = Unreported
        /\ UNCHANGED <<rows, connected, silence, received, since>>
    BY <1>5, FailureShowsNothing
  <2>2. KnownRows'
    BY <2>1 DEF KnownRows, NoRows
  <2> QED BY <2>1, <2>2 DEF SilentShowsNothing, Unreported
<1> QED BY <1>1, <1>2, <1>3, <1>4, <1>5 DEF Next

-------------------------------------------------------------------------------
(* The tables tell what the records received say.                          *)

Telling == \A t \in Tables : Tells(rows[t], t, received) /\ Bounded(t, received)

LEMMA EmptyTells == \A t \in Tables : Tells(<<>>, t, <<>>) /\ Bounded(t, <<>>)
<1>1. \A t, k : Abt(<<>>, t, k) = {}
  BY DEF Abt
<1> QED BY <1>1 DEF Tells, Bounded

(* The record is merged into its row, or replaces it.                      *)
LEMMA ValueSaid ==
  ASSUME KnownRows, Telling, NEW r \in Records, NEW rec2, NEW N, Grows(rec2, received, r, N),
         NEW k \in Keys, k = KeyOf(r), r.table \in Tables, NEW f \in Fields
  PROVE  (IF r.table \in Merged THEN Merge(rows[r.table], r, N) ELSE Replace(r, N))[f]
           = Says(rec2, r.table, k, f)
<1>1. PICK t \in Tables : t = r.table
  OBVIOUS
<1>2. PICK table \in Seq(Row) : table = rows[t]
  BY DEF KnownRows
<1>3. Tells(table, t, received)
  BY <1>2 DEF Telling
<1>4. Says(rec2, t, k, f) = IF f \in r.fields THEN N
                            ELSE IF t \in Merged THEN Says(received, t, k, f) ELSE 0
  BY <1>1, NamedSaysNew
<1>5. CASE t \in Merged
  <2>1. PICK p : p = Position(table, k)
    OBVIOUS
  <2>2. Merge(table, r, N)[f] = IF f \in r.fields THEN N
                                ELSE IF p = 0 THEN 0 ELSE table[p].value[f]
    BY <2>1 DEF Merge, Field, Unreported
  <2>3. CASE p = 0
    <3>1. \A i \in DOMAIN table : table[i].key # k
      BY <2>1, <2>3, PositionIs
    <3>2. Abt(received, t, k) = {}
      BY <1>3, <3>1 DEF Tells
    <3>3. Says(received, t, k, f) = 0
      BY <1>5, <3>2, NothingSaid
    <3> QED BY <1>1, <1>2, <1>4, <1>5, <2>2, <2>3, <3>3
  <2>4. CASE p # 0
    <3>1. p \in DOMAIN table /\ table[p].key = k
      BY <2>1, <2>4, PositionIs
    <3>2. table[p].value[f] = Says(received, t, k, f)
      BY <1>3, <3>1 DEF Tells
    <3> QED BY <1>1, <1>2, <1>4, <1>5, <2>2, <2>4, <3>2
  <2> QED BY <2>3, <2>4
<1>6. CASE t \notin Merged
  <2>1. Replace(r, N)[f] = IF f \in r.fields THEN N ELSE 0
    BY DEF Replace, Field
  <2> QED BY <1>1, <1>4, <1>6, <2>1
<1> QED BY <1>5, <1>6

LEMMA ConsumeTells ==
  ASSUME KnownRows, Telling, Consume
  PROVE  Telling'
<1>1. PICK r \in Records :
        /\ rows' = Apply(r, Len(received) + 1)
        /\ received' = Append(received, r)
  BY DEF Consume
<1>2. PICK N, rec2, rec : N = Len(received) + 1 /\ rec2 = received' /\ rec = received
  OBVIOUS
<1>3. Grows(rec2, rec, r, N)
  BY <1>1, <1>2, AppendGrows DEF KnownRows
<1>4. N \in Nat
  BY <1>3 DEF Grows
<1>5. \A t \in Tables : Bounded(t, rec2)
  BY <1>2, <1>3, StaysBounded DEF Telling
<1>6. CASE r.table \notin Tables \/ KeyOf(r) = NoKey
  <2>1. rows' = rows
    BY <1>1, <1>6 DEF Apply
  <2>2. ASSUME NEW t \in Tables PROVE Tells(rows[t], t, rec2)
    <3>1. PICK table \in Seq(Row) : table = rows[t]
      BY DEF KnownRows
    <3>2. t # r.table \/ KeyOf(r) \notin Keys
      BY <1>6
    <3>3. Tells(table, t, rec) /\ Bounded(t, rec)
      BY <1>2, <3>1 DEF Telling
    <3> QED BY <1>3, <3>1, <3>2, <3>3, OtherTableTells
  <2> QED BY <1>2, <1>5, <2>1, <2>2 DEF Telling
<1>7. CASE r.table \in Tables /\ KeyOf(r) # NoKey
  <2>1. PICK k \in Keys : k = KeyOf(r)
    BY <1>7 DEF KeyOf, Records
  <2>2. PICK u \in Tables : u = r.table
    BY <1>7
  <2>3. PICK value, row :
          /\ value = IF u \in Merged THEN Merge(rows[u], r, N) ELSE Replace(r, N)
          /\ row = [key |-> k, value |-> value]
    OBVIOUS
  <2>4. rows' = [rows EXCEPT ![u] = Upsert(rows[u], row)]
    BY <1>1, <1>2, <1>7, <2>1, <2>2, <2>3 DEF Apply
  <2>5. value \in [Fields -> Nat]
    <3>1. rows[u] \in Seq(Row)
      BY DEF KnownRows
    <3>2. Replace(r, N) \in [Fields -> Nat]
      BY <1>4 DEF Replace, Field
    <3>3. Merge(rows[u], r, N) \in [Fields -> Nat]
      BY <1>4, <2>1, <3>1, MergeType
    <3> QED BY <2>3, <3>2, <3>3
  <2>6. row \in Row /\ row.key = k /\ row.value = value
    BY <2>3, <2>5 DEF Row
  <2>7. \A f \in Fields : row.value[f] = Says(rec2, u, k, f)
    BY <1>2, <1>3, <2>1, <2>2, <2>3, <2>6, ValueSaid
  <2>8. PICK table \in Seq(Row) : table = rows[u]
    BY DEF KnownRows
  <2>9. Tells(Upsert(table, row), u, rec2)
    <3>1. Tells(table, u, rec) /\ Bounded(u, rec)
      BY <1>2, <2>8 DEF Telling
    <3> QED BY <1>3, <2>1, <2>2, <2>6, <2>7, <3>1, UpsertTells
  <2>10. ASSUME NEW t \in Tables, t # u PROVE Tells(rows[t], t, rec2)
    <3>1. PICK other \in Seq(Row) : other = rows[t]
      BY DEF KnownRows
    <3>2. Tells(other, t, rec) /\ Bounded(t, rec)
      BY <1>2, <3>1 DEF Telling
    <3> QED BY <1>3, <2>2, <2>10, <3>1, <3>2, OtherTableTells
  <2>11. /\ rows'[u] = Upsert(table, row)
         /\ \A t \in Tables : t # u => rows'[t] = rows[t]
    BY <2>4, <2>8 DEF KnownRows
  <2>12. ASSUME NEW t \in Tables PROVE Tells(rows'[t], t, rec2)
    BY <2>9, <2>10, <2>11
  <2> QED BY <1>2, <1>5, <2>12 DEF Telling
<1> QED BY <1>6, <1>7

(* A snapshot forgets the rows and the records together.                   *)
LEMMA StepTells == Invariant /\ Telling /\ [Next]_vars => Telling'
<1> SUFFICES ASSUME Invariant, Telling, [Next]_vars PROVE Telling'
  OBVIOUS
<1>1. CASE UNCHANGED <<rows, received>>
  BY <1>1 DEF Telling
<1>2. CASE Consume
  BY <1>2, ConsumeTells DEF Invariant
<1>3. CASE Answer
  <2>1. CASE Stale
    <3>1. rows' = NoRows /\ received' = <<>>
      BY <1>3, <2>1 DEF Answer, Snapshot, Forget
    <3>2. \A t \in Tables : rows'[t] = <<>>
      BY <3>1 DEF NoRows
    <3> QED BY <3>1, <3>2, EmptyTells DEF Telling
  <2>2. CASE ~Stale
    BY <1>1, <1>3, <2>2 DEF Answer, Snapshot, Forget
  <2> QED BY <2>1, <2>2
<1>4. CASE Tick \/ Disconnected \/ UNCHANGED vars
  BY <1>1, <1>4 DEF Tick, Disconnected, vars
<1> QED BY <1>2, <1>3, <1>4 DEF Next

-------------------------------------------------------------------------------
(* The theorems. *)

LEMMA InitKeeps == Init => Invariant
<1> SUFFICES ASSUME Init PROVE Invariant
  OBVIOUS
<1>1. rows = NoRows /\ NoRows \in [Tables -> Seq(Row)]
  BY DEF Init, NoRows
<1>2. received = <<>> /\ received \in Seq(Records)
  BY DEF Init
<1>3. connected = FALSE /\ silence = 0 /\ since.any = Timeout + 1
  BY DEF Init
<1>4. KnownRows
  <2>1. Timeout \in Nat
    BY DEF SystemInfoAssumption
  <2>2. since.any \in Nat /\ since.any > Timeout /\ silence \in Nat
    BY <1>3, <2>1
  <2> QED BY <1>1, <1>2, <1>3, <2>2 DEF KnownRows
<1>5. SilentShowsNothing
  BY DEF Init, SilentShowsNothing, NoFrame
<1> QED BY <1>4, <1>5 DEF Invariant

(* Whoever looks, at whatever page, is shown a connection exactly when a   *)
(* record came within the timeout, and without one sees no value, for any  *)
(* timeout and any pages (SystemInfoService::snapshot, the health and cost *)
(* handlers).                                                              *)
THEOREM SilenceIsShown == Spec => []SilentShowsNothing
<1>1. Invariant => SilentShowsNothing
  BY DEF Invariant
<1> QED BY <1>1, InitKeeps, StepKeeps, PTL DEF Spec

(* The tables say what the records since the last clearing said, whatever  *)
(* the firmware reports: a row for each id in the order of their first     *)
(* records, and in each field the newest value given                       *)
(* (SystemInfoService::consumeLogEntry and snapshot).                      *)
THEOREM RowsAlwaysTell == Spec => []RowsTellRecords
<1>1. Init => Invariant /\ Telling
  <2> SUFFICES ASSUME Init PROVE Invariant /\ Telling
    OBVIOUS
  <2>1. Invariant
    BY InitKeeps
  <2>2. received = <<>> /\ \A t \in Tables : rows[t] = <<>>
    BY DEF Init
  <2> QED BY <2>1, <2>2, EmptyTells DEF Telling
<1>2. Invariant /\ Telling /\ [Next]_vars => (Invariant /\ Telling)'
  BY StepKeeps, StepTells
<1>3. Invariant /\ Telling => RowsTellRecords
  <2> SUFFICES ASSUME Invariant, Telling PROVE RowsTellRecords
    OBVIOUS
  <2>1. \A t, k : About(t, k) = Abt(received, t, k)
    BY DEF About, Abt
  <2>2. \A t, k, f : Told(t, k, f) = Says(received, t, k, f)
    BY <2>1 DEF Told, Speaking, Says, Said
  <2>3. \A t \in Tables : \A i \in DOMAIN rows[t] : rows[t][i].key \in Keys
    <3> SUFFICES ASSUME NEW t \in Tables, NEW i \in DOMAIN rows[t]
                 PROVE  rows[t][i].key \in Keys
      OBVIOUS
    <3>1. rows[t] \in Seq(Row)
      BY DEF Invariant, KnownRows
    <3>2. rows[t][i] \in Row
      BY <3>1
    <3> QED BY <3>2 DEF Row
  <2> SUFFICES ASSUME NEW t \in Tables
               PROVE  LET named == {k \in Keys : About(t, k) # {}}
                      IN  /\ {rows[t][i].key : i \in DOMAIN rows[t]} = named
                          /\ \A i, j \in DOMAIN rows[t] :
                               i < j => Oldest(About(t, rows[t][i].key))
                                          < Oldest(About(t, rows[t][j].key))
                          /\ \A i \in DOMAIN rows[t] : \A f \in Fields :
                               rows[t][i].value[f] = Told(t, rows[t][i].key, f)
    BY DEF RowsTellRecords
  <2>4. Tells(rows[t], t, received)
    BY DEF Telling
  <2>5. {rows[t][i].key : i \in DOMAIN rows[t]} = {k \in Keys : About(t, k) # {}}
    BY <2>1, <2>3, <2>4 DEF Tells
  <2>6. \A i, j \in DOMAIN rows[t] :
          i < j => Oldest(About(t, rows[t][i].key)) < Oldest(About(t, rows[t][j].key))
    BY <2>1, <2>4 DEF Tells
  <2>7. \A i \in DOMAIN rows[t] : \A f \in Fields :
          rows[t][i].value[f] = Told(t, rows[t][i].key, f)
    BY <2>2, <2>4 DEF Tells
  <2> QED BY <2>5, <2>6, <2>7
<1> QED BY <1>1, <1>2, <1>3, PTL DEF Spec

-----------------------------------------------------------------------------
(* The compiler of the config service.                                     *)

(* A compilation and the directory have the shape the code gives them.     *)
IsCall(c) ==
  c = [pc |-> c.pc, request |-> c.request, paths |-> c.paths, of |-> c.of,
       written |-> c.written, tplg_built |-> c.tplg_built,
       tplg_decoded |-> c.tplg_decoded, ok |-> c.ok, result |-> c.result]

(* Nothing was written before.                                             *)
Before == {"builtin", "plugins", "parse", "generate"}

(* What was checked before the first file is written still holds.          *)
Accepted ==
  /\ call.pc \in {"generate", "write", "alsatplg", "decode", "report"} =>
       call.of \in DOMAIN Projects /\ Compiles(Projects[call.of], handlers)
  /\ call.pc \in {"write", "alsatplg", "decode", "report"} =>
       WidgetsHaveUuids(Projects[call.of])

(* The files written so far are of this compilation, and so are the binary *)
(* and its text where the flags say that they were made.                   *)
Written ==
  /\ call.written \in 0 .. 6
  /\ call.pc \in Before => call.written = 0
  /\ call.pc = "write" => call.written < 6
  /\ call.pc = "write" => \A i \in 1 .. call.written : files[Outputs[i]] = Made
  /\ call.pc \in {"alsatplg", "decode", "report"} =>
       \A i \in 1 .. 6 : files[Outputs[i]] = Made

Flagged ==
  /\ call.pc \notin {"idle", "decode", "report"} => call.tplg_built = FALSE
  /\ call.pc \notin {"idle", "report"} => call.tplg_decoded = FALSE
  /\ call.pc \in {"alsatplg", "decode"} => call.request.tplg = TRUE
  /\ call.pc = "decode" => call.tplg_built = TRUE
  /\ call.pc \in {"decode", "report"} =>
       /\ call.tplg_built = call.request.tplg
       /\ call.tplg_built => files["tplg"] = Made
       /\ call.tplg_decoded => files["decode"] = Made

CompileInv ==
  /\ IsCall(call)
  /\ files = [f \in AllFiles |-> files[f]]
  /\ call.pc # "idle" => call.result = Nil
  /\ call.pc # "idle" => call.request \in Requests
  /\ Written
  /\ Flagged
  /\ SuccessIsFresh

(* What the documents, the binary and the reports are called.              *)
LEMMA SixFiles ==
  /\ Len(Outputs) = 6
  /\ Range(Outputs) = {Outputs[i] : i \in 1 .. 6}
  /\ \A i \in 1 .. 6 : /\ Outputs[i] \in AllFiles
                       /\ Outputs[i] \notin {"tplg", "alsatplg_log", "decode", "decode_log", "report"}
  /\ \A i, j \in 1 .. 6 : Outputs[i] = Outputs[j] => i = j
  /\ {"tplg", "alsatplg_log", "decode", "decode_log", "report"} \subseteq AllFiles
<1>1. /\ Outputs = <<"conf", "private", "ids", "private_header", "preset_header", "csv">>
      /\ Len(Outputs) = 6 /\ DOMAIN Outputs = 1 .. 6
  BY DEF Outputs
<1>2. Range(Outputs) = {Outputs[i] : i \in 1 .. 6}
  BY <1>1 DEF Range
<1> QED BY <1>1, <1>2 DEF AllFiles

LEMMA NilIsNoResult == Nil # "ok"
BY ConfigAssumption

(* A step that writes nothing and goes on, or gives up.                    *)
LEMMA WritesNothing ==
  ASSUME CompileInv, UNCHANGED files, IsCall(call'),
         \/ call'.pc = "idle" /\ call'.result \in {"error", "exception"}
         \/ /\ call'.pc \in Before /\ call'.result = Nil
            /\ call'.request \in Requests /\ call'.written = 0,
         call'.written \in 0 .. 6, call'.tplg_built = FALSE, call'.tplg_decoded = FALSE
  PROVE  CompileInv'
BY NilIsNoResult DEF CompileInv, Written, Flagged, Before, SuccessIsFresh, IsCall, AllFiles, Outputs

LEMMA NoneYet == 0 \in 0 .. 6
OBVIOUS

LEMMA BeforeGoesOn ==
  ASSUME CompileInv, call.pc \in Before, UNCHANGED files,
         \/ \E r \in {"error", "exception"} : Return(r)
         \/ \E pc \in Before : Goto(pc)
         \/ \E paths : call' = [call EXCEPT !.paths = paths]
         \/ \E paths : call' = [call EXCEPT !.pc = "plugins", !.paths = paths]
         \/ call' = [call EXCEPT !.pc = "generate", !.of = input]
  PROVE  CompileInv'
<1>1. /\ IsCall(call) /\ call.result = Nil /\ call.request \in Requests
      /\ call.written = 0 /\ call.tplg_built = FALSE /\ call.tplg_decoded = FALSE
  BY DEF CompileInv, Written, Flagged, Before
<1>2. IsCall(call')
  BY <1>1 DEF IsCall, Return, Goto
<1>3. call'.written = 0 /\ call'.tplg_built = FALSE /\ call'.tplg_decoded = FALSE
  BY <1>1 DEF IsCall, Return, Goto
<1>4. \/ call'.pc = "idle" /\ call'.result \in {"error", "exception"}
      \/ /\ call'.pc \in Before /\ call'.result = Nil
         /\ call'.request \in Requests /\ call'.written = 0
  BY <1>1, <1>3 DEF IsCall, Return, Goto, Before
<1>5. call'.written \in 0 .. 6
  BY <1>3, NoneYet
<1> QED BY <1>2, <1>3, <1>4, <1>5, WritesNothing

(* Loading plugins, checking and making the text.                          *)
LEMMA PluginsKeep ==
  ASSUME CompileInv, LoadDefaultPlugin \/ LoadPlugins
  PROVE  CompileInv'
<1>1. call.pc \in Before /\ UNCHANGED files
  BY DEF LoadDefaultPlugin, LoadPlugins, Before
<1>2. ASSUME NEW path, LoadPlugin(path)
      PROVE  \/ \E r \in {"error", "exception"} : Return(r)
             \/ \E paths : call' = [call EXCEPT !.paths = paths]
  BY <1>2 DEF LoadPlugin
<1>3. \/ \E r \in {"error", "exception"} : Return(r)
      \/ \E paths : call' = [call EXCEPT !.paths = paths]
      \/ \E paths : call' = [call EXCEPT !.pc = "plugins", !.paths = paths]
      \/ Goto("parse")
  BY <1>2 DEF LoadDefaultPlugin, LoadPlugins
<1> QED BY <1>1, <1>3, BeforeGoesOn DEF Before

LEMMA ParseKeeps ==
  ASSUME CompileInv, Parse
  PROVE  CompileInv'
<1>1. call.pc \in Before /\ UNCHANGED files
  BY DEF Parse, Before
<1>2. \/ \E r \in {"error", "exception"} : Return(r)
      \/ call' = [call EXCEPT !.pc = "generate", !.of = input]
  BY DEF Parse
<1> QED BY <1>1, <1>2, BeforeGoesOn

LEMMA GenerateKeeps ==
  ASSUME CompileInv, Generate
  PROVE  CompileInv'
<1>1. call.pc = "generate" /\ UNCHANGED files /\ UNCHANGED handlers
  BY DEF Generate
<1>2. CASE Return("exception")
  BY <1>1, <1>2, BeforeGoesOn DEF Before
<1>3. CASE Goto("write")
  <2>1. IsCall(call) /\ call' = [call EXCEPT !.pc = "write"]
    BY <1>3 DEF CompileInv, Goto
  <2>2. /\ IsCall(call') /\ call'.pc = "write" /\ call'.written = call.written
        /\ call'.request = call.request /\ call'.result = call.result
        /\ call'.tplg_built = call.tplg_built /\ call'.tplg_decoded = call.tplg_decoded
    BY <2>1 DEF IsCall
  <2>3. /\ call.written = 0 /\ call.request \in Requests /\ call.result = Nil
        /\ call.tplg_built = FALSE /\ call.tplg_decoded = FALSE
    BY <1>1 DEF CompileInv, Written, Flagged, Before
  <2>4. Written' /\ Flagged'
    BY <2>2, <2>3 DEF Written, Flagged, Before
  <2> QED BY <1>1, <2>2, <2>3, <2>4, NilIsNoResult DEF CompileInv, SuccessIsFresh
<1> QED BY <1>2, <1>3 DEF Generate

(* A file is written, and the next one is due, or what follows the last.   *)
LEMMA WriteKeeps ==
  ASSUME CompileInv, Write
  PROVE  CompileInv'
<1> DEFINE w == call.written
           file == Outputs[w + 1]
<1>a. /\ call.pc = "write" /\ UNCHANGED handlers
      /\ IsCall(call) /\ call.request \in Requests /\ call.result = Nil
      /\ w \in 0 .. 6 /\ w < 6
      /\ \A i \in 1 .. w : files[Outputs[i]] = Made
  BY DEF CompileInv, Written, Write
<1>b. w \in 0 .. 5 /\ w + 1 \in 1 .. 6
  BY <1>a
<1>1. /\ call.pc = "write" /\ UNCHANGED handlers
      /\ w \in 0 .. 5 /\ w + 1 \in 1 .. 6 /\ file \in AllFiles
      /\ IsCall(call) /\ call.request \in Requests /\ call.result = Nil
      /\ \A i \in 1 .. w : files[Outputs[i]] = Made
      /\ call.request.tplg \in BOOLEAN /\ Nil # "ok"
  BY <1>a, <1>b, SixFiles, ConfigAssumption
<1>2. CASE Return("error") /\ files' \in {files, [files EXCEPT ![file] = Torn]}
  <2>1. call' = [call EXCEPT !.pc = "idle", !.result = "error"]
    BY <1>2 DEF Return
  <2>2. IsCall(call') /\ call'.pc = "idle" /\ call'.result = "error" /\ call'.written = w
    BY <1>1, <2>1 DEF IsCall
  <2>3. files' = [f \in AllFiles |-> files'[f]]
    BY <1>2 DEF CompileInv
  <2> QED BY <1>1, <2>2, <2>3 DEF CompileInv, Written, Flagged, Before, SuccessIsFresh
<1>3. CASE /\ files' = [files EXCEPT ![file] = Made]
           /\ call' = [call EXCEPT !.written = @ + 1,
                         !.pc = IF w + 1 < Len(Outputs) THEN "write"
                                ELSE IF call.request.tplg THEN "alsatplg" ELSE "report"]
  <2>1. /\ IsCall(call') /\ call'.written = w + 1
        /\ call'.pc = IF w + 1 < 6 THEN "write"
                      ELSE IF call.request.tplg THEN "alsatplg" ELSE "report"
        /\ call'.request = call.request /\ call'.of = call.of /\ call'.result = Nil
        /\ call'.tplg_built = call.tplg_built /\ call'.tplg_decoded = call.tplg_decoded
    BY <1>1, <1>3, SixFiles DEF IsCall
  <2>2. Made' = Made
    BY <1>1, <2>1 DEF Made
  <2>3. /\ files' = [f \in AllFiles |-> files'[f]]
        /\ files'[file] = Made
        /\ \A f \in AllFiles : f # file => files'[f] = files[f]
    BY <1>1, <1>3 DEF CompileInv
  <2>4. \A i \in 1 .. (w + 1) : files'[Outputs[i]] = Made
    BY <1>1, <2>3, SixFiles
  <2>5. Written'
    BY <1>1, <2>1, <2>2, <2>4 DEF Written, Before
  <2>6. call.tplg_built = FALSE /\ call.tplg_decoded = FALSE
    BY <1>1 DEF CompileInv, Flagged
  <2>7. Flagged'
    BY <1>1, <2>1, <2>6 DEF Flagged
  <2>8. call'.result # "ok"
    BY <2>1, NilIsNoResult
  <2> QED BY <1>1, <2>1, <2>3, <2>5, <2>7, <2>8, NilIsNoResult DEF CompileInv, SuccessIsFresh
<1> QED BY <1>2, <1>3 DEF Write

(* Only the binary, its text and the logs are written.                     *)
LEMMA OutputsStay ==
  ASSUME CompileInv, NEW files2,
         files2 = [f \in AllFiles |-> files2[f]],
         \A f \in AllFiles \ {"tplg", "alsatplg_log", "decode", "decode_log", "report"} :
           files2[f] = files[f]
  PROVE  \A i \in 1 .. 6 : files2[Outputs[i]] = files[Outputs[i]]
BY SixFiles

LEMMA AlsatplgKeeps ==
  ASSUME CompileInv, Alsatplg
  PROVE  CompileInv'
<1>1. /\ call.pc = "alsatplg" /\ UNCHANGED handlers
      /\ IsCall(call) /\ call.request \in Requests /\ call.result = Nil /\ call.written \in 0 .. 6
      /\ \A i \in 1 .. 6 : files[Outputs[i]] = Made
      /\ call.request.tplg = TRUE /\ call.tplg_decoded = FALSE
      /\ "tplg" \in AllFiles
  BY SixFiles DEF CompileInv, Written, Flagged, Alsatplg
<1>2. /\ files' = [f \in AllFiles |-> files'[f]]
      /\ \A i \in 1 .. 6 : files'[Outputs[i]] = files[Outputs[i]]
  <2>1. PICK a, b : files' = [files EXCEPT !["tplg"] = a, !["alsatplg_log"] = b]
    BY DEF Alsatplg
  <2>2. /\ files' = [f \in AllFiles |-> files'[f]]
        /\ \A f \in AllFiles \ {"tplg", "alsatplg_log"} : files'[f] = files[f]
    BY <2>1 DEF CompileInv
  <2> QED BY <2>2, OutputsStay
<1>3. CASE Return("error")
  <2>1. call' = [call EXCEPT !.pc = "idle", !.result = "error"]
    BY <1>3 DEF Return
  <2>2. IsCall(call') /\ call'.pc = "idle" /\ call'.result = "error" /\ call'.written \in 0 .. 6
    BY <1>1, <2>1 DEF IsCall
  <2> QED BY <1>2, <2>2 DEF CompileInv, Written, Flagged, Before, SuccessIsFresh
<1>4. CASE /\ files' = [files EXCEPT !["tplg"] = Made, !["alsatplg_log"] = Made]
           /\ call' = [call EXCEPT !.pc = "decode", !.tplg_built = TRUE]
  <2>1. /\ IsCall(call') /\ call'.pc = "decode" /\ call'.written \in 0 .. 6
        /\ call'.request = call.request /\ call'.of = call.of /\ call'.result = Nil
        /\ call'.tplg_built = TRUE /\ call'.tplg_decoded = call.tplg_decoded
    BY <1>1, <1>4 DEF IsCall
  <2>2. Made' = Made
    BY <1>1, <2>1 DEF Made
  <2>3. files'["tplg"] = Made
    BY <1>1, <1>4 DEF CompileInv
  <2>4. Written'
    BY <1>1, <1>2, <2>1, <2>2 DEF Written, Before
  <2>5. Flagged'
    BY <1>1, <2>1, <2>2, <2>3 DEF Flagged
  <2>6. call'.result # "ok"
    BY <2>1, NilIsNoResult
  <2> QED BY <1>1, <1>2, <2>1, <2>4, <2>5, <2>6, NilIsNoResult DEF CompileInv, SuccessIsFresh
<1> QED BY <1>3, <1>4 DEF Alsatplg

LEMMA DecodeKeeps ==
  ASSUME CompileInv, Decode
  PROVE  CompileInv'
<1>1. /\ call.pc = "decode" /\ UNCHANGED handlers
      /\ IsCall(call) /\ call.request \in Requests /\ call.result = Nil /\ call.written \in 0 .. 6
      /\ \A i \in 1 .. 6 : files[Outputs[i]] = Made
      /\ call.request.tplg = TRUE /\ call.tplg_decoded = FALSE /\ call.tplg_built = TRUE
      /\ files["tplg"] = Made
      /\ {"tplg", "decode", "decode_log"} \subseteq AllFiles
  BY SixFiles DEF CompileInv, Written, Flagged, Decode
<1>2. /\ files' = [f \in AllFiles |-> files'[f]]
      /\ \A i \in 1 .. 6 : files'[Outputs[i]] = files[Outputs[i]]
      /\ files'["tplg"] = files["tplg"]
  <2>1. \E a, b : \/ files' = [files EXCEPT !["decode"] = a, !["decode_log"] = b]
                  \/ files' = [files EXCEPT !["decode_log"] = b]
                  \/ files' = files
    BY DEF Decode
  <2>2. /\ files' = [f \in AllFiles |-> files'[f]]
        /\ \A f \in AllFiles \ {"decode", "decode_log"} : files'[f] = files[f]
    BY <2>1 DEF CompileInv
  <2> QED BY <1>1, <2>2, OutputsStay
<1>3. CASE Return("error")
  <2>1. call' = [call EXCEPT !.pc = "idle", !.result = "error"]
    BY <1>3 DEF Return
  <2>2. IsCall(call') /\ call'.pc = "idle" /\ call'.result = "error" /\ call'.written \in 0 .. 6
    BY <1>1, <2>1 DEF IsCall
  <2> QED BY <1>2, <2>2 DEF CompileInv, Written, Flagged, Before, SuccessIsFresh
<1>4. ASSUME NEW decoded \in BOOLEAN, IsCall(call'), call'.pc = "report",
             call'.written = call.written, call'.request = call.request, call'.of = call.of,
             call'.result = call.result, call'.tplg_built = call.tplg_built,
             call'.tplg_decoded = decoded, decoded => files'["decode"] = Made
      PROVE  CompileInv'
  <2>1. Made' = Made
    BY <1>1, <1>4 DEF Made
  <2>2. Written' /\ Flagged'
    BY <1>1, <1>2, <1>4, <2>1 DEF Written, Flagged, Before
  <2> QED BY <1>1, <1>2, <1>4, <2>2, NilIsNoResult DEF CompileInv, SuccessIsFresh
<1>5. CASE Goto("report")
  <2>1. call' = [call EXCEPT !.pc = "report"]
    BY <1>5 DEF Goto
  <2>2. /\ IsCall(call') /\ call'.pc = "report" /\ call'.written = call.written
        /\ call'.request = call.request /\ call'.of = call.of /\ call'.result = call.result
        /\ call'.tplg_built = call.tplg_built /\ call'.tplg_decoded = FALSE
    BY <1>1, <2>1 DEF IsCall
  <2> QED BY <1>4, <2>2
<1>6. CASE /\ files' = [files EXCEPT !["decode"] = Made, !["decode_log"] = Made]
           /\ call' = [call EXCEPT !.pc = "report", !.tplg_decoded = TRUE]
  <2>1. /\ IsCall(call') /\ call'.pc = "report" /\ call'.written = call.written
        /\ call'.request = call.request /\ call'.of = call.of /\ call'.result = call.result
        /\ call'.tplg_built = call.tplg_built /\ call'.tplg_decoded = TRUE
    BY <1>1, <1>6 DEF IsCall
  <2>2. files'["decode"] = Made
    BY <1>1, <1>6 DEF CompileInv
  <2> QED BY <1>4, <2>1, <2>2
<1> QED BY <1>3, <1>5, <1>6 DEF Decode

LEMMA ReportKeeps ==
  ASSUME CompileInv, Report
  PROVE  CompileInv'
<1>1. /\ call.pc = "report" /\ UNCHANGED handlers
      /\ IsCall(call) /\ call.written \in 0 .. 6
      /\ \A i \in 1 .. 6 : files[Outputs[i]] = Made
      /\ call.tplg_built = call.request.tplg
      /\ call.tplg_built => files["tplg"] = Made
      /\ call.tplg_decoded => files["decode"] = Made
      /\ {"tplg", "decode", "report"} \subseteq AllFiles
  BY SixFiles DEF CompileInv, Written, Flagged, Report
<1>2. /\ files' = [f \in AllFiles |-> files'[f]]
      /\ \A i \in 1 .. 6 : files'[Outputs[i]] = files[Outputs[i]]
      /\ files'["tplg"] = files["tplg"] /\ files'["decode"] = files["decode"]
  <2>1. \E a : files' = [files EXCEPT !["report"] = a] \/ files' = files
    BY DEF Report
  <2>2. /\ files' = [f \in AllFiles |-> files'[f]]
        /\ \A f \in AllFiles \ {"report"} : files'[f] = files[f]
    BY <2>1 DEF CompileInv
  <2>3. files'["tplg"] = files["tplg"] /\ files'["decode"] = files["decode"]
    BY <1>1, <2>2
  <2>4. \A i \in 1 .. 6 : files'[Outputs[i]] = files[Outputs[i]]
    BY <2>2, OutputsStay
  <2> QED BY <2>2, <2>3, <2>4
<1>3. /\ IsCall(call') /\ call'.pc = "idle" /\ call'.written = call.written
      /\ call'.request = call.request /\ call'.of = call.of
      /\ call'.tplg_built = call.tplg_built /\ call'.tplg_decoded = call.tplg_decoded
      /\ \/ call'.result = "ok" /\ files' = [files EXCEPT !["report"] = Made]
         \/ call'.result = "error"
  BY <1>1 DEF Report, IsCall
<1>4. Made' = Made
  BY <1>1, <1>3 DEF Made
<1>5. Written' /\ Flagged'
  BY <1>1, <1>3 DEF Written, Flagged, Before
<1>6. SuccessIsFresh'
  <2>1. CASE call'.result = "ok" /\ files' = [files EXCEPT !["report"] = Made]
    <3>1. files'["report"] = Made
      BY <1>1, <2>1 DEF CompileInv
    <3>2. \A f \in Range(Outputs) \cup {"report"} : files'[f] = Made
      BY <1>1, <1>2, <3>1, SixFiles
    <3> QED BY <1>1, <1>2, <1>3, <1>4, <3>2 DEF SuccessIsFresh
  <2>2. CASE call'.result = "error"
    BY <2>2 DEF SuccessIsFresh
  <2> QED BY <1>3, <2>1, <2>2
<1> QED BY <1>2, <1>3, <1>5, <1>6 DEF CompileInv

(* The project is edited, or a new compilation begins.                     *)
LEMMA IdleKeeps ==
  ASSUME CompileInv, Edit \/ CompileConfig
  PROVE  CompileInv'
<1>1. CASE Edit
  <2>1. UNCHANGED <<files, call, handlers>>
    BY <1>1 DEF Edit
  <2> QED BY <2>1 DEF CompileInv, Written, Flagged, IsCall, SuccessIsFresh, Made
<1>2. CASE CompileConfig
  <2>1. PICK r \in Requests : Compile(r)
    BY <1>2 DEF CompileConfig
  <2>2. /\ UNCHANGED files
        /\ IsCall(call') /\ call'.pc = "builtin" /\ call'.result = Nil /\ call'.request = r
        /\ call'.written = 0 /\ call'.tplg_built = FALSE /\ call'.tplg_decoded = FALSE
    BY <2>1 DEF Compile, Idle, IsCall
  <2>3. call'.pc \in Before /\ call'.request \in Requests /\ call'.written \in 0 .. 6
    BY <2>1, <2>2 DEF Before
  <2> QED BY <2>2, <2>3, WritesNothing
<1> QED BY <1>1, <1>2

(* The shapes stay.                                                        *)
LEMMA CallStays == ASSUME IsCall(call), ConfigNext PROVE IsCall(call')
<1>1. CASE Edit
  BY <1>1 DEF Edit
<1>2. CASE CompileConfig
  BY <1>2 DEF CompileConfig, Compile, Idle, IsCall
<1>3. CASE \/ LoadDefaultPlugin \/ LoadPlugins \/ Parse \/ Generate
           \/ Write \/ Alsatplg \/ Decode \/ Report
  BY <1>3 DEF LoadDefaultPlugin, LoadPlugins, LoadPlugin, Parse,
     Generate, Write, Alsatplg, Decode, Report,
     Return, Goto, IsCall
<1> QED BY <1>1, <1>2, <1>3 DEF ConfigNext

LEMMA FilesStay ==
  ASSUME files = [f \in AllFiles |-> files[f]], ConfigNext
  PROVE  files' = [f \in AllFiles |-> files'[f]]
BY DEF ConfigNext, Edit, CompileConfig, Compile, LoadDefaultPlugin,
   LoadPlugins, Parse, Generate, Write, Alsatplg,
   Decode, Report

(* What a compilation has accepted stays accepted.                         *)
LEMMA AcceptedStays ==
  ASSUME IsCall(call), Accepted, ConfigNext
  PROVE  Accepted'
<1>1. CASE Edit \/ CompileConfig \/ LoadDefaultPlugin \/ LoadPlugins
  <2>1. CASE Edit
    BY <2>1 DEF Edit, Accepted
  <2>2. CASE CompileConfig
    <3>1. call'.pc = "builtin"
      BY <2>2 DEF CompileConfig, Compile, Idle
    <3> QED BY <3>1 DEF Accepted
  <2>3. CASE LoadDefaultPlugin \/ LoadPlugins
    <3>1. call'.pc \in {"idle", "builtin", "plugins", "parse"}
      BY <2>3 DEF LoadDefaultPlugin, LoadPlugins, LoadPlugin,
                  Return, Goto, IsCall
    <3> QED BY <3>1 DEF Accepted
  <2> QED BY <1>1, <2>1, <2>2, <2>3
<1>2. CASE Parse
  <2>1. CASE Return("error")
    <3>1. call'.pc = "idle"
      BY <2>1 DEF Return, IsCall
    <3> QED BY <3>1 DEF Accepted
  <2>2. CASE /\ input \in DOMAIN Projects /\ Compiles(Projects[input], handlers)
             /\ call' = [call EXCEPT !.pc = "generate", !.of = input]
    <3>1. call'.pc = "generate" /\ call'.of = input /\ UNCHANGED handlers
      BY <1>2, <2>2 DEF IsCall, Parse
    <3>2. Compiles(Projects[call.of], handlers)' = Compiles(Projects[input], handlers)
      BY <3>1
    <3> QED BY <2>2, <3>1, <3>2 DEF Accepted
  <2> QED BY <1>2, <2>1, <2>2 DEF Parse
<1>3. CASE Generate
  <2>1. CASE Return("exception")
    <3>1. call'.pc = "idle"
      BY <2>1 DEF Return, IsCall
    <3> QED BY <3>1 DEF Accepted
  <2>2. CASE WidgetsHaveUuids(Projects[call.of]) /\ Goto("write")
    <3>1. call'.pc = "write" /\ call'.of = call.of /\ UNCHANGED handlers /\ call.pc = "generate"
      BY <1>3, <2>2 DEF IsCall, Goto, Generate
    <3> QED BY <2>2, <3>1 DEF Accepted
  <2> QED BY <1>3, <2>1, <2>2 DEF Generate
<1>4. CASE Write \/ Alsatplg \/ Decode \/ Report
  <2>1. /\ call.pc \in {"write", "alsatplg", "decode", "report"} /\ UNCHANGED handlers
        /\ call'.of = call.of
    BY <1>4 DEF Write, Alsatplg, Decode, Report, IsCall,
                Return, Goto
  <2> QED BY <2>1 DEF Accepted
<1> QED BY <1>1, <1>2, <1>3, <1>4 DEF ConfigNext

(* The types of ConfigInit.                                                      *)
LEMMA CompileStarts ==
  ASSUME ConfigInit
  PROVE  CompileInv /\ Accepted
<1>1. /\ call = Idle /\ files = [f \in AllFiles |-> Nil]
  BY DEF ConfigInit
<1>2. /\ IsCall(call) /\ call.pc = "idle" /\ call.result = Nil /\ call.written = 0
  BY <1>1 DEF Idle, IsCall
<1> QED BY <1>1, <1>2, NilIsNoResult DEF CompileInv, Accepted, Written, Flagged, Before, SuccessIsFresh

LEMMA CompileKept ==
  ASSUME CompileInv, [ConfigNext]_configVars
  PROVE  CompileInv'
<1>1. CASE UNCHANGED configVars
  BY <1>1 DEF configVars, CompileInv, Written, Flagged, IsCall, SuccessIsFresh, Made
<1>2. CASE ConfigNext
  BY <1>2, IdleKeeps, PluginsKeep, ParseKeeps, GenerateKeeps, WriteKeeps, AlsatplgKeeps,
     DecodeKeeps, ReportKeeps DEF ConfigNext
<1> QED BY <1>1, <1>2

(* A compilation that returned success left a directory in which the six   *)
(* files, the report, the binary if it was asked for and its text are all  *)
(* its own, whatever earlier compilations left there, whichever write or   *)
(* tool failed and whatever plugins were loaded (ConfigService::compile).  *)
THEOREM SuccessAlwaysFresh == ConfigSpec => []SuccessIsFresh
<1>1. CompileInv => SuccessIsFresh
  BY DEF CompileInv
<1> QED BY <1>1, CompileStarts, CompileKept, PTL DEF ConfigSpec

(* The directory is first touched when everything that can be wrong with   *)
(* the project has been looked for, and a widget without a uuid too: a     *)
(* refused project leaves the topology built last (ConfigService::compile, *)
(* parseProject, generateAlsaConf).                                        *)
THEOREM RefusalsTouchNothing == ConfigSpec => RefusedTouchesNothing
<1> DEFINE Shaped == IsCall(call) /\ files = [f \in AllFiles |-> files[f]]
<1>1. ConfigInit => Shaped /\ Accepted
  BY DEF ConfigInit, Idle, IsCall, Accepted
<1>2. Shaped /\ Accepted /\ [ConfigNext]_configVars => (Shaped /\ Accepted)'
  <2> SUFFICES ASSUME Shaped, Accepted, [ConfigNext]_configVars PROVE (Shaped /\ Accepted)'
    OBVIOUS
  <2>1. CASE UNCHANGED configVars
    BY <2>1 DEF configVars, Accepted, IsCall
  <2>2. CASE ConfigNext
    BY <2>2, CallStays, FilesStay, AcceptedStays
  <2> QED BY <2>1, <2>2
<1>3. Shaped /\ Accepted /\ [ConfigNext]_configVars =>
        [files'["conf"] # files["conf"] \/ files'["tplg"] # files["tplg"] =>
           /\ Compiles(Projects[call.of], handlers)
           /\ WidgetsHaveUuids(Projects[call.of])]_configVars
  <2> SUFFICES ASSUME Shaped, Accepted, ConfigNext,
                      files'["conf"] # files["conf"] \/ files'["tplg"] # files["tplg"]
               PROVE  /\ Compiles(Projects[call.of], handlers)
                      /\ WidgetsHaveUuids(Projects[call.of])
    OBVIOUS
  <2>1. CASE call.pc \in {"write", "alsatplg"}
    BY <2>1 DEF Accepted
  <2>2. CASE Decode \/ Report
    <3>1. {"conf", "tplg"} \cap {"decode", "decode_log", "report"} = {}
          /\ {"conf", "tplg"} \subseteq AllFiles
      BY SixFiles DEF Outputs
    <3> QED BY <2>2, <3>1 DEF Decode, Report
  <2>3. Write \/ Alsatplg => call.pc \in {"write", "alsatplg"}
    BY DEF Write, Alsatplg
  <2>4. CASE ~(Write \/ Alsatplg \/ Decode \/ Report)
    <3>1. UNCHANGED files
      BY <2>4 DEF ConfigNext, Edit, CompileConfig, Compile,
         LoadDefaultPlugin, LoadPlugins, Parse, Generate
    <3> QED BY <3>1
  <2> QED BY <2>1, <2>2, <2>3, <2>4
<1> HIDE DEF Shaped
<1> QED BY <1>1, <1>2, <1>3, PTL DEF ConfigSpec, RefusedTouchesNothing

-----------------------------------------------------------------------------
(***************************************************************************)
(* What the compiler makes of a project.                                   *)
(*                                                                         *)
(* The argument: a list that the compiler puts together is FlattenSeq of   *)
(* lists, unfolded one by one (UpTo), and holds what they hold.  So the    *)
(* lines, the names of the widgets and the parameters described are known  *)
(* as sets over the pipelines, nodes and edges of the project; the rest is *)
(* which joined names can meet.  That the text just written is that of a   *)
(* project the compiler accepted is the invariant above.                   *)
(***************************************************************************)

HIDE SystemInfoAssumption

(* A set of natural numbers that is not empty has a least element.          *)
LEMMA LeastOf ==
  ASSUME NEW S \in SUBSET Nat, S # {}
  PROVE  \E x \in S : \A y \in S : x <= y
<1>1. PICK x \in S : \A y \in S : <<y, x>> \notin OpToRel(<, Nat)
  BY WFMin, NatLessThanWellFounded, Zenon
<1>2. \A y \in S : ~(y < x)
  BY <1>1, Zenon DEF OpToRel
<1> QED BY <1>2

(* Counting up: what is true of 0 and of i when it is of i - 1 is true of   *)
(* all. This stands for the induction over a loop of the code, through      *)
(* the least counterexample.                                                *)
LEMMA UpTo ==
  ASSUME NEW N \in Nat, NEW S, 0 \in S, \A i \in 1..N : i - 1 \in S => i \in S
  PROVE  \A i \in 0..N : i \in S
<1> DEFINE missing == {i \in 0..N : i \notin S}
<1> SUFFICES ASSUME missing # {} PROVE FALSE
  OBVIOUS
<1>1. PICK k \in missing : \A j \in missing : k <= j
  <2>1. missing \in SUBSET Nat
    OBVIOUS
  <2> HIDE DEF missing
  <2> QED BY <2>1, LeastOf
<1>2. k \in 1..N /\ k - 1 \in 0..N /\ ~(k <= k - 1)
  BY <1>1
<1>3. k - 1 \notin missing
  BY <1>1, <1>2
<1> QED BY <1>1, <1>2, <1>3

(* What is known of a sequence of the topology: its length and its          *)
(* domain.                                                                  *)
LEMMA SequenceIs ==
  ASSUME NEW s, IsSequence(s)
  PROVE  Len(s) \in Nat /\ DOMAIN s = 1..Len(s) /\ s = [i \in 1..Len(s) |-> s[i]]
BY DEF IsSequence

(* A function on 1..n is a sequence.                                        *)
LEMMA SequenceMade ==
  ASSUME NEW n \in Nat, NEW s, s = [i \in 1..n |-> s[i]]
  PROVE  IsSequence(s) /\ Len(s) = n /\ DOMAIN s = 1..n
<1>1. DOMAIN s = 1..n
  OBVIOUS
<1>2. s \in [1..n -> Range(s)]
  BY <1>1 DEF Range
<1>3. s \in Seq(Range(s))
  BY <1>2
<1> QED BY <1>1, <1>3 DEF IsSequence

(* Two sequences in a row hold what each of them holds.                     *)
LEMMA Concatenated ==
  ASSUME NEW a, IsSequence(a), NEW b, IsSequence(b)
  PROVE  IsSequence(a \o b) /\ Range(a \o b) = Range(a) \cup Range(b)
<1> DEFINE S == Range(a) \cup Range(b)
           c == a \o b
<1>1. a \in Seq(S) /\ b \in Seq(S)
  <2>1. a \in Seq(Range(a)) /\ b \in Seq(Range(b))
    BY DEF IsSequence
  <2>2. Range(a) \subseteq S /\ Range(b) \subseteq S
    OBVIOUS
  <2> HIDE DEF S
  <2> QED BY <2>1, <2>2
<1>2. /\ Len(a) \in Nat /\ Len(b) \in Nat /\ Len(c) = Len(a) + Len(b)
      /\ DOMAIN c = 1..(Len(a) + Len(b)) /\ DOMAIN a = 1..Len(a) /\ DOMAIN b = 1..Len(b)
      /\ \A i \in 1..Len(a) : c[i] = a[i]
      /\ \A i \in 1..Len(b) : c[Len(a) + i] = b[i]
  <2> HIDE DEF S
  <2> QED BY <1>1
<1> HIDE DEF c
<1>3. Range(c) \subseteq S
  <2> SUFFICES ASSUME NEW i \in 1..(Len(a) + Len(b)) PROVE c[i] \in S
    BY <1>2 DEF Range
  <2>1. CASE i <= Len(a)
    <3>1. i \in 1..Len(a)
      BY <1>2, <2>1
    <3> QED BY <1>2, <3>1 DEF Range
  <2>2. CASE i > Len(a)
    <3>1. i - Len(a) \in 1..Len(b) /\ Len(a) + (i - Len(a)) = i
      BY <1>2, <2>2
    <3>2. c[Len(a) + (i - Len(a))] = b[i - Len(a)]
      BY <1>2, <3>1
    <3> QED BY <1>2, <3>1, <3>2 DEF Range
  <2> QED BY <1>2, <2>1, <2>2
<1>4. S \subseteq Range(c)
  <2>1. ASSUME NEW i \in 1..Len(a) PROVE a[i] \in Range(c)
    <3>1. i \in DOMAIN c
      BY <1>2
    <3> QED BY <1>2, <3>1 DEF Range
  <2>2. ASSUME NEW i \in 1..Len(b) PROVE b[i] \in Range(c)
    <3>1. Len(a) + i \in DOMAIN c
      BY <1>2
    <3> QED BY <1>2, <3>1 DEF Range
  <2> QED BY <1>2, <2>1, <2>2 DEF Range
<1>5. c \in Seq(Range(c))
  <2>1. c \in Seq(S)
    BY <1>1 DEF c
  <2>2. Range(c) = S
    BY <1>3, <1>4
  <2> QED BY <2>1, <2>2
<1> QED BY <1>3, <1>4, <1>5 DEF IsSequence, c

(* The sequences of a list in a row, as far as the k-th.                    *)
InARow(g, ss, k) == \A i \in 1..k : g[i] = IF i = 1 THEN ss[i] ELSE g[i - 1] \o ss[i]

(* FlattenSeq puts one after the other.                                     *)
LEMMA RowMade ==
  ASSUME NEW ss, Len(ss) \in Nat, Len(ss) # 0
  PROVE  \E g : InARow(g, ss, Len(ss)) /\ FlattenSeq(ss) = g[Len(ss)]
<1> DEFINE N == Len(ss)
           Unfolded(g) == [i \in 1..N |-> IF i = 1 THEN ss[i] ELSE g[i - 1] \o ss[i]]
           found == {k \in 0..N : \E g : InARow(g, ss, k)}
           flatten[i \in 1..N] == IF i = 1 THEN ss[i] ELSE flatten[i - 1] \o ss[i]
<1>1. FlattenSeq(ss) = flatten[N]
  BY DEF FlattenSeq
<1>2. \A i \in 0..N : i \in found
  <2>1. 0 \in found
    BY DEF InARow
  <2>2. ASSUME NEW k \in 1..N, k - 1 \in found PROVE k \in found
    <3>1. PICK g : InARow(g, ss, k - 1)
      BY <2>2
    <3>2. InARow([i \in 1..k |-> IF i = k THEN IF k = 1 THEN ss[k] ELSE g[k - 1] \o ss[k] ELSE g[i]], ss, k)
      BY <3>1 DEF InARow
    <3> QED BY <3>2
  <2> HIDE DEF found
  <2> QED BY <2>1, <2>2, UpTo
<1>3. PICK g : InARow(g, ss, N)
  <2>1. N \in found
    <3> HIDE DEF found
    <3> QED BY <1>2
  <2> QED BY <2>1
<1>4. \E f : f = Unfolded(f)
  <2>1. [i \in 1..N |-> g[i]] = Unfolded([i \in 1..N |-> g[i]])
    BY <1>3 DEF InARow
  <2> QED BY <2>1
<1>5. flatten = Unfolded(flatten)
  BY <1>4
<1>6. InARow(flatten, ss, N)
  <2> HIDE DEF flatten
  <2> QED BY <1>5 DEF InARow
<1> QED BY <1>1, <1>6

(* FlattenSeq of sequences is a sequence of all that they hold.             *)
LEMMA Flattened ==
  ASSUME NEW ss, IsSequence(ss), \A i \in 1..Len(ss) : IsSequence(ss[i])
  PROVE  /\ IsSequence(FlattenSeq(ss))
         /\ Range(FlattenSeq(ss)) = UNION {Range(ss[i]) : i \in 1..Len(ss)}
<1>1. Len(ss) \in Nat /\ DOMAIN ss = 1..Len(ss)
  BY SequenceIs
<1>2. CASE Len(ss) = 0
  <2>1. FlattenSeq(ss) = ss
    BY <1>2 DEF FlattenSeq
  <2>2. Range(ss) = {}
    BY <1>1, <1>2 DEF Range
  <2> QED BY <1>2, <2>1, <2>2
<1>3. CASE Len(ss) # 0
  <2>1. PICK g : InARow(g, ss, Len(ss)) /\ FlattenSeq(ss) = g[Len(ss)]
    BY <1>1, <1>3, RowMade
  <2> DEFINE Upto(k) == UNION {Range(ss[i]) : i \in 1..k}
             held == {k \in 0..Len(ss) : k = 0 \/ (IsSequence(g[k]) /\ Range(g[k]) = Upto(k))}
  <2>2. 0 \in held
    BY <1>1
  <2>3. ASSUME NEW k \in 1..Len(ss), k - 1 \in held PROVE k \in held
    <3>1. Upto(k) = Upto(k - 1) \cup Range(ss[k])
      <4>1. 1..k = 1..(k - 1) \cup {k}
        OBVIOUS
      <4> QED BY <4>1
    <3>2. CASE k = 1
      <4>1. Upto(k - 1) = {}
        BY <3>2
      <4>2. g[k] = ss[k]
        BY <2>1, <3>2 DEF InARow
      <4>3. IsSequence(ss[k])
        OBVIOUS
      <4>4. Range(g[k]) = Upto(k)
        BY <3>1, <4>1, <4>2
      <4>5. k \in 0..Len(ss)
        BY <1>1
      <4> HIDE DEF Upto
      <4> QED BY <4>2, <4>3, <4>4, <4>5
    <3>3. CASE k # 1
      <4>1. g[k] = g[k - 1] \o ss[k]
        BY <2>1, <3>3 DEF InARow
      <4>2. IsSequence(g[k - 1]) /\ Range(g[k - 1]) = Upto(k - 1)
        BY <2>3, <3>3
      <4>3. IsSequence(ss[k])
        OBVIOUS
      <4>4. IsSequence(g[k]) /\ Range(g[k]) = Upto(k - 1) \cup Range(ss[k])
        <5> HIDE DEF Upto
        <5> QED BY <4>1, <4>2, <4>3, Concatenated
      <4>5. Range(g[k]) = Upto(k)
        BY <3>1, <4>4
      <4>6. k \in 0..Len(ss)
        BY <1>1
      <4> HIDE DEF Upto
      <4> QED BY <4>4, <4>5, <4>6
    <3> QED BY <3>2, <3>3
  <2>4. Len(ss) \in held
    <3> HIDE DEF held
    <3> QED BY <1>1, <2>2, <2>3, UpTo
  <2> QED BY <1>3, <2>1, <2>4
<1> QED BY <1>2, <1>3

(* What is kept of a list x of n items: those with a number in S.           *)
Keeps(kept, x, S, n) == IsSequence(kept) /\ Range(kept) = {x[i] : i \in S \cap 1..n}

(* Of a list the items x[i] with i in S, in their order.                    *)
LEMMA Chosen ==
  ASSUME NEW n \in Nat, NEW x, NEW S, NEW ss, ss = [i \in 1..n |-> ss[i]],
         \A i \in 1..n : ss[i] = IF i \in S THEN <<x[i]>> ELSE <<>>
  PROVE  Keeps(FlattenSeq(ss), x, S, n)
<1>1. IsSequence(ss) /\ Len(ss) = n
  BY SequenceMade
<1>2. \A y : IsSequence(<<y>>) /\ Range(<<y>>) = {y}
  BY DEF IsSequence, Range
<1>3. IsSequence(<<>>) /\ Range(<<>>) = {}
  BY DEF IsSequence, Range
<1>4. ASSUME NEW i \in 1..n
      PROVE  IsSequence(ss[i]) /\ Range(ss[i]) = IF i \in S THEN {x[i]} ELSE {}
  <2>1. ss[i] = IF i \in S THEN <<x[i]>> ELSE <<>>
    OBVIOUS
  <2> QED BY <1>2, <1>3, <2>1
<1>5. IsSequence(FlattenSeq(ss)) /\ Range(FlattenSeq(ss)) = UNION {Range(ss[i]) : i \in 1..n}
  BY <1>1, <1>4, Flattened
<1>6. UNION {Range(ss[i]) : i \in 1..n} = {x[i] : i \in S \cap 1..n}
  <2>1. \A i \in 1..n : Range(ss[i]) = IF i \in S THEN {x[i]} ELSE {}
    BY <1>4
  <2> QED BY <2>1
<1> QED BY <1>5, <1>6 DEF Keeps

-----------------------------------------------------------------------------
(* What the compiler makes of a pipeline, as far as its graph goes: nodes   *)
(* and edges in sequences, and each node a widget named after both.         *)
IsPipe(q) ==
  /\ IsSequence(q.nodes) /\ IsSequence(q.edges)
  /\ \A i \in 1..Len(q.nodes) : q.nodes[i].widget = <<q.id, q.nodes[i].id>>
IsIr(ir) == IsSequence(ir) /\ \A i \in 1..Len(ir) : IsPipe(ir[i])

(* Pipeline q is what parseProject makes of j.                              *)
Parsed(q, p, j) ==
  /\ IsPipe(q) /\ q.id = j.id /\ Len(q.nodes) = Len(j.nodes)
  /\ \A i \in 1..Len(j.nodes) : q.nodes[i] = ParseNode(p, j.id, j.nodes[i])
  /\ \A i \in 1..Len(j.nodes) : q.nodes[i].id = j.nodes[i].id
  /\ Range(q.edges) \subseteq Range(j.edges)

(* parseProject keeps the ids of pipelines and nodes.                       *)
LEMMA PipelineParsed ==
  ASSUME NEW p, NEW j, IsSequence(j.nodes), IsSequence(j.edges), NEW index
  PROVE  Parsed(ParsePipeline(p, j, index), p, j)
<1> DEFINE q == ParsePipeline(p, j, index)
           nodes == [i \in 1..Len(j.nodes) |-> ParseNode(p, j.id, j.nodes[i])]
           kept == {i \in 1..Len(j.edges) : j.edges[i].from # Nil /\ j.edges[i].to # Nil}
           ss == [i \in 1..Len(j.edges) |-> IF i \in kept THEN <<j.edges[i]>> ELSE <<>>]
           edges == FlattenSeq(ss)
<1>1. Len(j.nodes) \in Nat /\ Len(j.edges) \in Nat /\ DOMAIN j.edges = 1..Len(j.edges)
  BY SequenceIs
<1>2. q.id = j.id /\ q.nodes = nodes
  BY DEF ParsePipeline, PipelineOf
<1>3. q.edges = edges
  <2>1. q.edges = FlattenSeq([i \in 1..Len(j.edges) |->
                    IF j.edges[i].from # Nil /\ j.edges[i].to # Nil THEN <<j.edges[i]>> ELSE <<>>])
    BY DEF ParsePipeline, PipelineOf
  <2>2. [i \in 1..Len(j.edges) |->
           IF j.edges[i].from # Nil /\ j.edges[i].to # Nil THEN <<j.edges[i]>> ELSE <<>>]
          = [i \in 1..Len(j.edges) |-> IF i \in kept THEN <<j.edges[i]>> ELSE <<>>]
    OBVIOUS
  <2> QED BY <2>1, <2>2
<1> HIDE DEF q
<1>4. IsSequence(nodes) /\ Len(nodes) = Len(j.nodes)
  <2>1. nodes = [i \in 1..Len(j.nodes) |-> nodes[i]]
    OBVIOUS
  <2> HIDE DEF nodes
  <2> QED BY <1>1, <2>1, SequenceMade
<1>5. ASSUME NEW i \in 1..Len(j.nodes)
      PROVE  /\ nodes[i] = ParseNode(p, j.id, j.nodes[i])
             /\ nodes[i].id = j.nodes[i].id /\ nodes[i].widget = <<j.id, j.nodes[i].id>>
  BY DEF ParseNode
<1> HIDE DEF nodes
<1>6. IsSequence(edges) /\ Range(edges) = {j.edges[i] : i \in kept \cap 1..Len(j.edges)}
  <2> DEFINE n == Len(j.edges)
             x == j.edges
  <2>1. ss = [i \in 1..n |-> ss[i]] /\ \A i \in 1..n : ss[i] = IF i \in kept THEN <<x[i]>> ELSE <<>>
    OBVIOUS
  <2>2. n \in Nat
    BY <1>1
  <2> HIDE DEF kept, ss, n, x
  <2>3. Keeps(FlattenSeq(ss), x, kept, n)
    BY <2>1, <2>2, Chosen
  <2> QED BY <2>3 DEF Keeps, n, x
<1>7. Range(edges) \subseteq Range(j.edges)
  BY <1>1, <1>6 DEF Range
<1> HIDE DEF edges
<1>8. IsPipe(q)
  BY <1>2, <1>3, <1>4, <1>5, <1>6 DEF IsPipe
<1> QED BY <1>2, <1>3, <1>4, <1>5, <1>7, <1>8 DEF q, Parsed

LEMMA ProjectParsed ==
  ASSUME NEW p, IsProject(p)
  PROVE  LET ir == ParseProject(p)
         IN /\ IsIr(ir) /\ Len(ir) = Len(p.pipelines)
            /\ \A i \in 1..Len(ir) : Parsed(ir[i], p, p.pipelines[i])
<1> DEFINE ir == ParseProject(p)
<1>1. Len(p.pipelines) \in Nat
  BY SequenceIs DEF IsProject
<1>2. ir = [i \in 1..Len(p.pipelines) |-> ParsePipeline(p, p.pipelines[i], i - 1)]
  BY DEF ParseProject
<1> HIDE DEF ir
<1>3. IsSequence(ir) /\ Len(ir) = Len(p.pipelines)
  <2>1. ir = [i \in 1..Len(p.pipelines) |-> ir[i]]
    BY <1>2
  <2> QED BY <1>1, <2>1, SequenceMade
<1>4. ASSUME NEW i \in 1..Len(ir)
      PROVE  Parsed(ir[i], p, p.pipelines[i])
  <2>1. ir[i] = ParsePipeline(p, p.pipelines[i], i - 1)
    BY <1>2, <1>3
  <2>2. IsSequence(p.pipelines[i].nodes) /\ IsSequence(p.pipelines[i].edges)
    BY <1>3 DEF IsProject
  <2>3. Parsed(ParsePipeline(p, p.pipelines[i], i - 1), p, p.pipelines[i])
    BY <2>2, PipelineParsed
  <2> QED BY <2>1, <2>3
<1> QED BY <1>3, <1>4 DEF IsIr, Parsed, ir

(* The first of a list with an id.                                          *)
LEMMA FirstFound ==
  ASSUME NEW seq, Len(seq) \in Nat, NEW id, Known(seq, id)
  PROVE  \E i \in 1..Len(seq) : First(seq, id) = seq[i] /\ seq[i].id = id
<1> DEFINE all == {i \in 1..Len(seq) : seq[i].id = id}
<1>1. PICK i \in all : \A k \in all : i <= k
  <2>1. all \in SUBSET Nat /\ all # {}
    BY DEF Known
  <2> HIDE DEF all
  <2> QED BY <2>1, LeastOf
<1>2. IsFirst(seq, id, i)
  BY <1>1 DEF IsFirst
<1> DEFINE first == CHOOSE k \in 1..Len(seq) : IsFirst(seq, id, k)
<1>3. first \in 1..Len(seq) /\ IsFirst(seq, id, first)
  BY <1>1, <1>2
<1>4. First(seq, id) = seq[first]
  BY DEF First
<1> HIDE DEF first
<1> QED BY <1>3, <1>4 DEF IsFirst

(* The node at the end of an edge.                                          *)
LEMMA NodeFound ==
  ASSUME NEW q, IsPipe(q), NEW id, Known(q.nodes, id)
  PROVE  FindNode(q, id).widget = <<q.id, id>>
<1>1. Len(q.nodes) \in Nat
  BY SequenceIs DEF IsPipe
<1>2. PICK i \in 1..Len(q.nodes) : First(q.nodes, id) = q.nodes[i] /\ q.nodes[i].id = id
  BY <1>1, FirstFound
<1> QED BY <1>2 DEF FindNode, IsPipe

-----------------------------------------------------------------------------
(* The two lines of an edge.                                                *)
Filled(q, i) == <<BufferName(q, i), <<q.id, q.edges[i].from>>>>
Drained(q, i) == <<<<q.id, q.edges[i].to>>, BufferName(q, i)>>

(* generateAlsaConf puts both into one of the two graphs.                   *)
LEMMA EdgeHasTwoLines ==
  ASSUME NEW q, IsPipe(q), NEW i \in RoutableEdges(q)
  PROVE  /\ IsSequence(EdgeLines(q, i).main) /\ IsSequence(EdgeLines(q, i).dai)
         /\ Range(EdgeLines(q, i).main) \cup Range(EdgeLines(q, i).dai) = {Filled(q, i), Drained(q, i)}
<1> DEFINE from == EdgeEnds(q, i)[1]
           to == EdgeEnds(q, i)[2]
           f == <<BufferName(q, i), from.widget>>
           d == <<to.widget, BufferName(q, i)>>
           lines == EdgeLines(q, i)
<1>1. from = FindNode(q, q.edges[i].from) /\ to = FindNode(q, q.edges[i].to)
  BY DEF EdgeEnds
<1>2. Known(q.nodes, q.edges[i].from) /\ Known(q.nodes, q.edges[i].to)
  BY DEF RoutableEdges
<1>3. from.widget = <<q.id, q.edges[i].from>> /\ to.widget = <<q.id, q.edges[i].to>>
  BY <1>1, <1>2, NodeFound
<1>4. f = Filled(q, i) /\ d = Drained(q, i)
  BY <1>3 DEF Filled, Drained
<1>5. \/ lines = [main |-> <<d>>, dai |-> <<f>>]
      \/ lines = [main |-> <<f>>, dai |-> <<d>>]
      \/ lines = [main |-> <<f, d>>, dai |-> <<>>]
  BY DEF EdgeLines
<1> HIDE DEF f, d, lines, from, to
<1>6. \A y : IsSequence(<<y>>) /\ Range(<<y>>) = {y}
  BY DEF IsSequence, Range
<1>7. IsSequence(<<>>) /\ Range(<<>>) = {}
  BY DEF IsSequence, Range
<1>8. IsSequence(<<f, d>>) /\ Range(<<f, d>>) = {f, d}
  <2>1. <<f, d>> \in Seq({f, d})
    OBVIOUS
  <2>2. DOMAIN <<f, d>> = {1, 2} /\ <<f, d>>[1] = f /\ <<f, d>>[2] = d
    OBVIOUS
  <2>3. Range(<<f, d>>) = {f, d}
    BY <2>2 DEF Range
  <2> QED BY <2>1, <2>3 DEF IsSequence
<1>9. /\ IsSequence(lines.main) /\ IsSequence(lines.dai)
      /\ Range(lines.main) \cup Range(lines.dai) = {f, d}
  <2>1. CASE lines = [main |-> <<d>>, dai |-> <<f>>]
    BY <1>6, <2>1
  <2>2. CASE lines = [main |-> <<f>>, dai |-> <<d>>]
    BY <1>6, <2>2
  <2>3. CASE lines = [main |-> <<f, d>>, dai |-> <<>>]
    BY <1>7, <1>8, <2>3
  <2> QED BY <1>5, <2>1, <2>2, <2>3
<1> QED BY <1>4, <1>9 DEF lines

(* The graph of a pipeline has the two lines of each edge between nodes.    *)
LEMMA PipelineHasLines ==
  ASSUME NEW q, IsPipe(q)
  PROVE  /\ IsSequence(PipelineLines(q))
         /\ Range(PipelineLines(q)) = UNION {{Filled(q, i), Drained(q, i)} : i \in RoutableEdges(q)}
<1> DEFINE R == RoutableEdges(q)
           n == Len(q.edges)
           main == [i \in 1..n |-> IF i \in R THEN EdgeLines(q, i).main ELSE <<>>]
           dai == [i \in 1..n |-> IF i \in R THEN EdgeLines(q, i).dai ELSE <<>>]
<1>1. n \in Nat /\ R \subseteq 1..n
  BY SequenceIs DEF IsPipe, RoutableEdges
<1>2. IsSequence(<<>>) /\ Range(<<>>) = {}
  BY DEF IsSequence, Range
<1>3. PipelineLines(q) = FlattenSeq(main) \o FlattenSeq(dai)
  BY DEF PipelineLines, MainLines, DaiLines
<1>4. IsSequence(main) /\ Len(main) = n /\ IsSequence(dai) /\ Len(dai) = n
  <2>1. main = [i \in 1..n |-> main[i]] /\ dai = [i \in 1..n |-> dai[i]]
    OBVIOUS
  <2> HIDE DEF main, dai, n
  <2> QED BY <1>1, <2>1, SequenceMade
<1>5. ASSUME NEW i \in 1..n
      PROVE  /\ IsSequence(main[i]) /\ IsSequence(dai[i])
             /\ Range(main[i]) \cup Range(dai[i]) = IF i \in R THEN {Filled(q, i), Drained(q, i)} ELSE {}
  <2>1. CASE i \in R
    <3>1. main[i] = EdgeLines(q, i).main /\ dai[i] = EdgeLines(q, i).dai
      BY <2>1
    <3> HIDE DEF main, dai, R
    <3> QED BY <2>1, <3>1, EdgeHasTwoLines DEF R
  <2>2. CASE i \notin R
    <3>1. main[i] = <<>> /\ dai[i] = <<>>
      BY <2>2
    <3> HIDE DEF main, dai, R
    <3> QED BY <1>2, <2>2, <3>1
  <2> QED BY <2>1, <2>2
<1> HIDE DEF main, dai, R, n
<1>6. /\ IsSequence(FlattenSeq(main)) /\ Range(FlattenSeq(main)) = UNION {Range(main[i]) : i \in 1..n}
      /\ IsSequence(FlattenSeq(dai)) /\ Range(FlattenSeq(dai)) = UNION {Range(dai[i]) : i \in 1..n}
  BY <1>4, <1>5, Flattened
<1>7. IsSequence(PipelineLines(q))
      /\ Range(PipelineLines(q)) = Range(FlattenSeq(main)) \cup Range(FlattenSeq(dai))
  BY <1>3, <1>6, Concatenated
<1>8. (UNION {Range(main[i]) : i \in 1..n}) \cup (UNION {Range(dai[i]) : i \in 1..n})
        = UNION {{Filled(q, i), Drained(q, i)} : i \in R}
  <2> DEFINE both(i) == {Filled(q, i), Drained(q, i)}
  <2>1. \A i \in 1..n : Range(main[i]) \cup Range(dai[i]) = IF i \in R THEN both(i) ELSE {}
    BY <1>5
  <2>2. ASSUME NEW i \in 1..n, NEW l \in Range(main[i]) \cup Range(dai[i])
        PROVE  i \in R /\ l \in both(i)
    <3> HIDE DEF both
    <3> QED BY <2>1
  <2>3. ASSUME NEW i \in R, NEW l \in both(i) PROVE l \in Range(main[i]) \cup Range(dai[i])
    <3> HIDE DEF both
    <3> QED BY <1>1, <2>1
  <2> QED BY <1>1, <2>2, <2>3
<1> QED BY <1>6, <1>7, <1>8 DEF R

-----------------------------------------------------------------------------
(* The names of the widgets of a pipeline: W are widgets, of which exactly  *)
(* the buffers of its edges are buffers; every node has its own, and the    *)
(* others are schedulers.                                                   *)
Buffers(q) == {BufferName(q, i) : i \in RoutableEdges(q)}
NodeNames(q) == {<<q.id, q.nodes[i].id>> : i \in 1..Len(q.nodes)}
SchedulerNames(q) == {<<q.id, "SCHED">>} \cup {<<q.id, q.nodes[i].id>> \o <<"SCHED">> : i \in 1..Len(q.nodes)}
WidgetsName(W, q) ==
  /\ \A w \in W : w.type = "buffer" => w.name \in Buffers(q)
  /\ \A w \in W : w.type # "buffer" => w.name \in NodeNames(q) \cup SchedulerNames(q)
  /\ \A b \in Buffers(q) : \E w \in W : w.type = "buffer" /\ w.name = b
  /\ \A n \in NodeNames(q) : \E w \in W : w.name = n

(* emitSofWidgetData, emitInferredBuffer and emitDaiScheduler name one      *)
(* widget each.                                                             *)
LEMMA WidgetIs ==
  ASSUME NEW q, NEW controls, NEW n
  PROVE  /\ SofWidget(controls, q, n).name = n.widget /\ SofWidget(controls, q, n).type # "buffer"
         /\ SofWidget(controls, q, n).controls = ControlsForNode(controls, q, n)
         /\ \A i : EdgeBuffer(q, i).name = BufferName(q, i) /\ EdgeBuffer(q, i).type = "buffer"
         /\ \A name : Scheduler(name, q).name = name /\ Scheduler(name, q).type = "scheduler"
<1>1. SofWidgetType(n, q) # "buffer"
  <2>1. IsPortWidget(n, q) \in BOOLEAN /\ IsDaiPortWidget(n, q) \in BOOLEAN
    BY DEF IsPortWidget, IsDaiPortWidget
  <2> QED BY <2>1 DEF SofWidgetType
<1>2. \A name, type : /\ Widget(name, q, type).name = name /\ Widget(name, q, type).type = type
                      /\ DOMAIN Widget(name, q, type) = {"name", "pipeline", "type", "stream", "dai",
                                                         "process", "bytes", "period", "controls"}
  BY DEF Widget
<1>3. /\ SofWidget(controls, q, n).name = n.widget /\ SofWidget(controls, q, n).type = SofWidgetType(n, q)
      /\ SofWidget(controls, q, n).controls = ControlsForNode(controls, q, n)
  BY <1>2 DEF SofWidget
<1>4. \A i : EdgeBuffer(q, i).name = BufferName(q, i) /\ EdgeBuffer(q, i).type = "buffer"
  BY <1>2 DEF EdgeBuffer
<1>5. \A name : Scheduler(name, q).name = name /\ Scheduler(name, q).type = "scheduler"
  BY <1>2 DEF Scheduler
<1> QED BY <1>1, <1>3, <1>4, <1>5

(* emitInferredBuffers: the buffers of the edges between nodes.             *)
LEMMA BuffersMade ==
  ASSUME NEW q, IsPipe(q)
  PROVE  /\ IsSequence(InferredBuffers(q))
         /\ \A w : w \in Range(InferredBuffers(q)) <=> \E i \in RoutableEdges(q) : w = EdgeBuffer(q, i)
<1> DEFINE n == Len(q.edges)
           S == RoutableEdges(q)
           x == [i \in 1..n |-> EdgeBuffer(q, i)]
           ss == [i \in 1..n |-> IF i \in S THEN <<EdgeBuffer(q, i)>> ELSE <<>>]
<1>1. n \in Nat /\ S \subseteq 1..n
  BY SequenceIs DEF IsPipe, RoutableEdges
<1>2. ss = [i \in 1..n |-> ss[i]] /\ \A i \in 1..n : ss[i] = IF i \in S THEN <<x[i]>> ELSE <<>>
  OBVIOUS
<1>3. \A i \in 1..n : x[i] = EdgeBuffer(q, i)
  OBVIOUS
<1>4. InferredBuffers(q) = FlattenSeq(ss)
  BY DEF InferredBuffers
<1> HIDE DEF n, x, ss, S
<1>5. Keeps(FlattenSeq(ss), x, S, n)
  BY <1>1, <1>2, Chosen
<1>6. Range(FlattenSeq(ss)) = {x[i] : i \in S}
  BY <1>1, <1>5 DEF Keeps
<1> QED BY <1>1, <1>3, <1>4, <1>5, <1>6 DEF Keeps, S

(* emitDaiSchedulers: one of its own for each DAI end.                      *)
LEMMA SchedulersMade ==
  ASSUME NEW q, IsPipe(q)
  PROVE  /\ IsSequence(DaiSchedulers(q))
         /\ \A w : w \in Range(DaiSchedulers(q)) =>
              \E i \in 1..Len(q.nodes) : w = DaiScheduler(q, q.nodes[i])
<1> DEFINE n == Len(q.nodes)
           S == {i \in 1..n : IsDaiPortWidget(q.nodes[i], q)}
           x == [i \in 1..n |-> DaiScheduler(q, q.nodes[i])]
           ss == [i \in 1..n |-> IF IsDaiPortWidget(q.nodes[i], q) THEN <<DaiScheduler(q, q.nodes[i])>> ELSE <<>>]
<1>1. n \in Nat
  BY SequenceIs DEF IsPipe
<1>2. ss = [i \in 1..n |-> ss[i]] /\ \A i \in 1..n : ss[i] = IF i \in S THEN <<x[i]>> ELSE <<>>
  OBVIOUS
<1>3. \A i \in 1..n : x[i] = DaiScheduler(q, q.nodes[i])
  OBVIOUS
<1>4. DaiSchedulers(q) = FlattenSeq(ss)
  BY DEF DaiSchedulers
<1> HIDE DEF n, x, ss, S
<1>5. Keeps(FlattenSeq(ss), x, S, n)
  BY <1>1, <1>2, Chosen
<1> QED BY <1>3, <1>4, <1>5 DEF Keeps, n

(* generateAlsaConf names the widgets of a pipeline.                        *)
LEMMA PipelineHasWidgets ==
  ASSUME NEW q, IsPipe(q), NEW controls
  PROVE  /\ IsSequence(PipelineWidgets(controls, q))
         /\ WidgetsName(Range(PipelineWidgets(controls, q)), q)
         /\ \A i \in 1..Len(q.nodes) :
              SofWidget(controls, q, q.nodes[i]) \in Range(PipelineWidgets(controls, q))
<1> DEFINE first == Scheduler(<<q.id, "SCHED">>, q)
           A == <<first>>
           B == [i \in 1..Len(q.nodes) |-> SofWidget(controls, q, q.nodes[i])]
           C == InferredBuffers(q)
           D == DaiSchedulers(q)
           W == Range(PipelineWidgets(controls, q))
<1>1. Len(q.nodes) \in Nat
  BY SequenceIs DEF IsPipe
<1>2. PipelineWidgets(controls, q) = ((A \o B) \o C) \o D
  BY DEF PipelineWidgets
<1>3. IsSequence(A) /\ Range(A) = {first}
  BY DEF IsSequence, Range
<1>4. IsSequence(B) /\ DOMAIN B = 1..Len(q.nodes)
  <2>1. B = [i \in 1..Len(q.nodes) |-> B[i]]
    OBVIOUS
  <2> HIDE DEF B
  <2> QED BY <1>1, <2>1, SequenceMade
<1>5. \A i \in 1..Len(q.nodes) : B[i] = SofWidget(controls, q, q.nodes[i])
  OBVIOUS
<1>6. first.name = <<q.id, "SCHED">> /\ first.type = "scheduler"
  BY WidgetIs
<1> HIDE DEF first, B
<1>7. IsSequence(C) /\ IsSequence(D)
  BY BuffersMade, SchedulersMade
<1> HIDE DEF A, C, D, W
<1>8. IsSequence(A \o B) /\ Range(A \o B) = Range(A) \cup Range(B)
  BY <1>3, <1>4, Concatenated
<1>9. IsSequence((A \o B) \o C) /\ Range((A \o B) \o C) = Range(A) \cup Range(B) \cup Range(C)
  BY <1>7, <1>8, Concatenated
<1>10. /\ IsSequence(PipelineWidgets(controls, q))
       /\ W = Range(A) \cup Range(B) \cup Range(C) \cup Range(D)
  BY <1>2, <1>7, <1>9, Concatenated DEF W
<1>11. ASSUME NEW w \in Range(A) PROVE w.type # "buffer" /\ w.name \in SchedulerNames(q)
  BY <1>3, <1>6 DEF SchedulerNames
<1>12. ASSUME NEW w \in Range(B) PROVE w.type # "buffer" /\ w.name \in NodeNames(q)
  <2>1. PICK i \in 1..Len(q.nodes) : w = SofWidget(controls, q, q.nodes[i])
    BY <1>4, <1>5 DEF Range
  <2>2. w.name = q.nodes[i].widget /\ w.type # "buffer"
    BY <2>1, WidgetIs
  <2> QED BY <2>2 DEF NodeNames, IsPipe
<1>13. ASSUME NEW w \in Range(C) PROVE w.type = "buffer" /\ w.name \in Buffers(q)
  <2>1. PICK i \in RoutableEdges(q) : w = EdgeBuffer(q, i)
    BY BuffersMade DEF C
  <2>2. w.name = BufferName(q, i) /\ w.type = "buffer"
    BY <2>1, WidgetIs
  <2> QED BY <2>2 DEF Buffers
<1>14. ASSUME NEW w \in Range(D) PROVE w.type # "buffer" /\ w.name \in SchedulerNames(q)
  <2>1. PICK i \in 1..Len(q.nodes) : w = DaiScheduler(q, q.nodes[i])
    BY SchedulersMade DEF D
  <2> DEFINE name == q.nodes[i].widget \o <<"SCHED">>
  <2>2. w = Scheduler(name, q)
    BY <2>1 DEF DaiScheduler
  <2>3. w.name = name /\ w.type = "scheduler"
    <3> HIDE DEF name
    <3> QED BY <2>2, WidgetIs
  <2>4. q.nodes[i].widget = <<q.id, q.nodes[i].id>>
    BY DEF IsPipe
  <2> QED BY <2>3, <2>4 DEF SchedulerNames
<1>15. ASSUME NEW b \in Buffers(q) PROVE \E w \in Range(C) : w.type = "buffer" /\ w.name = b
  <2>1. PICK i \in RoutableEdges(q) : b = BufferName(q, i)
    BY DEF Buffers
  <2>2. EdgeBuffer(q, i) \in Range(C)
    BY BuffersMade DEF C
  <2> QED BY <2>1, <2>2, WidgetIs
<1>16. ASSUME NEW n \in NodeNames(q) PROVE \E w \in Range(B) : w.name = n
  <2>1. PICK i \in 1..Len(q.nodes) : n = <<q.id, q.nodes[i].id>>
    BY DEF NodeNames
  <2>2. B[i] \in Range(B)
    BY <1>4 DEF Range
  <2>3. B[i].name = q.nodes[i].widget
    BY <1>5, WidgetIs
  <2> QED BY <2>1, <2>2, <2>3 DEF IsPipe
<1>17. \A i \in 1..Len(q.nodes) : SofWidget(controls, q, q.nodes[i]) \in Range(B)
  BY <1>4, <1>5 DEF Range
<1>18. WidgetsName(W, q)
  BY <1>10, <1>11, <1>12, <1>13, <1>14, <1>15, <1>16 DEF WidgetsName
<1> QED BY <1>10, <1>17, <1>18 DEF W

-----------------------------------------------------------------------------
(* The graph of a topology: lines, the names of its widgets and those of    *)
(* its buffers, of a project ir.                                            *)
IsGraph(lines, widgets, buffers, ir) ==
  /\ \A l \in lines : \E q \in Range(ir) : \E i \in RoutableEdges(q) : l = Filled(q, i) \/ l = Drained(q, i)
  /\ \A q \in Range(ir) : \A i \in RoutableEdges(q) : Filled(q, i) \in lines /\ Drained(q, i) \in lines
  /\ \A b \in buffers : \E q \in Range(ir) : b \in Buffers(q)
  /\ \A q \in Range(ir) : Buffers(q) \subseteq buffers
  /\ buffers \subseteq widgets
  /\ \A w \in widgets \ buffers : \E q \in Range(ir) : w \in NodeNames(q) \cup SchedulerNames(q)
  /\ \A q \in Range(ir) : NodeNames(q) \subseteq widgets

(* Pipelines have ids of their own, and no edge ends in a scheduler.        *)
NamesApart(ir) ==
  /\ \A q, r \in Range(ir) : q.id = r.id => q = r
  /\ \A q \in Range(ir) : \A e \in Range(q.edges) : e.from # "SCHED" /\ e.to # "SCHED"

(* generateAlsaConf puts the pipelines one after the other.                 *)
LEMMA ConfMade ==
  ASSUME NEW ir, IsIr(ir), NEW controls
  PROVE  LET conf == AlsaConfOf(ir, controls)
         IN /\ IsGraph(Range(conf.routes), {w.name : w \in Range(conf.widgets)},
                       {w.name : w \in {v \in Range(conf.widgets) : v.type = "buffer"}}, ir)
            /\ \A q \in Range(ir) : \A i \in 1..Len(q.nodes) :
                 SofWidget(controls, q, q.nodes[i]) \in Range(conf.widgets)
<1> DEFINE conf == AlsaConfOf(ir, controls)
           n == Len(ir)
           ws == [i \in 1..n |-> PipelineWidgets(controls, ir[i])]
           ls == [i \in 1..n |-> PipelineLines(ir[i])]
           W == Range(conf.widgets)
           lines == Range(conf.routes)
           widgets == {w.name : w \in W}
           buffers == {w.name : w \in {v \in W : v.type = "buffer"}}
<1>1. n \in Nat /\ DOMAIN ir = 1..n
  BY SequenceIs DEF IsIr
<1>2. conf.widgets = FlattenSeq(ws) /\ conf.routes = FlattenSeq(ls)
  BY DEF AlsaConfOf
<1>3. \A i \in 1..n : ws[i] = PipelineWidgets(controls, ir[i]) /\ ls[i] = PipelineLines(ir[i])
  OBVIOUS
<1>4. IsSequence(ws) /\ Len(ws) = n /\ IsSequence(ls) /\ Len(ls) = n
  <2>1. ws = [i \in 1..n |-> ws[i]] /\ ls = [i \in 1..n |-> ls[i]]
    OBVIOUS
  <2> HIDE DEF ws, ls, n
  <2> QED BY <1>1, <2>1, SequenceMade
<1> HIDE DEF conf, ws, ls, n
<1>5. \A i \in 1..n : IsPipe(ir[i])
  BY DEF IsIr, n
<1>6. \A i \in 1..n : IsSequence(ws[i]) /\ WidgetsName(Range(ws[i]), ir[i])
  BY <1>3, <1>5, PipelineHasWidgets
<1>7. \A i \in 1..n : /\ IsSequence(ls[i])
                      /\ Range(ls[i]) = UNION {{Filled(ir[i], k), Drained(ir[i], k)} : k \in RoutableEdges(ir[i])}
  BY <1>3, <1>5, PipelineHasLines
<1>8. W = UNION {Range(ws[i]) : i \in 1..n} /\ lines = UNION {Range(ls[i]) : i \in 1..n}
  BY <1>2, <1>4, <1>6, <1>7, Flattened
<1>9. \A q : q \in Range(ir) <=> \E i \in 1..n : q = ir[i]
  BY <1>1 DEF Range
<1> HIDE DEF W, lines
<1>10. \A l \in lines : \E q \in Range(ir) : \E i \in RoutableEdges(q) : l = Filled(q, i) \/ l = Drained(q, i)
  <2> SUFFICES ASSUME NEW l \in lines
               PROVE  \E q \in Range(ir) : \E i \in RoutableEdges(q) : l = Filled(q, i) \/ l = Drained(q, i)
    OBVIOUS
  <2>1. PICK a \in 1..n : l \in Range(ls[a])
    BY <1>8
  <2>2. PICK k \in RoutableEdges(ir[a]) : l = Filled(ir[a], k) \/ l = Drained(ir[a], k)
    BY <1>7, <2>1
  <2> QED BY <1>9, <2>2
<1>11. \A q \in Range(ir) : \A i \in RoutableEdges(q) : Filled(q, i) \in lines /\ Drained(q, i) \in lines
  <2> SUFFICES ASSUME NEW a \in 1..n, NEW i \in RoutableEdges(ir[a])
               PROVE  Filled(ir[a], i) \in lines /\ Drained(ir[a], i) \in lines
    BY <1>9
  <2>1. Filled(ir[a], i) \in Range(ls[a]) /\ Drained(ir[a], i) \in Range(ls[a])
    BY <1>7
  <2> QED BY <1>8, <2>1
<1>12. \A w : w \in W <=> \E i \in 1..n : w \in Range(ws[i])
  BY <1>8
<1>13. \A b \in buffers : \E q \in Range(ir) : b \in Buffers(q)
  <2> SUFFICES ASSUME NEW w \in W, w.type = "buffer" PROVE \E q \in Range(ir) : w.name \in Buffers(q)
    OBVIOUS
  <2>1. PICK a \in 1..n : w \in Range(ws[a])
    BY <1>12
  <2> QED BY <1>6, <1>9, <2>1 DEF WidgetsName
<1>14. \A q \in Range(ir) : Buffers(q) \subseteq buffers
  <2> SUFFICES ASSUME NEW a \in 1..n, NEW b \in Buffers(ir[a]) PROVE b \in buffers
    BY <1>9
  <2>1. PICK w \in Range(ws[a]) : w.type = "buffer" /\ w.name = b
    BY <1>6 DEF WidgetsName
  <2> QED BY <1>12, <2>1
<1>15. buffers \subseteq widgets
  OBVIOUS
<1>16. \A w \in widgets \ buffers : \E q \in Range(ir) : w \in NodeNames(q) \cup SchedulerNames(q)
  <2> SUFFICES ASSUME NEW w \in W, w.type # "buffer"
               PROVE  \E q \in Range(ir) : w.name \in NodeNames(q) \cup SchedulerNames(q)
    OBVIOUS
  <2>1. PICK a \in 1..n : w \in Range(ws[a])
    BY <1>12
  <2> QED BY <1>6, <1>9, <2>1 DEF WidgetsName
<1>17. \A q \in Range(ir) : NodeNames(q) \subseteq widgets
  <2> SUFFICES ASSUME NEW a \in 1..n, NEW b \in NodeNames(ir[a]) PROVE b \in widgets
    BY <1>9
  <2>1. PICK w \in Range(ws[a]) : w.name = b
    BY <1>6 DEF WidgetsName
  <2> QED BY <1>12, <2>1
<1> HIDE DEF widgets, buffers
<1>18. IsGraph(lines, widgets, buffers, ir)
  BY <1>10, <1>11, <1>13, <1>14, <1>15, <1>16, <1>17 DEF IsGraph
<1>19. \A q \in Range(ir) : \A i \in 1..Len(q.nodes) : SofWidget(controls, q, q.nodes[i]) \in W
  <2> SUFFICES ASSUME NEW a \in 1..n, NEW i \in 1..Len(ir[a].nodes)
               PROVE  SofWidget(controls, ir[a], ir[a].nodes[i]) \in W
    BY <1>9
  <2>1. SofWidget(controls, ir[a], ir[a].nodes[i]) \in Range(ws[a])
    BY <1>3, <1>5, PipelineHasWidgets
  <2> QED BY <1>12, <2>1
<1> QED BY <1>18, <1>19 DEF lines, widgets, buffers, W, conf

(* A node and a buffer never share a name, nor do a node and the scheduler  *)
(* of a DAI end.                                                            *)
LEMMA NamesDiffer ==
  ASSUME NEW a, NEW b, NEW c, NEW d, NEW e
  PROVE  <<a, b>> # <<c, d, e>> /\ <<a, b>> # <<c, d>> \o <<e>>
<1>1. DOMAIN <<a, b>> = 1..2 /\ DOMAIN <<c, d, e>> = 1..3
  OBVIOUS
<1>2. 3 \in 1..3 /\ 3 \notin 1..2
  OBVIOUS
<1>3. DOMAIN (<<c, d>> \o <<e>>) = 1..3
  <2> DEFINE S == {c, d, e}
  <2>1. <<c, d>> \in Seq(S) /\ Len(<<c, d>>) = 2 /\ <<e>> \in Seq(S) /\ Len(<<e>>) = 1
    OBVIOUS
  <2> HIDE DEF S
  <2>2. <<c, d>> \o <<e>> \in Seq(S) /\ Len(<<c, d>> \o <<e>>) = 3
    BY <2>1
  <2> QED BY <2>2
<1> QED BY <1>1, <1>2, <1>3

(* Which names meet: no buffer is called like a node, an end of an edge is  *)
(* called like a widget only if there is the node, and two edges have two   *)
(* buffers.                                                                 *)
LEMMA NamesMeet ==
  ASSUME NEW ir, IsIr(ir), NamesApart(ir), NEW q \in Range(ir)
  PROVE  /\ \A r \in Range(ir) : \A i, k : BufferName(q, i) = BufferName(r, k) => q = r /\ i = k
         /\ \A r \in Range(ir) : \A x : <<q.id, x>> \notin Buffers(r)
         /\ \A r \in Range(ir) : \A x : x # "SCHED" => <<q.id, x>> \notin SchedulerNames(r)
         /\ \A r \in Range(ir) : \A x : <<q.id, x>> \in NodeNames(r) => Known(q.nodes, x)
         /\ \A x : Known(q.nodes, x) => <<q.id, x>> \in NodeNames(q)
<1>1. \A r \in Range(ir) : \A i, k : BufferName(q, i) = BufferName(r, k) => q = r /\ i = k
  BY DEF NamesApart, BufferName
<1>2. \A r \in Range(ir) : \A x : <<q.id, x>> \notin Buffers(r)
  BY NamesDiffer DEF Buffers, BufferName
<1>3. \A r \in Range(ir) : \A x : x # "SCHED" => <<q.id, x>> \notin SchedulerNames(r)
  <2> SUFFICES ASSUME NEW r \in Range(ir), NEW x, x # "SCHED" PROVE <<q.id, x>> \notin SchedulerNames(r)
    OBVIOUS
  <2>1. <<q.id, x>> # <<r.id, "SCHED">>
    OBVIOUS
  <2>2. \A i \in 1..Len(r.nodes) : <<q.id, x>> # <<r.id, r.nodes[i].id>> \o <<"SCHED">>
    BY NamesDiffer
  <2> QED BY <2>1, <2>2 DEF SchedulerNames
<1>4. \A r \in Range(ir) : \A x : <<q.id, x>> \in NodeNames(r) => Known(q.nodes, x)
  <2> SUFFICES ASSUME NEW r \in Range(ir), NEW x, NEW i \in 1..Len(r.nodes), <<q.id, x>> = <<r.id, r.nodes[i].id>>
               PROVE  Known(q.nodes, x)
    BY DEF NodeNames
  <2>1. q.id = r.id /\ x = r.nodes[i].id
    OBVIOUS
  <2>2. q = r
    BY <2>1 DEF NamesApart
  <2> QED BY <2>1, <2>2 DEF Known
<1>5. \A x : Known(q.nodes, x) => <<q.id, x>> \in NodeNames(q)
  BY DEF Known, NodeNames
<1> QED BY <1>1, <1>2, <1>3, <1>4, <1>5

-----------------------------------------------------------------------------
(* An edge between two nodes, as what it asks for.                          *)
AskedFor(q, e) == <<<<q.id, e.from>>, <<q.id, e.to>>>>

LEMMA AskedIs ==
  ASSUME NEW ir
  PROVE  \A a : a \in Asked(ir) <=> \E q \in Range(ir) : \E e \in Range(q.edges) : a = AskedFor(q, e)
BY DEF Asked, AskedFor

(* The two ends of an edge are widgets when they are nodes.                 *)
LEMMA EndsAreNodes ==
  ASSUME NEW ir, IsIr(ir), NamesApart(ir), NEW lines, NEW widgets, NEW buffers,
         IsGraph(lines, widgets, buffers, ir), NEW q \in Range(ir), NEW x, x # "SCHED"
  PROVE  <<q.id, x>> \notin buffers /\ (<<q.id, x>> \in widgets <=> Known(q.nodes, x))
<1>1. <<q.id, x>> \notin buffers
  BY NamesMeet DEF IsGraph
<1>2. ASSUME <<q.id, x>> \in widgets PROVE Known(q.nodes, x)
  <2>1. PICK r \in Range(ir) : <<q.id, x>> \in NodeNames(r) \cup SchedulerNames(r)
    BY <1>1, <1>2 DEF IsGraph
  <2>2. <<q.id, x>> \notin SchedulerNames(r)
    BY NamesMeet
  <2> QED BY <2>1, <2>2, NamesMeet
<1>3. ASSUME Known(q.nodes, x) PROVE <<q.id, x>> \in widgets
  <2>1. <<q.id, x>> \in NodeNames(q)
    BY <1>3, NamesMeet
  <2> QED BY <2>1 DEF IsGraph
<1> QED BY <1>1, <1>2, <1>3

(* An edge between two nodes of a pipeline, and its lines.                  *)
LEMMA EdgeIs ==
  ASSUME NEW ir, IsIr(ir), NamesApart(ir), NEW lines, NEW widgets, NEW buffers,
         IsGraph(lines, widgets, buffers, ir), NEW q \in Range(ir), NEW i \in RoutableEdges(q)
  PROVE  /\ q.edges[i] \in Range(q.edges)
         /\ BufferName(q, i) \in buffers
         /\ Filled(q, i)[1] = BufferName(q, i) /\ Drained(q, i)[2] = BufferName(q, i)
         /\ <<Filled(q, i)[2], Drained(q, i)[1]>> = AskedFor(q, q.edges[i])
         /\ Filled(q, i)[2] \in widgets /\ Filled(q, i)[2] \notin buffers
         /\ Drained(q, i)[1] \in widgets /\ Drained(q, i)[1] \notin buffers
         /\ Filled(q, i) \in lines /\ Drained(q, i) \in lines
<1> DEFINE e == q.edges[i]
<1>1. IsPipe(q)
  <2>1. DOMAIN ir = 1..Len(ir)
    BY SequenceIs DEF IsIr
  <2> QED BY <2>1 DEF IsIr, Range
<1>2. e \in Range(q.edges)
  <2>1. DOMAIN q.edges = 1..Len(q.edges)
    BY <1>1, SequenceIs DEF IsPipe
  <2> QED BY <2>1 DEF RoutableEdges, Range
<1>3. e.from # "SCHED" /\ e.to # "SCHED"
  BY <1>2 DEF NamesApart
<1>4. Known(q.nodes, e.from) /\ Known(q.nodes, e.to)
  BY DEF RoutableEdges
<1>5. BufferName(q, i) \in buffers
  BY DEF IsGraph, Buffers
<1>6. /\ Filled(q, i)[1] = BufferName(q, i) /\ Drained(q, i)[2] = BufferName(q, i)
      /\ Filled(q, i)[2] = <<q.id, e.from>> /\ Drained(q, i)[1] = <<q.id, e.to>>
  BY DEF Filled, Drained
<1>7. /\ <<q.id, e.from>> \in widgets /\ <<q.id, e.from>> \notin buffers
      /\ <<q.id, e.to>> \in widgets /\ <<q.id, e.to>> \notin buffers
  BY <1>3, <1>4, EndsAreNodes
<1>8. Filled(q, i) \in lines /\ Drained(q, i) \in lines
  BY DEF IsGraph
<1> QED BY <1>2, <1>5, <1>6, <1>7, <1>8 DEF AskedFor

(* The line that fills a buffer, or drains it, is that of its edge.         *)
LEMMA LineOf ==
  ASSUME NEW ir, IsIr(ir), NamesApart(ir), NEW lines, NEW widgets, NEW buffers,
         IsGraph(lines, widgets, buffers, ir), NEW l \in lines
  PROVE  \/ \E q \in Range(ir) : \E i \in RoutableEdges(q) : l = Filled(q, i) /\ l[1] \in buffers /\ l[2] \notin buffers
         \/ \E q \in Range(ir) : \E i \in RoutableEdges(q) : l = Drained(q, i) /\ l[2] \in buffers /\ l[1] \notin buffers
<1>1. PICK q \in Range(ir) : \E i \in RoutableEdges(q) : l = Filled(q, i) \/ l = Drained(q, i)
  BY DEF IsGraph
<1>2. PICK i \in RoutableEdges(q) : l = Filled(q, i) \/ l = Drained(q, i)
  BY <1>1
<1>3. /\ BufferName(q, i) \in buffers
      /\ Filled(q, i)[1] = BufferName(q, i) /\ Drained(q, i)[2] = BufferName(q, i)
      /\ Filled(q, i)[2] \notin buffers /\ Drained(q, i)[1] \notin buffers
  BY EdgeIs
<1> QED BY <1>2, <1>3

(* The lines of such a graph route the edges, and nothing else.             *)
LEMMA GraphRoutes ==
  ASSUME NEW ir, IsIr(ir), NamesApart(ir), NEW lines, NEW widgets, NEW buffers,
         IsGraph(lines, widgets, buffers, ir)
  PROVE  LinesRoute(lines, widgets, buffers, Asked(ir))
<1> DEFINE asked == Asked(ir)
           pairs == {l \in lines \X lines : l[1][1] = l[2][2] /\ l[1][1] \in buffers}
           paths == {<<path[1][2], path[2][1]>> : path \in pairs}
           wanted == {a \in asked : a[1] \in widgets /\ a[2] \in widgets}
<1>1. ASSUME NEW path \in pairs PROVE <<path[1][2], path[2][1]>> \in wanted
  <2>1. /\ path[1] \in lines /\ path[2] \in lines
        /\ path[1][1] = path[2][2] /\ path[1][1] \in buffers
    OBVIOUS
  <2> DEFINE f == path[1]
             d == path[2]
  <2>2. PICK q \in Range(ir) : \E i \in RoutableEdges(q) : f = Filled(q, i)
    <3> HIDE DEF f, d
    <3> QED BY <2>1, LineOf DEF f
  <2>3. PICK i \in RoutableEdges(q) : f = Filled(q, i)
    BY <2>2
  <2>4. PICK r \in Range(ir) : \E k \in RoutableEdges(r) : d = Drained(r, k)
    <3>1. d \in lines /\ d[2] \in buffers
      BY <2>1
    <3> HIDE DEF d
    <3> QED BY <3>1, LineOf
  <2>5. PICK k \in RoutableEdges(r) : d = Drained(r, k)
    BY <2>4
  <2>6. q = r /\ i = k
    <3>1. f[1] = BufferName(q, i) /\ d[2] = BufferName(r, k)
      BY <2>3, <2>5, EdgeIs
    <3>2. BufferName(q, i) = BufferName(r, k)
      BY <2>1, <3>1
    <3> QED BY <3>2, NamesMeet
  <2>7. <<f[2], d[1]>> = AskedFor(q, q.edges[i]) /\ q.edges[i] \in Range(q.edges)
        /\ f[2] \in widgets /\ d[1] \in widgets
    <3> HIDE DEF f, d
    <3> QED BY <2>3, <2>5, <2>6, EdgeIs
  <2>8. <<f[2], d[1]>> \in asked
    <3> HIDE DEF f, d
    <3> QED BY <2>7, AskedIs
  <2> HIDE DEF asked
  <2> QED BY <2>7, <2>8
<1>2. ASSUME NEW a \in wanted PROVE a \in paths
  <2>1. PICK q \in Range(ir) : \E e \in Range(q.edges) : a = AskedFor(q, e)
    BY AskedIs
  <2>2. PICK e \in Range(q.edges) : a = AskedFor(q, e)
    BY <2>1
  <2>3. IsPipe(q)
    <3>1. DOMAIN ir = 1..Len(ir)
      BY SequenceIs DEF IsIr
    <3> QED BY <3>1 DEF IsIr, Range
  <2>4. PICK i \in 1..Len(q.edges) : e = q.edges[i]
    <3>1. DOMAIN q.edges = 1..Len(q.edges)
      BY <2>3, SequenceIs DEF IsPipe
    <3> QED BY <3>1 DEF Range
  <2>5. a[1] = <<q.id, e.from>> /\ a[2] = <<q.id, e.to>>
    BY <2>2 DEF AskedFor
  <2>6. e.from # "SCHED" /\ e.to # "SCHED"
    BY DEF NamesApart
  <2>7. Known(q.nodes, e.from) /\ Known(q.nodes, e.to)
    <3>1. <<q.id, e.from>> \in widgets /\ <<q.id, e.to>> \in widgets
      BY <2>5
    <3> HIDE DEF wanted
    <3> QED BY <2>6, <3>1, EndsAreNodes
  <2>8. i \in RoutableEdges(q)
    BY <2>4, <2>7 DEF RoutableEdges
  <2> DEFINE f == Filled(q, i)
             d == Drained(q, i)
  <2>9. /\ f \in lines /\ d \in lines /\ f[1] = d[2] /\ f[1] \in buffers
        /\ <<f[2], d[1]>> = a
    <3>1. /\ BufferName(q, i) \in buffers
          /\ f[1] = BufferName(q, i) /\ d[2] = BufferName(q, i)
          /\ <<f[2], d[1]>> = AskedFor(q, q.edges[i])
          /\ f \in lines /\ d \in lines
      BY <2>8, EdgeIs
    <3> HIDE DEF f, d
    <3> QED BY <2>2, <2>4, <3>1
  <2> HIDE DEF f, d
  <2>10. <<f, d>> \in pairs /\ <<f, d>>[1][2] = f[2] /\ <<f, d>>[2][1] = d[1]
    BY <2>9
  <2> HIDE DEF pairs
  <2> QED BY <2>9, <2>10
<1>3. paths = wanted
  <2>1. paths \subseteq wanted
    <3> HIDE DEF pairs, wanted
    <3> QED BY <1>1
  <2>2. wanted \subseteq paths
    BY <1>2
  <2> QED BY <2>1, <2>2
<1> HIDE DEF asked, pairs
<1>4. \A l \in lines : l[1] \in widgets /\ l[2] \in widgets
  <2> SUFFICES ASSUME NEW l \in lines PROVE l[1] \in widgets /\ l[2] \in widgets
    OBVIOUS
  <2>1. PICK q \in Range(ir) : \E i \in RoutableEdges(q) : l = Filled(q, i) \/ l = Drained(q, i)
    BY DEF IsGraph
  <2>2. PICK i \in RoutableEdges(q) : l = Filled(q, i) \/ l = Drained(q, i)
    BY <2>1
  <2>3. /\ BufferName(q, i) \in buffers
        /\ Filled(q, i)[1] = BufferName(q, i) /\ Drained(q, i)[2] = BufferName(q, i)
        /\ Filled(q, i)[2] \in widgets /\ Drained(q, i)[1] \in widgets
    BY EdgeIs
  <2>4. buffers \subseteq widgets
    BY DEF IsGraph
  <2> QED BY <2>2, <2>3, <2>4
<1>5. \A l \in lines : (l[1] \in buffers) # (l[2] \in buffers)
  <2> SUFFICES ASSUME NEW l \in lines PROVE (l[1] \in buffers) # (l[2] \in buffers)
    OBVIOUS
  <2>1. (l[1] \in buffers /\ l[2] \notin buffers) \/ (l[2] \in buffers /\ l[1] \notin buffers)
    BY LineOf
  <2> QED BY <2>1
<1>6. \A b \in buffers : /\ Cardinality({l \in lines : l[1] = b}) = 1
                        /\ Cardinality({l \in lines : l[2] = b}) = 1
  <2> SUFFICES ASSUME NEW b \in buffers
               PROVE  /\ Cardinality({l \in lines : l[1] = b}) = 1
                      /\ Cardinality({l \in lines : l[2] = b}) = 1
    OBVIOUS
  <2>1. PICK q \in Range(ir) : b \in Buffers(q)
    BY DEF IsGraph
  <2>2. PICK i \in RoutableEdges(q) : b = BufferName(q, i)
    BY <2>1 DEF Buffers
  <2>3. /\ Filled(q, i) \in lines /\ Drained(q, i) \in lines
        /\ Filled(q, i)[1] = b /\ Drained(q, i)[2] = b
    BY <2>2, EdgeIs
  <2>4. ASSUME NEW l \in lines, l[1] = b PROVE l = Filled(q, i)
    <3>1. PICK r \in Range(ir) : \E k \in RoutableEdges(r) : l = Filled(r, k)
      BY <2>4, LineOf
    <3>2. PICK k \in RoutableEdges(r) : l = Filled(r, k)
      BY <3>1
    <3>3. l[1] = BufferName(r, k)
      BY <3>2, EdgeIs
    <3>4. BufferName(q, i) = BufferName(r, k)
      BY <2>2, <2>4, <3>3
    <3>5. q = r /\ i = k
      BY <3>4, NamesMeet
    <3> QED BY <3>2, <3>5
  <2>5. ASSUME NEW l \in lines, l[2] = b PROVE l = Drained(q, i)
    <3>1. PICK r \in Range(ir) : \E k \in RoutableEdges(r) : l = Drained(r, k)
      BY <2>5, LineOf
    <3>2. PICK k \in RoutableEdges(r) : l = Drained(r, k)
      BY <3>1
    <3>3. l[2] = BufferName(r, k)
      BY <3>2, EdgeIs
    <3>4. BufferName(q, i) = BufferName(r, k)
      BY <2>2, <2>5, <3>3
    <3>5. q = r /\ i = k
      BY <3>4, NamesMeet
    <3> QED BY <3>2, <3>5
  <2>6. {l \in lines : l[1] = b} = {Filled(q, i)} /\ {l \in lines : l[2] = b} = {Drained(q, i)}
    BY <2>3, <2>4, <2>5
  <2> QED BY <2>6, FS_Singleton
<1> QED BY <1>3, <1>4, <1>5, <1>6 DEF LinesRoute, asked, pairs

-----------------------------------------------------------------------------
(* Projects whose ids keep names apart keep them apart when parsed.         *)
LEMMA ApartParsed ==
  ASSUME NEW p, IsProject(p), PipesApart(p)
  PROVE  IsIr(ParseProject(p)) /\ NamesApart(ParseProject(p))
<1> DEFINE ir == ParseProject(p)
           n == Len(p.pipelines)
<1>1. /\ IsIr(ir) /\ Len(ir) = n
      /\ \A i \in 1..n : Parsed(ir[i], p, p.pipelines[i])
  BY ProjectParsed
<1> HIDE DEF ir, n
<1>2. DOMAIN ir = 1..n
  BY <1>1, SequenceIs DEF IsIr
<1>3. \A q \in Range(ir) : \E i \in 1..n : q = ir[i]
  BY <1>2 DEF Range
<1>4. \A q, r \in Range(ir) : q.id = r.id => q = r
  <2> SUFFICES ASSUME NEW i \in 1..n, NEW k \in 1..n, ir[i].id = ir[k].id PROVE i = k
    BY <1>3
  <2>1. p.pipelines[i].id = p.pipelines[k].id
    BY <1>1 DEF Parsed
  <2> QED BY <2>1 DEF PipesApart, Distinct, n
<1>5. \A q \in Range(ir) : \A e \in Range(q.edges) : e.from # "SCHED" /\ e.to # "SCHED"
  <2> SUFFICES ASSUME NEW i \in 1..n, NEW e \in Range(ir[i].edges) PROVE e.from # "SCHED" /\ e.to # "SCHED"
    BY <1>3
  <2> DEFINE j == p.pipelines[i]
  <2>1. e \in Range(j.edges) /\ IsSequence(j.edges)
    BY <1>1 DEF Parsed, IsProject, n
  <2>2. PICK k \in 1..Len(j.edges) : e = j.edges[k]
    <3> HIDE DEF j
    <3>1. DOMAIN j.edges = 1..Len(j.edges)
      BY <2>1, SequenceIs
    <3> QED BY <2>1, <3>1 DEF Range
  <2>3. "SCHED" \notin {j.edges[k].from, j.edges[k].to}
    BY DEF PipesApart, n
  <2> QED BY <2>2, <2>3
<1> QED BY <1>1, <1>4, <1>5 DEF NamesApart, ir

(* Both invariants of a compilation together.                               *)
LEMMA AcceptedKept ==
  ASSUME CompileInv, Accepted, [ConfigNext]_configVars
  PROVE  CompileInv' /\ Accepted'
<1>1. CASE UNCHANGED configVars
  BY <1>1, CompileKept DEF configVars, Accepted
<1>2. CASE ConfigNext
  BY <1>2, CompileKept, AcceptedStays DEF CompileInv
<1> QED BY <1>1, <1>2

(* The text written first is that of the project read, with the handlers    *)
(* that packed it.                                                          *)
LEMMA NewConfIs ==
  ASSUME CompileInv, Accepted, NewConf
  PROVE  /\ files["conf"].of \in DOMAIN Projects /\ files["conf"] = Made
         /\ Compiles(Source, files["conf"].with)
<1>1. files[Outputs[1]] = Made
  <2>1. 1 \in 1..call.written /\ call.pc = "write"
    BY DEF NewConf
  <2> QED BY <2>1 DEF CompileInv, Written
<1>2. files["conf"] = [of |-> call.of, with |-> handlers]
  BY <1>1 DEF Outputs, Made
<1>3. call.of \in DOMAIN Projects /\ Compiles(Projects[call.of], handlers)
  BY DEF Accepted, NewConf
<1> QED BY <1>2, <1>3 DEF Source, Made

(* In a topology just written, every edge between two nodes of a pipeline   *)
(* is a path through a buffer of its own, and the graph has no other line:  *)
(* for every project whose ids keep the joined names apart, whichever ends  *)
(* are DAIs and in whatever order the two graphs hold the lines             *)
(* (generateAlsaConf, emitInferredBuffers, emitPipelineGraph).              *)
THEOREM EdgesAlwaysRouted == ConfigSpec => []EdgesRouted
<1>1. CompileInv /\ Accepted => EdgesRouted
  <2> SUFFICES ASSUME CompileInv, Accepted, NewConf, PipesApart(Source)
               PROVE  EdgesRoutedIn(ConfOf("conf"), IrOf("conf"))
    BY DEF EdgesRouted
  <2> DEFINE with == files["conf"].with
             p == Source
             ir == ParseProject(p)
             conf == AlsaConfOf(ir, Controls(p, with))
  <2>1. ConfOf("conf") = conf /\ IrOf("conf") = ir
    BY DEF ConfOf, IrOf, GenerateAlsaConf, Source
  <2>2. IsProject(p)
    BY NewConfIs, ProjectsAreSequences DEF Source
  <2>3. IsIr(ir) /\ NamesApart(ir)
    BY <2>2, ApartParsed
  <2> HIDE DEF ir, with, p
  <2>4. IsGraph(Range(conf.routes), {w.name : w \in Range(conf.widgets)},
                {w.name : w \in {v \in Range(conf.widgets) : v.type = "buffer"}}, ir)
    BY <2>3, ConfMade
  <2> HIDE DEF conf
  <2> QED BY <2>1, <2>3, <2>4, GraphRoutes DEF EdgesRoutedIn
<1> QED BY <1>1, CompileStarts, AcceptedKept, PTL DEF ConfigSpec

-----------------------------------------------------------------------------
(* A list as the numbers of its items.                                      *)
LEMMA ItemOf ==
  ASSUME NEW s, IsSequence(s), NEW x
  PROVE  x \in Range(s) <=> \E i \in 1..Len(s) : x = s[i]
<1>1. DOMAIN s = 1..Len(s)
  BY SequenceIs
<1> QED BY <1>1 DEF Range

(* The module types of a project, and the table of one.                     *)
LEMMA TypesAre ==
  ASSUME NEW p, IsProject(p)
  PROVE  /\ IsSequence(ModuleTypes(p))
         /\ \A i \in 1..Len(ModuleTypes(p)) : IsSequence(ModuleTypes(p)[i].params)
<1> DEFINE types == ModuleTypes(p)
<1>1. IsSequence(p.imported) /\ IsSequence(p.types)
  BY DEF IsProject
<1>2. IsSequence(types) /\ Range(types) = Range(p.imported) \cup Range(p.types)
  BY <1>1, Concatenated DEF ModuleTypes
<1>3. \A t \in Range(p.imported) : IsSequence(t.params)
  BY <1>1, ItemOf DEF IsProject
<1>4. \A t \in Range(p.types) : IsSequence(t.params)
  BY <1>1, ItemOf DEF IsProject
<1> HIDE DEF types
<1>5. \A i \in 1..Len(types) : types[i] \in Range(types)
  BY <1>2, ItemOf
<1> QED BY <1>2, <1>3, <1>4, <1>5 DEF types

(* The table of a module node is that of a type of the project; any other   *)
(* node has none.                                                           *)
LEMMA ParametersAre ==
  ASSUME NEW p, IsProject(p), ProjectIsValid(p),
         NEW i \in 1..Len(p.pipelines), NEW k \in 1..Len(p.pipelines[i].nodes),
         NEW m, m = ParseNode(p, p.pipelines[i].id, p.pipelines[i].nodes[k])
  PROVE  \/ Parameters(p, m) = <<>>
         \/ \E t \in 1..Len(ModuleTypes(p)) : Parameters(p, m) = ModuleTypes(p)[t].params
<1> DEFINE n == p.pipelines[i].nodes[k]
<1>1. NodeIsValid(p, n)
  BY DEF ProjectIsValid, PipelineIsValid
<1>2. m.type = CASE n.kind = "module" -> InstanceType(p, n.ref)
                 [] n.kind = "module_inline" -> n.type [] OTHER -> Nil
  BY DEF ParseNode
<1>3. ASSUME m.type # Nil PROVE Known(ModuleTypes(p), m.type)
  <2> HIDE DEF n
  <2>1. CASE n.kind = "module"
    <3>1. m.type = InstanceType(p, n.ref) /\ Known(p.insts, n.ref)
      BY <1>1, <1>2, <2>1 DEF NodeIsValid
    <3>2. Len(p.insts) \in Nat
      BY SequenceIs DEF IsProject
    <3>3. PICK x \in 1..Len(p.insts) : First(p.insts, n.ref) = p.insts[x]
      BY <3>1, <3>2, FirstFound
    <3> QED BY <3>1, <3>3 DEF InstanceType, ProjectIsValid, InstancesAreValid
  <2>2. CASE n.kind = "module_inline"
    BY <1>1, <1>2, <2>2 DEF NodeIsValid
  <2>3. CASE n.kind \notin {"module", "module_inline"}
    BY <1>2, <1>3, <2>3
  <2> QED BY <2>1, <2>2, <2>3
<1>4. CASE m.type = Nil
  BY <1>4 DEF Parameters
<1>5. CASE m.type # Nil
  <2>1. Len(ModuleTypes(p)) \in Nat
    BY TypesAre, SequenceIs
  <2>2. PICK t \in 1..Len(ModuleTypes(p)) : First(ModuleTypes(p), m.type) = ModuleTypes(p)[t]
    BY <1>3, <1>5, <2>1, FirstFound
  <2> QED BY <1>5, <2>2 DEF Parameters
<1> QED BY <1>4, <1>5

-----------------------------------------------------------------------------
(* collectParameterControls makes a control for each parameter that may be  *)
(* set while RUNNING.                                                       *)
LEMMA NodeHasControls ==
  ASSUME NEW p, NEW h, NEW q, NEW n, IsSequence(Parameters(p, n))
  PROVE  /\ IsSequence(NodeControls(p, h, q, n))
         /\ \A c : c \in Range(NodeControls(p, h, q, n)) <=>
              \E y \in Range(Parameters(p, n)) : y.running /\ c = ControlOf(p, h, q, n, y)
<1> DEFINE params == Parameters(p, n)
           N == Len(params)
           S == {i \in 1..N : params[i].running}
           x == [i \in 1..N |-> ControlOf(p, h, q, n, params[i])]
           ss == [i \in 1..N |-> IF params[i].running THEN <<ControlOf(p, h, q, n, params[i])>> ELSE <<>>]
<1>1. N \in Nat /\ DOMAIN params = 1..N
  BY SequenceIs
<1>2. ss = [i \in 1..N |-> ss[i]] /\ \A i \in 1..N : ss[i] = IF i \in S THEN <<x[i]>> ELSE <<>>
  OBVIOUS
<1>3. /\ \A i \in 1..N : x[i] = ControlOf(p, h, q, n, params[i])
      /\ \A i \in 1..N : i \in S <=> params[i].running
  OBVIOUS
<1>4. NodeControls(p, h, q, n) = FlattenSeq(ss)
  BY DEF NodeControls
<1>5. S \cap 1..N = S /\ S \subseteq 1..N
  OBVIOUS
<1> HIDE DEF N, x, ss, S
<1>6. Keeps(FlattenSeq(ss), x, S, N)
  BY <1>1, <1>2, Chosen
<1>7. Range(FlattenSeq(ss)) = {x[i] : i \in S} /\ IsSequence(FlattenSeq(ss))
  BY <1>5, <1>6 DEF Keeps
<1> HIDE DEF params
<1>8. ASSUME NEW c, c \in Range(FlattenSeq(ss))
      PROVE  \E y \in Range(params) : y.running /\ c = ControlOf(p, h, q, n, y)
  <2>1. PICK i \in S : c = x[i]
    BY <1>7, <1>8
  <2>2. params[i] \in Range(params)
    BY <1>1, <1>5, <2>1 DEF Range
  <2> QED BY <1>3, <1>5, <2>1, <2>2
<1>9. ASSUME NEW y \in Range(params), y.running
      PROVE  ControlOf(p, h, q, n, y) \in Range(FlattenSeq(ss))
  <2>1. PICK i \in 1..N : y = params[i]
    BY <1>1 DEF Range
  <2>2. i \in S /\ x[i] = ControlOf(p, h, q, n, y)
    BY <1>3, <1>9, <2>1
  <2> QED BY <1>7, <2>2
<1> QED BY <1>4, <1>7, <1>8, <1>9 DEF params

(* The controls of a project are those of its nodes, pipeline after         *)
(* pipeline.                                                                *)
LEMMA AllControls ==
  ASSUME NEW p, NEW h, NEW ir, IsIr(ir),
         \A q \in Range(ir) : \A n \in Range(q.nodes) : IsSequence(Parameters(p, n))
  PROVE  /\ IsSequence(ControlsOf(p, h, ir))
         /\ \A c : c \in Range(ControlsOf(p, h, ir)) <=>
              \E q \in Range(ir) : \E n \in Range(q.nodes) :
                \E y \in Range(Parameters(p, n)) : y.running /\ c = ControlOf(p, h, q, n, y)
<1> DEFINE N == Len(ir)
           lists == [i \in 1..N |-> PipelineControls(p, h, ir[i])]
<1>1. N \in Nat /\ \A q : q \in Range(ir) <=> \E i \in 1..N : q = ir[i]
  BY SequenceIs, ItemOf DEF IsIr
<1>2. ControlsOf(p, h, ir) = FlattenSeq(lists)
  BY DEF ControlsOf
<1>3. \A i \in 1..N : lists[i] = PipelineControls(p, h, ir[i])
  OBVIOUS
<1>4. IsSequence(lists) /\ Len(lists) = N
  <2>1. lists = [i \in 1..N |-> lists[i]]
    OBVIOUS
  <2> HIDE DEF lists, N
  <2> QED BY <1>1, <2>1, SequenceMade
<1> HIDE DEF lists, N
<1>5. ASSUME NEW q \in Range(ir)
      PROVE  /\ IsSequence(PipelineControls(p, h, q))
             /\ \A c : c \in Range(PipelineControls(p, h, q)) <=>
                  \E n \in Range(q.nodes) : c \in Range(NodeControls(p, h, q, n))
  <2> DEFINE M == Len(q.nodes)
             ss == [i \in 1..M |-> NodeControls(p, h, q, q.nodes[i])]
  <2>1. IsSequence(q.nodes)
    BY <1>1 DEF IsIr, IsPipe, N
  <2>2. M \in Nat /\ \A n : n \in Range(q.nodes) <=> \E i \in 1..M : n = q.nodes[i]
    BY <2>1, SequenceIs, ItemOf
  <2>3. PipelineControls(p, h, q) = FlattenSeq(ss)
    BY DEF PipelineControls
  <2>4. \A i \in 1..M : ss[i] = NodeControls(p, h, q, q.nodes[i])
    OBVIOUS
  <2>5. IsSequence(ss) /\ Len(ss) = M
    <3>1. ss = [i \in 1..M |-> ss[i]]
      OBVIOUS
    <3> HIDE DEF ss, M
    <3> QED BY <2>2, <3>1, SequenceMade
  <2> HIDE DEF ss, M
  <2>6. \A i \in 1..M : IsSequence(Parameters(p, q.nodes[i]))
    BY <2>2
  <2>7. \A i \in 1..M : IsSequence(ss[i])
    BY <2>4, <2>6, NodeHasControls
  <2>8. IsSequence(FlattenSeq(ss)) /\ Range(FlattenSeq(ss)) = UNION {Range(ss[i]) : i \in 1..M}
    BY <2>5, <2>7, Flattened
  <2>9. \A c : c \in Range(FlattenSeq(ss)) <=> \E i \in 1..M : c \in Range(ss[i])
    BY <2>8
  <2> QED BY <2>2, <2>3, <2>4, <2>8, <2>9
<1>6. \A i \in 1..N : IsSequence(lists[i])
  BY <1>1, <1>3, <1>5
<1>7. IsSequence(FlattenSeq(lists)) /\ Range(FlattenSeq(lists)) = UNION {Range(lists[i]) : i \in 1..N}
  BY <1>4, <1>6, Flattened
<1>8. \A c : c \in Range(FlattenSeq(lists)) <=> \E i \in 1..N : c \in Range(lists[i])
  BY <1>7
<1>9. \A c : c \in Range(FlattenSeq(lists)) <=> \E q \in Range(ir) : c \in Range(PipelineControls(p, h, q))
  BY <1>1, <1>3, <1>8
<1>10. \A q \in Range(ir) : \A n \in Range(q.nodes) : \A c :
         c \in Range(NodeControls(p, h, q, n)) <=>
           \E y \in Range(Parameters(p, n)) : y.running /\ c = ControlOf(p, h, q, n, y)
  BY NodeHasControls
<1>11. \A q \in Range(ir) : \A c :
         c \in Range(PipelineControls(p, h, q)) <=>
           \E n \in Range(q.nodes) :
             \E y \in Range(Parameters(p, n)) : y.running /\ c = ControlOf(p, h, q, n, y)
  BY <1>5, <1>10
<1>12. \A c : c \in Range(ControlsOf(p, h, ir)) <=>
         \E q \in Range(ir) : \E n \in Range(q.nodes) :
           \E y \in Range(Parameters(p, n)) : y.running /\ c = ControlOf(p, h, q, n, y)
  BY <1>2, <1>9, <1>11
<1> QED BY <1>2, <1>7, <1>12

-----------------------------------------------------------------------------
(* Where a parameter is described: in which pipeline, node and table row.   *)
PlaceOf(q, n, y) == [pipe |-> q.id, node |-> n.id, param |-> y.id]

(* Two parameters with one place are one parameter.                         *)
PlacesApart(p, ir) ==
  \A q, r \in Range(ir) : \A n \in Range(q.nodes), m \in Range(r.nodes) :
    \A y \in Range(Parameters(p, n)), z \in Range(Parameters(p, m)) :
      PlaceOf(q, n, y) = PlaceOf(r, m, z) => q = r /\ n = m /\ y = z

(* What the private section lists of controls and of install parameters.    *)
LEMMA PrivateIs ==
  ASSUME NEW p, NEW h, NEW ir, IsIr(ir),
         \A q \in Range(ir) : \A n \in Range(q.nodes) : IsSequence(Parameters(p, n))
  PROVE  LET private == PrivatePayloadOf(p, h, ir)
         IN /\ \A at : at \in private.controls <=>
                 \E q \in Range(ir) : \E n \in Range(q.nodes) :
                   \E y \in Range(Parameters(p, n)) : y.running /\ at = PlaceOf(q, n, y)
            /\ \A i : i \in private.installs <=>
                 \E q \in Range(ir) : \E n \in Range(q.nodes) :
                   \E y \in Range(Parameters(p, n)) : ~y.running /\ i = InstallOf(h, q, n, y)
<1> DEFINE private == PrivatePayloadOf(p, h, ir)
           C == Range(ControlsOf(p, h, ir))
<1>1. \A at : at \in private.controls <=> \E c \in C : at = [pipe |-> c.pipe, node |-> c.node, param |-> c.param]
  BY DEF PrivatePayloadOf
<1>2. \A q, n, y : LET c == ControlOf(p, h, q, n, y)
                   IN [pipe |-> c.pipe, node |-> c.node, param |-> c.param] = PlaceOf(q, n, y)
  BY DEF ControlOf, PlaceOf
<1>3. \A c : c \in C <=>
        \E q \in Range(ir) : \E n \in Range(q.nodes) :
          \E y \in Range(Parameters(p, n)) : y.running /\ c = ControlOf(p, h, q, n, y)
  BY AllControls
<1>4. private.installs = UNION {UNION {NodeInstalls(h, p, q, n) : n \in Range(q.nodes)} : q \in Range(ir)}
  BY DEF PrivatePayloadOf
<1>5. \A q, n, i : i \in NodeInstalls(h, p, q, n) <=>
        \E y \in Range(Parameters(p, n)) : ~y.running /\ i = InstallOf(h, q, n, y)
  BY DEF NodeInstalls
<1> HIDE DEF private, C
<1>6. \A at : at \in private.controls <=>
        \E q \in Range(ir) : \E n \in Range(q.nodes) :
          \E y \in Range(Parameters(p, n)) : y.running /\ at = PlaceOf(q, n, y)
  <2>1. ASSUME NEW at, at \in private.controls
        PROVE  \E q \in Range(ir) : \E n \in Range(q.nodes) :
                 \E y \in Range(Parameters(p, n)) : y.running /\ at = PlaceOf(q, n, y)
    <3>1. PICK c \in C : at = [pipe |-> c.pipe, node |-> c.node, param |-> c.param]
      BY <1>1, <2>1
    <3>2. PICK q \in Range(ir) : \E n \in Range(q.nodes) :
            \E y \in Range(Parameters(p, n)) : y.running /\ c = ControlOf(p, h, q, n, y)
      BY <1>3
    <3>3. PICK n \in Range(q.nodes) :
            \E y \in Range(Parameters(p, n)) : y.running /\ c = ControlOf(p, h, q, n, y)
      BY <3>2
    <3>4. PICK y \in Range(Parameters(p, n)) : y.running /\ c = ControlOf(p, h, q, n, y)
      BY <3>3
    <3> QED BY <1>2, <3>1, <3>4
  <2>2. ASSUME NEW q \in Range(ir), NEW n \in Range(q.nodes), NEW y \in Range(Parameters(p, n)), y.running
        PROVE  PlaceOf(q, n, y) \in private.controls
    <3>1. ControlOf(p, h, q, n, y) \in C
      BY <1>3, <2>2
    <3> QED BY <1>1, <1>2, <3>1
  <2> QED BY <2>1, <2>2
<1>7. \A i : i \in private.installs <=>
        \E q \in Range(ir) : \E n \in Range(q.nodes) :
          \E y \in Range(Parameters(p, n)) : ~y.running /\ i = InstallOf(h, q, n, y)
  <2>1. \A i : i \in private.installs <=>
          \E q \in Range(ir) : \E n \in Range(q.nodes) : i \in NodeInstalls(h, p, q, n)
    BY <1>4
  <2> QED BY <1>5, <2>1
<1> QED BY <1>6, <1>7 DEF private

(* Parameters with places of their own are described once.                  *)
LEMMA DescribedOnce ==
  ASSUME NEW p, NEW h, NEW ir, IsIr(ir), PlacesApart(p, ir),
         \A q \in Range(ir) : \A n \in Range(q.nodes) : IsSequence(Parameters(p, n)),
         NEW q \in Range(ir), NEW n \in Range(q.nodes)
  PROVE  DescribesOnce(PrivatePayloadOf(p, h, ir), q, n, Parameters(p, n))
<1> DEFINE private == PrivatePayloadOf(p, h, ir)
<1>1. /\ \A at : at \in private.controls <=>
           \E r \in Range(ir) : \E m \in Range(r.nodes) :
             \E z \in Range(Parameters(p, m)) : z.running /\ at = PlaceOf(r, m, z)
      /\ \A i : i \in private.installs <=>
           \E r \in Range(ir) : \E m \in Range(r.nodes) :
             \E z \in Range(Parameters(p, m)) : ~z.running /\ i = InstallOf(h, r, m, z)
  BY PrivateIs
<1> HIDE DEF private
<1>2. \A r, m, z : LET i == InstallOf(h, r, m, z)
                   IN [pipe |-> i.pipe, node |-> i.node, param |-> i.param] = PlaceOf(r, m, z)
  BY DEF InstallOf, PlaceOf
<1> SUFFICES ASSUME NEW y \in Range(Parameters(p, n))
             PROVE  (PlaceOf(q, n, y) \in private.controls)
                      # (\E i \in private.installs :
                           [pipe |-> i.pipe, node |-> i.node, param |-> i.param] = PlaceOf(q, n, y))
  BY DEF DescribesOnce, PlaceOf, private
<1>3. ASSUME NEW r \in Range(ir), NEW m \in Range(r.nodes), NEW z \in Range(Parameters(p, m)),
             PlaceOf(r, m, z) = PlaceOf(q, n, y)
      PROVE  z = y
  BY <1>3 DEF PlacesApart
<1>4. CASE y.running
  <2>1. PlaceOf(q, n, y) \in private.controls
    BY <1>1, <1>4
  <2>2. ASSUME NEW i \in private.installs,
               [pipe |-> i.pipe, node |-> i.node, param |-> i.param] = PlaceOf(q, n, y)
        PROVE  FALSE
    <3>1. PICK r \in Range(ir) : \E m \in Range(r.nodes) :
            \E z \in Range(Parameters(p, m)) : ~z.running /\ i = InstallOf(h, r, m, z)
      BY <1>1
    <3>2. PICK m \in Range(r.nodes) :
            \E z \in Range(Parameters(p, m)) : ~z.running /\ i = InstallOf(h, r, m, z)
      BY <3>1
    <3>3. PICK z \in Range(Parameters(p, m)) : ~z.running /\ i = InstallOf(h, r, m, z)
      BY <3>2
    <3>4. PlaceOf(r, m, z) = PlaceOf(q, n, y)
      BY <1>2, <2>2, <3>3
    <3> QED BY <1>3, <1>4, <3>3, <3>4
  <2> QED BY <2>1, <2>2
<1>5. CASE ~y.running
  <2>1. PlaceOf(q, n, y) \notin private.controls
    <3> SUFFICES ASSUME PlaceOf(q, n, y) \in private.controls PROVE FALSE
      OBVIOUS
    <3>1. PICK r \in Range(ir) : \E m \in Range(r.nodes) :
            \E z \in Range(Parameters(p, m)) : z.running /\ PlaceOf(q, n, y) = PlaceOf(r, m, z)
      BY <1>1
    <3>2. PICK m \in Range(r.nodes) :
            \E z \in Range(Parameters(p, m)) : z.running /\ PlaceOf(q, n, y) = PlaceOf(r, m, z)
      BY <3>1
    <3>3. PICK z \in Range(Parameters(p, m)) : z.running /\ PlaceOf(q, n, y) = PlaceOf(r, m, z)
      BY <3>2
    <3> QED BY <1>3, <1>5, <3>3
  <2>2. InstallOf(h, q, n, y) \in private.installs
    BY <1>1, <1>5
  <2> QED BY <1>2, <2>1, <2>2
<1> QED BY <1>4, <1>5

(* A project whose ids keep pipelines, nodes and parameters apart gives     *)
(* every parameter a place of its own.                                      *)
LEMMA PlacesParsed ==
  ASSUME NEW p, IsProject(p), ProjectIsValid(p)
  PROVE  LET ir == ParseProject(p)
         IN /\ IsIr(ir)
            /\ \A q \in Range(ir) : \A n \in Range(q.nodes) : IsSequence(Parameters(p, n))
            /\ NodesApart(p) => \A q \in Range(ir) : \A n \in Range(q.nodes) : Distinct(Parameters(p, n))
            /\ NodesApart(p) => PlacesApart(p, ir)
<1> DEFINE ir == ParseProject(p)
           N == Len(p.pipelines)
<1>1. /\ IsIr(ir) /\ Len(ir) = N
      /\ \A i \in 1..N : Parsed(ir[i], p, p.pipelines[i])
  BY ProjectParsed
<1> HIDE DEF ir
<1>2. \A q : q \in Range(ir) <=> \E i \in 1..N : q = ir[i]
  BY <1>1, ItemOf DEF IsIr
<1>3. ASSUME NEW i \in 1..N, NEW n \in Range(ir[i].nodes)
      PROVE  \E k \in 1..Len(p.pipelines[i].nodes) :
               /\ n = ir[i].nodes[k]
               /\ n = ParseNode(p, p.pipelines[i].id, p.pipelines[i].nodes[k])
               /\ n.id = p.pipelines[i].nodes[k].id
  <2>1. Parsed(ir[i], p, p.pipelines[i])
    BY <1>1
  <2>2. PICK k \in 1..Len(ir[i].nodes) : n = ir[i].nodes[k]
    BY <2>1, ItemOf DEF Parsed, IsPipe
  <2> QED BY <2>1, <2>2 DEF Parsed
<1>4. ASSUME NEW i \in 1..N, NEW n \in Range(ir[i].nodes)
      PROVE  \/ Parameters(p, n) = <<>>
             \/ \E t \in 1..Len(ModuleTypes(p)) : Parameters(p, n) = ModuleTypes(p)[t].params
  <2>1. PICK k \in 1..Len(p.pipelines[i].nodes) :
          n = ParseNode(p, p.pipelines[i].id, p.pipelines[i].nodes[k])
    BY <1>3
  <2> QED BY <2>1, ParametersAre
<1>5. ASSUME NEW i \in 1..N, NEW n \in Range(ir[i].nodes)
      PROVE  IsSequence(Parameters(p, n)) /\ (NodesApart(p) => Distinct(Parameters(p, n)))
  <2>1. IsSequence(<<>>) /\ Distinct(<<>>)
    BY DEF IsSequence, Distinct
  <2>2. \A t \in 1..Len(ModuleTypes(p)) :
          /\ IsSequence(ModuleTypes(p)[t].params)
          /\ NodesApart(p) => Distinct(ModuleTypes(p)[t].params)
    BY TypesAre DEF NodesApart
  <2> QED BY <1>4, <2>1, <2>2
<1>6. ASSUME NodesApart(p), NEW i \in 1..N, NEW k \in 1..N,
             NEW n \in Range(ir[i].nodes), NEW m \in Range(ir[k].nodes),
             NEW y \in Range(Parameters(p, n)), NEW z \in Range(Parameters(p, m)),
             PlaceOf(ir[i], n, y) = PlaceOf(ir[k], m, z)
      PROVE  i = k /\ n = m /\ y = z
  <2>1. ir[i].id = ir[k].id /\ n.id = m.id /\ y.id = z.id
    BY <1>6 DEF PlaceOf
  <2>2. ir[i].id = p.pipelines[i].id /\ ir[k].id = p.pipelines[k].id
    BY <1>1 DEF Parsed
  <2>3. i = k
    BY <1>6, <2>1, <2>2 DEF NodesApart, Distinct
  <2>4. PICK a \in 1..Len(p.pipelines[i].nodes) : n = ir[i].nodes[a] /\ n.id = p.pipelines[i].nodes[a].id
    BY <1>3
  <2>5. PICK b \in 1..Len(p.pipelines[i].nodes) : m = ir[i].nodes[b] /\ m.id = p.pipelines[i].nodes[b].id
    BY <1>3, <2>3
  <2>6. a = b
    BY <1>6, <2>1, <2>4, <2>5 DEF NodesApart, Distinct
  <2>7. n = m
    BY <2>4, <2>5, <2>6
  <2> DEFINE params == Parameters(p, n)
  <2>8. IsSequence(params) /\ Distinct(params) /\ y \in Range(params) /\ z \in Range(params)
    BY <1>5, <1>6, <2>7
  <2> HIDE DEF params
  <2>9. PICK c \in 1..Len(params) : y = params[c]
    BY <2>8, ItemOf
  <2>10. PICK d \in 1..Len(params) : z = params[d]
    BY <2>8, ItemOf
  <2> QED BY <2>1, <2>3, <2>7, <2>8, <2>9, <2>10 DEF Distinct
<1>7. ASSUME NodesApart(p) PROVE PlacesApart(p, ir)
  <2> SUFFICES ASSUME NEW i \in 1..N, NEW k \in 1..N,
                      NEW n \in Range(ir[i].nodes), NEW m \in Range(ir[k].nodes),
                      NEW y \in Range(Parameters(p, n)), NEW z \in Range(Parameters(p, m)),
                      PlaceOf(ir[i], n, y) = PlaceOf(ir[k], m, z)
               PROVE  ir[i] = ir[k] /\ n = m /\ y = z
    BY <1>2 DEF PlacesApart
  <2> QED BY <1>6, <1>7
<1>8. \A q \in Range(ir) : \A n \in Range(q.nodes) : IsSequence(Parameters(p, n))
  BY <1>2, <1>5
<1>9. NodesApart(p) => \A q \in Range(ir) : \A n \in Range(q.nodes) : Distinct(Parameters(p, n))
  BY <1>2, <1>5
<1> QED BY <1>1, <1>7, <1>8, <1>9 DEF ir

(* Beside a topology just written, the private section describes every      *)
(* parameter of every module once: as a control, whether the topology shows *)
(* it or not, if it may be set while RUNNING, and else as an install        *)
(* parameter, for every project whose ids keep them apart                   *)
(* (collectParameterControls, privatePayload).                              *)
THEOREM ParamsAlwaysDescribed == ConfigSpec => []ParamsDescribed
<1>1. CompileInv /\ Accepted => ParamsDescribed
  <2> SUFFICES ASSUME CompileInv, Accepted, NewConf, NodesApart(Source)
               PROVE  ParamsDescribedIn(Source, PrivatePayload(Source, files["conf"].with))
    BY DEF ParamsDescribed
  <2> DEFINE with == files["conf"].with
             p == Source
             ir == ParseProject(p)
  <2>1. IsProject(p) /\ ProjectIsValid(p)
    BY NewConfIs, ProjectsAreSequences DEF Source, Compiles
  <2> HIDE DEF with, p
  <2>2. /\ IsIr(ir) /\ PlacesApart(p, ir)
        /\ \A q \in Range(ir) : \A n \in Range(q.nodes) : IsSequence(Parameters(p, n))
    BY <2>1, PlacesParsed DEF p
  <2>3. PrivatePayload(p, with) = PrivatePayloadOf(p, with, ir)
    BY DEF PrivatePayload
  <2> HIDE DEF ir
  <2>4. \A q \in Range(ir) : \A n \in Range(q.nodes) :
          DescribesOnce(PrivatePayloadOf(p, with, ir), q, n, Parameters(p, n))
    BY <2>2, DescribedOnce
  <2> QED BY <2>3, <2>4 DEF ParamsDescribedIn, ir, p, with
<1> QED BY <1>1, CompileStarts, AcceptedKept, PTL DEF ConfigSpec

-----------------------------------------------------------------------------
(* A list has exactly one item of S, or none.                               *)
Once(s, S) == \E i \in 1..Len(s) : s[i] \in S /\ \A k \in 1..Len(s) : s[k] \in S => k = i
Never(s, S) == \A i \in 1..Len(s) : s[i] \notin S

LEMMA OnceConcatenated ==
  ASSUME NEW a, IsSequence(a), NEW b, IsSequence(b), NEW S
  PROVE  /\ Never(a, S) /\ Never(b, S) => Never(a \o b, S)
         /\ Once(a, S) /\ Never(b, S) => Once(a \o b, S)
         /\ Never(a, S) /\ Once(b, S) => Once(a \o b, S)
<1> DEFINE c == a \o b
           m == Len(a)
           n == Len(b)
<1>1. /\ m \in Nat /\ n \in Nat /\ Len(c) = m + n
      /\ \A i \in 1..m : c[i] = a[i]
      /\ \A i \in 1..n : c[m + i] = b[i]
  <2>1. Len(a) \in Nat /\ Len(b) \in Nat
    BY SequenceIs
  <2>2. a \in Seq(Range(a) \cup Range(b)) /\ b \in Seq(Range(a) \cup Range(b))
    <3>1. a \in Seq(Range(a)) /\ b \in Seq(Range(b))
      BY DEF IsSequence
    <3> QED BY <3>1
  <2> QED BY <2>1, <2>2
<1> HIDE DEF c, m, n
<1>2. ASSUME NEW k \in 1..(m + n)
      PROVE  \/ k \in 1..m /\ c[k] = a[k]
             \/ k - m \in 1..n /\ c[k] = b[k - m] /\ k > m
  <2>1. CASE k <= m
    BY <1>1, <2>1
  <2>2. CASE k > m
    <3>1. k - m \in 1..n /\ m + (k - m) = k
      BY <1>1, <2>2
    <3>2. c[m + (k - m)] = b[k - m]
      BY <1>1, <3>1
    <3> QED BY <2>2, <3>1, <3>2
  <2> QED BY <1>1, <2>1, <2>2
<1>3. ASSUME Never(a, S), Never(b, S) PROVE Never(c, S)
  BY <1>1, <1>2, <1>3 DEF Never, m, n
<1>4. ASSUME Once(a, S), Never(b, S) PROVE Once(c, S)
  <2>1. PICK i \in 1..m : a[i] \in S /\ \A k \in 1..m : a[k] \in S => k = i
    BY <1>4 DEF Once, m
  <2>2. i \in 1..(m + n) /\ c[i] \in S
    BY <1>1, <2>1
  <2>3. ASSUME NEW k \in 1..(m + n), c[k] \in S PROVE k = i
    BY <1>2, <1>4, <2>1, <2>3 DEF Never, n
  <2> QED BY <1>1, <2>2, <2>3 DEF Once
<1>5. ASSUME Never(a, S), Once(b, S) PROVE Once(c, S)
  <2>1. PICK i \in 1..n : b[i] \in S /\ \A k \in 1..n : b[k] \in S => k = i
    BY <1>5 DEF Once, n
  <2>2. m + i \in 1..(m + n) /\ c[m + i] \in S
    BY <1>1, <2>1
  <2>3. ASSUME NEW k \in 1..(m + n), c[k] \in S PROVE k = m + i
    <3>1. k - m \in 1..n /\ b[k - m] \in S
      BY <1>2, <1>5, <2>3 DEF Never, m
    <3>2. k - m = i
      BY <2>1, <3>1
    <3> QED BY <1>1, <3>2
  <2> QED BY <1>1, <2>2, <2>3 DEF Once
<1> QED BY <1>3, <1>4, <1>5 DEF c

(* Of lists one after the other, of which one has one such item.            *)
LEMMA OnceFlattened ==
  ASSUME NEW ss, IsSequence(ss), \A i \in 1..Len(ss) : IsSequence(ss[i]),
         NEW S, NEW k \in 1..Len(ss), Once(ss[k], S),
         \A i \in 1..Len(ss) : i # k => Never(ss[i], S)
  PROVE  Once(FlattenSeq(ss), S)
<1> DEFINE N == Len(ss)
<1>1. N \in Nat /\ N # 0
  BY SequenceIs
<1>2. PICK g : InARow(g, ss, N) /\ FlattenSeq(ss) = g[N]
  BY <1>1, RowMade
<1> DEFINE held == {j \in 0..N : j = 0 \/ (/\ IsSequence(g[j])
                                           /\ j < k => Never(g[j], S)
                                           /\ j >= k => Once(g[j], S))}
<1>3. 0 \in held
  BY <1>1
<1>4. ASSUME NEW j \in 1..N, j - 1 \in held PROVE j \in held
  <2>1. IsSequence(ss[j]) /\ j \in 0..N
    BY <1>1
  <2>2. CASE j = 1
    <3>1. g[j] = ss[j]
      BY <1>2, <2>2 DEF InARow
    <3>2. j < k => Never(g[j], S)
      BY <3>1
    <3>3. j >= k => Once(g[j], S)
      <4>1. j >= k => j = k
        BY <2>2
      <4> QED BY <3>1, <4>1
    <3> QED BY <2>1, <3>1, <3>2, <3>3
  <2>3. CASE j # 1
    <3>1. g[j] = g[j - 1] \o ss[j]
      BY <1>2, <2>3 DEF InARow
    <3>2. /\ IsSequence(g[j - 1])
          /\ j - 1 < k => Never(g[j - 1], S)
          /\ j - 1 >= k => Once(g[j - 1], S)
      BY <1>4, <2>3
    <3>3. IsSequence(g[j])
      BY <2>1, <3>1, <3>2, Concatenated
    <3>4. CASE j < k
      <4>1. Never(g[j - 1], S) /\ Never(ss[j], S)
        BY <3>2, <3>4
      <4>2. Never(g[j], S)
        BY <2>1, <3>1, <3>2, <4>1, OnceConcatenated
      <4> QED BY <2>1, <3>3, <3>4, <4>2
    <3>5. CASE j = k
      <4>1. Never(g[j - 1], S) /\ Once(ss[j], S)
        BY <3>2, <3>5
      <4>2. Once(g[j], S)
        BY <2>1, <3>1, <3>2, <4>1, OnceConcatenated
      <4> QED BY <2>1, <3>3, <3>5, <4>2
    <3>6. CASE j > k
      <4>1. Once(g[j - 1], S) /\ Never(ss[j], S)
        BY <3>2, <3>6
      <4>2. Once(g[j], S)
        BY <2>1, <3>1, <3>2, <4>1, OnceConcatenated
      <4> QED BY <2>1, <3>3, <3>6, <4>2
    <3> QED BY <3>4, <3>5, <3>6
  <2> QED BY <2>2, <2>3
<1>5. N \in held
  <2> HIDE DEF held, N
  <2>1. \A j \in 0..N : j \in held
    BY <1>1, <1>3, <1>4, UpTo
  <2>2. N \in 0..N
    BY <1>1
  <2> QED BY <2>1, <2>2
<1> QED BY <1>1, <1>2, <1>5

(* A list of one item of S has one such item, and the empty list none.      *)
LEMMA OnceOfOne ==
  ASSUME NEW x, NEW S
  PROVE  /\ IsSequence(<<x>>) /\ (x \in S => Once(<<x>>, S)) /\ (x \notin S => Never(<<x>>, S))
         /\ IsSequence(<<>>) /\ Never(<<>>, S)
<1>1. IsSequence(<<x>>) /\ IsSequence(<<>>)
  BY DEF IsSequence, Range
<1>2. Len(<<x>>) = 1 /\ <<x>>[1] = x /\ Len(<<>>) = 0 /\ 1..1 = {1}
  OBVIOUS
<1> QED BY <1>1, <1>2 DEF Once, Never

(* If one item is chosen of a list, what is chosen is that item.            *)
LEMMA ChosenOnce ==
  ASSUME NEW n \in Nat, NEW x, NEW ss, ss = [i \in 1..n |-> ss[i]], NEW k \in 1..n,
         \A i \in 1..n : ss[i] = IF i = k THEN <<x>> ELSE <<>>
  PROVE  FlattenSeq(ss) = <<x>>
<1> DEFINE f == FlattenSeq(ss)
           y == [i \in 1..n |-> x]
<1>1. IsSequence(ss) /\ Len(ss) = n
  BY SequenceMade
<1>2. \A i \in 1..n : IsSequence(ss[i])
  BY OnceOfOne
<1>3. Once(f, {x})
  <2>1. Once(ss[k], {x})
    BY OnceOfOne
  <2>2. \A i \in 1..n : i # k => Never(ss[i], {x})
    BY OnceOfOne
  <2> QED BY <1>1, <1>2, <2>1, <2>2, OnceFlattened
<1>4. Keeps(f, y, {k}, n)
  <2>1. \A i \in 1..n : ss[i] = IF i \in {k} THEN <<y[i]>> ELSE <<>>
    OBVIOUS
  <2> HIDE DEF y
  <2> QED BY <2>1, Chosen
<1>5. IsSequence(f) /\ Range(f) = {x}
  <2>1. {y[i] : i \in {k} \cap 1..n} = {x}
    OBVIOUS
  <2> QED BY <1>4, <2>1 DEF Keeps
<1> HIDE DEF f
<1>6. Len(f) \in Nat /\ f = [i \in 1..Len(f) |-> f[i]] /\ DOMAIN f = 1..Len(f)
  BY <1>5, SequenceIs
<1>7. \A i \in 1..Len(f) : f[i] = x
  BY <1>5, ItemOf
<1>8. Len(f) = 1
  <2>1. PICK i \in 1..Len(f) : \A j \in 1..Len(f) : f[j] \in {x} => j = i
    BY <1>3 DEF Once
  <2>2. 1 \in 1..Len(f) /\ Len(f) \in 1..Len(f)
    BY <1>6
  <2> QED BY <1>7, <2>1, <2>2
<1>9. f = [i \in 1..1 |-> x]
  BY <1>6, <1>7, <1>8
<1> QED BY <1>9 DEF f

-----------------------------------------------------------------------------
(* The controls of a project that node n of pipeline q shows.               *)
ShownOf(controls, q, n) == {c \in Range(controls) : IsShownBy(c, q, n)}

(* What the control of a parameter says of itself.                          *)
LEMMA ControlIs ==
  ASSUME NEW p, NEW h, NEW q, NEW n, NEW y
  PROVE  LET c == ControlOf(p, h, q, n, y)
         IN /\ c.pipe = q.id /\ c.node = n.id
            /\ c.emit = (~Aggregates(n.type) \/ y.id = Parameters(p, n)[1].id)
BY DEF ControlOf

(* A module of a SOF basic type shows one control, that of its first        *)
(* parameter.                                                               *)
LEMMA NodeShowsOnce ==
  ASSUME NEW p, NEW h, NEW q, NEW n, IsSequence(Parameters(p, n)), Distinct(Parameters(p, n)),
         Aggregates(n.type), 1 \in 1..Len(Parameters(p, n)), Parameters(p, n)[1].running,
         NEW S, \A c \in S : IsShownBy(c, q, n),
         ControlOf(p, h, q, n, Parameters(p, n)[1]) \in S
  PROVE  Once(NodeControls(p, h, q, n), S)
<1> DEFINE params == Parameters(p, n)
           N == Len(params)
           ss == [i \in 1..N |-> IF params[i].running THEN <<ControlOf(p, h, q, n, params[i])>> ELSE <<>>]
<1>1. N \in Nat
  BY SequenceIs
<1>2. NodeControls(p, h, q, n) = FlattenSeq(ss)
  BY DEF NodeControls
<1>3. \A i \in 1..N : ss[i] = IF params[i].running THEN <<ControlOf(p, h, q, n, params[i])>> ELSE <<>>
  OBVIOUS
<1>4. IsSequence(ss) /\ Len(ss) = N
  <2>1. ss = [i \in 1..N |-> ss[i]]
    OBVIOUS
  <2> HIDE DEF ss, N
  <2> QED BY <1>1, <2>1, SequenceMade
<1>5. \A i \in 1..N : i # 1 => ControlOf(p, h, q, n, params[i]) \notin S
  <2> SUFFICES ASSUME NEW i \in 1..N, i # 1, ControlOf(p, h, q, n, params[i]) \in S PROVE FALSE
    OBVIOUS
  <2>1. params[i].id = params[1].id
    BY ControlIs DEF IsShownBy
  <2> QED BY <2>1 DEF Distinct
<1>6. ss[1] = <<ControlOf(p, h, q, n, params[1])>>
  BY <1>3
<1> HIDE DEF ss
<1>7. Once(ss[1], S)
  BY <1>6, OnceOfOne
<1>8. ASSUME NEW i \in 1..N PROVE IsSequence(ss[i]) /\ (i # 1 => Never(ss[i], S))
  <2>1. ss[i] = <<ControlOf(p, h, q, n, params[i])>> \/ ss[i] = <<>>
    BY <1>3
  <2> QED BY <1>5, <2>1, OnceOfOne
<1> QED BY <1>2, <1>4, <1>7, <1>8, OnceFlattened

(* Where pipelines and nodes have ids of their own, no other node of the    *)
(* project has a control of this one.                                       *)
LEMMA ProjectShowsOnce ==
  ASSUME NEW p, NEW h, NEW ir, IsIr(ir),
         \A q \in Range(ir) : \A n \in Range(q.nodes) : IsSequence(Parameters(p, n)),
         NEW a \in 1..Len(ir), NEW b \in 1..Len(ir[a].nodes),
         \A i \in 1..Len(ir) : ir[i].id = ir[a].id => i = a,
         \A i \in 1..Len(ir[a].nodes) : ir[a].nodes[i].id = ir[a].nodes[b].id => i = b,
         NEW S, \A c \in S : IsShownBy(c, ir[a], ir[a].nodes[b]),
         Once(NodeControls(p, h, ir[a], ir[a].nodes[b]), S)
  PROVE  Once(ControlsOf(p, h, ir), S)
<1> DEFINE N == Len(ir)
           lists == [i \in 1..N |-> PipelineControls(p, h, ir[i])]
<1>1. N \in Nat /\ \A i \in 1..N : ir[i] \in Range(ir) /\ IsPipe(ir[i])
  BY SequenceIs, ItemOf DEF IsIr
<1>2. ControlsOf(p, h, ir) = FlattenSeq(lists)
  BY DEF ControlsOf
<1>3. \A i \in 1..N : lists[i] = PipelineControls(p, h, ir[i])
  OBVIOUS
<1>4. IsSequence(lists) /\ Len(lists) = N
  <2>1. lists = [i \in 1..N |-> lists[i]]
    OBVIOUS
  <2> HIDE DEF lists, N
  <2> QED BY <1>1, <2>1, SequenceMade
<1> HIDE DEF lists
<1>5. ASSUME NEW i \in 1..N
      PROVE  /\ IsSequence(PipelineControls(p, h, ir[i]))
             /\ i # a => Never(PipelineControls(p, h, ir[i]), S)
             /\ i = a => Once(PipelineControls(p, h, ir[i]), S)
  <2> DEFINE q == ir[i]
             M == Len(q.nodes)
             ss == [k \in 1..M |-> NodeControls(p, h, q, q.nodes[k])]
  <2>1. IsSequence(q.nodes)
    BY <1>1 DEF IsPipe
  <2>2. M \in Nat /\ \A k \in 1..M : q.nodes[k] \in Range(q.nodes)
    BY <2>1, SequenceIs, ItemOf
  <2>3. PipelineControls(p, h, q) = FlattenSeq(ss)
    BY DEF PipelineControls
  <2>4. \A k \in 1..M : ss[k] = NodeControls(p, h, q, q.nodes[k])
    OBVIOUS
  <2>5. IsSequence(ss) /\ Len(ss) = M
    <3>1. ss = [k \in 1..M |-> ss[k]]
      OBVIOUS
    <3> HIDE DEF ss, M
    <3> QED BY <2>2, <3>1, SequenceMade
  <2> HIDE DEF ss
  <2>6. \A k \in 1..M : IsSequence(Parameters(p, q.nodes[k]))
    BY <1>1, <2>2
  <2>7. ASSUME NEW k \in 1..M
        PROVE  /\ IsSequence(ss[k])
               /\ \A c \in Range(ss[k]) : c.pipe = q.id /\ c.node = q.nodes[k].id
    <3>1. /\ IsSequence(ss[k])
          /\ \A c : c \in Range(ss[k]) =>
               \E y \in Range(Parameters(p, q.nodes[k])) : c = ControlOf(p, h, q, q.nodes[k], y)
      BY <2>4, <2>6, NodeHasControls
    <3> QED BY <3>1, ControlIs
  <2>8. ASSUME NEW k \in 1..M, i # a \/ k # b PROVE Never(ss[k], S)
    <3> SUFFICES ASSUME NEW l \in 1..Len(ss[k]), ss[k][l] \in S PROVE FALSE
      BY DEF Never
    <3>1. ss[k][l] \in Range(ss[k])
      BY <2>7, ItemOf
    <3>2. q.id = ir[a].id /\ q.nodes[k].id = ir[a].nodes[b].id
      BY <2>7, <3>1 DEF IsShownBy
    <3>3. i = a
      BY <3>2
    <3> QED BY <2>8, <3>2, <3>3
  <2>9. IsSequence(FlattenSeq(ss)) /\ Range(FlattenSeq(ss)) = UNION {Range(ss[k]) : k \in 1..M}
    BY <2>5, <2>7, Flattened
  <2>10. ASSUME i # a PROVE Never(FlattenSeq(ss), S)
    <3> SUFFICES ASSUME NEW c \in Range(FlattenSeq(ss)), c \in S PROVE FALSE
      BY <2>9, ItemOf DEF Never
    <3>1. PICK k \in 1..M : c \in Range(ss[k])
      BY <2>9
    <3>2. PICK l \in 1..Len(ss[k]) : c = ss[k][l]
      BY <2>7, <3>1, ItemOf
    <3> QED BY <2>8, <2>10, <3>2 DEF Never
  <2>11. ASSUME i = a PROVE Once(FlattenSeq(ss), S)
    <3>1. Once(ss[b], S) /\ b \in 1..M
      BY <2>4, <2>11
    <3> QED BY <2>5, <2>7, <2>8, <3>1, OnceFlattened
  <2> QED BY <2>3, <2>9, <2>10, <2>11
<1>6. \A i \in 1..N : IsSequence(lists[i])
  BY <1>3, <1>5
<1>7. Once(lists[a], S) /\ \A i \in 1..N : i # a => Never(lists[i], S)
  BY <1>3, <1>5
<1> QED BY <1>2, <1>4, <1>6, <1>7, OnceFlattened

(* A widget lists the one control its node shows.                           *)
LEMMA WidgetLists ==
  ASSUME NEW controls, IsSequence(controls), NEW q, NEW n, NEW c,
         IsShownBy(c, q, n), c \in Range(controls), Once(controls, ShownOf(controls, q, n))
  PROVE  ControlsForNode(controls, q, n) = <<ShownControl(c)>>
<1> DEFINE N == Len(controls)
           ss == [i \in 1..N |-> IF IsShownBy(controls[i], q, n) THEN <<ShownControl(controls[i])>> ELSE <<>>]
<1>1. N \in Nat /\ \A i \in 1..N : controls[i] \in Range(controls)
  BY SequenceIs, ItemOf
<1>2. PICK k \in 1..N : \A i \in 1..N : controls[i] \in ShownOf(controls, q, n) => i = k
  BY DEF Once
<1>3. \A i \in 1..N : IsShownBy(controls[i], q, n) => i = k
  BY <1>1, <1>2 DEF ShownOf
<1>4. controls[k] = c
  <2>1. PICK i \in 1..N : c = controls[i]
    BY ItemOf
  <2> QED BY <1>3, <2>1
<1>5. \A i \in 1..N : ss[i] = IF i = k THEN <<ShownControl(c)>> ELSE <<>>
  BY <1>3, <1>4
<1>6. ss = [i \in 1..N |-> ss[i]]
  OBVIOUS
<1>7. ControlsForNode(controls, q, n) = FlattenSeq(ss)
  BY DEF ControlsForNode
<1> DEFINE x == ShownControl(c)
<1> HIDE DEF ss, N, x
<1>8. \A i \in 1..N : ss[i] = IF i = k THEN <<x>> ELSE <<>>
  BY <1>5 DEF x
<1>9. FlattenSeq(ss) = <<x>>
  BY <1>1, <1>6, <1>8, ChosenOnce
<1> QED BY <1>7, <1>9 DEF x

-----------------------------------------------------------------------------
(* What the SOF handler of its type packs for a module, all its defaults    *)
(* together.                                                                *)
LEMMA AggregateIs ==
  ASSUME NEW p, NEW h, NEW n, IsSequence(Parameters(p, n)), Distinct(Parameters(p, n)),
         FindHandler(h, n.type).type = n.type, FindHandler(h, n.type).kind = "sof",
         AggregateBlob(p, h, n) # Nil,
         NEW y \in Range(Parameters(p, n)),
         y.id \in PackedFields(n.type, IdsOf(Parameters(p, n)))
  PROVE  AggregateBlob(p, h, n).data[y.id] = Scalar(y.default)
<1> DEFINE params == Parameters(p, n)
           D == Defaults(params)
           ids == IdsOf(params)
<1>1. Len(params) \in Nat /\ \A x : x \in Range(params) <=> \E i \in 1..Len(params) : x = params[i]
  BY SequenceIs, ItemOf
<1>2. DOMAIN D = ids
  <2>1. DOMAIN D = {params[i].id : i \in 1..Len(params)}
    BY DEF Defaults
  <2> HIDE DEF D, params
  <2> QED BY <1>1, <2>1 DEF IdsOf
<1>3. y.id \in ids /\ D[y.id] = y.default
  <2>1. PICK k \in 1..Len(params) : y = params[k]
    BY <1>1
  <2>2. Known(params, y.id)
    BY <2>1 DEF Known
  <2>3. PICK i \in 1..Len(params) : First(params, y.id) = params[i] /\ params[i].id = y.id
    BY <1>1, <2>2, FirstFound
  <2>4. First(params, y.id) = y
    BY <2>1, <2>3 DEF Distinct
  <2>5. D[y.id] = First(params, y.id).default
    BY <2>1 DEF Defaults
  <2>6. y.id \in ids
    BY DEF IdsOf
  <2> QED BY <2>4, <2>5, <2>6
<1>4. AggregateBlob(p, h, n) = Pack(FindHandler(h, n.type), "install", "bytes", "config", D)
  BY DEF AggregateBlob
<1> HIDE DEF D, params, ids
<1>5. AggregateBlob(p, h, n) = PackSof(n.type, "config", D)
  BY <1>4 DEF Pack
<1>6. PackSof(n.type, "config", D) # Nil => PackSof(n.type, "config", D).data = SofConfig(n.type, D)
  BY DEF PackSof, Blob
<1>7. SofConfig(n.type, D)[y.id] = Scalar(D[y.id])
  BY <1>2, <1>3 DEF SofConfig, ids, params
<1> QED BY <1>3, <1>5, <1>6, <1>7

(* The control of a parameter of it is shown in the SOF format.             *)
LEMMA FormatIs ==
  ASSUME NEW p, NEW h, NEW q, NEW n, NEW y, y.running, FindHandler(h, n.type).kind = "sof",
         ParameterBlob(h, n, y, ParamPhase(y)) # Nil
  PROVE  ControlOf(p, h, q, n, y).format = "sof-ipc3-bytes-v1"
<1> DEFINE handler == FindHandler(h, n.type)
           values == [k \in {y.id} |-> y.default]
           blob == ParameterBlob(h, n, y, "runtime")
<1>1. blob = Pack(handler, "runtime", y.vtype, y.id, values) /\ blob # Nil
  BY DEF ParameterBlob, ParamPhase
<1> HIDE DEF handler, values
<1>2. Pack(handler, "runtime", y.vtype, y.id, values) = PackSof(handler.type, y.id, values)
  BY DEF Pack, handler
<1>3. PackSof(handler.type, y.id, values) # Nil =>
        PackSof(handler.type, y.id, values).format = "sof-ipc3-bytes-v1"
  BY DEF PackSof, Blob
<1>4. blob.format = "sof-ipc3-bytes-v1"
  BY <1>1, <1>2, <1>3
<1>5. ControlOf(p, h, q, n, y).format = blob.format
  BY DEF ControlOf
<1> QED BY <1>4, <1>5

(* A module that shows all its defaults does so.                            *)
LEMMA ModuleCarries ==
  ASSUME NEW p, NEW h, NEW ir, IsIr(ir),
         \A q \in Range(ir) : \A n \in Range(q.nodes) : IsSequence(Parameters(p, n)),
         NEW a \in 1..Len(ir), NEW b \in 1..Len(ir[a].nodes),
         \A i \in 1..Len(ir) : ir[i].id = ir[a].id => i = a,
         \A i \in 1..Len(ir[a].nodes) : ir[a].nodes[i].id = ir[a].nodes[b].id => i = b,
         NEW n, n = ir[a].nodes[b], Distinct(Parameters(p, n)),
         AggregateBlob(p, h, n) # Nil,
         \A y \in Range(Parameters(p, n)) : ParameterBlob(h, n, y, ParamPhase(y)) # Nil,
         ShowsAll(h, n, Parameters(p, n))
  PROVE  Carries(AlsaConfOf(ir, ControlsOf(p, h, ir)), ir[a], n, Parameters(p, n))
<1> DEFINE q == ir[a]
           params == Parameters(p, n)
           controls == ControlsOf(p, h, ir)
           conf == AlsaConfOf(ir, controls)
           c == ControlOf(p, h, q, n, params[1])
           w == SofWidget(controls, q, n)
           S == ShownOf(controls, q, n)
<1>1. q \in Range(ir) /\ IsPipe(q) /\ n \in Range(q.nodes)
  BY ItemOf DEF IsIr, IsPipe
<1>2. IsSequence(params) /\ 1 \in 1..Len(params) /\ params[1] \in Range(params)
  <2>1. IsSequence(params)
    BY <1>1
  <2>2. params # <<>>
    BY DEF ShowsAll
  <2> HIDE DEF params
  <2>3. Len(params) \in Nat /\ Len(params) # 0
    BY <2>1, <2>2 DEF IsSequence
  <2> QED BY <2>1, <2>3, ItemOf
<1>3. Aggregates(n.type) /\ params[1].running
  BY DEF ShowsAll, Aggregates
<1>4. IsSequence(controls) /\ c \in Range(controls)
  <2>1. /\ IsSequence(controls)
        /\ \A d : d \in Range(controls) <=>
             \E r \in Range(ir) : \E m \in Range(r.nodes) :
               \E y \in Range(Parameters(p, m)) : y.running /\ d = ControlOf(p, h, r, m, y)
    BY AllControls
  <2>2. \E y \in Range(Parameters(p, n)) : y.running /\ c = ControlOf(p, h, q, n, y)
    BY <1>2, <1>3
  <2> HIDE DEF controls, c, q
  <2> QED BY <1>1, <2>1, <2>2
<1>5. IsShownBy(c, q, n)
  BY DEF IsShownBy, ControlOf
<1>6. c \in S /\ \A d \in S : IsShownBy(d, q, n)
  BY <1>4, <1>5 DEF ShownOf
<1> HIDE DEF q, params, c, S
<1>7. Once(NodeControls(p, h, q, n), S)
  BY <1>2, <1>3, <1>6, NodeShowsOnce DEF params, c
<1>8. Once(controls, S)
  BY <1>6, <1>7, ProjectShowsOnce DEF q
<1> HIDE DEF controls
<1>9. ControlsForNode(controls, q, n) = <<ShownControl(c)>>
  BY <1>4, <1>5, <1>8, WidgetLists DEF S
<1>10. w.name = <<q.id, n.id>> /\ w.controls = <<ShownControl(c)>>
  <2>1. w.name = n.widget /\ w.controls = ControlsForNode(controls, q, n)
    BY WidgetIs
  <2>2. n.widget = <<q.id, n.id>>
    BY <1>1 DEF IsPipe, q
  <2> QED BY <1>9, <2>1, <2>2
<1>11. w \in Range(conf.widgets)
  BY <1>1, ConfMade DEF q
<1>12. c.format = "sof-ipc3-bytes-v1" /\ ControlKind(c) = "bytes"
  <2>1. c.format = "sof-ipc3-bytes-v1"
    BY <1>2, <1>3, FormatIs DEF c, ShowsAll, params
  <2> QED BY <2>1 DEF ControlKind
<1>13. c.data = AggregateBlob(p, h, n).data
  BY <1>3 DEF ControlOf, c, params
<1>14. conf.controls = ControlSections(controls)
  BY DEF AlsaConfOf
<1> HIDE DEF conf, w
<1>15. [name |-> c.name, kind |-> "bytes"] \in conf.controls
  BY <1>4, <1>5, <1>12, <1>14 DEF ControlSections, IsShownBy
<1>16. /\ Len(w.controls) = 1 /\ w.controls[1].name = c.name
       /\ w.controls[1].data = AggregateBlob(p, h, n).data
  BY <1>10, <1>13 DEF ShownControl
<1>17. \A y \in Range(params) :
         y.id \in PackedFields(n.type, IdsOf(params)) =>
           AggregateBlob(p, h, n).data[y.id] = Scalar(y.default)
  <2>1. /\ FindHandler(h, n.type).type = n.type /\ FindHandler(h, n.type).kind = "sof"
        /\ IsSequence(Parameters(p, n)) /\ AggregateBlob(p, h, n) # Nil
    BY <1>2 DEF ShowsAll, params
  <2> QED BY <2>1, AggregateIs DEF params
<1>18. Carries(conf, q, n, params)
  BY <1>10, <1>11, <1>15, <1>16, <1>17 DEF Carries
<1> QED BY <1>18 DEF conf, controls, q, params

(* In a topology just written, a module of a SOF basic type shows one       *)
(* control, which holds the defaults of all the parameters its handler      *)
(* packs: for every project whose ids keep pipelines, nodes and parameters  *)
(* apart, whatever other handlers are loaded (packAggregateTopologyDefault, *)
(* controlsForNode, packSofConfig).                                         *)
THEOREM DefaultsAlwaysCarried == ConfigSpec => []DefaultsCarried
<1>1. CompileInv /\ Accepted => DefaultsCarried
  <2> SUFFICES ASSUME CompileInv, Accepted, NewConf, NodesApart(Source)
               PROVE  DefaultsCarriedIn(Source, files["conf"].with, ConfOf("conf"))
    BY DEF DefaultsCarried
  <2> DEFINE with == files["conf"].with
             p == Source
             ir == ParseProject(p)
             conf == AlsaConfOf(ir, ControlsOf(p, with, ir))
             N == Len(p.pipelines)
  <2>1. IsProject(p) /\ ProjectIsValid(p) /\ DefaultsPack(p, with)
    BY NewConfIs, ProjectsAreSequences DEF Source, Compiles, TablesAreValid
  <2>2. ConfOf("conf") = conf
    BY DEF ConfOf, GenerateAlsaConf, Source, Controls
  <2>3. NodesApart(p)
    OBVIOUS
  <2> HIDE DEF with, p
  <2>4. /\ IsIr(ir) /\ Len(ir) = N
        /\ \A i \in 1..N : Parsed(ir[i], p, p.pipelines[i])
        /\ \A q \in Range(ir) : \A n \in Range(q.nodes) : IsSequence(Parameters(p, n))
    BY <2>1, PlacesParsed, ProjectParsed
  <2>5. \A q \in Range(ir) : \A n \in Range(q.nodes) : Distinct(Parameters(p, n))
    BY <2>1, <2>3, PlacesParsed
  <2>6. \A q \in Range(ir) : \A n \in Range(q.nodes) : n.type # Nil =>
          /\ Aggregates(n.type) => AggregateBlob(p, with, n) # Nil
          /\ \A y \in Range(Parameters(p, n)) : ParameterBlob(with, n, y, ParamPhase(y)) # Nil
    BY <2>1 DEF DefaultsPack
  <2> HIDE DEF ir
  <2>7. \A i, k \in 1..N : ir[i].id = ir[k].id => i = k
    BY <2>3, <2>4 DEF NodesApart, Distinct, Parsed, N
  <2>8. \A i \in 1..N : \A k, l \in 1..Len(ir[i].nodes) : ir[i].nodes[k].id = ir[i].nodes[l].id => k = l
    BY <2>3, <2>4 DEF NodesApart, Distinct, Parsed, N
  <2>9. ASSUME NEW a \in 1..N, NEW b \in 1..Len(ir[a].nodes), NEW n, n = ir[a].nodes[b],
               n.type # Nil, ShowsAll(with, n, Parameters(p, n))
        PROVE  Carries(conf, ir[a], n, Parameters(p, n))
    <3>1. ir[a] \in Range(ir) /\ n \in Range(ir[a].nodes)
      BY <2>4, <2>9, ItemOf DEF IsIr, IsPipe
    <3>2. Aggregates(n.type)
      BY <2>9 DEF ShowsAll, Aggregates
    <3>3. /\ AggregateBlob(p, with, n) # Nil
          /\ \A y \in Range(Parameters(p, n)) : ParameterBlob(with, n, y, ParamPhase(y)) # Nil
      BY <2>6, <2>9, <3>1, <3>2
    <3>4. Distinct(Parameters(p, n))
      BY <2>5, <3>1
    <3>5. \A i \in 1..Len(ir) : ir[i].id = ir[a].id => i = a
      BY <2>4, <2>7
    <3>6. \A i \in 1..Len(ir[a].nodes) : ir[a].nodes[i].id = ir[a].nodes[b].id => i = b
      BY <2>8
    <3>7. a \in 1..Len(ir)
      BY <2>4
    <3> HIDE DEF N, conf
    <3> QED BY <2>4, <2>9, <3>3, <3>4, <3>5, <3>6, <3>7, ModuleCarries DEF conf
  <2> HIDE DEF conf
  <2>10. \A q \in Range(ir) : \A n \in Range(q.nodes) :
           ShowsAll(with, n, Parameters(p, n)) => Carries(conf, q, n, Parameters(p, n))
    <3> SUFFICES ASSUME NEW q \in Range(ir), NEW n \in Range(q.nodes), ShowsAll(with, n, Parameters(p, n))
                 PROVE  Carries(conf, q, n, Parameters(p, n))
      OBVIOUS
    <3>1. PICK a \in 1..N : q = ir[a]
      BY <2>4, ItemOf DEF IsIr
    <3>2. PICK b \in 1..Len(ir[a].nodes) : n = ir[a].nodes[b]
      BY <2>4, <3>1, ItemOf DEF IsIr, IsPipe
    <3>3. n.type # Nil
      BY DEF ShowsAll, Parameters
    <3> QED BY <2>9, <3>1, <3>2, <3>3
  <2> QED BY <2>2, <2>10 DEF DefaultsCarriedIn, ir, p, with
<1> QED BY <1>1, CompileStarts, AcceptedKept, PTL DEF ConfigSpec

(* In a topology just written and its private section, the project can be   *)
(* found again: its edges as paths, its parameters described once, and the  *)
(* defaults SOF starts from (buildConfigProjectIr, generateAlsaConf,        *)
(* privatePayload).                                                         *)
THEOREM ProjectAlwaysInTopology == ConfigSpec => []ProjectInTopology
<1>1. EdgesRouted /\ ParamsDescribed /\ DefaultsCarried => ProjectInTopology
  BY DEF ProjectInTopology
<1> QED BY <1>1, EdgesAlwaysRouted, ParamsAlwaysDescribed, DefaultsAlwaysCarried, PTL

-----------------------------------------------------------------------------
(***************************************************************************)
(* The topology of the audio controller.                                   *)
(*                                                                         *)
(* The argument: the heap of a call is Sound when every block in use has   *)
(* one owner, the topology, the controller or the step under way, or is a  *)
(* lost list of tokens.  Each step of the parser and of the loader takes a *)
(* sound heap to a sound heap, whether its allocation fails or not, and    *)
(* says which blocks it gave to whom; the loops of the code are unfolded   *)
(* step by step (UpTo), and the calls are made of the loops.               *)
(***************************************************************************)

(* What the end of a list holds after an append (the item the parser        *)
(* writes behind the last one).                                             *)
LEMMA AppendIs ==
  ASSUME NEW s, IsSequence(s), NEW x
  PROVE  /\ IsSequence(Append(s, x)) /\ Len(Append(s, x)) = Len(s) + 1
         /\ DOMAIN Append(s, x) = 1..(Len(s) + 1)
         /\ \A i \in 1..Len(s) : Append(s, x)[i] = s[i]
         /\ Append(s, x)[Len(s) + 1] = x
<1> DEFINE t == Append(s, x)
<1>1. s \in Seq(Range(s) \cup {x}) /\ Len(s) \in Nat
  <2>1. Len(s) \in Nat /\ DOMAIN s = 1..Len(s) /\ s = [i \in 1..Len(s) |-> s[i]]
    BY SequenceIs
  <2>2. s \in [1..Len(s) -> Range(s) \cup {x}]
    BY <2>1 DEF Range
  <2> QED BY <2>1, <2>2
<1>2. /\ t \in Seq(Range(s) \cup {x}) /\ Len(t) = Len(s) + 1
      /\ \A i \in 1..Len(s) : t[i] = s[i]
      /\ t[Len(s) + 1] = x
  BY <1>1
<1> HIDE DEF t
<1>3. t = [i \in 1..(Len(s) + 1) |-> t[i]]
  <2>1. t \in [1..Len(t) -> Range(s) \cup {x}]
    BY <1>2
  <2> QED BY <1>2, <2>1
<1>4. IsSequence(t) /\ DOMAIN t = 1..(Len(s) + 1)
  BY <1>1, <1>3, SequenceMade
<1> QED BY <1>2, <1>4 DEF t

(* The list before the first append.                                        *)
LEMMA EmptyIs == IsSequence(<<>>) /\ Len(<<>>) = 0 /\ DOMAIN <<>> = {}
BY DEF IsSequence

(* The memory of a call in progress.                                        *)
IsMemory(m) == DOMAIN m = {"live", "broken", "left", "got"}

(* The heap during a call: the topology, or whoever is at work, owns some   *)
(* blocks, the controller its own, and every other block in use is a list   *)
(* of tokens.                                                               *)
Sound(m, owned, controller) ==
  /\ ~m.broken
  /\ DOMAIN m.live \subseteq Nat \ {0} /\ IsFiniteSet(DOMAIN m.live)
  /\ owned \subseteq DOMAIN m.live
  /\ controller \in DOMAIN m.live \ owned
  /\ \A b \in DOMAIN m.live : m.live[b] = "controller" <=> b = controller
  /\ \A b \in DOMAIN m.live \ (owned \cup {controller}) : m.live[b] = "tokens"

(* The driver's allocator never hands out a block that is in use.           *)
LEMMA FreshIsFree ==
  ASSUME NEW m, DOMAIN m.live \subseteq Nat \ {0}, IsFiniteSet(DOMAIN m.live)
  PROVE  FreshBlock(m) \in Nat \ {0} /\ FreshBlock(m) \notin DOMAIN m.live
<1> DEFINE L == DOMAIN m.live
           n == Cardinality(L)
<1>1. n \in Nat
  BY FS_CardinalityType
<1>2. Cardinality(1..(n + 1)) = n + 1
  BY <1>1, FS_Interval
<1>3. ~(1..(n + 1) \subseteq L)
  <2> SUFFICES ASSUME 1..(n + 1) \subseteq L PROVE FALSE
    OBVIOUS
  <2>1. Cardinality(1..(n + 1)) <= Cardinality(L)
    BY FS_Subset
  <2> QED BY <1>1, <1>2, <2>1
<1>4. PICK b \in 1..(n + 1) : b \notin L
  BY <1>3
<1>5. FreshBlock(m) \in 1..(n + 1) /\ FreshBlock(m) \notin L
  BY <1>4 DEF FreshBlock
<1> QED BY <1>1, <1>5

(* What an allocation does: it fails and changes nothing, or adds a         *)
(* block.                                                                   *)
LEMMA AllocIs ==
  ASSUME NEW m, IsMemory(m), NEW what
  PROVE  LET a == Alloc(m, what)
             b == FreshBlock(m)
         IN /\ IsMemory(a) /\ a.broken = m.broken
            /\ \/ a.got = 0 /\ a.live = m.live
               \/ /\ a.got = b
                  /\ a.live = [x \in DOMAIN m.live \cup {b} |-> IF x \in DOMAIN m.live THEN m.live[x] ELSE what]
<1>1. CASE m.left = 1
  BY <1>1 DEF Alloc, IsMemory
<1>2. CASE m.left # 1
  <2> DEFINE b == FreshBlock(m)
  <2>1. Alloc(m, what) = [m EXCEPT !.left = IF @ = 0 THEN 0 ELSE @ - 1, !.got = b,
                            !.live = [x \in DOMAIN @ \cup {b} |-> IF x \in DOMAIN @ THEN @[x] ELSE what]]
    BY <1>2 DEF Alloc
  <2> HIDE DEF b
  <2>2. /\ IsMemory(Alloc(m, what)) /\ Alloc(m, what).broken = m.broken /\ Alloc(m, what).got = b
        /\ Alloc(m, what).live = [x \in DOMAIN m.live \cup {b} |-> IF x \in DOMAIN m.live THEN m.live[x] ELSE what]
    BY <2>1 DEF IsMemory
  <2> QED BY <2>2 DEF b
<1> QED BY <1>1, <1>2

(* After an allocation: the new block, if there is one, is owned.           *)
Allocated(a, m, owned, controller, what) ==
  /\ IsMemory(a)
  /\ a.got = 0 => Sound(a, owned, controller) /\ a.live = m.live
  /\ a.got # 0 => /\ a.got \notin DOMAIN m.live /\ a.got \notin owned /\ a.got # controller
                  /\ a.got \in DOMAIN a.live /\ a.live[a.got] = what
                  /\ \A x \in DOMAIN m.live : x \in DOMAIN a.live /\ a.live[x] = m.live[x]
                  /\ Sound(a, owned \cup {a.got}, controller)

(* An allocation keeps the heap sound, and fails without a trace.           *)
LEMMA AllocSound ==
  ASSUME NEW m, IsMemory(m), NEW owned, NEW c, Sound(m, owned, c), NEW what, what # "controller"
  PROVE  Allocated(Alloc(m, what), m, owned, c, what)
<1>1. FreshBlock(m) \in Nat \ {0} /\ FreshBlock(m) \notin DOMAIN m.live
  BY FreshIsFree DEF Sound
<1>2. PICK a, b : a = Alloc(m, what) /\ b = FreshBlock(m)
  OBVIOUS
<1>3. /\ IsMemory(a) /\ a.broken = m.broken
      /\ \/ a.got = 0 /\ a.live = m.live
         \/ /\ a.got = b
            /\ a.live = [x \in DOMAIN m.live \cup {b} |-> IF x \in DOMAIN m.live THEN m.live[x] ELSE what]
  BY <1>2, AllocIs
<1>4. CASE a.got = 0
  <2>1. a.live = m.live
    BY <1>1, <1>2, <1>3, <1>4
  <2>2. Sound(a, owned, c)
    BY <2>1, <1>3 DEF Sound
  <2> QED BY <1>2, <1>3, <1>4, <2>1, <2>2 DEF Allocated
<1>5. CASE a.got # 0
  <2>1. /\ a.got = b /\ b \in Nat \ {0} /\ b \notin DOMAIN m.live
        /\ a.live = [x \in DOMAIN m.live \cup {b} |-> IF x \in DOMAIN m.live THEN m.live[x] ELSE what]
    BY <1>1, <1>2, <1>3, <1>5
  <2>2. IsFiniteSet(DOMAIN a.live)
    BY <2>1, FS_AddElement DEF Sound
  <2>3. Sound(a, owned \cup {b}, c)
    BY <1>3, <2>1, <2>2 DEF Sound
  <2>4. /\ b \notin owned /\ b # c /\ b \in DOMAIN a.live /\ a.live[b] = what
        /\ \A x \in DOMAIN m.live : x \in DOMAIN a.live /\ a.live[x] = m.live[x]
    BY <2>1 DEF Sound
  <2> QED BY <1>2, <1>3, <1>5, <2>1, <2>3, <2>4 DEF Allocated
<1> QED BY <1>4, <1>5

(* What freeing some blocks does to the memory.                             *)
LEMMA FreeAllIs ==
  ASSUME NEW m, IsMemory(m), NEW blocks
  PROVE  LET f == FreeAll(m, blocks)
         IN /\ IsMemory(f) /\ f.got = m.got
            /\ f.broken = (m.broken \/ FreedTwice(blocks)
                          \/ ~(Range(blocks) \subseteq DOMAIN m.live \cup {0}))
            /\ f.live = [b \in DOMAIN m.live \ Range(blocks) |-> m.live[b]]
<1> DEFINE bad == m.broken \/ FreedTwice(blocks) \/ ~(Range(blocks) \subseteq DOMAIN m.live \cup {0})
           rest == [b \in DOMAIN m.live \ Range(blocks) |-> m.live[b]]
<1>1. FreeAll(m, blocks) = [m EXCEPT !.broken = bad, !.live = rest]
  BY DEF FreeAll
<1> HIDE DEF bad, rest
<1>2. [m EXCEPT !.broken = bad, !.live = rest].broken = bad
  BY Zenon DEF IsMemory
<1>3. /\ IsMemory([m EXCEPT !.broken = bad, !.live = rest])
      /\ [m EXCEPT !.broken = bad, !.live = rest].got = m.got
      /\ [m EXCEPT !.broken = bad, !.live = rest].live = rest
  BY DEF IsMemory
<1> QED BY <1>1, <1>2, <1>3, Zenon DEF bad, rest

(* After a free: the blocks are owned no more, the others are as they       *)
(* were.                                                                    *)
Freed(f, m, owned, blocks, controller) ==
  /\ IsMemory(f) /\ f.got = m.got /\ Sound(f, owned \ blocks, controller)
  /\ \A x \in DOMAIN m.live \ blocks : x \in DOMAIN f.live /\ f.live[x] = m.live[x]

(* Blocks that are owned, each once, can be freed (the end of               *)
(* ac_topology_clear and of ac_widget_release).                             *)
LEMMA FreeAllSound ==
  ASSUME NEW m, IsMemory(m), NEW owned, NEW c, Sound(m, owned, c),
         NEW blocks, Range(blocks) \subseteq owned \cup {0}, ~FreedTwice(blocks)
  PROVE  Freed(FreeAll(m, blocks), m, owned, Range(blocks), c)
<1>1. PICK f : f = FreeAll(m, blocks)
  OBVIOUS
<1>2. /\ IsMemory(f) /\ f.got = m.got
      /\ f.broken = (m.broken \/ FreedTwice(blocks) \/ ~(Range(blocks) \subseteq DOMAIN m.live \cup {0}))
      /\ f.live = [b \in DOMAIN m.live \ Range(blocks) |-> m.live[b]]
  BY <1>1, FreeAllIs
<1>3. ~f.broken
  <2>1. ~m.broken /\ Range(blocks) \subseteq DOMAIN m.live \cup {0}
    BY DEF Sound
  <2> QED BY <1>2, <2>1, Zenon
<1>4. IsFiniteSet(DOMAIN f.live)
  BY <1>2, FS_Subset DEF Sound
<1>5. c \in DOMAIN f.live
  BY <1>2 DEF Sound
<1>6. Sound(f, owned \ Range(blocks), c)
  BY <1>2, <1>3, <1>4, <1>5 DEF Sound
<1> QED BY <1>1, <1>2, <1>6 DEF Freed

(* A block that is owned, or none, can be freed.                            *)
LEMMA FreeSound ==
  ASSUME NEW m, IsMemory(m), NEW owned, NEW c, Sound(m, owned, c), NEW b \in owned \cup {0}
  PROVE  Freed(Free(m, b), m, owned, {b}, c)
<1>1. Range(<<b>>) = {b} /\ ~FreedTwice(<<b>>)
  BY DEF Range, FreedTwice
<1>2. Freed(FreeAll(m, <<b>>), m, owned, Range(<<b>>), c)
  BY <1>1, FreeAllSound
<1> QED BY <1>1, <1>2 DEF Free

(* A growing array of the topology (items, the block they are in, room).    *)
IsList(l) == DOMAIN l = {"items", "block", "room"} /\ IsSequence(l.items)

(* After an append to a list: the list is in the block it was in, or in a   *)
(* new one, and its old block is owned no more.                             *)
Grown(r, m, list, owned, controller, what) ==
  /\ DOMAIN r = {"m", "list", "ok"} /\ IsMemory(r.m) /\ IsList(r.list) /\ r.ok \in BOOLEAN
  /\ ~r.ok => r.list = list
  /\ Sound(r.m, (owned \ {list.block}) \cup ({r.list.block} \ {0}), controller)
  /\ \/ r.list.block = list.block /\ r.m.live = m.live
     \/ /\ r.list.block \notin owned \cup {controller, 0} /\ r.list.block \notin DOMAIN m.live
        /\ r.m.live[r.list.block] = what
        /\ \A x \in DOMAIN m.live \ {list.block} : x \in DOMAIN r.m.live /\ r.m.live[x] = m.live[x]

(* Growing an array frees the old block exactly when there is a new one,    *)
(* and leaves the items alone.                                              *)
LEMMA ReserveSound ==
  ASSUME NEW m, IsMemory(m), NEW owned, NEW c, Sound(m, owned, c),
         NEW list, IsList(list), list.block \in owned \cup {0}, NEW what, what # "controller"
  PROVE  /\ Grown(Reserve(m, list, what), m, list, owned, c, what)
         /\ Reserve(m, list, what).list.items = list.items
<1>1. 0 \notin owned /\ (owned \ {list.block}) \cup ({list.block} \ {0}) = owned
  BY DEF Sound
<1>2. CASE Len(list.items) < list.room
  <2>1. Reserve(m, list, what) = [m |-> m, list |-> list, ok |-> TRUE]
    BY <1>2 DEF Reserve
  <2> QED BY <1>1, <2>1 DEF Grown
<1>3. CASE ~(Len(list.items) < list.room)
  <2> DEFINE a == Alloc(m, what)
  <2>1. Allocated(a, m, owned, c, what)
    BY AllocSound
  <2>2. /\ IsMemory(a)
        /\ a.got = 0 => Sound(a, owned, c) /\ a.live = m.live
        /\ a.got # 0 => /\ a.got \notin DOMAIN m.live /\ a.got \notin owned /\ a.got # c
                        /\ a.got \in DOMAIN a.live /\ a.live[a.got] = what
                        /\ \A x \in DOMAIN m.live : x \in DOMAIN a.live /\ a.live[x] = m.live[x]
                        /\ Sound(a, owned \cup {a.got}, c)
    BY <2>1 DEF Allocated
  <2>3. Reserve(m, list, what) = Moved(a, list)
    BY <1>3 DEF Reserve
  <2> HIDE DEF a
  <2>4. CASE a.got = 0
    <3>1. Reserve(m, list, what) = [m |-> a, list |-> list, ok |-> FALSE]
      BY <2>3, <2>4 DEF Moved
    <3> QED BY <1>1, <2>2, <2>4, <3>1 DEF Grown
  <2>5. CASE a.got # 0
    <3> DEFINE f == Free(a, list.block)
               n == [list EXCEPT !.block = a.got, !.room = IF @ = 0 THEN FirstRoom ELSE 2 * @]
    <3>2. Reserve(m, list, what) = [m |-> f, ok |-> TRUE, list |-> n]
      BY <2>3, <2>5 DEF Moved
    <3>3. IsList(n) /\ n.items = list.items /\ n.block = a.got
      BY DEF IsList
    <3>a. Sound(a, owned \cup {a.got}, c) /\ list.block \in (owned \cup {a.got}) \cup {0}
      BY <2>2, <2>5
    <3>b. Freed(f, a, owned \cup {a.got}, {list.block}, c)
      BY <2>2, <3>a, FreeSound
    <3> HIDE DEF f, n
    <3>4. /\ IsMemory(f) /\ f.got = a.got /\ Sound(f, (owned \cup {a.got}) \ {list.block}, c)
          /\ \A x \in DOMAIN a.live \ {list.block} : x \in DOMAIN f.live /\ f.live[x] = a.live[x]
      BY <3>b DEF Freed
    <3>5. list.block # a.got
      BY <2>2, <2>5
    <3>6. (owned \cup {a.got}) \ {list.block} = (owned \ {list.block}) \cup ({n.block} \ {0})
      BY <2>5, <3>3, <3>5
    <3>7. /\ n.block \notin owned \cup {c, 0} /\ n.block \notin DOMAIN m.live /\ f.live[n.block] = what
          /\ \A x \in DOMAIN m.live \ {list.block} : x \in DOMAIN f.live /\ f.live[x] = m.live[x]
      BY <2>2, <2>5, <3>3, <3>4, <3>5
    <3>8. Sound(f, (owned \ {list.block}) \cup ({n.block} \ {0}), c)
      BY <3>4, <3>6
    <3> HIDE DEF IsList, IsMemory, Sound
    <3> QED BY <3>2, <3>3, <3>4, <3>7, <3>8 DEF Grown
  <2> QED BY <2>4, <2>5
<1> QED BY <1>2, <1>3

(* An append keeps the heap sound, and adds the item when it succeeds       *)
(* (ac_append_token, ac_append_widget_control and the others).              *)
LEMMA AppendItemSound ==
  ASSUME NEW m, IsMemory(m), NEW owned, NEW c, Sound(m, owned, c),
         NEW list, IsList(list), list.block \in owned \cup {0}, NEW item, NEW what, what # "controller"
  PROVE  LET r == AppendItem(m, list, item, what)
         IN /\ Grown(r, m, list, owned, c, what)
            /\ r.ok => r.list.items = Append(list.items, item)
<1> DEFINE r == Reserve(m, list, what)
<1>2. Grown(r, m, list, owned, c, what) /\ r.list.items = list.items
  BY ReserveSound
<1>1. AppendItem(m, list, item, what) = Appended(r, item)
  BY DEF AppendItem
<1> HIDE DEF r
<1>3. CASE ~r.ok
  BY <1>1, <1>2, <1>3 DEF Appended
<1>4. CASE r.ok
  <2>1. PICK n : n = [r.list EXCEPT !.items = Append(@, item)]
    OBVIOUS
  <2>2. IsList(n) /\ n.items = Append(list.items, item) /\ n.block = r.list.block
    BY <1>2, <2>1, AppendIs DEF IsList, Grown
  <2>3. PICK s : s = [r EXCEPT !.list.items = Append(@, item)]
    OBVIOUS
  <2>4. DOMAIN s = {"m", "list", "ok"} /\ s.m = r.m /\ s.ok = r.ok /\ s.list = n
    BY <1>2, <2>1, <2>3 DEF IsList, Grown
  <2>5. AppendItem(m, list, item, what) = s
    BY <1>1, <1>4, <2>3 DEF Appended
  <2> QED BY <1>2, <1>4, <2>2, <2>4, <2>5 DEF Grown
<1> QED BY <1>3, <1>4

(* A sequence that consists of two.                                         *)
Joined(joined, s, t) ==
  /\ DOMAIN joined = 1..(Len(s) + Len(t))
  /\ \A i \in 1..Len(s) : joined[i] = s[i]
  /\ \A i \in 1..Len(t) : joined[Len(s) + i] = t[i]

(* What joining two sequences gives.                                        *)
LEMMA JoinIs ==
  ASSUME NEW s, IsSequence(s), NEW t, IsSequence(t)
  PROVE  Joined(s \o t, s, t)
<1> DEFINE S == Range(s) \cup Range(t)
<1>1. Len(s) \in Nat /\ Len(t) \in Nat /\ DOMAIN s = 1..Len(s) /\ DOMAIN t = 1..Len(t)
      /\ s = [i \in 1..Len(s) |-> s[i]] /\ t = [i \in 1..Len(t) |-> t[i]]
  BY SequenceIs
<1>2. s \in [1..Len(s) -> S] /\ t \in [1..Len(t) -> S]
  BY <1>1 DEF Range
<1>3. s \in Seq(S) /\ t \in Seq(S)
  BY <1>1, <1>2
<1> HIDE DEF S
<1>4. s \o t \in Seq(S) /\ Len(s \o t) = Len(s) + Len(t)
  BY <1>3
<1>5. DOMAIN (s \o t) = 1..(Len(s) + Len(t))
  BY <1>4
<1>6. \A i \in 1..Len(s) : (s \o t)[i] = s[i]
  BY <1>1, <1>3
<1>7. \A i \in 1..Len(t) : (s \o t)[Len(s) + i] = t[i]
  BY <1>1, <1>3
<1> QED BY <1>5, <1>6, <1>7 DEF Joined

(* A widget of the topology.                                                *)
IsWidget(w) ==
  /\ DOMAIN w = {"name", "type", "pipeline", "stream", "tokens", "controls"}
  /\ IsList(w.tokens) /\ IsList(w.controls)

(* Whatever a widget holds, it holds once: its tokens, the list of its      *)
(* controls and their payloads are in different blocks.                     *)
BlocksApart(w) ==
  LET items == w.controls.items IN
  /\ w.tokens.block = w.controls.block => w.tokens.block = 0
  /\ \A i \in DOMAIN items : items[i].payload \in {w.tokens.block, w.controls.block} => items[i].payload = 0
  /\ \A i, j \in DOMAIN items : i # j /\ items[i].payload = items[j].payload => items[i].payload = 0

(* What ac_widget_release frees is what the widget owns, and nothing        *)
(* twice.                                                                   *)
LEMMA HoldsAre ==
  ASSUME NEW w, IsWidget(w)
  PROVE  Range(WidgetHolds(w)) = WidgetBlocks(w) /\ (BlocksApart(w) => ~FreedTwice(WidgetHolds(w)))
<1> DEFINE items == w.controls.items
           n == Len(items)
           pair == <<w.tokens.block, w.controls.block>>
           payloads == PayloadBlocks(items)
           h == WidgetHolds(w)
<1>1. n \in Nat /\ DOMAIN items = 1..n
  BY SequenceIs DEF IsWidget, IsList
<1>2. /\ IsSequence(pair) /\ Len(pair) = 2
      /\ pair[1] = w.tokens.block /\ pair[2] = w.controls.block
  BY DEF IsSequence, Range
<1>3. payloads = [i \in 1..n |-> items[i].payload]
  BY DEF PayloadBlocks
<1>4. IsSequence(payloads) /\ Len(payloads) = n /\ \A i \in 1..n : payloads[i] = items[i].payload
  <2> HIDE DEF payloads, items, n
  <2> QED BY <1>1, <1>3, SequenceMade
<1>5. h = pair \o payloads
  BY DEF WidgetHolds
<1> HIDE DEF pair, payloads, h
<1>6. /\ DOMAIN h = 1..(2 + n)
      /\ \A i \in 1..2 : h[i] = pair[i]
      /\ \A i \in 1..n : h[2 + i] = payloads[i]
  <2>1. Joined(pair \o payloads, pair, payloads)
    BY <1>2, <1>4, JoinIs
  <2> QED BY <1>2, <1>4, <1>5, <2>1 DEF Joined
<1>7. h[1] = w.tokens.block /\ h[2] = w.controls.block /\ \A i \in 1..n : h[2 + i] = items[i].payload
  BY <1>2, <1>4, <1>6
<1>8. \A k \in DOMAIN h : k = 1 \/ k = 2 \/ \E i \in 1..n : k = 2 + i
  <2> SUFFICES ASSUME NEW k \in 1..(2 + n), k # 1, k # 2 PROVE \E i \in 1..n : k = 2 + i
    BY <1>6
  <2>1. k - 2 \in 1..n /\ k = 2 + (k - 2)
    BY <1>1
  <2> QED BY <2>1
<1>9. 1 \in DOMAIN h /\ 2 \in DOMAIN h /\ \A i \in 1..n : 2 + i \in DOMAIN h
  BY <1>1, <1>6
<1> HIDE DEF items, n
<1>10. Range(h) = WidgetBlocks(w)
  <2>1. ASSUME NEW k \in DOMAIN h PROVE h[k] \in WidgetBlocks(w)
    BY <1>1, <1>7, <1>8 DEF WidgetBlocks, Range, items
  <2>2. ASSUME NEW b \in WidgetBlocks(w) PROVE \E k \in DOMAIN h : h[k] = b
    BY <1>1, <1>7, <1>9 DEF WidgetBlocks, Range, items
  <2> QED BY <2>1, <2>2 DEF Range
<1>11. ASSUME BlocksApart(w), NEW i \in DOMAIN h, NEW j \in DOMAIN h, i # j, h[i] = h[j] PROVE h[i] = 0
  <2>1. CASE i = 1 \/ i = 2
    <3>1. CASE j = 1 \/ j = 2
      BY <1>7, <1>11, <2>1, <3>1 DEF BlocksApart
    <3>2. CASE ~(j = 1 \/ j = 2)
      <4>1. PICK k \in 1..n : j = 2 + k
        BY <1>8, <3>2
      <4>2. items[k].payload \in {w.tokens.block, w.controls.block}
        BY <1>7, <1>11, <2>1, <4>1
      <4> QED BY <1>1, <1>7, <1>11, <4>1, <4>2 DEF BlocksApart, items
    <3> QED BY <3>1, <3>2
  <2>2. CASE ~(i = 1 \/ i = 2)
    <3>1. PICK k \in 1..n : i = 2 + k
      BY <1>8, <2>2
    <3>2. CASE j = 1 \/ j = 2
      <4>2. items[k].payload \in {w.tokens.block, w.controls.block}
        BY <1>7, <1>11, <3>1, <3>2
      <4> QED BY <1>1, <1>7, <1>11, <3>1, <4>2 DEF BlocksApart, items
    <3>3. CASE ~(j = 1 \/ j = 2)
      <4>1. PICK l \in 1..n : j = 2 + l
        BY <1>8, <3>3
      <4>2. k # l
        BY <1>11, <3>1, <4>1
      <4> QED BY <1>1, <1>7, <1>11, <3>1, <4>1, <4>2 DEF BlocksApart, items
    <3> QED BY <3>2, <3>3
  <2> QED BY <2>1, <2>2
<1> QED BY <1>10, <1>11 DEF FreedTwice, h

(* Releasing a widget (ac_widget_release) keeps the heap sound, and owns    *)
(* the blocks of the widget no more.                                        *)
LEMMA ReleaseWidgetSound ==
  ASSUME NEW m, IsMemory(m), NEW owned, NEW c, Sound(m, owned, c),
         NEW w, IsWidget(w), BlocksApart(w), WidgetBlocks(w) \subseteq owned \cup {0}
  PROVE  Freed(ReleaseWidget(m, w), m, owned, WidgetBlocks(w), c)
<1>1. Range(WidgetHolds(w)) = WidgetBlocks(w) /\ ~FreedTwice(WidgetHolds(w))
  BY HoldsAre
<1>2. Freed(FreeAll(m, WidgetHolds(w)), m, owned, Range(WidgetHolds(w)), c)
  BY <1>1, FreeAllSound
<1> QED BY <1>1, <1>2 DEF ReleaseWidget

(* The growing arrays of a topology.                                        *)
ListFields == {"pipelines", "widgets", "routes", "controls", "pcms", "dais", "links"}

(* A topology, as ac_binary_topology_t holds it.                            *)
IsTopology(t) == DOMAIN t = ListFields \cup {"manifests", "private"} /\ \A f \in ListFields : IsList(t[f])

(* No block is held twice by a topology: not by two lists, not by a list    *)
(* and a widget, not by two widgets; and the list of all controls holds     *)
(* none.                                                                    *)
WellHeld(t) ==
  /\ IsTopology(t)
  /\ \A f, g \in ListFields : f # g /\ t[f].block = t[g].block => t[f].block = 0
  /\ \A i \in DOMAIN Widgets(t) : IsWidget(Widgets(t)[i]) /\ BlocksApart(Widgets(t)[i])
  /\ \A i \in DOMAIN Widgets(t) : \A f \in ListFields :
       t[f].block \in WidgetBlocks(Widgets(t)[i]) => t[f].block = 0
  /\ \A i, j \in DOMAIN Widgets(t) :
       i # j => WidgetBlocks(Widgets(t)[i]) \cap WidgetBlocks(Widgets(t)[j]) \subseteq {0}
  /\ \A i \in DOMAIN t.controls.items : t.controls.items[i].payload = 0

(* The blocks that a topology owns.                                         *)
TopoOwn(t) == (ListBlocks(t) \cup UNION {WidgetBlocks(w) : w \in Range(Widgets(t))}) \ {0}

(* Where a block that a topology owns can be.                               *)
LEMMA OwnedIf ==
  ASSUME NEW t, IsTopology(t), NEW b
  PROVE  b \in TopoOwn(t) <=> /\ b # 0
                              /\ \/ \E f \in ListFields : b = t[f].block
                                 \/ \E i \in DOMAIN Widgets(t) : b \in WidgetBlocks(Widgets(t)[i])
BY DEF TopoOwn, ListBlocks, Range, ListFields

(* The loop of ac_topology_clear over the widgets.                          *)
ReleasedInTurn(released, m, widgets) ==
  released[0] = m /\ \A i \in 1..Len(widgets) : released[i] = ReleaseWidget(released[i - 1], widgets[i])

(* ReleaseWidgets is that loop.                                             *)
LEMMA WidgetsReleased ==
  ASSUME NEW m, NEW widgets, Len(widgets) \in Nat
  PROVE  \E released : ReleasedInTurn(released, m, widgets)
                /\ ReleaseWidgets(m, widgets) = released[Len(widgets)]
<1> DEFINE N == Len(widgets)
           start == m
           Step(a, i) == ReleaseWidget(a, widgets[i])
           Reads(g, k) == g[0] = start /\ \A i \in 1..k : g[i] = Step(g[i - 1], i)
           Unfolded(g) == [i \in 0..N |-> IF i = 0 THEN start ELSE Step(g[i - 1], i)]
           found == {k \in 0..N : \E g : Reads(g, k)}
           released[i \in 0..N] == IF i = 0 THEN start ELSE Step(released[i - 1], i)
<1>1. ReleaseWidgets(m, widgets) = released[N]
  BY DEF ReleaseWidgets
<1> HIDE DEF start, Step
<1>2. \A i \in 0..N : i \in found
  <2>1. 0 \in found
    <3>1. Reads([i \in {0} |-> start], 0)
      OBVIOUS
    <3> HIDE DEF Reads
    <3> QED BY <3>1
  <2>2. ASSUME NEW k \in 1..N, k - 1 \in found PROVE k \in found
    <3>1. PICK g : Reads(g, k - 1)
      BY <2>2
    <3>2. Reads([i \in 0..k |-> IF i = k THEN Step(g[k - 1], k) ELSE g[i]], k)
      BY <3>1
    <3> HIDE DEF Reads
    <3> QED BY <3>2
  <2> HIDE DEF found
  <2> QED BY <2>1, <2>2, UpTo
<1>3. PICK g : Reads(g, N)
  <2>1. N \in found
    <3> HIDE DEF found
    <3> QED BY <1>2
  <2> QED BY <2>1
<1>4. \E f : f = Unfolded(f)
  <2>1. [i \in 0..N |-> g[i]] = Unfolded([i \in 0..N |-> g[i]])
    BY <1>3
  <2> QED BY <2>1
<1>5. released = Unfolded(released)
  BY <1>4
<1>6. Reads(released, N)
  <2> HIDE DEF released
  <2>1. 0 \in 0..N /\ released[0] = start
    BY <1>5
  <2>2. ASSUME NEW i \in 1..N PROVE released[i] = Step(released[i - 1], i)
    <3>1. i \in 0..N /\ i # 0
      OBVIOUS
    <3> QED BY <3>1, <1>5
  <2> QED BY <2>1, <2>2
<1>7. ReleasedInTurn(released, m, widgets)
  <2> HIDE DEF released
  <2> QED BY <1>6 DEF start, Step, ReleasedInTurn
<1> QED BY <1>1, <1>7

(* The loop of ac_topology_clear frees what the widgets own, and leaves     *)
(* the lists.                                                               *)
LEMMA ReleaseWidgetsSound ==
  ASSUME NEW m, IsMemory(m), NEW t, WellHeld(t), NEW c, Sound(m, TopoOwn(t), c)
  PROVE  LET r == ReleaseWidgets(m, Widgets(t))
         IN IsMemory(r) /\ Sound(r, ListBlocks(t) \ {0}, c)
<1> DEFINE W == Widgets(t)
           N == Len(W)
           LeftFrom(i) == {b \in TopoOwn(t) : \A j \in 1..i : b \notin WidgetBlocks(W[j])}
<1>1. N \in Nat /\ DOMAIN W = 1..N
  BY SequenceIs DEF WellHeld, IsTopology, IsList, ListFields, Widgets
<1>a. PICK released : ReleasedInTurn(released, m, W) /\ ReleaseWidgets(m, W) = released[N]
  <2> HIDE DEF W
  <2> QED BY <1>1, WidgetsReleased
<1>2. released[0] = m /\ \A i \in 1..N : released[i] = ReleaseWidget(released[i - 1], W[i])
  BY <1>a DEF ReleasedInTurn
<1> DEFINE sound == {i \in 0..N : IsMemory(released[i]) /\ Sound(released[i], LeftFrom(i), c)}
<1>3. \A i \in 0..N : i \in sound
  <2>1. 0 \in sound
    <3>1. LeftFrom(0) = TopoOwn(t)
      OBVIOUS
    <3> HIDE DEF LeftFrom
    <3> QED BY <1>1, <1>2, <3>1
  <2>2. ASSUME NEW i \in 1..N, i - 1 \in sound PROVE i \in sound
    <3>1. IsWidget(W[i]) /\ BlocksApart(W[i])
      BY <1>1 DEF WellHeld
    <3>2. WidgetBlocks(W[i]) \subseteq LeftFrom(i - 1) \cup {0}
      <4> SUFFICES ASSUME NEW b \in WidgetBlocks(W[i]), b # 0 PROVE b \in LeftFrom(i - 1)
        OBVIOUS
      <4>1. b \in TopoOwn(t)
        BY <1>1 DEF TopoOwn, Range
      <4>2. ASSUME NEW j \in 1..(i - 1) PROVE b \notin WidgetBlocks(W[j])
        <5>1. i \in DOMAIN W /\ j \in DOMAIN W /\ i # j
          BY <1>1
        <5>2. WidgetBlocks(W[i]) \cap WidgetBlocks(W[j]) \subseteq {0}
          BY <5>1 DEF WellHeld
        <5> QED BY <5>2
      <4> QED BY <4>1, <4>2
    <3>3. LeftFrom(i - 1) \ WidgetBlocks(W[i]) = LeftFrom(i)
      <4>1. \A j \in 1..i : j \in 1..(i - 1) \/ j = i
        OBVIOUS
      <4>2. \A j \in 1..(i - 1) : j \in 1..i
        OBVIOUS
      <4> QED BY <4>1, <4>2
    <3>4. IsMemory(released[i - 1]) /\ Sound(released[i - 1], LeftFrom(i - 1), c)
      BY <2>2
    <3> HIDE DEF LeftFrom, W
    <3>5. Freed(ReleaseWidget(released[i - 1], W[i]), released[i - 1], LeftFrom(i - 1),
                  WidgetBlocks(W[i]), c)
      BY <3>1, <3>2, <3>4, ReleaseWidgetSound
    <3>6. released[i] = ReleaseWidget(released[i - 1], W[i])
      BY <1>2
    <3>7. IsMemory(released[i]) /\ Sound(released[i], LeftFrom(i), c)
      BY <3>3, <3>5, <3>6 DEF Freed
    <3> QED BY <3>7
  <2> HIDE DEF sound
  <2> QED BY <1>1, <2>1, <2>2, UpTo
<1>4. N \in sound
  <2> HIDE DEF sound
  <2> QED BY <1>1, <1>3
<1>5. LeftFrom(N) = ListBlocks(t) \ {0}
  <2>1. ASSUME NEW b \in ListBlocks(t) \ {0} PROVE b \in LeftFrom(N)
    <3>1. PICK f \in ListFields : b = t[f].block
      BY DEF ListBlocks, ListFields
    <3> QED BY <1>1, <3>1 DEF WellHeld, TopoOwn
  <2>2. ASSUME NEW b \in LeftFrom(N) PROVE b \in ListBlocks(t) \ {0}
    BY <1>1 DEF TopoOwn, Range
  <2> QED BY <2>1, <2>2
<1> QED BY <1>a, <1>4, <1>5

(* What ac_topology_clear frees after the widgets is the blocks of the      *)
(* lists, each once.                                                        *)
LEMMA ListsAre ==
  ASSUME NEW t, WellHeld(t)
  PROVE  LET held == PayloadBlocks(t.controls.items) \o ListsHold(t)
         IN Range(held) \ {0} = ListBlocks(t) \ {0} /\ ~FreedTwice(held)
<1> DEFINE items == t.controls.items
           n == Len(items)
           payloads == PayloadBlocks(items)
           lists == ListsHold(t)
           order == <<"pcms", "dais", "links", "widgets", "routes", "controls", "pipelines">>
           held == payloads \o lists
<1>1. n \in Nat /\ DOMAIN items = 1..n
  BY SequenceIs DEF WellHeld, IsTopology, IsList, ListFields
<1>2. payloads = [i \in 1..n |-> items[i].payload]
  BY DEF PayloadBlocks
<1>3. IsSequence(payloads) /\ Len(payloads) = n /\ \A i \in 1..n : payloads[i] = 0
  <2>1. \A i \in 1..n : items[i].payload = 0
    BY <1>1 DEF WellHeld
  <2> HIDE DEF payloads, items, n
  <2>2. \A i \in 1..n : payloads[i] = 0
    BY <1>2, <2>1
  <2>3. payloads = [i \in 1..n |-> payloads[i]]
    BY <1>2
  <2> QED BY <1>1, <2>2, <2>3, SequenceMade
<1>4. IsSequence(lists) /\ Len(lists) = 7 /\ \A i \in 1..7 : order[i] \in ListFields
              /\ lists[i] = t[order[i]].block
  <2>1. Len(lists) = 7 /\ \A i \in 1..7 : order[i] \in ListFields /\ lists[i] = t[order[i]].block
    BY DEF ListsHold, ListFields
  <2>2. lists = [i \in 1..7 |-> lists[i]]
    BY DEF ListsHold
  <2> HIDE DEF lists
  <2> QED BY <2>1, <2>2, SequenceMade
<1>5. \A i, j \in 1..7 : i # j => order[i] # order[j]
  OBVIOUS
<1>6. \A f \in ListFields : \E i \in 1..7 : f = order[i]
  <2>1. order[1] = "pcms" /\ order[2] = "dais" /\ order[3] = "links" /\ order[4] = "widgets"
        /\ order[5] = "routes" /\ order[6] = "controls" /\ order[7] = "pipelines"
    OBVIOUS
  <2> HIDE DEF order
  <2> QED BY <2>1 DEF ListFields
<1> HIDE DEF lists, payloads, order
<1>7. Joined(held, payloads, lists)
  BY <1>3, <1>4, JoinIs
<1> HIDE DEF held
<1>8. /\ DOMAIN held = 1..(n + 7)
      /\ \A i \in 1..n : held[i] = 0
      /\ \A i \in 1..7 : held[n + i] = t[order[i]].block
  BY <1>3, <1>4, <1>7 DEF Joined
<1>9. \A k \in DOMAIN held : held[k] # 0 => \E i \in 1..7 : k = n + i
  <2> SUFFICES ASSUME NEW k \in 1..(n + 7), held[k] # 0 PROVE \E i \in 1..7 : k = n + i
    BY <1>8
  <2>1. ~(k <= n)
    BY <1>1, <1>8
  <2>2. k - n \in 1..7 /\ k = n + (k - n)
    BY <1>1, <2>1
  <2> QED BY <2>2
<1>10. Range(held) \ {0} = ListBlocks(t) \ {0}
  <2>1. ASSUME NEW k \in DOMAIN held, held[k] # 0 PROVE held[k] \in ListBlocks(t)
    <3>1. PICK i \in 1..7 : k = n + i
      BY <1>9, <2>1
    <3> QED BY <1>4, <1>8, <3>1 DEF ListBlocks, ListFields
  <2>2. ASSUME NEW b \in ListBlocks(t) PROVE \E k \in DOMAIN held : held[k] = b
    <3>1. PICK f \in ListFields : b = t[f].block
      BY DEF ListBlocks, ListFields
    <3>2. PICK i \in 1..7 : f = order[i]
      BY <1>6
    <3>3. n + i \in 1..(n + 7)
      BY <1>1
    <3>4. n + i \in DOMAIN held /\ held[n + i] = b
      BY <1>8, <3>1, <3>2, <3>3
    <3> QED BY <3>4
  <2> QED BY <2>1, <2>2 DEF Range
<1>11. ASSUME NEW i \in DOMAIN held, NEW j \in DOMAIN held, i # j, held[i] = held[j] PROVE held[i] = 0
  <2> SUFFICES ASSUME held[i] # 0 PROVE FALSE
    OBVIOUS
  <2>1. PICK k \in 1..7 : i = n + k
    BY <1>9
  <2>2. PICK l \in 1..7 : j = n + l
    BY <1>9, <1>11
  <2>3. k # l /\ order[k] # order[l] /\ order[k] \in ListFields /\ order[l] \in ListFields
    BY <1>4, <1>5, <1>11, <2>1, <2>2
  <2>4. t[order[k]].block = t[order[l]].block /\ t[order[k]].block # 0
    BY <1>8, <1>11, <2>1, <2>2
  <2> QED BY <2>3, <2>4 DEF WellHeld
<1>12. ~FreedTwice(held)
  BY <1>11 DEF FreedTwice
<1> QED BY <1>10, <1>12 DEF held, payloads, lists

(* ac_topology_clear frees all that the topology owns, whatever it holds,   *)
(* and nothing that is not in use.                                          *)
LEMMA ClearTopologySound ==
  ASSUME NEW m, IsMemory(m), NEW t, WellHeld(t), NEW c, Sound(m, TopoOwn(t), c)
  PROVE  IsMemory(ClearTopology(m, t)) /\ Sound(ClearTopology(m, t), {}, c)
<1> DEFINE r == ReleaseWidgets(m, Widgets(t))
           held == PayloadBlocks(t.controls.items) \o ListsHold(t)
<1>1. IsMemory(r) /\ Sound(r, ListBlocks(t) \ {0}, c)
  BY ReleaseWidgetsSound
<1>2. Range(held) \ {0} = ListBlocks(t) \ {0} /\ ~FreedTwice(held)
  BY ListsAre
<1>3. ClearTopology(m, t) = FreeAll(r, held)
  BY DEF ClearTopology
<1> HIDE DEF r, held
<1>4. Freed(FreeAll(r, held), r, ListBlocks(t) \ {0}, Range(held), c)
  BY <1>1, <1>2, FreeAllSound
<1>5. (ListBlocks(t) \ {0}) \ Range(held) = {}
  BY <1>2
<1> QED BY <1>3, <1>4, <1>5 DEF Freed

(* Counters of a topology own nothing.                                      *)
LEMMA SameLists ==
  ASSUME NEW t, WellHeld(t), NEW n, IsTopology(n), \A g \in ListFields : n[g] = t[g]
  PROVE  WellHeld(n) /\ TopoOwn(n) = TopoOwn(t)
<1>1. n.widgets = t.widgets /\ n.controls = t.controls
  BY DEF ListFields
<1>2. Widgets(n) = Widgets(t)
  BY <1>1 DEF Widgets
<1>3. IsTopology(t)
  BY DEF WellHeld
<1>4. WellHeld(n)
  BY <1>1, <1>2 DEF WellHeld
<1>5. \A b : b \in TopoOwn(n) <=> b \in TopoOwn(t)
  BY <1>2, <1>3, OwnedIf
<1> QED BY <1>4, <1>5

(* A topology with one list replaced, other than that of the widgets,       *)
(* owns the block of the new one in place of the old.                       *)
LEMMA ListReplaced ==
  ASSUME NEW t, WellHeld(t), NEW X, X \cap TopoOwn(t) = {}, 0 \notin X,
         NEW n, IsTopology(n), NEW f \in ListFields, Widgets(n) = Widgets(t),
                       \A g \in ListFields \ {f} : n[g] = t[g],
         n[f].block = t[f].block \/ n[f].block \notin TopoOwn(t) \cup X \cup {0},
         f = "controls" => \A i \in DOMAIN n.controls.items : n.controls.items[i].payload = 0
  PROVE  /\ WellHeld(n) /\ X \cap TopoOwn(n) = {}
         /\ TopoOwn(n) \cup X = ((TopoOwn(t) \cup X) \ {t[f].block}) \cup ({n[f].block} \ {0})
<1>1. Widgets(n) = Widgets(t)
  OBVIOUS
<1>2. IsTopology(t)
  BY DEF WellHeld
<1>3. ASSUME NEW g \in ListFields, NEW h \in ListFields, g # h, n[g].block = n[h].block PROVE n[g].block = 0
  <2>1. CASE g # f /\ h # f
    BY <1>3, <2>1 DEF WellHeld
  <2>2. ASSUME NEW k \in ListFields, k # f, n[f].block = n[k].block PROVE n[f].block = 0
    <3>1. n[k] = t[k] /\ (t[k].block # 0 => t[k].block \in TopoOwn(t))
      BY <1>2, <2>2, OwnedIf
    <3>2. CASE n[f].block = t[f].block
      BY <2>2, <3>1, <3>2 DEF WellHeld
    <3>3. CASE n[f].block \notin TopoOwn(t) \cup X \cup {0}
      BY <2>2, <3>1, <3>3
    <3> QED BY <3>2, <3>3
  <2> QED BY <1>3, <2>1, <2>2
<1>4. ASSUME NEW i \in DOMAIN Widgets(n), NEW g \in ListFields, n[g].block \in WidgetBlocks(Widgets(n)[i])
      PROVE  n[g].block = 0
  <2>1. CASE n[g].block = t[g].block
    BY <1>1, <1>4, <2>1 DEF WellHeld
  <2>2. CASE n[g].block # t[g].block
    <3>1. g = f /\ n[g].block \notin TopoOwn(t)
      BY <2>2
    <3> QED BY <1>1, <1>2, <1>4, <3>1, OwnedIf
  <2> QED BY <2>1, <2>2
<1>5. \A i \in DOMAIN n.controls.items : n.controls.items[i].payload = 0
  <2>1. CASE f # "controls"
    <3>1. n.controls = t.controls
      BY <2>1 DEF ListFields
    <3> QED BY <3>1 DEF WellHeld
  <2> QED BY <2>1
<1>6. WellHeld(n)
  BY <1>1, <1>3, <1>4, <1>5 DEF WellHeld
<1>7. ASSUME NEW b, b # 0
      PROVE  b \in TopoOwn(n) <=> b = n[f].block \/ (b \in TopoOwn(t) /\ b # t[f].block)
  <2>1. ASSUME b \in TopoOwn(n), b # n[f].block PROVE b \in TopoOwn(t) /\ b # t[f].block
    <3>1. CASE \E g \in ListFields : b = n[g].block
      <4>1. PICK g \in ListFields : b = n[g].block /\ g # f /\ n[g] = t[g]
        BY <2>1, <3>1
      <4>2. b \in TopoOwn(t)
        BY <1>2, <1>7, <4>1, OwnedIf
      <4>3. b # t[f].block
        BY <1>7, <4>1 DEF WellHeld
      <4> QED BY <4>2, <4>3
    <3>2. CASE \E i \in DOMAIN Widgets(n) : b \in WidgetBlocks(Widgets(n)[i])
      <4>1. b \in TopoOwn(t)
        BY <1>1, <1>2, <1>7, <3>2, OwnedIf
      <4>2. b # t[f].block
        BY <1>1, <1>7, <3>2 DEF WellHeld
      <4> QED BY <4>1, <4>2
    <3> QED BY <1>7, <2>1, <3>1, <3>2, OwnedIf
  <2>2. ASSUME b \in TopoOwn(t), b # t[f].block PROVE b \in TopoOwn(n)
    <3>1. CASE \E g \in ListFields : b = t[g].block
      <4>1. PICK g \in ListFields : b = t[g].block /\ g # f /\ n[g] = t[g]
        BY <2>2, <3>1
      <4> QED BY <1>7, <4>1, OwnedIf
    <3>2. CASE \E i \in DOMAIN Widgets(n) : b \in WidgetBlocks(Widgets(n)[i])
      BY <1>7, <3>2, OwnedIf
    <3> QED BY <1>1, <1>2, <2>2, <3>1, <3>2, OwnedIf
  <2>3. n[f].block = b => b \in TopoOwn(n)
    BY <1>7, OwnedIf
  <2> QED BY <2>1, <2>2, <2>3
<1>8. 0 \notin TopoOwn(n) /\ 0 \notin TopoOwn(t)
  BY DEF TopoOwn
<1>9. n[f].block \notin X
  <2>1. n[f].block = t[f].block /\ n[f].block # 0 => n[f].block \in TopoOwn(t)
    BY <1>2, OwnedIf
  <2> QED BY <2>1
<1>10. t[f].block # 0 => t[f].block \in TopoOwn(t)
  BY <1>2, OwnedIf
<1>11. X \cap TopoOwn(n) = {}
  BY <1>7, <1>8, <1>9
<1>12. TopoOwn(n) \cup X = ((TopoOwn(t) \cup X) \ {t[f].block}) \cup ({n[f].block} \ {0})
  BY <1>7, <1>8, <1>10
<1> QED BY <1>6, <1>11, <1>12

(* A parse in progress: the topology so far is well held, the step under    *)
(* way owns the blocks of X besides, and nothing else is in use.            *)
Parsing(p, X, controller) ==
  /\ DOMAIN p = {"m", "topo", "ok"} /\ p.ok \in BOOLEAN /\ IsMemory(p.m)
  /\ WellHeld(p.topo) /\ X \cap TopoOwn(p.topo) = {}
  /\ Sound(p.m, TopoOwn(p.topo) \cup X, controller)

(* After an append to a list of the topology.                               *)
Stored(r, p, field, item, owned, controller) ==
  /\ DOMAIN r = {"m", "topo", "ok"} /\ IsTopology(r.topo)
  /\ \A g \in ListFields \ {field} : r.topo[g] = p.topo[g]
  /\ Grown([m |-> r.m, list |-> r.topo[field], ok |-> r.ok], p.m, p.topo[field], owned, controller, field)
  /\ r.ok => r.topo[field].items = Append(p.topo[field].items, item)

(* An append to a list of the topology is an append to that list alone.     *)
LEMMA AppendToIs ==
  ASSUME NEW p, NEW X, NEW c, Parsing(p, X, c), NEW field \in ListFields, NEW item
  PROVE  Stored(AppendTo(p, field, item), p, field, item, TopoOwn(p.topo) \cup X, c)
<1> DEFINE a == AppendItem(p.m, p.topo[field], item, field)
           r == [p EXCEPT !.m = a.m, !.topo[field] = a.list, !.ok = a.ok]
           owned == TopoOwn(p.topo) \cup X
<1>1. AppendTo(p, field, item) = r
  BY DEF AppendTo, WithList
<1>2. IsTopology(p.topo) /\ IsList(p.topo[field])
              /\ DOMAIN p.topo = ListFields \cup {"manifests", "private"}
  BY DEF Parsing, WellHeld, IsTopology
<1>3. p.topo[field].block \in owned \cup {0}
  BY <1>2, OwnedIf
<1>4. field # "controller"
  BY DEF ListFields
<1>5. IsMemory(p.m) /\ Sound(p.m, owned, c)
  BY DEF Parsing
<1> HIDE DEF owned
<1>6. /\ Grown(a, p.m, p.topo[field], owned, c, field)
      /\ a.ok => a.list.items = Append(p.topo[field].items, item)
  BY <1>2, <1>3, <1>4, <1>5, AppendItemSound
<1> HIDE DEF a
<1>7. IsList(a.list)
  BY <1>6 DEF Grown
<1>8. /\ DOMAIN r = {"m", "topo", "ok"} /\ r.m = a.m /\ r.ok = a.ok
      /\ r.topo = [p.topo EXCEPT ![field] = a.list]
  BY DEF Parsing
<1> HIDE DEF r
<1>9. /\ DOMAIN r.topo = ListFields \cup {"manifests", "private"} /\ r.topo[field] = a.list
      /\ \A g \in ListFields \ {field} : r.topo[g] = p.topo[g]
  BY <1>2, <1>8
<1>10. IsTopology(r.topo)
  BY <1>2, <1>7, <1>9 DEF IsTopology
<1>11. Grown([m |-> r.m, list |-> r.topo[field], ok |-> r.ok], p.m, p.topo[field], owned, c, field)
  BY <1>6, <1>8, <1>9 DEF Grown
<1> QED BY <1>1, <1>6, <1>8, <1>9, <1>10, <1>11 DEF Stored, owned

(* The blocks that a widget owns.                                           *)
Own(w) == WidgetBlocks(w) \ {0}

(* A topology that gets a widget owns what the widget owned.                *)
LEMMA WidgetAdded ==
  ASSUME NEW t, WellHeld(t), NEW w, IsWidget(w), BlocksApart(w), Own(w) \cap TopoOwn(t) = {},
         NEW n, IsTopology(n), \A g \in ListFields \ {"widgets"} : n[g] = t[g],
         n.widgets.block = t.widgets.block, n.widgets.items = Append(t.widgets.items, w)
  PROVE  WellHeld(n) /\ TopoOwn(n) = TopoOwn(t) \cup Own(w)
<1> DEFINE W == Widgets(t)
           N == Len(W)
           V == Widgets(n)
<1>1. IsTopology(t) /\ IsSequence(W)
  BY DEF WellHeld, IsTopology, IsList, Widgets, ListFields
<1>2. N \in Nat /\ DOMAIN W = 1..N
  BY <1>1, SequenceIs
<1>3. V = Append(W, w)
  BY DEF Widgets
<1> HIDE DEF W, V
<1>4. DOMAIN V = 1..(N + 1) /\ (\A i \in 1..N : V[i] = W[i]) /\ V[N + 1] = w
  BY <1>1, <1>3, AppendIs
<1>5. \A i \in DOMAIN V : i = N + 1 \/ i \in DOMAIN W
  BY <1>2, <1>4
<1>6. \A i \in DOMAIN W : i \in DOMAIN V /\ V[i] = W[i]
  BY <1>2, <1>4
<1>7. \A f \in ListFields : n[f].block = t[f].block
  BY DEF ListFields
<1>8. n.controls = t.controls
  BY DEF ListFields
<1>9. N + 1 \in DOMAIN V
  BY <1>2, <1>4
<1>10. \A f \in ListFields : n[f].block # 0 => n[f].block \in TopoOwn(t)
  BY <1>1, <1>7, OwnedIf
<1>11. \A i \in DOMAIN W : \A b \in WidgetBlocks(W[i]) : b # 0 => b \in TopoOwn(t)
  BY <1>1, OwnedIf DEF W
<1>12. \A i \in DOMAIN V : \A f \in ListFields : n[f].block \in WidgetBlocks(V[i]) => n[f].block = 0
  <2> SUFFICES ASSUME NEW i \in DOMAIN V, NEW f \in ListFields, n[f].block \in WidgetBlocks(V[i]),
                n[f].block # 0
               PROVE  FALSE
    OBVIOUS
  <2>1. CASE i = N + 1
    <3>1. n[f].block \in Own(w)
      BY <1>4, <2>1 DEF Own
    <3> QED BY <1>10, <3>1
  <2>2. CASE i \in DOMAIN W
    BY <1>6, <1>7, <2>2 DEF WellHeld, W
  <2> QED BY <1>5, <2>1, <2>2
<1>13. \A i, j \in DOMAIN V : i # j => WidgetBlocks(V[i]) \cap WidgetBlocks(V[j]) \subseteq {0}
  <2> SUFFICES ASSUME NEW i \in DOMAIN V, NEW j \in DOMAIN V, i # j,
                      NEW b \in WidgetBlocks(V[i]) \cap WidgetBlocks(V[j]), b # 0
               PROVE  FALSE
    OBVIOUS
  <2>1. CASE i \in DOMAIN W /\ j \in DOMAIN W
    BY <1>6, <2>1 DEF WellHeld, W
  <2>2. CASE i = N + 1
    <3>1. j \in DOMAIN W /\ b \in Own(w)
      BY <1>4, <1>5, <2>2 DEF Own
    <3> QED BY <1>6, <1>11, <3>1
  <2>3. CASE j = N + 1
    <3>1. i \in DOMAIN W /\ b \in Own(w)
      BY <1>4, <1>5, <2>3 DEF Own
    <3> QED BY <1>6, <1>11, <3>1
  <2> QED BY <1>5, <2>1, <2>2, <2>3
<1>14. \A i \in DOMAIN V : IsWidget(V[i]) /\ BlocksApart(V[i])
  BY <1>4, <1>5, <1>6 DEF WellHeld, W
<1>15. WellHeld(n)
  BY <1>7, <1>8, <1>12, <1>13, <1>14 DEF WellHeld, V
<1>16. ASSUME NEW b, b # 0 PROVE b \in TopoOwn(n) <=> b \in TopoOwn(t) \cup Own(w)
  <2>1. ASSUME b \in TopoOwn(n) PROVE b \in TopoOwn(t) \cup Own(w)
    <3>1. CASE \E f \in ListFields : b = n[f].block
      BY <1>10, <1>16, <3>1
    <3>2. CASE \E i \in DOMAIN V : b \in WidgetBlocks(V[i])
      BY <1>4, <1>5, <1>6, <1>11, <1>16, <3>2 DEF Own
    <3> QED BY <2>1, <3>1, <3>2, OwnedIf DEF V
  <2>2. ASSUME b \in TopoOwn(t) PROVE b \in TopoOwn(n)
    <3>1. CASE \E f \in ListFields : b = t[f].block
      BY <1>7, <1>16, <3>1, OwnedIf
    <3>2. CASE \E i \in DOMAIN W : b \in WidgetBlocks(W[i])
      BY <1>6, <1>16, <3>2, OwnedIf DEF V
    <3> QED BY <1>1, <2>2, <3>1, <3>2, OwnedIf DEF W
  <2>3. ASSUME b \in Own(w) PROVE b \in TopoOwn(n)
    BY <1>4, <1>9, <1>16, <2>3, OwnedIf DEF V, Own
  <2> QED BY <2>1, <2>2, <2>3
<1>17. 0 \notin TopoOwn(n) /\ 0 \notin TopoOwn(t) \cup Own(w)
  BY DEF TopoOwn, Own
<1> QED BY <1>15, <1>16, <1>17

(* Storing an item, other than a widget, keeps the parse sound              *)
(* (ac_parse_routes, ac_parse_pcms and the like), whether the list can      *)
(* grow or not, and leaves the blocks of the step under way alone.          *)
LEMMA StoreKeeps ==
  ASSUME NEW p, NEW X, NEW c, Parsing(p, X, c), NEW f \in ListFields \ {"widgets"}, NEW item,
         f = "controls" => item.payload = 0
  PROVE  /\ Parsing(AppendTo(p, f, item), X, c)
         /\ \A x \in X : AppendTo(p, f, item).m.live[x] = p.m.live[x]
<1> DEFINE r == AppendTo(p, f, item)
           owned == TopoOwn(p.topo) \cup X
<1>1. Stored(r, p, f, item, owned, c)
  BY AppendToIs
<1> HIDE DEF r
<1>2. /\ DOMAIN r = {"m", "topo", "ok"} /\ IsTopology(r.topo)
      /\ \A g \in ListFields \ {f} : r.topo[g] = p.topo[g]
      /\ IsMemory(r.m) /\ r.ok \in BOOLEAN /\ (~r.ok => r.topo[f] = p.topo[f])
      /\ r.ok => r.topo[f].items = Append(p.topo[f].items, item)
      /\ Sound(r.m, (owned \ {p.topo[f].block}) \cup ({r.topo[f].block} \ {0}), c)
      /\ \/ r.topo[f].block = p.topo[f].block /\ r.m.live = p.m.live
         \/ /\ r.topo[f].block \notin owned \cup {c, 0} /\ r.topo[f].block \notin DOMAIN p.m.live
            /\ \A x \in DOMAIN p.m.live \ {p.topo[f].block} : x \in DOMAIN r.m.live
                          /\ r.m.live[x] = p.m.live[x]
  BY <1>1 DEF Stored, Grown
<1>3. WellHeld(p.topo) /\ X \cap TopoOwn(p.topo) = {} /\ Sound(p.m, owned, c)
  BY DEF Parsing
<1>4. X \subseteq DOMAIN p.m.live /\ 0 \notin X
  BY <1>3 DEF Sound
<1>5. Widgets(r.topo) = Widgets(p.topo)
  BY <1>2 DEF Widgets, ListFields
<1>6. f = "controls" => \A i \in DOMAIN r.topo.controls.items : r.topo.controls.items[i].payload = 0
  <2> SUFFICES ASSUME f = "controls" PROVE \A i \in DOMAIN r.topo.controls.items : r.topo.controls.items[i].payload = 0
    OBVIOUS
  <2>1. \A i \in DOMAIN p.topo.controls.items : p.topo.controls.items[i].payload = 0
    BY <1>3 DEF WellHeld
  <2>2. CASE ~r.ok
    BY <1>2, <2>1, <2>2
  <2>3. CASE r.ok
    <3> DEFINE old == p.topo.controls.items
               new == r.topo.controls.items
    <3>1. new = Append(old, item)
      BY <1>2, <2>3
    <3>2. IsSequence(old)
      BY <1>3 DEF WellHeld, IsTopology, IsList, ListFields
    <3> HIDE DEF old, new
    <3>3. Len(old) \in Nat /\ DOMAIN old = 1..Len(old) /\ DOMAIN new = 1..(Len(old) + 1)
          /\ (\A i \in 1..Len(old) : new[i] = old[i]) /\ new[Len(old) + 1] = item
      BY <3>1, <3>2, AppendIs, SequenceIs
    <3>4. \A i \in DOMAIN new : i = Len(old) + 1 \/ i \in DOMAIN old
      BY <3>3
    <3> QED BY <2>1, <3>3, <3>4 DEF old, new
  <2> QED BY <2>2, <2>3
<1>7. /\ WellHeld(r.topo) /\ X \cap TopoOwn(r.topo) = {}
      /\ TopoOwn(r.topo) \cup X = (owned \ {p.topo[f].block}) \cup ({r.topo[f].block} \ {0})
  <2>1. r.topo[f].block = p.topo[f].block \/ r.topo[f].block \notin TopoOwn(p.topo) \cup X \cup {0}
    BY <1>2
  <2> QED BY <1>2, <1>3, <1>4, <1>5, <1>6, <2>1, ListReplaced
<1>8. Parsing(r, X, c)
  BY <1>2, <1>7 DEF Parsing
<1>9. p.topo[f].block \notin X
  <2>1. IsTopology(p.topo)
    BY <1>3 DEF WellHeld
  <2>2. p.topo[f].block # 0 => p.topo[f].block \in TopoOwn(p.topo)
    BY <2>1, OwnedIf
  <2> QED BY <1>3, <1>4, <2>2
<1> QED BY <1>2, <1>4, <1>8, <1>9 DEF r

(* The same for the lists whose items hold no payload.                      *)
LEMMA OtherStoreKeeps ==
  ASSUME NEW p, NEW X, NEW c, Parsing(p, X, c), NEW f \in ListFields \ {"widgets", "controls"}, NEW item
  PROVE  /\ Parsing(AppendTo(p, f, item), X, c)
         /\ \A x \in X : AppendTo(p, f, item).m.live[x] = p.m.live[x]
BY StoreKeeps

(* Storing a widget hands its blocks to the topology; when the list         *)
(* cannot grow they stay with the caller.                                   *)
LEMMA WidgetStored ==
  ASSUME NEW p, NEW w, NEW c, Parsing(p, Own(w), c), IsWidget(w), BlocksApart(w)
  PROVE  LET r == AppendTo(p, "widgets", w)
         IN IF r.ok THEN Parsing(r, {}, c) ELSE Parsing(r, Own(w), c)
<1> DEFINE r == AppendTo(p, "widgets", w)
           X == Own(w)
           owned == TopoOwn(p.topo) \cup X
           t == p.topo
<1>1. Stored(r, p, "widgets", w, owned, c)
  BY AppendToIs DEF ListFields
<1> HIDE DEF r
<1>2. /\ DOMAIN r = {"m", "topo", "ok"} /\ IsTopology(r.topo)
      /\ \A g \in ListFields \ {"widgets"} : r.topo[g] = t[g]
      /\ IsMemory(r.m) /\ r.ok \in BOOLEAN /\ (~r.ok => r.topo.widgets = t.widgets)
      /\ r.ok => r.topo.widgets.items = Append(t.widgets.items, w)
      /\ Sound(r.m, (owned \ {t.widgets.block}) \cup ({r.topo.widgets.block} \ {0}), c)
      /\ \/ r.topo.widgets.block = t.widgets.block
         \/ r.topo.widgets.block \notin owned \cup {c, 0}
  BY <1>1 DEF Stored, Grown
<1>3. WellHeld(t) /\ X \cap TopoOwn(t) = {} /\ Sound(p.m, owned, c)
  BY DEF Parsing
<1>4. 0 \notin X
  BY DEF Own
<1>5. CASE ~r.ok
  <2>1. \A g \in ListFields : r.topo[g] = t[g]
    BY <1>2, <1>5
  <2>2. WellHeld(r.topo) /\ TopoOwn(r.topo) = TopoOwn(t)
    BY <1>2, <1>3, <2>1, SameLists
  <2>3. t.widgets.block # 0 => t.widgets.block \in TopoOwn(t)
    <3>1. IsTopology(t) /\ "widgets" \in ListFields
      BY <1>3 DEF WellHeld, ListFields
    <3> QED BY <3>1, OwnedIf
  <2>4. 0 \notin owned
    BY <1>4 DEF TopoOwn
  <2>5. (owned \ {t.widgets.block}) \cup ({r.topo.widgets.block} \ {0}) = owned
    BY <1>2, <1>5, <2>3, <2>4
  <2>6. Parsing(r, X, c)
    BY <1>2, <1>3, <2>2, <2>5 DEF Parsing
  <2> QED BY <1>5, <2>6 DEF r
<1>6. CASE r.ok
  <2> DEFINE k == [r.topo EXCEPT !.widgets = [@ EXCEPT !.items = t.widgets.items]]
  <2>1. IsTopology(k) /\ k.widgets.block = r.topo.widgets.block /\ k.widgets.items = t.widgets.items
        /\ \A g \in ListFields \ {"widgets"} : k[g] = r.topo[g]
    <3>1. DOMAIN k = ListFields \cup {"manifests", "private"}
          /\ k.widgets = [r.topo.widgets EXCEPT !.items = t.widgets.items]
          /\ \A g \in ListFields \ {"widgets"} : k[g] = r.topo[g]
      BY <1>2 DEF IsTopology, ListFields
    <3>2. IsList(r.topo.widgets) /\ IsList(t.widgets)
      BY <1>2, <1>3 DEF WellHeld, IsTopology, ListFields
    <3>3. IsList(k.widgets) /\ k.widgets.block = r.topo.widgets.block /\ k.widgets.items = t.widgets.items
      BY <3>1, <3>2 DEF IsList
    <3>4. IsTopology(k)
      BY <1>2, <3>1, <3>3 DEF IsTopology
    <3> QED BY <3>1, <3>3, <3>4
  <2> HIDE DEF k
  <2>2. /\ WellHeld(k) /\ X \cap TopoOwn(k) = {}
        /\ TopoOwn(k) \cup X = (owned \ {t.widgets.block}) \cup ({r.topo.widgets.block} \ {0})
    <3>1. "widgets" \in ListFields /\ Widgets(k) = Widgets(t)
                  /\ \A g \in ListFields \ {"widgets"} : k[g] = t[g]
      BY <1>2, <2>1 DEF ListFields, Widgets
    <3>2. k["widgets"].block = t["widgets"].block \/ k["widgets"].block \notin TopoOwn(t) \cup X \cup {0}
      BY <1>2, <2>1
    <3> HIDE DEF X, t
    <3>3. /\ WellHeld(k) /\ X \cap TopoOwn(k) = {}
          /\ TopoOwn(k) \cup X = ((TopoOwn(t) \cup X) \ {t["widgets"].block}) \cup ({k["widgets"].block} \ {0})
      BY <1>3, <1>4, <2>1, <3>1, <3>2, ListReplaced
    <3> QED BY <2>1, <3>3 DEF t
  <2>3. WellHeld(r.topo) /\ TopoOwn(r.topo) = TopoOwn(k) \cup X
    <3>1. /\ r.topo.widgets.block = k.widgets.block /\ r.topo.widgets.items = Append(k.widgets.items, w)
          /\ \A g \in ListFields \ {"widgets"} : r.topo[g] = k[g]
      BY <1>2, <1>6, <2>1
    <3> QED BY <1>2, <2>1, <2>2, <3>1, WidgetAdded
  <2>4. Parsing(r, {}, c)
    BY <1>2, <2>2, <2>3 DEF Parsing
  <2> QED BY <1>6, <2>4 DEF r
<1> QED BY <1>5, <1>6

(* The tuples of a widget are being read: the list of tokens is the only    *)
(* block owned besides.                                                     *)
Reading(t, owned, controller) ==
  /\ DOMAIN t = {"m", "list", "ok"} /\ t.ok \in BOOLEAN /\ IsMemory(t.m) /\ IsList(t.list)
  /\ t.list.block # 0 => t.list.block \notin owned /\ t.m.live[t.list.block] = "tokens"
  /\ Sound(t.m, owned \cup ({t.list.block} \ {0}), controller)

(* Reading one tuple array keeps the heap sound (ac_parse_vendor_arrays).   *)
LEMMA TupleKeeps ==
  ASSUME NEW t, NEW owned, NEW c, Reading(t, owned, c), NEW tuple
  PROVE  Reading(ParseTuple(t, tuple), owned, c)
<1>1. CASE ~t.ok
  BY <1>1 DEF ParseTuple
<1>2. CASE t.ok /\ tuple.torn
  <2>1. ParseTuple(t, tuple) = [t EXCEPT !.ok = FALSE]
    BY <1>2 DEF ParseTuple
  <2> QED BY <2>1 DEF Reading
<1>3. CASE t.ok /\ ~tuple.torn
  <2> DEFINE item == [token |-> tuple.token, value |-> tuple.value]
             r == AppendItem(t.m, t.list, item, "tokens")
             all == owned \cup ({t.list.block} \ {0})
  <2>1. ParseTuple(t, tuple) = r
    BY <1>3 DEF ParseTuple
  <2>2. IsMemory(t.m) /\ Sound(t.m, all, c) /\ IsList(t.list) /\ t.list.block \in all \cup {0}
    BY DEF Reading
  <2> HIDE DEF all, item
  <2>3. Grown(r, t.m, t.list, all, c, "tokens")
    BY <2>2, AppendItemSound
  <2> HIDE DEF r
  <2>4. /\ DOMAIN r = {"m", "list", "ok"} /\ IsMemory(r.m) /\ IsList(r.list) /\ r.ok \in BOOLEAN
        /\ Sound(r.m, (all \ {t.list.block}) \cup ({r.list.block} \ {0}), c)
        /\ \/ r.list.block = t.list.block /\ r.m.live = t.m.live
           \/ r.list.block \notin all \cup {c, 0} /\ r.m.live[r.list.block] = "tokens"
    BY <2>3 DEF Grown
  <2>5. t.list.block \notin owned
    <3>1. 0 \notin all
      BY <2>2 DEF Sound
    <3> QED BY <3>1 DEF Reading, all
  <2>6. (all \ {t.list.block}) \cup ({r.list.block} \ {0}) = owned \cup ({r.list.block} \ {0})
    BY <2>5 DEF all
  <2>7. r.list.block # 0 => r.list.block \notin owned /\ r.m.live[r.list.block] = "tokens"
    BY <2>4 DEF all, Reading
  <2> QED BY <2>1, <2>4, <2>6, <2>7 DEF Reading
<1>4. t.ok \in BOOLEAN
  BY DEF Reading
<1> QED BY <1>1, <1>2, <1>3

(* The loop over the tuple arrays of a widget.                              *)
TuplesInTurn(read, m, tuples) ==
  read[0] = [m |-> m, list |-> EmptyList, ok |-> TRUE]
                /\ \A i \in 1..Len(tuples) : read[i] = ParseTuple(read[i - 1], tuples[i])

(* ParseTuples is that loop.                                                *)
LEMMA TuplesRead ==
  ASSUME NEW m, NEW tuples, Len(tuples) \in Nat
  PROVE  \E read : TuplesInTurn(read, m, tuples) /\ ParseTuples(m, tuples) = read[Len(tuples)]
<1> DEFINE N == Len(tuples)
           start == [m |-> m, list |-> EmptyList, ok |-> TRUE]
           Step(a, i) == ParseTuple(a, tuples[i])
           Reads(g, k) == g[0] = start /\ \A i \in 1..k : g[i] = Step(g[i - 1], i)
           Unfolded(g) == [i \in 0..N |-> IF i = 0 THEN start ELSE Step(g[i - 1], i)]
           found == {k \in 0..N : \E g : Reads(g, k)}
           read[i \in 0..N] == IF i = 0 THEN start ELSE Step(read[i - 1], i)
<1>1. ParseTuples(m, tuples) = read[N]
  BY DEF ParseTuples
<1> HIDE DEF start, Step
<1>2. \A i \in 0..N : i \in found
  <2>1. 0 \in found
    <3>1. Reads([i \in {0} |-> start], 0)
      OBVIOUS
    <3> HIDE DEF Reads
    <3> QED BY <3>1
  <2>2. ASSUME NEW k \in 1..N, k - 1 \in found PROVE k \in found
    <3>1. PICK g : Reads(g, k - 1)
      BY <2>2
    <3>2. Reads([i \in 0..k |-> IF i = k THEN Step(g[k - 1], k) ELSE g[i]], k)
      BY <3>1
    <3> HIDE DEF Reads
    <3> QED BY <3>2
  <2> HIDE DEF found
  <2> QED BY <2>1, <2>2, UpTo
<1>3. PICK g : Reads(g, N)
  <2>1. N \in found
    <3> HIDE DEF found
    <3> QED BY <1>2
  <2> QED BY <2>1
<1>4. \E f : f = Unfolded(f)
  <2>1. [i \in 0..N |-> g[i]] = Unfolded([i \in 0..N |-> g[i]])
    BY <1>3
  <2> QED BY <2>1
<1>5. read = Unfolded(read)
  BY <1>4
<1>6. Reads(read, N)
  <2> HIDE DEF read
  <2>1. 0 \in 0..N /\ read[0] = start
    BY <1>5
  <2>2. ASSUME NEW i \in 1..N PROVE read[i] = Step(read[i - 1], i)
    <3>1. i \in 0..N /\ i # 0
      OBVIOUS
    <3> QED BY <3>1, <1>5
  <2> QED BY <2>1, <2>2
<1>7. TuplesInTurn(read, m, tuples)
  <2> HIDE DEF read
  <2> QED BY <1>6 DEF start, Step, TuplesInTurn
<1> QED BY <1>1, <1>7

(* Reading the tuples of a widget leaves one list of tokens, or none.       *)
LEMMA TuplesKeep ==
  ASSUME NEW m, IsMemory(m), NEW owned, NEW c, Sound(m, owned, c), NEW tuples, Len(tuples) \in Nat
  PROVE  Reading(ParseTuples(m, tuples), owned, c)
<1>1. PICK read : TuplesInTurn(read, m, tuples) /\ ParseTuples(m, tuples) = read[Len(tuples)]
  BY TuplesRead
<1>2. /\ read[0] = [m |-> m, list |-> EmptyList, ok |-> TRUE]
      /\ \A i \in 1..Len(tuples) : read[i] = ParseTuple(read[i - 1], tuples[i])
  BY <1>1 DEF TuplesInTurn
<1> DEFINE kept == {i \in 0..Len(tuples) : Reading(read[i], owned, c)}
<1>3. 0 \in kept
  <2>1. IsList(EmptyList) /\ EmptyList.block = 0
    BY EmptyIs DEF EmptyList, IsList
  <2>2. owned \cup ({0} \ {0}) = owned
    OBVIOUS
  <2>3. /\ DOMAIN read[0] = {"m", "list", "ok"} /\ read[0].ok = TRUE /\ read[0].m = m
        /\ read[0].list = EmptyList
    BY <1>2
  <2>4. Reading(read[0], owned, c)
    BY <2>1, <2>2, <2>3 DEF Reading
  <2> QED BY <2>4
<1>4. ASSUME NEW i \in 1..Len(tuples), i - 1 \in kept PROVE i \in kept
  <2>1. Reading(read[i - 1], owned, c)
    BY <1>4
  <2>2. Reading(ParseTuple(read[i - 1], tuples[i]), owned, c)
    BY <2>1, TupleKeeps
  <2> QED BY <1>2, <2>2
<1>5. Len(tuples) \in kept
  <2> HIDE DEF kept
  <2>1. \A i \in 0..Len(tuples) : i \in kept
    BY <1>3, <1>4, UpTo
  <2> QED BY <2>1
<1> QED BY <1>1, <1>5

(* A widget whose list of controls got a control owns the block of the      *)
(* new list and the payload of the control.                                 *)
LEMMA WidgetGrows ==
  ASSUME NEW w, IsWidget(w), BlocksApart(w), NEW l, IsList(l), NEW item,
         l.items = Append(w.controls.items, item),
         l.block = w.controls.block \/ l.block \notin Own(w) \cup {0, item.payload},
         item.payload \notin Own(w)
  PROVE  LET n == [w EXCEPT !.controls = l]
         IN /\ IsWidget(n) /\ BlocksApart(n)
            /\ Own(n) = (Own(w) \ {w.controls.block}) \cup ({l.block} \ {0}) \cup ({item.payload} \ {0})
<1> DEFINE old == w.controls.items
           n == [w EXCEPT !.controls = l]
<1>1. Len(old) \in Nat /\ DOMAIN old = 1..Len(old) /\ DOMAIN l.items = 1..(Len(old) + 1)
      /\ (\A i \in 1..Len(old) : l.items[i] = old[i]) /\ l.items[Len(old) + 1] = item
  <2>1. IsSequence(old)
    BY DEF IsWidget, IsList
  <2> HIDE DEF old
  <2>2. l.items = Append(old, item)
    BY DEF old
  <2> QED BY <2>1, <2>2, AppendIs, SequenceIs
<1>2. n.tokens = w.tokens /\ n.controls = l /\ IsWidget(n)
  BY DEF IsWidget
<1> HIDE DEF n, old
<1>3. \A i \in DOMAIN l.items : i = Len(old) + 1 \/ (i \in DOMAIN old /\ l.items[i] = old[i])
  BY <1>1
<1>4. Len(old) + 1 \in DOMAIN l.items /\ \A i \in DOMAIN old : i \in DOMAIN l.items /\ l.items[i] = old[i]
  BY <1>1
<1>5. w.tokens.block # 0 => w.tokens.block \in Own(w)
  BY DEF Own, WidgetBlocks
<1>6. w.controls.block # 0 => w.controls.block \in Own(w)
  BY DEF Own, WidgetBlocks
<1>7. \A i \in DOMAIN old : old[i].payload # 0 => old[i].payload \in Own(w)
  BY DEF Own, WidgetBlocks, Range, old
<1>8. n.tokens.block = n.controls.block => n.tokens.block = 0
  BY <1>2, <1>5 DEF BlocksApart
<1>9. ASSUME NEW i \in DOMAIN l.items, l.items[i].payload \in {n.tokens.block, n.controls.block},
              l.items[i].payload # 0
      PROVE  FALSE
  <2>1. CASE i = Len(old) + 1
    BY <1>1, <1>2, <1>5, <1>6, <1>9, <2>1
  <2>2. CASE i \in DOMAIN old /\ l.items[i] = old[i]
    BY <1>2, <1>7, <1>9, <2>2 DEF BlocksApart, old
  <2> QED BY <1>3, <2>1, <2>2
<1>10. ASSUME NEW i \in DOMAIN l.items, NEW j \in DOMAIN l.items, i # j,
              l.items[i].payload = l.items[j].payload, l.items[i].payload # 0
       PROVE  FALSE
  <2>1. CASE i \in DOMAIN old /\ l.items[i] = old[i] /\ j \in DOMAIN old /\ l.items[j] = old[j]
    BY <1>10, <2>1 DEF BlocksApart, old
  <2>2. CASE i = Len(old) + 1
    BY <1>1, <1>3, <1>7, <1>10, <2>2
  <2>3. CASE j = Len(old) + 1
    BY <1>1, <1>3, <1>7, <1>10, <2>3
  <2> QED BY <1>3, <2>1, <2>2, <2>3
<1>11. BlocksApart(n)
  BY <1>2, <1>8, <1>9, <1>10 DEF BlocksApart
<1>12. ASSUME NEW b, b # 0
       PROVE  b \in Own(n) <=> b \in (Own(w) \ {w.controls.block}) \cup ({l.block} \ {0}) \cup ({item.payload} \ {0})
  <2>1. b \in Own(n) <=> b = w.tokens.block \/ b = l.block
                \/ \E i \in DOMAIN l.items : b = l.items[i].payload
    BY <1>2, <1>12 DEF Own, WidgetBlocks, Range
  <2>2. b \in Own(w) <=> b = w.tokens.block \/ b = w.controls.block
                \/ \E i \in DOMAIN old : b = old[i].payload
    BY <1>12 DEF Own, WidgetBlocks, Range, old
  <2>3. (\E i \in DOMAIN l.items : b = l.items[i].payload) <=> b = item.payload
                \/ \E i \in DOMAIN old : b = old[i].payload
    BY <1>1, <1>3, <1>4
  <2>4. b = w.controls.block => b # w.tokens.block /\ \A i \in DOMAIN old : b # old[i].payload
    BY <1>12 DEF BlocksApart, old
  <2> QED BY <1>12, <2>1, <2>2, <2>3, <2>4
<1>13. 0 \notin Own(n) /\ 0 \notin Own(w)
  BY DEF Own
<1>14. Own(n) = (Own(w) \ {w.controls.block}) \cup ({l.block} \ {0}) \cup ({item.payload} \ {0})
  BY <1>12, <1>13
<1> QED BY <1>2, <1>11, <1>14 DEF n

(* Releasing a widget that is not in the topology leaves what the           *)
(* topology owns.                                                           *)
LEMMA ReleasedSound ==
  ASSUME NEW m, IsMemory(m), NEW t, NEW w, IsWidget(w), BlocksApart(w),
         NEW c, Sound(m, TopoOwn(t) \cup Own(w), c), Own(w) \cap TopoOwn(t) = {}
  PROVE  IsMemory(ReleaseWidget(m, w)) /\ Sound(ReleaseWidget(m, w), TopoOwn(t) \cup {}, c)
<1>1. WidgetBlocks(w) \subseteq (TopoOwn(t) \cup Own(w)) \cup {0}
  BY DEF Own
<1>2. Freed(ReleaseWidget(m, w), m, TopoOwn(t) \cup Own(w), WidgetBlocks(w), c)
  BY <1>1, ReleaseWidgetSound
<1>3. 0 \notin TopoOwn(t)
  BY DEF TopoOwn
<1>4. (TopoOwn(t) \cup Own(w)) \ WidgetBlocks(w) = TopoOwn(t) \cup {}
  BY <1>3 DEF Own
<1> QED BY <1>2, <1>4 DEF Freed

(* The controls of a widget are being read: the widget owns its blocks      *)
(* until the parse fails.                                                   *)
Making(q, controller) ==
  /\ DOMAIN q = {"p", "w"} /\ IsWidget(q.w) /\ BlocksApart(q.w)
  /\ IF q.p.ok THEN Parsing(q.p, Own(q.w), controller) ELSE Parsing(q.p, {}, controller)

(* Giving up a widget releases what it has (the error paths of              *)
(* ac_parse_widgets).                                                       *)
LEMMA GiveUpKeeps ==
  ASSUME NEW q, NEW c, Making(q, c), q.p.ok,
         NEW m, IsMemory(m), Sound(m, TopoOwn(q.p.topo) \cup Own(q.w), c)
  PROVE  Making(GiveUp(q, m), c)
<1> DEFINE g == GiveUp(q, m)
           r == ReleaseWidget(m, q.w)
           p == [q.p EXCEPT !.m = r, !.ok = FALSE]
<1>1. Parsing(q.p, Own(q.w), c) /\ IsWidget(q.w) /\ BlocksApart(q.w) /\ DOMAIN q = {"p", "w"}
  BY DEF Making
<1>2. DOMAIN q.p = {"m", "topo", "ok"} /\ WellHeld(q.p.topo) /\ Own(q.w) \cap TopoOwn(q.p.topo) = {}
  BY <1>1 DEF Parsing
<1>3. IsMemory(r) /\ Sound(r, TopoOwn(q.p.topo) \cup {}, c)
  BY <1>1, <1>2, ReleasedSound
<1>4. g = [q EXCEPT !.p = [[q.p EXCEPT !.m = r] EXCEPT !.ok = FALSE]]
  BY DEF GiveUp, Fail
<1> HIDE DEF g, r
<1>5. DOMAIN g = {"p", "w"} /\ g.w = q.w /\ g.p = [[q.p EXCEPT !.m = r] EXCEPT !.ok = FALSE]
  BY <1>1, <1>4
<1>6. DOMAIN g.p = {"m", "topo", "ok"} /\ g.p.m = r /\ g.p.topo = q.p.topo /\ g.p.ok = FALSE
  BY <1>2, <1>5
<1>7. Parsing(g.p, {}, c)
  BY <1>2, <1>3, <1>6 DEF Parsing
<1> QED BY <1>1, <1>5, <1>6, <1>7 DEF Making, g

(* Copying the payload of a bytes control is an allocation, or nothing.     *)
LEMMA PayloadAllocated ==
  ASSUME NEW m, IsMemory(m), NEW owned, NEW c, Sound(m, owned, c), NEW control
  PROVE  Allocated(CopyPayload(m, control), m, owned, c, "payload")
<1>1. CASE control.kind # "bytes" \/ control.data = Nil
  <2>1. CopyPayload(m, control) = [m EXCEPT !.got = 0]
    BY <1>1 DEF CopyPayload
  <2>2. /\ DOMAIN [m EXCEPT !.got = 0] = DOMAIN m /\ [m EXCEPT !.got = 0].got = 0
        /\ [m EXCEPT !.got = 0].live = m.live /\ [m EXCEPT !.got = 0].broken = m.broken
    BY DEF IsMemory
  <2> QED BY <2>1, <2>2 DEF Allocated, IsMemory, Sound
<1>2. CASE ~(control.kind # "bytes" \/ control.data = Nil)
  <2>1. CopyPayload(m, control) = Alloc(m, "payload")
    BY <1>2 DEF CopyPayload
  <2>2. Allocated(Alloc(m, "payload"), m, owned, c, "payload")
    BY AllocSound
  <2> QED BY <2>1, <2>2
<1> QED BY <1>1, <1>2

(* A control of a widget is also put into the list of the topology; when    *)
(* that fails, the widget is released.                                      *)
LEMMA ListedKeeps ==
  ASSUME NEW p, NEW w, NEW c, Parsing(p, Own(w), c), IsWidget(w), BlocksApart(w), NEW item, item.payload = 0
  PROVE  Making(ListedControl(w, AppendTo(p, "controls", item)), c)
<1> DEFINE r == AppendTo(p, "controls", item)
           l == ListedControl(w, r)
<1>1. Parsing(r, Own(w), c)
  BY StoreKeeps DEF ListFields
<1> HIDE DEF r
<1>2. l = [p |-> IF r.ok THEN r ELSE [r EXCEPT !.m = ReleaseWidget(@, w)], w |-> w]
  BY DEF ListedControl
<1> HIDE DEF l
<1>3. DOMAIN l = {"p", "w"} /\ l.w = w /\ l.p = IF r.ok THEN r ELSE [r EXCEPT !.m = ReleaseWidget(@, w)]
  BY <1>2
<1> SUFFICES Making(l, c)
  BY DEF l, r
<1>4. CASE r.ok
  BY <1>1, <1>3, <1>4 DEF Making
<1>5. CASE ~r.ok
  <2>1. /\ DOMAIN r = {"m", "topo", "ok"} /\ IsMemory(r.m) /\ WellHeld(r.topo)
        /\ Own(w) \cap TopoOwn(r.topo) = {} /\ Sound(r.m, TopoOwn(r.topo) \cup Own(w), c)
    BY <1>1 DEF Parsing
  <2>2. IsMemory(ReleaseWidget(r.m, w)) /\ Sound(ReleaseWidget(r.m, w), TopoOwn(r.topo) \cup {}, c)
    BY <2>1, ReleasedSound
  <2>3. DOMAIN l.p = {"m", "topo", "ok"} /\ l.p.m = ReleaseWidget(r.m, w) /\ l.p.topo = r.topo
                /\ l.p.ok = r.ok
    BY <1>3, <1>5, <2>1
  <2>4. Parsing(l.p, {}, c)
    BY <1>1, <2>1, <2>2, <2>3 DEF Parsing
  <2> QED BY <1>3, <1>5, <2>3, <2>4 DEF Making
<1>6. r.ok \in BOOLEAN
  BY <1>1 DEF Parsing
<1> QED BY <1>4, <1>5, <1>6

(* Reading one control of a widget, whichever of its three allocations      *)
(* fails, leaves the payload with the widget or frees it.                   *)
LEMMA ControlKeeps ==
  ASSUME NEW q, NEW c, Making(q, c), NEW control
  PROVE  Making(ParseWidgetControl(q, control), c)
<1> DEFINE a == CopyPayload(q.p.m, control)
           owned == TopoOwn(q.p.topo) \cup Own(q.w)
           kept == Control(control, a.got)
           stored == AppendItem(a, q.w.controls, kept, "widget controls")
<1>1. CASE ~q.p.ok
  BY <1>1 DEF ParseWidgetControl
<1> SUFFICES ASSUME q.p.ok PROVE Making(ParseWidgetControl(q, control), c)
  BY <1>1
<1>2. /\ Parsing(q.p, Own(q.w), c) /\ IsWidget(q.w) /\ BlocksApart(q.w) /\ DOMAIN q = {"p", "w"}
      /\ DOMAIN q.p = {"m", "topo", "ok"} /\ WellHeld(q.p.topo)
      /\ Own(q.w) \cap TopoOwn(q.p.topo) = {} /\ IsMemory(q.p.m) /\ Sound(q.p.m, owned, c)
  BY DEF Making, Parsing
<1>3. CASE control.torn
  <2>1. ParseWidgetControl(q, control) = GiveUp(q, q.p.m)
    BY <1>3 DEF ParseWidgetControl
  <2>2. Making(GiveUp(q, q.p.m), c)
    BY <1>2, GiveUpKeeps
  <2> QED BY <2>1, <2>2
<1>4. CASE ~control.torn
  <2>1. ParseWidgetControl(q, control) = CopiedControl(q, control, a)
    BY <1>4 DEF ParseWidgetControl
  <2> HIDE DEF owned
  <2>2. Allocated(a, q.p.m, owned, c, "payload")
    BY <1>2, PayloadAllocated
  <2> HIDE DEF a
  <2>3. CASE control.kind = "bytes" /\ control.data # Nil /\ a.got = 0
    <3>1. CopiedControl(q, control, a) = GiveUp(q, a)
      BY <2>3 DEF CopiedControl
    <3>2. IsMemory(a) /\ Sound(a, owned, c)
      BY <2>2, <2>3 DEF Allocated
    <3> QED BY <2>1, <3>1, <3>2, GiveUpKeeps DEF owned
  <2>4. CASE ~(control.kind = "bytes" /\ control.data # Nil /\ a.got = 0)
    <3> DEFINE all == owned \cup ({a.got} \ {0})
               list == q.w.controls
    <3>1. CopiedControl(q, control, a) = StoredControl(q, control, a.got, stored)
      BY <2>4 DEF CopiedControl
    <3>2. IsMemory(a) /\ Sound(a, all, c) /\ (a.got # 0 => a.got \notin owned)
      <4>1. CASE a.got = 0
        <5>1. all = owned
          BY <4>1
        <5> QED BY <2>2, <4>1, <5>1 DEF Allocated
      <4>2. CASE a.got # 0
        <5>1. all = owned \cup {a.got}
          BY <4>2
        <5> QED BY <2>2, <4>2, <5>1 DEF Allocated
      <4> QED BY <4>1, <4>2
    <3>3. 0 \notin all /\ 0 \notin owned
      BY <3>2 DEF Sound
    <3>4. IsList(list) /\ list.block \in Own(q.w) \cup {0} /\ list.block \in all \cup {0}
      BY <1>2 DEF IsWidget, Own, WidgetBlocks, owned
    <3>5. list.block # 0 => list.block \in Own(q.w)
      BY <3>4
    <3> HIDE DEF all, kept, list
    <3>6. /\ Grown(stored, a, list, all, c, "widget controls")
          /\ stored.ok => stored.list.items = Append(list.items, kept)
      <4> DEFINE what == "widget controls"
                 r == AppendItem(a, q.w.controls, kept, what)
      <4>1. what # "controller"
        OBVIOUS
      <4>2. IsList(q.w.controls) /\ q.w.controls.block \in all \cup {0}
        BY <3>4 DEF list
      <4> HIDE DEF what
      <4>3. /\ Grown(r, a, q.w.controls, all, c, what)
            /\ r.ok => r.list.items = Append(q.w.controls.items, kept)
        BY <3>2, <4>1, <4>2, AppendItemSound
      <4> QED BY <4>3 DEF list, what
    <3> HIDE DEF stored
    <3>7. /\ DOMAIN stored = {"m", "list", "ok"} /\ IsMemory(stored.m) /\ IsList(stored.list)
          /\ ~stored.ok => stored.list = list
          /\ Sound(stored.m, (all \ {list.block}) \cup ({stored.list.block} \ {0}), c)
          /\ stored.list.block = list.block \/ stored.list.block \notin all \cup {c, 0}
      BY <3>6 DEF Grown
    <3>8. CASE ~stored.ok
      <4>1. StoredControl(q, control, a.got, stored) = GiveUp(q, Free(stored.m, a.got))
        BY <3>8 DEF StoredControl
      <4>2. (all \ {list.block}) \cup ({stored.list.block} \ {0}) = all
        BY <3>3, <3>4, <3>7, <3>8
      <4>3. Sound(stored.m, all, c) /\ a.got \in all \cup {0}
        BY <3>7, <4>2 DEF all
      <4>4. Freed(Free(stored.m, a.got), stored.m, all, {a.got}, c)
        BY <3>7, <4>3, FreeSound
      <4>5. all \ {a.got} = owned
        BY <3>2, <3>3 DEF all
      <4>6. IsMemory(Free(stored.m, a.got)) /\ Sound(Free(stored.m, a.got), owned, c)
        BY <4>4, <4>5 DEF Freed
      <4> QED BY <2>1, <3>1, <4>1, <4>6, GiveUpKeeps DEF owned
    <3>9. CASE stored.ok
      <4> DEFINE w == [q.w EXCEPT !.controls = stored.list]
                 p == [q.p EXCEPT !.m = stored.m]
      <4>1. StoredControl(q, control, a.got, stored) =
              ListedControl(w, AppendTo(p, "controls", Summary(control, a.got)))
        BY <3>9 DEF StoredControl
      <4>2. kept.payload = a.got /\ a.got \notin Own(q.w)
        <5>1. kept.payload = a.got
          BY DEF kept, Control
        <5>2. 0 \notin Own(q.w)
          BY DEF Own
        <5> QED BY <3>2, <5>1, <5>2 DEF owned
      <4>3. stored.list.items = Append(q.w.controls.items, kept)
        BY <3>6, <3>9 DEF list
      <4>4. stored.list.block = q.w.controls.block
                    \/ stored.list.block \notin Own(q.w) \cup {0, kept.payload}
        BY <3>7, <4>2 DEF list, all, owned
      <4>5. /\ IsWidget(w) /\ BlocksApart(w)
            /\ Own(w) = (Own(q.w) \ {list.block}) \cup ({stored.list.block} \ {0}) \cup ({a.got} \ {0})
        <5>1. /\ IsWidget(w) /\ BlocksApart(w)
              /\ Own(w) = (Own(q.w) \ {q.w.controls.block}) \cup ({stored.list.block} \ {0}) \cup ({kept.payload} \ {0})
          BY <1>2, <3>7, <4>2, <4>3, <4>4, WidgetGrows
        <5> QED BY <4>2, <5>1 DEF list
      <4> HIDE DEF w
      <4>6. Own(w) \cap TopoOwn(q.p.topo) = {}
        <5>1. stored.list.block # 0 => stored.list.block \notin TopoOwn(q.p.topo)
          BY <1>2, <3>5, <3>7 DEF all, owned
        <5> QED BY <1>2, <3>2, <4>5, <5>1 DEF owned
      <4>7. (all \ {list.block}) \cup ({stored.list.block} \ {0}) = TopoOwn(q.p.topo) \cup Own(w)
        <5>1. list.block \notin TopoOwn(q.p.topo)
          BY <1>2, <3>3, <3>5 DEF owned
        <5>2. list.block # a.got \/ list.block = 0
          BY <3>2, <3>5 DEF owned
        <5> QED BY <4>5, <5>1, <5>2 DEF all, owned
      <4>8. DOMAIN p = {"m", "topo", "ok"} /\ p.m = stored.m /\ p.topo = q.p.topo /\ p.ok = q.p.ok
        BY <1>2
      <4> HIDE DEF p
      <4>9. Parsing(p, Own(w), c)
        BY <1>2, <3>7, <4>6, <4>7, <4>8 DEF Parsing
      <4>10. Summary(control, a.got).payload = 0
        BY DEF Summary, Control
      <4>11. Making(ListedControl(w, AppendTo(p, "controls", Summary(control, a.got))), c)
        BY <4>5, <4>9, <4>10, ListedKeeps
      <4> QED BY <2>1, <3>1, <4>1, <4>11
    <3> QED BY <3>8, <3>9
  <2> QED BY <2>3, <2>4
<1> QED BY <1>3, <1>4

(* The loop over the controls of a widget.                                  *)
ControlsInTurn(read, p, w, controls) ==
  read[0] = [p |-> p, w |-> w] /\ \A i \in 1..Len(controls) : read[i] = ParseWidgetControl(read[i - 1], controls[i])

(* ParseWidgetControls is that loop.                                        *)
LEMMA ControlsRead ==
  ASSUME NEW p, NEW w, NEW controls, Len(controls) \in Nat
  PROVE  \E read : ControlsInTurn(read, p, w, controls)
                /\ ParseWidgetControls(p, w, controls) = read[Len(controls)]
<1> DEFINE N == Len(controls)
           start == [p |-> p, w |-> w]
           Step(a, i) == ParseWidgetControl(a, controls[i])
           Reads(g, k) == g[0] = start /\ \A i \in 1..k : g[i] = Step(g[i - 1], i)
           Unfolded(g) == [i \in 0..N |-> IF i = 0 THEN start ELSE Step(g[i - 1], i)]
           found == {k \in 0..N : \E g : Reads(g, k)}
           read[i \in 0..N] == IF i = 0 THEN start ELSE Step(read[i - 1], i)
<1>1. ParseWidgetControls(p, w, controls) = read[N]
  BY DEF ParseWidgetControls
<1> HIDE DEF start, Step
<1>2. \A i \in 0..N : i \in found
  <2>1. 0 \in found
    <3>1. Reads([i \in {0} |-> start], 0)
      OBVIOUS
    <3> HIDE DEF Reads
    <3> QED BY <3>1
  <2>2. ASSUME NEW k \in 1..N, k - 1 \in found PROVE k \in found
    <3>1. PICK g : Reads(g, k - 1)
      BY <2>2
    <3>2. Reads([i \in 0..k |-> IF i = k THEN Step(g[k - 1], k) ELSE g[i]], k)
      BY <3>1
    <3> HIDE DEF Reads
    <3> QED BY <3>2
  <2> HIDE DEF found
  <2> QED BY <2>1, <2>2, UpTo
<1>3. PICK g : Reads(g, N)
  <2>1. N \in found
    <3> HIDE DEF found
    <3> QED BY <1>2
  <2> QED BY <2>1
<1>4. \E f : f = Unfolded(f)
  <2>1. [i \in 0..N |-> g[i]] = Unfolded([i \in 0..N |-> g[i]])
    BY <1>3
  <2> QED BY <2>1
<1>5. read = Unfolded(read)
  BY <1>4
<1>6. Reads(read, N)
  <2> HIDE DEF read
  <2>1. 0 \in 0..N /\ read[0] = start
    BY <1>5
  <2>2. ASSUME NEW i \in 1..N PROVE read[i] = Step(read[i - 1], i)
    <3>1. i \in 0..N /\ i # 0
      OBVIOUS
    <3> QED BY <3>1, <1>5
  <2> QED BY <2>1, <2>2
<1>7. ControlsInTurn(read, p, w, controls)
  <2> HIDE DEF read
  <2> QED BY <1>6 DEF start, Step, ControlsInTurn
<1> QED BY <1>1, <1>7

(* Reading the controls of a widget keeps the parse sound.                  *)
LEMMA ControlsKeep ==
  ASSUME NEW p, NEW w, NEW c, p.ok, Parsing(p, Own(w), c), IsWidget(w), BlocksApart(w),
         NEW controls, Len(controls) \in Nat
  PROVE  Making(ParseWidgetControls(p, w, controls), c)
<1>1. PICK read : ControlsInTurn(read, p, w, controls)
              /\ ParseWidgetControls(p, w, controls) = read[Len(controls)]
  BY ControlsRead
<1>2. /\ read[0] = [p |-> p, w |-> w]
      /\ \A i \in 1..Len(controls) : read[i] = ParseWidgetControl(read[i - 1], controls[i])
  BY <1>1 DEF ControlsInTurn
<1> DEFINE kept == {i \in 0..Len(controls) : Making(read[i], c)}
<1>3. 0 \in kept
  <2>1. DOMAIN read[0] = {"p", "w"} /\ read[0].p = p /\ read[0].w = w
    BY <1>2
  <2>2. Making(read[0], c)
    BY <2>1 DEF Making
  <2> QED BY <2>2
<1>4. ASSUME NEW i \in 1..Len(controls), i - 1 \in kept PROVE i \in kept
  <2>1. Making(ParseWidgetControl(read[i - 1], controls[i]), c)
    BY <1>4, ControlKeeps
  <2> QED BY <1>2, <2>1
<1>5. Len(controls) \in kept
  <2> HIDE DEF kept
  <2>1. \A i \in 0..Len(controls) : i \in kept
    BY <1>3, <1>4, UpTo
  <2> QED BY <2>1
<1> QED BY <1>1, <1>5

(* The end of a widget: the topology gets it, or it is released.            *)
LEMMA StoreWidgetKeeps ==
  ASSUME NEW q, NEW c, Making(q, c)
  PROVE  Parsing(StoreWidget(q), {}, c)
<1>1. CASE ~q.p.ok
  BY <1>1 DEF Making, StoreWidget
<1>2. CASE q.p.ok
  <2> DEFINE r == AppendTo(q.p, "widgets", q.w)
             l == ListedWidget(r, q.w)
  <2>1. Parsing(q.p, Own(q.w), c) /\ IsWidget(q.w) /\ BlocksApart(q.w)
    BY <1>2 DEF Making
  <2>2. IF r.ok THEN Parsing(r, {}, c) ELSE Parsing(r, Own(q.w), c)
    BY <2>1, WidgetStored
  <2>3. StoreWidget(q) = l
    BY <1>2 DEF StoreWidget
  <2> HIDE DEF r
  <2>4. CASE r.ok
    BY <2>2, <2>3, <2>4 DEF ListedWidget
  <2>5. CASE ~r.ok
    <3>1. /\ DOMAIN r = {"m", "topo", "ok"} /\ IsMemory(r.m) /\ WellHeld(r.topo) /\ r.ok \in BOOLEAN
          /\ Own(q.w) \cap TopoOwn(r.topo) = {} /\ Sound(r.m, TopoOwn(r.topo) \cup Own(q.w), c)
      BY <2>2, <2>5 DEF Parsing
    <3>2. IsMemory(ReleaseWidget(r.m, q.w)) /\ Sound(ReleaseWidget(r.m, q.w), TopoOwn(r.topo) \cup {}, c)
      BY <2>1, <3>1, ReleasedSound
    <3>3. l = [r EXCEPT !.m = ReleaseWidget(r.m, q.w)]
      BY <2>5 DEF ListedWidget
    <3> HIDE DEF l
    <3>4. DOMAIN l = {"m", "topo", "ok"} /\ l.m = ReleaseWidget(r.m, q.w) /\ l.topo = r.topo /\ l.ok = r.ok
      BY <3>1, <3>3
    <3>5. Parsing(l, {}, c)
      BY <3>1, <3>2, <3>4 DEF Parsing
    <3> QED BY <2>3, <3>5
  <2> QED BY <2>4, <2>5
<1> QED BY <1>1, <1>2

(* Changing a pipeline of the topology, or a count, moves no block.        *)

(* A change of the pipelines in place owns what it owned.                   *)
LEMMA PipelineChanged ==
  ASSUME NEW t, WellHeld(t), NEW n, IsTopology(n), \A g \in ListFields \ {"pipelines"} : n[g] = t[g],
         n.pipelines.block = t.pipelines.block
  PROVE  WellHeld(n) /\ TopoOwn(n) = TopoOwn(t)
<1>1. "pipelines" \in ListFields /\ Widgets(n) = Widgets(t) /\ n.controls = t.controls
  BY DEF ListFields, Widgets
<1>2. IsTopology(t)
  BY DEF WellHeld
<1>3. t.pipelines.block # 0 => t.pipelines.block \in TopoOwn(t)
  BY <1>1, <1>2, OwnedIf
<1>4. n["pipelines"].block = t["pipelines"].block
  OBVIOUS
<1>5. \A f \in ListFields : n[f].block = t[f].block
  BY <1>4
<1>6. WellHeld(n)
  BY <1>1, <1>5 DEF WellHeld
<1>7. \A b : b \in TopoOwn(n) <=> b \in TopoOwn(t)
  BY <1>1, <1>2, <1>5, OwnedIf
<1> QED BY <1>6, <1>7

(* Counting private data owns nothing.                                      *)
LEMMA CountPrivateKeeps ==
  ASSUME NEW p, NEW X, NEW c, Parsing(p, X, c), NEW item
  PROVE  /\ Parsing(CountPrivate(p, item), X, c) /\ CountPrivate(p, item).m = p.m
         /\ TopoOwn(CountPrivate(p, item).topo) = TopoOwn(p.topo)
<1>1. CASE ~item.private
  BY <1>1 DEF CountPrivate
<1>2. CASE item.private
  <2> DEFINE r == [p EXCEPT !.topo.private = @ + 1]
  <2>1. CountPrivate(p, item) = r
    BY <1>2 DEF CountPrivate
  <2>2. DOMAIN p = {"m", "topo", "ok"} /\ WellHeld(p.topo) /\ IsTopology(p.topo)
    BY DEF Parsing, WellHeld
  <2>3. DOMAIN r = {"m", "topo", "ok"} /\ r.m = p.m /\ r.ok = p.ok
                /\ r.topo = [p.topo EXCEPT !.private = @ + 1]
    BY <2>2
  <2> HIDE DEF r
  <2>4. DOMAIN r.topo = ListFields \cup {"manifests", "private"}
                /\ \A g \in ListFields : r.topo[g] = p.topo[g]
    BY <2>2, <2>3 DEF IsTopology, ListFields
  <2>5. IsTopology(r.topo)
    BY <2>2, <2>4 DEF IsTopology
  <2>6. WellHeld(r.topo) /\ TopoOwn(r.topo) = TopoOwn(p.topo)
    BY <2>2, <2>4, <2>5, SameLists
  <2>7. Parsing(r, X, c)
    BY <2>3, <2>6 DEF Parsing
  <2> QED BY <2>1, <2>3, <2>6, <2>7
<1> QED BY <1>1, <1>2

(* Counting a widget for its pipeline owns nothing.                         *)
LEMMA CountWidgetKeeps ==
  ASSUME NEW p, NEW X, NEW c, Parsing(p, X, c), NEW id, NEW w
  PROVE  Parsing(CountWidget(p, id, w), X, c) /\ CountWidget(p, id, w).ok = p.ok
<1> DEFINE k == PipelineIndex(p.topo, id)
           old == p.topo.pipelines.items
           x == Counted(old[k], w)
           new == [old EXCEPT ![k] = x]
           r == CountWidget(p, id, w)
<1>1. r = [p EXCEPT !.topo.pipelines.items[k] = x]
  BY DEF CountWidget
<1>2. DOMAIN p = {"m", "topo", "ok"} /\ WellHeld(p.topo) /\ IsTopology(p.topo)
  BY DEF Parsing, WellHeld
<1>3. IsList(p.topo.pipelines) /\ IsSequence(old)
  BY <1>2 DEF IsTopology, IsList, ListFields
<1> HIDE DEF x, k, r
<1>4. IsSequence(new)
  <2>1. Len(old) \in Nat /\ DOMAIN old = 1..Len(old)
    BY <1>3, SequenceIs
  <2>2. new = [i \in 1..Len(old) |-> new[i]]
    BY <2>1
  <2> HIDE DEF new, old
  <2> QED BY <2>1, <2>2, SequenceMade
<1>5. DOMAIN r = {"m", "topo", "ok"} /\ r.m = p.m /\ r.ok = p.ok
      /\ r.topo = [p.topo EXCEPT !.pipelines = [@ EXCEPT !.items = new]]
  BY <1>1, <1>2
<1> HIDE DEF new
<1>6. DOMAIN r.topo = ListFields \cup {"manifests", "private"}
              /\ (\A g \in ListFields \ {"pipelines"} : r.topo[g] = p.topo[g])
      /\ r.topo.pipelines = [p.topo.pipelines EXCEPT !.items = new]
  BY <1>2, <1>5 DEF IsTopology, ListFields
<1>7. IsList(r.topo.pipelines) /\ r.topo.pipelines.block = p.topo.pipelines.block
  BY <1>3, <1>4, <1>6 DEF IsList
<1>8. IsTopology(r.topo)
  BY <1>2, <1>6, <1>7 DEF IsTopology
<1>9. WellHeld(r.topo) /\ TopoOwn(r.topo) = TopoOwn(p.topo)
  BY <1>2, <1>6, <1>7, <1>8, PipelineChanged
<1>10. Parsing(r, X, c)
  BY <1>5, <1>9 DEF Parsing
<1> QED BY <1>5, <1>10 DEF r

(* Tokens that nobody keeps stay in use, and the heap is sound without     *)
(* their block.                                                            *)

(* A list of tokens that the parse forgets: the heap stays sound, as far    *)
(* as Sound asks, and the list is lost (ac_parse_widgets returns without    *)
(* it).                                                                     *)
LEMMA TokensDropped ==
  ASSUME NEW p, NEW b, NEW c, Parsing(p, {b} \ {0}, c), b # 0 => p.m.live[b] = "tokens"
  PROVE  Parsing(p, {}, c)
<1>1. Sound(p.m, TopoOwn(p.topo) \cup ({b} \ {0}), c) /\ TopoOwn(p.topo) \cap ({b} \ {0}) = {}
  BY DEF Parsing
<1>2. Sound(p.m, TopoOwn(p.topo) \cup {}, c)
  BY <1>1 DEF Sound
<1> QED BY <1>2 DEF Parsing

(* Parsing a widget, whatever fails in it, loses nothing but a list of      *)
(* tokens.                                                                  *)
LEMMA ParseWidgetKeeps ==
  ASSUME NEW p, NEW c, Parsing(p, {}, c), NEW index, NEW raw, IsWidgetItem(raw)
  PROVE  Parsing(ParseWidget(index, p, raw), {}, c)
<1> DEFINE t == ParseTuples(p.m, raw.tuples)
           b == t.list.block
           P == {b} \ {0}
<1>1. Len(raw.tuples) \in Nat /\ Len(raw.controls) \in Nat
  BY SequenceIs DEF IsWidgetItem
<1>2. IsMemory(p.m) /\ Sound(p.m, TopoOwn(p.topo), c)
  <2>1. TopoOwn(p.topo) \cup {} = TopoOwn(p.topo)
    OBVIOUS
  <2> QED BY <2>1 DEF Parsing
<1>3. Reading(t, TopoOwn(p.topo), c)
  BY <1>1, <1>2, TuplesKeep
<1>4. ParseWidget(index, p, raw) = ReadWidget(index, p, raw, t)
  BY DEF ParseWidget
<1> HIDE DEF t
<1>5. /\ t.ok \in BOOLEAN /\ IsMemory(t.m) /\ IsList(t.list)
      /\ b # 0 => b \notin TopoOwn(p.topo) /\ t.m.live[b] = "tokens"
      /\ Sound(t.m, TopoOwn(p.topo) \cup P, c)
  BY <1>3 DEF Reading
<1>6. ASSUME NEW item
      PROVE  LET r == [CountPrivate(p, item) EXCEPT !.m = t.m]
             IN Parsing(r, P, c) /\ r.m = t.m
  <2> DEFINE k == CountPrivate(p, item)
             r == [k EXCEPT !.m = t.m]
  <2>1. Parsing(k, {}, c) /\ TopoOwn(k.topo) = TopoOwn(p.topo)
    BY CountPrivateKeeps
  <2> HIDE DEF k
  <2>2. DOMAIN r = {"m", "topo", "ok"} /\ r.m = t.m /\ r.topo = k.topo /\ r.ok = k.ok
    BY <2>1 DEF Parsing
  <2> HIDE DEF r
  <2>3. Parsing(r, P, c)
    BY <1>5, <2>1, <2>2 DEF Parsing
  <2> QED BY <2>2, <2>3 DEF r, k
<1>7. CASE ~t.ok
  <2> DEFINE r == [CountPrivate(p, [private |-> TRUE]) EXCEPT !.m = t.m]
  <2>1. ReadWidget(index, p, raw, t) = [r EXCEPT !.ok = FALSE]
    BY <1>7 DEF ReadWidget, Fail
  <2>2. Parsing(r, P, c) /\ r.m = t.m
    BY <1>6
  <2> HIDE DEF r
  <2>3. Parsing(r, {}, c)
    BY <1>5, <2>2, TokensDropped
  <2>4. Parsing([r EXCEPT !.ok = FALSE], {}, c)
    BY <2>3 DEF Parsing
  <2> QED BY <1>4, <2>1, <2>4
<1>8. CASE t.ok
  <2> DEFINE r == [CountPrivate(p, [private |-> raw.tuples # <<>>]) EXCEPT !.m = t.m]
             piped == AppendPipeline(r, index)
             w == NewWidget(index, raw, t.list)
  <2>1. ReadWidget(index, p, raw, t) = PlacedWidget(piped, raw, w)
    BY <1>8 DEF ReadWidget
  <2>2. Parsing(r, P, c) /\ r.m = t.m
    BY <1>6
  <2> HIDE DEF r
  <2>3. Parsing(piped, P, c) /\ (b # 0 => piped.m.live[b] = "tokens")
    <3>1. CASE PipelineIndex(r.topo, index) # 0
      BY <1>5, <2>2, <3>1 DEF AppendPipeline
    <3>2. CASE PipelineIndex(r.topo, index) = 0
      <4> DEFINE item == NewPipeline(index)
                 s == AppendTo(r, "pipelines", item)
      <4>1. piped = s
        BY <3>2 DEF AppendPipeline
      <4>2. "pipelines" \in ListFields \ {"widgets", "controls"}
        BY DEF ListFields
      <4> HIDE DEF item, b, P
      <4>3. Parsing(s, P, c) /\ \A x \in P : s.m.live[x] = r.m.live[x]
        BY <2>2, <4>2, OtherStoreKeeps
      <4> HIDE DEF s
      <4> QED BY <1>5, <2>2, <4>1, <4>3 DEF P
    <3> QED BY <3>1, <3>2
  <2> HIDE DEF piped
  <2>4. CASE ~piped.ok
    <3>1. PlacedWidget(piped, raw, w) = piped
      BY <2>4 DEF PlacedWidget
    <3> QED BY <1>4, <2>1, <2>3, <3>1, TokensDropped
  <2>5. CASE piped.ok
    <3> DEFINE k == CountWidget(piped, w.pipeline, w)
               q == ParseWidgetControls(k, w, raw.controls)
    <3>1. PlacedWidget(piped, raw, w) = StoreWidget(q)
      BY <2>5 DEF PlacedWidget
    <3>2. IsWidget(w) /\ BlocksApart(w) /\ Own(w) = P
      <4>1. DOMAIN w = {"name", "type", "pipeline", "stream", "tokens", "controls"} /\ w.tokens = t.list
            /\ w.controls = EmptyList
        BY DEF NewWidget
      <4>2. IsList(EmptyList) /\ EmptyList.block = 0 /\ EmptyList.items = <<>>
                    /\ DOMAIN EmptyList.items = {}
        BY EmptyIs DEF EmptyList, IsList
      <4> HIDE DEF w
      <4>3. IsWidget(w)
        BY <1>5, <4>1, <4>2 DEF IsWidget
      <4>4. BlocksApart(w)
        BY <4>1, <4>2 DEF BlocksApart
      <4>5. WidgetBlocks(w) = {b, 0}
        BY <4>1, <4>2 DEF WidgetBlocks, Range
      <4>6. Own(w) = P
        BY <4>5 DEF Own
      <4> QED BY <4>3, <4>4, <4>6
    <3> HIDE DEF w
    <3>3. Parsing(k, P, c) /\ k.ok
      BY <2>3, <2>5, CountWidgetKeeps
    <3> HIDE DEF k
    <3>4. Parsing(k, Own(w), c)
      BY <3>2, <3>3
    <3>5. Making(q, c)
      BY <1>1, <3>2, <3>3, <3>4, ControlsKeep
    <3> HIDE DEF q
    <3>6. Parsing(StoreWidget(q), {}, c)
      BY <3>5, StoreWidgetKeeps
    <3> QED BY <1>4, <2>1, <3>1, <3>6
  <2> QED BY <2>4, <2>5
<1> QED BY <1>5, <1>7, <1>8

(* The manifest of a topology owns nothing.                                 *)
LEMMA ManifestKeeps ==
  ASSUME NEW p, NEW c, Parsing(p, {}, c), NEW item
  PROVE  Parsing(StoreManifest(p, item), {}, c)
<1> DEFINE k == CountPrivate(p, item)
           r == [k EXCEPT !.topo.manifests = @ + 1]
<1>1. StoreManifest(p, item) = r
  BY DEF StoreManifest
<1>2. Parsing(k, {}, c)
  BY CountPrivateKeeps
<1> HIDE DEF k
<1>3. DOMAIN k = {"m", "topo", "ok"} /\ WellHeld(k.topo) /\ IsTopology(k.topo)
  BY <1>2 DEF Parsing, WellHeld
<1>4. DOMAIN r = {"m", "topo", "ok"} /\ r.m = k.m /\ r.ok = k.ok
              /\ r.topo = [k.topo EXCEPT !.manifests = @ + 1]
  BY <1>3
<1> HIDE DEF r
<1>5. DOMAIN r.topo = ListFields \cup {"manifests", "private"}
              /\ \A g \in ListFields : r.topo[g] = k.topo[g]
  BY <1>3, <1>4 DEF IsTopology, ListFields
<1>6. IsTopology(r.topo)
  BY <1>3, <1>5 DEF IsTopology
<1>7. WellHeld(r.topo) /\ TopoOwn(r.topo) = TopoOwn(k.topo)
  BY <1>3, <1>5, <1>6, SameLists
<1>8. Parsing(r, {}, c)
  BY <1>2, <1>4, <1>7 DEF Parsing
<1> QED BY <1>1, <1>8

(* Whatever the type of its block, storing an item keeps the parse sound.   *)
LEMMA ItemStored ==
  ASSUME NEW p, NEW c, Parsing(p, {}, c), NEW block, block.type \in ItemTypes,
         NEW item, block.type = "widget" => IsWidgetItem(item)
  PROVE  Parsing(StoreItem(p, block, item), {}, c)
<1> DEFINE k == CountPrivate(p, item)
<1>1. Parsing(k, {}, c)
  BY CountPrivateKeeps
<1> HIDE DEF k
<1>2. CASE block.type = "manifest"
  <2>1. StoreItem(p, block, item) = StoreManifest(p, item)
    BY <1>2 DEF StoreItem
  <2> QED BY <2>1, ManifestKeeps
<1>3. CASE block.type = "control"
  <2> DEFINE summary == Summary(item, 0)
  <2>1. StoreItem(p, block, item) = AppendTo(p, "controls", summary)
    BY <1>3 DEF StoreItem, StoreControl
  <2>2. summary.payload = 0
    BY DEF Summary, Control
  <2> HIDE DEF summary
  <2>3. Parsing(AppendTo(p, "controls", summary), {}, c)
    BY <2>2, StoreKeeps DEF ListFields
  <2> QED BY <2>1, <2>3
<1>4. CASE block.type = "widget"
  <2>1. StoreItem(p, block, item) = ParseWidget(block.index, p, item)
    BY <1>4 DEF StoreItem
  <2> QED BY <1>4, <2>1, ParseWidgetKeeps
<1>5. CASE block.type = "graph"
  <2> DEFINE route == [sink |-> item.sink, source |-> item.source]
  <2>1. StoreItem(p, block, item) = AppendTo(p, "routes", route)
    BY <1>5 DEF StoreItem, StoreRoute
  <2>2. "routes" \in ListFields \ {"widgets", "controls"}
    BY DEF ListFields
  <2> QED BY <2>1, <2>2, OtherStoreKeeps
<1>6. CASE block.type = "pcm"
  <2>1. StoreItem(p, block, item) = AppendTo(k, "pcms", item)
    BY <1>6 DEF StoreItem, StorePcm, k
  <2>2. "pcms" \in ListFields \ {"widgets", "controls"}
    BY DEF ListFields
  <2> QED BY <1>1, <2>1, <2>2, OtherStoreKeeps
<1>7. CASE block.type = "dai"
  <2>1. StoreItem(p, block, item) = AppendTo(k, "dais", item)
    BY <1>7 DEF StoreItem, StoreDai, k
  <2>2. "dais" \in ListFields \ {"widgets", "controls"}
    BY DEF ListFields
  <2> QED BY <1>1, <2>1, <2>2, OtherStoreKeeps
<1>8. CASE block.type = "link"
  <2>1. StoreItem(p, block, item) = AppendTo(k, "links", item)
    BY <1>8 DEF StoreItem, StoreLink, k
  <2>2. "links" \in ListFields \ {"widgets", "controls"}
    BY DEF ListFields
  <2> QED BY <1>1, <2>1, <2>2, OtherStoreKeeps
<1> QED BY <1>2, <1>3, <1>4, <1>5, <1>6, <1>7, <1>8 DEF ItemTypes

(* A parse that fails keeps what it has until it is cleared.                *)
LEMMA Failed ==
  ASSUME NEW p, NEW c, Parsing(p, {}, c)
  PROVE  Parsing(Fail(p), {}, c)
<1>1. DOMAIN Fail(p) = {"m", "topo", "ok"} /\ Fail(p).m = p.m /\ Fail(p).topo = p.topo /\ Fail(p).ok = FALSE
  BY DEF Fail, Parsing
<1> QED BY <1>1 DEF Parsing

(* The same for an item that may be cut off.                                *)
LEMMA ItemKeeps ==
  ASSUME NEW p, NEW c, Parsing(p, {}, c), NEW block, block.type \in ItemTypes,
         NEW item, block.type = "widget" => IsWidgetItem(item)
  PROVE  Parsing(ParseItem(p, block, item), {}, c)
<1>1. CASE ~p.ok
  BY <1>1 DEF ParseItem
<1>2. CASE p.ok /\ item.torn
  BY <1>2, Failed DEF ParseItem
<1>3. CASE p.ok /\ ~item.torn
  BY <1>3, ItemStored DEF ParseItem
<1> QED BY <1>1, <1>2, <1>3

(* The loop over the items of a block.                                      *)
ItemsInTurn(read, p, block) ==
  read[0] = p /\ \A i \in 1..Len(block.items) : read[i] = ParseItem(read[i - 1], block, block.items[i])

(* ParseItems is that loop.                                                 *)
LEMMA ItemsRead ==
  ASSUME NEW p, NEW block, Len(block.items) \in Nat
  PROVE  \E read : ItemsInTurn(read, p, block) /\ ParseItems(p, block) = read[Len(block.items)]
<1> DEFINE N == Len(block.items)
           start == p
           Step(a, i) == ParseItem(a, block, block.items[i])
           Reads(g, k) == g[0] = start /\ \A i \in 1..k : g[i] = Step(g[i - 1], i)
           Unfolded(g) == [i \in 0..N |-> IF i = 0 THEN start ELSE Step(g[i - 1], i)]
           found == {k \in 0..N : \E g : Reads(g, k)}
           read[i \in 0..N] == IF i = 0 THEN start ELSE Step(read[i - 1], i)
<1>1. ParseItems(p, block) = read[N]
  BY DEF ParseItems
<1> HIDE DEF start, Step
<1>2. \A i \in 0..N : i \in found
  <2>1. 0 \in found
    <3>1. Reads([i \in {0} |-> start], 0)
      OBVIOUS
    <3> HIDE DEF Reads
    <3> QED BY <3>1
  <2>2. ASSUME NEW k \in 1..N, k - 1 \in found PROVE k \in found
    <3>1. PICK g : Reads(g, k - 1)
      BY <2>2
    <3>2. Reads([i \in 0..k |-> IF i = k THEN Step(g[k - 1], k) ELSE g[i]], k)
      BY <3>1
    <3> HIDE DEF Reads
    <3> QED BY <3>2
  <2> HIDE DEF found
  <2> QED BY <2>1, <2>2, UpTo
<1>3. PICK g : Reads(g, N)
  <2>1. N \in found
    <3> HIDE DEF found
    <3> QED BY <1>2
  <2> QED BY <2>1
<1>4. \E f : f = Unfolded(f)
  <2>1. [i \in 0..N |-> g[i]] = Unfolded([i \in 0..N |-> g[i]])
    BY <1>3
  <2> QED BY <2>1
<1>5. read = Unfolded(read)
  BY <1>4
<1>6. Reads(read, N)
  <2> HIDE DEF read
  <2>1. 0 \in 0..N /\ read[0] = start
    BY <1>5
  <2>2. ASSUME NEW i \in 1..N PROVE read[i] = Step(read[i - 1], i)
    <3>1. i \in 0..N /\ i # 0
      OBVIOUS
    <3> QED BY <3>1, <1>5
  <2> QED BY <2>1, <2>2
<1>7. ItemsInTurn(read, p, block)
  <2> HIDE DEF read
  <2> QED BY <1>6 DEF start, Step, ItemsInTurn
<1> QED BY <1>1, <1>7

(* Parsing the items of a block keeps the parse sound.                      *)
LEMMA ItemsKeep ==
  ASSUME NEW p, NEW c, Parsing(p, {}, c), NEW block, block.type \in ItemTypes, Len(block.items) \in Nat,
         block.type = "widget" => \A k \in 1..Len(block.items) : IsWidgetItem(block.items[k])
  PROVE  Parsing(ParseItems(p, block), {}, c)
<1> DEFINE N == Len(block.items)
<1>1. PICK read : ItemsInTurn(read, p, block) /\ ParseItems(p, block) = read[N]
  BY ItemsRead
<1>2. read[0] = p /\ \A i \in 1..N : read[i] = ParseItem(read[i - 1], block, block.items[i])
  BY <1>1 DEF ItemsInTurn
<1> DEFINE kept == {i \in 0..N : Parsing(read[i], {}, c)}
<1>3. 0 \in kept
  BY <1>2
<1>4. ASSUME NEW i \in 1..N, i - 1 \in kept PROVE i \in kept
  <2>1. Parsing(ParseItem(read[i - 1], block, block.items[i]), {}, c)
    BY <1>4, ItemKeeps
  <2> QED BY <1>2, <2>1
<1>5. N \in kept
  <2> HIDE DEF kept
  <2>1. \A i \in 0..N : i \in kept
    BY <1>3, <1>4, UpTo
  <2> QED BY <2>1
<1> QED BY <1>1, <1>5

(* Parsing a block keeps the parse sound, whatever its type.                *)
LEMMA BlockKeeps ==
  ASSUME NEW p, NEW c, Parsing(p, {}, c), NEW block, IsSequence(block.items),
         block.type = "widget" => \A k \in 1..Len(block.items) : IsWidgetItem(block.items[k])
  PROVE  Parsing(ParseBlock(p, block), {}, c)
<1>1. CASE ~p.ok
  BY <1>1 DEF ParseBlock
<1>2. CASE p.ok /\ block.torn
  BY <1>2, Failed DEF ParseBlock
<1>3. CASE p.ok /\ ~block.torn /\ block.type \in ItemTypes
  <2>1. Len(block.items) \in Nat
    BY SequenceIs
  <2> QED BY <1>3, <2>1, ItemsKeep DEF ParseBlock
<1>4. CASE p.ok /\ ~block.torn /\ block.type \notin ItemTypes
  BY <1>4, CountPrivateKeeps DEF ParseBlock
<1> QED BY <1>1, <1>2, <1>3, <1>4

(* The loop of ac_parse_topology over the blocks of a file.                 *)
BlocksInTurn(read, p, file) ==
  read[0] = p /\ \A i \in 1..Len(file) : read[i] = ParseBlock(read[i - 1], file[i])

(* ParseBlocks is that loop.                                                *)
LEMMA BlocksRead ==
  ASSUME NEW p, NEW file, Len(file) \in Nat
  PROVE  \E read : BlocksInTurn(read, p, file) /\ ParseBlocks(p, file) = read[Len(file)]
<1> DEFINE N == Len(file)
           start == p
           Step(a, i) == ParseBlock(a, file[i])
           Reads(g, k) == g[0] = start /\ \A i \in 1..k : g[i] = Step(g[i - 1], i)
           Unfolded(g) == [i \in 0..N |-> IF i = 0 THEN start ELSE Step(g[i - 1], i)]
           found == {k \in 0..N : \E g : Reads(g, k)}
           read[i \in 0..N] == IF i = 0 THEN start ELSE Step(read[i - 1], i)
<1>1. ParseBlocks(p, file) = read[N]
  BY DEF ParseBlocks
<1> HIDE DEF start, Step
<1>2. \A i \in 0..N : i \in found
  <2>1. 0 \in found
    <3>1. Reads([i \in {0} |-> start], 0)
      OBVIOUS
    <3> HIDE DEF Reads
    <3> QED BY <3>1
  <2>2. ASSUME NEW k \in 1..N, k - 1 \in found PROVE k \in found
    <3>1. PICK g : Reads(g, k - 1)
      BY <2>2
    <3>2. Reads([i \in 0..k |-> IF i = k THEN Step(g[k - 1], k) ELSE g[i]], k)
      BY <3>1
    <3> HIDE DEF Reads
    <3> QED BY <3>2
  <2> HIDE DEF found
  <2> QED BY <2>1, <2>2, UpTo
<1>3. PICK g : Reads(g, N)
  <2>1. N \in found
    <3> HIDE DEF found
    <3> QED BY <1>2
  <2> QED BY <2>1
<1>4. \E f : f = Unfolded(f)
  <2>1. [i \in 0..N |-> g[i]] = Unfolded([i \in 0..N |-> g[i]])
    BY <1>3
  <2> QED BY <2>1
<1>5. read = Unfolded(read)
  BY <1>4
<1>6. Reads(read, N)
  <2> HIDE DEF read
  <2>1. 0 \in 0..N /\ read[0] = start
    BY <1>5
  <2>2. ASSUME NEW i \in 1..N PROVE read[i] = Step(read[i - 1], i)
    <3>1. i \in 0..N /\ i # 0
      OBVIOUS
    <3> QED BY <3>1, <1>5
  <2> QED BY <2>1, <2>2
<1>7. BlocksInTurn(read, p, file)
  <2> HIDE DEF read
  <2> QED BY <1>6 DEF start, Step, BlocksInTurn
<1> QED BY <1>1, <1>7

(* Parsing all blocks of a file keeps the parse sound.                      *)
LEMMA BlocksKeep ==
  ASSUME NEW p, NEW c, Parsing(p, {}, c), NEW file, IsFile(file)
  PROVE  Parsing(ParseBlocks(p, file), {}, c)
<1> DEFINE N == Len(file)
<1>1. N \in Nat
  BY SequenceIs DEF IsFile
<1>2. PICK read : BlocksInTurn(read, p, file) /\ ParseBlocks(p, file) = read[N]
  BY <1>1, BlocksRead
<1>3. read[0] = p /\ \A i \in 1..N : read[i] = ParseBlock(read[i - 1], file[i])
  BY <1>2 DEF BlocksInTurn
<1> DEFINE kept == {i \in 0..N : Parsing(read[i], {}, c)}
<1>4. 0 \in kept
  BY <1>1, <1>3
<1>5. ASSUME NEW i \in 1..N, i - 1 \in kept PROVE i \in kept
  <2>1. /\ IsSequence(file[i].items)
        /\ file[i].type = "widget" => \A k \in 1..Len(file[i].items) : IsWidgetItem(file[i].items[k])
    BY DEF IsFile
  <2>2. Parsing(ParseBlock(read[i - 1], file[i]), {}, c)
    BY <1>5, <2>1, BlockKeeps
  <2> QED BY <1>3, <2>2
<1>6. N \in kept
  <2> HIDE DEF kept
  <2>1. \A i \in 0..N : i \in kept
    BY <1>1, <1>4, <1>5, UpTo
  <2> QED BY <1>1, <2>1
<1> QED BY <1>2, <1>6

(* What ac_parse_topology works out at the end changes the pipelines in     *)
(* place.                                                                   *)
LEMMA FinishKeeps ==
  ASSUME NEW p, NEW c, Parsing(p, {}, c)
  PROVE  Parsing(Finish(p), {}, c)
<1>1. CASE ~p.ok
  BY <1>1 DEF Finish
<1>2. CASE p.ok
  <2> DEFINE old == p.topo.pipelines.items
             done(pl) == [pl EXCEPT !.channels = CapsOf(p.topo, pl),
                           !.routes = Cardinality(RoutesOf(p.topo, pl))]
             new == [i \in 1..Len(old) |-> done(old[i])]
             r == [p EXCEPT !.topo.pipelines.items = new]
  <2>1. Finish(p) = r
    BY <1>2 DEF Finish, Mapped
  <2>2. DOMAIN p = {"m", "topo", "ok"} /\ WellHeld(p.topo) /\ IsTopology(p.topo)
    BY DEF Parsing, WellHeld
  <2>3. IsList(p.topo.pipelines) /\ IsSequence(old)
    BY <2>2 DEF IsTopology, IsList, ListFields
  <2> HIDE DEF done
  <2>4. IsSequence(new)
    <3>1. Len(old) \in Nat
      BY <2>3, SequenceIs
    <3>2. new = [i \in 1..Len(old) |-> new[i]]
      OBVIOUS
    <3> HIDE DEF new, old
    <3> QED BY <3>1, <3>2, SequenceMade
  <2> HIDE DEF new
  <2>5. DOMAIN r = {"m", "topo", "ok"} /\ r.m = p.m /\ r.ok = p.ok
        /\ r.topo = [p.topo EXCEPT !.pipelines = [@ EXCEPT !.items = new]]
    BY <2>2
  <2> HIDE DEF r
  <2>6. DOMAIN r.topo = ListFields \cup {"manifests", "private"}
        /\ (\A g \in ListFields \ {"pipelines"} : r.topo[g] = p.topo[g])
        /\ r.topo.pipelines = [p.topo.pipelines EXCEPT !.items = new]
    BY <2>2, <2>5 DEF IsTopology, ListFields
  <2>7. IsList(r.topo.pipelines) /\ r.topo.pipelines.block = p.topo.pipelines.block
    BY <2>3, <2>4, <2>6 DEF IsList
  <2>8. IsTopology(r.topo)
    BY <2>2, <2>6, <2>7 DEF IsTopology
  <2>9. WellHeld(r.topo) /\ TopoOwn(r.topo) = TopoOwn(p.topo)
    BY <2>2, <2>6, <2>7, <2>8, PipelineChanged
  <2>10. Parsing(r, {}, c)
    BY <2>5, <2>9 DEF Parsing
  <2> QED BY <2>1, <2>10
<1> QED BY <1>1, <1>2

(* An empty topology owns nothing.                                          *)
LEMMA EmptyWellHeld == WellHeld(EmptyTopology) /\ TopoOwn(EmptyTopology) = {}
<1> DEFINE t == EmptyTopology
<1>1. IsList(EmptyList) /\ EmptyList.block = 0 /\ EmptyList.items = <<>> /\ DOMAIN EmptyList.items = {}
  BY EmptyIs DEF EmptyList, IsList
<1>2. DOMAIN t = ListFields \cup {"manifests", "private"} /\ \A f \in ListFields : t[f] = EmptyList
  BY DEF EmptyTopology, ListFields
<1>3. t.widgets = EmptyList /\ t.controls = EmptyList
  BY DEF EmptyTopology
<1> HIDE DEF t
<1>4. IsTopology(t)
  BY <1>1, <1>2 DEF IsTopology
<1>5. WellHeld(t)
  BY <1>1, <1>2, <1>3, <1>4 DEF WellHeld, Widgets
<1>6. \A b : b \notin TopoOwn(t)
  BY <1>1, <1>2, <1>3, <1>4, OwnedIf DEF Widgets
<1> QED BY <1>5, <1>6 DEF t

(* ac_parse_topology: it clears the old topology, and whatever fails in     *)
(* the new one, the new one owns all that is in use but lists of tokens.    *)
LEMMA TopologyParsed ==
  ASSUME NEW m, IsMemory(m), NEW t, WellHeld(t), NEW c, Sound(m, TopoOwn(t), c), NEW file, IsFile(file)
  PROVE  Parsing(ParseTopology(m, t, file), {}, c)
<1> DEFINE start == [m |-> ClearTopology(m, t), topo |-> EmptyTopology, ok |-> TRUE]
<1>1. IsMemory(ClearTopology(m, t)) /\ Sound(ClearTopology(m, t), {}, c)
  BY ClearTopologySound
<1>2. DOMAIN start = {"m", "topo", "ok"} /\ start.m = ClearTopology(m, t)
              /\ start.topo = EmptyTopology /\ start.ok = TRUE
  OBVIOUS
<1>3. ParseTopology(m, t, file) = Finish(ParseBlocks(start, file))
  BY DEF ParseTopology
<1> HIDE DEF start
<1>4. Parsing(start, {}, c)
  <2>1. TopoOwn(EmptyTopology) \cup {} = {}
    BY EmptyWellHeld
  <2> QED BY <1>1, <1>2, <2>1, EmptyWellHeld DEF Parsing
<1>5. Parsing(ParseBlocks(start, file), {}, c)
  BY <1>4, BlocksKeep
<1> QED BY <1>3, <1>5, FinishKeeps

(* A block that is allocated and freed again leaves the heap as sound as    *)
(* it was.                                                                  *)
LEMMA AllocThenFree ==
  ASSUME NEW m, IsMemory(m), NEW owned, NEW c, Sound(m, owned, c), NEW what, what # "controller"
  PROVE  LET a == Alloc(m, what) IN IsMemory(Free(a, a.got)) /\ Sound(Free(a, a.got), owned, c)
<1> DEFINE a == Alloc(m, what)
           all == owned \cup ({a.got} \ {0})
<1>1. Allocated(a, m, owned, c, what)
  BY AllocSound
<1> HIDE DEF a
<1>2. IsMemory(a) /\ Sound(a, all, c) /\ (a.got # 0 => a.got \notin owned)
  <2>1. CASE a.got = 0
    <3>1. all = owned
      BY <2>1
    <3> QED BY <1>1, <2>1, <3>1 DEF Allocated
  <2>2. CASE a.got # 0
    <3>1. all = owned \cup {a.got}
      BY <2>2
    <3> QED BY <1>1, <2>2, <3>1 DEF Allocated
  <2> QED BY <2>1, <2>2
<1>3. 0 \notin all
  BY <1>2 DEF Sound
<1>4. a.got \in all \cup {0} /\ all \ {a.got} = owned
  BY <1>2, <1>3
<1> HIDE DEF all
<1>5. Freed(Free(a, a.got), a, all, {a.got}, c)
  BY <1>2, <1>4, FreeSound
<1> QED BY <1>4, <1>5 DEF Freed, a

(* Control data is being sent: the message is freed before the next one.    *)
Applying(a, owned, controller) ==
  DOMAIN a = {"m", "ok"} /\ a.ok \in BOOLEAN /\ IsMemory(a.m) /\ Sound(a.m, owned, controller)

(* Sending one payload (sof_ctrl_set) owns nothing afterwards, whether      *)
(* SOF takes it or not.                                                     *)
LEMMA ControlApplied ==
  ASSUME NEW a, NEW owned, NEW c, Applying(a, owned, c), NEW control, NEW refused
  PROVE  Applying(ApplyControl(a, control, refused), owned, c)
<1> DEFINE m == Alloc(a.m, "control message")
           r == ApplyControl(a, control, refused)
<1>1. DOMAIN a = {"m", "ok"} /\ a.ok \in BOOLEAN /\ IsMemory(a.m) /\ Sound(a.m, owned, c)
  BY DEF Applying
<1>2. IsMemory(Free(m, m.got)) /\ Sound(Free(m, m.got), owned, c)
  <2> DEFINE what == "control message"
  <2>1. what # "controller"
    OBVIOUS
  <2> HIDE DEF what
  <2>2. IsMemory(Free(Alloc(a.m, what), Alloc(a.m, what).got))
                /\ Sound(Free(Alloc(a.m, what), Alloc(a.m, what).got), owned, c)
    BY <1>1, <2>1, AllocThenFree
  <2> QED BY <2>2 DEF what
<1>3. CASE ~a.ok \/ control.data = Nil
  <2>1. r = a
    BY <1>3 DEF ApplyControl
  <2> QED BY <2>1
<1>4. CASE a.ok /\ control.data # Nil /\ control.data = BadHeader
  <2>1. r = [a EXCEPT !.ok = FALSE]
    BY <1>4 DEF ApplyControl
  <2> HIDE DEF r
  <2>2. DOMAIN r = {"m", "ok"} /\ r.ok = FALSE /\ r.m = a.m
    BY <1>1, <2>1
  <2> QED BY <1>1, <2>2 DEF Applying, r
<1>5. CASE a.ok /\ control.data # Nil /\ control.data # BadHeader
  <2>1. r = [m |-> Free(m, m.got), ok |-> m.got # 0 /\ ~refused]
    BY <1>5 DEF ApplyControl, SendMessage
  <2> HIDE DEF r, m
  <2>2. DOMAIN r = {"m", "ok"} /\ r.m = Free(m, m.got)
    BY <2>1
  <2>3. r.ok \in BOOLEAN
    BY <2>1
  <2>4. Applying(r, owned, c)
    BY <1>2, <2>2, <2>3 DEF Applying
  <2> QED BY <2>4 DEF r
<1> QED BY <1>1, <1>3, <1>4, <1>5

(* The loop over the controls of a widget that is installed.                *)
AppliedInTurn(applied, a, controls, refused) ==
  applied[0] = a /\ \A i \in 1..Len(controls) : applied[i] = ApplyControl(applied[i - 1],
                controls[i], refused)

(* ApplyWidget is that loop.                                                *)
LEMMA WidgetApplied ==
  ASSUME NEW a, NEW controls, NEW refused, Len(controls) \in Nat
  PROVE  \E applied : AppliedInTurn(applied, a, controls, refused)
                /\ ApplyWidget(a, controls, refused) = applied[Len(controls)]
<1> DEFINE N == Len(controls)
           start == a
           Step(b, i) == ApplyControl(b, controls[i], refused)
           Reads(g, k) == g[0] = start /\ \A i \in 1..k : g[i] = Step(g[i - 1], i)
           Unfolded(g) == [i \in 0..N |-> IF i = 0 THEN start ELSE Step(g[i - 1], i)]
           found == {k \in 0..N : \E g : Reads(g, k)}
           applied[i \in 0..N] == IF i = 0 THEN start ELSE Step(applied[i - 1], i)
<1>1. ApplyWidget(a, controls, refused) = applied[N]
  BY DEF ApplyWidget
<1> HIDE DEF start, Step
<1>2. \A i \in 0..N : i \in found
  <2>1. 0 \in found
    <3>1. Reads([i \in {0} |-> start], 0)
      OBVIOUS
    <3> HIDE DEF Reads
    <3> QED BY <3>1
  <2>2. ASSUME NEW k \in 1..N, k - 1 \in found PROVE k \in found
    <3>1. PICK g : Reads(g, k - 1)
      BY <2>2
    <3>2. Reads([i \in 0..k |-> IF i = k THEN Step(g[k - 1], k) ELSE g[i]], k)
      BY <3>1
    <3> HIDE DEF Reads
    <3> QED BY <3>2
  <2> HIDE DEF found
  <2> QED BY <2>1, <2>2, UpTo
<1>3. PICK g : Reads(g, N)
  <2>1. N \in found
    <3> HIDE DEF found
    <3> QED BY <1>2
  <2> QED BY <2>1
<1>4. \E f : f = Unfolded(f)
  <2>1. [i \in 0..N |-> g[i]] = Unfolded([i \in 0..N |-> g[i]])
    BY <1>3
  <2> QED BY <2>1
<1>5. applied = Unfolded(applied)
  BY <1>4
<1>6. Reads(applied, N)
  <2> HIDE DEF applied
  <2>1. 0 \in 0..N /\ applied[0] = start
    BY <1>5
  <2>2. ASSUME NEW i \in 1..N PROVE applied[i] = Step(applied[i - 1], i)
    <3>1. i \in 0..N /\ i # 0
      OBVIOUS
    <3> QED BY <3>1, <1>5
  <2> QED BY <2>1, <2>2
<1>7. AppliedInTurn(applied, a, controls, refused)
  <2> HIDE DEF applied
  <2> QED BY <1>6 DEF start, Step, AppliedInTurn
<1> QED BY <1>1, <1>7

(* Sending all payloads of a widget owns nothing afterwards.                *)
LEMMA WidgetApplies ==
  ASSUME NEW a, NEW owned, NEW c, Applying(a, owned, c), NEW controls, Len(controls) \in Nat, NEW refused
  PROVE  Applying(ApplyWidget(a, controls, refused), owned, c)
<1> DEFINE N == Len(controls)
<1>1. PICK applied : AppliedInTurn(applied, a, controls, refused)
              /\ ApplyWidget(a, controls, refused) = applied[N]
  BY WidgetApplied
<1>2. applied[0] = a /\ \A i \in 1..N : applied[i] = ApplyControl(applied[i - 1], controls[i], refused)
  BY <1>1 DEF AppliedInTurn
<1> DEFINE kept == {i \in 0..N : Applying(applied[i], owned, c)}
<1>3. 0 \in kept
  BY <1>2
<1>4. ASSUME NEW i \in 1..N, i - 1 \in kept PROVE i \in kept
  <2>1. Applying(ApplyControl(applied[i - 1], controls[i], refused), owned, c)
    BY <1>4, ControlApplied
  <2> QED BY <1>2, <2>1
<1>5. N \in kept
  <2> HIDE DEF kept
  <2>1. \A i \in 0..N : i \in kept
    BY <1>3, <1>4, UpTo
  <2> QED BY <2>1
<1> QED BY <1>1, <1>5

(* The loop of ac_apply_widget_controls over the widgets.                   *)
WidgetsInTurn(applied, m, topo, id, fault) ==
  applied[0] = [m |-> m, ok |-> TRUE] /\ \A i \in 1..Len(Widgets(topo)) : applied[i] = ApplyNext(applied[i - 1], topo, id, i, fault)

(* ApplyControls is that loop.                                              *)
LEMMA ControlsApplied ==
  ASSUME NEW m, NEW topo, NEW id, NEW fault, Len(Widgets(topo)) \in Nat
  PROVE  \E applied : WidgetsInTurn(applied, m, topo, id, fault)
                /\ ApplyControls(m, topo, id, fault) = applied[Len(Widgets(topo))]
<1> DEFINE N == Len(Widgets(topo))
           start == [m |-> m, ok |-> TRUE]
           Step(a, i) == ApplyNext(a, topo, id, i, fault)
           Reads(g, k) == g[0] = start /\ \A i \in 1..k : g[i] = Step(g[i - 1], i)
           Unfolded(g) == [i \in 0..N |-> IF i = 0 THEN start ELSE Step(g[i - 1], i)]
           found == {k \in 0..N : \E g : Reads(g, k)}
           applied[i \in 0..N] == IF i = 0 THEN start ELSE Step(applied[i - 1], i)
<1>1. ApplyControls(m, topo, id, fault) = applied[N]
  BY DEF ApplyControls
<1> HIDE DEF start, Step
<1>2. \A i \in 0..N : i \in found
  <2>1. 0 \in found
    <3>1. Reads([i \in {0} |-> start], 0)
      OBVIOUS
    <3> HIDE DEF Reads
    <3> QED BY <3>1
  <2>2. ASSUME NEW k \in 1..N, k - 1 \in found PROVE k \in found
    <3>1. PICK g : Reads(g, k - 1)
      BY <2>2
    <3>2. Reads([i \in 0..k |-> IF i = k THEN Step(g[k - 1], k) ELSE g[i]], k)
      BY <3>1
    <3> HIDE DEF Reads
    <3> QED BY <3>2
  <2> HIDE DEF found
  <2> QED BY <2>1, <2>2, UpTo
<1>3. PICK g : Reads(g, N)
  <2>1. N \in found
    <3> HIDE DEF found
    <3> QED BY <1>2
  <2> QED BY <2>1
<1>4. \E f : f = Unfolded(f)
  <2>1. [i \in 0..N |-> g[i]] = Unfolded([i \in 0..N |-> g[i]])
    BY <1>3
  <2> QED BY <2>1
<1>5. applied = Unfolded(applied)
  BY <1>4
<1>6. Reads(applied, N)
  <2> HIDE DEF applied
  <2>1. 0 \in 0..N /\ applied[0] = start
    BY <1>5
  <2>2. ASSUME NEW i \in 1..N PROVE applied[i] = Step(applied[i - 1], i)
    <3>1. i \in 0..N /\ i # 0
      OBVIOUS
    <3> QED BY <3>1, <1>5
  <2> QED BY <2>1, <2>2
<1>7. WidgetsInTurn(applied, m, topo, id, fault)
  <2> HIDE DEF applied
  <2> QED BY <1>6 DEF start, Step, WidgetsInTurn
<1> QED BY <1>1, <1>7

(* ac_apply_widget_controls owns nothing afterwards.                        *)
LEMMA ControlsApply ==
  ASSUME NEW m, IsMemory(m), NEW owned, NEW c, Sound(m, owned, c),
         NEW topo, WellHeld(topo), NEW id, NEW fault
  PROVE  Applying(ApplyControls(m, topo, id, fault), owned, c)
<1> DEFINE N == Len(Widgets(topo))
<1>1. N \in Nat /\ DOMAIN Widgets(topo) = 1..N
  BY SequenceIs DEF WellHeld, IsTopology, IsList, Widgets, ListFields
<1>2. PICK applied : WidgetsInTurn(applied, m, topo, id, fault)
              /\ ApplyControls(m, topo, id, fault) = applied[N]
  BY <1>1, ControlsApplied
<1>3. applied[0] = [m |-> m, ok |-> TRUE]
              /\ \A i \in 1..N : applied[i] = ApplyNext(applied[i - 1], topo, id, i, fault)
  BY <1>2 DEF WidgetsInTurn
<1> DEFINE kept == {i \in 0..N : Applying(applied[i], owned, c)}
<1>4. 0 \in kept
  <2>1. DOMAIN applied[0] = {"m", "ok"} /\ applied[0].m = m /\ applied[0].ok = TRUE
    BY <1>3
  <2>2. Applying(applied[0], owned, c)
    BY <2>1 DEF Applying
  <2> QED BY <1>1, <2>2
<1>5. ASSUME NEW i \in 1..N, i - 1 \in kept PROVE i \in kept
  <2> DEFINE before == applied[i - 1]
             controls == Widgets(topo)[i].controls.items
             refused == fault = [call |-> "ctrl", at |-> CompId(topo, id, i)]
  <2>1. Applying(before, owned, c)
    BY <1>5
  <2>2. Len(controls) \in Nat
    <3>1. IsWidget(Widgets(topo)[i])
      BY <1>1 DEF WellHeld
    <3> QED BY <3>1, SequenceIs DEF IsWidget, IsList
  <2> HIDE DEF before, controls, refused
  <2>3. Applying(ApplyWidget(before, controls, refused), owned, c)
    BY <2>1, <2>2, WidgetApplies
  <2>4. ApplyNext(before, topo, id, i, fault) = before
        \/ ApplyNext(before, topo, id, i, fault) = ApplyWidget(before, controls, refused)
    BY DEF ApplyNext, controls, refused
  <2>5. applied[i] = ApplyNext(before, topo, id, i, fault)
    BY <1>3 DEF before
  <2>6. Applying(applied[i], owned, c)
    BY <2>1, <2>3, <2>4, <2>5
  <2> QED BY <2>6
<1>6. N \in kept
  <2> HIDE DEF kept
  <2>1. \A i \in 0..N : i \in kept
    BY <1>1, <1>4, <1>5, UpTo
  <2> QED BY <1>1, <2>1
<1> QED BY <1>2, <1>6

(* The ids of some pipes or pipelines.                                      *)
Ids(some) == {pipe.id : pipe \in some}

(* An installation in progress owns no memory between two pipelines.        *)
Installing(s, owned, controller) ==
  DOMAIN s = {"m", "pipes", "ok"} /\ s.ok \in BOOLEAN /\ IsMemory(s.m) /\ Sound(s.m, owned, controller)

(* Installing a pipeline adds its pipe, or none.                            *)
Added(r, s, id) == IF r.ok THEN Ids(r.pipes) = Ids(s.pipes) \cup {id} ELSE r.pipes = s.pipes

(* ac_install_one_pipeline: the array of component ids is freed on every    *)
(* path, and a pipe stays only if all of it succeeded.                      *)
LEMMA InstallOneKeeps ==
  ASSUME NEW s, NEW owned, NEW c, Installing(s, owned, c), NEW topo, WellHeld(topo), NEW pl, NEW fault
  PROVE  Installing(InstallOne(s, topo, pl, fault), owned, c)
                /\ Added(InstallOne(s, topo, pl, fault), s, pl.id)
<1> DEFINE r == InstallOne(s, topo, pl, fault)
           a == Alloc(s.m, "component ids")
<1>1. DOMAIN s = {"m", "pipes", "ok"} /\ s.ok \in BOOLEAN /\ IsMemory(s.m) /\ Sound(s.m, owned, c)
  BY DEF Installing
<1>2. ASSUME NEW m, IsMemory(m), Sound(m, owned, c), NEW x, x = [s EXCEPT !.m = m, !.ok = FALSE]
      PROVE  Installing(x, owned, c) /\ Added(x, s, pl.id)
  <2>1. DOMAIN x = {"m", "pipes", "ok"} /\ x.ok = FALSE /\ x.m = m /\ x.pipes = s.pipes
    BY <1>1, <1>2
  <2> QED BY <1>2, <2>1 DEF Installing, Added
<1>3. CASE FindScheduler(topo, pl.id) = 0
  <2>1. r = [s EXCEPT !.ok = FALSE]
    BY <1>3 DEF InstallOne
  <2> HIDE DEF r
  <2>2. DOMAIN r = {"m", "pipes", "ok"} /\ r.ok = FALSE /\ r.m = s.m /\ r.pipes = s.pipes
    BY <1>1, <2>1
  <2>3. Installing(r, owned, c) /\ Added(r, s, pl.id)
    BY <1>1, <2>2 DEF Installing, Added
  <2> QED BY <2>3 DEF r
<1>4. CASE FindScheduler(topo, pl.id) # 0
  <2>1. r = InstallWith(s, topo, pl, fault, a)
    BY <1>4 DEF InstallOne
  <2>2. Allocated(a, s.m, owned, c, "component ids")
    <3> DEFINE what == "component ids"
    <3>1. what # "controller"
      OBVIOUS
    <3> HIDE DEF what
    <3>2. Allocated(Alloc(s.m, what), s.m, owned, c, what)
      BY <1>1, <3>1, AllocSound
    <3> QED BY <3>2 DEF what
  <2> HIDE DEF a
  <2>3. CASE a.got = 0
    <3>1. r = [s EXCEPT !.m = a, !.ok = FALSE]
      BY <2>1, <2>3 DEF InstallWith
    <3>2. IsMemory(a) /\ Sound(a, owned, c)
      BY <2>2, <2>3 DEF Allocated
    <3> HIDE DEF r
    <3>3. Installing(r, owned, c) /\ Added(r, s, pl.id)
      BY <1>2, <3>1, <3>2
    <3> QED BY <3>3 DEF r
  <2>4. CASE a.got # 0
    <3> DEFINE all == owned \cup {a.got}
               set == ApplyControls(a, topo, pl.id, fault)
               refused == \/ ~IdsFit(topo, pl.id) \/ fault = [call |-> "pipe", at |-> pl.id]
                          \/ \E i \in Components(topo, pl.id) : ~Addable(topo, pl.id, i, fault)
    <3>1. IsMemory(a) /\ Sound(a, all, c) /\ a.got \notin owned
      BY <2>2, <2>4 DEF Allocated
    <3>2. a.got \in all \cup {0} /\ all \ {a.got} = owned
      BY <3>1
    <3> HIDE DEF all
    <3>3. r = IF refused THEN [s EXCEPT !.m = Free(a, a.got), !.ok = FALSE] ELSE SetUp(s, topo, pl,
                  a.got, set)
      BY <2>1, <2>4 DEF InstallWith
    <3> HIDE DEF refused, r
    <3>4. CASE refused
      <4>1. Freed(Free(a, a.got), a, all, {a.got}, c)
        BY <3>1, <3>2, FreeSound
      <4>2. IsMemory(Free(a, a.got)) /\ Sound(Free(a, a.got), owned, c)
        BY <3>2, <4>1 DEF Freed
      <4>3. r = [s EXCEPT !.m = Free(a, a.got), !.ok = FALSE]
        BY <3>3, <3>4
      <4>4. Installing(r, owned, c) /\ Added(r, s, pl.id)
        BY <1>2, <4>2, <4>3
      <4> QED BY <4>4 DEF r
    <3>5. CASE ~refused
      <4>1. Applying(set, all, c)
        BY <3>1, ControlsApply
      <4> HIDE DEF set
      <4>2. set.ok \in BOOLEAN /\ IsMemory(set.m) /\ Sound(set.m, all, c)
        BY <4>1 DEF Applying
      <4>3. Freed(Free(set.m, a.got), set.m, all, {a.got}, c)
        BY <3>2, <4>2, FreeSound
      <4>4. IsMemory(Free(set.m, a.got)) /\ Sound(Free(set.m, a.got), owned, c)
        BY <3>2, <4>3 DEF Freed
      <4> DEFINE new == PipeOf(topo, pl)
      <4>5. r = [m |-> Free(set.m, a.got), ok |-> set.ok,
                    pipes |-> IF set.ok THEN s.pipes \cup {new} ELSE s.pipes]
        BY <3>3, <3>5 DEF SetUp
      <4>6. new.id = pl.id
        BY DEF PipeOf
      <4> HIDE DEF new
      <4>7. DOMAIN r = {"m", "pipes", "ok"} /\ r.m = Free(set.m, a.got) /\ r.ok = set.ok
            /\ r.pipes = IF set.ok THEN s.pipes \cup {new} ELSE s.pipes
        BY <4>5
      <4>8. Ids(s.pipes \cup {new}) = Ids(s.pipes) \cup {pl.id}
        BY <4>6 DEF Ids
      <4>9. Installing(r, owned, c) /\ Added(r, s, pl.id)
        BY <4>2, <4>4, <4>7, <4>8 DEF Installing, Added
      <4> QED BY <4>9 DEF r
    <3> QED BY <3>4, <3>5
  <2> QED BY <2>3, <2>4
<1> QED BY <1>3, <1>4

(* The loop of audio_controller_install_all over the pipelines.             *)
PipelinesInTurn(s, m, topo, fault) ==
  s[0] = [m |-> m, pipes |-> {}, ok |-> TRUE]
                /\ \A i \in 1..Len(topo.pipelines.items) : s[i] = InstallNext(s[i - 1], topo,
                              topo.pipelines.items[i], fault)

(* InstallUpTo is that loop.                                                *)
LEMMA PipelinesInstalled ==
  ASSUME NEW m, NEW topo, NEW fault, Len(topo.pipelines.items) \in Nat
  PROVE  \E s : PipelinesInTurn(s, m, topo, fault)
                /\ InstallUpTo(m, topo, fault) = s[Len(topo.pipelines.items)]
<1> DEFINE N == Len(topo.pipelines.items)
           start == [m |-> m, pipes |-> {}, ok |-> TRUE]
           Step(a, i) == InstallNext(a, topo, topo.pipelines.items[i], fault)
           Reads(g, k) == g[0] = start /\ \A i \in 1..k : g[i] = Step(g[i - 1], i)
           Unfolded(g) == [i \in 0..N |-> IF i = 0 THEN start ELSE Step(g[i - 1], i)]
           found == {k \in 0..N : \E g : Reads(g, k)}
           s[i \in 0..N] == IF i = 0 THEN start ELSE Step(s[i - 1], i)
<1>1. InstallUpTo(m, topo, fault) = s[N]
  BY DEF InstallUpTo
<1> HIDE DEF start, Step
<1>2. \A i \in 0..N : i \in found
  <2>1. 0 \in found
    <3>1. Reads([i \in {0} |-> start], 0)
      OBVIOUS
    <3> HIDE DEF Reads
    <3> QED BY <3>1
  <2>2. ASSUME NEW k \in 1..N, k - 1 \in found PROVE k \in found
    <3>1. PICK g : Reads(g, k - 1)
      BY <2>2
    <3>2. Reads([i \in 0..k |-> IF i = k THEN Step(g[k - 1], k) ELSE g[i]], k)
      BY <3>1
    <3> HIDE DEF Reads
    <3> QED BY <3>2
  <2> HIDE DEF found
  <2> QED BY <2>1, <2>2, UpTo
<1>3. PICK g : Reads(g, N)
  <2>1. N \in found
    <3> HIDE DEF found
    <3> QED BY <1>2
  <2> QED BY <2>1
<1>4. \E f : f = Unfolded(f)
  <2>1. [i \in 0..N |-> g[i]] = Unfolded([i \in 0..N |-> g[i]])
    BY <1>3
  <2> QED BY <2>1
<1>5. s = Unfolded(s)
  BY <1>4
<1>6. Reads(s, N)
  <2> HIDE DEF s
  <2>1. 0 \in 0..N /\ s[0] = start
    BY <1>5
  <2>2. ASSUME NEW i \in 1..N PROVE s[i] = Step(s[i - 1], i)
    <3>1. i \in 0..N /\ i # 0
      OBVIOUS
    <3> QED BY <3>1, <1>5
  <2> QED BY <2>1, <2>2
<1>7. PipelinesInTurn(s, m, topo, fault)
  <2> HIDE DEF s
  <2> QED BY <1>6 DEF start, Step, PipelinesInTurn
<1> QED BY <1>1, <1>7

(* All pipelines of a topology are installed, or none is.                   *)
AllOrNone(r, topo) == IF r.ok THEN Ids(r.pipes) = Ids(Range(topo.pipelines.items)) ELSE r.pipes = {}

(* audio_controller_install_all installs all pipelines or, through          *)
(* ac_cleanup_installed, none.                                              *)
LEMMA InstallEachKeeps ==
  ASSUME NEW m, IsMemory(m), NEW owned, NEW c, Sound(m, owned, c),
         NEW topo, WellHeld(topo), NEW fault
  PROVE  Installing(InstallEach(m, topo, fault), owned, c) /\ AllOrNone(InstallEach(m, topo, fault), topo)
<1> DEFINE pls == topo.pipelines.items
           N == Len(pls)
           u == InstallUpTo(m, topo, fault)
           r == InstallEach(m, topo, fault)
           Upto(i) == {pls[j].id : j \in 1..i}
<1>1. N \in Nat /\ DOMAIN pls = 1..N
  BY SequenceIs DEF WellHeld, IsTopology, IsList, ListFields
<1>2. PICK s : PipelinesInTurn(s, m, topo, fault) /\ u = s[N]
  BY <1>1, PipelinesInstalled
<1>3. s[0] = [m |-> m, pipes |-> {}, ok |-> TRUE]
              /\ \A i \in 1..N : s[i] = InstallNext(s[i - 1], topo, pls[i], fault)
  BY <1>2 DEF PipelinesInTurn
<1> DEFINE kept == {i \in 0..N : Installing(s[i], owned, c) /\ (s[i].ok => Ids(s[i].pipes) = Upto(i))}
<1>4. 0 \in kept
  <2>1. DOMAIN s[0] = {"m", "pipes", "ok"} /\ s[0].m = m /\ s[0].ok = TRUE /\ s[0].pipes = {}
    BY <1>3
  <2>2. Installing(s[0], owned, c)
    BY <2>1 DEF Installing
  <2>3. Ids(s[0].pipes) = {} /\ Upto(0) = {}
    BY <2>1 DEF Ids
  <2> QED BY <1>1, <2>2, <2>3
<1>5. ASSUME NEW i \in 1..N, i - 1 \in kept PROVE i \in kept
  <2> DEFINE before == s[i - 1]
             pl == pls[i]
             after == InstallOne(before, topo, pl, fault)
  <2>1. Installing(before, owned, c) /\ (before.ok => Ids(before.pipes) = Upto(i - 1))
    BY <1>5
  <2>2. s[i] = InstallNext(before, topo, pl, fault)
    BY <1>3
  <2>3. Upto(i) = Upto(i - 1) \cup {pl.id}
    <3>1. \A j \in 1..i : j \in 1..(i - 1) \/ j = i
      OBVIOUS
    <3>2. \A j \in 1..(i - 1) : j \in 1..i
      OBVIOUS
    <3>3. i \in 1..i
      OBVIOUS
    <3> QED BY <3>1, <3>2, <3>3
  <2> HIDE DEF before, pl, Upto
  <2>4. Installing(after, owned, c) /\ Added(after, before, pl.id)
    BY <2>1, InstallOneKeeps
  <2>5. s[i] = IF before.ok THEN after ELSE before
    BY <2>2 DEF InstallNext
  <2> HIDE DEF after
  <2>6. Installing(s[i], owned, c) /\ (s[i].ok => Ids(s[i].pipes) = Upto(i))
    BY <2>1, <2>3, <2>4, <2>5 DEF Added
  <2> QED BY <2>6
<1>6. N \in kept
  <2> HIDE DEF kept
  <2>1. \A i \in 0..N : i \in kept
    BY <1>1, <1>4, <1>5, UpTo
  <2> QED BY <1>1, <2>1
<1>7. Installing(u, owned, c) /\ (u.ok => Ids(u.pipes) = Upto(N))
  BY <1>2, <1>6
<1>8. Upto(N) = Ids(Range(pls))
  BY <1>1 DEF Ids, Range
<1>9. r = IF u.ok THEN u ELSE [u EXCEPT !.pipes = {}]
  BY DEF InstallEach, CleanedUp
<1> HIDE DEF u, r, Upto
<1>10. CASE u.ok
  BY <1>7, <1>8, <1>9, <1>10 DEF r, AllOrNone
<1>11. CASE ~u.ok
  <2>1. DOMAIN u = {"m", "pipes", "ok"} /\ u.ok \in BOOLEAN /\ IsMemory(u.m) /\ Sound(u.m, owned, c)
    BY <1>7 DEF Installing
  <2>2. DOMAIN r = {"m", "pipes", "ok"} /\ r.m = u.m /\ r.ok = u.ok /\ r.pipes = {}
    BY <1>9, <1>11, <2>1
  <2>3. Installing(r, owned, c)
    BY <2>1, <2>2 DEF Installing
  <2> QED BY <1>11, <2>2, <2>3 DEF r, AllOrNone
<1> QED BY <1>10, <1>11

(* The heap without a controller: nothing is in use but lost lists of       *)
(* tokens.                                                                  *)
Blank(h) ==
  /\ ~h.broken /\ DOMAIN h.live \subseteq Nat \ {0} /\ IsFiniteSet(DOMAIN h.live)
  /\ \A b \in DOMAIN h.live : h.live[b] = "tokens"

(* Every block in use has its owner.                                        *)
HeapHeld(h, t) ==
  \/ \E c \in DOMAIN h.live : Sound(h, TopoOwn(t), c)
  \/ Blank(h) /\ t = EmptyTopology

(* A caller that counts no pipelines holds none.                            *)
NoneHeld == installed.count = 0 => installed.held = {}

(* The inductive invariant: who owns which block, and that the caller can   *)
(* name every pipe of SOF. WellHeld is what NothingLeaks lacks to be        *)
(* inductive: were one block in two lists, the next ac_topology_clear       *)
(* would free it twice.                                                     *)
TopologyInvariant ==
  WellHeld(topology) /\ HeapHeld(heap, topology) /\ EveryPipeHeld /\ NoneHeld

(* A single block cannot come twice.                                        *)
LEMMA OneBlock ==
  ASSUME NEW b
  PROVE  Range(<<b>>) = {b} /\ ~FreedTwice(<<b>>)
<1>1. DOMAIN <<b>> = {1} /\ <<b>>[1] = b
  OBVIOUS
<1> QED BY <1>1 DEF Range, FreedTwice

(* Creating a controller takes one block; when its transport does not       *)
(* start, it is freed.                                                      *)
LEMMA ControllerMade ==
  ASSUME NEW m, IsMemory(m), Blank(m)
  PROVE  LET a == Alloc(m, "controller")
         IN /\ a.got # 0 => Sound(a, {}, a.got) /\ a.got \in DOMAIN a.live
            /\ Blank(Free(a, a.got))
<1> DEFINE a == Alloc(m, "controller")
           b == FreshBlock(m)
           f == Free(a, a.got)
<1>1. b \in Nat \ {0} /\ b \notin DOMAIN m.live
  BY FreshIsFree DEF Blank
<1>2. /\ IsMemory(a) /\ a.broken = m.broken
      /\ \/ a.got = 0 /\ a.live = m.live
         \/ /\ a.got = b
            /\ a.live = [x \in DOMAIN m.live \cup {b} |-> IF x \in DOMAIN m.live THEN m.live[x] ELSE "controller"]
  BY AllocIs
<1> HIDE DEF a, b
<1>3. /\ f.broken = (a.broken \/ FreedTwice(<<a.got>>)
              \/ ~(Range(<<a.got>>) \subseteq DOMAIN a.live \cup {0}))
      /\ f.live = [x \in DOMAIN a.live \ Range(<<a.got>>) |-> a.live[x]]
  BY <1>2, FreeAllIs DEF Free
<1>4. Range(<<a.got>>) = {a.got} /\ ~FreedTwice(<<a.got>>)
  BY OneBlock
<1> HIDE DEF f
<1>5. IsFiniteSet(DOMAIN m.live \cup {b})
  BY FS_AddElement DEF Blank
<1>6. CASE a.got = 0 /\ a.live = m.live
  <2>1. ~f.broken
    BY <1>2, <1>3, <1>4, <1>6 DEF Blank
  <2>2. DOMAIN f.live = DOMAIN m.live
    BY <1>3, <1>4, <1>6 DEF Blank
  <2>3. \A x \in DOMAIN f.live : f.live[x] = m.live[x]
    BY <1>3, <1>6, <2>2
  <2>4. Blank(f)
    BY <2>1, <2>2, <2>3 DEF Blank
  <2> QED BY <1>6, <2>4 DEF a, f
<1>7. CASE /\ a.got = b
           /\ a.live = [x \in DOMAIN m.live \cup {b} |-> IF x \in DOMAIN m.live THEN m.live[x] ELSE "controller"]
  <2>1. DOMAIN a.live = DOMAIN m.live \cup {b} /\ a.live[b] = "controller"
    BY <1>1, <1>7
  <2>2. \A x \in DOMAIN m.live : a.live[x] = m.live[x] /\ a.live[x] = "tokens"
    BY <1>7 DEF Blank
  <2>3. Sound(a, {}, b)
    BY <1>1, <1>2, <1>5, <2>1, <2>2 DEF Sound, Blank
  <2>4. ~f.broken
    BY <1>2, <1>3, <1>4, <1>7, <2>1 DEF Blank
  <2>5. DOMAIN f.live = DOMAIN m.live
    BY <1>1, <1>3, <1>4, <1>7, <2>1
  <2>6. \A x \in DOMAIN f.live : f.live[x] = "tokens"
    BY <1>3, <2>2, <2>5
  <2>7. Blank(f)
    BY <2>4, <2>5, <2>6 DEF Blank
  <2>8. Sound(a, {}, a.got) /\ a.got \in DOMAIN a.live
    BY <1>7, <2>1, <2>3
  <2> QED BY <2>7, <2>8 DEF a, f
<1> QED BY <1>2, <1>6, <1>7

(* While no block is a controller's, there is no topology.                  *)
LEMMA NoController ==
  ASSUME NEW h, NEW t, HeapHeld(h, t), \A b \in DOMAIN h.live : h.live[b] # "controller"
  PROVE  Blank(h) /\ t = EmptyTopology
BY DEF HeapHeld, Sound

(* While a block is a controller's, that block is the controller.           *)
LEMMA AController ==
  ASSUME NEW h, NEW t, HeapHeld(h, t), NEW b \in DOMAIN h.live, h.live[b] = "controller"
  PROVE  Sound(h, TopoOwn(t), b)
<1>1. ~Blank(h)
  BY DEF Blank
<1>2. PICK c \in DOMAIN h.live : Sound(h, TopoOwn(t), c)
  BY <1>1 DEF HeapHeld
<1>3. b = c
  BY <1>2 DEF Sound
<1> QED BY <1>2, <1>3

(* A call starts with the heap as it is.                                    *)
LEMMA AsMemory ==
  ASSUME NEW left
  PROVE  /\ IsMemory(Working(left))
         /\ \A owned, c : Sound(heap, owned, c) => Sound(Working(left), owned, c)
         /\ Blank(heap) => Blank(Working(left))
         /\ Working(left).live = heap.live
<1>1. IsMemory(Working(left)) /\ Working(left).live = heap.live /\ Working(left).broken = heap.broken
  BY DEF IsMemory, Working
<1> QED BY <1>1 DEF Sound, Blank

(* A call leaves the heap as its memory is.                                 *)
LEMMA AsHeap ==
  ASSUME NEW m
  PROVE  /\ \A owned, c : Sound(m, owned, c) => Sound(Settled(m), owned, c)
         /\ Blank(m) => Blank(Settled(m))
         /\ Settled(m).live = m.live
<1>1. Settled(m).live = m.live /\ Settled(m).broken = m.broken
  BY DEF Settled
<1> QED BY <1>1 DEF Sound, Blank

(* A call that ends with a sound memory leaves a heap whose blocks have     *)
(* owners.                                                                  *)
LEMMA SoundIsHeld ==
  ASSUME NEW m, NEW t, NEW c, Sound(m, TopoOwn(t), c)
  PROVE  HeapHeld(Settled(m), t)
<1>1. Sound(Settled(m), TopoOwn(t), c)
  BY AsHeap
<1>2. c \in DOMAIN Settled(m).live
  BY <1>1 DEF Sound
<1> QED BY <1>1, <1>2 DEF HeapHeld

(* audio_controller_create keeps the invariant, started or not.             *)
LEMMA CreateKeepsHeap ==
  ASSUME TopologyInvariant, NEW left, NEW started, Create(left, started)
  PROVE  TopologyInvariant'
<1> DEFINE a == Alloc(Working(left), "controller")
<1>1. Blank(heap)
  BY NoController DEF Create, Created, TopologyInvariant
<1>2. IsMemory(Working(left)) /\ Blank(Working(left))
  BY <1>1, AsMemory
<1>3. (a.got # 0 => Sound(a, {}, a.got) /\ a.got \in DOMAIN a.live) /\ Blank(Free(a, a.got))
  BY <1>2, ControllerMade
<1>4. heap' = Settled(IF a.got # 0 /\ started THEN a ELSE Free(a, a.got)) /\ topology' = EmptyTopology
      /\ pipes' = pipes /\ installed' = installed
  BY DEF Create
<1> HIDE DEF a
<1>5. HeapHeld(heap', EmptyTopology)
  <2>1. CASE a.got # 0 /\ started
    BY <1>3, <1>4, <2>1, EmptyWellHeld, SoundIsHeld
  <2>2. CASE ~(a.got # 0 /\ started)
    BY <1>3, <1>4, <2>2, AsHeap DEF HeapHeld
  <2> QED BY <2>1, <2>2
<1>6. WellHeld(topology)' /\ HeapHeld(heap, topology)'
  BY <1>4, <1>5, EmptyWellHeld
<1>7. EveryPipeHeld' /\ NoneHeld'
  BY <1>4 DEF TopologyInvariant, EveryPipeHeld, NoneHeld
<1> QED BY <1>6, <1>7 DEF TopologyInvariant

(* audio_controller_destroy frees the topology and the controller, and      *)
(* keeps the invariant.                                                     *)
LEMMA DestroyKeepsHeap ==
  ASSUME TopologyInvariant, Destroy
  PROVE  TopologyInvariant'
<1> DEFINE r == ClearTopology(Working(0), topology)
           c == ControllerBlock
           f == Free(r, c)
<1>1. c \in DOMAIN heap.live /\ heap.live[c] = "controller"
  BY DEF Destroy, Created, ControllerBlock
<1> HIDE DEF c
<1>2. Sound(heap, TopoOwn(topology), c)
  BY <1>1, AController DEF TopologyInvariant
<1>3. IsMemory(r) /\ Sound(r, {}, c)
  BY <1>2, AsMemory, ClearTopologySound DEF TopologyInvariant
<1>4. heap' = Settled(f) /\ topology' = EmptyTopology /\ pipes' = pipes /\ installed' = installed
  BY DEF Destroy, c
<1> HIDE DEF r
<1>5. /\ f.broken = (r.broken \/ FreedTwice(<<c>>) \/ ~(Range(<<c>>) \subseteq DOMAIN r.live \cup {0}))
      /\ f.live = [x \in DOMAIN r.live \ Range(<<c>>) |-> r.live[x]]
  BY <1>3, FreeAllIs DEF Free
<1>6. Range(<<c>>) = {c} /\ ~FreedTwice(<<c>>)
  BY OneBlock
<1> HIDE DEF f
<1>7. ~f.broken
  BY <1>3, <1>5, <1>6 DEF Sound
<1>8. DOMAIN f.live = DOMAIN r.live \ {c}
  BY <1>5, <1>6
<1>9. \A b \in DOMAIN f.live : f.live[b] = "tokens"
  BY <1>3, <1>5, <1>6, <1>8 DEF Sound
<1>10. IsFiniteSet(DOMAIN f.live) /\ DOMAIN f.live \subseteq Nat \ {0}
  BY <1>3, <1>8, FS_Subset DEF Sound
<1>11. Blank(Settled(f))
  BY <1>7, <1>9, <1>10, AsHeap DEF Blank
<1>12. WellHeld(topology)' /\ HeapHeld(heap, topology)'
  BY <1>4, <1>11, EmptyWellHeld DEF HeapHeld
<1>13. EveryPipeHeld' /\ NoneHeld'
  BY <1>4 DEF TopologyInvariant, EveryPipeHeld, NoneHeld
<1> QED BY <1>12, <1>13 DEF TopologyInvariant

(* audio_controller_load_topology_buffer keeps the invariant, whatever      *)
(* the file is and whichever allocation fails.                              *)
LEMMA LoadKeepsHeap ==
  ASSUME TopologyInvariant, NEW file \in DOMAIN Files, NEW left, Load(file, left)
  PROVE  TopologyInvariant'
<1> DEFINE p == ParseTopology(Working(left), topology, Files[file])
<1>1. PICK c \in DOMAIN heap.live : heap.live[c] = "controller"
  BY DEF Load, Created
<1>2. Sound(heap, TopoOwn(topology), c)
  BY <1>1, AController DEF TopologyInvariant
<1>3. IsFile(Files[file])
  BY FilesAreSequences
<1>4. Parsing(p, {}, c)
  BY <1>2, <1>3, AsMemory, TopologyParsed DEF TopologyInvariant
<1>5. heap' = Settled(p.m) /\ topology' = p.topo /\ pipes' = pipes /\ installed' = installed
  BY DEF Load, Ends
<1> HIDE DEF p
<1>6. WellHeld(p.topo) /\ Sound(p.m, TopoOwn(p.topo), c)
  <2>1. TopoOwn(p.topo) \cup {} = TopoOwn(p.topo)
    OBVIOUS
  <2> QED BY <1>4, <2>1 DEF Parsing
<1>7. HeapHeld(Settled(p.m), p.topo)
  BY <1>6, SoundIsHeld
<1>8. WellHeld(topology)' /\ HeapHeld(heap, topology)'
  BY <1>5, <1>6, <1>7
<1>9. EveryPipeHeld' /\ NoneHeld'
  BY <1>5 DEF TopologyInvariant, EveryPipeHeld, NoneHeld
<1> QED BY <1>8, <1>9 DEF TopologyInvariant

(* While a caller counts no pipelines, SOF holds no pipe.                   *)
LEMMA NothingIsInstalled ==
  ASSUME TopologyInvariant, installed.count = 0
  PROVE  pipes = {} /\ Ids(pipes) = {}
BY DEF TopologyInvariant, EveryPipeHeld, NoneHeld, Ids

(* A refused installation keeps the invariant.                              *)
LEMMA RefusalKeepsHeap ==
  ASSUME TopologyInvariant, installed.count = 0, RefusesInstall
  PROVE  TopologyInvariant'
<1>1. pipes = {}
  BY NothingIsInstalled
<1>2. EveryPipeHeld' /\ NoneHeld'
  BY <1>1 DEF RefusesInstall, EveryPipeHeld, NoneHeld, NothingInstalled
<1>3. WellHeld(topology)' /\ HeapHeld(heap, topology)'
  BY DEF RefusesInstall, TopologyInvariant
<1> QED BY <1>2, <1>3 DEF TopologyInvariant

(* An installation that took all pipes of some ids, or none, keeps the      *)
(* invariant.                                                               *)
LEMMA InstallsKeepsHeap ==
  ASSUME TopologyInvariant, NEW c, NEW s, Installing(s, TopoOwn(topology), c),
         NEW ids, IsFiniteSet(ids), ids # {},
         s.ok => Ids(s.pipes) = ids, ~s.ok => s.pipes = {}, Installs(s, ids)
  PROVE  TopologyInvariant'
<1>1. /\ heap' = Settled(s.m) /\ pipes' = s.pipes /\ topology' = topology
      /\ installed' = IF s.ok THEN [count |-> Cardinality(ids), held |-> ids] ELSE NothingInstalled
  BY DEF Installs
<1>2. HeapHeld(Settled(s.m), topology)
  BY SoundIsHeld DEF Installing
<1>3. WellHeld(topology)' /\ HeapHeld(heap, topology)'
  BY <1>1, <1>2 DEF TopologyInvariant
<1>4. Cardinality(ids) # 0
  BY FS_EmptySet
<1>5. EveryPipeHeld' /\ NoneHeld'
  <2>1. CASE s.ok
    <3>1. installed'.count = Cardinality(ids) /\ installed'.held = ids /\ Ids(pipes') = ids
      BY <1>1, <2>1
    <3> QED BY <1>4, <3>1 DEF EveryPipeHeld, NoneHeld, Ids
  <2>2. CASE ~s.ok
    BY <1>1, <2>2 DEF EveryPipeHeld, NoneHeld, NothingInstalled
  <2> QED BY <2>1, <2>2
<1> QED BY <1>3, <1>5 DEF TopologyInvariant

(* audio_controller_install_pipeline keeps the invariant.                   *)
LEMMA InstallPipelineKeepsHeap ==
  ASSUME TopologyInvariant, NEW wanted, NEW left, NEW fault, InstallPipeline(wanted, left, fault)
  PROVE  TopologyInvariant'
<1> DEFINE k == FindPipeline(topology, wanted)
           pl == topology.pipelines.items[k]
           start == [m |-> Working(left), pipes |-> pipes, ok |-> TRUE]
           s == InstallOne(start, topology, pl, fault)
<1>1. installed.count = 0 /\ Created
  BY DEF InstallPipeline, MayInstall
<1>2. pipes = {} /\ Ids(pipes) = {}
  BY <1>1, NothingIsInstalled
<1>3. PICK c \in DOMAIN heap.live : heap.live[c] = "controller"
  BY <1>1 DEF Created
<1>4. Sound(heap, TopoOwn(topology), c)
  BY <1>3, AController DEF TopologyInvariant
<1>5. start.m = Working(left) /\ start.ok = TRUE /\ start.pipes = pipes
              /\ DOMAIN start = {"m", "pipes", "ok"}
  OBVIOUS
<1>6. RefusesInstall \/ Installs(s, {pl.id})
  BY DEF InstallPipeline
<1> HIDE DEF start, pl
<1>7. Installing(start, TopoOwn(topology), c)
  BY <1>4, <1>5, AsMemory DEF Installing
<1>8. Installing(s, TopoOwn(topology), c) /\ Added(s, start, pl.id)
  BY <1>7, InstallOneKeeps DEF TopologyInvariant
<1>9. (s.ok => Ids(s.pipes) = {pl.id}) /\ (~s.ok => s.pipes = {})
  BY <1>2, <1>5, <1>8 DEF Added
<1>10. IsFiniteSet({pl.id}) /\ {pl.id} # {}
  BY FS_Singleton
<1> HIDE DEF s
<1>11. CASE RefusesInstall
  BY <1>1, <1>11, RefusalKeepsHeap
<1>12. CASE Installs(s, {pl.id})
  BY <1>8, <1>9, <1>10, <1>12, InstallsKeepsHeap
<1> QED BY <1>6, <1>11, <1>12

(* audio_controller_install_all keeps the invariant.                        *)
LEMMA InstallAllKeepsHeap ==
  ASSUME TopologyInvariant, NEW left, NEW fault, InstallAll(left, fault)
  PROVE  TopologyInvariant'
<1> DEFINE items == topology.pipelines.items
           ids == {pl.id : pl \in Range(items)}
           s == InstallEach(Working(left), topology, fault)
<1>1. installed.count = 0 /\ Created
  BY DEF InstallAll, MayInstall
<1>3. PICK c \in DOMAIN heap.live : heap.live[c] = "controller"
  BY <1>1 DEF Created
<1>4. Sound(heap, TopoOwn(topology), c)
  BY <1>3, AController DEF TopologyInvariant
<1>5. RefusesInstall \/ (Len(items) \in 1..MaxInstalled /\ Installs(s, ids))
  BY DEF InstallAll
<1>6. Installing(s, TopoOwn(topology), c) /\ AllOrNone(s, topology)
  BY <1>4, AsMemory, InstallEachKeeps DEF TopologyInvariant
<1>7. (s.ok => Ids(s.pipes) = ids) /\ (~s.ok => s.pipes = {})
  BY <1>6 DEF AllOrNone, Ids
<1>8. Len(items) \in Nat /\ DOMAIN items = 1..Len(items)
  BY SequenceIs DEF TopologyInvariant, WellHeld, IsTopology, IsList, ListFields
<1>9. IsFiniteSet(ids)
  <2>1. ids = {items[i].id : i \in 1..Len(items)}
    BY <1>8 DEF Range
  <2>2. IsFiniteSet(1..Len(items))
    BY <1>8, FS_Interval
  <2>3. IsFiniteSet(ids)
    <3> DEFINE D == 1..Len(items)
               g == [i \in D |-> items[i].id]
    <3>1. g \in [D -> ids]
      BY <2>1
    <3>2. \A x \in ids : \E i \in D : g[i] = x
      BY <2>1
    <3>3. g \in Surjection(D, ids)
      BY <3>1, <3>2 DEF Surjection
    <3>4. IsFiniteSet(D)
      BY <2>2
    <3> HIDE DEF D, ids, g
    <3> QED BY <3>3, <3>4, FS_Surjection
  <2> QED BY <2>3
<1>10. CASE RefusesInstall
  BY <1>1, <1>10, RefusalKeepsHeap
<1>11. CASE Len(items) \in 1..MaxInstalled /\ Installs(s, ids)
  <2>1. ids # {}
    <3>1. 1 \in DOMAIN items
      BY <1>8, <1>11
    <3> QED BY <3>1 DEF Range
  <2> HIDE DEF s, ids
  <2> QED BY <1>6, <1>7, <1>9, <1>11, <2>1, InstallsKeepsHeap
<1> QED BY <1>5, <1>10, <1>11

(* A caller that removes the pipes it holds keeps the invariant.            *)
LEMMA RemovePipesKeepsHeap ==
  ASSUME TopologyInvariant, RemovePipes
  PROVE  TopologyInvariant'
<1>1. pipes' = {}
  BY DEF RemovePipes, TopologyInvariant, EveryPipeHeld
<1>2. EveryPipeHeld' /\ NoneHeld'
  BY <1>1 DEF RemovePipes, EveryPipeHeld, NoneHeld, NothingInstalled
<1>3. WellHeld(topology)' /\ HeapHeld(heap, topology)'
  BY DEF RemovePipes, TopologyInvariant
<1> QED BY <1>2, <1>3 DEF TopologyInvariant

(* There is nothing before the first controller.                            *)
LEMMA TopologyStarts == TopologyInit => TopologyInvariant
<1> SUFFICES ASSUME TopologyInit PROVE TopologyInvariant
  OBVIOUS
<1>1. heap.live = NoBlocks /\ heap.broken = FALSE /\ topology = EmptyTopology
  BY DEF TopologyInit
<1>2. DOMAIN heap.live = {}
  BY <1>1 DEF NoBlocks
<1>3. Blank(heap)
  BY <1>1, <1>2, FS_EmptySet DEF Blank
<1>4. EveryPipeHeld /\ NoneHeld
  BY DEF TopologyInit, EveryPipeHeld, NoneHeld, NothingInstalled
<1> QED BY <1>1, <1>3, <1>4, EmptyWellHeld DEF TopologyInvariant, HeapHeld

(* Every call keeps the invariant.                                          *)
LEMMA TopologySteps == TopologyInvariant /\ [TopologyNext]_topologyVars => TopologyInvariant'
<1> SUFFICES ASSUME TopologyInvariant, [TopologyNext]_topologyVars PROVE TopologyInvariant'
  OBVIOUS
<1>1. ASSUME NEW left \in FailingAllocs, NEW started \in BOOLEAN, Create(left,
              started) PROVE TopologyInvariant'
  BY <1>1, CreateKeepsHeap
<1>2. CASE Destroy
  BY <1>2, DestroyKeepsHeap
<1>3. ASSUME NEW file \in DOMAIN Files, NEW left \in FailingAllocs, Load(file,
              left) PROVE TopologyInvariant'
  BY <1>3, LoadKeepsHeap
<1>4. ASSUME NEW left \in {0, 1, 2}, NEW fault \in Faults, NEW wanted \in Wanted,
              InstallPipeline(wanted, left, fault)
      PROVE  TopologyInvariant'
  BY <1>4, InstallPipelineKeepsHeap
<1>5. ASSUME NEW left \in {0, 1, 2}, NEW fault \in Faults, InstallAll(left, fault) PROVE TopologyInvariant'
  BY <1>5, InstallAllKeepsHeap
<1>6. CASE RemovePipes
  BY <1>6, RemovePipesKeepsHeap
<1>7. CASE UNCHANGED topologyVars
  BY <1>7 DEF topologyVars, TopologyInvariant, EveryPipeHeld, NoneHeld
<1> QED BY <1>1, <1>2, <1>3, <1>4, <1>5, <1>6, <1>7 DEF TopologyNext

(* The invariant says what NothingLeaks asks.                               *)
LEMMA HeldIsSound == TopologyInvariant => NothingLeaks
<1> SUFFICES ASSUME TopologyInvariant PROVE NothingLeaks
  OBVIOUS
<1> DEFINE made == {b \in DOMAIN heap.live : heap.live[b] = "controller"}
<1>1. OwnedBlocks = TopoOwn(topology) \cup (made \ {0})
  BY DEF OwnedBlocks, TopoOwn
<1>2. CASE \E c \in DOMAIN heap.live : Sound(heap, TopoOwn(topology), c)
  <2>1. PICK c \in DOMAIN heap.live : Sound(heap, TopoOwn(topology), c)
    BY <1>2
  <2>2. made = {c} /\ c # 0
    BY <2>1 DEF Sound
  <2>3. OwnedBlocks = TopoOwn(topology) \cup {c}
    BY <1>1, <2>2
  <2>4. HeapSound
    BY <2>1, <2>3 DEF Sound, HeapSound
  <2> QED BY <2>4 DEF NothingLeaks, TopologyInvariant
<1>3. CASE Blank(heap) /\ topology = EmptyTopology
  <2>1. made = {} /\ TopoOwn(topology) = {}
    BY <1>3, EmptyWellHeld DEF Blank
  <2>2. OwnedBlocks = {}
    BY <1>1, <2>1
  <2>3. HeapSound
    BY <1>3, <2>2 DEF HeapSound, Blank
  <2> QED BY <2>3 DEF NothingLeaks, TopologyInvariant
<1> QED BY <1>2, <1>3 DEF TopologyInvariant, HeapHeld

(* Whatever files are loaded, and whichever allocation or SOF call fails,   *)
(* no call frees a block twice, none loses a block but a list of tokens,    *)
(* and the caller can take down every pipe that SOF holds                   *)
(* (ac_topology_parser.c, ac_sof_loader.c).                                 *)
THEOREM NothingEverLeaks == TopologySpec => []NothingLeaks
<1>1. TopologySpec => []TopologyInvariant
  BY TopologyStarts, TopologySteps, PTL DEF TopologySpec
<1> QED BY <1>1, HeldIsSound, PTL
=============================================================================
