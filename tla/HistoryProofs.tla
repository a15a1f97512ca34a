------------------------------- MODULE HistoryProofs -------------------------------
(***************************************************************************)
(* Proofs about what is kept of a snapshot and how it is read back         *)
(* (SnapshotHistory), for any snapshots, clock readings, horizons, batch   *)
(* sizes and numbers of inserts, mishaps and restarts; and about every     *)
(* page and every choice of a tier (HistoryPages), for any rows, horizons  *)
(* and lengths of buckets.                                                 *)
(***************************************************************************)
EXTENDS SnapshotHistory, HistoryPages, FiniteSetTheorems, WellFoundedInduction,
        NaturalsInduction, TLAPS

-----------------------------------------------------------------------------
(* Numbers, sets and functions. *)

(* A non-empty finite set of numbers has a greatest one. *)
LEMMA GreatestInt ==
  ASSUME NEW S \in SUBSET Int, IsFiniteSet(S), S # {}
  PROVE  \E x \in S : \A y \in S : y <= x
<1> DEFINE Above(h) == {g \in S : h < g}
           T == {Above(h) : h \in S}
<1>1. \A h \in S : Above(h) \in SUBSET S /\ IsFiniteSet(Above(h))
  <2> SUFFICES ASSUME NEW h \in S PROVE Above(h) \in SUBSET S /\ IsFiniteSet(Above(h))
    OBVIOUS
  <2>1. Above(h) \in SUBSET S
    OBVIOUS
  <2> QED BY <2>1, FS_Subset
<1>2. T \subseteq FiniteSubsetsOf(S) /\ T # {}
  BY <1>1 DEF FiniteSubsetsOf
<1>3. PICK U \in T : \A V \in T : ~(<<V, U>> \in StrictSubsetOrdering(S))
  BY <1>2, FS_StrictSubsetOrderingWellFounded, WFMin
<1>4. PICK x \in S : U = Above(x)
  BY <1>3
<1>5. ASSUME NEW y \in S, x < y PROVE FALSE
  <2>1. Above(y) \in T /\ Above(y) \subseteq Above(x)
    <3>1. \A i \in S : y < i => x < i
      BY <1>5
    <3> QED BY <3>1
  <2>2. y \in Above(x) /\ y \notin Above(y)
    BY <1>5
  <2>3. <<Above(y), Above(x)>> \in StrictSubsetOrdering(S)
    BY <2>1, <2>2 DEF StrictSubsetOrdering
  <2> QED BY <1>3, <1>4, <2>1, <2>3
<1> QED BY <1>5

LEMMA LeastInt ==
  ASSUME NEW S \in SUBSET Int, IsFiniteSet(S), S # {}
  PROVE  \E x \in S : \A y \in S : x <= y
<1> DEFINE Below(h) == {g \in S : g < h}
           T == {Below(h) : h \in S}
<1>1. \A h \in S : Below(h) \in SUBSET S /\ IsFiniteSet(Below(h))
  <2> SUFFICES ASSUME NEW h \in S PROVE Below(h) \in SUBSET S /\ IsFiniteSet(Below(h))
    OBVIOUS
  <2>1. Below(h) \in SUBSET S
    OBVIOUS
  <2> QED BY <2>1, FS_Subset
<1>2. T \subseteq FiniteSubsetsOf(S) /\ T # {}
  BY <1>1 DEF FiniteSubsetsOf
<1>3. PICK U \in T : \A V \in T : ~(<<V, U>> \in StrictSubsetOrdering(S))
  BY <1>2, FS_StrictSubsetOrderingWellFounded, WFMin
<1>4. PICK x \in S : U = Below(x)
  BY <1>3
<1>5. ASSUME NEW y \in S, y < x PROVE FALSE
  <2>1. Below(y) \in T /\ Below(y) \subseteq Below(x)
    <3>1. \A i \in S : i < y => i < x
      BY <1>5
    <3> QED BY <3>1
  <2>2. y \in Below(x) /\ y \notin Below(y)
    BY <1>5
  <2>3. <<Below(y), Below(x)>> \in StrictSubsetOrdering(S)
    BY <2>1, <2>2 DEF StrictSubsetOrdering
  <2> QED BY <1>3, <1>4, <2>1, <2>3
<1> QED BY <1>5

LEMMA GreatestExists ==
  ASSUME NEW S \in SUBSET Nat, IsFiniteSet(S), S # {}
  PROVE  \E x \in S : \A y \in S : y <= x
<1>1. S \in SUBSET Int
  OBVIOUS
<1> QED BY <1>1, GreatestInt

(* A non-empty set of numbers has a least one. *)
LEMMA NatLeast ==
  ASSUME NEW S \in SUBSET Nat, S # {}
  PROVE  \E x \in S : \A y \in S : x <= y
<1>1. PICK x \in S : \A y \in S : ~(<<y, x>> \in OpToRel(<, Nat))
  BY NatLessThanWellFounded, WFMin
<1>2. \A y \in S : ~(y < x)
  BY <1>1 DEF OpToRel
<1> QED BY <1>2

(* Of rows with times in Instant some are newest. *)
LEMMA NewestExists ==
  ASSUME HistoryConstants, NEW table, \A r \in table : r.at \in Instant,
         NEW q \in table
  PROVE  \E r \in table : r.mount = q.mount /\ r \in Newest(table, q.mount)
<1> DEFINE S == {r.at : r \in {p \in table : p.mount = q.mount}}
<1>1. S \in SUBSET Instant /\ Instant \in SUBSET Nat /\ IsFiniteSet(Instant)
  BY DEF HistoryConstants
<1>2. IsFiniteSet(S) /\ S \in SUBSET Nat
  BY <1>1, FS_Subset
<1>3. q.at \in S
  OBVIOUS
<1> HIDE DEF S
<1>4. PICK x \in S : \A y \in S : y <= x
  BY <1>2, <1>3, GreatestExists
<1>5. PICK r \in table : r.mount = q.mount /\ r.at = x
  BY <1>4 DEF S
<1>6. \A p \in table : p.mount = q.mount => p.at \in S
  BY DEF S
<1> QED BY <1>4, <1>5, <1>6 DEF Newest

-----------------------------------------------------------------------------
(* The dictionary of commands. *)

IsDictionary(c) ==
  /\ c = [i \in DOMAIN c |-> c[i]]
  /\ DOMAIN c \in SUBSET Nat /\ IsFiniteSet(DOMAIN c)
  /\ \A i, j \in DOMAIN c : c[i] = c[j] => i = j

(* Interning a list keeps the names that have an id, and gives one to each of the others
   (intern_command). *)
LEMMA CommandsWithNames ==
  ASSUME IsDictionary(db.commands), NEW list \in Seq(Command)
  PROVE  LET c == CommandsWith(list)
         IN /\ IsDictionary(c)
            /\ DOMAIN db.commands \subseteq DOMAIN c
            /\ \A i \in DOMAIN db.commands : c[i] = db.commands[i]
            /\ \A i \in DOMAIN list : \E id \in DOMAIN c : c[id] = list[i]
<1> DEFINE old == db.commands
           new == {i \in DOMAIN list : /\ \A j \in 1..(i - 1) : list[j] # list[i]
                                       /\ \A id \in DOMAIN old : old[id] # list[i]}
           top == IF DOMAIN old = {} THEN 0
                  ELSE CHOOSE i \in DOMAIN old : \A j \in DOMAIN old : j <= i
           upTo(i) == {j \in new : j <= i}
           idOf == [i \in new |-> top + Cardinality(upTo(i))]
           c == CommandsWith(list)
<1>1. /\ c = [id \in DOMAIN old \cup {idOf[i] : i \in new} |->
                IF id \in DOMAIN old THEN old[id] ELSE list[CHOOSE i \in new : idOf[i] = id]]
  BY DEF CommandsWith
<1>2. top \in Nat /\ \A j \in DOMAIN old : j <= top
  <2>1. CASE DOMAIN old = {}
    BY <2>1
  <2>2. CASE DOMAIN old # {}
    <3>1. \E i \in DOMAIN old : \A j \in DOMAIN old : j <= i
      BY <2>2, GreatestExists DEF IsDictionary
    <3>2. top \in DOMAIN old /\ \A j \in DOMAIN old : j <= top
      BY <2>2, <3>1
    <3> HIDE DEF top
    <3> QED BY <3>2 DEF IsDictionary
  <2> QED BY <2>1, <2>2
<1>3. new \in SUBSET (1..Len(list)) /\ Len(list) \in Nat
  OBVIOUS
<1>4. IsFiniteSet(new)
  <2>1. IsFiniteSet(1..Len(list))
    BY <1>3, FS_Interval
  <2> HIDE DEF new
  <2> QED BY <1>3, <2>1, FS_Subset
<1>5. \A i, j \in new : list[i] = list[j] => i = j
  <2> SUFFICES ASSUME NEW i \in new, NEW j \in new, i < j PROVE list[i] # list[j]
    BY <1>3
  <2>1. i \in 1..(j - 1)
    BY <1>3
  <2> QED BY <2>1
<1> HIDE DEF new, top
<1>6. \A i \in new : IsFiniteSet(upTo(i)) /\ Cardinality(upTo(i)) \in Nat /\ Cardinality(upTo(i)) # 0
  <2> SUFFICES ASSUME NEW i \in new
               PROVE IsFiniteSet(upTo(i)) /\ Cardinality(upTo(i)) \in Nat /\ Cardinality(upTo(i)) # 0
    OBVIOUS
  <2>1. upTo(i) \in SUBSET new /\ i \in upTo(i)
    BY <1>3
  <2> HIDE DEF upTo
  <2>2. IsFiniteSet(upTo(i))
    BY <1>4, <2>1, FS_Subset
  <2> QED BY <2>1, <2>2, FS_CardinalityType, FS_EmptySet
<1>7. ASSUME NEW i \in new, NEW j \in new, i < j PROVE Cardinality(upTo(i)) # Cardinality(upTo(j))
  <2>1. \A k \in new : k \in Nat
    BY <1>3
  <2>2. upTo(i) \in SUBSET upTo(j)
    BY <1>7, <2>1
  <2>3. j \in upTo(j) /\ j \notin upTo(i)
    BY <1>7, <2>1
  <2> HIDE DEF upTo
  <2> QED BY <1>6, <2>2, <2>3, FS_Subset
<1>8. \A i, j \in new : idOf[i] = idOf[j] => i = j
  <2> SUFFICES ASSUME NEW i \in new, NEW j \in new, i < j PROVE idOf[i] # idOf[j]
    BY <1>3
  <2>1. Cardinality(upTo(i)) # Cardinality(upTo(j))
    BY <1>7
  <2> HIDE DEF upTo
  <2> QED BY <1>2, <1>6, <2>1
<1>9. \A i \in new : idOf[i] \in Nat /\ idOf[i] \notin DOMAIN old
  <2> HIDE DEF upTo
  <2> QED BY <1>2, <1>6
<1> DEFINE ids == {idOf[i] : i \in new}
<1>10. IsFiniteSet(ids)
  <2>1. idOf \in Surjection(new, ids)
    BY DEF Surjection
  <2> HIDE DEF ids, idOf
  <2> QED BY <1>4, <2>1, FS_Surjection
<1> HIDE DEF idOf, upTo
<1>11. DOMAIN c = DOMAIN old \cup ids
  BY <1>1
<1>12. \A i \in DOMAIN old : c[i] = old[i]
  BY <1>1
<1>13. \A i \in new : idOf[i] \in DOMAIN c /\ c[idOf[i]] = list[i]
  <2> SUFFICES ASSUME NEW i \in new PROVE idOf[i] \in DOMAIN c /\ c[idOf[i]] = list[i]
    OBVIOUS
  <2>1. (CHOOSE j \in new : idOf[j] = idOf[i]) = i
    BY <1>8
  <2>2. idOf[i] \in ids
    OBVIOUS
  <2>3. idOf[i] \in DOMAIN old \cup {idOf[j] : j \in new} /\ idOf[i] \notin DOMAIN old
    BY <1>9, <2>2
  <2> HIDE DEF c, ids
  <2>4. c[idOf[i]] = list[CHOOSE j \in new : idOf[j] = idOf[i]]
    BY <1>1, <2>3
  <2> QED BY <1>11, <2>1, <2>2, <2>4
<1> HIDE DEF c
<1>14. DOMAIN c \in SUBSET Nat /\ IsFiniteSet(DOMAIN c)
  <2>1. IsFiniteSet(DOMAIN old \cup ids)
    BY <1>10, FS_Union DEF IsDictionary
  <2> QED BY <1>9, <1>11, <2>1 DEF IsDictionary
<1>15. \A i, j \in DOMAIN c : c[i] = c[j] => i = j
  <2> SUFFICES ASSUME NEW i \in DOMAIN c, NEW j \in DOMAIN c, c[i] = c[j] PROVE i = j
    OBVIOUS
  <2>1. CASE i \in DOMAIN old /\ j \in DOMAIN old
    BY <1>12, <2>1 DEF IsDictionary
  <2>2. ASSUME NEW a \in DOMAIN old, NEW b \in ids, c[a] = c[b] PROVE FALSE
    <3>1. PICK k \in new : b = idOf[k]
      OBVIOUS
    <3>2. old[a] = list[k]
      BY <1>12, <1>13, <2>2, <3>1
    <3> QED BY <3>2 DEF new
  <2>3. CASE i \in ids /\ j \in ids
    <3>1. PICK k \in new, l \in new : i = idOf[k] /\ j = idOf[l]
      BY <2>3
    <3> QED BY <1>5, <1>13, <3>1
  <2> QED BY <1>11, <2>1, <2>2, <2>3
<1>16. \A i \in DOMAIN list : \E id \in DOMAIN c : c[id] = list[i]
  <2> SUFFICES ASSUME NEW i \in DOMAIN list, \A id \in DOMAIN c : c[id] # list[i] PROVE FALSE
    OBVIOUS
  <2> DEFINE S == {j \in DOMAIN list : list[j] = list[i]}
  <2>1. S \in SUBSET Nat /\ S # {} /\ i \in S /\ DOMAIN list = 1..Len(list)
    OBVIOUS
  <2>2. PICK j \in S : \A k \in S : j <= k
    BY <2>1, NatLeast
  <2>3. \A k \in 1..(j - 1) : list[k] # list[j]
    BY <2>1, <2>2
  <2>4. \A id \in DOMAIN old : old[id] # list[j]
    BY <1>11, <1>12
  <2>5. j \in new
    BY <2>3, <2>4 DEF new
  <2> QED BY <1>13, <2>5
<1>17. c = [i \in DOMAIN c |-> c[i]]
  BY <1>1 DEF c
<1> QED BY <1>11, <1>12, <1>14, <1>15, <1>16, <1>17 DEF IsDictionary, c
-----------------------------------------------------------------------------
(* The parts of the invariant. *)

InsertRecord == [at : {"store", "fast", "detail", "count", "add"}, captured : Instant,
                 key : Instant, snapshot : Snapshot, rows : BOOLEAN]
TickRecord == [at : {"pending", "clear", "raw", "gpus", "sensors", "detail", "fast", "orphans"},
               now : Nat, deleted : BOOLEAN, batches : BOOLEAN]

Shapes ==
  /\ DOMAIN db = DOMAIN EmptyTables
  /\ insert = Idle \/ insert \in InsertRecord
  /\ tick = Idle \/ tick \in TickRecord
  /\ reader.at \in {"idle", "fast", "minute", "devices", "rows", "events", "done"}
  /\ mishaps \in Nat

Times ==
  /\ clock \in Instant /\ started \in Nat /\ started <= clock
  /\ DOMAIN given \subseteq Instant /\ \A t \in DOMAIN given : t <= clock
  /\ tick # Idle => tick.now <= clock
  /\ insert # Idle => insert.captured <= clock /\ insert.key <= insert.captured /\ started < insert.key

GivenAgrees ==
  /\ \A t \in DOMAIN given : /\ given[t].snapshot \in Snapshot /\ given[t].key \in DOMAIN seen
                             /\ seen[given[t].key] = given[t].snapshot.filesystems
  /\ insert # Idle => insert.key \in DOMAIN seen /\ seen[insert.key] = insert.snapshot.filesystems
  /\ insert # Idle /\ insert.at = "store" => insert.captured \notin DOMAIN given
  /\ insert # Idle /\ insert.at # "store" =>
       /\ insert.captured \in DOMAIN given
       /\ given[insert.captured].snapshot = insert.snapshot

ListOf(g, t) == g[t].snapshot.processes

\* A process row of a capture, its name by the dictionary c.
IsRowOf(r, c, g) == /\ r \in [at : DOMAIN g, rank : Nat, id : DOMAIN c]
                    /\ r.rank \in DOMAIN ListOf(g, r.at)
                    /\ c[r.id] = ListOf(g, r.at)[r.rank]

IsComplete(table, g, t) == \A i \in DOMAIN ListOf(g, t) : \E r \in table : r.at = t /\ r.rank = i

Processes ==
  /\ IsDictionary(db.commands)
  /\ \A r \in db.fast \cup db.minute : IsRowOf(r, db.commands, given)
  /\ \A q \in db.fast : q.at + FastKeep >= clock => IsComplete(db.fast, given, q.at)
  /\ \A q \in db.minute : IsComplete(db.minute, given, q.at)

Hosts ==
  /\ db.hosts \in Seq(Identity)
  /\ \A c \in cache.identity : c.id \in 1..Len(db.hosts) /\ db.hosts[c.id] = c.strings
  /\ \A c, d \in cache.identity : c = d
  /\ \A r \in db.metrics : /\ r \in [at : DOMAIN given, key : DOMAIN seen, host : 1..Len(db.hosts)]
                           /\ r.key = given[r.at].key
                           /\ db.hosts[r.host] = given[r.at].snapshot.identity
  /\ \A r, q \in db.metrics : r.at = q.at => r = q

Devices ==
  /\ IsDevices(cache.devices) /\ IsDevices(db.devices)
  /\ IsFiniteSet(DOMAIN db.devices)
  /\ \A d \in DOMAIN db.devices : db.devices[d].id \in 1..Cardinality(DOMAIN db.devices)
  /\ \A d, x \in DOMAIN db.devices : db.devices[d].id = db.devices[x].id => d = x
  /\ \A d \in DOMAIN cache.devices : d \in DOMAIN db.devices
                                     /\ cache.devices[d].id = db.devices[d].id
  /\ \A r \in db.readings : r \in [at : DOMAIN given, id : {db.devices[d].id : d \in DOMAIN db.devices}]

Keys ==
  /\ published \in {"yes", "lost", "written"}
  /\ DOMAIN seen \subseteq Instant /\ handled \subseteq DOMAIN seen
  /\ \A k \in DOMAIN seen : seen[k] \in Enumeration
  /\ \A k \in handled : k <= clock
  /\ published = "yes" => \A k \in handled : k <= started \/ \E last \in cache.fs.lastKey : k <= last

IsKeyed(table) == \A r, q \in table : r.at = q.at /\ r.mount = q.mount => r = q

FilesystemTypes ==
  /\ cache.fs \in [lastKey : SUBSET Instant, lastRows : Enumeration, present : SUBSET Mount]
  /\ db.rows \subseteq [at : handled, mount : Mount, value : Value] /\ IsKeyed(db.rows)
  /\ db.events \subseteq [at : handled, mount : Mount, present : BOOLEAN] /\ IsKeyed(db.events)

PresentIn(events) == {e.mount : e \in {n \in NewestOf(events) : n.present}}

\* The cache fs knows the newest rows and the present mounts of the tables.
Knows(fs, rows, events) ==
  /\ \A r \in NewestOf(rows) : r.mount \in DOMAIN fs.lastRows /\ fs.lastRows[r.mount] = r.value
  /\ fs.present = PresentIn(events)

HaveRows(rows, events) == \A m \in PresentIn(events) : \E r \in rows : r.mount = m

Filesystems ==
  /\ FilesystemTypes
  /\ published = "yes" => Knows(cache.fs, db.rows, db.events)
  /\ published # "written" => HaveRows(db.rows, db.events)

Marks == db.lastDetail \subseteq Instant /\ db.pending \in BOOLEAN

HistoryInv == Shapes /\ Times /\ GivenAgrees /\ Marks /\ Processes /\ Hosts /\ Devices /\ Keys /\ Filesystems
-----------------------------------------------------------------------------
(* What every step does to them. *)

Quiet == UNCHANGED <<db, cache, given, handled, started, published>>
Counts == /\ \E x \in BOOLEAN : db' = [db EXCEPT !.pending = x]
          /\ UNCHANGED <<clock, seen, cache, given, handled, started, published>>

(* A step that changes what is kept is one of these; the others only move an insert, a tick,
   a read or the clock on. *)
LEMMA StepKinds ==
  ASSUME [Next]_vars
  PROVE  \/ Quiet \/ Counts \/ Restarts \/ Stores \/ StoresUnpublished
         \/ WritesFast \/ WritesDetail
         \/ PrunesRaw \/ PrunesGpus \/ PrunesSensors \/ PrunesDetail \/ PrunesFast \/ PrunesOrphans
<1>1. CASE InsertBegins \/ InsertStops \/ ProcessRowsFail \/ SkipsDetail \/ ReadsPending \/ InsertEnds
  BY <1>1 DEF Quiet, InsertBegins, InsertStops, ProcessRowsFail, SkipsDetail, ReadsPending, InsertEnds
<1>2. CASE TickBegins \/ ReportsPending \/ StageFails \/ ReadHistory \/ TimePasses \/ UNCHANGED vars
  BY <1>2 DEF Quiet, TickBegins, ReportsPending, Tick, StageFails, ReadHistory, ReadsMetrics, ReadsFast,
              ReadsMinute, ReadsDevices, ReadsRows, ReadsEvents, ReadEnds, Reads, TimePasses, vars
<1>3. CASE AddsPending \/ ClearsPending
  BY <1>3 DEF Counts, AddsPending, ClearsPending, Tick
<1> QED BY <1>1, <1>2, <1>3 DEF Next, Insert, Maintains

(* No step adds or drops a table. *)
LEMMA TablesKept ==
  ASSUME Shapes, [Next]_vars
  PROVE  DOMAIN db' = DOMAIN EmptyTables
<1>1. CASE Quiet \/ Counts \/ Restarts
  BY <1>1 DEF Shapes, Quiet, Counts, Restarts
<1>2. CASE Stores \/ StoresUnpublished
  BY <1>2 DEF Shapes, Stores, Commits, StoresUnpublished, Tables
<1>3. CASE WritesFast \/ WritesDetail
  BY <1>3 DEF Shapes, WritesFast, WritesDetail
<1>4. CASE PrunesRaw \/ PrunesGpus \/ PrunesSensors \/ PrunesDetail \/ PrunesFast \/ PrunesOrphans
  BY <1>4 DEF Shapes, PrunesRaw, PrunesGpus, PrunesSensors, PrunesReadings, PrunesDetail, PrunesFast,
              PrunesOrphans, Tick
<1> QED BY <1>1, <1>2, <1>3, <1>4, StepKinds

(* Time passes forwards, and only a restart changes when the process started. *)
LEMMA ClockKept ==
  ASSUME HistoryConstants, Times, [Next]_vars
  PROVE  /\ clock' \in Instant /\ clock' \in Nat /\ clock \in Nat /\ clock <= clock'
         /\ started' \in Nat /\ started' <= clock'
         /\ ~Restarts => started' = started
<1>1. clock \in Nat /\ Instant \subseteq Nat
  BY DEF Times, HistoryConstants
<1>2. CASE UNCHANGED <<clock, started>>
  BY <1>1, <1>2 DEF Times
<1>3. CASE TimePasses
  BY <1>1, <1>3 DEF TimePasses, Times
<1>4. CASE Restarts
  BY <1>1, <1>4 DEF Restarts, Times
<1> QED
  BY <1>2, <1>3, <1>4 DEF Next, Insert, InsertBegins, InsertStops, ProcessRowsFail, SkipsDetail, ReadsPending,
    InsertEnds, Maintains, TickBegins, StageFails, ReadHistory, ReadsMetrics, ReadsFast, Reads,
    ReadsMinute, ReadsDevices, ReadsRows, ReadsEvents, ReadEnds, vars, AddsPending, ClearsPending,
    ReportsPending, Tick, Stores, StoresUnpublished, WritesFast, WritesDetail,
    PrunesRaw, PrunesGpus, PrunesSensors, PrunesReadings, PrunesDetail, PrunesFast, PrunesOrphans

(* A tick goes from stage to stage with the clock reading it began with. *)
LEMMA TickKept ==
  ASSUME HistoryConstants, Shapes, Times, [Next]_vars
  PROVE  /\ tick' = Idle \/ tick' \in TickRecord
         /\ tick' # Idle => tick'.now <= clock'
<1> USE DEF Idle
<1>1. clock' \in Nat /\ clock \in Nat /\ clock <= clock'
  BY ClockKept
<1>2. CASE UNCHANGED tick
  BY <1>1, <1>2 DEF Shapes, Times, TickRecord
<1>3. CASE tick' = Idle
  BY <1>3
<1>4. CASE TickBegins
  BY <1>1, <1>4 DEF TickBegins, TickRecord
<1>5. CASE tick.at # "idle" /\ tick' \in TickRecord /\ tick'.now = tick.now
  BY <1>1, <1>5 DEF Shapes, Times, TickRecord
<1>6. CASE ReportsPending \/ ClearsPending \/ PrunesRaw \/ PrunesGpus \/ PrunesSensors
  <2>1. tick.at # "idle" /\ tick' \in TickRecord /\ tick'.now = tick.now
    BY <1>6 DEF Shapes, ReportsPending, ClearsPending, PrunesRaw, PrunesGpus, PrunesSensors,
                PrunesReadings, Tick, To, TickRecord
  <2> QED BY <1>5, <2>1
<1>7. CASE PrunesDetail
  <2>1. tick.at # "idle" /\ \E x \in BOOLEAN : tick' = [To("fast") EXCEPT !.deleted = x]
    BY <1>7 DEF PrunesDetail, Tick
  <2>2. tick \in TickRecord
    BY <2>1 DEF Shapes
  <2>3. tick.at # "idle" /\ tick' \in TickRecord /\ tick'.now = tick.now
    BY <2>1, <2>2 DEF To, TickRecord
  <2> QED BY <1>5, <2>3
<1>8. CASE PrunesFast
  <2>1. tick.at = "fast" /\ (tick' = [tick EXCEPT !.batches = TRUE] \/ tick' = To("orphans") \/ tick' = Idle)
    BY <1>8 DEF PrunesFast, Tick
  <2>2. tick \in TickRecord
    BY <2>1 DEF Shapes
  <2>3. tick' = Idle \/ (tick.at # "idle" /\ tick' \in TickRecord /\ tick'.now = tick.now)
    BY <2>1, <2>2 DEF To, TickRecord
  <2> QED BY <1>3, <1>5, <2>3
<1>9. CASE PrunesOrphans
  BY <1>2, <1>3, <1>9 DEF PrunesOrphans, Tick
<1>10. CASE StageFails
  <2>1. tick \in TickRecord
    BY <1>10 DEF Shapes, StageFails
  <2>2. tick' = Idle \/ (tick.at # "idle" /\ tick' \in TickRecord /\ tick'.now = tick.now)
    BY <1>10, <2>1 DEF StageFails, NextStage, To, TickRecord
  <2> QED BY <1>3, <1>5, <2>2
<1>11. CASE Insert
  BY <1>2, <1>11 DEF Insert, InsertBegins, InsertStops, ProcessRowsFail, SkipsDetail, ReadsPending,
    InsertEnds, AddsPending, Stores, StoresUnpublished, WritesFast, WritesDetail
<1>12. CASE ReadHistory \/ Restarts \/ TimePasses \/ UNCHANGED vars
  BY <1>2, <1>3, <1>12 DEF ReadHistory, ReadsMetrics, ReadsFast, Reads, Restarts, TimePasses,
    ReadsMinute, ReadsDevices, ReadsRows, ReadsEvents, ReadEnds, vars
<1> QED BY <1>4, <1>6, <1>7, <1>8, <1>9, <1>10, <1>11, <1>12 DEF Next, Maintains

(* An insert goes from stage to stage with the snapshot it began with, which is stored before
   its process rows are written. *)
LEMMA InsertKept ==
  ASSUME HistoryConstants, Shapes, Times, GivenAgrees, [Next]_vars
  PROVE  /\ insert' = Idle \/ insert' \in InsertRecord
         /\ insert' # Idle => /\ insert'.captured <= clock' /\ insert'.key <= insert'.captured
                              /\ started' < insert'.key
         /\ GivenAgrees'
<1> USE DEF Idle
<1>0. clock' \in Nat /\ clock \in Nat /\ clock <= clock' /\ Instant \subseteq Nat
  BY ClockKept DEF HistoryConstants
<1>1. CASE UNCHANGED <<insert, given, seen, started>>
  <2>1. /\ insert' = Idle \/ insert' \in InsertRecord
        /\ insert' # Idle => /\ insert'.captured <= clock' /\ insert'.key <= insert'.captured
                             /\ started' < insert'.key
    <3>1. insert # Idle => insert.captured \in Nat
      BY <1>0 DEF Shapes, InsertRecord
    <3> QED BY <1>0, <1>1, <3>1 DEF Shapes, Times
  <2> QED BY <1>1, <2>1 DEF GivenAgrees
<1>2. CASE insert' = Idle /\ UNCHANGED <<given, seen>>
  BY <1>2 DEF GivenAgrees
<1>3. CASE insert.at \notin {"idle", "store"} /\ UNCHANGED <<given, seen, started>>
           /\ \E at \in {"detail", "count", "add"}, x \in BOOLEAN :
                insert' = [insert EXCEPT !.at = at, !.rows = x]
  <2>1. insert \in InsertRecord
    BY <1>3 DEF Shapes
  <2>2. PICK at \in {"detail", "count", "add"}, x \in BOOLEAN :
          insert' = [insert EXCEPT !.at = at, !.rows = x]
    BY <1>3
  <2>3. insert' = [at |-> at, captured |-> insert.captured, key |-> insert.key,
                   snapshot |-> insert.snapshot, rows |-> x]
    BY <2>1, <2>2 DEF InsertRecord
  <2> HIDE <2>2
  <2>4. insert' # Idle /\ insert # Idle /\ insert'.at # "store" /\ insert.at # "store"
    BY <1>3, <2>3
  <2> QED BY <1>0, <1>3, <2>1, <2>3, <2>4 DEF InsertRecord, Times, GivenAgrees
<1>4. CASE InsertBegins
  <2>1. PICK t \in Instant, k \in Instant, s \in Snapshot :
       /\ started < k /\ k <= t /\ t <= clock /\ clock <= t + Lateness
       /\ t \notin DOMAIN given
       /\ k \in DOMAIN seen => s.filesystems = seen[k]
       /\ seen' = With(seen, k, s.filesystems)
       /\ insert' = [at |-> "store", captured |-> t, key |-> k, snapshot |-> s, rows |-> FALSE]
    BY <1>4 DEF InsertBegins
  <2>2. UNCHANGED <<given, clock, started>>
    BY <1>4 DEF InsertBegins
  <2>3. /\ DOMAIN seen' = DOMAIN seen \cup {k} /\ seen'[k] = s.filesystems
        /\ \A z \in DOMAIN seen : seen'[z] = seen[z]
    BY <2>1 DEF With
  <2>4. insert' # Idle /\ insert' \in InsertRecord
    BY <2>1 DEF InsertRecord
  <2>5. GivenAgrees'
    BY <2>1, <2>2, <2>3, <2>4 DEF GivenAgrees
  <2> QED BY <1>0, <2>1, <2>2, <2>4, <2>5
<1>5. CASE Stores \/ StoresUnpublished
  <2>1. insert \in InsertRecord /\ insert.at = "store"
    BY <1>5 DEF Shapes, Stores, Commits, StoresUnpublished
  <2>2. given' = With(given, insert.captured, [key |-> insert.key, snapshot |-> insert.snapshot])
        /\ UNCHANGED <<clock, started, seen>>
    BY <1>5 DEF Stores, Commits, StoresUnpublished
  <2>3. /\ DOMAIN given' = DOMAIN given \cup {insert.captured}
        /\ given'[insert.captured] = [key |-> insert.key, snapshot |-> insert.snapshot]
        /\ \A z \in DOMAIN given : given'[z] = given[z]
    <3>1. insert.captured \notin DOMAIN given
      BY <2>1 DEF GivenAgrees
    <3> QED BY <2>2, <3>1 DEF With
  <2>4. \/ insert' = Idle
        \/ \E x \in BOOLEAN : insert' = [insert EXCEPT !.at = "fast", !.rows = x]
    BY <1>5 DEF Stores, Commits, StoresUnpublished
  <2>5. \/ insert' = Idle
        \/ \E x \in BOOLEAN : insert' = [at |-> "fast", captured |-> insert.captured, key |-> insert.key,
                                         snapshot |-> insert.snapshot, rows |-> x]
    BY <2>1, <2>4 DEF InsertRecord
  <2>6. insert' = Idle \/ insert' \in InsertRecord
    BY <2>1, <2>5 DEF InsertRecord
  <2>7. insert' # Idle => /\ insert'.captured = insert.captured /\ insert'.key = insert.key
                          /\ insert'.snapshot = insert.snapshot /\ insert'.at # "store"
    BY <2>5
  <2>8. insert # Idle
    BY <2>1
  <2> HIDE <2>5, <2>4
  <2>9. \A t \in DOMAIN given' :
          /\ given'[t].snapshot \in Snapshot /\ given'[t].key \in DOMAIN seen
          /\ seen[given'[t].key] = given'[t].snapshot.filesystems
    BY <2>1, <2>3, <2>8 DEF GivenAgrees, InsertRecord
  <2>10. GivenAgrees'
    BY <2>2, <2>3, <2>7, <2>8, <2>9 DEF GivenAgrees
  <2> QED BY <2>2, <2>6, <2>7, <2>8, <2>10 DEF Times
<1>6. CASE InsertStops \/ InsertEnds \/ AddsPending \/ Restarts
  BY <1>2, <1>6 DEF InsertStops, InsertEnds, AddsPending, Restarts
<1>7. CASE ProcessRowsFail
  <2>1. insert \in InsertRecord /\ insert.at \notin {"idle", "store"}
    BY <1>7 DEF Shapes, ProcessRowsFail
  <2>2. insert' = [insert EXCEPT !.at = IF insert.at = "fast" THEN "detail" ELSE "count", !.rows = insert.rows]
    BY <1>7, <2>1 DEF ProcessRowsFail, InsertRecord
  <2>3. insert.rows \in BOOLEAN
    BY <2>1 DEF InsertRecord
  <2> QED BY <1>3, <1>7, <2>1, <2>2, <2>3 DEF ProcessRowsFail
<1>8. CASE SkipsDetail \/ WritesFast \/ ReadsPending
  <2>1. insert \in InsertRecord /\ insert.at \notin {"idle", "store"}
    BY <1>8 DEF Shapes, SkipsDetail, WritesFast, ReadsPending
  <2>2. \E at \in {"detail", "count", "add"} : insert' = [insert EXCEPT !.at = at]
    BY <1>8 DEF SkipsDetail, WritesFast, ReadsPending
  <2>3. insert.rows \in BOOLEAN /\ \A at : [insert EXCEPT !.at = at] = [insert EXCEPT !.at = at, !.rows = insert.rows]
    BY <2>1 DEF InsertRecord
  <2> QED BY <1>3, <1>8, <2>1, <2>2, <2>3 DEF SkipsDetail, WritesFast, ReadsPending
<1>9. CASE WritesDetail
  <2>1. insert \in InsertRecord /\ insert.at \notin {"idle", "store"}
    BY <1>9 DEF Shapes, WritesDetail
  <2>2. \E x \in BOOLEAN : insert' = [insert EXCEPT !.at = "count", !.rows = x]
    BY <1>9, <2>1 DEF WritesDetail, InsertRecord
  <2> QED BY <1>3, <1>9, <2>1, <2>2 DEF WritesDetail
<1>10. CASE Maintains \/ ReadHistory \/ TimePasses \/ UNCHANGED vars
  BY <1>1, <1>10 DEF Maintains, TickBegins, StageFails, ReadHistory, ReadsMetrics, ReadsFast, Reads, TimePasses,
    ReadsMinute, ReadsDevices, ReadsRows, ReadsEvents, ReadEnds, vars, ClearsPending, ReportsPending, Tick,
    PrunesRaw, PrunesGpus, PrunesSensors, PrunesReadings, PrunesDetail, PrunesFast, PrunesOrphans
<1> QED BY <1>4, <1>5, <1>6, <1>7, <1>8, <1>9, <1>10 DEF Next, Insert

(* A read goes from stage to stage, and reads that have ended or were killed forget all. *)
LEMMA ReaderKept ==
  ASSUME Shapes, [Next]_vars
  PROVE  /\ reader'.at \in {"idle", "fast", "minute", "devices", "rows", "events", "done"}
         /\ mishaps' \in Nat
<1>1. CASE ReadHistory
  BY <1>1 DEF ReadHistory, ReadsMetrics, ReadsFast, Reads, ReadsMinute, ReadsDevices, ReadsRows, ReadsEvents,
              ReadEnds, Shapes, Idle
<1>2. CASE Insert
  BY <1>2 DEF Insert, InsertBegins, InsertStops, ProcessRowsFail, SkipsDetail, ReadsPending, Shapes,
    InsertEnds, AddsPending, Stores, StoresUnpublished, WritesFast, WritesDetail
<1>3. CASE Maintains
  <2>1. UNCHANGED reader /\ (UNCHANGED mishaps \/ mishaps' = mishaps + 1)
    BY <1>3 DEF Maintains, TickBegins, StageFails, ClearsPending, ReportsPending, Tick,
      PrunesRaw, PrunesGpus, PrunesSensors, PrunesReadings, PrunesDetail, PrunesFast, PrunesOrphans
  <2> QED BY <2>1 DEF Shapes
<1>4. CASE Restarts \/ TimePasses \/ UNCHANGED vars
  BY <1>4 DEF Restarts, TimePasses, Shapes, Idle, vars
<1> QED BY <1>1, <1>2, <1>3, <1>4 DEF Next

(* A commit, published or not, stores a capture that was not stored before. *)
LEMMA CommitsOneMore ==
  ASSUME Shapes, Times, GivenAgrees, Stores \/ StoresUnpublished
  PROVE  /\ insert \in InsertRecord /\ insert.at = "store" /\ insert # Idle
         /\ insert.captured \notin DOMAIN given
         /\ DOMAIN given' = DOMAIN given \cup {insert.captured}
         /\ given'[insert.captured] = [key |-> insert.key, snapshot |-> insert.snapshot]
         /\ \A t \in DOMAIN given : given'[t] = given[t]
         /\ UNCHANGED <<clock, seen, started, tick, reader>>
         /\ seen[insert.key] = insert.snapshot.filesystems
         /\ insert.key \in DOMAIN seen
         /\ handled' = IF IsNewKey(insert.key) THEN handled \cup {insert.key} ELSE handled
         /\ \E devices \in DevicesWith(insert.snapshot.devices, insert.captured) : db' = Tables(devices)
<1>1. insert \in InsertRecord /\ insert.at = "store" /\ insert # Idle
  BY DEF Shapes, Stores, Commits, StoresUnpublished, Idle
<1>2. insert.captured \notin DOMAIN given
  BY <1>1 DEF GivenAgrees
<1>3. /\ given' = With(given, insert.captured, [key |-> insert.key, snapshot |-> insert.snapshot])
      /\ UNCHANGED <<clock, seen, started, tick, reader>>
      /\ handled' = IF IsNewKey(insert.key) THEN handled \cup {insert.key} ELSE handled
      /\ \E devices \in DevicesWith(insert.snapshot.devices, insert.captured) : db' = Tables(devices)
  BY DEF Stores, Commits, StoresUnpublished
<1> QED BY <1>1, <1>2, <1>3 DEF GivenAgrees, With

(* What was stored at a capture time is never stored again or forgotten. *)
LEMMA GivenGrows ==
  ASSUME HistoryConstants, Shapes, Times, GivenAgrees, [Next]_vars
  PROVE  /\ DOMAIN given \subseteq DOMAIN given'
         /\ \A t \in DOMAIN given : given'[t] = given[t]
         /\ DOMAIN seen \subseteq DOMAIN seen'
         /\ \A k \in DOMAIN seen : seen'[k] = seen[k]
         /\ handled \subseteq handled'
<1>1. CASE UNCHANGED <<given, seen, handled>>
  BY <1>1
<1>2. CASE InsertBegins
  <2>1. PICK k \in Instant, s \in Snapshot :
          (k \in DOMAIN seen => s.filesystems = seen[k]) /\ seen' = With(seen, k, s.filesystems)
    BY <1>2 DEF InsertBegins
  <2> QED BY <1>2, <2>1 DEF InsertBegins, With
<1>3. CASE Stores \/ StoresUnpublished
  BY <1>3, CommitsOneMore
<1> QED
  BY <1>1, <1>2, <1>3 DEF Next, Insert, InsertStops, ProcessRowsFail, SkipsDetail, ReadsPending,
    InsertEnds, Maintains, TickBegins, StageFails, ReadHistory, ReadsMetrics, ReadsFast, Reads,
    ReadsMinute, ReadsDevices, ReadsRows, ReadsEvents, ReadEnds, vars, AddsPending, ClearsPending,
    ReportsPending, Tick, WritesFast, WritesDetail, Restarts, TimePasses,
    PrunesRaw, PrunesGpus, PrunesSensors, PrunesReadings, PrunesDetail, PrunesFast, PrunesOrphans

(* The control part of the invariant. *)
LEMMA ControlKept ==
  ASSUME HistoryConstants, Shapes, Times, GivenAgrees, [Next]_vars
  PROVE  Shapes' /\ Times' /\ GivenAgrees'
<1>1. Shapes'
  BY TablesKept, InsertKept, TickKept, ReaderKept DEF Shapes, InsertRecord, TickRecord, EmptyTables, Idle
<1>2. Times'
  <2>1. DOMAIN given' \subseteq Instant /\ \A t \in DOMAIN given' : t <= clock'
    <3>1. CASE UNCHANGED given
      <4>1. \A t \in DOMAIN given : t \in Nat /\ t <= clock /\ clock \in Nat /\ clock' \in Nat /\ clock <= clock'
        BY ClockKept DEF HistoryConstants, Times
      <4> QED BY <3>1, <4>1 DEF Times
    <3>2. CASE Stores \/ StoresUnpublished
      BY <3>2, CommitsOneMore DEF Times, InsertRecord
    <3> QED BY <3>1, <3>2, StepKinds DEF Quiet, Counts, Restarts, WritesFast, WritesDetail, Tick,
         PrunesRaw, PrunesGpus, PrunesSensors, PrunesReadings, PrunesDetail, PrunesFast, PrunesOrphans
  <2> QED BY <2>1, ClockKept, TickKept, InsertKept DEF Times, Idle
<1> QED BY <1>1, <1>2, InsertKept
-----------------------------------------------------------------------------
(* Process rows. *)

(* Rows that stay, under a dictionary that grew and captures that are still what they
   were, are still the rows of their captures. *)
LEMMA RowStays ==
  ASSUME NEW r, NEW c, NEW d, NEW g, NEW h, IsRowOf(r, c, g),
         DOMAIN g \subseteq DOMAIN h, \A t \in DOMAIN g : h[t] = g[t],
         r.id \in DOMAIN d, d[r.id] = c[r.id]
  PROVE  IsRowOf(r, d, h)
BY DEF IsRowOf, ListOf

(* Rows that stay are still whole captures. *)
LEMMA CaptureStays ==
  ASSUME NEW table, NEW left, NEW g, NEW h, NEW t \in DOMAIN g, IsComplete(table, g, t),
         DOMAIN g \subseteq DOMAIN h, \A u \in DOMAIN g : h[u] = g[u],
         \A r \in table : r.at = t => r \in left
  PROVE  IsComplete(left, h, t)
BY DEF IsComplete, ListOf

Written(table, c, t, list) == After(t, table) \cup ProcessRows(c, t, list)

(* The rows written for a capture are its whole list, and no other capture is touched. *)
LEMMA WritesCapture ==
  ASSUME NEW table, NEW c, NEW t \in DOMAIN given, NEW list \in Seq(Command),
         ListOf(given, t) = list,
         \A i \in DOMAIN list : \E id \in DOMAIN c : c[id] = list[i],
         \A r \in table : IsRowOf(r, c, given)
  PROVE  /\ \A r \in Written(table, c, t, list) : IsRowOf(r, c, given)
         /\ IsComplete(Written(table, c, t, list), given, t)
         /\ \A q \in Written(table, c, t, list) : q.at # t => q \in table
         /\ \A q \in table : q.at # t => q \in Written(table, c, t, list)
<1>1. \A i \in DOMAIN list : i \in Nat /\ IdOf(c, list[i]) \in DOMAIN c /\ c[IdOf(c, list[i])] = list[i]
  BY DEF IdOf
<1>2. \A r \in ProcessRows(c, t, list) : IsRowOf(r, c, given)
  BY <1>1 DEF ProcessRows, IsRowOf, ListOf
<1>3. \A i \in DOMAIN list : \E r \in ProcessRows(c, t, list) : r.at = t /\ r.rank = i
  <2> SUFFICES ASSUME NEW i \in DOMAIN list
               PROVE  \E r \in ProcessRows(c, t, list) : r.at = t /\ r.rank = i
    OBVIOUS
  <2>1. [at |-> t, rank |-> i, id |-> IdOf(c, list[i])] \in ProcessRows(c, t, list)
    BY DEF ProcessRows
  <2> QED BY <2>1
<1>4. \A r \in ProcessRows(c, t, list) : r.at = t
  BY DEF ProcessRows
<1> QED BY <1>2, <1>3, <1>4 DEF After, IsComplete, ListOf, Written

(* The process part: rows written for a capture have its names, pruned batches take only
   expired rows, and a pruned command has no rows (write_processes, prune_orphan_commands). *)
LEMMA ProcessesKept ==
  ASSUME HistoryConstants, Shapes, Times, GivenAgrees, Processes, [Next]_vars
  PROVE  Processes'
<1>0. /\ clock' \in Nat /\ clock \in Nat /\ clock <= clock' /\ FastKeep \in Nat
      /\ DOMAIN given \subseteq DOMAIN given' /\ \A t \in DOMAIN given : given'[t] = given[t]
      /\ \A t \in DOMAIN given : t \in Nat
  BY ClockKept, GivenGrows DEF HistoryConstants, Times
<1>1. \A q \in db.fast \cup db.minute : q.at \in DOMAIN given /\ q.at \in Nat /\ q.id \in DOMAIN db.commands
  BY <1>0 DEF Processes, IsRowOf
\* Rows that are deleted are whole captures, or expired.
<1>2. ASSUME db'.commands = db.commands, db'.fast \subseteq db.fast, db'.minute \subseteq db.minute,
             \A r \in db.fast \ db'.fast : r.at + FastKeep < clock,
             \A r \in db.minute, q \in db'.minute : r.at = q.at => r \in db'.minute
      PROVE  Processes'
  <2>1. \A r \in db'.fast \cup db'.minute : IsRowOf(r, db'.commands, given')
    BY <1>0, <1>1, <1>2, RowStays DEF Processes
  <2>2. ASSUME NEW q \in db'.fast, q.at + FastKeep >= clock' PROVE IsComplete(db'.fast, given', q.at)
    <3>1. q \in db.fast /\ q.at + FastKeep >= clock
      BY <1>0, <1>1, <1>2, <2>2
    <3>2. IsComplete(db.fast, given, q.at)
      BY <3>1 DEF Processes
    <3>3. \A r \in db.fast : r.at = q.at => r \in db'.fast
      BY <1>0, <1>1, <1>2, <3>1
    <3> QED BY <1>0, <1>1, <3>1, <3>2, <3>3, CaptureStays
  <2>3. ASSUME NEW q \in db'.minute PROVE IsComplete(db'.minute, given', q.at)
    <3>1. q \in db.minute /\ IsComplete(db.minute, given, q.at)
      BY <1>2 DEF Processes
    <3>2. \A r \in db.minute : r.at = q.at => r \in db'.minute
      BY <1>2
    <3> QED BY <1>0, <1>1, <3>1, <3>2, CaptureStays
  <2> QED BY <1>2, <2>1, <2>2, <2>3 DEF Processes
<1>3. CASE UNCHANGED <<db.commands, db.fast, db.minute>>
  BY <1>2, <1>3
<1>4. CASE Quiet \/ Counts \/ Restarts \/ PrunesRaw \/ PrunesGpus \/ PrunesSensors
  BY <1>3, <1>4 DEF Quiet, Counts, Restarts, PrunesRaw, PrunesGpus, PrunesSensors, PrunesReadings, Tick,
                    Shapes, EmptyTables
<1>5. CASE Stores \/ StoresUnpublished
  <2>1. PICK devices \in DevicesWith(insert.snapshot.devices, insert.captured) : db' = Tables(devices)
    BY <1>5, CommitsOneMore
  <2> QED BY <1>3, <2>1 DEF Tables, Shapes, EmptyTables
<1>6. CASE PrunesDetail
  <2>1. db'.commands = db.commands /\ db'.fast = db.fast /\ db'.minute = Kept(db.minute, L2Keep)
    BY <1>6 DEF PrunesDetail, Tick, Shapes, EmptyTables
  <2> QED BY <1>2, <2>1 DEF Kept
<1>7. CASE PrunesFast
  <2>1. PICK batch \in SUBSET (db.fast \ Kept(db.fast, FastKeep)) : db' = [db EXCEPT !.fast = @ \ batch]
    BY <1>7 DEF PrunesFast, Tick
  <2>2. db'.commands = db.commands /\ db'.minute = db.minute /\ db'.fast = db.fast \ batch
    BY <2>1 DEF Shapes, EmptyTables
  <2>3. tick.now \in Nat /\ tick.now <= clock
    BY <1>7 DEF PrunesFast, Shapes, Times, Idle, TickRecord
  <2>4. \A r \in batch : r.at + FastKeep < clock
    BY <1>0, <1>1, <2>3 DEF Kept, Cutoff
  <2> QED BY <1>2, <2>2, <2>4
<1>8. CASE PrunesOrphans
  <2>1. PICK batch \in SUBSET Orphans :
          db' = [db EXCEPT !.commands = [i \in DOMAIN @ \ batch |-> db.commands[i]]]
    BY <1>8 DEF PrunesOrphans, Tick
  <2>2. /\ db'.commands = [i \in DOMAIN db.commands \ batch |-> db.commands[i]]
        /\ db'.fast = db.fast /\ db'.minute = db.minute
    BY <2>1 DEF Shapes, EmptyTables
  <2>3. IsDictionary(db'.commands)
    BY <2>2, FS_Subset DEF Processes, IsDictionary
  <2>4. \A r \in db.fast \cup db.minute : r.id \in DOMAIN db'.commands /\ db'.commands[r.id] = db.commands[r.id]
    BY <1>1, <2>1, <2>2 DEF Orphans
  <2>5. \A r \in db'.fast \cup db'.minute : IsRowOf(r, db'.commands, given')
    <3> SUFFICES ASSUME NEW r \in db'.fast \cup db'.minute PROVE IsRowOf(r, db'.commands, given')
      OBVIOUS
    <3>1. r \in db.fast \cup db.minute /\ IsRowOf(r, db.commands, given)
      BY <2>2 DEF Processes
    <3> HIDE <2>2
    <3> QED BY <1>0, <2>4, <3>1, RowStays
  <2>6. UNCHANGED <<given, clock>>
    BY <1>8 DEF PrunesOrphans, Tick
  <2> QED BY <2>2, <2>3, <2>5, <2>6 DEF Processes
<1>9. CASE WritesFast \/ WritesDetail
  <2> DEFINE t == insert.captured
             list == insert.snapshot.processes
             c == CommandsWith(list)
  <2>1. /\ t \in DOMAIN given /\ given[t].snapshot.processes = list /\ list \in Seq(Command)
        /\ UNCHANGED <<given, clock>>
    <3>1. insert # Idle /\ insert.at # "store" /\ insert \in InsertRecord
      BY <1>9 DEF WritesFast, WritesDetail, Shapes, Idle
    <3> QED BY <1>9, <3>1 DEF GivenAgrees, InsertRecord, HistoryConstants, WritesFast, WritesDetail
  <2>2. /\ IsDictionary(c) /\ DOMAIN db.commands \subseteq DOMAIN c
        /\ \A i \in DOMAIN db.commands : c[i] = db.commands[i]
        /\ \A i \in DOMAIN list : \E id \in DOMAIN c : c[id] = list[i]
    BY <2>1, CommandsWithNames DEF Processes
  <2>3. \A r \in db.fast \cup db.minute : IsRowOf(r, c, given)
    BY <1>1, <2>2, RowStays DEF Processes
  <2>4. CASE WritesFast
    <3>1. /\ db'.commands = c /\ db'.minute = db.minute
          /\ db'.fast = Written(db.fast, c, t, list)
      BY <2>4 DEF WritesFast, Written, Shapes, EmptyTables
    <3> DEFINE before == db.fast
               after == db'.fast
    <3>0. /\ \A r \in before : IsRowOf(r, c, given)
          /\ ListOf(given, t) = list /\ after = Written(before, c, t, list)
      BY <2>1, <2>3, <3>1 DEF ListOf
    <3> HIDE DEF c, t, list, before, after
    <3>2. /\ \A r \in after : IsRowOf(r, c, given)
          /\ IsComplete(after, given, t)
          /\ \A q \in after : q.at # t => q \in before
          /\ \A q \in before : q.at # t => q \in after
      BY <2>1, <2>2, <3>0, WritesCapture
    <3>3. \A q \in db'.fast : q.at + FastKeep >= clock => IsComplete(db'.fast, given, q.at)
      BY <1>1, <3>2, CaptureStays DEF Processes, before, after
    <3> QED BY <2>1, <2>2, <2>3, <3>1, <3>2, <3>3 DEF Processes, after
  <2>5. CASE WritesDetail
    <3>1. /\ db'.commands = c /\ db'.fast = db.fast
          /\ db'.minute = Written(db.minute, c, t, list)
      BY <2>5 DEF WritesDetail, Written, Shapes, EmptyTables
    <3> DEFINE before == db.minute
               after == db'.minute
    <3>0. /\ \A r \in before : IsRowOf(r, c, given)
          /\ ListOf(given, t) = list /\ after = Written(before, c, t, list)
      BY <2>1, <2>3, <3>1 DEF ListOf
    <3> HIDE DEF c, t, list, before, after
    <3>2. /\ \A r \in after : IsRowOf(r, c, given)
          /\ IsComplete(after, given, t)
          /\ \A q \in after : q.at # t => q \in before
          /\ \A q \in before : q.at # t => q \in after
      BY <2>1, <2>2, <3>0, WritesCapture
    <3>3. \A q \in db'.minute : IsComplete(db'.minute, given, q.at)
      BY <1>1, <3>2, CaptureStays DEF Processes, before, after
    <3> QED BY <2>1, <2>2, <2>3, <3>1, <3>2, <3>3 DEF Processes, after
  <2> QED BY <1>9, <2>4, <2>5
<1> QED BY <1>4, <1>5, <1>6, <1>7, <1>8, <1>9, StepKinds

(* As many rows as the capture's list has names. *)
LEMMA WholeCaptureCounts ==
  ASSUME HistoryConstants, GivenAgrees, Processes, NEW table \in {db.fast, db.minute}, NEW q \in table,
         IsComplete(table, given, q.at)
  PROVE  Cardinality({r \in table : r.at = q.at}) = Len(given[q.at].snapshot.processes)
<1> DEFINE t == q.at
           list == given[t].snapshot.processes
           R == {r \in table : r.at = t}
           N == 1..Len(list)
           f == [r \in R |-> r.rank]
<1>1. t \in DOMAIN given /\ list \in Seq(Command)
  BY DEF Processes, IsRowOf, GivenAgrees, HistoryConstants
<1>2. N = DOMAIN list /\ Len(list) \in Nat
  BY <1>1
<1>3. \A r \in R : /\ r \in [at : DOMAIN given, rank : Nat, id : DOMAIN db.commands] /\ r.at = t
                   /\ r.rank \in N /\ db.commands[r.id] = list[r.rank]
  BY <1>2 DEF Processes, IsRowOf, ListOf
<1>4. \A r, s \in R : r.rank = s.rank => r = s
  <2>1. \A r, s \in R : r.rank = s.rank => r.id = s.id
    BY <1>3 DEF Processes, IsDictionary
  <2> QED BY <1>3, <2>1
<1>5. \A i \in N : \E r \in R : r.rank = i
  BY <1>2 DEF IsComplete, ListOf
<1> HIDE DEF t, list, R, N
<1>6. f \in Surjection(R, N) /\ f \in Injection(R, N)
  <2>1. f \in [R -> N]
    BY <1>3
  <2>2. \A r, s \in R : f[r] = f[s] => r = s
    BY <1>4
  <2>3. \A i \in N : \E r \in R : f[r] = i
    BY <1>5
  <2> HIDE DEF f
  <2> QED BY <2>1, <2>2, <2>3 DEF Injection, IsInjective, Surjection
<1> HIDE DEF f
<1>7. IsFiniteSet(N) /\ Cardinality(N) = Len(list)
  <2> DEFINE n == Len(list)
  <2>1. n \in Nat /\ N = 1..n
    BY <1>2 DEF N
  <2> HIDE DEF n
  <2>2. IsFiniteSet(1..n) /\ Cardinality(1..n) = n
    BY <2>1, FS_Interval
  <2> QED BY <2>1, <2>2 DEF n
<1>8. Cardinality(R) = Cardinality(N)
  BY <1>6, <1>7, FS_Injection
<1> QED BY <1>7, <1>8 DEF R, t, list
-----------------------------------------------------------------------------
(* Identities. *)

(* The id of an identity, cached or looked up or new, is its row in the table that the
   insert leaves, and no row changes (host_identity_id). *)
LEMMA HostIdFinds ==
  ASSUME Hosts, NEW strings \in Identity
  PROVE  LET id == HostId(strings)
             with == HostsWith(strings, id)
         IN /\ with \in Seq(Identity) /\ id \in 1..Len(with) /\ with[id] = strings
            /\ Len(db.hosts) <= Len(with) /\ \A i \in 1..Len(db.hosts) : with[i] = db.hosts[i]
<1> DEFINE id == HostId(strings)
           with == HostsWith(strings, id)
           hosts == db.hosts
           cached == cache.identity
<1>1. hosts \in Seq(Identity)
  BY DEF Hosts
<1>2. \/ id \in 1..Len(hosts) /\ hosts[id] = strings
      \/ id = Len(hosts) + 1
  <2>1. CASE \E c \in cached : c.strings = strings
    <3>1. id = (CHOOSE c \in cached : TRUE).id
      BY <2>1 DEF HostId
    <3>2. \A c \in cached : (CHOOSE d \in cached : TRUE) = c
      BY DEF Hosts
    <3> QED BY <2>1, <3>1, <3>2 DEF Hosts
  <2>2. CASE ~\E c \in cached : c.strings = strings
    <3>1. CASE \E i \in 1..Len(hosts) : hosts[i] = strings
      <4>1. id = CHOOSE i \in 1..Len(hosts) : hosts[i] = strings
        BY <2>2, <3>1 DEF HostId
      <4> HIDE DEF hosts
      <4> QED BY <3>1, <4>1
    <3>2. CASE ~\E i \in 1..Len(hosts) : hosts[i] = strings
      BY <2>2, <3>2 DEF HostId
    <3> QED BY <3>1, <3>2
  <2> QED BY <2>1, <2>2
<1>3. with = IF id > Len(hosts) THEN Append(hosts, strings) ELSE hosts
  BY DEF HostsWith
<1> HIDE DEF hosts, id, with
<1>4. /\ with \in Seq(Identity) /\ id \in 1..Len(with) /\ with[id] = strings
      /\ Len(hosts) <= Len(with) /\ \A i \in 1..Len(hosts) : with[i] = hosts[i]
  BY <1>1, <1>2, <1>3
<1> QED BY <1>4 DEF hosts, id, with

(* What a commit writes, table by table. *)
LEMMA CommitsTables ==
  ASSUME Shapes, Times, GivenAgrees, Stores \/ StoresUnpublished
  PROVE  LET s == insert.snapshot  t == insert.captured  k == insert.key  id == HostId(s.identity)
         IN /\ db'.hosts = HostsWith(s.identity, id)
            /\ db'.metrics = db.metrics \cup {[at |-> t, key |-> k, host |-> id]}
            /\ db'.rows = IF IsNewKey(k) THEN RowsWith(k, seen[k]) ELSE db.rows
            /\ db'.events = IF IsNewKey(k) THEN EventsWith(k, seen[k]) ELSE db.events
            /\ db'.devices \in DevicesWith(s.devices, t)
            /\ db'.readings = db.readings \cup {[at |-> t, id |-> db'.devices[d].id] : d \in s.devices}
            /\ UNCHANGED <<db.fast, db.minute, db.commands, db.lastDetail, db.pending>>
<1>1. PICK devices \in DevicesWith(insert.snapshot.devices, insert.captured) : db' = Tables(devices)
  BY CommitsOneMore
<1> QED BY <1>1 DEF Tables, Shapes, EmptyTables

(* The identity part: a metric row keeps the identity of its capture. *)
LEMMA HostsKept ==
  ASSUME HistoryConstants, Shapes, Times, GivenAgrees, Hosts, [Next]_vars
  PROVE  Hosts'
<1>0. /\ DOMAIN given \subseteq DOMAIN given' /\ \A t \in DOMAIN given : given'[t] = given[t]
      /\ DOMAIN seen \subseteq DOMAIN seen'
  BY GivenGrows
<1>1. ASSUME UNCHANGED <<db.hosts, cache.identity>>, db'.metrics \subseteq db.metrics PROVE Hosts'
  BY <1>0, <1>1 DEF Hosts
<1>2. CASE Quiet \/ Counts \/ WritesFast \/ WritesDetail \/ PrunesRaw \/ PrunesGpus \/ PrunesSensors
           \/ PrunesDetail \/ PrunesFast \/ PrunesOrphans
  <2>1. UNCHANGED <<db.hosts, cache.identity>> /\ db'.metrics \subseteq db.metrics
    BY <1>2 DEF Quiet, Counts, PrunesRaw, PrunesGpus, PrunesSensors, PrunesReadings, Tick, PrunesDetail, PrunesFast,
                PrunesOrphans, Shapes, EmptyTables, Kept, WritesFast, WritesDetail
  <2> QED BY <1>1, <2>1
<1>3. CASE Restarts
  <2>1. UNCHANGED <<db, given, seen>> /\ cache'.identity = PrimedIdentity(db)
    BY <1>3 DEF Restarts, Primed
  <2>2. \A r, q \in LastMetric(db) : r = q
    <3> SUFFICES ASSUME NEW r \in LastMetric(db), NEW q \in LastMetric(db) PROVE r = q
      OBVIOUS
    <3>1. r \in db.metrics /\ q \in db.metrics /\ r.at <= q.at /\ q.at <= r.at
      BY DEF LastMetric
    <3>2. r.at \in Nat /\ q.at \in Nat
      BY <3>1 DEF Hosts, Times, HistoryConstants
    <3> QED BY <3>1, <3>2 DEF Hosts
  <2>3. \A r \in LastMetric(db) : r.host \in 1..Len(db.hosts)
    BY DEF LastMetric, Hosts
  <2>4. /\ \A c \in cache'.identity : c.id \in 1..Len(db.hosts) /\ db.hosts[c.id] = c.strings
        /\ \A c, d \in cache'.identity : c = d
    BY <2>1, <2>2, <2>3 DEF PrimedIdentity
  <2> QED BY <2>1, <2>4 DEF Hosts
<1>4. CASE Stores \/ StoresUnpublished
  <2> DEFINE s == insert.snapshot
             t == insert.captured
             id == HostId(s.identity)
             with == HostsWith(s.identity, id)
             row == [at |-> t, key |-> insert.key, host |-> id]
             hosts == db.hosts
  <2>1. /\ insert \in InsertRecord /\ t \notin DOMAIN given /\ t \in DOMAIN given'
        /\ given'[t] = [key |-> insert.key, snapshot |-> s] /\ UNCHANGED seen /\ insert.key \in DOMAIN seen
    BY <1>4, CommitsOneMore
  <2>2. s.identity \in Identity
    BY <2>1 DEF InsertRecord, HistoryConstants
  <2>3. /\ with \in Seq(Identity) /\ id \in 1..Len(with) /\ with[id] = s.identity
        /\ Len(hosts) <= Len(with) /\ \A i \in 1..Len(hosts) : with[i] = hosts[i]
    <3> DEFINE strings == s.identity
    <3>1. strings \in Identity
      BY <2>2
    <3> HIDE DEF strings
    <3>2. LET theId == HostId(strings)
              newHosts == HostsWith(strings, theId)
          IN /\ newHosts \in Seq(Identity) /\ theId \in 1..Len(newHosts) /\ newHosts[theId] = strings
             /\ Len(db.hosts) <= Len(newHosts) /\ \A i \in 1..Len(db.hosts) : newHosts[i] = db.hosts[i]
      BY <3>1, HostIdFinds
    <3> QED BY <3>2 DEF strings
  <2>4. db'.hosts = with /\ db'.metrics = db.metrics \cup {row}
    BY <1>4, CommitsTables
  <2>5. hosts \in Seq(Identity)
    BY DEF Hosts
  <2>6. \A i \in 1..Len(hosts) : i \in 1..Len(with)
    BY <2>3, <2>5
  <2>7. \A r \in db.metrics :
          /\ r \in [at : DOMAIN given, key : DOMAIN seen, host : 1..Len(hosts)] /\ r.key = given[r.at].key
          /\ hosts[r.host] = given[r.at].snapshot.identity
    BY DEF Hosts
  <2>8. cache'.identity = cache.identity \/ cache'.identity = {[strings |-> s.identity, id |-> id]}
    BY <1>4 DEF Stores, StoresUnpublished, Publishes
  <2>9. \A c \in cache.identity : c.id \in 1..Len(hosts) /\ hosts[c.id] = c.strings
    BY DEF Hosts
  <2> HIDE DEF with, id, hosts
  <2>10. /\ \A c \in cache'.identity : c.id \in 1..Len(with) /\ with[c.id] = c.strings
         /\ \A c, d \in cache'.identity : c = d
    BY <2>3, <2>6, <2>8, <2>9 DEF Hosts
  <2>11. \A r \in db'.metrics :
          /\ r \in [at : DOMAIN given', key : DOMAIN seen', host : 1..Len(with)] /\ r.key = given'[r.at].key
          /\ with[r.host] = given'[r.at].snapshot.identity
    <3>1. ASSUME NEW r \in db.metrics
          PROVE  /\ r \in [at : DOMAIN given', key : DOMAIN seen', host : 1..Len(with)]
                 /\ r.key = given'[r.at].key /\ with[r.host] = given'[r.at].snapshot.identity
      BY <1>0, <2>3, <2>6, <2>7
    <3>2. /\ row \in [at : DOMAIN given', key : DOMAIN seen', host : 1..Len(with)]
          /\ row.key = given'[row.at].key /\ with[row.host] = given'[row.at].snapshot.identity
      BY <2>1, <2>3
    <3> QED BY <2>4, <3>1, <3>2
  <2>12. \A r, q \in db'.metrics : r.at = q.at => r = q
    <3>1. \A r \in db.metrics : r.at # row.at
      BY <2>1, <2>7
    <3> QED BY <2>4, <3>1 DEF Hosts
  <2> QED BY <2>3, <2>4, <2>10, <2>11, <2>12 DEF Hosts
<1> QED BY <1>2, <1>3, <1>4, StepKinds
-----------------------------------------------------------------------------
(* Devices. *)

\* A dictionary of devices that grew by the devices of a snapshot.
Extends(w, old, ds) ==
  /\ IsDevices(w) /\ DOMAIN w = DOMAIN old \cup ds /\ IsFiniteSet(DOMAIN w)
  /\ \A d \in DOMAIN w : w[d].id \in 1..Cardinality(DOMAIN w)
  /\ \A d, x \in DOMAIN w : w[d].id = w[x].id => d = x
  /\ \A d \in DOMAIN old : w[d].id = old[d].id

(* Every device of the snapshot gets a row, the ones that had one keep their id, and no
   two have the same (gpu_adapter_ids, sensor_ids). *)
LEMMA DevicesWithIds ==
  ASSUME Devices, NEW ds \in SUBSET (Gpu \cup Sensor), IsFiniteSet(ds), NEW t \in Instant,
         NEW w \in DevicesWith(ds, t)
  PROVE  Extends(w, db.devices, ds)
<1> DEFINE old == db.devices
           had == DOMAIN old
           new == ds \ had
           n == Cardinality(had)
           m == Cardinality(new)
<1>1. /\ IsFiniteSet(had) /\ IsFiniteSet(new) /\ n \in Nat /\ m \in Nat
      /\ had \cap new = {} /\ had \cup new = had \cup ds
  <2>1. IsFiniteSet(had)
    BY DEF Devices
  <2>2. IsFiniteSet(new) /\ new \in SUBSET ds
    BY FS_Subset
  <2> HIDE DEF new, had
  <2>3. n \in Nat /\ m \in Nat
    BY <2>1, <2>2, FS_CardinalityType
  <2> QED BY <2>1, <2>2, <2>3 DEF new, had
<1>2. PICK ids \in [new -> n + 1 .. n + m] :
        /\ \A x, y \in new : ids[x] = ids[y] => x = y
        /\ w = [d \in had \cup new |->
                  IF d \in new THEN [id |-> ids[d], seen |-> t]
                  ELSE IF d \in ds THEN DeviceRow(d, t) ELSE old[d]]
  BY DEF DevicesWith
<1>3. DOMAIN w = had \cup new /\ \A x, y \in new : ids[x] = ids[y] => x = y
  BY <1>2
<1>4. \A d \in had : old[d].id \in 1..n
  BY DEF Devices
<1>5. \A d \in had : /\ old[d] \in [id : Nat, seen : Instant]
                     /\ DeviceRow(d, t) \in [id : Nat, seen : Instant] /\ DeviceRow(d, t).id = old[d].id
  <2> SUFFICES ASSUME NEW d \in had
               PROVE  /\ old[d] \in [id : Nat, seen : Instant]
                      /\ DeviceRow(d, t) \in [id : Nat, seen : Instant] /\ DeviceRow(d, t).id = old[d].id
    OBVIOUS
  <2>1. old[d] \in [id : Nat, seen : Instant]
    BY DEF Devices, IsDevices
  <2>2. CASE d \in DOMAIN cache.devices
    <3>1. cache.devices[d] \in [id : Nat, seen : Instant] /\ cache.devices[d].id = old[d].id
      BY <2>2 DEF Devices, IsDevices
    <3>2. DeviceRow(d, t) \in {[cache.devices[d] EXCEPT !.seen = t], cache.devices[d]}
      BY <2>2 DEF DeviceRow
    <3> QED BY <2>1, <3>1, <3>2
  <2>3. CASE d \notin DOMAIN cache.devices
    BY <2>1, <2>3 DEF DeviceRow
  <2> QED BY <2>2, <2>3
<1>6. \A d \in had : w[d] \in [id : Nat, seen : Instant] /\ w[d].id = old[d].id
  BY <1>2, <1>5
<1>7. \A d \in new : w[d] = [id |-> ids[d], seen |-> t] /\ w[d].id = ids[d]
  BY <1>2
<1>8. IsFiniteSet(DOMAIN w) /\ Cardinality(DOMAIN w) = n + m
  <2> HIDE DEF had, new
  <2>1. Cardinality(had \cap new) = 0
    BY <1>1, FS_EmptySet
  <2>2. IsFiniteSet(had \cup new) /\ Cardinality(had \cup new) = n + m - 0
    BY <1>1, <2>1, FS_Union
  <2> HIDE DEF n, m
  <2> QED BY <1>1, <1>3, <2>2
<1> HIDE <1>2
<1> HIDE DEF old, had, new, n, m
<1>9. \A d \in new : ids[d] \in Nat /\ n < ids[d] /\ ids[d] <= n + m
  BY <1>1
<1>13. /\ \A d \in had : w[d].id \in Nat /\ w[d].id <= n
       /\ \A d \in new : w[d].id \in Nat /\ n < w[d].id /\ w[d].id = ids[d]
  <2>1. ASSUME NEW d \in had PROVE w[d].id \in Nat /\ w[d].id <= n
    <3> DEFINE i == w[d].id
    <3>1. i \in 1..n
      BY <1>4, <1>6
    <3> HIDE DEF i
    <3>2. i \in Nat /\ i <= n
      BY <1>1, <3>1
    <3> QED BY <3>2 DEF i
  <2>2. ASSUME NEW d \in new PROVE w[d].id \in Nat /\ n < w[d].id /\ w[d].id = ids[d]
    <3>1. w[d].id = ids[d]
      BY <1>7
    <3> QED BY <1>9, <3>1
  <2> QED BY <2>1, <2>2
<1>10. \A d, x \in DOMAIN w : w[d].id = w[x].id => d = x
  <2> SUFFICES ASSUME NEW d \in DOMAIN w, NEW x \in DOMAIN w, w[d].id = w[x].id PROVE d = x
    OBVIOUS
  <2>1. CASE d \in had /\ x \in had
    BY <1>6, <2>1 DEF Devices, had, old
  <2>2. CASE d \in new /\ x \in new
    BY <1>3, <1>13, <2>2
  <2>3. CASE (d \in had /\ x \in new) \/ (d \in new /\ x \in had)
    BY <1>1, <1>13, <2>3
  <2> QED BY <1>3, <2>1, <2>2, <2>3
<1>11. \A d \in DOMAIN w : w[d].id \in 1..(n + m)
  BY <1>1, <1>3, <1>4, <1>6, <1>7, <1>9
<1>12. IsDevices(w)
  <2>1. DOMAIN w \subseteq Gpu \cup Sensor
    BY <1>1, <1>3 DEF Devices, IsDevices, had, old
  <2>2. \A d \in DOMAIN w : w[d] \in [id : Nat, seen : Instant]
    BY <1>3, <1>6, <1>7, <1>9
  <2> QED BY <2>1, <2>2 DEF IsDevices
<1> QED BY <1>1, <1>3, <1>6, <1>8, <1>10, <1>11, <1>12 DEF had, old, Extends

(* The device part: ids are never given twice, and the cache has ids of the table. *)
LEMMA DevicesKept ==
  ASSUME HistoryConstants, Shapes, Times, GivenAgrees, Devices, [Next]_vars
  PROVE  Devices'
<1>0. DOMAIN given \subseteq DOMAIN given'
  BY GivenGrows
<1>1. ASSUME UNCHANGED <<db.devices, cache.devices>>, db'.readings \subseteq db.readings PROVE Devices'
  BY <1>0, <1>1 DEF Devices
<1>2. CASE Quiet \/ Counts \/ WritesFast \/ WritesDetail \/ PrunesRaw \/ PrunesDetail \/ PrunesFast \/ PrunesOrphans
  <2>1. UNCHANGED <<db.devices, cache.devices, db.readings>>
    BY <1>2 DEF Quiet, Counts, PrunesRaw, Tick, PrunesDetail, PrunesFast,
                PrunesOrphans, Shapes, EmptyTables, WritesFast, WritesDetail
  <2> QED BY <1>1, <2>1
<1>3. CASE PrunesGpus \/ PrunesSensors
  <2>1. PICK kind \in {Gpu, Sensor} :
          db' = [db EXCEPT !.readings = (@ \ Readings(kind)) \cup Kept(Readings(kind), L1Keep)]
          /\ UNCHANGED cache
    BY <1>3 DEF PrunesGpus, PrunesSensors, PrunesReadings, Tick
  <2>2. UNCHANGED <<db.devices, cache.devices>> /\ db'.readings \subseteq db.readings
    BY <2>1 DEF Shapes, EmptyTables, Kept, Readings
  <2> QED BY <1>1, <2>2
<1>4. CASE Restarts
  <2>1. UNCHANGED <<db, given>> /\ cache'.devices = db.devices
    BY <1>4 DEF Restarts, Primed
  <2> QED BY <2>1 DEF Devices
<1>5. CASE Stores \/ StoresUnpublished
  <2> DEFINE ds == insert.snapshot.devices
             t == insert.captured
             old == db.devices
             w == db'.devices
             kept == cache.devices
  <2>1. insert \in InsertRecord /\ t \in DOMAIN given'
    BY <1>5, CommitsOneMore
  <2>2. t \in Instant /\ ds \in SUBSET (Gpu \cup Sensor) /\ IsFiniteSet(ds)
    BY <2>1 DEF InsertRecord, HistoryConstants
  <2>3. w \in DevicesWith(ds, t) /\ db'.readings = db.readings \cup {[at |-> t, id |-> w[d].id] : d \in ds}
    BY <1>5, CommitsTables
  <2>4. /\ IsDevices(w) /\ DOMAIN w = DOMAIN old \cup ds /\ IsFiniteSet(DOMAIN w)
        /\ \A d \in DOMAIN w : w[d].id \in 1..Cardinality(DOMAIN w)
        /\ \A d, x \in DOMAIN w : w[d].id = w[x].id => d = x
        /\ \A d \in DOMAIN old : w[d].id = old[d].id
    <3> HIDE DEF ds, t, w
    <3>1. w \in DevicesWith(ds, t)
      BY <2>3
    <3>2. Extends(w, db.devices, ds)
      BY <2>2, <3>1, DevicesWithIds
    <3>3. Extends(w, old, ds)
      BY <3>2
    <3> HIDE DEF old
    <3> QED BY <3>3 DEF Extends
  <2>5. \/ cache'.devices = kept
        \/ cache'.devices = [d \in DOMAIN kept \cup ds |-> w[d]]
    BY <1>5 DEF Stores, StoresUnpublished, Publishes
  <2>6. /\ IsDevices(kept)
        /\ \A d \in DOMAIN kept : d \in DOMAIN old /\ kept[d].id = old[d].id
    BY DEF Devices
  <2>7. /\ IsDevices(cache'.devices)
        /\ \A d \in DOMAIN cache'.devices : d \in DOMAIN w /\ cache'.devices[d].id = w[d].id
    <3> DEFINE next == cache'.devices
    <3> HIDE DEF ds, w, old, kept, next
    <3>1. next = kept \/ next = [d \in DOMAIN kept \cup ds |-> w[d]]
      BY <2>5 DEF next
    <3>4. IsDevices(next) /\ \A d \in DOMAIN next : d \in DOMAIN w /\ next[d].id = w[d].id
      <4>1. CASE next = kept
        BY <2>4, <2>6, <4>1
      <4>2. CASE next = [d \in DOMAIN kept \cup ds |-> w[d]]
        <5>1. DOMAIN next = DOMAIN kept \cup ds /\ \A d \in DOMAIN next : next[d] = w[d]
          BY <4>2
        <5>2. DOMAIN next \subseteq DOMAIN w
          BY <2>4, <2>6, <5>1
        <5> QED BY <2>4, <5>1, <5>2 DEF IsDevices
      <4> QED BY <3>1, <4>1, <4>2
    <3> QED BY <3>4 DEF next
  <2>8. \A r \in db'.readings : r \in [at : DOMAIN given', id : {w[d].id : d \in DOMAIN w}]
    <3>1. \A r \in db.readings : r \in [at : DOMAIN given, id : {old[d].id : d \in DOMAIN old}]
      BY DEF Devices
    <3> HIDE DEF ds, w, old, t
    <3>2. {old[d].id : d \in DOMAIN old} \subseteq {w[d].id : d \in DOMAIN w}
      BY <2>4
    <3> QED BY <1>0, <2>1, <2>3, <2>4, <3>1, <3>2
  <2> QED BY <2>4, <2>7, <2>8 DEF Devices
<1> QED BY <1>2, <1>3, <1>4, <1>5, StepKinds
-----------------------------------------------------------------------------
(* Filesystems. *)

(* The key part: with every commit published, no stored enumeration is newer than the key in
   the cache unless it is from before the process started. *)
LEMMA KeysKept ==
  ASSUME HistoryConstants, Shapes, Times, GivenAgrees, Keys, Filesystems, [Next]_vars
  PROVE  Keys'
<1>0. /\ clock \in Nat /\ clock' \in Nat /\ clock <= clock' /\ Instant \subseteq Nat
      /\ ~Restarts => started' = started
  BY ClockKept DEF HistoryConstants
<1>1. DOMAIN seen' \subseteq Instant /\ \A k \in DOMAIN seen' : seen'[k] \in Enumeration
  <2>1. CASE UNCHANGED seen
    BY <2>1 DEF Keys
  <2>2. CASE InsertBegins
    <3>1. PICK k \in Instant, s \in Snapshot : seen' = With(seen, k, s.filesystems)
      BY <2>2 DEF InsertBegins
    <3>2. s.filesystems \in Enumeration
      BY DEF HistoryConstants, Enumeration
    <3>3. DOMAIN seen' = DOMAIN seen \cup {k}
          /\ \A z \in DOMAIN seen' : seen'[z] = IF z = k THEN s.filesystems ELSE seen[z]
      BY <3>1 DEF With
    <3> QED BY <3>2, <3>3 DEF Keys
  <2> QED BY <2>1, <2>2, CommitsOneMore DEF Next, Insert, InsertStops, ProcessRowsFail, SkipsDetail, ReadsPending,
    InsertEnds, Maintains, TickBegins, StageFails, ReadHistory, ReadsMetrics, ReadsFast, Reads,
    ReadsMinute, ReadsDevices, ReadsRows, ReadsEvents, ReadEnds, vars, AddsPending, ClearsPending,
    ReportsPending, Tick, WritesFast, WritesDetail, Restarts, TimePasses,
    PrunesRaw, PrunesGpus, PrunesSensors, PrunesReadings, PrunesDetail, PrunesFast, PrunesOrphans
<1>2. DOMAIN seen \subseteq DOMAIN seen' /\ \A k \in handled : k \in Nat /\ k <= clock'
  BY <1>0, GivenGrows DEF Keys
<1>3. CASE UNCHANGED <<handled, published, cache, started>>
  BY <1>1, <1>2, <1>3 DEF Keys
<1>4. CASE Restarts
  <2>1. UNCHANGED <<handled, clock>> /\ started' = clock /\ published' \in {"yes", "lost", "written"}
    BY <1>4 DEF Restarts, Keys
  <2> QED BY <1>1, <1>2, <2>1 DEF Keys
<1>5. CASE Stores \/ StoresUnpublished
  <2> DEFINE k == insert.key
  <2>1. /\ k \in Instant /\ k \in DOMAIN seen /\ UNCHANGED <<seen, started, clock>>
        /\ handled' = IF IsNewKey(k) THEN handled \cup {k} ELSE handled
    BY <1>5, CommitsOneMore DEF InsertRecord
  <2>2. started < k /\ k <= clock
    <3>1. insert # Idle /\ insert.captured \in Nat /\ k \in Nat
      BY <1>0, <1>5, CommitsOneMore DEF InsertRecord
    <3> QED BY <1>0, <3>1 DEF Times
  <2>3. handled' \subseteq DOMAIN seen' /\ \A h \in handled' : h <= clock'
    BY <1>2, <2>1, <2>2 DEF Keys
  <2>4. published' \in {"yes", "lost", "written"}
    BY <1>5 DEF Stores, Commits, StoresUnpublished, Keys
  <2>5. ASSUME published' = "yes", NEW h \in handled'
        PROVE  h <= started' \/ \E last \in cache'.fs.lastKey : h <= last
    <3>1. published = "yes"
      BY <1>5, <2>5 DEF Stores, Commits, StoresUnpublished
    <3>2. \A g \in handled : g <= started \/ \E last \in cache.fs.lastKey : g <= last
      BY <3>1 DEF Keys
    <3>3. CASE ~IsNewKey(k)
      <4>1. cache'.fs.lastKey = cache.fs.lastKey
        BY <1>5, <3>3 DEF Stores, StoresUnpublished, Publishes
      <4> QED BY <2>1, <2>5, <3>2, <3>3, <4>1
    <3>4. CASE IsNewKey(k)
      <4>1. Stores
        BY <1>5, <2>5, <3>1, <3>4 DEF StoresUnpublished
      <4>2. cache'.fs.lastKey = {k}
        BY <3>4, <4>1 DEF Stores, Publishes, NextFilesystems
      <4>3. h \in Nat /\ k \in Nat /\ started \in Nat
        BY <1>0, <1>2, <2>1, <2>3 DEF Times, Keys
      <4>4. h = k \/ h <= started \/ \E last \in cache.fs.lastKey : h <= last
        BY <2>1, <2>5, <3>2
      <4>5. \A last \in cache.fs.lastKey : last < k
        BY <3>4 DEF IsNewKey
      <4>6. h <= k
        <5>1. CASE \E last \in cache.fs.lastKey : h <= last
          <6>1. PICK last \in cache.fs.lastKey : h <= last
            BY <5>1
          <6>2. last < k /\ last \in Nat
            BY <1>0, <4>5, <6>1 DEF Filesystems, FilesystemTypes
          <6> QED BY <4>3, <6>1, <6>2
        <5>2. CASE h = k \/ h <= started
          BY <2>2, <4>3, <5>2
        <5> QED BY <4>4, <5>1, <5>2
      <4> QED BY <4>2, <4>6
    <3> QED BY <3>3, <3>4
  <2> QED BY <1>1, <2>3, <2>4, <2>5 DEF Keys
<1>6. CASE ~Restarts /\ ~Stores /\ ~StoresUnpublished
  BY <1>0, <1>3, <1>6, StepKinds DEF Quiet, Counts, WritesFast, WritesDetail, Tick,
    PrunesRaw, PrunesGpus, PrunesSensors, PrunesReadings, PrunesDetail, PrunesFast, PrunesOrphans
<1> QED BY <1>4, <1>5, <1>6

(* Rows of a new enumeration, later than all there were, are the newest of their mounts;
   the other mounts keep theirs. *)
LEMMA UpsertedLater ==
  ASSUME NEW table, NEW new, NEW k \in Nat, \A r \in new : r.at = k, IsKeyed(new),
         \A r \in table : r.at \in Nat /\ r.at < k
  PROVE  /\ Upserted(table, new) = table \cup new
         /\ NewestOf(Upserted(table, new))
              = new \cup {r \in NewestOf(table) : \A n \in new : n.mount # r.mount}
<1> DEFINE T == table \cup new
<1>1. Upserted(table, new) = T
  BY DEF Upserted
<1>2. ASSUME NEW r \in new PROVE r \in NewestOf(T)
  BY DEF NewestOf, Newest
<1>3. ASSUME NEW r \in NewestOf(table), \A n \in new : n.mount # r.mount PROVE r \in NewestOf(T)
  BY <1>3 DEF NewestOf, Newest
<1>4. ASSUME NEW r \in NewestOf(T), r \notin new
      PROVE  r \in NewestOf(table) /\ \A n \in new : n.mount # r.mount
  BY <1>4 DEF NewestOf, Newest
<1>5. NewestOf(T) \subseteq T
  BY DEF NewestOf
<1> DEFINE S == new \cup {r \in NewestOf(table) : \A n \in new : n.mount # r.mount}
<1>6. \A r \in NewestOf(T) : r \in S
  BY <1>4
<1>7. \A r \in S : r \in NewestOf(T)
  BY <1>2, <1>3
<1> HIDE DEF T, S
<1>8. NewestOf(T) = S
  BY <1>6, <1>7
<1> QED BY <1>1, <1>8 DEF S, T

(* An upsert leaves one row a time and mount. *)
LEMMA UpsertedKeyed ==
  ASSUME NEW table, NEW new, IsKeyed(table), IsKeyed(new)
  PROVE  IsKeyed(Upserted(table, new))
BY DEF IsKeyed, Upserted

\* What pruning leaves of a table when it forgets the mounts gone.
Left(table, gone) == {r \in FloorKept(table) : r.mount \notin gone}

(* Pruning keeps the newest row of every mount that it does not forget. *)
LEMMA PrunedNewest ==
  ASSUME HistoryConstants, NEW table, \A r \in table : r.at \in Instant, NEW gone
  PROVE  \A r : r \in NewestOf(Left(table, gone)) <=> r \in NewestOf(table) /\ r.mount \notin gone
<1> DEFINE left == Left(table, gone)
<1>1. left \subseteq table /\ \A r \in NewestOf(table) : r.mount \notin gone => r \in left
  BY DEF FloorKept, NewestOf, Left
<1>2. ASSUME NEW r \in NewestOf(left) PROVE r \in NewestOf(table)
  <2>1. r \in left /\ r \in table /\ \A q \in left : q.mount = r.mount => q.at <= r.at
    BY <1>1 DEF NewestOf, Newest
  <2>2. PICK q \in table : q.mount = r.mount /\ q \in Newest(table, r.mount)
    BY <2>1, NewestExists
  <2>3. q \in left
    <3>1. r.mount \notin gone
      BY <2>1 DEF Left
    <3>2. q \in NewestOf(table)
      BY <2>2 DEF NewestOf
    <3> QED BY <1>1, <2>2, <3>1, <3>2
  <2>4. q.at <= r.at /\ q.at \in Nat /\ r.at \in Nat
    BY <2>1, <2>2, <2>3 DEF HistoryConstants
  <2>5. \A p \in table : p.mount = r.mount => p.at <= q.at /\ p.at \in Nat
    BY <2>2 DEF Newest, HistoryConstants
  <2> QED BY <2>1, <2>4, <2>5 DEF NewestOf, Newest
<1>3. ASSUME NEW r \in NewestOf(table), r.mount \notin gone PROVE r \in NewestOf(left)
  <2>1. r \in left
    BY <1>1, <1>3
  <2>2. \A q \in left : q.mount = r.mount => q.at <= r.at
    BY <1>1 DEF NewestOf, Newest
  <2> HIDE DEF left
  <2> QED BY <2>1, <2>2 DEF NewestOf, Newest
<1>4. \A r \in NewestOf(left) : r.mount \notin gone
  BY DEF NewestOf, Left
<1> QED BY <1>2, <1>3, <1>4

(* A mount has one newest row. *)
LEMMA NewestIsOne ==
  ASSUME HistoryConstants, NEW table, \A r \in table : r.at \in Instant, IsKeyed(table),
         NEW r \in NewestOf(table)
  PROVE  /\ r \in table
         /\ \A q \in Newest(table, r.mount) : q = r
         /\ (CHOOSE q \in Newest(table, r.mount) : TRUE) = r
<1>1. r \in table /\ r \in Newest(table, r.mount)
  BY DEF NewestOf
<1>2. ASSUME NEW q \in Newest(table, r.mount) PROVE q = r
  <2>1. q \in table /\ q.mount = r.mount /\ q.at <= r.at /\ r.at <= q.at /\ q.at \in Nat /\ r.at \in Nat
    BY <1>1 DEF Newest, HistoryConstants
  <2> QED BY <1>1, <2>1 DEF IsKeyed
<1> QED BY <1>1, <1>2

\* The rows and events that an enumeration e of a key k adds to what a cache fs knows.
NewRows(fs, k, e) ==
  {[at |-> k, mount |-> m, value |-> e[m]] :
     m \in {x \in DOMAIN e : \/ x \notin fs.present \/ x \notin DOMAIN fs.lastRows
                             \/ fs.lastRows[x] # e[x]}}
NewEvents(was, k, e) ==
  {[at |-> k, mount |-> m, present |-> TRUE] : m \in DOMAIN e \ was}
  \cup {[at |-> k, mount |-> m, present |-> FALSE] : m \in was \ DOMAIN e}
NextCache(fs, k, e) ==
  [lastKey |-> {k},
   lastRows |-> [m \in DOMAIN fs.lastRows \cup DOMAIN e |-> IF m \in DOMAIN e THEN e[m] ELSE fs.lastRows[m]],
   present |-> DOMAIN e]

(* What is new is typed, and has one row and one event a mount. *)
LEMMA NewIsTyped ==
  ASSUME NEW fs, NEW was \in SUBSET Mount, NEW k, NEW H, k \in H, NEW e \in Enumeration
  PROVE  /\ NewRows(fs, k, e) \subseteq [at : H, mount : Mount, value : Value]
         /\ NewEvents(was, k, e) \subseteq [at : H, mount : Mount, present : BOOLEAN]
         /\ IsKeyed(NewRows(fs, k, e)) /\ IsKeyed(NewEvents(was, k, e))
         /\ \A r \in NewRows(fs, k, e) \cup NewEvents(was, k, e) : r.at = k
<1>1. PICK M \in SUBSET Mount : e \in [M -> Value]
  BY DEF Enumeration
<1>2. NewRows(fs, k, e) \subseteq [at : H, mount : Mount, value : Value]
  BY <1>1 DEF NewRows
<1>3. NewEvents(was, k, e) \subseteq [at : H, mount : Mount, present : BOOLEAN]
  <2> SUFFICES ASSUME NEW n \in NewEvents(was, k, e)
               PROVE  n \in [at : H, mount : Mount, present : BOOLEAN]
    OBVIOUS
  <2>1. CASE n \in {[at |-> k, mount |-> m, present |-> TRUE] : m \in DOMAIN e \ was}
    <3>1. PICK m \in DOMAIN e \ was : n = [at |-> k, mount |-> m, present |-> TRUE]
      BY <2>1
    <3>2. m \in Mount
      BY <1>1
    <3> QED BY <3>1, <3>2
  <2>2. CASE n \in {[at |-> k, mount |-> m, present |-> FALSE] : m \in was \ DOMAIN e}
    <3>1. PICK m \in was \ DOMAIN e : n = [at |-> k, mount |-> m, present |-> FALSE]
      BY <2>2
    <3>2. m \in Mount
      BY <1>1
    <3> QED BY <3>1, <3>2
  <2> QED BY <2>1, <2>2 DEF NewEvents
<1>4. IsKeyed(NewRows(fs, k, e))
  BY DEF NewRows, IsKeyed
<1>5. IsKeyed(NewEvents(was, k, e))
  <2>1. ASSUME NEW n \in NewEvents(was, k, e)
        PROVE  \/ n.mount \in DOMAIN e /\ n = [at |-> k, mount |-> n.mount, present |-> TRUE]
               \/ n.mount \notin DOMAIN e /\ n = [at |-> k, mount |-> n.mount, present |-> FALSE]
    <3>1. CASE n \in {[at |-> k, mount |-> m, present |-> TRUE] : m \in DOMAIN e \ was}
      <4>1. PICK m \in DOMAIN e \ was : n = [at |-> k, mount |-> m, present |-> TRUE]
        BY <3>1
      <4> QED BY <4>1
    <3>2. CASE n \in {[at |-> k, mount |-> m, present |-> FALSE] : m \in was \ DOMAIN e}
      <4>1. PICK m \in was \ DOMAIN e : n = [at |-> k, mount |-> m, present |-> FALSE]
        BY <3>2
      <4> QED BY <4>1
    <3> QED BY <3>1, <3>2 DEF NewEvents
  <2>2. ASSUME NEW n \in NewEvents(was, k, e), NEW q \in NewEvents(was, k, e), n.mount = q.mount
        PROVE  n = q
    <3> DEFINE m == n.mount
    <3>1. CASE m \in DOMAIN e
      <4>1. n = [at |-> k, mount |-> m, present |-> TRUE]
        BY <2>1, <3>1
      <4>2. q.mount = m /\ q = [at |-> k, mount |-> q.mount, present |-> TRUE]
        BY <2>1, <2>2, <3>1
      <4> HIDE DEF m
      <4>3. q = [at |-> k, mount |-> m, present |-> TRUE]
        BY <4>2
      <4> QED BY <4>1, <4>3
    <3>2. CASE m \notin DOMAIN e
      <4>1. n = [at |-> k, mount |-> m, present |-> FALSE]
        BY <2>1, <3>2
      <4>2. q.mount = m /\ q = [at |-> k, mount |-> q.mount, present |-> FALSE]
        BY <2>1, <2>2, <3>2
      <4> HIDE DEF m
      <4>3. q = [at |-> k, mount |-> m, present |-> FALSE]
        BY <4>2
      <4> QED BY <4>1, <4>3
    <3> QED BY <3>1, <3>2
  <2> QED BY <2>2 DEF IsKeyed
<1>6. \A r \in NewRows(fs, k, e) \cup NewEvents(was, k, e) : r.at = k
  BY DEF NewRows, NewEvents
<1> QED BY <1>2, <1>3, <1>4, <1>5, <1>6

(* An enumeration stored by a cache that knows the tables leaves them with what the next
   cache knows (insert_snapshot). *)
LEMMA StoresEnumeration ==
  ASSUME NEW fs, NEW rows, NEW events, Knows(fs, rows, events), HaveRows(rows, events),
         NEW k \in Nat, NEW e \in Enumeration,
         \A r \in rows \cup events : r.at \in Nat /\ r.at < k,
         IsKeyed(NewRows(fs, k, e)), IsKeyed(NewEvents(fs.present, k, e)),
         NEW rows2, rows2 = Upserted(rows, NewRows(fs, k, e)),
         NEW events2, events2 = Upserted(events, NewEvents(fs.present, k, e))
  PROVE  Knows(NextCache(fs, k, e), rows2, events2) /\ HaveRows(rows2, events2)
<1> DEFINE nr == NewRows(fs, k, e)
           ne == NewEvents(fs.present, k, e)
           present == fs.present
           last == fs.lastRows
<1>1. /\ \A r \in nr : r.at = k /\ r.mount \in DOMAIN e /\ r.value = e[r.mount]
      /\ \A m \in DOMAIN e : \/ \E r \in nr : r.mount = m
                             \/ m \in present /\ m \in DOMAIN last /\ last[m] = e[m]
  <2>1. \A r \in nr : r.at = k /\ r.mount \in DOMAIN e /\ r.value = e[r.mount]
    BY DEF NewRows
  <2>2. ASSUME NEW m \in DOMAIN e, ~(m \in present /\ m \in DOMAIN last /\ last[m] = e[m])
        PROVE  \E r \in nr : r.mount = m
    <3>1. [at |-> k, mount |-> m, value |-> e[m]] \in nr
      BY <2>2 DEF NewRows
    <3> QED BY <3>1
  <2> QED BY <2>1, <2>2
<1>2. /\ \A n \in ne : /\ n.at = k /\ (n.present <=> n.mount \in DOMAIN e)
                       /\ n.mount \in (DOMAIN e \ present) \cup (present \ DOMAIN e)
      /\ \A m \in (DOMAIN e \ present) \cup (present \ DOMAIN e) : \E n \in ne : n.mount = m
  <2>1. \A n \in ne : /\ n.at = k /\ (n.present <=> n.mount \in DOMAIN e)
                      /\ n.mount \in (DOMAIN e \ present) \cup (present \ DOMAIN e)
    BY DEF NewEvents
  <2>2. ASSUME NEW m \in DOMAIN e \ present PROVE \E n \in ne : n.mount = m
    <3>1. [at |-> k, mount |-> m, present |-> TRUE] \in ne
      BY DEF NewEvents
    <3> QED BY <3>1
  <2>3. ASSUME NEW m \in present \ DOMAIN e PROVE \E n \in ne : n.mount = m
    <3>1. [at |-> k, mount |-> m, present |-> FALSE] \in ne
      BY DEF NewEvents
    <3> QED BY <3>1
  <2> QED BY <2>1, <2>2, <2>3
<1>3. /\ rows2 = rows \cup nr
      /\ NewestOf(rows2) = nr \cup {r \in NewestOf(rows) : \A n \in nr : n.mount # r.mount}
  BY <1>1, UpsertedLater
<1>4. /\ events2 = events \cup ne
      /\ NewestOf(events2) = ne \cup {r \in NewestOf(events) : \A n \in ne : n.mount # r.mount}
  BY <1>2, UpsertedLater
<1>5. /\ \A r \in NewestOf(rows) : r.mount \in DOMAIN last /\ last[r.mount] = r.value
      /\ present = PresentIn(events)
  BY DEF Knows
<1> HIDE DEF nr, ne, present, last
<1>6. PresentIn(events2) = DOMAIN e
  <2>1. ASSUME NEW m \in PresentIn(events2) PROVE m \in DOMAIN e
    <3>1. PICK n \in NewestOf(events2) : n.present /\ n.mount = m
      BY DEF PresentIn
    <3>2. CASE n \in ne
      BY <1>2, <3>1, <3>2
    <3>3. CASE n \in NewestOf(events) /\ \A x \in ne : x.mount # n.mount
      <4>1. m \in present
        BY <1>5, <3>1, <3>3 DEF PresentIn
      <4> QED BY <1>2, <3>1, <3>3, <4>1
    <3> QED BY <1>4, <3>1, <3>2, <3>3
  <2>2. ASSUME NEW m \in DOMAIN e PROVE m \in PresentIn(events2)
    <3>1. CASE m \in present
      <4>1. PICK n \in NewestOf(events) : n.present /\ n.mount = m
        BY <1>5, <3>1 DEF PresentIn
      <4>2. \A x \in ne : x.mount # n.mount
        BY <1>2, <3>1, <4>1
      <4> QED BY <1>4, <4>1, <4>2 DEF PresentIn
    <3>2. CASE m \notin present
      <4>1. PICK n \in ne : n.mount = m
        BY <1>2, <3>2
      <4> QED BY <1>2, <1>4, <4>1 DEF PresentIn
    <3> QED BY <3>1, <3>2
  <2> QED BY <2>1, <2>2
<1>7. ASSUME NEW r \in NewestOf(rows2)
      PROVE  LET next == NextCache(fs, k, e).lastRows IN r.mount \in DOMAIN next /\ next[r.mount] = r.value
  <2> DEFINE next == [m \in DOMAIN last \cup DOMAIN e |-> IF m \in DOMAIN e THEN e[m] ELSE last[m]]
  <2>0. NextCache(fs, k, e).lastRows = next
    BY DEF NextCache, last
  <2>1. DOMAIN next = DOMAIN last \cup DOMAIN e
        /\ \A m \in DOMAIN next : next[m] = IF m \in DOMAIN e THEN e[m] ELSE last[m]
    OBVIOUS
  <2> HIDE DEF next
  <2>2. r.mount \in DOMAIN next /\ next[r.mount] = r.value
    <3>1. CASE r \in nr
      BY <1>1, <2>1, <3>1
    <3>2. CASE r \in NewestOf(rows) /\ \A n \in nr : n.mount # r.mount
      <4>1. r.mount \in DOMAIN last /\ last[r.mount] = r.value
        BY <1>5, <3>2
      <4>2. r.mount \in DOMAIN e => last[r.mount] = e[r.mount]
        BY <1>1, <3>2
      <4> QED BY <2>1, <4>1, <4>2
    <3> QED BY <1>3, <3>1, <3>2
  <2> QED BY <2>0, <2>2
<1>8. NextCache(fs, k, e).present = PresentIn(events2)
  BY <1>6 DEF NextCache
<1>9. ASSUME NEW m \in PresentIn(events2) PROVE \E r \in rows2 : r.mount = m
  <2>1. CASE \E r \in nr : r.mount = m
    BY <1>3, <2>1
  <2>2. CASE m \in present
    <3>1. \E r \in rows : r.mount = m
      BY <1>5, <2>2 DEF HaveRows
    <3> QED BY <1>3, <3>1
  <2> QED BY <1>1, <1>6, <2>1, <2>2
<1> QED BY <1>7, <1>8, <1>9 DEF Knows, HaveRows

(* Rows, events and the cache stay typed and keyed. *)
LEMMA FilesystemTypesKept ==
  ASSUME HistoryConstants, Shapes, Times, GivenAgrees, Hosts, Keys, FilesystemTypes, [Next]_vars
  PROVE  FilesystemTypes'
<1> DEFINE Cached == [lastKey : SUBSET Instant, lastRows : Enumeration, present : SUBSET Mount]
<1>0. handled \subseteq handled'
  BY GivenGrows
<1>1. ASSUME UNCHANGED cache.fs, db'.rows \subseteq db.rows, db'.events \subseteq db.events PROVE FilesystemTypes'
  BY <1>0, <1>1 DEF FilesystemTypes, IsKeyed
<1>2. CASE Quiet \/ Counts \/ WritesFast \/ WritesDetail \/ PrunesRaw \/ PrunesGpus \/ PrunesSensors
           \/ PrunesDetail \/ PrunesFast \/ PrunesOrphans
  <2>1. CASE Quiet \/ Counts \/ WritesFast \/ WritesDetail
    BY <1>1, <2>1 DEF Quiet, Counts, Shapes, EmptyTables, WritesFast, WritesDetail
  <2>2. CASE PrunesRaw \/ PrunesGpus \/ PrunesSensors \/ PrunesFast \/ PrunesOrphans
    <3>1. UNCHANGED <<cache.fs, db.rows, db.events>>
      BY <2>2 DEF PrunesRaw, PrunesGpus, PrunesSensors, PrunesReadings, Tick,
                  PrunesFast, PrunesOrphans, Shapes, EmptyTables
    <3> QED BY <1>1, <3>1
  <2>3. CASE PrunesDetail
    <3>1. UNCHANGED cache.fs /\ db'.rows \subseteq FloorKept(db.rows) /\ db'.events \subseteq FloorKept(db.events)
      BY <2>3 DEF PrunesDetail, Tick, Shapes, EmptyTables
    <3> QED BY <1>1, <3>1 DEF FloorKept
  <2> QED BY <1>2, <2>1, <2>2, <2>3
<1>3. CASE Restarts
  <2> DEFINE rows == db.rows
             events == db.events
             values == [m \in {r.mount : r \in rows} |-> (CHOOSE r \in Newest(rows, m) : TRUE).value]
  <2>1. UNCHANGED <<db, handled>> /\ cache'.fs = PrimedFilesystems(db)
    BY <1>3 DEF Restarts, Primed
  <2>2. /\ \A r \in rows : r.at \in Instant /\ r.mount \in Mount /\ r.value \in Value
        /\ \A e \in events : e.mount \in Mount
        /\ \A r \in LastMetric(db) : r.key \in Instant
    BY DEF FilesystemTypes, Keys, LastMetric, Hosts
  <2>3. PrimedFilesystems(db) = [lastKey |-> {r.key : r \in LastMetric(db)}, lastRows |-> values,
                                 present |-> {e.mount : e \in {n \in NewestOf(events) : n.present}}]
    BY DEF PrimedFilesystems
  <2> HIDE DEF rows, events
  <2>4. values \in Enumeration
    <3>1. \A m \in {r.mount : r \in rows} : \E r \in rows : r \in Newest(rows, m)
      BY <2>2, NewestExists
    <3>2. \A m \in {r.mount : r \in rows} : (CHOOSE r \in Newest(rows, m) : TRUE) \in rows
      BY <3>1 DEF Newest
    <3>3. {r.mount : r \in rows} \in SUBSET Mount
      BY <2>2
    <3> DEFINE M == {r.mount : r \in rows}
    <3>4. values \in [M -> Value]
      BY <2>2, <3>2
    <3> HIDE DEF M, values
    <3> QED BY <3>3, <3>4 DEF Enumeration, M
  <2>5. {r.key : r \in LastMetric(db)} \in SUBSET Instant
    BY <2>2
  <2>6. {e.mount : e \in {n \in NewestOf(events) : n.present}} \in SUBSET Mount
    BY <2>2 DEF NewestOf
  <2> HIDE DEF values
  <2>7. cache'.fs \in Cached
    BY <2>1, <2>3, <2>4, <2>5, <2>6
  <2> QED BY <2>1, <2>7 DEF FilesystemTypes
<1>4. CASE Stores \/ StoresUnpublished
  <2> DEFINE k == insert.key
             e == seen[k]
             fs == cache.fs
             was == fs.present
  <2>1. /\ k \in Instant /\ k \in DOMAIN seen /\ UNCHANGED seen
        /\ handled' = IF IsNewKey(k) THEN handled \cup {k} ELSE handled
    BY <1>4, CommitsOneMore DEF InsertRecord
  <2>2. /\ db'.rows = IF IsNewKey(k) THEN RowsWith(k, e) ELSE db.rows
        /\ db'.events = IF IsNewKey(k) THEN EventsWith(k, e) ELSE db.events
    BY <1>4, CommitsTables
  <2>3. CASE ~IsNewKey(k)
    <3>1. UNCHANGED cache.fs
      BY <1>4, <2>3 DEF Stores, StoresUnpublished, Publishes
    <3> QED BY <1>1, <2>2, <2>3, <3>1
  <2>4. CASE IsNewKey(k)
    <3> DEFINE nr == NewRows(fs, k, e)
               ne == NewEvents(was, k, e)
               R == [at : handled', mount : Mount, value : Value]
               E == [at : handled', mount : Mount, present : BOOLEAN]
    <3>1. k \in handled' /\ was \in SUBSET Mount /\ e \in Enumeration
      BY <2>1, <2>4 DEF FilesystemTypes, Keys
    <3>2. nr \subseteq R /\ ne \subseteq E /\ IsKeyed(nr) /\ IsKeyed(ne)
      <4> HIDE DEF k, e, fs, was
      <4> QED BY <3>1, NewIsTyped
    <3>3. db'.rows = Upserted(db.rows, nr) /\ db'.events = Upserted(db.events, ne)
      BY <2>2, <2>4 DEF RowsWith, EventsWith, NewRows, NewEvents, WrittenMounts, Appeared, ChangedInCache
    <3>4. db.rows \subseteq R /\ db.events \subseteq E
      BY <1>0 DEF FilesystemTypes
    <3>5. db'.rows \subseteq R /\ db'.events \subseteq E
      <4> HIDE DEF nr, ne, R, E
      <4> QED BY <3>2, <3>3, <3>4 DEF Upserted
    <3>6. IsKeyed(db'.rows) /\ IsKeyed(db'.events)
      <4> DEFINE rows == db.rows
                 events == db.events
      <4>1. IsKeyed(rows) /\ IsKeyed(events)
        BY DEF FilesystemTypes
      <4> HIDE DEF nr, ne, rows, events
      <4>2. IsKeyed(Upserted(rows, nr)) /\ IsKeyed(Upserted(events, ne))
        BY <3>2, <4>1, UpsertedKeyed
      <4> QED BY <3>3, <4>2 DEF rows, events
    <3>7. cache'.fs = fs \/ cache'.fs = NextFilesystems(k, e)
      BY <1>4 DEF Stores, StoresUnpublished, Publishes
    <3>8. cache'.fs \in Cached
      <4>1. fs \in Cached
        BY DEF FilesystemTypes
      <4>2. NextFilesystems(k, e) \in Cached
        <5> DEFINE last == fs.lastRows
                   next == [m \in DOMAIN last \cup DOMAIN e |-> IF m \in DOMAIN e THEN e[m] ELSE last[m]]
        <5>1. last \in Enumeration /\ e \in Enumeration
          BY <3>1, <4>1
        <5>2. NextFilesystems(k, e) = [lastKey |-> {k}, lastRows |-> next, present |-> DOMAIN e]
          BY DEF NextFilesystems
        <5> HIDE DEF last, e, k
        <5>3. next \in Enumeration /\ DOMAIN e \in SUBSET Mount
          <6>1. PICK M \in SUBSET Mount : last \in [M -> Value]
            BY <5>1 DEF Enumeration
          <6>2. PICK N \in SUBSET Mount : e \in [N -> Value]
            BY <5>1 DEF Enumeration
          <6>3. next \in [M \cup N -> Value] /\ M \cup N \in SUBSET Mount
            BY <6>1, <6>2
          <6> QED BY <6>2, <6>3 DEF Enumeration
        <5> HIDE DEF next
        <5> QED BY <2>1, <5>2, <5>3
      <4> QED BY <3>7, <4>1, <4>2
    <3> QED BY <3>5, <3>6, <3>8 DEF FilesystemTypes
  <2> QED BY <2>3, <2>4
<1> QED BY <1>2, <1>3, <1>4, StepKinds

(* A restart reads what the tables hold (prime_writer_state). *)
LEMMA PrimedKnows ==
  ASSUME HistoryConstants, FilesystemTypes, \A h \in handled : h \in Instant
  PROVE  Knows(PrimedFilesystems(db), db.rows, db.events)
<1> DEFINE rows == db.rows
           events == db.events
           values == [m \in {r.mount : r \in rows} |-> (CHOOSE r \in Newest(rows, m) : TRUE).value]
           keys == {r.key : r \in LastMetric(db)}
           present == {e.mount : e \in {n \in NewestOf(events) : n.present}}
<1>1. PrimedFilesystems(db) = [lastKey |-> keys, lastRows |-> values, present |-> present]
  BY DEF PrimedFilesystems
<1>2. IsKeyed(rows) /\ \A r \in rows : r.at \in Instant
  BY DEF FilesystemTypes
<1> HIDE DEF rows, events
<1>3. ASSUME NEW r \in NewestOf(rows) PROVE r.mount \in DOMAIN values /\ values[r.mount] = r.value
  <2>1. r \in rows /\ (CHOOSE q \in Newest(rows, r.mount) : TRUE) = r
    BY <1>2, NewestIsOne
  <2> QED BY <2>1
<1>4. present = PresentIn(events)
  BY DEF PresentIn
<1> HIDE DEF values, keys, present
<1>5. /\ PrimedFilesystems(db).lastRows = values
      /\ PrimedFilesystems(db).present = present
  BY <1>1
<1> QED BY <1>3, <1>4, <1>5 DEF Knows, rows, events

(* What pruning leaves of rows and events is still known, and has a row for every mount
   that is present. *)
LEMMA PrunedIsKnown ==
  ASSUME HistoryConstants, NEW rows, NEW events, IsKeyed(events),
         \A r \in rows \cup events : r.at \in Instant,
         NEW gone, gone = Gone(FloorKept(events)),
         NEW rows2, rows2 = Left(rows, gone),
         NEW events2, events2 = Left(events, gone)
  PROVE  /\ \A fs : Knows(fs, rows, events) => Knows(fs, rows2, events2)
         /\ HaveRows(rows, events) => HaveRows(rows2, events2)
<1>1. /\ \A r : r \in NewestOf(rows2) <=> r \in NewestOf(rows) /\ r.mount \notin gone
      /\ \A e : e \in NewestOf(events2) <=> e \in NewestOf(events) /\ e.mount \notin gone
  BY PrunedNewest
<1>2. NewestOf(FloorKept(events)) = NewestOf(events)
  <2>1. \A e : e \in NewestOf(Left(events, {})) <=> e \in NewestOf(events) /\ e.mount \notin {}
    BY PrunedNewest
  <2>2. Left(events, {}) = FloorKept(events)
    BY DEF Left
  <2> QED BY <2>1, <2>2
<1>3. ASSUME NEW e \in NewestOf(events), e.present PROVE e.mount \notin gone
  <2>1. SUFFICES ASSUME NEW n \in NewestOf(events), ~n.present, n.mount = e.mount PROVE FALSE
    BY <1>2 DEF Gone
  <2>2. n \in Newest(events, e.mount)
    BY <2>1 DEF NewestOf
  <2>3. n = e
    BY <2>2, NewestIsOne
  <2> QED BY <1>3, <2>1, <2>3
<1>4. PresentIn(events2) = PresentIn(events)
  <2>1. \A e : e \in NewestOf(events2) /\ e.present <=> e \in NewestOf(events) /\ e.present
    BY <1>1, <1>3
  <2> QED BY <2>1 DEF PresentIn
<1>5. ASSUME NEW m \in PresentIn(events2), HaveRows(rows, events) PROVE \E r \in rows2 : r.mount = m
  <2>1. PICK e \in NewestOf(events2) : e.present /\ e.mount = m
    BY DEF PresentIn
  <2>2. m \notin gone
    BY <1>1, <2>1
  <2>3. PICK q \in rows : q.mount = m
    BY <1>4, <1>5 DEF HaveRows
  <2>4. PICK r \in rows : r.mount = m /\ r \in Newest(rows, m)
    BY <2>3, NewestExists
  <2>5. r \in FloorKept(rows)
    BY <2>4 DEF FloorKept
  <2> QED BY <2>2, <2>4, <2>5 DEF Left
<1>6. ASSUME NEW fs, Knows(fs, rows, events) PROVE Knows(fs, rows2, events2)
  BY <1>1, <1>4, <1>6 DEF Knows
<1> QED BY <1>5, <1>6 DEF HaveRows

(* The filesystem part: what the cache says is present and last is what the tables say. *)
LEMMA FilesystemsKept ==
  ASSUME HistoryConstants, Shapes, Times, GivenAgrees, Keys, Filesystems, Hosts, [Next]_vars
  PROVE  Filesystems'
<1>0. FilesystemTypes /\ FilesystemTypes'
  BY FilesystemTypesKept DEF Filesystems
<1>1. ASSUME UNCHANGED <<cache.fs, db.rows, db.events, published>> PROVE Filesystems'
  BY <1>0, <1>1 DEF Filesystems
<1>2. CASE Quiet \/ Counts \/ WritesFast \/ WritesDetail
  BY <1>1, <1>2 DEF Quiet, Counts, Shapes, EmptyTables, WritesFast, WritesDetail
<1>3. CASE PrunesRaw \/ PrunesGpus \/ PrunesSensors \/ PrunesFast \/ PrunesOrphans
  <2>1. UNCHANGED <<cache.fs, db.rows, db.events, published>>
    BY <1>3 DEF PrunesRaw, PrunesGpus, PrunesSensors, PrunesReadings, Tick,
                PrunesFast, PrunesOrphans, Shapes, EmptyTables
  <2> QED BY <1>1, <2>1
<1>4. CASE PrunesDetail
  <2> DEFINE rows == db.rows
             events == db.events
             gone == Gone(FloorKept(events))
             rows2 == db'.rows
             events2 == db'.events
  <2>1. /\ UNCHANGED <<cache, published>>
        /\ rows2 = Left(rows, gone) /\ events2 = Left(events, gone)
    BY <1>4 DEF PrunesDetail, Tick, Shapes, EmptyTables, Left
  <2>2. IsKeyed(events) /\ \A r \in rows \cup events : r.at \in Instant
    BY <1>0 DEF FilesystemTypes, Keys
  <2> DEFINE fs == cache.fs
  <2>3. /\ Knows(fs, rows, events) => Knows(fs, rows2, events2)
        /\ HaveRows(rows, events) => HaveRows(rows2, events2)
    <3>1. gone = Gone(FloorKept(events))
      OBVIOUS
    <3> HIDE DEF gone, rows, events, rows2, events2, fs
    <3> QED BY <2>1, <2>2, <3>1, PrunedIsKnown
  <2> QED BY <1>0, <2>1, <2>3 DEF Filesystems
<1>5. CASE Restarts
  <2>1. UNCHANGED <<db, handled>> /\ cache'.fs = PrimedFilesystems(db)
        /\ (published' # "written" => published # "written")
    BY <1>5 DEF Restarts, Primed
  <2>2. Knows(PrimedFilesystems(db), db.rows, db.events)
    BY <1>0, PrimedKnows DEF Keys
  <2> QED BY <1>0, <2>1, <2>2 DEF Filesystems
<1>6. CASE Stores \/ StoresUnpublished
  <2> DEFINE k == insert.key
             e == seen[k]
             fs == cache.fs
             was == fs.present
             rows == db.rows
             events == db.events
             rows2 == db'.rows
             events2 == db'.events
  <2>1. /\ k \in Instant /\ k \in DOMAIN seen /\ insert # Idle
    BY <1>6, CommitsOneMore DEF InsertRecord
  <2>2. /\ rows2 = IF IsNewKey(k) THEN RowsWith(k, e) ELSE rows
        /\ events2 = IF IsNewKey(k) THEN EventsWith(k, e) ELSE events
    BY <1>6, CommitsTables
  <2>3. CASE ~IsNewKey(k)
    <3>1. UNCHANGED <<cache.fs, published>>
      BY <1>6, <2>3 DEF Stores, Commits, StoresUnpublished, Publishes
    <3> QED BY <1>1, <2>2, <2>3, <3>1
  <2>4. CASE IsNewKey(k) /\ published # "yes"
    <3>1. published' = "written"
      BY <1>6, <2>4 DEF Stores, Commits, StoresUnpublished, Keys
    <3> QED BY <1>0, <3>1 DEF Filesystems
  <2>5. CASE IsNewKey(k) /\ published = "yes"
    <3> DEFINE nr == NewRows(fs, k, e)
               ne == NewEvents(was, k, e)
    <3>1. was \in SUBSET Mount /\ e \in Enumeration /\ k \in Nat
      BY <1>0, <2>1 DEF FilesystemTypes, Keys, HistoryConstants
    <3>2. IsKeyed(nr) /\ IsKeyed(ne)
      <4> HIDE DEF k, e, fs, was
      <4> QED BY <3>1, NewIsTyped
    <3>3. rows2 = Upserted(rows, nr) /\ events2 = Upserted(events, ne)
      BY <2>2, <2>5 DEF RowsWith, EventsWith, NewRows, NewEvents, WrittenMounts, Appeared, ChangedInCache
    <3>4. \A h \in handled : h \in Nat /\ h < k
      <4> SUFFICES ASSUME NEW h \in handled PROVE h \in Nat /\ h < k
        OBVIOUS
      <4>1. h \in Nat /\ started \in Nat /\ started < k
        BY <2>1 DEF Keys, Times, HistoryConstants
      <4>2. h <= started \/ \E last \in cache.fs.lastKey : h <= last
        BY <2>5 DEF Keys
      <4>3. \A last \in cache.fs.lastKey : last < k /\ last \in Nat
        BY <1>0, <2>5 DEF IsNewKey, FilesystemTypes, HistoryConstants
      <4> QED BY <3>1, <4>1, <4>2, <4>3
    <3>5. \A r \in rows \cup events : r.at \in Nat /\ r.at < k
      BY <1>0, <3>4 DEF FilesystemTypes
    <3>6. Knows(fs, rows, events) /\ HaveRows(rows, events)
      BY <2>5 DEF Filesystems
    <3>7. Knows(NextCache(fs, k, e), rows2, events2) /\ HaveRows(rows2, events2)
      <4>1. IsKeyed(NewRows(fs, k, e)) /\ IsKeyed(NewEvents(fs.present, k, e))
            /\ rows2 = Upserted(rows, NewRows(fs, k, e)) /\ events2 = Upserted(events, NewEvents(fs.present, k, e))
        BY <3>2, <3>3
      <4> HIDE DEF k, e, fs, was, rows, events, rows2, events2
      <4> QED BY <3>1, <3>5, <3>6, <4>1, StoresEnumeration
    <3>8. published' = "yes" => cache'.fs = NextCache(fs, k, e)
      BY <1>6, <2>5 DEF Stores, Commits, StoresUnpublished, Publishes, NextFilesystems, NextCache
    <3> QED BY <1>0, <3>7, <3>8 DEF Filesystems
  <2> QED BY <2>3, <2>4, <2>5
<1> QED BY <1>2, <1>3, <1>4, <1>5, <1>6, StepKinds
-----------------------------------------------------------------------------
(* The invariant. *)

(* The mark of the last minute capture and the pending flag. *)
LEMMA MarksKept ==
  ASSUME Shapes, Times, GivenAgrees, Marks, [Next]_vars
  PROVE  Marks'
<1>1. CASE Quiet \/ Counts \/ Restarts \/ WritesFast
  BY <1>1 DEF Quiet, Counts, Restarts, WritesFast, Shapes, EmptyTables, Marks
<1>2. CASE WritesDetail
  <2>1. insert \in InsertRecord
    BY <1>2 DEF Shapes, WritesDetail, Idle
  <2> QED BY <1>2, <2>1 DEF WritesDetail, Shapes, EmptyTables, Marks, InsertRecord
<1>3. CASE PrunesRaw \/ PrunesGpus \/ PrunesSensors \/ PrunesDetail \/ PrunesFast \/ PrunesOrphans
  <2>1. UNCHANGED <<db.lastDetail, db.pending>>
    BY <1>3 DEF PrunesRaw, PrunesGpus, PrunesSensors, PrunesReadings, PrunesDetail, PrunesFast,
              PrunesOrphans, Tick, Shapes, EmptyTables
  <2> QED BY <2>1 DEF Marks
<1>4. CASE Stores \/ StoresUnpublished
  <2>1. UNCHANGED <<db.lastDetail, db.pending>>
    BY <1>4, CommitsTables
  <2> QED BY <2>1 DEF Marks
<1> QED BY <1>1, <1>2, <1>3, <1>4, StepKinds

(* The invariant of an empty file. *)
LEMMA HistoryInvInit ==
  ASSUME HistoryConstants, Init
  PROVE  HistoryInv
<1> USE DEF Init, EmptyTables, Idle
<1>1. Shapes
  BY DEF Shapes
<1>2. Times
  BY DEF Times, HistoryConstants
<1>3. GivenAgrees
  BY DEF GivenAgrees
<1>4. Processes
  <2>1. IsFiniteSet({})
    BY FS_EmptySet
  <2> QED BY <2>1 DEF Processes, IsDictionary
<1>5. LastMetric(db) = {}
  BY DEF LastMetric
<1>6. Hosts
  BY <1>5 DEF Hosts, Primed, PrimedIdentity
<1>7. Devices
  <2>1. IsFiniteSet({})
    BY FS_EmptySet
  <2>2. cache.devices = <<>> /\ db.devices = <<>> /\ db.readings = {}
    BY DEF Primed
  <2> QED BY <2>1, <2>2 DEF Devices, IsDevices
<1>8. Keys
  BY DEF Keys
<1>9. FilesystemTypes
  <2>1. NewestOf({}) = {}
    BY DEF NewestOf
  <2>2. cache.fs = PrimedFilesystems(db) /\ db.rows = {} /\ db.events = {}
    BY DEF Primed
  <2>3. PrimedFilesystems(db)
          = [lastKey |-> {}, lastRows |-> [m \in {} |-> (CHOOSE r \in Newest({}, m) : TRUE).value], present |-> {}]
    BY <1>5, <2>1 DEF PrimedFilesystems
  <2> DEFINE none == [m \in {} |-> (CHOOSE r \in Newest({}, m) : TRUE).value]
  <2>4. none \in Enumeration
    <3>1. none \in [{} -> Value]
      OBVIOUS
    <3> HIDE DEF none
    <3>2. {} \in SUBSET Mount
      OBVIOUS
    <3> QED BY <3>1, <3>2 DEF Enumeration
  <2> QED BY <2>2, <2>3, <2>4 DEF FilesystemTypes, IsKeyed
<1>10. Filesystems
  <2>1. Knows(PrimedFilesystems(db), db.rows, db.events)
    BY <1>8, <1>9, PrimedKnows DEF Keys
  <2>2. cache.fs = PrimedFilesystems(db)
    BY DEF Primed
  <2>3. HaveRows(db.rows, db.events)
    BY DEF HaveRows, PresentIn, NewestOf
  <2> QED BY <1>9, <2>1, <2>2, <2>3 DEF Filesystems
<1>11. Marks
  BY DEF Marks
<1> QED BY <1>1, <1>2, <1>3, <1>4, <1>6, <1>7, <1>8, <1>10, <1>11 DEF HistoryInv

\* Every reachable state satisfies the invariant.
THEOREM HistoryInvHolds == Spec => []HistoryInv
<1>1. Init => HistoryInv
  BY HistoryConstants, HistoryInvInit
<1>2. HistoryInv /\ [Next]_vars => HistoryInv'
  BY HistoryConstants, ControlKept, MarksKept, ProcessesKept, HostsKept, DevicesKept, KeysKept,
     FilesystemsKept DEF HistoryInv
<1> QED BY <1>1, <1>2, PTL DEF Spec

(* What it says of each part. *)
LEMMA HistoryInvTypes ==
  ASSUME HistoryConstants, HistoryInv
  PROVE  TypeOK
<1> USE DEF HistoryInv
<1>1. /\ clock \in Instant /\ started \in Nat /\ mishaps \in Nat
      /\ published \in {"yes", "lost", "written"}
      /\ DOMAIN seen \subseteq Instant /\ handled \subseteq DOMAIN seen
      /\ \A k \in DOMAIN seen : seen[k] \in Enumeration
      /\ DOMAIN given \subseteq Instant
  BY DEF Times, Shapes, Keys
<1>2. /\ cache.fs \in [lastKey : SUBSET Instant, lastRows : Enumeration, present : SUBSET Mount]
      /\ db.rows \subseteq [at : handled, mount : Mount, value : Value]
      /\ db.events \subseteq [at : handled, mount : Mount, present : BOOLEAN]
  BY DEF Filesystems, FilesystemTypes
<1>3. /\ IsDevices(cache.devices) /\ IsDevices(db.devices)
      /\ \A d, x \in DOMAIN db.devices : db.devices[d].id = db.devices[x].id => d = x
      /\ db.readings \subseteq [at : DOMAIN given, id : {db.devices[d].id : d \in DOMAIN db.devices}]
  BY DEF Devices
<1>4. /\ db.hosts \in Seq(Identity)
      /\ db.metrics \subseteq [at : Instant, key : DOMAIN seen, host : 1..Len(db.hosts)]
  <2>1. \A r \in db.metrics : r \in [at : DOMAIN given, key : DOMAIN seen, host : 1..Len(db.hosts)]
    BY DEF Hosts
  <2> QED BY <1>1, <2>1 DEF Hosts
<1>5. /\ DOMAIN db.commands \subseteq Nat
      /\ \A i, j \in DOMAIN db.commands : db.commands[i] = db.commands[j] => i = j
      /\ db.fast \cup db.minute \subseteq [at : DOMAIN given, rank : Nat, id : DOMAIN db.commands]
  BY DEF Processes, IsDictionary, IsRowOf
<1>6. /\ tick.at \in {"idle", "pending", "clear", "raw", "gpus", "sensors", "detail", "fast", "orphans"}
      /\ insert.at \in {"idle", "store", "fast", "detail", "count", "add"}
      /\ reader.at \in {"idle", "fast", "minute", "devices", "rows", "events", "done"}
      /\ db.lastDetail \subseteq Instant /\ db.pending \in BOOLEAN
  BY DEF Shapes, Idle, TickRecord, InsertRecord, Marks
<1> QED BY <1>1, <1>2, <1>3, <1>4, <1>5, <1>6 DEF TypeOK

(* The cache knows the newest rows, which are what a restart reads. *)
LEMMA HistoryInvCaches ==
  ASSUME HistoryConstants, HistoryInv
  PROVE  CacheAgrees
<1> USE DEF HistoryInv
<1>1. ASSUME published = "yes"
      PROVE  LET primed == PrimedFilesystems(db)
             IN /\ cache.fs.present = primed.present
                /\ \A m \in DOMAIN primed.lastRows : m \in DOMAIN cache.fs.lastRows
                                                     /\ cache.fs.lastRows[m] = primed.lastRows[m]
                /\ primed.present \subseteq DOMAIN primed.lastRows
  <2> DEFINE rows == db.rows
             events == db.events
             fs == cache.fs
             values == [m \in {r.mount : r \in rows} |-> (CHOOSE r \in Newest(rows, m) : TRUE).value]
             keys == {r.key : r \in LastMetric(db)}
             present == {e.mount : e \in {n \in NewestOf(events) : n.present}}
  <2>1. PrimedFilesystems(db) = [lastKey |-> keys, lastRows |-> values, present |-> present]
    BY DEF PrimedFilesystems
  <2>2. IsKeyed(rows) /\ \A r \in rows : r.at \in Instant
    BY DEF Filesystems, FilesystemTypes, Keys
  <2>3. Knows(fs, rows, events) /\ HaveRows(rows, events)
    BY <1>1 DEF Filesystems
  <2> HIDE DEF rows, events, fs
  <2>4. present = PresentIn(events)
    BY DEF PresentIn
  <2>5. ASSUME NEW m \in DOMAIN values PROVE m \in DOMAIN fs.lastRows /\ fs.lastRows[m] = values[m]
    <3>1. PICK r \in rows : r.mount = m /\ r \in Newest(rows, m)
      BY <2>2, NewestExists
    <3>2. r \in NewestOf(rows)
      BY <3>1 DEF NewestOf
    <3>3. (CHOOSE q \in Newest(rows, r.mount) : TRUE) = r
      BY <2>2, <3>2, NewestIsOne
    <3>4. values[m] = r.value
      BY <3>1, <3>3
    <3> QED BY <2>3, <3>1, <3>2, <3>4 DEF Knows
  <2>6. present \subseteq DOMAIN values
    BY <2>3, <2>4 DEF HaveRows
  <2>7. fs.present = present
    BY <2>3, <2>4 DEF Knows
  <2> HIDE DEF values, keys, present
  <2>8. PrimedFilesystems(db).lastRows = values /\ PrimedFilesystems(db).present = present
    BY <2>1
  <2> QED BY <2>5, <2>6, <2>7, <2>8 DEF fs
<1>2. \A d \in DOMAIN cache.devices : d \in DOMAIN db.devices /\ cache.devices[d].id = db.devices[d].id
  BY DEF Devices
<1>3. \A c \in cache.identity : c.id \in 1..Len(db.hosts) /\ db.hosts[c.id] = c.strings
  BY DEF Hosts
<1> QED BY <1>1, <1>2, <1>3 DEF CacheAgrees

(* A capture all of whose ranks are there has as many rows as its list. *)
LEMMA HistoryInvWhole ==
  ASSUME HistoryConstants, HistoryInv
  PROVE  ProcessRowsWhole
<1> USE DEF HistoryInv
<1>1. ASSUME NEW r \in db.fast \cup db.minute
      PROVE  LET list == given[r.at].snapshot.processes
             IN /\ r.rank \in DOMAIN list /\ r.id \in DOMAIN db.commands
                /\ db.commands[r.id] = list[r.rank]
  BY DEF Processes, IsRowOf, ListOf
<1>2. ASSUME NEW t \in {r.at : r \in db.fast}, t + FastKeep >= clock
      PROVE  Cardinality({r \in db.fast : r.at = t}) = Len(given[t].snapshot.processes)
  <2>1. PICK q \in db.fast : q.at = t
    OBVIOUS
  <2> DEFINE table == db.fast
  <2>2. table \in {db.fast, db.minute} /\ q \in table /\ IsComplete(table, given, q.at)
    BY <1>2, <2>1 DEF Processes
  <2> HIDE DEF table
  <2>3. Cardinality({r \in table : r.at = q.at}) = Len(given[q.at].snapshot.processes)
    BY <2>2, WholeCaptureCounts
  <2> QED BY <2>1, <2>3 DEF table
<1>3. ASSUME NEW t \in {r.at : r \in db.minute}
      PROVE  Cardinality({r \in db.minute : r.at = t}) = Len(given[t].snapshot.processes)
  <2>1. PICK q \in db.minute : q.at = t
    OBVIOUS
  <2> DEFINE table == db.minute
  <2>2. table \in {db.fast, db.minute} /\ q \in table /\ IsComplete(table, given, q.at)
    BY <2>1 DEF Processes
  <2> HIDE DEF table
  <2>3. Cardinality({r \in table : r.at = q.at}) = Len(given[q.at].snapshot.processes)
    BY <2>2, WholeCaptureCounts
  <2> QED BY <2>1, <2>3 DEF table
<1> QED BY <1>1, <1>2, <1>3 DEF ProcessRowsWhole

(* Types and keys hold in every reachable state, whatever fails, stops or restarts. *)
THEOREM TypesHold == Spec => []TypeOK
<1>1. HistoryInv => TypeOK
  BY HistoryConstants, HistoryInvTypes
<1> QED BY <1>1, HistoryInvHolds, PTL

(* The caches of the writer are what a restart would read, as long as each commit reached them
   (insert_snapshot, prune_detail_history, prime_writer_state). *)
THEOREM CachesAgree == Spec => []CacheAgrees
<1>1. HistoryInv => CacheAgrees
  BY HistoryConstants, HistoryInvCaches
<1> QED BY <1>1, HistoryInvHolds, PTL

(* Captures in the process tables are the lists that were collected, under their own names
   (write_processes, prune_process_fast, prune_orphan_commands). *)
THEOREM ProcessRowsAreWhole == Spec => []ProcessRowsWhole
<1>1. HistoryInv => ProcessRowsWhole
  BY HistoryConstants, HistoryInvWhole
<1> QED BY <1>1, HistoryInvHolds, PTL

-----------------------------------------------------------------------------
(* What was collected and can still be read. *)

\* The adapters whose readings of a time the tables have.
GpusIn(devices, readings, t) ==
  {d \in DOMAIN devices \cap Gpu : [at |-> t, id |-> devices[d].id] \in readings}

GpusOf(g, t) == g[t].snapshot.devices \cap Gpu

\* The readings of the devices ds at t, beside others.
WithReadings(readings, devices, ds, t) == readings \cup {[at |-> t, id |-> devices[d].id] : d \in ds}

\* Readings of other times than t, by devices of the table.
AreOthers(readings, devices, t) ==
  \A r \in readings : r.at # t /\ \E d \in DOMAIN devices : r.id = devices[d].id

\* Of each capture the readings of its own adapters are there, or none and it is expired.
ReadingsTell ==
  \A t \in DOMAIN given : \/ GpusIn(db.devices, db.readings, t) = GpusOf(given, t)
                          \/ GpusIn(db.devices, db.readings, t) = {} /\ Expired(t, L1Keep)

(* What has expired stays so: the clock of the model is never set back. *)
LEMMA ExpiredStays ==
  ASSUME HistoryConstants, Times, [Next]_vars, NEW t \in Nat, NEW keep \in Nat, Expired(t, keep)
  PROVE  Expired(t, keep)'
BY ClockKept DEF Expired

(* A tick deletes no reading of a time from its cutoff on. *)
LEMMA CutoffExpires ==
  ASSUME HistoryConstants, Times, tick # Idle, tick.now \in Nat, NEW t \in Nat, NEW keep \in Nat
  PROVE  /\ Cutoff(keep) \in Nat
         /\ t < Cutoff(keep) => Expired(t, keep)
<1> DEFINE now == tick.now
<1>1. clock \in Nat /\ now \in Nat /\ now <= clock
  BY DEF Times, HistoryConstants
<1>2. Cutoff(keep) = IF now >= keep THEN now - keep ELSE 0
  BY DEF Cutoff
<1> HIDE DEF now
<1> QED BY <1>1, <1>2 DEF Expired

(* A tick deletes the readings of one kind of device of all expired times, and no others. *)
LEMMA PrunedReadings ==
  ASSUME HistoryConstants, Devices, NEW kind \in {Gpu, Sensor}, NEW t \in Nat, NEW left,
         left = (db.readings \ Readings(kind)) \cup Kept(Readings(kind), L1Keep),
         Cutoff(L1Keep) \in Nat
  PROVE  \/ GpusIn(db.devices, left, t) = GpusIn(db.devices, db.readings, t)
         \/ GpusIn(db.devices, left, t) = {} /\ t < Cutoff(L1Keep)
<1> DEFINE dev == db.devices
           readings == db.readings
           cut == Cutoff(L1Keep)
           Row(d) == [at |-> t, id |-> dev[d].id]
<1>1. \A d, x \in DOMAIN dev : dev[d].id = dev[x].id => d = x
  BY DEF Devices
<1>2. \A r : r \in left <=> r \in readings /\ (r \in Readings(kind) => r.at >= cut)
  BY DEF Kept, Readings
<1>3. \A r : r \in Readings(kind) <=> r \in readings /\ \E x \in DOMAIN dev \cap kind : dev[x].id = r.id
  BY DEF Readings
<1> HIDE DEF dev, readings, cut
<1>4. \A d \in DOMAIN dev : Row(d) \in Readings(kind) <=> Row(d) \in readings /\ d \in kind
  BY <1>1, <1>3
<1>5. \A d \in DOMAIN dev : Row(d) \in left <=> Row(d) \in readings /\ (d \in kind => t >= cut)
  BY <1>2, <1>4
<1>6. CASE kind = Sensor
  <2>1. \A d \in DOMAIN dev \cap Gpu : Row(d) \in left <=> Row(d) \in readings
    BY <1>5, <1>6 DEF HistoryConstants
  <2> QED BY <2>1 DEF GpusIn, dev, readings
<1>7. CASE kind = Gpu /\ t >= cut
  <2>1. \A d \in DOMAIN dev \cap Gpu : Row(d) \in left <=> Row(d) \in readings
    BY <1>5, <1>7
  <2> QED BY <2>1 DEF GpusIn, dev, readings
<1>8. CASE kind = Gpu /\ ~(t >= cut)
  <2>1. \A d \in DOMAIN dev \cap Gpu : Row(d) \notin left
    BY <1>5, <1>8
  <2>2. t < cut
    BY <1>8 DEF cut
  <2> QED BY <2>1, <2>2 DEF GpusIn, dev, cut
<1> QED BY <1>6, <1>7, <1>8

(* A commit adds the readings of the snapshot's devices and touches those of no other time. *)
LEMMA CommittedReadings ==
  ASSUME NEW old, NEW w, NEW ds, Extends(w, old, ds), NEW readings, NEW with, NEW t, NEW u,
         AreOthers(readings, old, t), with = WithReadings(readings, w, ds, t)
  PROVE  /\ GpusIn(w, with, t) = ds \cap Gpu
         /\ u # t => GpusIn(w, with, u) = GpusIn(old, readings, u)
<1> DEFINE Row(x, d) == [at |-> x, id |-> w[d].id]
<1>1. /\ DOMAIN w = DOMAIN old \cup ds
      /\ \A d, x \in DOMAIN w : w[d].id = w[x].id => d = x
      /\ \A d \in DOMAIN old : w[d].id = old[d].id
  BY DEF Extends
<1>2. \A d \in DOMAIN w : Row(t, d) \in with <=> d \in ds
  <2>1. \A d : Row(t, d) \notin readings
    BY DEF AreOthers
  <2> QED BY <1>1, <2>1 DEF WithReadings
<1>3. ASSUME u # t PROVE \A d \in DOMAIN w : Row(u, d) \in with <=> d \in DOMAIN old /\ Row(u, d) \in readings
  <2>1. \A d \in DOMAIN w : Row(u, d) \in readings => d \in DOMAIN old
    <3> SUFFICES ASSUME NEW d \in DOMAIN w, Row(u, d) \in readings PROVE d \in DOMAIN old
      OBVIOUS
    <3>1. PICK x \in DOMAIN old : w[d].id = old[x].id
      BY DEF AreOthers
    <3> QED BY <1>1, <3>1
  <2> QED BY <1>3, <2>1 DEF WithReadings
<1>4. GpusIn(w, with, t) = ds \cap Gpu
  BY <1>1, <1>2 DEF GpusIn
<1>5. ASSUME u # t PROVE GpusIn(w, with, u) = GpusIn(old, readings, u)
  <2>1. \A d \in DOMAIN w : Row(u, d) \in with <=> d \in DOMAIN old /\ Row(u, d) \in readings
    BY <1>3, <1>5
  <2>2. \A d : d \in GpusIn(w, with, u) <=> d \in DOMAIN w \cap Gpu /\ Row(u, d) \in with
    BY DEF GpusIn
  <2>3. \A d : d \in GpusIn(old, readings, u)
               <=> d \in DOMAIN old \cap Gpu /\ [at |-> u, id |-> old[d].id] \in readings
    BY DEF GpusIn
  <2>4. \A d \in DOMAIN old : [at |-> u, id |-> old[d].id] = Row(u, d)
    BY <1>1
  <2>5. \A d : d \in GpusIn(w, with, u) <=> d \in GpusIn(old, readings, u)
    BY <1>1, <2>1, <2>2, <2>3, <2>4
  <2> QED BY <2>5 DEF GpusIn
<1> QED BY <1>4, <1>5

(* No step makes the tables tell of a reading that was not collected, or lose one before its
   time (prune_gpu_samples, the readings of insert_snapshot). *)
LEMMA ReadingsKept ==
  ASSUME HistoryConstants, Shapes, Times, GivenAgrees, Devices, ReadingsTell, [Next]_vars
  PROVE  ReadingsTell'
<1>0. /\ DOMAIN given \subseteq Nat /\ L1Keep \in Nat
      /\ \A t \in Nat : Expired(t, L1Keep) => Expired(t, L1Keep)'
  BY ExpiredStays DEF Times, HistoryConstants
<1>1. ASSUME UNCHANGED <<db.devices, db.readings, given>> PROVE ReadingsTell'
  BY <1>0, <1>1 DEF ReadingsTell, GpusIn, GpusOf
<1>2. CASE Quiet \/ Counts \/ Restarts \/ WritesFast \/ WritesDetail \/ PrunesRaw \/ PrunesDetail
           \/ PrunesFast \/ PrunesOrphans
  <2>1. UNCHANGED <<db.devices, db.readings, given>>
    BY <1>2 DEF Quiet, Counts, Restarts, PrunesRaw, Tick, PrunesDetail, PrunesFast,
                PrunesOrphans, Shapes, EmptyTables, WritesFast, WritesDetail
  <2> QED BY <1>1, <2>1
<1>3. CASE PrunesGpus \/ PrunesSensors
  <2> DEFINE left == db'.readings
  <2>1. PICK kind \in {Gpu, Sensor} :
          db' = [db EXCEPT !.readings = (@ \ Readings(kind)) \cup Kept(Readings(kind), L1Keep)]
          /\ UNCHANGED given /\ tick.at # "idle"
    BY <1>3 DEF PrunesGpus, PrunesSensors, PrunesReadings, Tick
  <2>2. db'.devices = db.devices /\ left = (db.readings \ Readings(kind)) \cup Kept(Readings(kind), L1Keep)
    BY <2>1 DEF Shapes, EmptyTables
  <2>3. tick # Idle /\ tick.now \in Nat
    BY <2>1 DEF Shapes, Idle, TickRecord
  <2>4. /\ Cutoff(L1Keep) \in Nat
        /\ \A t \in Nat : t < Cutoff(L1Keep) => Expired(t, L1Keep)
    BY <1>0, <2>3, CutoffExpires
  <2> HIDE DEF left
  <2>5. \A t \in Nat : \/ GpusIn(db.devices, left, t) = GpusIn(db.devices, db.readings, t)
                       \/ GpusIn(db.devices, left, t) = {} /\ t < Cutoff(L1Keep)
    BY <2>2, <2>4, PrunedReadings
  <2>6. \A t \in DOMAIN given : \/ GpusIn(db.devices, left, t) = GpusOf(given, t)
                                \/ GpusIn(db.devices, left, t) = {} /\ Expired(t, L1Keep)'
    BY <1>0, <2>4, <2>5 DEF ReadingsTell
  <2> QED BY <2>1, <2>2, <2>6 DEF ReadingsTell, left
<1>4. CASE Stores \/ StoresUnpublished
  <2> DEFINE ds == insert.snapshot.devices
             t == insert.captured
             w == db'.devices
             with == db'.readings
             old == db.devices
             had == db.readings
  <2>1. /\ insert \in InsertRecord /\ t \in DOMAIN given' /\ t \notin DOMAIN given
        /\ given'[t].snapshot = insert.snapshot
        /\ \A u \in DOMAIN given' : u = t \/ (u \in DOMAIN given /\ given'[u] = given[u])
    BY <1>4, CommitsOneMore
  <2>2. t \in Instant /\ ds \in SUBSET (Gpu \cup Sensor) /\ IsFiniteSet(ds)
    BY <2>1 DEF InsertRecord, HistoryConstants
  <2>3. w \in DevicesWith(ds, t) /\ with = WithReadings(had, w, ds, t)
    BY <1>4, CommitsTables DEF WithReadings
  <2>4. Extends(w, old, ds)
    <3> HIDE DEF ds, t, w
    <3> QED BY <2>2, <2>3, DevicesWithIds
  <2>5. AreOthers(had, old, t)
    <3>1. \A r \in had : r \in [at : DOMAIN given, id : {old[d].id : d \in DOMAIN old}]
      BY DEF Devices
    <3> HIDE DEF had, old, t
    <3> QED BY <2>1, <3>1 DEF AreOthers
  <2>6. GpusOf(given', t) = ds \cap Gpu
    BY <2>1 DEF GpusOf
  <2> HIDE DEF ds, t, w, with, old, had
  <2>7. ASSUME NEW u \in DOMAIN given'
        PROVE  /\ GpusIn(w, with, t) = ds \cap Gpu
               /\ u # t => GpusIn(w, with, u) = GpusIn(old, had, u)
    <3>1. with = WithReadings(had, w, ds, t)
      BY <2>3
    <3> QED BY <2>4, <2>5, <3>1, CommittedReadings
  <2>8. \A u \in DOMAIN given : \/ GpusIn(old, had, u) = GpusOf(given, u)
                                \/ GpusIn(old, had, u) = {} /\ Expired(u, L1Keep)
    BY DEF ReadingsTell, old, had
  <2>9. \A u \in DOMAIN given' : u = t \/ (u \in DOMAIN given /\ GpusOf(given', u) = GpusOf(given, u))
    BY <2>1 DEF GpusOf
  <2>10. \A u \in DOMAIN given' : \/ GpusIn(w, with, u) = GpusOf(given', u)
                                  \/ GpusIn(w, with, u) = {} /\ Expired(u, L1Keep)'
    <3> SUFFICES ASSUME NEW u \in DOMAIN given'
                 PROVE  \/ GpusIn(w, with, u) = GpusOf(given', u)
                        \/ GpusIn(w, with, u) = {} /\ Expired(u, L1Keep)'
      OBVIOUS
    <3>1. CASE u = t
      BY <2>6, <2>7, <3>1
    <3>2. CASE u # t
      BY <1>0, <2>7, <2>8, <2>9, <3>2
    <3> QED BY <3>1, <3>2
  <2> QED BY <2>10 DEF ReadingsTell, w, with
<1> QED BY <1>2, <1>3, <1>4, StepKinds
-----------------------------------------------------------------------------
(* What a read has of the processes. *)

\* Every capture is a name of its list, in its place.
AreNamed(captures, g) ==
  \A c \in captures : /\ c.at \in DOMAIN g /\ c.rank \in DOMAIN ListOf(g, c.at)
                      /\ c.command = ListOf(g, c.at)[c.rank]

\* The list that a sample at t is read with.
IsListRead(list, t) ==
  \/ list = {}
  \/ \E u \in DOMAIN given : u <= t /\ t <= u + Fallback /\ list = Ranked(ListOf(given, u))
  \/ Expired(t, FastKeep) /\ list \subseteq Ranked(ListOf(given, t))

(* Two detail intervals are a length of time. *)
LEMMA FallbackIsNat ==
  ASSUME HistoryConstants
  PROVE  Fallback \in Nat
<1>1. DetailInterval \in Nat
  BY DEF HistoryConstants
<1> QED BY <1>1 DEF Fallback

(* A statement reads of each capture in its range what the table has of it
   (read_processes_in_range). *)
LEMMA CapturesAreNamed ==
  ASSUME Processes, NEW table \in {db.fast, db.minute}, NEW first, NEW last
  PROVE  /\ AreNamed(Captures(table, first, last), given)
         /\ \A c \in Captures(table, first, last) :
              /\ \E r \in table : r.at = c.at
              /\ IsComplete(table, given, c.at) => IsComplete(Captures(table, first, last), given, c.at)
<1> DEFINE read == Captures(table, first, last)
           commands == db.commands
           Of(r) == [at |-> r.at, rank |-> r.rank, command |-> commands[r.id]]
<1>1. \A c : c \in read <=> \E r \in table : first <= r.at /\ r.at <= last /\ r.id \in DOMAIN commands /\ c = Of(r)
  BY DEF Captures
<1>2. \A r \in table : IsRowOf(r, commands, given)
  BY DEF Processes
<1> HIDE DEF read, commands
<1>3. \A r \in table : /\ r.at \in DOMAIN given /\ r.id \in DOMAIN commands
                       /\ r.rank \in DOMAIN ListOf(given, r.at)
                       /\ commands[r.id] = ListOf(given, r.at)[r.rank]
  BY <1>2 DEF IsRowOf
<1>4. \A r : Of(r).at = r.at /\ Of(r).rank = r.rank /\ Of(r).command = commands[r.id]
  OBVIOUS
<1> HIDE DEF Of
<1>5. AreNamed(read, given)
  BY <1>1, <1>3, <1>4 DEF AreNamed
<1>6. ASSUME NEW c \in read
      PROVE  /\ \E r \in table : r.at = c.at
             /\ IsComplete(table, given, c.at) => IsComplete(read, given, c.at)
  <2>1. PICK r \in table : first <= r.at /\ r.at <= last /\ c = Of(r)
    BY <1>1
  <2>2. c.at = r.at
    BY <1>4, <2>1
  <2>3. ASSUME IsComplete(table, given, r.at), NEW i \in DOMAIN ListOf(given, r.at)
        PROVE  \E x \in read : x.at = r.at /\ x.rank = i
    <3>1. PICK q \in table : q.at = r.at /\ q.rank = i
      BY <2>3 DEF IsComplete
    <3>2. Of(q) \in read
      BY <1>1, <1>3, <2>1, <3>1
    <3> QED BY <1>4, <3>1, <3>2
  <2> QED BY <2>2, <2>3 DEF IsComplete
<1> QED BY <1>5, <1>6 DEF read

(* The captures of a time are a part of its list, or the whole of it. *)
LEMMA ListAtNamed ==
  ASSUME NEW captures, NEW g, NEW t, AreNamed(captures, g)
  PROVE  /\ ListAt(captures, t) \subseteq Ranked(ListOf(g, t))
         /\ IsComplete(captures, g, t) => ListAt(captures, t) = Ranked(ListOf(g, t))
         /\ ListAt(captures, t) # {} => \E c \in captures : c.at = t
<1> DEFINE At(c) == [rank |-> c.rank, command |-> c.command]
           Nth(i) == [rank |-> i, command |-> ListOf(g, t)[i]]
<1>1. \A x : x \in ListAt(captures, t) <=> \E c \in captures : c.at = t /\ x = At(c)
  BY DEF ListAt
<1>2. \A x : x \in Ranked(ListOf(g, t)) <=> \E i \in DOMAIN ListOf(g, t) : x = Nth(i)
  BY DEF Ranked
<1>3. \A c \in captures : c.at = t => c.rank \in DOMAIN ListOf(g, t) /\ At(c) = Nth(c.rank)
  BY DEF AreNamed
<1> HIDE DEF At, Nth
<1>4. ListAt(captures, t) \subseteq Ranked(ListOf(g, t))
  BY <1>1, <1>2, <1>3
<1>5. ASSUME IsComplete(captures, g, t) PROVE Ranked(ListOf(g, t)) \subseteq ListAt(captures, t)
  BY <1>1, <1>2, <1>3, <1>5 DEF IsComplete
<1> QED BY <1>1, <1>4, <1>5

(* Of the captures before a sample the newest is shown, the whole of one list
   (assemble_history_snapshots: processes_for). *)
LEMMA FallbackListRead ==
  ASSUME HistoryConstants, Times, NEW t \in DOMAIN given, NEW minute, AreNamed(minute, given),
         \A c \in minute : IsComplete(minute, given, c.at), NEW list,
         LET before == FallbackCaptures(minute, t)
         IN list = UNION {ListAt(before, c.at) : c \in {d \in before : \A o \in before : o.at <= d.at}}
  PROVE  IsListRead(list, t)
<1> DEFINE before == FallbackCaptures(minute, t)
           last == {d \in before : \A o \in before : o.at <= d.at}
<1>1. DOMAIN given \subseteq Nat /\ Fallback \in Nat
  BY FallbackIsNat DEF Times, HistoryConstants
<1>2. \A c : c \in before <=> c \in minute /\ c.at <= t /\ t <= c.at + Fallback
  BY DEF FallbackCaptures
<1>3. \A x : x \in list <=> \E c \in last : x \in ListAt(before, c.at)
  OBVIOUS
<1>4. CASE last = {}
  BY <1>3, <1>4 DEF IsListRead
<1>5. CASE last # {}
  <2>1. PICK d \in last : TRUE
    BY <1>5
  <2>2. d \in before /\ \A o \in before : o.at <= d.at
    BY <2>1
  <2>3. \A c \in before : c.at \in Nat
    BY <1>1, <1>2 DEF AreNamed
  <2>4. \A c \in last : c.at = d.at
    BY <2>2, <2>3
  <2> HIDE DEF last, before
  <2>5. \A x : x \in list <=> x \in ListAt(before, d.at)
    BY <1>3, <2>1, <2>4
  <2>6. \A c \in minute : c.at = d.at => c \in before
    BY <1>2, <2>2
  <2>7. \A x : x \in ListAt(before, d.at) <=> x \in ListAt(minute, d.at)
    BY <1>2, <2>6 DEF ListAt
  <2>8. ListAt(minute, d.at) = Ranked(ListOf(given, d.at))
    BY <1>2, <2>2, ListAtNamed
  <2>9. list = Ranked(ListOf(given, d.at))
    <3>1. \A x : x \in list <=> x \in ListAt(minute, d.at)
      BY <2>5, <2>7
    <3> QED BY <2>8, <3>1
  <2>10. d.at \in DOMAIN given /\ d.at <= t /\ t <= d.at + Fallback
    BY <1>2, <2>2 DEF AreNamed
  <2> QED BY <2>9, <2>10 DEF IsListRead
<1> QED BY <1>4, <1>5

(* The list of a sample is its own capture, or the newest one that is not too old. *)
LEMMA ProcessesAtRead ==
  ASSUME HistoryConstants, Times, NEW t \in DOMAIN given,
         AreNamed(reader.fast, given),
         \A c \in reader.fast : Expired(c.at, FastKeep) \/ IsComplete(reader.fast, given, c.at),
         AreNamed(reader.minute, given),
         \A c \in reader.minute : IsComplete(reader.minute, given, c.at)
  PROVE  IsListRead(ProcessesAt(t), t)
<1> DEFINE fast == reader.fast
           minute == reader.minute
           list == ProcessesAt(t)
<1>1. t \in Nat /\ Fallback \in Nat
  BY FallbackIsNat DEF Times, HistoryConstants
<1>2. list = IF ListAt(fast, t) # {} THEN ListAt(fast, t)
             ELSE LET before == FallbackCaptures(minute, t)
                  IN UNION {ListAt(before, c.at) : c \in {d \in before : \A o \in before : o.at <= d.at}}
  BY DEF ProcessesAt
<1>3. /\ AreNamed(fast, given) /\ \A c \in fast : Expired(c.at, FastKeep) \/ IsComplete(fast, given, c.at)
      /\ AreNamed(minute, given) /\ \A c \in minute : IsComplete(minute, given, c.at)
  OBVIOUS
<1> HIDE DEF fast, minute, list
<1>4. CASE ListAt(fast, t) # {}
  <2>1. PICK c \in fast : c.at = t
    BY <1>3, <1>4, ListAtNamed
  <2>2. Expired(t, FastKeep) \/ ListAt(fast, t) = Ranked(ListOf(given, t))
    BY <1>3, <2>1, ListAtNamed
  <2>3. ListAt(fast, t) \subseteq Ranked(ListOf(given, t))
    BY <1>3, ListAtNamed
  <2>4. list = ListAt(fast, t)
    BY <1>2, <1>4
  <2>5. t <= t /\ t <= t + Fallback
    BY <1>1
  <2> HIDE DEF list
  <2>6. IsListRead(ListAt(fast, t), t)
    BY <2>2, <2>3, <2>5 DEF IsListRead
  <2> QED BY <2>4, <2>6 DEF list
<1>5. CASE ~(ListAt(fast, t) # {})
  <2>1. LET before == FallbackCaptures(minute, t)
        IN list = UNION {ListAt(before, c.at) : c \in {d \in before : \A o \in before : o.at <= d.at}}
    BY <1>2, <1>5
  <2>2. IsListRead(list, t)
    BY <1>3, <2>1, FallbackListRead
  <2> QED BY <2>2 DEF list
<1> QED BY <1>4, <1>5
-----------------------------------------------------------------------------
(* What a read has, stage by stage. *)

\* A metric row of a capture, its host by the table hosts.
IsMetricOf(r, hosts, g) ==
  /\ r.at \in DOMAIN g /\ r.key = g[r.at].key
  /\ r.host \in 1..Len(hosts) /\ hosts[r.host] = g[r.at].snapshot.identity

\* What a sample shows but its filesystems.
IsSampleOf(s) ==
  /\ s.at \in DOMAIN given
  /\ s.identity = given[s.at].snapshot.identity
  /\ s.gpus = GpusOf(given, s.at) \/ (s.gpus = {} /\ Expired(s.at, L1Keep))
  /\ IsListRead(s.processes, s.at)

\* A sample still has the key of its metric row.
IsOfRows(s, rows) == \E r \in rows : s.at = r.at /\ s.key = r.key

ReaderHas(read) ==
  /\ read.at \in {"fast", "minute", "devices", "rows", "events"} =>
       \A r \in read.rows : IsMetricOf(r, db.hosts, given)
  /\ read.at \in {"minute", "devices"} =>
       /\ AreNamed(read.fast, given)
       /\ \A c \in read.fast : Expired(c.at, FastKeep) \/ IsComplete(read.fast, given, c.at)
  /\ read.at = "devices" =>
       /\ AreNamed(read.minute, given)
       /\ \A c \in read.minute : IsComplete(read.minute, given, c.at)
  /\ read.at \in {"rows", "events"} => \A s \in read.samples : IsOfRows(s, read.rows)
  /\ read.at \in {"rows", "events", "done"} => \A s \in read.samples : IsSampleOf(s)

ReaderTells == ReaderHas(reader)

\* The table of hosts lost and changed none of its rows.
IsPrefixOf(old, new) == \A i \in 1..Len(old) : i \in 1..Len(new) /\ new[i] = old[i]

(* Identities are added and never changed (host_identity_id). *)
LEMMA HostsGrow ==
  ASSUME HistoryConstants, Shapes, Times, GivenAgrees, Hosts, [Next]_vars
  PROVE  IsPrefixOf(db.hosts, db'.hosts)
<1>1. ASSUME UNCHANGED db.hosts PROVE IsPrefixOf(db.hosts, db'.hosts)
  BY <1>1 DEF IsPrefixOf
<1>2. CASE Quiet \/ Counts \/ Restarts \/ WritesFast \/ WritesDetail \/ PrunesRaw \/ PrunesGpus
           \/ PrunesSensors \/ PrunesDetail \/ PrunesFast \/ PrunesOrphans
  <2>1. UNCHANGED db.hosts
    BY <1>2 DEF Quiet, Counts, Restarts, PrunesRaw, PrunesGpus, PrunesSensors, PrunesReadings, Tick,
                PrunesDetail, PrunesFast, PrunesOrphans, Shapes, EmptyTables, WritesFast, WritesDetail
  <2> QED BY <1>1, <2>1
<1>3. CASE Stores \/ StoresUnpublished
  <2> DEFINE strings == insert.snapshot.identity
             old == db.hosts
             with == db'.hosts
  <2>1. insert \in InsertRecord
    BY <1>3, CommitsOneMore
  <2>2. strings \in Identity
    BY <2>1 DEF InsertRecord, HistoryConstants
  <2>3. with = HostsWith(strings, HostId(strings))
    BY <1>3, CommitsTables
  <2> HIDE DEF strings, with
  <2>4. /\ with \in Seq(Identity) /\ Len(old) <= Len(with)
        /\ \A i \in 1..Len(old) : with[i] = old[i]
    BY <2>2, <2>3, HostIdFinds
  <2>5. old \in Seq(Identity)
    BY DEF Hosts
  <2> HIDE DEF old
  <2>6. IsPrefixOf(old, with)
    BY <2>4, <2>5 DEF IsPrefixOf
  <2> QED BY <2>6 DEF old, with
<1> QED BY <1>2, <1>3, StepKinds

(* What a read has stays true while inserts, ticks and time go on. *)
LEMMA ReaderWaits ==
  ASSUME HistoryConstants, Shapes, Times, GivenAgrees, Hosts, ReaderTells, [Next]_vars,
         UNCHANGED reader
  PROVE  ReaderTells'
<1> DEFINE hosts == db.hosts
           more == db'.hosts
           g == given
           h == given'
<1>0. /\ DOMAIN g \subseteq Nat /\ DOMAIN g \subseteq DOMAIN h /\ \A t \in DOMAIN g : h[t] = g[t]
      /\ FastKeep \in Nat /\ L1Keep \in Nat
      /\ \A t \in Nat, keep \in Nat : Expired(t, keep) => Expired(t, keep)'
  BY GivenGrows, ExpiredStays DEF Times, HistoryConstants
<1>1. IsPrefixOf(hosts, more)
  BY HostsGrow
<1> HIDE DEF hosts, more, g, h
<1>2. \A r : IsMetricOf(r, hosts, g) => IsMetricOf(r, more, h)
  BY <1>0, <1>1 DEF IsMetricOf, IsPrefixOf
<1>3. \A t \in DOMAIN g : ListOf(h, t) = ListOf(g, t) /\ GpusOf(h, t) = GpusOf(g, t)
                          /\ h[t].snapshot = g[t].snapshot
  BY <1>0 DEF ListOf, GpusOf
<1>4. \A C : AreNamed(C, g) => AreNamed(C, h)
  BY <1>0, <1>3 DEF AreNamed
<1>5. \A C, t : t \in DOMAIN g /\ IsComplete(C, g, t) => IsComplete(C, h, t)
  BY <1>0, <1>3 DEF IsComplete
<1>6. \A list, t : t \in DOMAIN g /\ IsListRead(list, t) => IsListRead(list, t)'
  <2> SUFFICES ASSUME NEW list, NEW t \in DOMAIN g, IsListRead(list, t) PROVE IsListRead(list, t)'
    OBVIOUS
  <2>1. t \in DOMAIN given' /\ t \in Nat /\ ListOf(given', t) = ListOf(given, t)
    BY <1>0, <1>3 DEF g, h
  <2>2. CASE list = {}
    BY <2>2 DEF IsListRead
  <2>3. ASSUME NEW u \in DOMAIN given, u <= t, t <= u + Fallback, list = Ranked(ListOf(given, u))
        PROVE  IsListRead(list, t)'
    <3>1. u \in DOMAIN given' /\ ListOf(given', u) = ListOf(given, u)
      BY <1>0, <1>3 DEF g, h
    <3>2. u \in DOMAIN given' /\ u <= t /\ t <= u + Fallback /\ list = Ranked(ListOf(given', u))
      BY <2>3, <3>1
    <3> QED BY <3>2 DEF IsListRead
  <2>4. CASE Expired(t, FastKeep) /\ list \subseteq Ranked(ListOf(given, t))
    <3>1. Expired(t, FastKeep)' /\ list \subseteq Ranked(ListOf(given', t))
      BY <1>0, <2>1, <2>4
    <3> QED BY <3>1 DEF IsListRead
  <2> QED BY <2>2, <2>3, <2>4 DEF IsListRead
<1>7. \A s : IsSampleOf(s) => IsSampleOf(s)'
  <2> SUFFICES ASSUME NEW s, IsSampleOf(s) PROVE IsSampleOf(s)'
    OBVIOUS
  <2> DEFINE at == s.at
             processes == s.processes
  <2>1. /\ at \in DOMAIN g /\ IsListRead(processes, at)
        /\ s.identity = given[at].snapshot.identity
        /\ s.gpus = GpusOf(given, at) \/ (s.gpus = {} /\ Expired(at, L1Keep))
    BY DEF IsSampleOf, g
  <2> HIDE DEF at, processes
  <2>2. IsListRead(processes, at)'
    BY <1>6, <2>1
  <2>3. at \in DOMAIN h /\ GpusOf(h, at) = GpusOf(g, at) /\ h[at].snapshot = g[at].snapshot
        /\ (Expired(at, L1Keep) => Expired(at, L1Keep)')
    BY <1>0, <1>3, <2>1
  <2>4. /\ at \in DOMAIN given'
        /\ s.identity = given'[at].snapshot.identity
        /\ s.gpus = GpusOf(given', at) \/ (s.gpus = {} /\ Expired(at, L1Keep)')
    BY <2>1, <2>3 DEF g, h
  <2> QED BY <2>2, <2>4 DEF IsSampleOf, at, processes
<1>8. ReaderHas(reader)'
  <2> DEFINE read == reader
  <2>1. /\ read.at \in {"fast", "minute", "devices", "rows", "events"} =>
             \A r \in read.rows : IsMetricOf(r, more, h)
        /\ read.at \in {"minute", "devices"} => AreNamed(read.fast, h)
        /\ read.at = "devices" => AreNamed(read.minute, h)
        /\ read.at \in {"rows", "events"} => \A s \in read.samples : IsOfRows(s, read.rows)
        /\ read.at \in {"rows", "events", "done"} => \A s \in read.samples : IsSampleOf(s)'
    BY <1>2, <1>4, <1>7 DEF ReaderTells, ReaderHas, hosts, g
  <2>2. /\ read.at \in {"minute", "devices"} =>
             \A c \in read.fast : Expired(c.at, FastKeep)' \/ IsComplete(read.fast, h, c.at)
        /\ read.at = "devices" => \A c \in read.minute : IsComplete(read.minute, h, c.at)
    <3> DEFINE fast == read.fast
               minute == read.minute
    <3>1. /\ read.at \in {"minute", "devices"} =>
               AreNamed(fast, g) /\ \A c \in fast : Expired(c.at, FastKeep) \/ IsComplete(fast, g, c.at)
          /\ read.at = "devices" => AreNamed(minute, g) /\ \A c \in minute : IsComplete(minute, g, c.at)
      BY DEF ReaderTells, ReaderHas, g
    <3> HIDE DEF fast, minute
    <3>2. /\ AreNamed(fast, g) => \A c \in fast : c.at \in DOMAIN g
          /\ AreNamed(minute, g) => \A c \in minute : c.at \in DOMAIN g
      BY DEF AreNamed
    <3>3. /\ read.at \in {"minute", "devices"} =>
               \A c \in fast : Expired(c.at, FastKeep)' \/ IsComplete(fast, h, c.at)
          /\ read.at = "devices" => \A c \in minute : IsComplete(minute, h, c.at)
      BY <1>0, <1>5, <3>1, <3>2
    <3> QED BY <3>3 DEF fast, minute
  <2>3. read' = read
    OBVIOUS
  <2> QED BY <2>1, <2>2, <2>3 DEF ReaderHas, more, h
<1> QED BY <1>8 DEF ReaderTells

(* A step of a read leaves the tables alone; every other keeps what a read has or ends it. *)
LEMMA ReaderSteps ==
  ASSUME [Next]_vars
  PROVE  \/ UNCHANGED reader
         \/ reader' = Idle
         \/ /\ ReadsMetrics \/ ReadsFast \/ ReadsMinute \/ ReadsDevices \/ ReadsRows \/ ReadsEvents
            /\ UNCHANGED <<db, given, clock, seen, handled, published>>
<1>1. CASE Insert
  BY <1>1 DEF Insert, InsertBegins, Stores, StoresUnpublished, InsertStops, WritesFast, ProcessRowsFail,
              SkipsDetail, WritesDetail, ReadsPending, AddsPending, InsertEnds, Commits
<1>2. CASE Maintains
  BY <1>2 DEF Maintains, TickBegins, ReportsPending, ClearsPending, PrunesRaw, PrunesGpus, PrunesSensors,
              PrunesReadings, PrunesDetail, PrunesFast, PrunesOrphans, StageFails, Tick
<1>3. CASE ReadHistory
  BY <1>3 DEF ReadHistory, ReadsMetrics, ReadsFast, ReadsMinute, ReadsDevices, ReadsRows, ReadsEvents,
              ReadEnds, Reads
<1>4. CASE Restarts \/ TimePasses \/ UNCHANGED vars
  BY <1>4 DEF Restarts, TimePasses, vars
<1> QED BY <1>1, <1>2, <1>3, <1>4 DEF Next

(* Each statement adds what it reads, which the tables have right (read_history_snapshots). *)
LEMMA ReadsAreRight ==
  ASSUME HistoryConstants, Times, Processes, Hosts, ReadingsTell, ReaderTells,
         ReadsMetrics \/ ReadsFast \/ ReadsMinute \/ ReadsDevices \/ ReadsRows \/ ReadsEvents
  PROVE  ReaderHas(reader')
<1> DEFINE read == reader
<1>0. ReaderHas(read)
  BY DEF ReaderTells
<1>1. CASE ReadsMetrics
  <2>1. PICK w \in Window : reader' = [at |-> "fast", rows |-> {r \in db.metrics : w[1] <= r.at /\ r.at <= w[2]}]
    BY <1>1 DEF ReadsMetrics
  <2>2. \A r \in db.metrics : IsMetricOf(r, db.hosts, given)
    BY DEF Hosts, IsMetricOf
  <2> QED BY <2>1, <2>2 DEF ReaderHas
<1>2. CASE ReadsFast
  <2> DEFINE fast == Captures(db.fast, FirstCapture, LastCapture)
             table == db.fast
  <2>1. read.at = "fast" /\ reader' = [at |-> "minute", rows |-> read.rows, fast |-> fast]
    BY <1>2 DEF ReadsFast, Reads
  <2>2. table \in {db.fast, db.minute}
    OBVIOUS
  <2>3. /\ \A q \in table : q.at + FastKeep >= clock => IsComplete(table, given, q.at)
        /\ \A q \in table : q.at \in Nat
        /\ FastKeep \in Nat /\ clock \in Nat
    <3>1. \A q \in table : IsRowOf(q, db.commands, given)
      BY DEF Processes
    <3>2. \A q \in table : q.at + FastKeep >= clock => IsComplete(table, given, q.at)
      BY DEF Processes
    <3> HIDE DEF table
    <3>3. DOMAIN given \subseteq Nat /\ FastKeep \in Nat /\ clock \in Nat
      BY DEF Times, HistoryConstants
    <3>4. \A q \in table : q.at \in Nat
      BY <3>1, <3>3 DEF IsRowOf
    <3> QED BY <3>2, <3>3, <3>4
  <2>4. fast = Captures(table, FirstCapture, LastCapture)
    OBVIOUS
  <2> HIDE DEF fast, table
  <2>5. /\ AreNamed(fast, given)
        /\ \A c \in fast : /\ \E r \in table : r.at = c.at
                           /\ IsComplete(table, given, c.at) => IsComplete(fast, given, c.at)
    BY <2>2, <2>4, CapturesAreNamed
  <2>6. \A q \in table : Expired(q.at, FastKeep) \/ IsComplete(table, given, q.at)
    BY <2>3 DEF Expired
  <2>7. \A c \in fast : Expired(c.at, FastKeep) \/ IsComplete(fast, given, c.at)
    BY <2>5, <2>6
  <2>8. \A r \in read.rows : IsMetricOf(r, db.hosts, given)
    BY <1>0, <2>1 DEF ReaderHas
  <2> QED BY <2>1, <2>5, <2>7, <2>8 DEF ReaderHas
<1>3. CASE ReadsMinute
  <2> DEFINE first == IF FirstCapture > Fallback THEN FirstCapture - Fallback ELSE 0
             minute == Captures(db.minute, first, LastCapture)
             table == db.minute
  <2>1. /\ read.at = "minute"
        /\ reader' = [at |-> "devices", rows |-> read.rows, fast |-> read.fast, minute |-> minute]
    BY <1>3 DEF ReadsMinute, Reads
  <2>2. table \in {db.fast, db.minute} /\ \A q \in table : IsComplete(table, given, q.at)
    BY DEF Processes
  <2>3. minute = Captures(table, first, LastCapture)
    OBVIOUS
  <2> HIDE DEF minute, table, first
  <2>4. /\ AreNamed(minute, given)
        /\ \A c \in minute : /\ \E r \in table : r.at = c.at
                             /\ IsComplete(table, given, c.at) => IsComplete(minute, given, c.at)
    BY <2>2, <2>3, CapturesAreNamed
  <2>5. \A c \in minute : IsComplete(minute, given, c.at)
    BY <2>2, <2>4
  <2>6. /\ \A r \in read.rows : IsMetricOf(r, db.hosts, given)
        /\ AreNamed(read.fast, given)
        /\ \A c \in read.fast : Expired(c.at, FastKeep) \/ IsComplete(read.fast, given, c.at)
    BY <1>0, <2>1 DEF ReaderHas
  <2> QED BY <2>1, <2>4, <2>5, <2>6 DEF ReaderHas
<1>4. CASE ReadsDevices
  <2> DEFINE rows == read.rows
             hosts == db.hosts
             Sample(r) == [at |-> r.at, key |-> r.key, identity |-> hosts[r.host],
                           gpus |-> GpusAt(r.at), processes |-> ProcessesAt(r.at)]
             samples == {Sample(r) : r \in rows}
  <2>1. read.at = "devices" /\ reader' = [at |-> "rows", samples |-> samples, rows |-> rows]
    BY <1>4 DEF ReadsDevices, Reads
  <2>2. \A r \in rows : IsMetricOf(r, hosts, given)
    BY <1>0, <2>1 DEF ReaderHas
  <2>3. /\ AreNamed(reader.fast, given)
        /\ \A c \in reader.fast : Expired(c.at, FastKeep) \/ IsComplete(reader.fast, given, c.at)
        /\ AreNamed(reader.minute, given)
        /\ \A c \in reader.minute : IsComplete(reader.minute, given, c.at)
    BY <1>0, <2>1 DEF ReaderHas
  <2>4. \A t \in DOMAIN given : IsListRead(ProcessesAt(t), t)
    BY <2>3, ProcessesAtRead
  <2>5. \A t \in DOMAIN given : \/ GpusAt(t) = GpusOf(given, t)
                                \/ (GpusAt(t) = {} /\ Expired(t, L1Keep))
    <3>1. \A t : GpusAt(t) = GpusIn(db.devices, db.readings, t)
      BY DEF GpusAt, GpusIn
    <3> QED BY <3>1 DEF ReadingsTell
  <2>6. \A s \in samples : \E r \in rows : s = Sample(r)
    OBVIOUS
  <2> HIDE DEF rows, hosts
  <2>7. \A r \in rows : IsSampleOf(Sample(r)) /\ IsOfRows(Sample(r), rows)
    BY <2>2, <2>4, <2>5 DEF IsSampleOf, IsMetricOf, IsOfRows
  <2> HIDE DEF samples, Sample
  <2>8. \A s \in samples : IsSampleOf(s) /\ IsOfRows(s, rows)
    BY <2>6, <2>7
  <2>9. \A r \in rows : IsMetricOf(r, db.hosts, given)
    BY <2>2 DEF hosts
  <2> QED BY <2>1, <2>8, <2>9 DEF ReaderHas
<1>5. CASE ReadsRows
  <2>1. /\ read.at = "rows"
        /\ \E values : reader' = [at |-> "events", samples |-> read.samples, rows |-> read.rows, values |-> values]
    BY <1>5 DEF ReadsRows, Reads
  <2> QED BY <1>0, <2>1 DEF ReaderHas
<1>6. CASE ReadsEvents
  <2> DEFINE Shown(s) == [at |-> s.at, identity |-> s.identity, gpus |-> s.gpus, processes |-> s.processes,
                          filesystems |-> Assembled(reader.values, FloorAndWindow(db.events, FirstKey, LastKey), s.key)]
             samples == read.samples
             shown == {Shown(s) : s \in samples}
  <2>1. read.at = "events" /\ reader' = [at |-> "done", samples |-> shown]
    BY <1>6 DEF ReadsEvents, Reads
  <2>2. \A s \in samples : IsSampleOf(s)
    BY <1>0, <2>1 DEF ReaderHas
  <2>3. \A s \in samples : IsSampleOf(Shown(s))
    BY <2>2 DEF IsSampleOf
  <2>4. \A x \in shown : \E s \in samples : x = Shown(s)
    OBVIOUS
  <2> HIDE DEF Shown, samples, shown
  <2>5. \A x \in shown : IsSampleOf(x)
    BY <2>3, <2>4
  <2> QED BY <2>1, <2>5 DEF ReaderHas
<1> QED BY <1>1, <1>2, <1>3, <1>4, <1>5, <1>6

(* The reader's part of the invariant. *)
LEMMA ReaderTellsKept ==
  ASSUME HistoryConstants, HistoryInv, ReadingsTell, ReaderTells, [Next]_vars
  PROVE  ReaderTells'
<1>1. CASE UNCHANGED reader
  BY <1>1, ReaderWaits DEF HistoryInv
<1>2. CASE reader' = Idle
  BY <1>2 DEF Idle, ReaderTells, ReaderHas
<1>3. CASE /\ ReadsMetrics \/ ReadsFast \/ ReadsMinute \/ ReadsDevices \/ ReadsRows \/ ReadsEvents
           /\ UNCHANGED <<db, given, clock, seen, handled, published>>
  <2>1. ReaderHas(reader')
    BY <1>3, ReadsAreRight DEF HistoryInv
  <2> QED BY <1>3, <2>1 DEF ReaderTells, ReaderHas, IsSampleOf, IsListRead, Expired
<1> QED BY <1>1, <1>2, <1>3, ReaderSteps

(* Of every capture the tables tell what was collected then, and so does every read, however
   far it is. *)
THEOREM ReadsTellTheTruth == Spec => [](ReadingsTell /\ ReaderTells)
<1>1. Init => ReadingsTell /\ ReaderTells
  BY DEF Init, Idle, EmptyTables, ReadingsTell, ReaderTells, ReaderHas
<1>2. HistoryInv /\ ReadingsTell /\ ReaderTells /\ [Next]_vars => ReadingsTell' /\ ReaderTells'
  BY HistoryConstants, ReadingsKept, ReaderTellsKept DEF HistoryInv
<1> QED BY <1>1, <1>2, HistoryInvHolds, PTL DEF Spec

(* A sample is read with the identity and, until they expire, the GPUs that were collected
   (assemble_history_snapshots). *)
THEOREM SamplesAreReadBack == Spec => []SamplesReadBack
<1>1. ReaderTells => SamplesReadBack
  BY DEF ReaderTells, ReaderHas, IsSampleOf, GpusOf, SamplesReadBack
<1> QED BY <1>1, ReadsTellTheTruth, PTL

(* A sample is read with the whole list of one capture, its own or one that is not too old, with
   what is left of its own expired one, or with none. *)
THEOREM ProcessesAreReadBack == Spec => []ProcessesReadBack
<1>1. ReaderTells => ProcessesReadBack
  BY DEF ReaderTells, ReaderHas, IsSampleOf, IsListRead, ListOf, ProcessesReadBack
<1> QED BY <1>1, ReadsTellTheTruth, PTL
-----------------------------------------------------------------------------
(* Which enumeration the tables tell of. *)

\* Stored keys are in the past, and what the cache takes for new is newer than all of them.
GivenKeys ==
  /\ \A t \in DOMAIN given : given[t].key \in Instant /\ given[t].key <= clock
  /\ published = "yes" =>
       \A t \in DOMAIN given : \/ given[t].key <= started
                               \/ \E last \in cache.fs.lastKey : given[t].key <= last

\* No row of its mount up to the key is newer than r.
Stands(r, table, key) ==
  r.at <= key /\ \A q \in table : q.mount = r.mount /\ q.at <= key => q.at <= r.at

\* A mount has no row up to the key.
IsMissing(m, table, key) == \A r \in table : r.mount = m => key < r.at

ListedFrom(m, j, k) == \A i \in handled : j <= i /\ i <= k => m \in DOMAIN seen[i]

\* Of every enumeration the rows have the values and the events the mounts, but for old
\* mounts that have lost theirs.
RowsTell(rows) ==
  \A k \in handled : \A m \in DOMAIN seen[k] :
    /\ \A r \in rows : r.mount = m /\ Stands(r, rows, k) =>
         r.value = seen[k][m] /\ ListedFrom(m, r.at, k)
    /\ IsMissing(m, rows, k) => IsOld(m, k)

EventsTell(events) ==
  \A k \in handled : \A m \in Mount :
    /\ \A e \in events : e.mount = m /\ Stands(e, events, k) => (e.present <=> m \in DOMAIN seen[k])
    /\ m \in DOMAIN seen[k] /\ IsMissing(m, events, k) => IsOld(m, k)

FilesystemsTell == published # "written" => RowsTell(db.rows) /\ EventsTell(db.events)

(* A key that was stored is not newer than what the cache has. *)
LEMMA GivenKeysKept ==
  ASSUME HistoryConstants, Shapes, Times, GivenAgrees, Keys, Filesystems, GivenKeys, [Next]_vars
  PROVE  GivenKeys'
<1>0. /\ clock \in Nat /\ clock' \in Nat /\ clock <= clock' /\ Instant \subseteq Nat /\ started \in Nat
      /\ ~Restarts => started' = started
  BY ClockKept DEF HistoryConstants, Times
<1> DEFINE Old(f, lasts) == \A t \in DOMAIN given : given[t].key <= f \/ \E last \in lasts : given[t].key <= last
<1>1. \A t \in DOMAIN given : given[t].key \in Instant /\ given[t].key \in Nat /\ given[t].key <= clock'
  <2> SUFFICES ASSUME NEW t \in DOMAIN given
               PROVE  given[t].key \in Instant /\ given[t].key \in Nat /\ given[t].key <= clock'
    OBVIOUS
  <2> DEFINE key == given[t].key
  <2>1. key \in Instant /\ key <= clock
    BY DEF GivenKeys
  <2> HIDE DEF key
  <2>2. key \in Nat /\ key <= clock'
    BY <1>0, <2>1
  <2> QED BY <2>1, <2>2 DEF key
<1>2. CASE UNCHANGED <<given, published, cache, started>>
  BY <1>1, <1>2 DEF GivenKeys
<1>3. CASE Restarts
  <2>1. UNCHANGED given /\ started' = clock
    BY <1>3 DEF Restarts
  <2> QED BY <1>1, <2>1 DEF GivenKeys
<1>4. CASE Stores \/ StoresUnpublished
  <2> DEFINE k == insert.key
             t0 == insert.captured
             lasts == cache.fs.lastKey
  <2>1. /\ k \in Instant /\ insert # Idle /\ insert.captured \in Instant /\ UNCHANGED <<started, clock>>
        /\ given'[t0].key = k /\ DOMAIN given' = DOMAIN given \cup {t0}
        /\ \A t \in DOMAIN given : given'[t] = given[t]
    BY <1>4, CommitsOneMore DEF InsertRecord
  <2>2. k \in Nat /\ k <= clock' /\ started < k
    <3>1. k <= t0 /\ t0 <= clock /\ started < k /\ clock' = clock
      BY <2>1 DEF Times
    <3>2. k \in Nat /\ t0 \in Nat
      BY <1>0, <2>1
    <3> HIDE DEF k, t0
    <3> QED BY <1>0, <3>1, <3>2
  <2>3. \A t \in DOMAIN given' : given'[t].key = k \/ (t \in DOMAIN given /\ given'[t].key = given[t].key)
    BY <2>1
  <2>4. \A t \in DOMAIN given' : given'[t].key \in Instant /\ given'[t].key <= clock'
    BY <1>1, <2>1, <2>2, <2>3
  <2>5. ASSUME published' = "yes"
        PROVE  \A t \in DOMAIN given' : \/ given'[t].key <= started'
                                        \/ \E last \in cache'.fs.lastKey : given'[t].key <= last
    <3>1. published = "yes"
      BY <1>4, <2>5 DEF Stores, Commits, StoresUnpublished
    <3>2. Old(started, lasts)
      BY <3>1 DEF GivenKeys
    <3>3. lasts \subseteq Instant
      BY DEF Filesystems, FilesystemTypes
    <3>4. CASE ~IsNewKey(k)
      <4>1. cache'.fs.lastKey = lasts
        BY <1>4, <3>4 DEF Stores, StoresUnpublished, Publishes
      <4>2. \E last \in lasts : ~(last < k)
        BY <3>4 DEF IsNewKey
      <4>3. \E last \in lasts : k <= last
        <5> HIDE DEF k, lasts
        <5> QED BY <1>0, <2>2, <3>3, <4>2
      <4> HIDE DEF k, lasts
      <4> QED BY <2>1, <2>3, <3>2, <4>1, <4>3
    <3>5. CASE IsNewKey(k)
      <4>1. Stores
        BY <1>4, <2>5, <3>1, <3>5 DEF StoresUnpublished
      <4>2. cache'.fs.lastKey = {k}
        BY <3>5, <4>1 DEF Stores, Publishes, NextFilesystems
      <4>3. \A last \in lasts : last < k
        BY <3>5 DEF IsNewKey
      <4> HIDE DEF k, lasts
      <4>4. \A t \in DOMAIN given : given[t].key <= k
        <5> SUFFICES ASSUME NEW t \in DOMAIN given PROVE given[t].key <= k
          OBVIOUS
        <5> DEFINE key == given[t].key
        <5>1. key \in Nat /\ (key <= started \/ \E last \in lasts : key <= last)
          BY <1>1, <3>2
        <5> HIDE DEF key
        <5>2. \A last \in lasts : last \in Nat
          BY <1>0, <3>3
        <5>3. key <= k
          BY <1>0, <2>2, <4>3, <5>1, <5>2
        <5> QED BY <5>3 DEF key
      <4>5. k <= k
        BY <2>2
      <4> QED BY <2>3, <4>2, <4>4, <4>5
    <3> QED BY <3>4, <3>5
  <2> QED BY <2>4, <2>5 DEF GivenKeys
<1>5. CASE ~Restarts /\ ~Stores /\ ~StoresUnpublished
  BY <1>0, <1>2, <1>5, StepKinds DEF Quiet, Counts, WritesFast, WritesDetail, Tick,
    PrunesRaw, PrunesGpus, PrunesSensors, PrunesReadings, PrunesDetail, PrunesFast, PrunesOrphans
<1> QED BY <1>3, <1>4, <1>5

(* A key that the cache takes for new is newer than every key and every enumeration stored. *)
LEMMA NewIsNewest ==
  ASSUME HistoryConstants, Times, Keys, Filesystems, GivenKeys, published = "yes",
         insert # Idle, insert.key \in Instant, IsNewKey(insert.key)
  PROVE  /\ \A h \in handled : h \in Nat /\ h < insert.key
         /\ \A t \in DOMAIN given : given[t].key \in Nat /\ given[t].key < insert.key
<1> DEFINE k == insert.key
           lasts == cache.fs.lastKey
<1>1. Instant \subseteq Nat /\ started \in Nat /\ k \in Nat /\ started < k
  BY DEF HistoryConstants, Times
<1>2. \A last \in lasts : last \in Nat /\ last < k
  BY <1>1 DEF IsNewKey, Filesystems, FilesystemTypes
<1>3. \A h \in handled : h \in Nat /\ (h <= started \/ \E last \in lasts : h <= last)
  BY <1>1 DEF Keys
<1>4. \A t \in DOMAIN given : given[t].key \in Instant
                              /\ (given[t].key <= started \/ \E last \in lasts : given[t].key <= last)
  BY DEF GivenKeys
<1> HIDE DEF k, lasts
<1>5. \A x \in Nat : (x <= started \/ \E last \in lasts : x <= last) => x < k
  BY <1>1, <1>2
<1>6. \A t \in DOMAIN given : given[t].key \in Nat /\ given[t].key < k
  BY <1>1, <1>4, <1>5
<1>7. \A h \in handled : h \in Nat /\ h < k
  BY <1>3, <1>5
<1> QED BY <1>6, <1>7 DEF k

(* A mount that has a row up to a key has a newest one. *)
LEMMA StandsOne ==
  ASSUME HistoryConstants, NEW table, \A r \in table : r.at \in Instant, NEW key \in Nat,
         NEW q \in table, q.at <= key
  PROVE  \E r \in table : r.mount = q.mount /\ Stands(r, table, key)
<1> DEFINE upTo == {r \in table : r.at <= key}
<1>1. \A r \in upTo : r.at \in Instant
  OBVIOUS
<1>2. q \in upTo
  OBVIOUS
<1> HIDE DEF upTo
<1>3. PICK r \in upTo : r.mount = q.mount /\ r \in Newest(upTo, q.mount)
  BY <1>1, <1>2, NewestExists
<1>4. r \in table /\ Stands(r, table, key)
  BY <1>3 DEF upTo, Newest, Stands
<1> QED BY <1>3, <1>4

(* What is told stays told while nothing is stored. *)
LEMMA ToldStays ==
  ASSUME HistoryConstants, Times, Keys, [Next]_vars, UNCHANGED handled,
         \A h \in handled : seen'[h] = seen[h]
  PROVE  /\ \A m, k : IsOld(m, k) => IsOld(m, k)'
         /\ \A rows : RowsTell(rows) => RowsTell(rows)'
         /\ \A events : EventsTell(events) => EventsTell(events)'
<1>1. \A j \in handled : Expired(j, L2Keep) => Expired(j, L2Keep)'
  <2>1. \A j \in handled : j \in Nat
    BY DEF Keys, HistoryConstants
  <2>2. L2Keep \in Nat
    BY DEF HistoryConstants
  <2> QED BY <2>1, <2>2, ExpiredStays
<1>2. \A m, k : IsOld(m, k) => IsOld(m, k)'
  BY <1>1 DEF IsOld
<1>3. \A m, j, k : ListedFrom(m, j, k) => ListedFrom(m, j, k)'
  BY DEF ListedFrom
<1>4. \A rows : RowsTell(rows) => RowsTell(rows)'
  <2> SUFFICES ASSUME NEW rows, RowsTell(rows) PROVE RowsTell(rows)'
    OBVIOUS
  <2>1. \A k \in handled' : \A m \in DOMAIN seen'[k] :
          /\ \A r \in rows : r.mount = m /\ Stands(r, rows, k) => r.value = seen'[k][m] /\ ListedFrom(m, r.at, k)'
          /\ IsMissing(m, rows, k) => IsOld(m, k)'
    <3> HIDE DEF IsOld
    <3> QED BY <1>2, <1>3 DEF RowsTell
  <2> QED BY <2>1 DEF RowsTell, Stands, IsMissing
<1>5. \A events : EventsTell(events) => EventsTell(events)'
  <2> SUFFICES ASSUME NEW events, EventsTell(events) PROVE EventsTell(events)'
    OBVIOUS
  <2>1. \A k \in handled' : \A m \in Mount :
          /\ \A e \in events : e.mount = m /\ Stands(e, events, k) => (e.present <=> m \in DOMAIN seen'[k])
          /\ m \in DOMAIN seen'[k] /\ IsMissing(m, events, k) => IsOld(m, k)'
    BY <1>2 DEF EventsTell
  <2> QED BY <2>1 DEF EventsTell, Stands, IsMissing
<1> QED BY <1>2, <1>4, <1>5

(* What a cache that knows the tables adds to them for a new enumeration: a row for what it
   does not have so, an event for what came or went. *)
LEMMA NewIsWhatChanged ==
  ASSUME NEW fs, NEW k, NEW e
  PROVE  /\ \A r \in NewRows(fs, k, e) : r.at = k /\ r.mount \in DOMAIN e /\ r.value = e[r.mount]
         /\ \A m \in DOMAIN e : \/ \E r \in NewRows(fs, k, e) : r.mount = m
                                \/ m \in fs.present /\ m \in DOMAIN fs.lastRows /\ fs.lastRows[m] = e[m]
         /\ \A n \in NewEvents(fs.present, k, e) : n.at = k /\ (n.present <=> n.mount \in DOMAIN e)
         /\ \A m : (m \in DOMAIN e <=> m \in fs.present)
                   \/ \E n \in NewEvents(fs.present, k, e) : n.mount = m
<1> DEFINE nr == NewRows(fs, k, e)
           ne == NewEvents(fs.present, k, e)
           present == fs.present
           last == fs.lastRows
<1>1. \A r \in nr : r.at = k /\ r.mount \in DOMAIN e /\ r.value = e[r.mount]
  BY DEF NewRows
<1>2. ASSUME NEW m \in DOMAIN e, ~(m \in present /\ m \in DOMAIN last /\ last[m] = e[m])
      PROVE  \E r \in nr : r.mount = m
  <2>1. [at |-> k, mount |-> m, value |-> e[m]] \in nr
    BY <1>2 DEF NewRows
  <2> QED BY <2>1
<1>3. \A n \in ne : n.at = k /\ (n.present <=> n.mount \in DOMAIN e)
  BY DEF NewEvents
<1>4. ASSUME NEW m \in DOMAIN e \ present PROVE \E n \in ne : n.mount = m
  <2>1. [at |-> k, mount |-> m, present |-> TRUE] \in ne
    BY DEF NewEvents
  <2> QED BY <2>1
<1>5. ASSUME NEW m \in present \ DOMAIN e PROVE \E n \in ne : n.mount = m
  <2>1. [at |-> k, mount |-> m, present |-> FALSE] \in ne
    BY DEF NewEvents
  <2> QED BY <2>1
<1> QED BY <1>1, <1>2, <1>3, <1>4, <1>5

(* While every commit reaches the cache, a mount that it has for present has been listed in every
   enumeration since its newest row. *)
LEMMA ListedSinceRow ==
  ASSUME HistoryConstants, NEW fs, NEW rows, NEW events, Knows(fs, rows, events),
         \A h \in handled : h \in Instant, \A r \in rows \cup events : r.at \in handled,
         \A x \in events : x.mount \in Mount, RowsTell(rows), EventsTell(events),
         NEW m \in fs.present, NEW r \in NewestOf(rows), r.mount = m
  PROVE  \A i \in handled : r.at <= i => m \in DOMAIN seen[i]
<1>1. handled \subseteq Nat /\ IsFiniteSet(handled) /\ r \in rows /\ r.at \in handled
  <2>1. handled \subseteq Instant /\ Instant \subseteq Nat /\ IsFiniteSet(Instant)
    BY DEF HistoryConstants
  <2> QED BY <2>1, FS_Subset DEF NewestOf
<1>2. PICK k \in handled : \A h \in handled : h <= k
  BY <1>1, GreatestExists
<1>3. PICK n \in NewestOf(events) : n.present /\ n.mount = m
  BY DEF Knows, PresentIn
<1>4. n \in events /\ Stands(n, events, k)
  BY <1>2, <1>3 DEF NewestOf, Newest, Stands
<1>5. m \in Mount /\ m \in DOMAIN seen[k]
  BY <1>3, <1>4 DEF EventsTell
<1>6. Stands(r, rows, k)
  BY <1>1, <1>2 DEF NewestOf, Newest, Stands
<1>7. ListedFrom(m, r.at, k)
  BY <1>1, <1>5, <1>6 DEF RowsTell
<1> QED BY <1>2, <1>7 DEF ListedFrom

(* The tables with a new enumeration tell of it, and of the others as before. *)
LEMMA StoresTell ==
  ASSUME HistoryConstants, NEW fs, NEW rows, NEW events, Knows(fs, rows, events), HaveRows(rows, events),
         NEW k \in Nat, NEW e \in Enumeration, seen' = seen, e = seen[k], clock' = clock,
         handled' = handled \cup {k}, \A h \in handled : h \in Instant /\ h < k,
         \A r \in rows \cup events : r.at \in handled, \A x \in events : x.mount \in Mount, IsKeyed(events),
         RowsTell(rows), EventsTell(events),
         NEW rows2, rows2 = rows \cup NewRows(fs, k, e),
         NEW events2, events2 = events \cup NewEvents(fs.present, k, e)
  PROVE  RowsTell(rows2)' /\ EventsTell(events2)'
<1> DEFINE nr == NewRows(fs, k, e)
           ne == NewEvents(fs.present, k, e)
           present == fs.present
           last == fs.lastRows
<1>0. /\ \A h \in handled : h \in Nat /\ h < k
      /\ \A r \in rows \cup events : r.at \in Nat /\ r.at < k /\ r.at \in Instant
  BY DEF HistoryConstants
<1>1. /\ \A r \in nr : r.at = k /\ r.mount \in DOMAIN e /\ r.value = e[r.mount]
      /\ \A m \in DOMAIN e : \/ \E r \in nr : r.mount = m
                             \/ m \in present /\ m \in DOMAIN last /\ last[m] = e[m]
      /\ \A n \in ne : n.at = k /\ (n.present <=> n.mount \in DOMAIN e)
      /\ \A m : (m \in DOMAIN e <=> m \in present) \/ \E n \in ne : n.mount = m
  BY NewIsWhatChanged
<1>2. rows2 = rows \cup nr /\ events2 = events \cup ne
  OBVIOUS
<1>3. /\ \A r \in NewestOf(rows) : r.mount \in DOMAIN last /\ last[r.mount] = r.value
      /\ present = PresentIn(events)
      /\ \A m \in present : \E r \in rows : r.mount = m
  BY DEF Knows, HaveRows
<1>4. \A m \in present : \A r \in NewestOf(rows) : r.mount = m =>
        \A i \in handled : r.at <= i => m \in DOMAIN seen[i]
  BY ListedSinceRow
<1> HIDE DEF nr, ne, present, last
<1>5. ASSUME NEW h \in handled
      PROVE  /\ \A r \in rows2 : Stands(r, rows2, h) => r \in rows /\ Stands(r, rows, h)
             /\ \A x \in events2 : Stands(x, events2, h) => x \in events /\ Stands(x, events, h)
             /\ \A m : IsMissing(m, rows2, h) => IsMissing(m, rows, h)
             /\ \A m : IsMissing(m, events2, h) => IsMissing(m, events, h)
             /\ \A m : IsOld(m, h) => IsOld(m, h)'
             /\ \A m, j : ListedFrom(m, j, h) => ListedFrom(m, j, h)'
  <2>1. h \in Nat /\ h < k /\ ~(k <= h)
    BY <1>0
  <2>2. \A m, j : ListedFrom(m, j, h) => ListedFrom(m, j, h)'
    BY <2>1 DEF ListedFrom
  <2>3. \A m : IsOld(m, h) => IsOld(m, h)'
    BY <2>1 DEF IsOld, Expired
  <2>4. /\ \A r \in rows2 : Stands(r, rows2, h) => r \in rows /\ Stands(r, rows, h)
        /\ \A m : IsMissing(m, rows2, h) => IsMissing(m, rows, h)
    BY <1>1, <1>2, <2>1 DEF Stands, IsMissing
  <2>5. /\ \A x \in events2 : Stands(x, events2, h) => x \in events /\ Stands(x, events, h)
        /\ \A m : IsMissing(m, events2, h) => IsMissing(m, events, h)
    BY <1>1, <1>2, <2>1 DEF Stands, IsMissing
  <2> QED BY <2>2, <2>3, <2>4, <2>5
<1>6. ASSUME NEW m \in DOMAIN e
      PROVE  /\ \A r \in rows2 : r.mount = m /\ Stands(r, rows2, k) => r.value = e[m] /\ ListedFrom(m, r.at, k)'
             /\ ~IsMissing(m, rows2, k)
  <2>1. CASE \E n \in nr : n.mount = m
    <3>1. PICK n \in nr : n.mount = m
      BY <2>1
    <3>2. n \in rows2 /\ n.at = k /\ ~(k < k) /\ k <= k
      BY <1>1, <1>2, <3>1
    <3>3. ~IsMissing(m, rows2, k)
      BY <3>1, <3>2 DEF IsMissing
    <3>4. ASSUME NEW r \in rows2, r.mount = m, Stands(r, rows2, k)
          PROVE  r.value = e[m] /\ ListedFrom(m, r.at, k)'
      <4>1. k <= r.at
        BY <3>1, <3>2, <3>4 DEF Stands
      <4>2. r \in nr
        BY <1>0, <1>2, <4>1
      <4>3. r.value = e[m] /\ r.at = k
        BY <1>1, <3>4, <4>2
      <4>4. \A i \in handled' : k <= i => i = k
        BY <1>0
      <4> QED BY <4>3, <4>4 DEF ListedFrom
    <3> QED BY <3>3, <3>4
  <2>2. CASE ~\E n \in nr : n.mount = m
    <3>1. m \in present /\ last[m] = e[m]
      BY <1>1, <2>2
    <3>2. PICK q \in rows : q.mount = m
      BY <1>3, <3>1
    <3>3. ~IsMissing(m, rows2, k)
      <4>1. q \in rows2 /\ ~(k < q.at)
        BY <1>0, <1>2
      <4> QED BY <3>2, <4>1 DEF IsMissing
    <3>4. ASSUME NEW r \in rows2, r.mount = m, Stands(r, rows2, k)
          PROVE  r.value = e[m] /\ ListedFrom(m, r.at, k)'
      <4>1. r \in rows
        BY <1>2, <2>2, <3>4
      <4>2. \A x \in rows : x.mount = m => x.at <= r.at
        <5>1. \A x \in rows : x \in rows2 /\ x.at <= k
          BY <1>0, <1>2
        <5> QED BY <3>4, <5>1 DEF Stands
      <4>3. r \in NewestOf(rows)
        BY <3>4, <4>1, <4>2 DEF NewestOf, Newest
      <4>4. r.value = e[m]
        BY <1>3, <3>1, <3>4, <4>3
      <4>5. \A i \in handled : r.at <= i => m \in DOMAIN seen[i]
        BY <1>4, <3>1, <3>4, <4>3
      <4> QED BY <4>4, <4>5 DEF ListedFrom
    <3> QED BY <3>3, <3>4
  <2> QED BY <2>1, <2>2
<1>7. ASSUME NEW m \in Mount
      PROVE  /\ \A x \in events2 : x.mount = m /\ Stands(x, events2, k) => (x.present <=> m \in DOMAIN e)
             /\ m \in DOMAIN e => ~IsMissing(m, events2, k)
  <2>1. CASE \E n \in ne : n.mount = m
    <3>1. PICK n \in ne : n.mount = m
      BY <2>1
    <3>2. n \in events2 /\ n.at = k /\ ~(k < k) /\ k <= k
      BY <1>1, <1>2, <3>1
    <3>3. ~IsMissing(m, events2, k)
      BY <3>1, <3>2 DEF IsMissing
    <3>4. ASSUME NEW x \in events2, x.mount = m, Stands(x, events2, k)
          PROVE  x.present <=> m \in DOMAIN e
      <4>1. k <= x.at
        BY <3>1, <3>2, <3>4 DEF Stands
      <4>2. x \in ne
        BY <1>0, <1>2, <4>1
      <4> QED BY <1>1, <3>4, <4>2
    <3> QED BY <3>3, <3>4
  <2>2. CASE ~\E n \in ne : n.mount = m
    <3>1. m \in DOMAIN e <=> m \in present
      BY <1>1, <2>2
    <3>2. ASSUME m \in DOMAIN e PROVE ~IsMissing(m, events2, k)
      <4>1. PICK n \in NewestOf(events) : n.present /\ n.mount = m
        BY <1>3, <3>1, <3>2 DEF PresentIn
      <4>2. n \in events2 /\ ~(k < n.at)
        BY <1>0, <1>2, <4>1 DEF NewestOf
      <4> QED BY <4>1, <4>2 DEF IsMissing
    <3>3. ASSUME NEW x \in events2, x.mount = m, Stands(x, events2, k)
          PROVE  x.present <=> m \in DOMAIN e
      <4>1. x \in events
        BY <1>2, <2>2, <3>3
      <4>2. \A y \in events : y.mount = m => y.at <= x.at
        <5>1. \A y \in events : y \in events2 /\ y.at <= k
          BY <1>0, <1>2
        <5> QED BY <3>3, <5>1 DEF Stands
      <4>3. x \in NewestOf(events)
        BY <3>3, <4>1, <4>2 DEF NewestOf, Newest
      <4>4. x.present => m \in present
        BY <1>3, <3>3, <4>3 DEF PresentIn
      <4>5. ASSUME m \in present PROVE x.present
        <5>1. PICK n \in NewestOf(events) : n.present /\ n.mount = m
          BY <1>3, <4>5 DEF PresentIn
        <5>2. n \in Newest(events, x.mount)
          BY <3>3, <5>1 DEF NewestOf
        <5>3. n = x
          BY <1>0, <4>3, <5>2, NewestIsOne
        <5> QED BY <5>1, <5>3
      <4> QED BY <3>1, <4>4, <4>5
    <3> QED BY <3>2, <3>3
  <2> QED BY <2>1, <2>2
<1>8. \A h \in handled' : h \in handled \/ h = k
  OBVIOUS
<1>9. ASSUME NEW h \in handled', NEW m \in DOMAIN seen[h]
      PROVE  /\ \A r \in rows2 : r.mount = m /\ Stands(r, rows2, h) =>
                  r.value = seen[h][m] /\ ListedFrom(m, r.at, h)'
             /\ IsMissing(m, rows2, h) => IsOld(m, h)'
  <2>1. CASE h = k
    <3>1. m \in DOMAIN e /\ seen[h][m] = e[m]
      BY <2>1
    <3>2. /\ \A r \in rows2 : r.mount = m /\ Stands(r, rows2, k) => r.value = e[m] /\ ListedFrom(m, r.at, k)'
          /\ ~IsMissing(m, rows2, k)
      BY <1>6, <3>1
    <3> QED BY <2>1, <3>1, <3>2
  <2>2. CASE h \in handled
    <3>1. /\ \A r \in rows : r.mount = m /\ Stands(r, rows, h) => r.value = seen[h][m] /\ ListedFrom(m, r.at, h)
          /\ IsMissing(m, rows, h) => IsOld(m, h)
      BY <2>2 DEF RowsTell
    <3>2. /\ \A r \in rows2 : Stands(r, rows2, h) => r \in rows /\ Stands(r, rows, h)
          /\ IsMissing(m, rows2, h) => IsMissing(m, rows, h)
          /\ IsOld(m, h) => IsOld(m, h)'
          /\ \A j : ListedFrom(m, j, h) => ListedFrom(m, j, h)'
      BY <1>5, <2>2
    <3>3. IsMissing(m, rows2, h) => IsOld(m, h)'
      BY <3>1, <3>2
    <3>4. ASSUME NEW r \in rows2, r.mount = m, Stands(r, rows2, h)
          PROVE  r.value = seen[h][m] /\ ListedFrom(m, r.at, h)'
      BY <3>1, <3>2, <3>4
    <3> QED BY <3>3, <3>4
  <2> QED BY <1>8, <2>1, <2>2
<1>11. seen' = seen
  OBVIOUS
<1>10. \A h \in handled' : \A m \in Mount :
         /\ \A x \in events2 : x.mount = m /\ Stands(x, events2, h) => (x.present <=> m \in DOMAIN seen'[h])
         /\ m \in DOMAIN seen'[h] /\ IsMissing(m, events2, h) => IsOld(m, h)'
  <2> SUFFICES ASSUME NEW h \in handled', NEW m \in Mount
               PROVE  /\ \A x \in events2 : x.mount = m /\ Stands(x, events2, h) =>
                           (x.present <=> m \in DOMAIN seen[h])
                      /\ m \in DOMAIN seen[h] /\ IsMissing(m, events2, h) => IsOld(m, h)'
    OBVIOUS
  <2>1. CASE h = k
    BY <1>7, <2>1
  <2>2. CASE h \in handled
    BY <1>5, <2>2 DEF EventsTell
  <2> QED BY <1>8, <2>1, <2>2
<1>12. RowsTell(rows2)'
  <2>1. \A h \in handled' : \A m \in DOMAIN seen'[h] :
          /\ \A r \in rows2 : r.mount = m /\ Stands(r, rows2, h) => r.value = seen'[h][m] /\ ListedFrom(m, r.at, h)'
          /\ IsMissing(m, rows2, h) => IsOld(m, h)'
    <3>1. ASSUME NEW h \in handled', NEW m \in DOMAIN seen'[h]
          PROVE  /\ \A r \in rows2 : r.mount = m /\ Stands(r, rows2, h) =>
                      r.value = seen'[h][m] /\ ListedFrom(m, r.at, h)'
                 /\ IsMissing(m, rows2, h) => IsOld(m, h)'
      <4>1. seen'[h] = seen[h]
        BY <1>11
      <4> HIDE DEF IsOld, ListedFrom, Stands, IsMissing
      <4>2. m \in DOMAIN seen[h]
        BY <3>1, <4>1
      <4> QED BY <1>9, <4>1, <4>2
    <3> QED BY <3>1
  <2> QED BY <2>1 DEF RowsTell, Stands, IsMissing
<1> QED BY <1>10, <1>12 DEF EventsTell, Stands, IsMissing

(* What stands in a pruned table stood in it before, and a row that is pruned though its mount
   stays is from before the cutoff. *)
LEMMA PrunedStands ==
  ASSUME NEW table, \A r \in table : r.at \in Nat, Cutoff(L2Keep) \in Nat, NEW gone,
         NEW table2, table2 = Left(table, gone)
  PROVE  /\ \A r \in table2 : \A k \in Nat : Stands(r, table2, k) => r \in table /\ Stands(r, table, k)
         /\ \A q \in table : q \in table2 \/ q.mount \in gone \/ q.at < Cutoff(L2Keep)
<1> DEFINE cut == Cutoff(L2Keep)
<1>1. \A r \in table2 : r \in table /\ r.mount \notin gone /\ (r.at >= cut \/ r \in Newest(table, r.mount))
  BY DEF Left, FloorKept
<1>2. \A q \in table : (q.at >= cut /\ q.mount \notin gone) => q \in table2
  BY DEF Left, FloorKept
<1>3. \A q \in table : \A r \in Newest(table, q.mount) : q.at <= r.at
  BY DEF Newest
<1> HIDE DEF cut
<1>4. cut \in Nat
  BY DEF cut
<1>5. ASSUME NEW r \in table2, NEW k \in Nat, Stands(r, table2, k), NEW q \in table, q.mount = r.mount, q.at <= k
      PROVE  q.at <= r.at
  <2>1. CASE q \in table2
    BY <1>5, <2>1 DEF Stands
  <2>2. CASE q \notin table2
    <3>1. q.at < cut
      BY <1>1, <1>2, <1>4, <1>5, <2>2
    <3>2. CASE r.at >= cut
      BY <1>1, <1>4, <3>1, <3>2
    <3>3. CASE r \in Newest(table, r.mount)
      BY <1>3, <1>5, <3>3
    <3> QED BY <1>1, <3>2, <3>3
  <2> QED BY <2>1, <2>2
<1>6. \A r \in table2 : \A k \in Nat : Stands(r, table2, k) => r \in table /\ Stands(r, table, k)
  BY <1>1, <1>5 DEF Stands
<1>7. \A q \in table : q \in table2 \/ q.mount \in gone \/ q.at < cut
  BY <1>2, <1>4
<1> QED BY <1>6, <1>7 DEF cut

(* A mount is pruned when its newest event, from before the cutoff, says that it is gone. *)
LEMMA GoneForLong ==
  ASSUME HistoryConstants, NEW events, IsKeyed(events), \A e \in events : e.at \in Instant,
         NEW m \in Gone(FloorKept(events))
  PROVE  \E n \in NewestOf(events) : n.mount = m /\ ~n.present /\ n.at < Cutoff(L2Keep)
<1>1. \A e : e \in NewestOf(Left(events, {})) <=> e \in NewestOf(events) /\ e.mount \notin {}
  BY PrunedNewest
<1>2. Left(events, {}) = FloorKept(events)
  BY DEF Left
<1>3. NewestOf(FloorKept(events)) = NewestOf(events)
  BY <1>1, <1>2
<1> QED BY <1>3 DEF Gone

(* Pruned tables tell as much, but of mounts that are old (prune_detail_history). *)
LEMMA PrunedTells ==
  ASSUME HistoryConstants, \A h \in handled : h \in Instant /\ DOMAIN seen[h] \subseteq Mount,
         NEW rows, NEW events, IsKeyed(events), \A r \in rows \cup events : r.at \in handled,
         Cutoff(L2Keep) \in Nat, \A t \in handled : t < Cutoff(L2Keep) => Expired(t, L2Keep),
         NEW gone, gone = Gone(FloorKept(events)),
         NEW rows2, rows2 = Left(rows, gone),
         NEW events2, events2 = Left(events, gone),
         RowsTell(rows), EventsTell(events)
  PROVE  RowsTell(rows2) /\ EventsTell(events2)
<1> DEFINE cut == Cutoff(L2Keep)
<1>0. /\ \A h \in handled : h \in Nat
      /\ \A r \in rows : r.at \in Nat /\ r.at \in Instant /\ r.at \in handled
      /\ \A r \in events : r.at \in Nat /\ r.at \in Instant /\ r.at \in handled
  BY DEF HistoryConstants
<1>1. /\ \A r \in rows2 : \A k \in Nat : Stands(r, rows2, k) => r \in rows /\ Stands(r, rows, k)
      /\ \A q \in rows : q \in rows2 \/ q.mount \in gone \/ q.at < cut
  BY <1>0, PrunedStands
<1>2. /\ \A r \in events2 : \A k \in Nat : Stands(r, events2, k) => r \in events /\ Stands(r, events, k)
      /\ \A q \in events : q \in events2 \/ q.mount \in gone \/ q.at < cut
  BY <1>0, PrunedStands
<1>3. ASSUME NEW j \in handled, j < cut, NEW k \in handled, j <= k, NEW m, ListedFrom(m, j, k)
      PROVE  IsOld(m, k)
  BY <1>3 DEF IsOld, ListedFrom
<1>4. ASSUME NEW k \in handled, NEW m \in DOMAIN seen[k], m \in gone PROVE IsOld(m, k)
  <2>1. PICK n \in NewestOf(events) : n.mount = m /\ ~n.present /\ n.at < cut
    BY <1>0, <1>4, GoneForLong
  <2>2. n \in events /\ n.at \in Nat /\ k \in Nat /\ \A q \in events : q.mount = m => q.at <= n.at
    BY <1>0, <2>1 DEF NewestOf, Newest
  <2>3. ~(n.at <= k)
    <3>1. SUFFICES ASSUME n.at <= k PROVE FALSE
      OBVIOUS
    <3>2. Stands(n, events, k)
      BY <2>1, <2>2, <3>1 DEF Stands
    <3> QED BY <2>1, <2>2, <3>2 DEF EventsTell
  <2>4. k < cut /\ k <= k
    BY <2>1, <2>2, <2>3
  <2>5. ListedFrom(m, k, k)
    <3>1. \A i \in handled : k <= i /\ i <= k => i = k
      BY <1>0
    <3> QED BY <3>1 DEF ListedFrom
  <2> QED BY <1>3, <2>4, <2>5
<1> HIDE DEF cut
<1>5. ASSUME NEW k \in handled, NEW m \in DOMAIN seen[k], IsMissing(m, rows2, k) PROVE IsOld(m, k)
  <2>1. CASE IsMissing(m, rows, k)
    BY <2>1 DEF RowsTell
  <2>2. CASE ~IsMissing(m, rows, k)
    <3>1. PICK q \in rows : q.mount = m /\ ~(k < q.at)
      BY <2>2 DEF IsMissing
    <3>2. q.at <= k
      BY <1>0, <3>1
    <3>3. PICK r \in rows : r.mount = m /\ Stands(r, rows, k)
      BY <1>0, <3>1, <3>2, StandsOne
    <3>4. ListedFrom(m, r.at, k) /\ r.at <= k /\ r.at \in handled
      BY <1>0, <3>3 DEF RowsTell, Stands
    <3>5. r \notin rows2
      <4>1. ~(k < r.at)
        BY <1>0, <3>4
      <4> QED BY <1>5, <3>3, <4>1 DEF IsMissing
    <3>6. m \in gone \/ r.at < cut
      BY <1>1, <3>3, <3>5
    <3> QED BY <1>3, <1>4, <3>4, <3>6
  <2> QED BY <2>1, <2>2
<1>6. ASSUME NEW k \in handled, NEW m \in DOMAIN seen[k], IsMissing(m, events2, k) PROVE IsOld(m, k)
  <2>0. m \in Mount
    OBVIOUS
  <2>1. CASE IsMissing(m, events, k)
    BY <2>0, <2>1 DEF EventsTell
  <2>2. CASE ~IsMissing(m, events, k)
    <3>1. PICK q \in events : q.mount = m /\ ~(k < q.at)
      BY <2>2 DEF IsMissing
    <3>2. q.at <= k
      BY <1>0, <3>1
    <3>3. PICK e \in events : e.mount = m /\ Stands(e, events, k)
      BY <1>0, <3>1, <3>2, StandsOne
    <3>4. e.present /\ e.at <= k /\ e.at \in handled
      BY <1>0, <2>0, <3>3 DEF EventsTell, Stands
    <3>5. e \notin events2
      <4>1. ~(k < e.at)
        BY <1>0, <3>4
      <4> QED BY <1>6, <3>3, <4>1 DEF IsMissing
    <3>6. m \in gone \/ e.at < cut
      BY <1>2, <3>3, <3>5
    <3>7. ListedFrom(m, e.at, k)
      <4>1. SUFFICES ASSUME NEW i \in handled, e.at <= i, i <= k PROVE m \in DOMAIN seen[i]
        BY DEF ListedFrom
      <4>2. Stands(e, events, i)
        <5>1. ASSUME NEW q2 \in events, q2.mount = e.mount, q2.at <= i PROVE q2.at <= e.at
          <6>1. q2.at <= k
            BY <1>0, <4>1, <5>1
          <6> QED BY <3>3, <5>1, <6>1 DEF Stands
        <5> QED BY <4>1, <5>1 DEF Stands
      <4> QED BY <2>0, <3>3, <3>4, <4>2 DEF EventsTell
    <3> QED BY <1>3, <1>4, <3>4, <3>6, <3>7
  <2> QED BY <2>1, <2>2
<1>7. RowsTell(rows2)
  <2>1. ASSUME NEW k \in handled, NEW m \in DOMAIN seen[k], NEW r \in rows2, r.mount = m, Stands(r, rows2, k)
        PROVE  r.value = seen[k][m] /\ ListedFrom(m, r.at, k)
    <3>1. r \in rows /\ Stands(r, rows, k)
      BY <1>0, <1>1, <2>1
    <3> QED BY <2>1, <3>1 DEF RowsTell
  <2> QED BY <1>5, <2>1 DEF RowsTell
<1>8. EventsTell(events2)
  <2>1. ASSUME NEW k \in handled, NEW m \in Mount, NEW e \in events2, e.mount = m, Stands(e, events2, k)
        PROVE  e.present <=> m \in DOMAIN seen[k]
    <3>1. e \in events /\ Stands(e, events, k)
      BY <1>0, <1>2, <2>1
    <3> QED BY <2>1, <3>1 DEF EventsTell
  <2> QED BY <1>6, <2>1 DEF EventsTell
<1> QED BY <1>7, <1>8

(* The filesystems' tables tell of every enumeration stored, as long as each was compared with
   what the tables have (diff_filesystems, prune_detail_history). *)
LEMMA FilesystemsTellKept ==
  ASSUME HistoryConstants, Shapes, Times, GivenAgrees, Keys, Hosts, Filesystems, GivenKeys,
         FilesystemsTell, [Next]_vars
  PROVE  FilesystemsTell'
<1> DEFINE rows == db.rows
           events == db.events
           fs == cache.fs
<1>0. /\ handled \subseteq handled' /\ \A h \in handled : seen'[h] = seen[h]
      /\ \A h \in handled : h \in Instant /\ h \in Nat /\ seen[h] \in Enumeration
      /\ \A r \in rows \cup events : r.at \in handled /\ r.mount \in Mount
      /\ IsKeyed(rows) /\ IsKeyed(events)
  <2>1. handled \subseteq handled' /\ \A h \in handled : seen'[h] = seen[h]
    BY GivenGrows DEF Keys
  <2>2. \A h \in handled : h \in Instant /\ h \in Nat /\ seen[h] \in Enumeration
    BY DEF Keys, HistoryConstants
  <2>3. /\ \A r \in rows : r.at \in handled /\ r.mount \in Mount
        /\ \A r \in events : r.at \in handled /\ r.mount \in Mount
        /\ IsKeyed(rows) /\ IsKeyed(events)
    BY DEF Filesystems, FilesystemTypes
  <2> QED BY <2>1, <2>2, <2>3
<1>1. PICK rows2, events2 : rows2 = db'.rows /\ events2 = db'.events
  OBVIOUS
<1>2. ASSUME published' # "written" => RowsTell(rows2)' /\ EventsTell(events2)'
      PROVE  FilesystemsTell'
  <2>1. ASSUME published' # "written" PROVE RowsTell(db.rows)'
    <3>1. RowsTell(rows2)'
      BY <1>2, <2>1
    <3> QED BY <1>1, <3>1 DEF RowsTell, Stands, IsMissing
  <2>2. ASSUME published' # "written" PROVE EventsTell(db.events)'
    <3>1. EventsTell(events2)'
      BY <1>2, <2>2
    <3> QED BY <1>1, <3>1 DEF EventsTell, Stands, IsMissing
  <2> QED BY <2>1, <2>2 DEF FilesystemsTell
<1>3. published # "written" => RowsTell(rows) /\ EventsTell(events)
  BY DEF FilesystemsTell
<1> HIDE DEF rows, events
<1>4. ASSUME UNCHANGED handled, published' # "written" => RowsTell(rows2) /\ EventsTell(events2)
      PROVE  FilesystemsTell'
  <2>1. /\ \A x : RowsTell(x) => RowsTell(x)'
        /\ \A x : EventsTell(x) => EventsTell(x)'
    BY <1>0, <1>4, ToldStays
  <2> QED BY <1>2, <1>4, <2>1
<1>5. CASE Quiet \/ Counts \/ Restarts \/ WritesFast \/ WritesDetail \/ PrunesRaw \/ PrunesGpus
           \/ PrunesSensors \/ PrunesFast \/ PrunesOrphans
  <2>1. UNCHANGED handled /\ (published' # "written" => published # "written")
        /\ rows2 = rows /\ events2 = events
    BY <1>1, <1>5 DEF Quiet, Counts, Restarts, PrunesRaw, PrunesGpus, PrunesSensors, PrunesReadings, Tick,
                      PrunesFast, PrunesOrphans, Shapes, EmptyTables, WritesFast, WritesDetail, rows, events
  <2> QED BY <1>3, <1>4, <2>1
<1>6. CASE PrunesDetail
  <2> DEFINE gone == Gone(FloorKept(events))
  <2>1. /\ UNCHANGED <<handled, published>> /\ tick.at = "detail"
        /\ rows2 = Left(rows, gone) /\ events2 = Left(events, gone)
    BY <1>1, <1>6 DEF PrunesDetail, Tick, Shapes, EmptyTables, Left, rows, events
  <2>2. tick # Idle /\ tick.now \in Nat /\ L2Keep \in Nat
    BY <2>1 DEF Shapes, Idle, TickRecord, HistoryConstants
  <2>3. Cutoff(L2Keep) \in Nat /\ \A t \in handled : t < Cutoff(L2Keep) => Expired(t, L2Keep)
    BY <1>0, <2>2, CutoffExpires
  <2>4. \A h \in handled : h \in Instant /\ DOMAIN seen[h] \subseteq Mount
    BY <1>0 DEF Enumeration
  <2>5. ASSUME published # "written" PROVE RowsTell(rows2) /\ EventsTell(events2)
    <3>1. gone = Gone(FloorKept(events))
      OBVIOUS
    <3> HIDE DEF gone
    <3> QED BY <1>0, <1>3, <2>1, <2>3, <2>4, <2>5, <3>1, PrunedTells
  <2> QED BY <1>4, <2>1, <2>5
<1>7. CASE Stores \/ StoresUnpublished
  <2> DEFINE k == insert.key
             e == seen[k]
  <2>1. /\ k \in Instant /\ k \in DOMAIN seen /\ insert # Idle /\ UNCHANGED <<clock, seen>>
    BY <1>7, CommitsOneMore DEF InsertRecord
  <2>2. /\ rows2 = IF IsNewKey(k) THEN RowsWith(k, e) ELSE rows
        /\ events2 = IF IsNewKey(k) THEN EventsWith(k, e) ELSE events
    BY <1>1, <1>7, CommitsTables DEF rows, events
  <2>3. CASE ~IsNewKey(k)
    <3>1. UNCHANGED <<handled, published>>
      BY <1>7, <2>3 DEF Stores, Commits, StoresUnpublished
    <3> QED BY <1>3, <1>4, <2>2, <2>3, <3>1
  <2>4. CASE IsNewKey(k) /\ published # "yes"
    <3>1. published' = "written"
      BY <1>7, <2>4 DEF Stores, Commits, StoresUnpublished, Keys
    <3> QED BY <1>2, <3>1
  <2>5. CASE IsNewKey(k) /\ published = "yes"
    <3> DEFINE nr == NewRows(fs, k, e)
               ne == NewEvents(fs.present, k, e)
    <3>1. fs.present \in SUBSET Mount /\ e \in Enumeration /\ k \in Nat
      BY <2>1 DEF Filesystems, FilesystemTypes, Keys, HistoryConstants
    <3>2. IsKeyed(nr) /\ IsKeyed(ne) /\ (\A r \in nr : r.at = k) /\ (\A r \in ne : r.at = k)
      <4> HIDE DEF k, e, fs
      <4> QED BY <3>1, NewIsTyped
    <3>3. rows2 = Upserted(rows, nr) /\ events2 = Upserted(events, ne)
      BY <2>2, <2>5 DEF RowsWith, EventsWith, NewRows, NewEvents, WrittenMounts, Appeared, ChangedInCache,
                        rows, events
    <3>4. handled' = handled \cup {k}
      BY <1>7, <2>5 DEF Stores, Commits, StoresUnpublished
    <3>5. \A h \in handled : h \in Nat /\ h < k
      BY <2>1, <2>5, NewIsNewest
    <3>6. Knows(fs, rows, events) /\ HaveRows(rows, events)
      BY <2>5 DEF Filesystems, rows, events
    <3>7. /\ \A r \in rows : r.at \in Nat /\ r.at < k
          /\ \A r \in events : r.at \in Nat /\ r.at < k
      BY <1>0, <3>5
    <3> HIDE DEF nr, ne, fs, k, e
    <3>8. rows2 = rows \cup nr /\ events2 = events \cup ne
      <4>1. Upserted(rows, nr) = rows \cup nr
        BY <3>1, <3>2, <3>7, UpsertedLater
      <4>2. Upserted(events, ne) = events \cup ne
        BY <3>1, <3>2, <3>7, UpsertedLater
      <4> QED BY <3>3, <4>1, <4>2
    <3>9. RowsTell(rows2)' /\ EventsTell(events2)'
      <4>1. /\ RowsTell(rows) /\ EventsTell(events)
            /\ rows2 = rows \cup NewRows(fs, k, e) /\ events2 = events \cup NewEvents(fs.present, k, e)
        BY <1>3, <2>5, <3>8 DEF nr, ne
      <4>2. e = seen[k] /\ seen' = seen /\ clock' = clock
        BY <2>1 DEF e
      <4>3. \A h \in handled : h \in Instant /\ h < k
        BY <1>0, <3>5
      <4> QED BY <1>0, <3>1, <3>4, <3>6, <4>1, <4>2, <4>3, StoresTell
    <3> QED BY <1>2, <3>9
  <2> QED BY <2>3, <2>4, <2>5
<1> QED BY <1>5, <1>6, <1>7, StepKinds
-----------------------------------------------------------------------------
(* What a read makes of rows and events. *)

\* Of the enumeration that stood at a key the values read are right, and miss only old mounts.
ValuesTell(values, key) ==
  /\ \A v \in values : v.at \in handled
  /\ \A k \in Standing(key) : \A m \in DOMAIN seen[k] :
       /\ \A v \in values : v.mount = m /\ Stands(v, values, key) => v.value = seen[k][m]
       /\ IsMissing(m, values, key) => IsOld(m, k)

MountsTell(events, key) ==
  \A k \in Standing(key) : \A m \in Mount :
    /\ \A e \in events : e.mount = m /\ Stands(e, events, key) => (e.present <=> m \in DOMAIN seen[k])
    /\ m \in DOMAIN seen[k] /\ IsMissing(m, events, key) => IsOld(m, k)

FilesRight(files, key) ==
  /\ \A m \in DOMAIN files : \E k \in Standing(key) : m \in DOMAIN seen[k] /\ seen[k][m] = files[m]
  /\ \A m \in Mount \ DOMAIN files : \A k \in Standing(key) : m \in DOMAIN seen[k] => IsOld(m, k)

(* The floor and the window of a table show what stands at each key of the window. *)
LEMMA WindowStands ==
  ASSUME HistoryConstants, NEW table, \A r \in table : r.at \in Instant,
         NEW first \in Nat, NEW last \in Nat, NEW key \in Nat, first <= key, key <= last,
         NEW window, window = FloorAndWindow(table, first, last)
  PROVE  /\ \A r \in window : r \in table
         /\ \A r \in window : Stands(r, window, key) => Stands(r, table, key)
         /\ \A m : IsMissing(m, window, key) => IsMissing(m, table, key)
<1> DEFINE floor == {q \in table : q.at <= first}
<1>0. \A r \in table : r.at \in Nat
  BY DEF HistoryConstants
<1>1. /\ \A r \in window : r \in table
      /\ \A r \in table : r \in Newest(floor, r.mount) => r \in window
      /\ \A r \in table : first < r.at /\ r.at <= last => r \in window
  BY DEF FloorAndWindow
<1>2. ASSUME NEW q \in table, q.at <= key
      PROVE  \E r \in window : r.mount = q.mount /\ r.at <= key /\ q.at <= r.at
  <2>1. CASE first < q.at
    <3>1. q.at <= last /\ q.at <= q.at
      BY <1>0, <1>2
    <3> QED BY <1>1, <1>2, <2>1, <3>1
  <2>2. CASE ~(first < q.at)
    <3>1. q \in floor /\ \A r \in floor : r.at \in Instant
      BY <1>0, <2>2
    <3> HIDE DEF floor
    <3>2. PICK r \in floor : r.mount = q.mount /\ r \in Newest(floor, q.mount)
      BY <3>1, NewestExists
    <3>3. r \in table /\ r.at <= first
      BY <3>2 DEF floor
    <3>4. r \in window /\ q.at <= r.at
      BY <1>1, <3>1, <3>2, <3>3 DEF Newest
    <3>5. r.at <= key
      BY <1>0, <3>3
    <3> QED BY <3>2, <3>4, <3>5
  <2> QED BY <2>1, <2>2
<1> HIDE DEF floor
<1>3. ASSUME NEW r \in window, Stands(r, window, key) PROVE Stands(r, table, key)
  <2>1. r \in table /\ r.at \in Nat
    BY <1>0, <1>1
  <2>2. ASSUME NEW q \in table, q.mount = r.mount, q.at <= key PROVE q.at <= r.at
    <3>1. PICK x \in window : x.mount = q.mount /\ x.at <= key /\ q.at <= x.at
      BY <1>2, <2>2
    <3>2. x.at <= r.at
      BY <1>3, <2>2, <3>1 DEF Stands
    <3>3. x.at \in Nat /\ q.at \in Nat
      BY <1>0, <1>1
    <3> QED BY <2>1, <3>1, <3>2, <3>3
  <2> QED BY <1>3, <2>2 DEF Stands
<1>4. ASSUME NEW m, IsMissing(m, window, key) PROVE IsMissing(m, table, key)
  <2>1. ASSUME NEW q \in table, q.mount = m PROVE key < q.at
    <3>1. SUFFICES ASSUME q.at <= key PROVE FALSE
      BY <1>0
    <3>2. PICK x \in window : x.mount = q.mount /\ x.at <= key /\ q.at <= x.at
      BY <1>2, <3>1
    <3>3. key < x.at /\ x.at \in Nat
      BY <1>0, <1>1, <1>4, <2>1, <3>2 DEF IsMissing
    <3> QED BY <3>2, <3>3
  <2> QED BY <2>1 DEF IsMissing
<1> QED BY <1>1, <1>3, <1>4

(* The standing enumeration is where the tables tell of a key. *)
LEMMA TableStands ==
  ASSUME NEW table, \A r \in table : r.at \in handled, \A h \in handled : h \in Nat,
         NEW key \in Nat, NEW k \in Standing(key)
  PROVE  /\ k \in handled
         /\ \A r \in table : Stands(r, table, key) => Stands(r, table, k)
         /\ \A m : IsMissing(m, table, key) => IsMissing(m, table, k)
<1>1. k \in handled /\ k \in Nat /\ k <= key /\ \A j \in handled : j <= key => j <= k
  BY DEF Standing
<1>2. \A a \in handled : a \in Nat /\ (a <= key <=> a <= k) /\ (key < a => k < a)
  BY <1>1
<1> QED BY <1>1, <1>2 DEF Stands, IsMissing

(* A window of the tables tells of the keys in it as the tables do (read_history_snapshots). *)
LEMMA WindowTells ==
  ASSUME HistoryConstants, \A h \in handled : h \in Instant /\ DOMAIN seen[h] \subseteq Mount,
         NEW first \in Nat, NEW last \in Nat, NEW key \in Nat, first <= key, key <= last
  PROVE  /\ \A rows : (RowsTell(rows) /\ \A r \in rows : r.at \in handled)
                      => ValuesTell(FloorAndWindow(rows, first, last), key)
         /\ \A events : (EventsTell(events) /\ \A e \in events : e.at \in handled)
                        => MountsTell(FloorAndWindow(events, first, last), key)
<1>0. \A h \in handled : h \in Nat /\ h \in Instant
  BY DEF HistoryConstants
<1>1. ASSUME NEW table, \A r \in table : r.at \in handled, NEW window, window = FloorAndWindow(table, first, last)
      PROVE  /\ \A r \in window : r \in table
             /\ \A k \in Standing(key) :
                  /\ k \in handled
                  /\ \A r \in window : Stands(r, window, key) => Stands(r, table, k)
                  /\ \A m : IsMissing(m, window, key) => IsMissing(m, table, k)
  <2>1. /\ \A r \in window : r \in table
        /\ \A r \in window : Stands(r, window, key) => Stands(r, table, key)
        /\ \A m : IsMissing(m, window, key) => IsMissing(m, table, key)
    BY <1>0, <1>1, WindowStands
  <2>2. ASSUME NEW k \in Standing(key)
        PROVE  /\ k \in handled
               /\ \A r \in table : Stands(r, table, key) => Stands(r, table, k)
               /\ \A m : IsMissing(m, table, key) => IsMissing(m, table, k)
    BY <1>0, <1>1, TableStands
  <2> QED BY <2>1, <2>2
<1>2. ASSUME NEW rows, RowsTell(rows), \A r \in rows : r.at \in handled,
             NEW values, values = FloorAndWindow(rows, first, last)
      PROVE  ValuesTell(values, key)
  <2>1. /\ \A r \in values : r \in rows
        /\ \A k \in Standing(key) :
             /\ k \in handled
             /\ \A r \in values : Stands(r, values, key) => Stands(r, rows, k)
             /\ \A m : IsMissing(m, values, key) => IsMissing(m, rows, k)
    BY <1>1, <1>2
  <2> QED BY <1>2, <2>1 DEF ValuesTell, RowsTell
<1>3. ASSUME NEW events, EventsTell(events), \A r \in events : r.at \in handled,
             NEW window, window = FloorAndWindow(events, first, last)
      PROVE  MountsTell(window, key)
  <2>1. /\ \A r \in window : r \in events
        /\ \A k \in Standing(key) :
             /\ k \in handled
             /\ \A r \in window : Stands(r, window, key) => Stands(r, events, k)
             /\ \A m : IsMissing(m, window, key) => IsMissing(m, events, k)
    BY <1>1, <1>3
  <2> QED BY <1>3, <2>1 DEF MountsTell, EventsTell
<1> QED BY <1>2, <1>3

(* Of values and events that tell of a key a read makes the filesystems that stood there
   (assemble_history_snapshots). *)
LEMMA AssembledIsRight ==
  ASSUME HistoryConstants, \A h \in handled : h \in Instant /\ DOMAIN seen[h] \subseteq Mount,
         NEW key \in Nat, NEW values, ValuesTell(values, key), \A v \in values : v.mount \in Mount,
         NEW events, MountsTell(events, key), \A e \in events : e.at \in handled
  PROVE  FilesRight(Assembled(values, events, key), key)
<1> DEFINE present == {e.mount : e \in {n \in NewestOf({q \in events : q.at <= key}) : n.present}}
           known == NewestOf({r \in values : r.at <= key})
           Chosen(m) == CHOOSE r \in known : r.mount = m
           files == Assembled(values, events, key)
<1>0. /\ handled \subseteq Nat /\ IsFiniteSet(handled)
      /\ \A v \in values : v.at \in handled /\ v.at \in Instant /\ v.at \in Nat
      /\ \A e \in events : e.at \in Instant /\ e.at \in Nat
  <2>1. handled \subseteq Instant /\ Instant \subseteq Nat /\ IsFiniteSet(Instant)
    BY DEF HistoryConstants
  <2>2. IsFiniteSet(handled)
    BY <2>1, FS_Subset
  <2> QED BY <2>1, <2>2 DEF ValuesTell
<1>1. \A r : r \in known <=> r \in values /\ Stands(r, values, key)
  BY DEF NewestOf, Newest, Stands
<1>2. \A m : m \in present <=> \E e \in events : e.mount = m /\ e.present /\ Stands(e, events, key)
  BY DEF NewestOf, Newest, Stands
<1>3. files = [m \in {r.mount : r \in {n \in known : n.mount \in present}} |-> Chosen(m).value]
  BY DEF Assembled
<1> HIDE DEF present, known, files
<1>4. \A m : m \in DOMAIN files <=> m \in present /\ \E r \in known : r.mount = m
  BY <1>3
<1>5. \A m \in DOMAIN files : files[m] = Chosen(m).value /\ Chosen(m) \in known /\ Chosen(m).mount = m
  BY <1>3
<1> HIDE DEF Chosen
<1>6. ASSUME NEW m \in DOMAIN files
      PROVE  \E k \in Standing(key) : m \in DOMAIN seen[k] /\ seen[k][m] = files[m]
  <2> DEFINE v == Chosen(m)
             upTo == {h \in handled : h <= key}
  <2>1. /\ v \in values /\ v.mount = m /\ Stands(v, values, key) /\ files[m] = v.value
        /\ m \in present /\ m \in Mount
    BY <1>1, <1>4, <1>5
  <2>2. PICK e \in events : e.mount = m /\ e.present /\ Stands(e, events, key)
    BY <1>2, <2>1
  <2> HIDE DEF v
  <2>3. v.at \in upTo /\ upTo \in SUBSET Nat /\ IsFiniteSet(upTo)
    <3>1. v.at \in upTo /\ upTo \subseteq handled
      BY <1>0, <2>1 DEF Stands
    <3> HIDE DEF upTo
    <3> QED BY <1>0, <3>1, FS_Subset
  <2>4. PICK k \in upTo : \A j \in upTo : j <= k
    <3> HIDE DEF upTo
    <3> QED BY <2>3, GreatestExists
  <2>5. k \in Standing(key)
    BY <2>4 DEF Standing
  <2>6. m \in DOMAIN seen[k]
    BY <2>1, <2>2, <2>5 DEF MountsTell
  <2>7. v.value = seen[k][m]
    BY <2>1, <2>5, <2>6 DEF ValuesTell
  <2> QED BY <2>1, <2>5, <2>6, <2>7
<1>7. ASSUME NEW m \in Mount \ DOMAIN files, NEW k \in Standing(key), m \in DOMAIN seen[k]
      PROVE  IsOld(m, k)
  <2>1. CASE ~\E r \in known : r.mount = m
    <3>1. IsMissing(m, values, key)
      <4>1. SUFFICES ASSUME NEW q \in values, q.mount = m, ~(key < q.at) PROVE FALSE
        BY DEF IsMissing
      <4>2. q.at <= key
        BY <1>0, <4>1
      <4>3. PICK r \in values : r.mount = q.mount /\ Stands(r, values, key)
        BY <1>0, <4>2, StandsOne
      <4> QED BY <1>1, <2>1, <4>1, <4>3
    <3> QED BY <1>7, <3>1 DEF ValuesTell
  <2>2. CASE m \notin present
    <3>1. ~\E e \in events : e.mount = m /\ Stands(e, events, key)
      BY <1>2, <1>7, <2>2 DEF MountsTell
    <3>2. IsMissing(m, events, key)
      <4>1. SUFFICES ASSUME NEW q \in events, q.mount = m, ~(key < q.at) PROVE FALSE
        BY DEF IsMissing
      <4>2. q.at <= key
        BY <1>0, <4>1
      <4>3. PICK r \in events : r.mount = q.mount /\ Stands(r, events, key)
        BY <1>0, <4>2, StandsOne
      <4> QED BY <3>1, <4>1, <4>3
    <3> QED BY <1>7, <3>2 DEF MountsTell
  <2> QED BY <1>4, <1>7, <2>1, <2>2
<1> QED BY <1>6, <1>7 DEF FilesRight, files
-----------------------------------------------------------------------------
(* The filesystems of a read. *)

ReaderFiles ==
  published # "written" =>
    /\ reader.at = "events" =>
         \A r \in reader.rows : ValuesTell(reader.values, r.key) /\ \A v \in reader.values : v.mount \in Mount
    /\ reader.at = "done" => \A s \in reader.samples : FilesRight(s.filesystems, given[s.at].key)

(* What stood at the key of a stored sample still stands there, since what is stored later has a
   newer key. *)
LEMMA StandingStays ==
  ASSUME HistoryConstants, Shapes, Times, GivenAgrees, Keys, Filesystems, GivenKeys, [Next]_vars,
         published' # "written", NEW t \in DOMAIN given, NEW key, key = given[t].key
  PROVE  /\ \A k : k \in Standing(key) <=> k \in Standing(key)'
         /\ \A k \in Standing(key) : /\ seen'[k] = seen[k]
                                     /\ \A m : IsOld(m, k) => IsOld(m, k)'
<1>0. /\ handled \subseteq handled' /\ \A h \in handled : seen'[h] = seen[h]
      /\ \A h \in handled : h \in Nat
      /\ key \in Nat
  <2>1. handled \subseteq handled' /\ \A h \in handled : seen'[h] = seen[h]
    BY GivenGrows DEF Keys
  <2>2. (\A h \in handled : h \in Nat) /\ key \in Nat
    BY DEF Keys, GivenKeys, HistoryConstants
  <2> QED BY <2>1, <2>2
<1>1. \A j \in handled : Expired(j, L2Keep) => Expired(j, L2Keep)'
  <2>1. L2Keep \in Nat
    BY DEF HistoryConstants
  <2> QED BY <1>0, <2>1, ExpiredStays
<1>2. \A j \in handled' : j \in handled \/ (j \in Nat /\ key < j)
  <2>1. CASE UNCHANGED handled
    BY <2>1
  <2>2. CASE ~UNCHANGED handled
    <3> DEFINE new == insert.key
    <3>1. Stores \/ StoresUnpublished
      BY <2>2, StepKinds DEF Quiet, Counts, Restarts, WritesFast, WritesDetail, Tick,
        PrunesRaw, PrunesGpus, PrunesSensors, PrunesReadings, PrunesDetail, PrunesFast, PrunesOrphans
    <3>2. /\ new \in Instant /\ insert # Idle
      BY <3>1, CommitsOneMore DEF InsertRecord
    <3>3. IsNewKey(new) /\ handled' = handled \cup {new} /\ published = "yes"
      BY <2>2, <3>1 DEF Stores, Commits, StoresUnpublished, Keys
    <3>4. key < new
      BY <3>2, <3>3, NewIsNewest
    <3>5. new \in Nat
      BY <3>2 DEF HistoryConstants
    <3> HIDE DEF new
    <3> QED BY <3>3, <3>4, <3>5
  <2> QED BY <2>1, <2>2
<1>3. \A j \in handled' : j <= key => j \in handled
  BY <1>0, <1>2
<1>4. \A k : k \in Standing(key) <=> k \in Standing(key)'
  <2>1. \A k : k \in Standing(key)' <=> k \in handled' /\ k <= key /\ \A j \in handled' : j <= key => j <= k
    BY DEF Standing
  <2> QED BY <1>0, <1>3, <2>1 DEF Standing
<1>5. ASSUME NEW k \in Standing(key), NEW m, IsOld(m, k) PROVE IsOld(m, k)'
  <2>1. k \in handled /\ k <= key
    BY DEF Standing
  <2>2. PICK j \in handled : /\ j <= k /\ Expired(j, L2Keep)
                             /\ \A i \in handled : j <= i /\ i <= k => m \in DOMAIN seen[i]
    BY <1>5 DEF IsOld
  <2>3. \A i \in handled' : i <= k => i \in handled
    <3>1. \A i \in handled' : i \in Nat
      BY <1>0, <1>2
    <3>2. \A i \in handled' : i <= k => i <= key
      BY <1>0, <2>1, <3>1
    <3> QED BY <1>3, <3>2
  <2>4. \A i \in handled' : j <= i /\ i <= k => m \in DOMAIN seen'[i]
    BY <1>0, <2>2, <2>3
  <2>5. Expired(j, L2Keep)' /\ j \in handled'
    BY <1>0, <1>1, <2>2
  <2> QED BY <2>2, <2>4, <2>5 DEF IsOld
<1>6. \A k \in Standing(key) : seen'[k] = seen[k]
  BY <1>0 DEF Standing
<1> QED BY <1>4, <1>5, <1>6

(* So what was read of it stays right. *)
LEMMA RightStays ==
  ASSUME HistoryConstants, Shapes, Times, GivenAgrees, Keys, Filesystems, GivenKeys, [Next]_vars,
         published' # "written", NEW t \in DOMAIN given, NEW key, key = given[t].key
  PROVE  /\ \A values : ValuesTell(values, key) => ValuesTell(values, key)'
         /\ \A files : FilesRight(files, key) => FilesRight(files, key)'
<1>1. /\ \A k : k \in Standing(key) <=> k \in Standing(key)'
      /\ \A k \in Standing(key) : /\ seen'[k] = seen[k]
                                  /\ \A m : IsOld(m, k) => IsOld(m, k)'
      /\ handled \subseteq handled'
  BY StandingStays, GivenGrows
<1>2. ASSUME NEW values, ValuesTell(values, key) PROVE ValuesTell(values, key)'
  <2>1. \A v \in values : v.at \in handled'
    BY <1>1, <1>2 DEF ValuesTell
  <2>2. ASSUME NEW k \in Standing(key)', NEW m \in DOMAIN seen'[k]
        PROVE  /\ \A v \in values : v.mount = m /\ Stands(v, values, key) => v.value = seen'[k][m]
               /\ IsMissing(m, values, key) => IsOld(m, k)'
    <3>1. k \in Standing(key) /\ seen'[k] = seen[k] /\ (IsOld(m, k) => IsOld(m, k)')
      BY <1>1
    <3>2. m \in DOMAIN seen[k]
      BY <3>1
    <3>3. /\ \A v \in values : v.mount = m /\ Stands(v, values, key) => v.value = seen[k][m]
          /\ IsMissing(m, values, key) => IsOld(m, k)
      BY <1>2, <3>1, <3>2 DEF ValuesTell
    <3> QED BY <3>1, <3>3
  <2> QED BY <2>1, <2>2 DEF ValuesTell, Stands, IsMissing
<1>3. ASSUME NEW files, FilesRight(files, key) PROVE FilesRight(files, key)'
  <2>1. ASSUME NEW m \in DOMAIN files
        PROVE  \E k \in Standing(key)' : m \in DOMAIN seen'[k] /\ seen'[k][m] = files[m]
    <3>1. PICK k \in Standing(key) : m \in DOMAIN seen[k] /\ seen[k][m] = files[m]
      BY <1>3 DEF FilesRight
    <3> QED BY <1>1, <3>1
  <2>2. ASSUME NEW m \in Mount \ DOMAIN files, NEW k \in Standing(key)', m \in DOMAIN seen'[k]
        PROVE  IsOld(m, k)'
    <3>1. k \in Standing(key) /\ m \in DOMAIN seen[k]
      BY <1>1, <2>2
    <3>2. IsOld(m, k)
      BY <1>3, <3>1 DEF FilesRight
    <3> QED BY <1>1, <3>1, <3>2
  <2> QED BY <2>1, <2>2 DEF FilesRight
<1> QED BY <1>2, <1>3

(* The first and the last key of a read enclose its keys. *)
LEMMA KeysOfWindow ==
  ASSUME HistoryConstants, \A r \in reader.rows : r.key \in Instant, NEW r \in reader.rows
  PROVE  FirstKey \in Nat /\ LastKey \in Nat /\ FirstKey <= r.key /\ r.key <= LastKey
<1> DEFINE rows == reader.rows
           keys == {x.key : x \in rows}
<1>0. \A x \in rows : x.key \in keys
  OBVIOUS
<1>1. r.key \in keys /\ keys \subseteq Instant /\ Instant \subseteq Nat /\ IsFiniteSet(Instant)
  BY DEF HistoryConstants
<1>2. keys \in SUBSET Nat /\ keys # {} /\ IsFiniteSet(keys)
  <2> HIDE DEF keys
  <2> QED BY <1>1, FS_Subset
<1>3. /\ FirstKey = CHOOSE k \in keys : \A x \in rows : k <= x.key
      /\ LastKey = CHOOSE k \in keys : \A x \in rows : x.key <= k
  BY DEF FirstKey, LastKey
<1>4. r \in rows
  OBVIOUS
<1> HIDE DEF keys, rows
<1>5. \E k \in keys : \A x \in rows : k <= x.key
  BY <1>0, <1>2, NatLeast
<1>6. \E k \in keys : \A x \in rows : x.key <= k
  BY <1>0, <1>2, GreatestExists
<1>7. FirstKey \in keys /\ \A x \in rows : FirstKey <= x.key
  BY <1>3, <1>5
<1>8. LastKey \in keys /\ \A x \in rows : x.key <= LastKey
  BY <1>3, <1>6
<1> QED BY <1>2, <1>4, <1>7, <1>8

(* The two statements that read rows and events make every sample's filesystems right. *)
LEMMA FilesAreRead ==
  ASSUME HistoryConstants, Times, Keys, Filesystems, GivenKeys, FilesystemsTell, ReaderTells, ReaderFiles,
         published # "written", ReadsRows \/ ReadsEvents,
         UNCHANGED <<db, given, clock, seen, handled, published>>
  PROVE  ReaderFiles'
<1> DEFINE rows == reader.rows
           first == FirstKey
           last == LastKey
<1>0. /\ reader.at \in {"rows", "events"}
      /\ \A h \in handled : h \in Instant /\ DOMAIN seen[h] \subseteq Mount
      /\ \A r \in db.rows : r.at \in handled /\ r.mount \in Mount
      /\ \A e \in db.events : e.at \in handled
  BY DEF ReadsRows, ReadsEvents, Reads, Keys, Filesystems, FilesystemTypes, Enumeration
<1>1. \A r \in rows : r.at \in DOMAIN given /\ r.key = given[r.at].key /\ r.key \in Instant /\ r.key \in Nat
  BY <1>0 DEF ReaderTells, ReaderHas, IsMetricOf, GivenKeys, HistoryConstants
<1>2. ASSUME NEW r \in rows PROVE first \in Nat /\ last \in Nat /\ first <= r.key /\ r.key <= last
  BY <1>1, KeysOfWindow
<1>3. RowsTell(db.rows) /\ EventsTell(db.events)
  BY DEF FilesystemsTell
<1> HIDE DEF first, last
<1>4. CASE ReadsRows
  <2> DEFINE values == FloorAndWindow(db.rows, first, last)
  <2>1. reader' = [at |-> "events", samples |-> reader.samples, rows |-> rows, values |-> values]
    BY <1>4 DEF ReadsRows, Reads, first, last
  <2>2. ASSUME NEW r \in rows PROVE ValuesTell(values, r.key)
    <3> DEFINE key == r.key
    <3>1. key \in Nat /\ first \in Nat /\ last \in Nat /\ first <= key /\ key <= last
      BY <1>1, <1>2
    <3> HIDE DEF key, values
    <3>2. ValuesTell(FloorAndWindow(db.rows, first, last), key)
      BY <1>0, <1>3, <3>1, WindowTells
    <3> QED BY <3>2 DEF key, values
  <2>3. \A v \in values : v.mount \in Mount
    BY <1>0 DEF FloorAndWindow
  <2> HIDE DEF values, rows
  <2>4. \A r \in rows : ValuesTell(values, r.key) /\ \A v \in values : v.mount \in Mount
    BY <2>2, <2>3
  <2>5. /\ reader'.at = "events" /\ reader'.rows = rows /\ reader'.values = values
    BY <2>1
  <2> QED BY <2>4, <2>5 DEF ReaderFiles, ValuesTell, Standing, IsOld, Expired
<1>5. CASE ReadsEvents
  <2> DEFINE events == FloorAndWindow(db.events, first, last)
             values == reader.values
             samples == reader.samples
             Shown(s) == [at |-> s.at, identity |-> s.identity, gpus |-> s.gpus, processes |-> s.processes,
                          filesystems |-> Assembled(values, events, s.key)]
             shown == {Shown(s) : s \in samples}
  <2>1. reader.at = "events" /\ reader' = [at |-> "done", samples |-> shown]
    BY <1>5 DEF ReadsEvents, Reads, first, last
  <2>2. \A r \in rows : ValuesTell(values, r.key) /\ \A v \in values : v.mount \in Mount
    BY <2>1 DEF ReaderFiles
  <2>3. \A s \in samples : \E r \in rows : s.at = r.at /\ s.key = r.key
    BY <2>1 DEF ReaderTells, ReaderHas, IsOfRows
  <2>4. \A e \in events : e.at \in handled
    BY <1>0 DEF FloorAndWindow
  <2> HIDE DEF rows, values, samples
  <2>5. ASSUME NEW r \in rows PROVE FilesRight(Assembled(values, events, r.key), r.key)
    <3> DEFINE key == r.key
    <3>1. key \in Nat /\ first \in Nat /\ last \in Nat /\ first <= key /\ key <= last
      BY <1>1, <1>2
    <3>2. ValuesTell(values, key) /\ \A v \in values : v.mount \in Mount
      BY <2>2
    <3> HIDE DEF key
    <3>3. MountsTell(FloorAndWindow(db.events, first, last), key)
      BY <1>0, <1>3, <3>1, WindowTells
    <3>4. MountsTell(events, key)
      BY <3>3
    <3> HIDE DEF events
    <3>5. FilesRight(Assembled(values, events, key), key)
      BY <1>0, <2>4, <3>1, <3>2, <3>4, AssembledIsRight
    <3> QED BY <3>5 DEF key
  <2> HIDE DEF events
  <2>6. ASSUME NEW s \in samples
        PROVE  FilesRight(Shown(s).filesystems, given[Shown(s).at].key)
    <3>1. PICK r \in rows : s.at = r.at /\ s.key = r.key
      BY <2>3
    <3>2. Shown(s).filesystems = Assembled(values, events, r.key) /\ given[Shown(s).at].key = r.key
      BY <1>1, <3>1
    <3> HIDE DEF Shown
    <3> QED BY <2>5, <3>2
  <2>7. \A x \in shown : \E s \in samples : x = Shown(s)
    OBVIOUS
  <2> HIDE DEF Shown, shown
  <2>8. \A x \in shown : FilesRight(x.filesystems, given[x.at].key)
    BY <2>6, <2>7
  <2>9. reader'.at = "done" /\ reader'.samples = shown
    BY <2>1
  <2> QED BY <2>8, <2>9 DEF ReaderFiles, FilesRight, Standing, IsOld, Expired
<1> QED BY <1>4, <1>5

(* The part of the invariant about a read's filesystems. *)
LEMMA ReaderFilesKept ==
  ASSUME HistoryConstants, HistoryInv, GivenKeys, FilesystemsTell, ReaderTells, ReaderFiles, [Next]_vars
  PROVE  ReaderFiles'
<1> USE DEF HistoryInv
<1>0. SUFFICES ASSUME published' # "written" PROVE ReaderFiles'
  BY DEF ReaderFiles
<1>1. published # "written"
  <2>1. CASE Stores \/ StoresUnpublished
    BY <1>0, <2>1 DEF Stores, Commits, StoresUnpublished
  <2>2. CASE ~Stores /\ ~StoresUnpublished
    BY <1>0, <2>2, StepKinds DEF Quiet, Counts, Restarts, WritesFast, WritesDetail, Tick,
        PrunesRaw, PrunesGpus, PrunesSensors, PrunesReadings, PrunesDetail, PrunesFast, PrunesOrphans
  <2> QED BY <2>1, <2>2
<1>2. CASE UNCHANGED reader
  <2>1. ASSUME NEW t \in DOMAIN given, NEW key, key = given[t].key
        PROVE  /\ \A values : ValuesTell(values, key) => ValuesTell(values, key)'
               /\ \A files : FilesRight(files, key) => FilesRight(files, key)'
    BY <1>0, <2>1, RightStays
  <2>2. ASSUME reader.at = "events", NEW r \in reader.rows
        PROVE  ValuesTell(reader.values, r.key)'
    <3>1. PICK values, key, at : values = reader.values /\ key = r.key /\ at = r.at
      OBVIOUS
    <3>2. at \in DOMAIN given /\ key = given[at].key
      BY <2>2, <3>1 DEF ReaderTells, ReaderHas, IsMetricOf
    <3>3. ValuesTell(values, key)
      BY <1>1, <2>2, <3>1 DEF ReaderFiles
    <3>4. ValuesTell(values, key)'
      BY <2>1, <3>2, <3>3
    <3> QED BY <1>2, <3>1, <3>4 DEF ValuesTell, Stands, IsMissing
  <2>3. ASSUME reader.at = "done", NEW s \in reader.samples
        PROVE  FilesRight(s.filesystems, given[s.at].key)'
    <3>1. PICK files, key, at : files = s.filesystems /\ key = given[s.at].key /\ at = s.at
      OBVIOUS
    <3>2. at \in DOMAIN given /\ key = given[at].key
      BY <2>3, <3>1 DEF ReaderTells, ReaderHas, IsSampleOf
    <3>3. FilesRight(files, key)
      BY <1>1, <2>3, <3>1 DEF ReaderFiles
    <3>4. FilesRight(files, key)'
      BY <2>1, <3>2, <3>3
    <3>5. given'[s.at].key = key
      BY <3>1, <3>2, GivenGrows
    <3> QED BY <3>1, <3>4, <3>5 DEF FilesRight, Standing, IsOld, Expired
  <2>4. reader.at = "events" => \A r \in reader.rows : \A v \in reader.values : v.mount \in Mount
    BY <1>1 DEF ReaderFiles
  <2> QED BY <1>2, <2>2, <2>3, <2>4 DEF ReaderFiles
<1>3. CASE reader' = Idle
  BY <1>3 DEF ReaderFiles, Idle
<1>4. CASE /\ ReadsMetrics \/ ReadsFast \/ ReadsMinute \/ ReadsDevices
           /\ UNCHANGED <<db, given, clock, seen, handled, published>>
  BY <1>4 DEF ReadsMetrics, ReadsFast, ReadsMinute, ReadsDevices, Reads, ReaderFiles
<1>5. CASE /\ ReadsRows \/ ReadsEvents
           /\ UNCHANGED <<db, given, clock, seen, handled, published>>
  BY <1>1, <1>5, FilesAreRead
<1> QED BY <1>2, <1>3, <1>4, <1>5, ReaderSteps

(* The tables, and every read of them, tell the filesystems of each enumeration stored, as long
   as each was compared with what the tables have. *)
THEOREM FilesystemsAreTold == Spec => [](GivenKeys /\ FilesystemsTell /\ ReaderFiles)
<1>1. Init => GivenKeys /\ FilesystemsTell /\ ReaderFiles
  BY DEF Init, Idle, EmptyTables, GivenKeys, FilesystemsTell, RowsTell, EventsTell, ReaderFiles
<1>2. HistoryInv /\ ReaderTells /\ GivenKeys /\ FilesystemsTell /\ ReaderFiles /\ [Next]_vars
        => GivenKeys' /\ FilesystemsTell' /\ ReaderFiles'
  BY HistoryConstants, GivenKeysKept, FilesystemsTellKept, ReaderFilesKept DEF HistoryInv
<1> QED BY <1>1, <1>2, HistoryInvHolds, ReadsTellTheTruth, PTL DEF Spec

(* A sample is read with the filesystems that stood at its key: no mount too many, none with
   another value, and none missing but old ones (assemble_history_snapshots, ADR 0024). *)
THEOREM FilesystemsAreReadBack == Spec => []FilesystemsReadBack
<1>1. ReaderFiles => FilesystemsReadBack
  BY DEF ReaderFiles, FilesRight, FilesystemsReadBack
<1> QED BY <1>1, FilesystemsAreTold, PTL

-----------------------------------------------------------------------------
(* Pages and tiers. *)

Toggled == [enabled : BOOLEAN, keep : Nat]
Laddered == [l1 : Nat, l2 : Nat, l3 : Toggled, l4 : Toggled, queryable : BOOLEAN]

\* Saved ladders keep a coarser tier at least as long as a finer one, but raw samples may be
\* kept longer than minutes (RetentionLadder::validate).
CoarsestKeepsLongest(ladder) ==
  LET coarsest == Coarsest(Enabled(ladder))
  IN \/ coarsest = Rollup1h /\ ladder.l4.keep = 0
     \/ \A t \in Enabled(ladder) : KeepDays(ladder, t) <= KeepDays(ladder, coarsest)

-----------------------------------------------------------------------------
(* The pages. *)

(* What a page of times leaves out is older than all it shows (ORDER BY ... DESC LIMIT in
   read_history_points and read_history_processes). *)
THEOREM PageShowsNewestTimes ==
  ASSUME NEW times \in SUBSET Int, IsFiniteSet(times), NEW limit \in Nat,
         NEW out \in times \ NewestTimes(times, limit), NEW in \in NewestTimes(times, limit)
  PROVE  out < in
<1> DEFINE Later(t) == {u \in times : u > t}
<1>1. out \in times /\ in \in times /\ out \in Int /\ in \in Int
  BY DEF NewestTimes
<1>2. ~(Cardinality(Later(out)) < limit) /\ Cardinality(Later(in)) < limit
  BY DEF NewestTimes
<1>3. SUFFICES ASSUME out >= in PROVE FALSE
  BY <1>1
<1>4. Later(out) \subseteq Later(in)
  <2>1. SUFFICES ASSUME NEW u \in times, u > out PROVE u > in
    OBVIOUS
  <2>2. u \in Int
    OBVIOUS
  <2> QED BY <1>1, <1>3, <2>1, <2>2
<1>5. IsFiniteSet(Later(in))
  <2>1. Later(in) \subseteq times
    OBVIOUS
  <2> HIDE DEF Later
  <2> QED BY <2>1, FS_Subset
<1>6. /\ Cardinality(Later(out)) <= Cardinality(Later(in))
      /\ Cardinality(Later(out)) \in Nat /\ Cardinality(Later(in)) \in Nat
  <2> HIDE DEF Later
  <2> QED BY <1>4, <1>5, FS_Subset, FS_CardinalityType
<1> HIDE DEF Later
<1> QED BY <1>2, <1>6

(* A page of times that leaves some out is full. *)
LEMMA PageFull ==
  ASSUME NEW times \in SUBSET Int, IsFiniteSet(times), NEW limit \in Nat,
         NEW out \in times \ NewestTimes(times, limit)
  PROVE  Cardinality(NewestTimes(times, limit)) >= limit
<1> DEFINE page == NewestTimes(times, limit)
           left == times \ page
           Later(t) == {u \in times : u > t}
<1>1. page \subseteq times /\ \A t \in times : t \in page <=> Cardinality(Later(t)) < limit
  BY DEF NewestTimes
<1> HIDE DEF page
<1>2. left \in SUBSET Int /\ left # {} /\ IsFiniteSet(left) /\ IsFiniteSet(page)
  BY <1>1, FS_Subset DEF page
<1>3. PICK t \in left : \A u \in left : u <= t
  BY <1>2, GreatestInt
<1>4. Later(t) \subseteq page
  <2>1. SUFFICES ASSUME NEW u \in times, u > t, u \notin page PROVE FALSE
    OBVIOUS
  <2>2. u \in Int /\ t \in Int /\ u <= t
    BY <1>3, <2>1
  <2> QED BY <2>1, <2>2
<1>5. ~(Cardinality(Later(t)) < limit)
  BY <1>1, <1>3
<1> HIDE DEF Later
<1>6. Cardinality(Later(t)) <= Cardinality(page)
      /\ Cardinality(Later(t)) \in Nat /\ Cardinality(page) \in Nat
  BY <1>2, <1>4, FS_Subset, FS_CardinalityType
<1>7. Cardinality(page) >= limit
  BY <1>5, <1>6
<1> QED BY <1>7 DEF page

LEMMA GivenPresent == \A x, default : Given({x}, default) = x
BY DEF Given

(* What a page of a window shows. *)
LEMMA FetchedPageShows ==
  ASSUME PageConstants, NEW samples, NEW since, NEW until, NEW limit \in 1..LargestPage
  PROVE  FetchedPage(samples, since, until, limit)
           = NewestTimes({t \in samples : t >= since /\ t <= until}, limit)
<1> DEFINE query == [since |-> {since}, until |-> {until}, limit |-> {limit}]
<1>1. \A t : Given(query.since, t) = since /\ Given(query.until, t) = until
  BY GivenPresent
<1>2. {t \in samples : InWindow(t, query)} = {t \in samples : t >= since /\ t <= until}
  BY <1>1 DEF InWindow
<1>3. Given(query.limit, DefaultPage) = limit
  BY GivenPresent
<1>4. Clamped(limit) = limit
  BY DEF Clamped, PageConstants
<1> HIDE DEF query
<1>5. SamplesPage(samples, query) = NewestTimes({t \in samples : t >= since /\ t <= until}, limit)
  BY <1>2, <1>3, <1>4 DEF SamplesPage
<1> QED BY <1>5 DEF FetchedPage, query

(* What the following pages of the dashboard's raw window (fetchHistoryWindow, answered by
   read_history_internal) show between them, though inserts and prunes change the samples from
   one page to the next: a page is older than every page before it, so that no sample is shown
   twice; a sample of the window that is kept all along is shown unless it is older than every
   sample shown, so that the dashboard's graph has no hole, whichever page fails; and when the
   last page was answered and left no more to ask for, every such sample is shown. *)
THEOREM WindowPagesFollow ==
  ASSUME PageConstants, NEW n \in Nat \ {0}, NEW since \in Int, NEW until \in Int,
         NEW limit \in 1..LargestPage, NEW tables, NEW pages,
         \A i \in 1..n : tables[i] \in SUBSET Int /\ IsFiniteSet(tables[i]),
         FetchesWindow(pages, tables, since, until, limit, n)
  PROVE  LET kept == {t \in since..until : \A i \in 1..n : t \in tables[i]}
             shown == UNION {pages[i] : i \in 1..n}
         IN /\ \A j \in 1..n : \A i \in 1..(j - 1) : \A t \in pages[i], u \in pages[j] : u < t
            /\ \A t \in kept : t \in shown \/ \A u \in shown : t < u
            /\ Answered(pages, tables, since, until, limit, n) /\ ~HasMore(pages[n], since, limit)
                 => kept \subseteq shown
<1> DEFINE kept == {t \in since..until : \A i \in 1..n : t \in tables[i]}
           shown == UNION {pages[i] : i \in 1..n}
           asked(i) == AskedUntil(pages, until, i)
           window(i) == {t \in tables[i] : t >= since /\ t <= asked(i)}
<1>1. ASSUME NEW i \in 1..n
      PROVE  /\ window(i) \in SUBSET Int /\ IsFiniteSet(window(i)) /\ limit \in Nat
             /\ Answered(pages, tables, since, until, limit, i)
                  => pages[i] = NewestTimes(window(i), limit)
             /\ pages[i] = {} \/ pages[i] = NewestTimes(window(i), limit)
             /\ pages[i] \subseteq window(i) /\ IsFiniteSet(pages[i])
  <2>1. window(i) \in SUBSET Int /\ IsFiniteSet(window(i)) /\ limit \in Nat
    <3>1. window(i) \subseteq tables[i]
      OBVIOUS
    <3> HIDE DEF window
    <3> QED BY <3>1, FS_Subset DEF PageConstants
  <2>2. Answered(pages, tables, since, until, limit, i) => pages[i] = NewestTimes(window(i), limit)
    BY FetchedPageShows DEF Answered
  <2>3. pages[i] = {} \/ pages[i] = NewestTimes(window(i), limit)
    BY <2>2 DEF FetchesWindow
  <2> HIDE DEF window
  <2>4. pages[i] \subseteq window(i)
    BY <2>3 DEF NewestTimes
  <2> QED BY <2>1, <2>2, <2>3, <2>4, FS_Subset
<1>2. ASSUME NEW i \in 1..n, pages[i] # {}
      PROVE  /\ Oldest(pages[i]) \in pages[i] /\ Oldest(pages[i]) \in Int
             /\ \A t \in pages[i] : Oldest(pages[i]) <= t
  <2>1. pages[i] \in SUBSET Int /\ IsFiniteSet(pages[i])
    <3> HIDE DEF window
    <3> QED BY <1>1
  <2>2. \E t \in pages[i] : \A u \in pages[i] : t <= u
    BY <1>2, <2>1, LeastInt
  <2>3. Oldest(pages[i]) \in pages[i] /\ \A t \in pages[i] : Oldest(pages[i]) <= t
    BY <2>2 DEF Oldest
  <2> QED BY <2>1, <2>3
<1>3. ASSUME NEW j \in 1..n, j # 1
      PROVE  /\ j - 1 \in 1..n /\ pages[j - 1] # {} /\ asked(j) = Oldest(pages[j - 1]) - 1
             /\ \A t \in pages[j - 1] : t \in Int /\ asked(j) < t /\ t <= asked(j - 1)
  <2>1. j - 1 \in 1..n /\ j - 1 < n
    BY <1>3
  <2>2. pages[j - 1] # {}
    BY <2>1 DEF FetchesWindow, HasMore
  <2>3. asked(j) = Oldest(pages[j - 1]) - 1
    BY <1>3 DEF AskedUntil
  <2>4. \A t \in pages[j - 1] : t \in Int /\ t <= asked(j - 1)
    BY <1>1, <2>1
  <2>5. Oldest(pages[j - 1]) \in Int /\ \A t \in pages[j - 1] : Oldest(pages[j - 1]) <= t
    BY <1>2, <2>1, <2>2
  <2> HIDE DEF asked
  <2> QED BY <2>1, <2>2, <2>3, <2>4, <2>5
<1>4. ASSUME NEW j \in 1..n PROVE asked(j) \in Int
  <2>1. CASE j = 1
    BY <2>1 DEF AskedUntil
  <2>2. CASE j # 1
    BY <1>2, <1>3, <2>2
  <2> QED BY <2>1, <2>2
<1>5. ASSUME NEW i \in 1..n, NEW t \in window(i), t \notin pages[i], NEW u \in pages[i]
      PROVE  t < u
  <2> HIDE DEF window
  <2>1. pages[i] = NewestTimes(window(i), limit)
    BY <1>1
  <2>2. t \in window(i) \ NewestTimes(window(i), limit) /\ u \in NewestTimes(window(i), limit)
    BY <1>5, <2>1
  <2> QED BY <1>1, <2>2, PageShowsNewestTimes
<1>6. \A t \in kept : t \in Int /\ since <= t /\ t <= until /\ \A i \in 1..n : t \in tables[i]
  OBVIOUS
<1>7. ASSUME NEW t \in kept, NEW i \in 1..n, t <= asked(i) PROVE t \in window(i)
  BY <1>6, <1>7
<1>8. \A i \in 1..n : \A t \in window(i) : t \in tables[i] /\ t >= since /\ t <= asked(i)
  OBVIOUS
<1> HIDE DEF asked, window, kept
(* Pages before a page are newer than what it is asked up to. *)
<1>9. \A j \in 1..n : \A i \in 1..(j - 1) : \A t \in pages[i] : asked(j) < t
  <2> DEFINE Bad == {j \in 1..n : \E i \in 1..(j - 1) : \E t \in pages[i] : ~(asked(j) < t)}
  <2>1. SUFFICES ASSUME Bad # {} PROVE FALSE
    OBVIOUS
  <2>2. PICK j \in Bad : \A k \in Bad : j <= k
    <3>1. Bad \in SUBSET Nat
      <4>1. Bad \subseteq 1..n /\ 1..n \subseteq Nat
        OBVIOUS
      <4> QED BY <4>1
    <3> HIDE DEF Bad
    <3> QED BY <2>1, <3>1, NatLeast
  <2>3. PICK i \in 1..(j - 1) : \E t \in pages[i] : ~(asked(j) < t)
    OBVIOUS
  <2> PICK t \in pages[i] : ~(asked(j) < t)
    BY <2>3
  <2>4. j \in 1..n /\ j # 1 /\ j - 1 \in 1..n /\ ~(j <= j - 1)
    BY <2>3
  <2>5. i \in 1..n /\ (i = j - 1 \/ i \in 1..((j - 1) - 1))
    BY <2>3, <2>4
  <2>6. j - 1 \notin Bad
    BY <2>2, <2>4
  <2>7. CASE i = j - 1
    BY <1>3, <2>3, <2>4, <2>7
  <2>8. CASE i \in 1..((j - 1) - 1)
    <3>1. asked(j - 1) < t /\ t \in Int
      <4>1. asked(j - 1) < t
        BY <2>4, <2>6, <2>8
      <4> QED BY <1>1, <2>5, <4>1
    <3>2. PICK u \in pages[j - 1] : TRUE
      BY <1>3, <2>4
    <3>3. u \in Int /\ asked(j) < u /\ u <= asked(j - 1)
      BY <1>3, <2>4
    <3>4. asked(j) \in Int /\ asked(j - 1) \in Int
      BY <1>4, <2>4
    <3> HIDE DEF Bad
    <3> QED BY <3>1, <3>3, <3>4
  <2> QED BY <2>5, <2>7, <2>8
(* What is kept and newer than that is on one of them. *)
<1>10. \A t \in kept, j \in 1..n : asked(j) < t => \E i \in 1..(j - 1) : t \in pages[i]
  <2> SUFFICES ASSUME NEW t \in kept
               PROVE  \A j \in 1..n : asked(j) < t => \E i \in 1..(j - 1) : t \in pages[i]
    OBVIOUS
  <2> DEFINE Bad == {j \in 1..n : asked(j) < t /\ \A i \in 1..(j - 1) : t \notin pages[i]}
  <2>1. SUFFICES ASSUME Bad # {} PROVE FALSE
    OBVIOUS
  <2>2. PICK j \in Bad : \A k \in Bad : j <= k
    <3>1. Bad \in SUBSET Nat
      <4>1. Bad \subseteq 1..n /\ 1..n \subseteq Nat
        OBVIOUS
      <4> QED BY <4>1
    <3> HIDE DEF Bad
    <3> QED BY <2>1, <3>1, NatLeast
  <2>3. j \in 1..n /\ asked(j) < t /\ \A i \in 1..(j - 1) : t \notin pages[i]
    OBVIOUS
  <2>4. j # 1
    <3>1. asked(1) = until
      BY DEF asked, AskedUntil
    <3> QED BY <1>6, <2>3, <3>1
  <2>5. j - 1 \in 1..n /\ ~(j <= j - 1) /\ j - 1 \in 1..(j - 1)
    BY <2>3, <2>4
  <2>6. j - 1 \notin Bad
    BY <2>2, <2>5
  <2>7. ~(asked(j - 1) < t)
    <3>1. \A i \in 1..((j - 1) - 1) : i \in 1..(j - 1)
      BY <2>5
    <3> QED BY <2>3, <2>5, <2>6, <3>1
  <2> HIDE DEF Bad
  <2>8. t \in window(j - 1)
    BY <1>4, <1>6, <1>7, <2>5, <2>7
  <2>9. t \notin pages[j - 1]
    BY <2>3, <2>5
  <2>10. /\ Oldest(pages[j - 1]) \in pages[j - 1] /\ Oldest(pages[j - 1]) \in Int
         /\ asked(j) = Oldest(pages[j - 1]) - 1
    BY <1>2, <1>3, <2>3, <2>4
  <2>11. t < Oldest(pages[j - 1])
    BY <1>5, <2>5, <2>8, <2>9, <2>10
  <2> QED BY <1>6, <2>3, <2>10, <2>11
<1>11. ASSUME NEW j \in 1..n, NEW i \in 1..(j - 1), NEW t \in pages[i], NEW u \in pages[j]
       PROVE  u < t
  <2>1. asked(j) < t /\ u <= asked(j) /\ i \in 1..n
    BY <1>1, <1>8, <1>9
  <2>2. t \in Int /\ u \in Int /\ asked(j) \in Int
    BY <1>1, <1>4, <2>1
  <2> QED BY <2>1, <2>2
<1>12. ASSUME NEW t \in kept, NEW i \in 1..n, asked(i) < t PROVE t \in shown
  BY <1>10, <1>12
<1>13. ASSUME NEW t \in kept, t \notin shown, NEW u \in shown PROVE t < u
  <2>1. PICK i \in 1..n : u \in pages[i]
    OBVIOUS
  <2>2. t \notin pages[i] /\ t <= asked(i)
    BY <1>4, <1>6, <1>12, <1>13
  <2> QED BY <1>5, <1>7, <2>1, <2>2
<1>14. ASSUME Answered(pages, tables, since, until, limit, n), ~HasMore(pages[n], since, limit),
              NEW t \in kept, t \notin shown
       PROVE  FALSE
  <2>1. n \in 1..n
    OBVIOUS
  <2>2. t \notin pages[n] /\ t \in window(n)
    BY <1>4, <1>6, <1>7, <1>12, <1>14, <2>1
  <2>3. pages[n] = NewestTimes(window(n), limit)
    BY <1>1, <1>14, <2>1
  <2>4. Cardinality(pages[n]) >= limit
    BY <1>1, <2>1, <2>2, <2>3, PageFull
  <2>5. pages[n] # {}
    BY <2>4, FS_EmptySet DEF PageConstants
  <2>6. Oldest(pages[n]) \in pages[n] /\ Oldest(pages[n]) \in Int /\ ~(Oldest(pages[n]) > since)
    BY <1>2, <1>14, <2>1, <2>4, <2>5 DEF HasMore
  <2>7. t < Oldest(pages[n])
    BY <1>5, <2>1, <2>2, <2>6
  <2> QED BY <1>6, <2>6, <2>7
<1>15. /\ \A j \in 1..n : \A i \in 1..(j - 1) : \A t \in pages[i], u \in pages[j] : u < t
       /\ \A t \in kept : t \in shown \/ \A u \in shown : t < u
       /\ Answered(pages, tables, since, until, limit, n) /\ ~HasMore(pages[n], since, limit)
            => kept \subseteq shown
  BY <1>11, <1>13, <1>14
<1> QED BY <1>15 DEF kept

-----------------------------------------------------------------------------
(* The tier. *)

LEMMA DivMonotone ==
  ASSUME NEW m \in Nat, NEW n \in Nat, m <= n, NEW d \in Nat \ {0}
  PROVE  m \div d <= n \div d
<1> DEFINE x == m \div d
           y == n \div d
<1>1. x \in Nat /\ y \in Nat /\ d * x <= m /\ n < d * (y + 1)
  BY Z3
<1>2. d * x < d * (y + 1)
  BY <1>1
<1>3. SUFFICES ASSUME x >= y + 1 PROVE FALSE
  BY <1>1
<1> HIDE DEF x, y
<1>4. d * (y + 1) <= d * x
  BY <1>1, <1>3, Z3
<1> QED BY <1>1, <1>2, <1>4

LEMMA ResolutionPositive ==
  ASSUME NEW tier, NEW poll \in Nat \ {0}
  PROVE  Resolution(tier, poll) \in Nat \ {0}
BY PageConstants DEF Resolution

LEMMA FitsShorter ==
  ASSUME NEW tier, NEW poll \in Int, NEW limit \in Nat, NEW m \in Nat, NEW n \in Nat, m <= n,
         Fits(tier, poll, n, limit)
  PROVE  Fits(tier, poll, m, limit)
<1> DEFINE step == Resolution(tier, IF poll < 1 THEN 1 ELSE poll)
<1>1. step \in Nat \ {0}
  BY ResolutionPositive
<1>2. n \div step + 1 <= limit
  BY DEF Fits
<1> HIDE DEF step
<1>3. m \div step <= n \div step /\ m \div step \in Int /\ n \div step \in Int
  BY <1>1, DivMonotone
<1>4. m \div step + 1 <= limit
  BY <1>2, <1>3
<1> QED BY <1>4 DEF Fits, step

LEMMA EnabledTiers ==
  ASSUME NEW ladder \in Laddered
  PROVE  /\ Enabled(ladder) \subseteq 1..4
         /\ Enabled(ladder) # {}
BY DEF Enabled, Raw, Rollup, Rollup5m, Rollup1h

LEMMA LeastTier ==
  ASSUME NEW S \in SUBSET (1..4), S # {}
  PROVE  Finest(S) \in S /\ \A t \in S : Finest(S) <= t
<1>1. \E t \in S : \A u \in S : t <= u
  <2>1. CASE 1 \in S BY <2>1
  <2>2. CASE 1 \notin S /\ 2 \in S BY <2>2
  <2>3. CASE 1 \notin S /\ 2 \notin S /\ 3 \in S BY <2>3
  <2>4. CASE 1 \notin S /\ 2 \notin S /\ 3 \notin S /\ 4 \in S BY <2>4
  <2>5. PICK n \in S : n \in 1..4
    OBVIOUS
  <2>6. n = 1 \/ n = 2 \/ n = 3 \/ n = 4
    BY <2>5
  <2> QED BY <2>1, <2>2, <2>3, <2>4, <2>5, <2>6
<1> QED BY <1>1 DEF Finest

LEMMA GreatestTier ==
  ASSUME NEW S \in SUBSET (1..4), S # {}
  PROVE  Coarsest(S) \in S /\ \A t \in S : t <= Coarsest(S)
<1>1. \E t \in S : \A u \in S : u <= t
  <2>1. CASE 4 \in S BY <2>1
  <2>2. CASE 4 \notin S /\ 3 \in S BY <2>2
  <2>3. CASE 4 \notin S /\ 3 \notin S /\ 2 \in S BY <2>3
  <2>4. CASE 4 \notin S /\ 3 \notin S /\ 2 \notin S /\ 1 \in S BY <2>4
  <2>5. PICK n \in S : n \in 1..4
    OBVIOUS
  <2>6. n = 1 \/ n = 2 \/ n = 3 \/ n = 4
    BY <2>5
  <2> QED BY <2>1, <2>2, <2>3, <2>4, <2>5, <2>6
<1> QED BY <1>1 DEF Coarsest

LEMMA KeepDaysNat ==
  ASSUME NEW ladder \in Laddered, NEW tier
  PROVE  KeepDays(ladder, tier) * DayLength \in Nat /\ KeepDays(ladder, tier) \in Nat
<1>1. KeepDays(ladder, tier) \in Nat
  BY DEF KeepDays, Laddered, Toggled
<1>2. DayLength \in Nat
  BY PageConstants
<1> QED BY <1>1, <1>2

LEMMA HoldsLater ==
  ASSUME NEW ladder \in Laddered, NEW now \in Int, NEW early \in Int, NEW late \in Int,
         early <= late
  PROVE  Holding(ladder, early, now) \subseteq Holding(ladder, late, now)
<1> SUFFICES ASSUME NEW t \in Enabled(ladder), HoldsStart(ladder, t, early, now)
             PROVE  HoldsStart(ladder, t, late, now)
  BY DEF Holding
<1> DEFINE kept == KeepDays(ladder, t) * DayLength
<1>1. kept \in Nat BY KeepDaysNat
<1>2. CASE t = Rollup1h /\ ladder.l4.keep = 0
  BY <1>2 DEF HoldsStart
<1>3. CASE early >= now - kept
  <2> HIDE DEF kept
  <2>1. late >= now - kept BY <1>1, <1>3
  <2> QED BY <2>1 DEF HoldsStart, kept
<1> QED BY <1>2, <1>3 DEF HoldsStart

(* If any tier holds a start, then so does the one that keeps longest. *)
LEMMA CoarsestHolds ==
  ASSUME NEW ladder \in Laddered, CoarsestKeepsLongest(ladder), NEW now \in Int,
         NEW since \in Int, Holding(ladder, since, now) # {}
  PROVE  Coarsest(Enabled(ladder)) \in Holding(ladder, since, now)
<1> DEFINE c == Coarsest(Enabled(ladder))
<1>1. c \in Enabled(ladder)
  BY EnabledTiers, GreatestTier
<1>2. PICK t \in Enabled(ladder) : HoldsStart(ladder, t, since, now)
  BY DEF Holding
<1>3. CASE c = Rollup1h /\ ladder.l4.keep = 0
  BY <1>1, <1>3 DEF Holding, HoldsStart
<1>4. CASE /\ \A u \in Enabled(ladder) : KeepDays(ladder, u) <= KeepDays(ladder, c)
           /\ ~(c = Rollup1h /\ ladder.l4.keep = 0)
  <2>1. CASE t = Rollup1h /\ ladder.l4.keep = 0
    <3>1. t <= c /\ c \in 1..4
      BY <1>1, EnabledTiers, GreatestTier
    <3>2. c = Rollup1h
      BY <2>1, <3>1 DEF Rollup1h
    <3> QED BY <1>4, <2>1, <3>2
  <2>2. CASE since >= now - KeepDays(ladder, t) * DayLength
    <3> DEFINE k == KeepDays(ladder, t)
               l == KeepDays(ladder, c)
    <3>1. k \in Nat /\ l \in Nat /\ k <= l /\ DayLength \in Nat
      BY <1>4, KeepDaysNat, PageConstants
    <3>2. since >= now - k * DayLength
      BY <2>2
    <3> HIDE DEF k, l
    <3>3. k * DayLength <= l * DayLength /\ k * DayLength \in Nat /\ l * DayLength \in Nat
      BY <3>1, Z3
    <3>4. since >= now - l * DayLength
      BY <3>2, <3>3
    <3> QED BY <1>1, <3>4 DEF Holding, HoldsStart, l
  <2> QED BY <1>2, <2>1, <2>2 DEF HoldsStart
<1> QED BY <1>3, <1>4 DEF CoarsestKeepsLongest

(* Zooming out never answers from a finer tier: of two windows with the same end, the longer
   one is answered from the same tier or a coarser one, where the coarsest tier keeps longest
   (resolve_history_point_source_with_poll). *)
THEOREM ZoomingOutNeverFiner ==
  ASSUME NEW ladder \in Laddered, CoarsestKeepsLongest(ladder), NEW poll \in Int,
         NEW now \in Int, NEW until \in Int, NEW limit \in Nat,
         NEW early \in Int, NEW late \in Int, early <= late
  PROVE  AutoTier(ladder, poll, now, late, until, limit) <= AutoTier(ladder, poll, now, early, until, limit)
<1> DEFINE H(since) == Holding(ladder, since, now)
           F(since) == {t \in H(since) : Fits(t, poll, Length(since, until), limit)}
           A(since) == AutoTier(ladder, poll, now, since, until, limit)
           c == Coarsest(Enabled(ladder))
<1>1. /\ c \in Enabled(ladder) /\ c \in 1..4
      /\ \A t \in Enabled(ladder) : t <= c
  BY EnabledTiers, GreatestTier
<1>2. \A since \in Int : H(since) \subseteq Enabled(ladder) /\ F(since) \subseteq H(since)
  BY DEF Holding
<1>3. H(early) \subseteq H(late)
  BY HoldsLater
<1>4. F(early) \subseteq F(late)
  <2>1. Length(late, until) \in Nat /\ Length(early, until) \in Nat
        /\ Length(late, until) <= Length(early, until)
    BY DEF Length
  <2>2. SUFFICES ASSUME NEW t \in F(early) PROVE t \in F(late)
    OBVIOUS
  <2>3. t \in H(late) /\ Fits(t, poll, Length(early, until), limit)
    BY <1>3
  <2>4. Fits(t, poll, Length(late, until), limit)
    BY <2>1, <2>3, FitsShorter
  <2> QED BY <2>3, <2>4
<1>5. \A since \in Int :
        A(since) = IF F(since) # {} THEN Finest(F(since))
                   ELSE IF H(since) # {} THEN Coarsest(H(since))
                   ELSE IF ladder.queryable THEN Archived ELSE c
  BY DEF AutoTier
<1>6. Enabled(ladder) \subseteq 1..4
  BY EnabledTiers
<1>7. \A since \in Int : H(since) # {} => Coarsest(H(since)) = c
  <2> SUFFICES ASSUME NEW since \in Int, H(since) # {} PROVE Coarsest(H(since)) = c
    OBVIOUS
  <2>1. c \in H(since)
    BY CoarsestHolds
  <2>2. Coarsest(H(since)) \in H(since) /\ c <= Coarsest(H(since))
    BY <1>2, <1>6, <2>1, GreatestTier
  <2>3. Coarsest(H(since)) \in Enabled(ladder)
    BY <1>2, <2>2
  <2>4. Coarsest(H(since)) <= c /\ Coarsest(H(since)) \in 1..4
    BY <1>1, <1>6, <2>3
  <2> QED BY <1>1, <2>2, <2>4
<1> HIDE DEF H, F, A, c
<1>8. CASE F(early) # {}
  <2>1. /\ Finest(F(early)) \in F(early) /\ F(late) # {}
        /\ \A t \in F(late) : Finest(F(late)) <= t
    BY <1>2, <1>4, <1>6, <1>8, LeastTier
  <2> QED BY <1>4, <1>5, <1>8, <2>1 DEF A
<1>9. CASE F(early) = {}
  <2>1. A(early) = c \/ (A(early) = Archived /\ ladder.queryable)
    BY <1>5, <1>7, <1>9
  <2>2. A(late) \in Enabled(ladder) \/ A(late) = c \/ (A(late) = Archived /\ ladder.queryable /\ H(late) = {})
    <3>1. CASE F(late) # {}
      <4>1. Finest(F(late)) \in F(late)
        BY <1>2, <1>6, <3>1, LeastTier
      <4> QED BY <1>2, <1>5, <3>1, <4>1
    <3>2. CASE F(late) = {}
      BY <1>5, <1>7, <3>2
    <3> QED BY <3>1, <3>2
  <2>3. CASE A(late) = Archived /\ ladder.queryable /\ H(late) = {}
    <3>1. H(early) = {}
      BY <1>3, <2>3
    <3>2. A(early) = Archived
      BY <1>5, <1>9, <2>3, <3>1
    <3> QED BY <2>3, <3>2 DEF A, Archived
  <2>4. CASE A(late) \in Enabled(ladder) \/ A(late) = c
    <3>1. A(late) <= c /\ A(late) \in 1..4
      BY <1>1, <1>6, <2>4
    <3>2. A(early) \in Int /\ c <= A(early)
      BY <1>1, <2>1 DEF Archived
    <3> QED BY <1>1, <3>1, <3>2 DEF A
  <2> QED BY <2>2, <2>3, <2>4
<1> QED BY <1>8, <1>9
=============================================================================
