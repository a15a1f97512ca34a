-------------------------- MODULE MigrationProofs --------------------------
(***************************************************************************)
(* Proofs about opening a history file of any version (Migration), for     *)
(* every file that OldFiles admits, any number of starters and any stops.  *)
(*                                                                         *)
(* The invariant has four layers.  CoreInv: what a starter has left to do  *)
(* fits the version, the tables are those of the version, and the markers  *)
(* are those of the steps that led to it.  PayloadInv: what a rebuild will *)
(* drop is in the copy.  RowInv: rows and stored lists are the same, the   *)
(* rows of an unranked list have all got ranks or none.  Mounts: the       *)
(* events are those that the rows of mounts give.                          *)
(***************************************************************************)
EXTENDS Migration, FiniteSetTheorems, SequenceTheorems, TLAPS

-----------------------------------------------------------------------------
(* The invariant. *)

Fields == {"version", "tables", "samples", "mounts", "events", "commands", "rows", "log", "pending"}
Same(fields) == \A x \in fields : file'[x] = file[x]
Rest == <<preImage, aside, payloads, captures, from, stops>>

StepNames == {"copy", "rebuild", "rebuildEmpty", "complete", "v1", "v2", "v3", "v4", "v5", "apply"}

Follows(step, next) ==
  <<step, next>> \in {<<"copy", "rebuild">>, <<"rebuild", "complete">>, <<"complete", "v1">>,
    <<"rebuildEmpty", "v1">>, <<"v1", "v2">>, <<"v2", "v3">>, <<"v3", "v4">>, <<"v4", "v5">>,
    <<"v5", "complete">>, <<"apply", "complete">>}

\* What the plans leave to do.  The completion is the last step, or that of the rebuild.
Todos ==
  {t \in Seq(StepNames) :
     /\ Len(t) >= 1 /\ t[Len(t)] \in {"apply", "complete", "v5"}
     /\ \A i \in 1..(Len(t) - 1) :
          /\ Follows(t[i], t[i + 1])
          /\ t[i + 1] = "complete" => (i + 1 = Len(t) <=> t[i] \in {"v5", "apply"})}

StarterState ==
  [at : {"off", "runs"}] \cup [at : {"opens"}, todo : Todos]
    \cup [at : {"refused"}, why : {"copy", "room", "payload", "changed", "oversize"}]

\* The versions at which a starter may have this to do.
Versions(todo) ==
  LET step == Head(todo)
  IN IF step \in {"copy", "rebuild", "rebuildEmpty"} THEN {0}
     ELSE IF step = "complete" THEN IF Len(todo) = 1 THEN {6} ELSE {1}
     ELSE IF step = "v1" THEN {1} ELSE IF step = "v2" THEN {2} ELSE IF step = "v3" THEN {3}
     ELSE IF step = "v4" THEN {4} ELSE IF step = "v5" THEN {5, 6} ELSE {0, 6}

Fits(todo, version, pending, old) ==
  /\ version \in Versions(todo)
  /\ Head(todo) \in {"copy", "rebuild", "rebuildEmpty"} => old = 0
  /\ Head(todo) = "apply" /\ version = 0 => old = 6
  /\ Head(todo) = "v1" => pending # "open"

Typed ==
  /\ DOMAIN file = Fields /\ file.version \in 0..6 /\ from \in 0..6
  /\ starter \in [Starter -> StarterState] /\ stops \in 0..MaxStops

\* Only from v5 on do two open the file.
Starters ==
  /\ \A p \in Starter : starter[p].at = "opens" => Fits(starter[p].todo, file.version, file.pending, from)
  /\ file.version \notin {5, 6} =>
       \A p, q \in Starter : starter[p].at = "opens" /\ starter[q].at = "opens" => p = q
  /\ \A p \in Starter : starter[p].at = "runs" => file.version = 6

Tables ==
  /\ IF file.version = 0 THEN IF from = 0 THEN Legacy(file.tables) ELSE DOMAIN file.tables = {}
     ELSE \/ file.tables = Schema[file.version]
          \/ file.version = 5 /\ from = 5 /\ ~Recognised
  /\ IF from = 6 THEN file.version \in {0, 6} ELSE from <= file.version
  /\ file.version = 0 => from \in {0, 6}

First == IF from = 0 THEN 1 ELSE from

\* One marker for each step that was done, after that of the completion.
Log ==
  /\ file.log \in Seq(Nat) /\ file.pending \in {"none", "open", "done"}
  /\ file.version = 0 => file.pending = "none" /\ file.log = <<>>
  /\ file.pending # "none" => from = 0
  /\ file.pending = "open" => file.version = 1
  /\ file.version >= 1 =>
       LET zeros == IF file.pending = "done" THEN 1 ELSE 0
       IN /\ Len(file.log) = zeros + file.version - First
          /\ \A i \in 1..Len(file.log) : file.log[i] = (IF i <= zeros THEN 0 ELSE First + i - zeros - 1)

Refusals ==
  \A p \in Starter : starter[p].at = "refused" /\ starter[p].why = "changed" =>
    file.version = 5 /\ ~Recognised

SampleType == [at : Time, payload : Payload \cup {"none"}, typed : Payload \cup {"none"}]

Samples ==
  /\ file.samples \subseteq SampleType /\ payloads \subseteq [at : Time, payload : Payload]
  /\ file.version < 3 => \A s \in file.samples : s.typed = "none"
  /\ DOMAIN preImage = {"samples", "state"} /\ preImage.state \in {"none", "partial", "full"}
  /\ preImage.state # "full" => preImage.samples = {}

InFile(l) == \E s \in file.samples : s.at = l.at /\ l.payload \in {s.payload, s.typed}
InCopy(l) == \E s \in aside \cup preImage.samples : s.at = l.at /\ s.payload = l.payload

\* What a rebuild drops is in the copy that was made before it.
Copied ==
  \A p \in Starter :
    starter[p].at = "opens" =>
      /\ Head(starter[p].todo) = "rebuild" =>
           \A s \in file.samples : s.at >= KeepFrom \/ s.payload = "none" \/ InCopy(s)
      /\ Head(starter[p].todo) = "rebuildEmpty" => \A s \in file.samples : s.at >= KeepFrom

Kept ==
  \A l \in payloads :
    /\ \E s \in file.samples : s.at = l.at
    /\ InFile(l) \/ InCopy(l)
    /\ l.at >= KeepFrom => InFile(l)

-----------------------------------------------------------------------------
IsDictionary(commands) ==
  /\ \E n \in Nat : DOMAIN commands = 1..n
  /\ \A i, j \in DOMAIN commands : commands[i] = commands[j] => i = j

RowFields == {"table", "at", "rank", "command", "started", "cpu", "memory"}

\* A list by CPU alone has no ranks, one of two lists has some.
IsCapture(c) ==
  /\ Len(c.list) \in Nat /\ DOMAIN c.list = 1..Len(c.list)
  /\ \A i \in DOMAIN c.list : c.list[i].started \in {"text", "junk", "ms", "none"}
  /\ IF c.ranked THEN \E i \in DOMAIN c.list : c.list[i].cpu # 0 \/ c.list[i].memory # 0
     ELSE \A i \in DOMAIN c.list : c.list[i].cpu = 0 /\ c.list[i].memory = 0

Captures ==
  /\ IsFiniteSet(captures) /\ \A c \in captures : IsCapture(c)
  /\ \A c, d \in captures : c.table = d.table /\ c.at = d.at => c = d
  /\ file.version < 6 => \A c \in captures : ~c.ranked
  /\ file.version < 4 => \A c \in captures : \A i \in DOMAIN c.list : c.list[i].started # "ms"
  /\ file.version = 0 /\ from = 6 => captures = {}

Name(r) == IF file.version >= 2 THEN file.commands[r.command] ELSE r.command
Converted(start) == IF start = "text" THEN "ms" ELSE IF start = "junk" THEN "none" ELSE start
Start(start) == IF file.version >= 4 THEN Converted(start) ELSE start

OfCapture(r, c) == r.table = c.table /\ r.at = c.at

\* A row is the entry at its rank of a capture.
Tells(r, c) ==
  /\ r.rank \in DOMAIN c.list
  /\ Name(r) = c.list[r.rank].command /\ r.started = Start(c.list[r.rank].started)
  /\ IF c.ranked THEN r.cpu = c.list[r.rank].cpu /\ r.memory = c.list[r.rank].memory
     ELSE r.cpu \in {0, r.rank} /\ r.memory = 0

RowsTell ==
  /\ IsFiniteSet(file.rows) /\ IsDictionary(file.commands)
  /\ \A r \in file.rows : DOMAIN r = RowFields /\ (file.version >= 2 => r.command \in DOMAIN file.commands)
  /\ \A r \in file.rows : \E c \in captures : OfCapture(r, c) /\ Tells(r, c)
  /\ \A c \in captures : \A i \in DOMAIN c.list : \E r \in file.rows : OfCapture(r, c) /\ r.rank = i
  /\ \A r, q \in file.rows : r.table = q.table /\ r.at = q.at =>
       (r.rank = q.rank => r = q)
  /\ file.version < 6 => \A r \in file.rows : r.cpu = 0
  \* All rows of a capture without ranks have got theirs, or none.
  /\ \A c \in captures : ~c.ranked =>
       \/ \A r \in file.rows : OfCapture(r, c) => r.cpu = 0
       \/ \A r \in file.rows : OfCapture(r, c) => r.cpu = r.rank

Oversized ==
  \A p \in Starter : starter[p].at = "refused" /\ starter[p].why = "oversize" =>
    \E c \in captures : ~c.ranked /\ Len(c.list) > MaxListed

Mounts ==
  /\ IsFiniteSet(file.mounts)
  /\ \A r \in file.mounts : r = [at |-> r.at, mount |-> r.mount] /\ r.at \in Time
  /\ file.version = 0 /\ from = 6 => file.mounts = {}
  /\ file.version >= 3 => file.mounts = {} \/ file.events = MountEvents
-----------------------------------------------------------------------------
(* Schemas. *)

TablesOf(v) ==
  {"metric_rollups_1m", "metric_rollups_5m", "metric_rollups_1h", "app_settings", "history_state",
   "fs_samples", "metric_samples", "process_samples", "app_events"}
    \cup (IF v >= 2 THEN {"process_commands", "process_samples_fast"} ELSE {})
    \cup (IF v >= 3 THEN {"host_identity", "fs_mount_events"} ELSE {})
    \cup (IF v >= 4 THEN {"gpu_adapters", "gpu_samples"} ELSE {})
    \cup (IF v >= 5 THEN {"sensor_dim", "sensor_samples"} ELSE {})

ListOf(v) ==
  IF v = 1 THEN {"command", "started_at"}
  ELSE IF v \in {2, 3} THEN {"command_id", "started_at"}
  ELSE IF v \in {4, 5} THEN ListV4 ELSE ListV6

\* What a table of a file of version v has.
ColumnsOf(v, t) ==
  IF t \in {"metric_rollups_1m", "metric_rollups_5m", "metric_rollups_1h"} THEN {"bounds"}
  ELSE IF t = "metric_samples" THEN IF v < 3 THEN {"json"} ELSE {"identity_id"}
  ELSE IF t = "process_samples" THEN ListOf(v)
  ELSE IF t = "process_samples_fast" THEN IF v < 4 THEN FastV2.process_samples_fast ELSE ListOf(v)
  ELSE {}

Flat(v) == [t \in TablesOf(v) |-> ColumnsOf(v, t)]

(* The schemas without their groups. *)
LEMMA FlatSchemas ==
  /\ SchemaV1 = Flat(1) /\ SchemaV2 = Flat(2) /\ SchemaV3 = Flat(3)
  /\ SchemaV4 = Flat(4) /\ SchemaV5 = Flat(5) /\ SchemaV6 = Flat(6)
<1> USE DEF Flat, TablesOf, ColumnsOf, ListOf, Columns, BaseTables, HeadV2, CommandsV2, MinuteV2,
            Events, FastV2
<1>1. SchemaV1 = Flat(1)
  BY DEF SchemaV1
<1>2. SchemaV2 = Flat(2)
  BY DEF SchemaV2
<1>3. SchemaV3 = Flat(3)
  BY <1>2 DEF SchemaV3, HeadV3
<1>4. SchemaV4 = Flat(4)
  BY DEF SchemaV4, HeadV3, FastV4, MinuteV4, GpusV4
<1>5. SchemaV5 = Flat(5)
  BY DEF SchemaV5, HeadV3, FastV4, MinuteV4, GpusV4, SensorsV5
<1>6. SchemaV6 = Flat(6)
  BY DEF SchemaV6, HeadV3, FastV6, MinuteV6, GpusV4, SensorsV5
<1> QED BY <1>1, <1>2, <1>3, <1>4, <1>5, <1>6

(* Each step leaves the tables of a file that was created at the next version. *)
LEMMA StepsReachSchemas ==
  /\ Columns(MinuteV2, Columns(SchemaV1, Columns(CommandsV2, FastV2))) = SchemaV2
  /\ Columns(HeadV3, SchemaV2) = SchemaV3
  /\ Columns(FastV4, Columns(MinuteV4, Columns(SchemaV3, GpusV4))) = SchemaV4
  /\ Columns(SchemaV4, Columns(SensorsV5, Events)) = SchemaV5
  /\ Columns(FastV6, Columns(MinuteV6, SchemaV5)) = SchemaV6
  /\ Columns(SchemaV6, SchemaV6) = SchemaV6
<1> USE FlatSchemas DEF Flat, TablesOf, ColumnsOf, ListOf, Columns
<1>1. Columns(MinuteV2, Columns(SchemaV1, Columns(CommandsV2, FastV2))) = SchemaV2
  BY DEF MinuteV2, CommandsV2, FastV2
<1>2. Columns(HeadV3, SchemaV2) = SchemaV3
  BY DEF SchemaV3
<1>3. Columns(FastV4, Columns(MinuteV4, Columns(SchemaV3, GpusV4))) = SchemaV4
  BY DEF FastV4, MinuteV4, GpusV4
<1>4. Columns(SchemaV4, Columns(SensorsV5, Events)) = SchemaV5
  BY DEF SensorsV5, Events
<1>5. Columns(FastV6, Columns(MinuteV6, SchemaV5)) = SchemaV6
  BY DEF FastV6, MinuteV6
<1>6. Columns(SchemaV6, SchemaV6) = SchemaV6
  OBVIOUS
<1> QED BY <1>1, <1>2, <1>3, <1>4, <1>5, <1>6

(* So does the rebuild of a legacy file, whichever tables it had, and the creation. *)
LEMMA RebuildReachesSchema ==
  ASSUME NEW tables, Legacy(tables)
  PROVE  [Columns(tables, SchemaV1) EXCEPT !.metric_rollups_1m = {"bounds"}] = SchemaV1
<1> DEFINE c == Columns(tables, SchemaV1)
<1>1. SchemaV1 = [t \in DOMAIN SchemaV1 |-> SchemaV1[t]] /\ "metric_rollups_1m" \in DOMAIN SchemaV1
      /\ SchemaV1["metric_rollups_1m"] = {"bounds"}
  BY FlatSchemas DEF Flat, TablesOf, ColumnsOf
<1>2. DOMAIN c = DOMAIN SchemaV1 /\ c = [t \in DOMAIN c |-> c[t]]
  BY DEF Legacy, Columns
<1>3. \A t \in DOMAIN SchemaV1 : t # "metric_rollups_1m" => c[t] = SchemaV1[t]
  BY DEF Legacy, Columns
<1> HIDE DEF c
<1>4. [c EXCEPT !.metric_rollups_1m = {"bounds"}] = SchemaV1
  BY <1>1, <1>2, <1>3
<1> QED BY <1>4 DEF c

\* A new file gets the current schema.
LEMMA CreationReachesSchema ==
  ASSUME NEW tables, DOMAIN tables = {}
  PROVE  Columns(tables, SchemaV6) = SchemaV6
BY FlatSchemas DEF Flat, Columns

\* The schemas by version, and what the proofs read of them.
LEMMA SchemaIs ==
  /\ Schema[1] = SchemaV1 /\ Schema[2] = SchemaV2 /\ Schema[3] = SchemaV3
  /\ Schema[4] = SchemaV4 /\ Schema[5] = SchemaV5 /\ Schema[6] = SchemaV6
  /\ SchemaV1["metric_samples"] = {"json"}
  /\ "process_samples_fast" \in DOMAIN SchemaV5 /\ "process_samples" \in DOMAIN SchemaV5
  /\ SchemaV5["process_samples_fast"] = ListV4 /\ SchemaV5["process_samples"] = ListV4
BY FlatSchemas DEF Schema, Flat, TablesOf, ColumnsOf, ListOf
-----------------------------------------------------------------------------
(* What is left to do. *)

(* Which step follows which, and which ones are the last. *)
LEMMA TodoSteps ==
  ASSUME NEW t \in Todos
  PROVE  /\ Head(t) \in StepNames /\ Len(t) \in Nat
         /\ Len(t) = 1 => Head(t) \in {"apply", "complete", "v5"}
         /\ Len(t) # 1 => /\ Tail(t) \in Todos /\ Follows(Head(t), Head(Tail(t)))
                          /\ Head(Tail(t)) = "complete" => (Len(Tail(t)) = 1 <=> Head(t) \in {"v5", "apply"})
<1>1. /\ t \in Seq(StepNames) /\ Len(t) \in Nat /\ Len(t) >= 1 /\ t[Len(t)] \in {"apply", "complete", "v5"}
      /\ \A i \in 1..(Len(t) - 1) :
           /\ Follows(t[i], t[i + 1])
           /\ t[i + 1] = "complete" => (i + 1 = Len(t) <=> t[i] \in {"v5", "apply"})
  BY DEF Todos
<1>0. t \in Seq(StepNames) /\ t # <<>>
  BY <1>1
<1>4. Len(t) \in Nat /\ Len(t) >= 1
  BY <1>1
<1>2. Head(t) = t[1] /\ Head(t) \in StepNames
  BY <1>0, <1>4
<1>3. ASSUME Len(t) # 1
      PROVE  /\ Tail(t) \in Todos /\ Follows(Head(t), Head(Tail(t)))
             /\ Head(Tail(t)) = "complete" => (Len(Tail(t)) = 1 <=> Head(t) \in {"v5", "apply"})
  <2> DEFINE u == Tail(t)
  <2>1. /\ u \in Seq(StepNames) /\ Len(u) = Len(t) - 1 /\ Len(u) >= 1
        /\ \A i \in 1..Len(u) : u[i] = t[i + 1]
    <3>1. Len(t) \in Nat /\ Len(t) >= 2
      BY <1>3, <1>4
    <3>2. u \in Seq(StepNames) /\ Len(u) = Len(t) - 1 /\ \A i \in 1..Len(u) : u[i] = t[i + 1]
      BY <1>0, HeadTailProperties
    <3> QED BY <3>1, <3>2
  <2> HIDE DEF u
  <2>2. Head(u) = t[2]
    BY <2>1
  <2>3. u[Len(u)] \in {"apply", "complete", "v5"}
    BY <1>1, <2>1
  <2>4. ASSUME NEW i \in 1..(Len(u) - 1)
        PROVE  /\ Follows(u[i], u[i + 1])
               /\ u[i + 1] = "complete" => (i + 1 = Len(u) <=> u[i] \in {"v5", "apply"})
    <3>1. u[i] = t[i + 1] /\ u[i + 1] = t[i + 2] /\ i + 1 \in 1..(Len(t) - 1)
      BY <1>1, <2>1
    <3> QED BY <1>1, <2>1, <3>1
  <2>5. u \in Todos
    BY <2>1, <2>3, <2>4 DEF Todos
  <2>6. 1 \in 1..(Len(t) - 1)
    <3>1. Len(t) \in Nat /\ Len(t) >= 2
      BY <1>3, <1>4
    <3> QED BY <3>1
  <2>7. /\ Follows(t[1], t[2])
        /\ t[2] = "complete" => (2 = Len(t) <=> t[1] \in {"v5", "apply"})
    <3>1. /\ Follows(t[1], t[1 + 1])
          /\ t[1 + 1] = "complete" => (1 + 1 = Len(t) <=> t[1] \in {"v5", "apply"})
      BY <1>1, <2>6
    <3> QED BY <3>1
  <2>8. Len(u) = 1 <=> 2 = Len(t)
    BY <1>1, <2>1
  <2>9. Follows(Head(t), Head(u)) /\ (Head(u) = "complete" => (Len(u) = 1 <=> Head(t) \in {"v5", "apply"}))
    BY <1>2, <2>2, <2>7, <2>8
  <2> QED BY <2>5, <2>9 DEF u
<1> QED BY <1>1, <1>2, <1>3

(* The steps of the versions. *)
LEMMA StepsAre ==
  /\ Steps \in Seq(StepNames) /\ Len(Steps) = 5
  /\ \A k \in 1..5 : Steps[k] \in {"v1", "v2", "v3", "v4", "v5"}
  /\ \A k \in 1..4 : Follows(Steps[k], Steps[k + 1])
  /\ Steps[1] = "v1" /\ Steps[2] = "v2" /\ Steps[3] = "v3" /\ Steps[4] = "v4" /\ Steps[5] = "v5"
BY DEF Steps, StepNames, Follows

\* The steps from a version on, and the completion.
LEMMA RestIsTodo ==
  ASSUME NEW v \in 2..5
  PROVE  StepsFrom(v) \o <<"complete">> \in Todos /\ Head(StepsFrom(v) \o <<"complete">>) = Steps[v]
<1> DEFINE s == StepsFrom(v)
           t == s \o <<"complete">>
<1>1. s \in Seq(StepNames) /\ Len(s) = 6 - v /\ \A i \in 1..Len(s) : s[i] = Steps[v + i - 1]
  <2>1. \A i \in v..5 : Steps[i] \in StepNames
    BY StepsAre DEF StepNames
  <2>2. /\ s \in Seq(StepNames) /\ Len(s) = IF v <= 5 THEN 5 - v + 1 ELSE 0
        /\ \A i \in 1..(5 - v + 1) : s[i] = Steps[v + i - 1]
    BY <2>1, SubSeqProperties DEF StepsFrom
  <2> QED BY <2>2
<1>2. <<"complete">> \in Seq(StepNames) /\ Len(<<"complete">>) = 1 /\ <<"complete">>[1] = "complete"
  BY DEF StepNames
<1> HIDE DEF s
<1>3. /\ t \in Seq(StepNames) /\ Len(t) = 7 - v /\ \A i \in 1..(6 - v) : t[i] = Steps[v + i - 1]
      /\ t[7 - v] = "complete"
  BY <1>1, <1>2
<1> HIDE DEF t
<1>4. ASSUME NEW i \in 1..(Len(t) - 1)
      PROVE  /\ Follows(t[i], t[i + 1])
             /\ t[i + 1] = "complete" => (i + 1 = Len(t) <=> t[i] \in {"v5", "apply"})
  <2>1. t[i] = Steps[v + i - 1] /\ v + i - 1 \in 1..5 /\ v + i \in Nat
    BY <1>3
  <2>2. CASE i = 6 - v
    <3>1. t[i] = "v5" /\ t[i + 1] = "complete" /\ i + 1 = Len(t)
      BY <1>3, <2>1, <2>2, StepsAre
    <3> QED BY <3>1 DEF Follows
  <2>3. CASE i # 6 - v
    <3>1. i + 1 \in 1..(6 - v) /\ v + i - 1 \in 1..4
      BY <1>3, <2>3
    <3>2. t[i + 1] = Steps[(v + i - 1) + 1]
      BY <1>3, <3>1
    <3>3. t[i + 1] # "complete"
      BY <3>1, <3>2, StepsAre
    <3> QED BY <2>1, <3>1, <3>2, <3>3, StepsAre
  <2> QED BY <2>2, <2>3
<1>5. Head(t) = Steps[v]
  BY <1>3
<1>6. t \in Todos
  BY <1>3, <1>4 DEF Todos
<1> QED BY <1>5, <1>6 DEF s, t

\* A beginning of a plan, all steps of the versions after it.
LEMMA BeginningIsTodo ==
  ASSUME NEW b \in {<<"complete">>, <<"rebuildEmpty">>, <<"copy", "rebuild", "complete">>}
  PROVE  b \o Steps \in Todos /\ Head(b \o Steps) = b[1] /\ Len(b \o Steps) # 1
<1> DEFINE t == b \o Steps
<1>1. /\ b \in Seq(StepNames) /\ Len(b) \in {1, 3} /\ b[Len(b)] \in {"complete", "rebuildEmpty"}
      /\ Len(b) = 3 => b[1] = "copy" /\ b[2] = "rebuild" /\ b[3] = "complete"
  BY DEF StepNames
<1>2. /\ t \in Seq(StepNames) /\ Len(t) = Len(b) + 5 /\ \A i \in 1..Len(b) : t[i] = b[i]
      /\ \A i \in 1..5 : t[Len(b) + i] = Steps[i]
  <2>1. Len(b) \in Nat
    BY <1>1
  <2>2. /\ t \in Seq(StepNames) /\ Len(t) = Len(b) + 5
        /\ \A i \in 1..(Len(b) + 5) : t[i] = IF i <= Len(b) THEN b[i] ELSE Steps[i - Len(b)]
    <3>1. Steps \in Seq(StepNames) /\ b \in Seq(StepNames)
      BY <1>1, StepsAre
    <3>3. Len(Steps) = 5
      BY StepsAre
    <3>2. /\ t \in Seq(StepNames) /\ Len(t) = Len(b) + Len(Steps)
          /\ \A i \in 1..(Len(b) + Len(Steps)) : t[i] = IF i <= Len(b) THEN b[i] ELSE Steps[i - Len(b)]
      BY <3>1, ConcatProperties
    <3> QED BY <3>2, <3>3
  <2>3. \A i \in 1..5 : Len(b) + i \in 1..(Len(b) + 5) /\ ~(Len(b) + i <= Len(b)) /\ Len(b) + i - Len(b) = i
    BY <2>1
  <2>4. \A i \in 1..Len(b) : i \in 1..(Len(b) + 5) /\ i <= Len(b)
    BY <2>1
  <2> QED BY <2>2, <2>3, <2>4
<1> HIDE DEF t
<1>3. ASSUME NEW i \in 1..(Len(t) - 1)
      PROVE  /\ Follows(t[i], t[i + 1])
             /\ t[i + 1] = "complete" => (i + 1 = Len(t) <=> t[i] \in {"v5", "apply"})
  <2>1. CASE i < Len(b)
    <3>1. Len(b) = 3 /\ i \in {1, 2} /\ i + 1 \in 1..Len(b) /\ i \in 1..Len(b)
      BY <1>1, <2>1
    <3>2. t[1] = "copy" /\ t[2] = "rebuild" /\ t[3] = "complete"
      BY <1>1, <1>2, <3>1
    <3> QED BY <1>2, <3>1, <3>2 DEF Follows
  <2>2. CASE i = Len(b)
    <3>1. t[i] \in {"complete", "rebuildEmpty"} /\ t[i + 1] = "v1"
      BY <1>1, <1>2, <2>2, StepsAre
    <3> QED BY <3>1 DEF Follows
  <2>3. CASE i > Len(b)
    <3> DEFINE k == i - Len(b)
    <3>1. k \in 1..4 /\ i = Len(b) + k /\ i + 1 = Len(b) + (k + 1) /\ k + 1 \in 1..5
      BY <1>1, <1>2, <2>3
    <3> HIDE DEF k
    <3>2. t[i] = Steps[k] /\ t[i + 1] = Steps[k + 1]
      BY <1>2, <3>1
    <3> QED BY <3>1, <3>2, StepsAre
  <2> QED BY <1>1, <2>1, <2>2, <2>3
<1>4. t[Len(t)] = "v5"
  BY <1>1, <1>2, StepsAre
<1>5. t \in Todos /\ Len(t) # 1
  BY <1>1, <1>2, <1>3, <1>4 DEF Todos
<1>6. Head(t) = b[1]
  BY <1>1, <1>2
<1> QED BY <1>5, <1>6 DEF t

(* A plan is one of them, and begins with a step that fits the file. *)
LEMMA PlanFits ==
  ASSUME Typed, Tables, Log
  PROVE  Plan \in Todos /\ Fits(Plan, file.version, file.pending, from)
<1>1. file.version \in 0..6
  BY DEF Typed
<1>2. CASE file.version = 6
  <2>1. Plan = <<"apply", "complete">>
    BY <1>2 DEF Plan, IsNew
  <2>2. <<"apply", "complete">> \in Todos /\ Head(<<"apply", "complete">>) = "apply"
    BY DEF Todos, StepNames, Follows
  <2> QED BY <1>2, <2>1, <2>2 DEF Fits, Versions
<1>3. CASE file.version \in 2..5
  <2>1. Plan = StepsFrom(file.version) \o <<"complete">>
    BY <1>3 DEF Plan, IsNew
  <2>2. Plan \in Todos /\ Head(Plan) = Steps[file.version]
    BY <1>3, <2>1, RestIsTodo
  <2> QED BY <1>3, <2>2, StepsAre DEF Fits, Versions
<1>4. CASE file.version = 1
  <2>1. Plan = <<"complete">> \o Steps
    BY <1>4 DEF Plan, IsNew
  <2>2. Plan \in Todos /\ Head(Plan) = "complete" /\ Len(Plan) # 1
    BY <2>1, BeginningIsTodo
  <2> QED BY <1>4, <2>2 DEF Fits, Versions
<1>5. CASE file.version = 0 /\ IsNew
  <2>1. Plan = <<"apply">>
    BY <1>5 DEF Plan
  <2>2. from = 6
    BY <1>5 DEF IsNew, Tables, Legacy
  <2>3. <<"apply">> \in Todos /\ Head(<<"apply">>) = "apply"
    BY DEF Todos, StepNames
  <2> QED BY <1>5, <2>1, <2>2, <2>3 DEF Fits, Versions
<1>6. CASE file.version = 0 /\ ~IsNew
  <2>1. from = 0
    BY <1>6 DEF IsNew, Tables
  <2>2. CASE file.samples = {}
    <3>1. Plan = <<"rebuildEmpty">> \o Steps
      BY <1>6, <2>2 DEF Plan
    <3>2. Plan \in Todos /\ Head(Plan) = "rebuildEmpty"
      BY <3>1, BeginningIsTodo
    <3> QED BY <1>6, <2>1, <3>2 DEF Fits, Versions
  <2>3. CASE file.samples # {}
    <3>1. Plan = <<"copy", "rebuild", "complete">> \o Steps
      BY <1>6, <2>3 DEF Plan
    <3>2. Plan \in Todos /\ Head(Plan) = "copy"
      BY <3>1, BeginningIsTodo
    <3> QED BY <1>6, <2>1, <3>2 DEF Fits, Versions
  <2> QED BY <2>2, <2>3
<1> QED BY <1>1, <1>2, <1>3, <1>4, <1>5, <1>6
-----------------------------------------------------------------------------
(* What each step leaves in the file. *)

\* AppliesSchema.
LEMMA ApplyEffect ==
  ASSUME DOMAIN file = Fields, NEW p, AppliesSchema(p)
  PROVE  /\ IsAt(p, "apply") /\ GoesOn(p) /\ UNCHANGED Rest /\ DOMAIN file' = Fields
         /\ file'.version = 6 /\ file'.tables = Columns(file.tables, SchemaV6)
         /\ Same({"samples", "mounts", "events", "commands", "rows", "log", "pending"})
BY DEF AppliesSchema, CommitsFile, Applied, Fields, Same, Rest

\* Rebuilds.
LEMMA RebuildEffect ==
  ASSUME DOMAIN file = Fields, NEW p, Rebuilds(p)
  PROVE  /\ \/ IsAt(p, "rebuild") /\ file'.pending = "open"
            \/ IsAt(p, "rebuildEmpty") /\ file'.pending = file.pending
         /\ GoesOn(p) /\ UNCHANGED Rest /\ DOMAIN file' = Fields /\ file'.version = 1
         /\ file'.tables = [Columns(file.tables, SchemaV1) EXCEPT !.metric_rollups_1m = {"bounds"}]
         /\ file'.samples = {[s EXCEPT !.payload = IF s.at >= KeepFrom THEN @ ELSE "none"] : s \in file.samples}
         /\ Same({"mounts", "events", "commands", "rows", "log"})
BY DEF Rebuilds, CommitsFile, Rebuilt, Fields, Same, Rest

\* CompletesPending.
LEMMA CompleteEffect ==
  ASSUME DOMAIN file = Fields, NEW p, CompletesPending(p)
  PROVE  /\ IsAt(p, "complete") /\ GoesOn(p) /\ UNCHANGED Rest /\ DOMAIN file' = Fields
         /\ file'.pending = IF file.pending = "open" THEN "done" ELSE file.pending
         /\ file'.log = IF file.pending = "open" /\ file.log = <<>> THEN <<0>> ELSE file.log
         /\ Same({"version", "tables", "samples", "mounts", "events", "commands", "rows"})
BY DEF CompletesPending, CommitsFile, Fields, Same, Rest

\* InternsCommands.
LEMMA InternEffect ==
  ASSUME DOMAIN file = Fields, NEW p, InternsCommands(p)
  PROVE  /\ IsAt(p, "v1") /\ GoesOn(p) /\ UNCHANGED Rest /\ DOMAIN file' = Fields
         /\ file'.version = 2 /\ file'.log = Append(file.log, 1)
         /\ file'.tables = Columns(MinuteV2, Columns(file.tables, Columns(CommandsV2, FastV2)))
         /\ file'.commands \in Interned(<<>>, {r.command : r \in file.rows})
         /\ file'.rows = {[r EXCEPT !.command = CommandId(file'.commands, @)] : r \in file.rows}
         /\ Same({"samples", "mounts", "events", "pending"})
BY DEF InternsCommands, CommitsFile, Fields, Same, Rest

\* TypesSamples.
LEMMA TypeEffect ==
  ASSUME DOMAIN file = Fields, NEW p, TypesSamples(p)
  PROVE  /\ IsAt(p, "v2") /\ GoesOn(p) /\ UNCHANGED Rest /\ DOMAIN file' = Fields
         /\ file'.version = 3 /\ file'.log = Append(file.log, 2)
         /\ file'.tables = Columns(HeadV3, file.tables)
         /\ file'.samples = {[s EXCEPT !.payload = "none", !.typed = s.payload] : s \in file.samples}
         /\ file'.events = MountEvents
         /\ Same({"mounts", "commands", "rows", "pending"})
BY DEF TypesSamples, CommitsFile, Fields, Same, Rest

\* And what it makes of mounts and leaves of lists.
LEMMA TypeKeeps ==
  ASSUME DOMAIN file = Fields, NEW p, TypesSamples(p)
  PROVE  /\ IsAt(p, "v2") /\ GoesOn(p) /\ UNCHANGED Rest /\ file'.version = 3
         /\ file'.events = MountEvents /\ Same({"mounts", "commands", "rows"})
BY DEF TypesSamples, CommitsFile, Fields, Same, Rest

\* ConvertsStartTimes.
LEMMA ConvertEffect ==
  ASSUME DOMAIN file = Fields, NEW p, ConvertsStartTimes(p)
  PROVE  /\ IsAt(p, "v3") /\ GoesOn(p) /\ UNCHANGED Rest /\ DOMAIN file' = Fields
         /\ file'.version = 4 /\ file'.log = Append(file.log, 3)
         /\ file'.tables = Columns(FastV4, Columns(MinuteV4, Columns(file.tables, GpusV4)))
         /\ file'.rows = {[r EXCEPT !.started = IF @ = "text" THEN "ms" ELSE "none"] : r \in file.rows}
         /\ Same({"samples", "mounts", "events", "commands", "pending"})
BY DEF ConvertsStartTimes, CommitsFile, Fields, Same, Rest

\* AddsSensors.
LEMMA SensorsEffect ==
  ASSUME DOMAIN file = Fields, NEW p, AddsSensors(p)
  PROVE  /\ IsAt(p, "v4") /\ GoesOn(p) /\ UNCHANGED Rest /\ DOMAIN file' = Fields
         /\ file'.version = 5 /\ file'.log = Append(file.log, 4)
         /\ file'.tables = Columns(file.tables, Columns(SensorsV5, Events))
         /\ Same({"samples", "mounts", "events", "commands", "rows", "pending"})
BY DEF AddsSensors, CommitsFile, Fields, Same, Rest

\* The last step adds ranks, finds them there, or is refused.
Ranks(p) ==
  /\ IsAt(p, "v5") /\ GoesOn(p) /\ UNCHANGED Rest /\ DOMAIN file' = Fields
  /\ file.version = 5 /\ Recognised /\ file'.version = 6 /\ file'.log = Append(file.log, 5)
  /\ file'.tables = Columns(FastV6, Columns(MinuteV6, file.tables))
  /\ file'.rows = {[r EXCEPT !.cpu = r.rank] : r \in file.rows}
  /\ Same({"samples", "mounts", "events", "commands", "pending"})

FindsRanks(p) ==
  /\ IsAt(p, "v5") /\ GoesOn(p) /\ UNCHANGED Rest /\ DOMAIN file' = Fields
  /\ file.version = 6 /\ file'.version = 6 /\ file'.tables = Columns(file.tables, SchemaV6)
  /\ Same({"samples", "mounts", "events", "commands", "rows", "log", "pending"})

\* AddsRanks does one of these.
LEMMA RanksEffect ==
  ASSUME DOMAIN file = Fields, NEW p, AddsRanks(p)
  PROVE  \/ Ranks(p) \/ FindsRanks(p)
         \/ IsAt(p, "v5") /\ file.version # 6 /\ ~(file.version = 5 /\ Recognised) /\ Refuses(p, "changed")
         \/ IsAt(p, "v5") /\ file.version = 5 /\ Oversize /\ Refuses(p, "oversize")
<1>1. CASE /\ file.version = 5 /\ Recognised /\ ~Oversize
           /\ CommitsFile(p, "v5",
                [file EXCEPT !.rows = {[r EXCEPT !.cpu = r.rank] : r \in @},
                   !.tables = Columns(FastV6, Columns(MinuteV6, @)),
                   !.log = Append(@, 5), !.version = 6])
  BY <1>1 DEF Ranks, CommitsFile, Fields, Same, Rest
<1>2. CASE file.version = 6 /\ CommitsFile(p, "v5", Applied)
  BY <1>2 DEF FindsRanks, CommitsFile, Applied, Fields, Same, Rest
<1> QED BY <1>1, <1>2 DEF AddsRanks

\* ClearsPayload.
LEMMA ClearEffect ==
  ASSUME DOMAIN file = Fields, ClearsPayload
  PROVE  /\ UNCHANGED <<preImage, aside, starter, captures, from, stops>> /\ DOMAIN file' = Fields
         /\ \E s \in file.samples :
              /\ s.payload \in Undecodable
              /\ file'.samples = (file.samples \ {s}) \cup {[s EXCEPT !.payload = "none"]}
              /\ payloads' = payloads \ {[at |-> s.at, payload |-> s.payload]}
         /\ Same(Fields \ {"samples"})
BY DEF ClearsPayload, Fields, Same

\* LegacyWrites.
LEMMA LegacyEffect ==
  ASSUME DOMAIN file = Fields, LegacyWrites
  PROVE  /\ UNCHANGED <<preImage, aside, starter, captures, from, stops>> /\ DOMAIN file' = Fields
         /\ from = 0 /\ file.version < 2
         /\ \E payload \in Payload \ Undecodable :
              /\ file'.samples = file.samples \cup {[at |-> LateTime, payload |-> payload, typed |-> "none"]}
              /\ payloads' = payloads \cup {[at |-> LateTime, payload |-> payload]}
         /\ Same(Fields \ {"samples"})
BY DEF LegacyWrites, Fields, Same

\* The rows of a list, with the ids of its commands or with the commands.
RowsOf(c, commands, ids) ==
  {Row(c, i, IF ids THEN CommandId(commands, c.list[i].command) ELSE c.list[i].command,
       c.list[i].started, c.list[i].cpu, c.list[i].memory) : i \in DOMAIN c.list}

\* StoresList, for the daemons of both kinds.
LEMMA StoreEffect ==
  ASSUME DOMAIN file = Fields, NEW c, StoresList(c)
  PROVE  /\ UNCHANGED <<preImage, aside, starter, payloads, from, stops>> /\ DOMAIN file' = Fields
         /\ \A d \in captures : d.at # c.at
         /\ captures' = captures \cup {c}
         /\ file'.commands \in Interned(file.commands, Named({c}))
         /\ file'.rows = file.rows \cup RowsOf(c, file'.commands, TRUE)
         /\ Same(Fields \ {"commands", "rows"})
<1>1. PICK commands \in Interned(file.commands, Named({c})) :
        file' = [file EXCEPT !.commands = commands, !.rows = @ \cup RowsOf(c, commands, TRUE)]
  <2> DEFINE Stored(commands) ==
               {Row(c, i, CommandId(commands, c.list[i].command), c.list[i].started, c.list[i].cpu,
                    c.list[i].memory) : i \in DOMAIN c.list}
  <2>1. \A commands : Stored(commands) = RowsOf(c, commands, TRUE)
    BY DEF RowsOf
  <2>2. \E commands \in Interned(file.commands, Named({c})) :
          file' = [file EXCEPT !.commands = commands, !.rows = @ \cup Stored(commands)]
    BY DEF StoresList, Rows
  <2> HIDE DEF Stored
  <2> QED BY <2>1, <2>2
<1>2. DOMAIN file' = Fields /\ Same(Fields \ {"commands", "rows"})
  BY <1>1 DEF Fields, Same
<1>3. file'.commands = commands /\ file'.rows = file.rows \cup RowsOf(c, commands, TRUE)
  BY <1>1 DEF Fields
<1> QED BY <1>1, <1>2, <1>3 DEF StoresList
-----------------------------------------------------------------------------
(* Starters. *)

\* What a step makes of the version and the record of an unfinished migration.
Advances(step) ==
  /\ step = "copy" => file'.version = file.version
  /\ step = "rebuild" => file'.version = 1
  /\ step = "rebuildEmpty" => file'.version = 1 /\ file'.pending # "open"
  /\ step = "complete" => file'.version = file.version /\ file'.pending # "open"
  /\ step = "v1" => file'.version = 2
  /\ step = "v2" => file'.version = 3
  /\ step = "v3" => file'.version = 4
  /\ step = "v4" => file'.version = 5
  /\ step \in {"v5", "apply"} => file'.version = 6

\* A starter at a step has a plan that begins with it.
LEMMA Opened ==
  ASSUME Typed, Starters, NEW p \in Starter, NEW step, IsAt(p, step)
  PROVE  /\ starter[p].todo \in Todos /\ starter[p].at = "opens" /\ Head(starter[p].todo) = step
         /\ Fits(starter[p].todo, file.version, file.pending, from)
<1>1. starter[p] \in StarterState /\ starter[p].at = "opens" /\ Head(starter[p].todo) = step
  BY DEF Typed, IsAt
<1>2. starter[p].todo \in Todos
  BY <1>1 DEF StarterState
<1> QED BY <1>1, <1>2 DEF Starters

(* A starter that goes on has next what fits the file, and so has any other one. *)
LEMMA CommitFits ==
  ASSUME Typed, Starters, NEW p \in Starter, NEW step, IsAt(p, step), GoesOn(p),
         UNCHANGED from, Advances(step), file'.version \in 0..6
  PROVE  starter' \in [Starter -> StarterState] /\ Starters'
<1> DEFINE t == starter[p].todo
           u == Tail(t)
           v == file.version
<1>1. t \in Todos /\ starter[p].at = "opens" /\ Head(t) = step /\ Fits(t, file.version, file.pending, from)
  BY Opened
<1>2. /\ starter'[p] = IF Len(t) = 1 THEN [at |-> "runs"] ELSE [at |-> "opens", todo |-> u]
      /\ DOMAIN starter' = Starter /\ starter' = [x \in Starter |-> starter'[x]]
      /\ \A q \in Starter : q # p => starter'[q] = starter[q]
  BY DEF GoesOn, Typed
<1>3. step \in StepNames /\ v \in Versions(t) /\ v \in 0..6
  BY <1>1, TodoSteps DEF Fits, Typed
<1>4. v \in {5, 6} => file'.version \in {5, 6} /\ (v = 6 => file'.version = 6)
  BY <1>1, <1>3 DEF Versions, Advances, StepNames
<1>5. ASSUME Len(t) = 1
      PROVE  file'.version = 6
  <2>1. step \in {"apply", "complete", "v5"}
    BY <1>1, <1>5, TodoSteps
  <2> QED BY <1>1, <1>3, <1>5, <2>1 DEF Versions, Advances
<1>6. ASSUME Len(t) # 1
      PROVE  u \in Todos /\ Fits(u, file'.version, file'.pending, from')
  <2>1. /\ u \in Todos /\ Follows(step, Head(u))
        /\ Head(u) = "complete" => (Len(u) = 1 <=> step \in {"v5", "apply"})
    BY <1>1, <1>6, TodoSteps
  <2>2. Fits(t, file.version, file.pending, from)
    BY <1>1
  <2> DEFINE k == Len(u)
             h == Head(u)
             w == file'.version
  <2> HIDE DEF k, u, h, w, t, v
  <2>3. /\ step = "copy" => v = 0 /\ from = 0
        /\ step = "complete" /\ Len(t) # 1 => v = 1
    BY <1>1, <2>2 DEF Fits, Versions, v
  <2>4. w \in IF h \in {"copy", "rebuild", "rebuildEmpty"} THEN {0}
              ELSE IF h = "complete" THEN IF k = 1 THEN {6} ELSE {1}
              ELSE IF h = "v1" THEN {1} ELSE IF h = "v2" THEN {2} ELSE IF h = "v3" THEN {3}
              ELSE IF h = "v4" THEN {4} ELSE IF h = "v5" THEN {5, 6} ELSE {0, 6}
    BY <1>6, <2>1, <2>3 DEF Follows, Advances, h, k, w, v
  <2>5. /\ h \in {"copy", "rebuild", "rebuildEmpty"} => from' = 0
        /\ ~(h = "apply")
        /\ h = "v1" => file'.pending # "open"
    BY <2>1, <2>3 DEF Follows, Advances, h
  <2> QED BY <2>1, <2>4, <2>5 DEF Fits, Versions, h, k, w
<1>7. starter' \in [Starter -> StarterState]
  <2>1. starter'[p] \in StarterState
    BY <1>2, <1>6 DEF StarterState
  <2>2. \A q \in Starter : starter'[q] \in StarterState
    BY <1>2, <2>1 DEF Typed
  <2> QED BY <1>2, <2>2
<1>8. ASSUME NEW q \in Starter, starter'[q].at = "opens"
      PROVE  Fits(starter'[q].todo, file'.version, file'.pending, from') /\ starter[q].at = "opens"
  <2>1. CASE q = p
    <3>1. Len(t) # 1
      BY <1>2, <1>8, <2>1
    <3>2. starter'[q].todo = u
      BY <1>2, <2>1, <3>1
    <3>3. Fits(u, file'.version, file'.pending, from')
      BY <1>6, <3>1
    <3> HIDE DEF u, t
    <3> QED BY <1>1, <2>1, <3>2, <3>3
  <2>2. CASE q # p
    <3>1. starter'[q] = starter[q] /\ starter[q].at = "opens"
      BY <1>2, <1>8, <2>2
    <3>2. v \in {5, 6} /\ Fits(starter[q].todo, file.version, file.pending, from)
      BY <1>1, <2>2, <3>1 DEF Starters
    <3> DEFINE k == starter[q].todo
    <3>3. v \in Versions(k)
      BY <3>2 DEF Fits
    <3>4. file'.version \in Versions(k) /\ Head(k) \notin {"copy", "rebuild", "rebuildEmpty", "v1"}
      BY <1>4, <3>2, <3>3 DEF Versions
    <3>5. file'.version # 0
      BY <1>4, <3>2
    <3>6. starter'[q].todo = k
      BY <3>1
    <3> HIDE DEF k
    <3>7. Fits(k, file'.version, file'.pending, from')
      BY <3>4, <3>5, <3>6 DEF Fits, k
    <3> QED BY <3>1, <3>6, <3>7 DEF Fits
  <2> QED BY <2>1, <2>2
<1>9. \A q \in Starter : starter'[q].at = "runs" => file'.version = 6
  <2>1. ASSUME NEW q \in Starter, q # p, starter'[q].at = "runs"
        PROVE  file'.version = 6
    BY <1>2, <1>4, <2>1 DEF Starters
  <2>2. starter'[p].at = "runs" => Len(t) = 1
    BY <1>2
  <2> QED BY <1>5, <2>1, <2>2
<1>10. file'.version \notin {5, 6} =>
         \A q, r \in Starter : starter'[q].at = "opens" /\ starter'[r].at = "opens" => q = r
  BY <1>4, <1>8 DEF Starters
<1> QED BY <1>7, <1>8, <1>9, <1>10 DEF Starters

\* Steps that change no starter but to one that neither opens nor runs.
LEMMA OthersFit ==
  ASSUME Typed, Starters, UNCHANGED from, file'.version = file.version, file'.pending = file.pending,
         starter' \in [Starter -> StarterState],
         \A q \in Starter : starter'[q] = starter[q] \/ starter'[q].at \in {"off", "refused"}
  PROVE  Starters'
<1>1. ASSUME NEW q \in Starter, starter'[q].at = "opens"
      PROVE  Fits(starter'[q].todo, file'.version, file'.pending, from') /\ starter[q].at = "opens"
  <2>1. starter'[q] = starter[q] /\ Fits(starter[q].todo, file.version, file.pending, from)
    BY <1>1 DEF Starters
  <2> QED BY <1>1, <2>1
<1>2. \A q \in Starter : starter'[q].at = "runs" => file'.version = 6
  BY DEF Starters
<1>3. file'.version \notin {5, 6} =>
        \A q, r \in Starter : starter'[q].at = "opens" /\ starter'[r].at = "opens" => q = r
  BY <1>1 DEF Starters
<1> QED BY <1>1, <1>2, <1>3 DEF Starters

\* A plan that is made fits the file it was made for.
LEMMA OpensFit ==
  ASSUME Typed, Starters, Tables, Log, NEW p \in Starter, Opens(p)
  PROVE  starter' \in [Starter -> StarterState] /\ Starters'
<1>1. Plan \in Todos /\ Fits(Plan, file.version, file.pending, from)
  BY PlanFits
<1>2. /\ starter'[p] = [at |-> "opens", todo |-> Plan]
      /\ DOMAIN starter' = Starter /\ starter' = [x \in Starter |-> starter'[x]]
      /\ \A q \in Starter : q # p => starter'[q] = starter[q]
      /\ UNCHANGED <<file, from>>
  BY DEF Opens, Typed
<1>3. starter' \in [Starter -> StarterState]
  <2>1. starter'[p] \in StarterState
    BY <1>1, <1>2 DEF StarterState
  <2>2. \A q \in Starter : starter'[q] \in StarterState
    BY <1>2, <2>1 DEF Typed
  <2> QED BY <1>2, <2>2
<1>4. ASSUME NEW q \in Starter, starter'[q].at = "opens"
      PROVE  Fits(starter'[q].todo, file'.version, file'.pending, from')
  <2>1. CASE q = p
    BY <1>1, <1>2, <2>1
  <2>2. CASE q # p
    BY <1>2, <1>4, <2>2 DEF Starters
  <2> QED BY <2>1, <2>2
<1>5. \A q \in Starter : starter'[q].at = "runs" => file'.version = 6
  BY <1>2 DEF Starters
<1>6. file'.version \notin {5, 6} =>
        \A q, r \in Starter : starter'[q].at = "opens" /\ starter'[r].at = "opens" => q = r
  <2>1. file.version \notin {5, 6} => \A q \in Starter : starter[q].at # "opens"
    BY DEF Opens
  <2> QED BY <1>2, <2>1
<1> QED BY <1>3, <1>4, <1>5, <1>6 DEF Starters
-----------------------------------------------------------------------------
(* Versions, tables and markers. *)

CoreInv == Typed /\ Starters /\ Tables /\ Log /\ Refusals

(* An old file as it is found. *)
LEMMA InitFile ==
  ASSUME MigrationInit
  PROVE  \E old \in OldFile :
         \E commands \in Interned(<<>>, IF old.version >= 2 THEN Named(old.captures) ELSE {}) :
           /\ DOMAIN file = Fields
           /\ file.version = old.version /\ file.tables = old.tables /\ file.samples = old.samples
           /\ file.mounts = old.mounts /\ file.events = old.events /\ file.commands = commands
           /\ file.rows = UNION {RowsOf(c, commands, old.version >= 2) : c \in old.captures}
           /\ file.log = <<>> /\ file.pending = "none" /\ captures = old.captures
BY DEF MigrationInit, Fields, Rows, RowsOf

\* The old files, as far as versions, tables and markers go.
LEMMA InitCore ==
  ASSUME MigrationInit
  PROVE  CoreInv
<1>1. PICK old \in OldFile :
        /\ DOMAIN file = Fields /\ file.version = old.version /\ file.tables = old.tables
        /\ file.log = <<>> /\ file.pending = "none"
  BY InitFile
<1>2. /\ starter = [p \in Starter |-> [at |-> "off"]] /\ stops = 0
      /\ from = IF file.version = 0 /\ "metric_samples" \notin DOMAIN file.tables THEN 6 ELSE file.version
  BY DEF MigrationInit, IsNew
<1>3. /\ old.version \in 0..5
      /\ old.version = 0 => DOMAIN old.tables = {} \/ Legacy(old.tables)
      /\ old.version \in 1..4 => old.tables = Schema[old.version]
      /\ old.version = 5 /\ old.tables # SchemaV5 =>
           \E t \in {"process_samples_fast", "process_samples"} :
             t \in DOMAIN old.tables => old.tables[t] # ListV4
  BY OldFiles
<1>4. Typed
  <2>1. [at |-> "off"] \in StarterState
    BY DEF StarterState
  <2>2. MaxStops \in Nat
    BY MigrationConstants DEF MigrationConstants
  <2>3. file.version \in 0..6 /\ from \in 0..6
    BY <1>1, <1>2, <1>3
  <2>4. 0 \in 0..MaxStops
    BY <2>2
  <2> QED BY <1>1, <1>2, <2>1, <2>3, <2>4 DEF Typed
<1>5. Starters
  BY <1>2 DEF Starters
<1>6. Tables
  <2>1. CASE old.version = 0
    BY <1>1, <1>2, <1>3, <2>1 DEF Tables, Legacy
  <2>2. CASE old.version # 0
    <3>1. from = file.version /\ file.version \in 1..5
      BY <1>1, <1>2, <1>3, <2>2
    <3>2. file.tables = Schema[file.version] \/ (file.version = 5 /\ ~Recognised)
      BY <1>1, <1>3, <3>1, SchemaIs DEF Recognised, Has
    <3> QED BY <3>1, <3>2 DEF Tables
  <2> QED BY <2>1, <2>2
<1>7. Log
  <2>1. <<>> \in Seq(Nat) /\ Len(<<>>) = 0
    BY EmptySeq
  <2>2. file.version \in 1..5 => First = file.version
    BY <1>2 DEF First
  <2>3. file.version \in 0..5
    BY <1>1, <1>3
  <2>4. file.version >= 1 => 0 + file.version - First = 0
    BY <2>2, <2>3
  <2> QED BY <1>1, <2>1, <2>4 DEF Log
<1>8. Refusals
  BY <1>2 DEF Refusals
<1> QED BY <1>4, <1>5, <1>6, <1>7, <1>8 DEF CoreInv

\* A commit where the tables are recognised leaves no refusal that says otherwise.
LEMMA CommitRefusals ==
  ASSUME Typed, Refusals, NEW p \in Starter, GoesOn(p), file.version # 5 \/ Recognised
  PROVE  Refusals'
<1>1. ~\E q \in Starter : starter[q].at = "refused" /\ starter[q].why = "changed"
  BY DEF Refusals
<1>2. /\ starter'[p].at # "refused" /\ \A q \in Starter : q # p => starter'[q] = starter[q]
  BY DEF GoesOn, Typed
<1> QED BY <1>1, <1>2 DEF Refusals

\* The markers where there is a file of a version.
Marked(log, zeros, first, version) ==
  /\ Len(log) = zeros + version - first
  /\ \A i \in 1..Len(log) : log[i] = (IF i <= zeros THEN 0 ELSE first + i - zeros - 1)

\* The next marker at the end of a log.
LEMMA MarkerFollows ==
  ASSUME NEW log \in Seq(Nat), NEW zeros \in Nat, NEW first \in Nat, NEW version \in Nat, first <= version,
         Marked(log, zeros, first, version)
  PROVE  Append(log, version) \in Seq(Nat) /\ Marked(Append(log, version), zeros, first, version + 1)
<1> DEFINE n == Len(log)
           l == Append(log, version)
<1>1. /\ l \in Seq(Nat) /\ Len(l) = n + 1 /\ l[n + 1] = version
      /\ \A i \in 1..n : l[i] = log[i]
  BY AppendProperties
<1>2. n = zeros + version - first /\ n \in Nat
      /\ \A i \in 1..n : log[i] = (IF i <= zeros THEN 0 ELSE first + i - zeros - 1)
  BY DEF Marked
<1> HIDE DEF l, n
<1>3. n + 1 = zeros + (version + 1) - first
  BY <1>2
<1>4. ASSUME NEW i \in 1..(n + 1)
      PROVE  l[i] = (IF i <= zeros THEN 0 ELSE first + i - zeros - 1)
  <2>1. CASE i \in 1..n
    BY <1>1, <1>2, <2>1
  <2>2. CASE i = n + 1
    <3>1. ~(i <= zeros) /\ first + i - zeros - 1 = version
      BY <1>2, <2>2
    <3> QED BY <1>1, <2>2, <3>1
  <2> QED BY <1>2, <2>1, <2>2
<1>5. l \in Seq(Nat) /\ Marked(l, zeros, first, version + 1)
  BY <1>1, <1>3, <1>4 DEF Marked
<1> QED BY <1>5 DEF l

\* A step between two versions records itself.
LEMMA LogGrows ==
  ASSUME Typed, Tables, Log, file.version \in 1..5, file.pending # "open",
         file'.version = file.version + 1, file'.log = Append(file.log, file.version),
         file'.pending = file.pending, UNCHANGED from
  PROVE  Log'
<1> DEFINE zeros == IF file.pending = "done" THEN 1 ELSE 0
<1>1. file.log \in Seq(Nat) /\ Marked(file.log, zeros, First, file.version)
  BY DEF Log, Marked
<1>2. zeros \in Nat /\ First \in Nat /\ First <= file.version /\ file.version \in Nat
  <2>1. First \in Nat
    BY DEF First, Typed
  <2>2. from <= file.version \/ from = 6
    BY DEF Tables
  <2>3. from # 6
    BY DEF Tables
  <2> QED BY <2>1, <2>2, <2>3 DEF First
<1> HIDE DEF zeros
<1>3. Append(file.log, file.version) \in Seq(Nat)
      /\ Marked(Append(file.log, file.version), zeros, First, file.version + 1)
  BY <1>1, <1>2, MarkerFollows
<1>4. file'.log \in Seq(Nat) /\ Marked(file'.log, zeros, First, file'.version)
  BY <1>3
<1>5. file'.pending \in {"none", "open", "done"} /\ (file'.pending # "none" => from' = 0)
  BY DEF Log
<1>6. file'.version >= 1 /\ file'.version # 0 /\ file'.pending # "open"
  OBVIOUS
<1>7. First' = First
  BY DEF First
<1>8. Len(file'.log) = (IF file'.pending = "done" THEN 1 ELSE 0) + file'.version - First'
  BY <1>4, <1>7 DEF Marked, zeros
<1>9. \A i \in 1..Len(file'.log) :
        file'.log[i] = (IF i <= (IF file'.pending = "done" THEN 1 ELSE 0) THEN 0
                        ELSE First' + i - (IF file'.pending = "done" THEN 1 ELSE 0) - 1)
  BY <1>4, <1>7 DEF Marked, zeros
<1> QED BY <1>4, <1>5, <1>6, <1>8, <1>9 DEF Log
-----------------------------------------------------------------------------
(* The steps, for the version, the tables and the markers. *)

\* The versions at which a step is taken.
LEMMA AtVersion ==
  ASSUME CoreInv, NEW p \in Starter, NEW step, IsAt(p, step)
  PROVE  /\ step \in {"copy", "rebuild", "rebuildEmpty"} => file.version = 0 /\ from = 0
         /\ step = "complete" => file.version \in {1, 6}
         /\ step = "v1" => file.version = 1 /\ file.pending # "open"
         /\ step = "v2" => file.version = 2 /\ file.pending # "open"
         /\ step = "v3" => file.version = 3 /\ file.pending # "open"
         /\ step = "v4" => file.version = 4 /\ file.pending # "open"
         /\ step = "v5" => file.version \in {5, 6} /\ file.pending # "open"
         /\ step = "apply" => file.version \in {0, 6}
         /\ step \in StepNames
<1>1. Typed /\ Starters /\ Log
  BY DEF CoreInv
<1> DEFINE t == starter[p].todo
<1>2. t \in Todos /\ Head(t) = step /\ Fits(t, file.version, file.pending, from)
  BY <1>1, Opened
<1> HIDE DEF t
<1>3. step \in StepNames
  BY <1>2, TodoSteps
<1> QED BY <1>1, <1>2, <1>3 DEF Fits, Versions, Log, StepNames

\* A commit that advances its starter, but for tables and markers.
LEMMA CoreCommit ==
  ASSUME CoreInv, NEW p \in Starter, NEW step, IsAt(p, step), GoesOn(p), UNCHANGED Rest,
         DOMAIN file' = Fields, file'.version \in 0..6, Advances(step),
         file.version # 5 \/ Recognised
  PROVE  Typed' /\ Starters' /\ Refusals'
<1>1. starter' \in [Starter -> StarterState] /\ Starters'
  BY CommitFits DEF CoreInv, Rest
<1>2. Refusals'
  BY CommitRefusals DEF CoreInv
<1>3. Typed'
  BY <1>1 DEF CoreInv, Typed, Rest
<1> QED BY <1>1, <1>2, <1>3

\* Creation, and the last step where it finds the ranks.
LEMMA ApplyCore ==
  ASSUME CoreInv, NEW p \in Starter, IsAt(p, "apply") \/ IsAt(p, "v5"), GoesOn(p), UNCHANGED Rest,
         DOMAIN file' = Fields, file.version \in {0, 6}, file'.version = 6,
         file'.tables = Columns(file.tables, SchemaV6), Same({"log", "pending"}),
         file.version = 0 => IsAt(p, "apply")
  PROVE  CoreInv'
<1>1. Typed /\ Tables /\ Log /\ Starters
  BY DEF CoreInv
<1>2. Typed' /\ Starters' /\ Refusals'
  <2>1. CASE IsAt(p, "apply")
    BY <2>1, CoreCommit DEF Advances
  <2>2. CASE IsAt(p, "v5")
    BY <2>2, CoreCommit DEF Advances
  <2> QED BY <2>1, <2>2
<1>3. file.version = 0 => from = 6
  <2>1. SUFFICES ASSUME IsAt(p, "apply"), file.version = 0
                 PROVE  from = 6
    OBVIOUS
  <2>2. Head(starter[p].todo) = "apply" /\ Fits(starter[p].todo, file.version, file.pending, from)
    BY <1>1, <2>1, Opened
  <2> QED BY <2>1, <2>2 DEF Fits
<1>4. file'.tables = SchemaV6
  <2>1. CASE file.version = 0
    <3>1. DOMAIN file.tables = {}
      BY <1>1, <1>3, <2>1 DEF Tables
    <3>2. Columns(file.tables, SchemaV6) = SchemaV6
      BY <3>1, CreationReachesSchema
    <3> QED BY <3>2
  <2>2. CASE file.version = 6
    <3>1. file.tables = SchemaV6
      BY <1>1, <2>2, SchemaIs DEF Tables
    <3> QED BY <3>1, StepsReachSchemas
  <2> QED BY <2>1, <2>2
<1>5. from' = from /\ file'.log = file.log /\ file'.pending = file.pending
  BY DEF Rest, Same
<1>6. Tables'
  BY <1>1, <1>4, <1>5, SchemaIs DEF Tables, Typed
<1>7. Log'
  <2>1. CASE file.version = 0
    <3>1. file.log = <<>> /\ file.pending = "none" /\ from = 6
      BY <1>1, <1>3, <2>1 DEF Log
    <3>2. <<>> \in Seq(Nat) /\ Len(<<>>) = 0
      BY EmptySeq
    <3>3. First' = 6
      BY <1>5, <3>1 DEF First
    <3>4. file'.log = <<>> /\ file'.pending = "none"
      BY <1>5, <3>1
    <3> QED BY <3>2, <3>3, <3>4 DEF Log
  <2>2. CASE file.version = 6
    <3>1. First' = First
      BY <1>5 DEF First
    <3> QED BY <1>1, <1>5, <2>2, <3>1 DEF Log
  <2> QED BY <2>1, <2>2
<1> QED BY <1>2, <1>6, <1>7 DEF CoreInv

\* The rebuild of a v0 file.
LEMMA RebuildCore ==
  ASSUME CoreInv, NEW p \in Starter, Rebuilds(p)
  PROVE  CoreInv'
<1>1. Typed /\ Tables /\ Log /\ Starters
  BY DEF CoreInv
<1>2. /\ \/ IsAt(p, "rebuild") /\ file'.pending = "open"
         \/ IsAt(p, "rebuildEmpty") /\ file'.pending = file.pending
      /\ GoesOn(p) /\ UNCHANGED Rest /\ DOMAIN file' = Fields /\ file'.version = 1
      /\ file'.tables = [Columns(file.tables, SchemaV1) EXCEPT !.metric_rollups_1m = {"bounds"}]
      /\ file'.log = file.log /\ from' = from
  BY <1>1, RebuildEffect DEF Typed, Rest, Same
<1>3. file.version = 0 /\ from = 0
  BY <1>2, AtVersion
<1>4. file.pending = "none" /\ file.log = <<>>
  BY <1>1, <1>3 DEF Log
<1>5. Typed' /\ Starters' /\ Refusals'
  <2>1. CASE IsAt(p, "rebuild")
    BY <1>2, <1>3, <2>1, CoreCommit DEF Advances
  <2>2. CASE IsAt(p, "rebuildEmpty") /\ file'.pending = file.pending
    BY <1>2, <1>3, <1>4, <2>2, CoreCommit DEF Advances
  <2> QED BY <1>2, <2>1, <2>2
<1>6. Tables'
  <2>1. file'.tables = SchemaV1
    BY <1>1, <1>2, <1>3, RebuildReachesSchema DEF Tables
  <2> QED BY <1>2, <1>3, <2>1, SchemaIs DEF Tables
<1>7. Log'
  <2>1. <<>> \in Seq(Nat) /\ Len(<<>>) = 0
    BY EmptySeq
  <2>2. file'.log = <<>> /\ file'.pending \in {"none", "open"} /\ First' = 1 /\ file'.version = 1 /\ from' = 0
    BY <1>2, <1>3, <1>4 DEF First
  <2> QED BY <2>1, <2>2 DEF Log
<1> QED BY <1>5, <1>6, <1>7 DEF CoreInv

\* The completion records the rebuild, once.
LEMMA CompleteCore ==
  ASSUME CoreInv, NEW p \in Starter, CompletesPending(p)
  PROVE  CoreInv'
<1>1. Typed /\ Tables /\ Log /\ Starters
  BY DEF CoreInv
<1>2. /\ IsAt(p, "complete") /\ GoesOn(p) /\ UNCHANGED Rest /\ DOMAIN file' = Fields
      /\ file'.pending = IF file.pending = "open" THEN "done" ELSE file.pending
      /\ file'.log = IF file.pending = "open" /\ file.log = <<>> THEN <<0>> ELSE file.log
      /\ file'.version = file.version /\ file'.tables = file.tables /\ from' = from
  BY <1>1, CompleteEffect DEF Typed, Rest, Same
<1>3. file.version \in {1, 6}
  BY <1>2, AtVersion
<1>4. Typed' /\ Starters' /\ Refusals'
  <2>1. file'.version \in 0..6 /\ file'.pending # "open"
    BY <1>2, <1>3
  <2> QED BY <1>2, <1>3, <2>1, CoreCommit DEF Advances
<1>5. Tables'
  BY <1>1, <1>2, <1>3 DEF Tables
<1>6. Log'
  <2>1. First' = First
    BY <1>2 DEF First
  <2>2. CASE file.pending = "open"
    <3>1. file.version = 1 /\ from = 0 /\ First = 1
      BY <1>1, <2>2 DEF Log, First
    <3>2. Len(file.log) = 0 /\ file.log \in Seq(Nat)
      BY <1>1, <2>2, <3>1 DEF Log
    <3>3. file.log = <<>>
      BY <3>2, EmptySeq
    <3>4. file'.log = <<0>> /\ file'.pending = "done" /\ file'.version = 1 /\ from' = 0 /\ First' = 1
      BY <1>2, <2>1, <2>2, <3>1, <3>3
    <3>5. <<0>> \in Seq(Nat) /\ Len(<<0>>) = 1 /\ <<0>>[1] = 0
      OBVIOUS
    <3> QED BY <3>4, <3>5 DEF Log
  <2>3. CASE file.pending # "open"
    <3>1. file'.log = file.log /\ file'.pending = file.pending
      BY <1>2, <2>3
    <3> QED BY <1>1, <1>2, <2>1, <3>1 DEF Log
  <2> QED BY <2>2, <2>3
<1> QED BY <1>4, <1>5, <1>6 DEF CoreInv

\* The steps from v1 to v5: a marker, and the tables of the next version.
LEMMA StepCore ==
  ASSUME CoreInv, NEW p \in Starter, NEW step, IsAt(p, step), GoesOn(p), UNCHANGED Rest,
         DOMAIN file' = Fields, file.version \in 1..5, step = Steps[file.version],
         file'.version = file.version + 1, file'.log = Append(file.log, file.version),
         file'.pending = file.pending, file.version = 5 => Recognised,
         file.tables = Schema[file.version] => file'.tables = Schema[file.version + 1]
  PROVE  CoreInv'
<1>1. Typed /\ Tables /\ Log /\ Starters
  BY DEF CoreInv
<1>2. Advances(step)
  BY StepsAre DEF Advances
<1>3. file'.version \in 0..6
  OBVIOUS
<1>4. Typed' /\ Starters' /\ Refusals'
  BY <1>2, <1>3, CoreCommit
<1>5. file.pending # "open"
  BY AtVersion, StepsAre
<1>6. Log'
  BY <1>1, <1>5, LogGrows DEF Rest
<1>7. Tables'
  <2>1. file.tables = Schema[file.version]
    BY <1>1 DEF Tables
  <2>2. file'.tables = Schema[file'.version] /\ file'.version # 0 /\ from' = from
    BY <2>1 DEF Rest
  <2>3. from # 6 /\ from <= file.version /\ from \in 0..6
    BY <1>1 DEF Tables, Typed
  <2>4. from' # 6 /\ from' <= file'.version
    BY <2>2, <2>3
  <2> QED BY <2>2, <2>4 DEF Tables
<1> QED BY <1>4, <1>6, <1>7 DEF CoreInv

(* A step that leaves the version, the tables and the markers. *)
LEMMA StaysCore ==
  ASSUME CoreInv, UNCHANGED from, DOMAIN file' = Fields, Same({"version", "tables", "log", "pending"}),
         Typed', Starters',
         \A q \in Starter : starter'[q] = starter[q] \/ starter'[q].at # "refused"
                            \/ starter'[q].why # "changed" \/ (file.version = 5 /\ ~Recognised)
  PROVE  CoreInv'
<1>1. file'.version = file.version /\ file'.tables = file.tables /\ file'.log = file.log
      /\ file'.pending = file.pending
  BY DEF Same
<1>2. Recognised' <=> Recognised
  BY <1>1 DEF Recognised, Has
<1>3. Tables'
  BY <1>1, <1>2 DEF CoreInv, Tables
<1>4. First' = First
  BY DEF First
<1>5. Log'
  BY <1>1, <1>4 DEF CoreInv, Log
<1>6. Refusals'
  BY <1>1, <1>2 DEF CoreInv, Refusals
<1> QED BY <1>3, <1>5, <1>6 DEF CoreInv

\* And no starter goes on.
LEMMA NobodyGoesOn ==
  ASSUME CoreInv, UNCHANGED from, DOMAIN file' = Fields, Same({"version", "tables", "log", "pending"}),
         starter' \in [Starter -> StarterState], stops' \in 0..MaxStops,
         \A q \in Starter :
           \/ starter'[q] = starter[q] \/ starter'[q].at = "off"
           \/ starter'[q].at = "refused" /\ (starter'[q].why # "changed" \/ (file.version = 5 /\ ~Recognised))
  PROVE  CoreInv'
<1>1. file'.version = file.version /\ file'.pending = file.pending
  BY DEF Same
<1>2. Starters'
  BY <1>1, OthersFit DEF CoreInv
<1>3. Typed'
  BY <1>1 DEF CoreInv, Typed
<1> QED BY <1>2, <1>3, StaysCore

\* Where the file stays, all its fields do.
LEMMA SameFile ==
  ASSUME file' = file, CoreInv
  PROVE  DOMAIN file' = Fields /\ Same(Fields)
BY DEF Same, CoreInv, Typed

\* Refusals: that of a changed file is of one that is.
LEMMA RefusesCore ==
  ASSUME CoreInv, NEW p \in Starter, NEW why \in {"copy", "room", "payload", "changed", "oversize"},
         Refuses(p, why), why # "changed" \/ (file.version = 5 /\ ~Recognised)
  PROVE  CoreInv'
<1>1. /\ starter' \in [Starter -> StarterState] /\ stops' \in 0..MaxStops
      /\ \A q \in Starter : starter'[q] = IF q = p THEN [at |-> "refused", why |-> why] ELSE starter[q]
  <2>1. [at |-> "refused", why |-> why] \in StarterState
    BY DEF StarterState
  <2> QED BY <2>1 DEF Refuses, CoreInv, Typed
<1>2. UNCHANGED from /\ DOMAIN file' = Fields /\ Same({"version", "tables", "log", "pending"})
  BY SameFile DEF Refuses, Same, Fields
<1>3. \A q \in Starter :
        \/ starter'[q] = starter[q] \/ starter'[q].at = "off"
        \/ starter'[q].at = "refused" /\ (starter'[q].why # "changed" \/ (file.version = 5 /\ ~Recognised))
  BY <1>1
<1> QED BY <1>1, <1>2, <1>3, NobodyGoesOn

\* A starter dies.
LEMMA StopCore ==
  ASSUME CoreInv, NEW p \in Starter, stops < MaxStops, starter' = [starter EXCEPT ![p] = [at |-> "off"]],
         stops' = stops + 1, UNCHANGED <<file, from>>
  PROVE  CoreInv'
<1>1. /\ starter' \in [Starter -> StarterState]
      /\ \A q \in Starter : starter'[q] = IF q = p THEN [at |-> "off"] ELSE starter[q]
  <2>1. [at |-> "off"] \in StarterState
    BY DEF StarterState
  <2> QED BY <2>1 DEF CoreInv, Typed
<1>2. UNCHANGED from /\ DOMAIN file' = Fields /\ Same({"version", "tables", "log", "pending"})
  BY SameFile DEF Same, Fields
<1>3. stops' \in 0..MaxStops
  <2>1. MaxStops \in Nat /\ stops \in 0..MaxStops
    BY MigrationConstants DEF MigrationConstants, CoreInv, Typed
  <2> QED BY <2>1
<1>4. \A q \in Starter :
        \/ starter'[q] = starter[q] \/ starter'[q].at = "off"
        \/ starter'[q].at = "refused" /\ (starter'[q].why # "changed" \/ (file.version = 5 /\ ~Recognised))
  BY <1>1
<1> QED BY <1>1, <1>2, <1>3, <1>4, NobodyGoesOn

\* The copy goes on to the rebuild.
LEMMA CopyCore ==
  ASSUME CoreInv, NEW p \in Starter, Copies(p)
  PROVE  CoreInv'
<1>1. IsAt(p, "copy") /\ GoesOn(p) /\ UNCHANGED <<file, from, stops>>
  BY DEF Copies
<1>2. file.version = 0
  BY <1>1, AtVersion
<1>3. starter' \in [Starter -> StarterState] /\ Starters'
  <2>1. Typed /\ Starters /\ Advances("copy") /\ file'.version \in 0..6
    BY <1>1, <1>2 DEF Advances, CoreInv
  <2> QED BY <1>1, <2>1, CommitFits
<1>4. Typed'
  BY <1>1, <1>3 DEF CoreInv, Typed
<1>5. UNCHANGED from /\ DOMAIN file' = Fields /\ Same({"version", "tables", "log", "pending"})
  BY <1>1, SameFile DEF Same, Fields
<1>6. \A q \in Starter : starter'[q] = starter[q] \/ starter'[q].at # "refused"
  BY <1>1 DEF GoesOn, CoreInv, Typed
<1> QED BY <1>3, <1>4, <1>5, <1>6, StaysCore

\* An opening.
LEMMA OpenCore ==
  ASSUME CoreInv, NEW p \in Starter, Opens(p)
  PROVE  CoreInv'
<1>1. UNCHANGED <<file, from, stops>>
  BY DEF Opens
<1>2. starter' \in [Starter -> StarterState] /\ Starters'
  BY OpensFit DEF CoreInv
<1>3. Typed'
  BY <1>1, <1>2 DEF CoreInv, Typed
<1>4. UNCHANGED from /\ DOMAIN file' = Fields /\ Same({"version", "tables", "log", "pending"})
  BY <1>1, SameFile DEF Same, Fields
<1>5. \A q \in Starter : starter'[q] = starter[q] \/ starter'[q].at # "refused"
  BY DEF Opens, CoreInv, Typed
<1> QED BY <1>2, <1>3, <1>4, <1>5, StaysCore

\* Steps of the operator and of the programs that write.
LEMMA WritesCore ==
  ASSUME CoreInv, UNCHANGED <<starter, from, stops>>, DOMAIN file' = Fields,
         Same({"version", "tables", "log", "pending"})
  PROVE  CoreInv'
<1>1. starter' \in [Starter -> StarterState] /\ stops' \in 0..MaxStops
  BY DEF CoreInv, Typed
<1> QED BY <1>1, NobodyGoesOn

\* All steps of a starter.
LEMMA OpeningCore ==
  ASSUME CoreInv, NEW p \in Starter, Opening(p)
  PROVE  CoreInv'
<1>0. DOMAIN file = Fields
  BY DEF CoreInv, Typed
<1>1. CASE Opens(p)
  BY <1>1, OpenCore
<1>2. CASE AppliesSchema(p)
  <2>1. file.version \in {0, 6}
    BY <1>0, <1>2, ApplyEffect, AtVersion
  <2> QED BY <1>0, <1>2, <2>1, ApplyEffect, ApplyCore DEF Same
<1>3. CASE RefusesCopy(p)
  BY <1>3, RefusesCore DEF RefusesCopy
<1>4. CASE Copies(p)
  BY <1>4, CopyCore
<1>5. CASE CopyBreaks(p)
  BY <1>5, StopCore DEF CopyBreaks
<1>6. CASE Rebuilds(p)
  BY <1>6, RebuildCore
<1>7. CASE CompletesPending(p)
  BY <1>7, CompleteCore
<1>8. CASE InternsCommands(p)
  <2>1. /\ IsAt(p, "v1") /\ GoesOn(p) /\ UNCHANGED Rest /\ DOMAIN file' = Fields
        /\ file'.version = 2 /\ file'.log = Append(file.log, 1) /\ file'.pending = file.pending
        /\ file'.tables = Columns(MinuteV2, Columns(file.tables, Columns(CommandsV2, FastV2)))
    BY <1>0, <1>8, InternEffect DEF Same
  <2>2. file.version = 1
    BY <2>1, AtVersion
  <2>3. file.tables = Schema[1] => file'.tables = Schema[1 + 1]
    BY <2>1, SchemaIs, StepsReachSchemas
  <2> QED BY <2>1, <2>2, <2>3, StepsAre, StepCore
<1>9. CASE TypesSamples(p)
  <2>1. /\ IsAt(p, "v2") /\ GoesOn(p) /\ UNCHANGED Rest /\ DOMAIN file' = Fields
        /\ file'.version = 3 /\ file'.log = Append(file.log, 2) /\ file'.pending = file.pending
        /\ file'.tables = Columns(HeadV3, file.tables)
    BY <1>0, <1>9, TypeEffect DEF Same
  <2>2. file.version = 2
    BY <2>1, AtVersion
  <2>3. file.tables = Schema[2] => file'.tables = Schema[2 + 1]
    BY <2>1, SchemaIs, StepsReachSchemas
  <2> QED BY <2>1, <2>2, <2>3, StepsAre, StepCore
<1>10. CASE RefusesPayload(p)
  BY <1>10, RefusesCore DEF RefusesPayload
<1>11. CASE ConvertsStartTimes(p)
  <2>1. /\ IsAt(p, "v3") /\ GoesOn(p) /\ UNCHANGED Rest /\ DOMAIN file' = Fields
        /\ file'.version = 4 /\ file'.log = Append(file.log, 3) /\ file'.pending = file.pending
        /\ file'.tables = Columns(FastV4, Columns(MinuteV4, Columns(file.tables, GpusV4)))
    BY <1>0, <1>11, ConvertEffect DEF Same
  <2>2. file.version = 3
    BY <2>1, AtVersion
  <2>3. file.tables = Schema[3] => file'.tables = Schema[3 + 1]
    BY <2>1, SchemaIs, StepsReachSchemas
  <2> QED BY <2>1, <2>2, <2>3, StepsAre, StepCore
<1>12. CASE AddsSensors(p)
  <2>1. /\ IsAt(p, "v4") /\ GoesOn(p) /\ UNCHANGED Rest /\ DOMAIN file' = Fields
        /\ file'.version = 5 /\ file'.log = Append(file.log, 4) /\ file'.pending = file.pending
        /\ file'.tables = Columns(file.tables, Columns(SensorsV5, Events))
    BY <1>0, <1>12, SensorsEffect DEF Same
  <2>2. file.version = 4
    BY <2>1, AtVersion
  <2>3. file.tables = Schema[4] => file'.tables = Schema[4 + 1]
    BY <2>1, SchemaIs, StepsReachSchemas
  <2> QED BY <2>1, <2>2, <2>3, StepsAre, StepCore
<1>13. CASE AddsRanks(p)
  <2>1. CASE Ranks(p)
    <3>1. /\ IsAt(p, "v5") /\ GoesOn(p) /\ UNCHANGED Rest /\ DOMAIN file' = Fields
          /\ file.version = 5 /\ Recognised /\ file'.version = 6 /\ file'.log = Append(file.log, 5)
          /\ file'.pending = file.pending
          /\ file'.tables = Columns(FastV6, Columns(MinuteV6, file.tables))
      BY <2>1 DEF Ranks, Same
    <3>2. file.tables = Schema[5] => file'.tables = Schema[5 + 1]
      BY <3>1, SchemaIs, StepsReachSchemas
    <3> QED BY <3>1, <3>2, StepsAre, StepCore
  <2>2. CASE FindsRanks(p)
    BY <2>2, ApplyCore DEF FindsRanks, Same
  <2>3. CASE IsAt(p, "v5") /\ file.version # 6 /\ ~(file.version = 5 /\ Recognised) /\ Refuses(p, "changed")
    <3>1. file.version = 5 /\ ~Recognised
      BY <2>3, AtVersion
    <3> QED BY <2>3, <3>1, RefusesCore
  <2>4. CASE Refuses(p, "oversize")
    BY <2>4, RefusesCore
  <2> QED BY <1>0, <1>13, <2>1, <2>2, <2>3, <2>4, RanksEffect
<1>14. CASE StarterStops(p)
  BY <1>14, StopCore DEF StarterStops
<1> QED BY <1>1, <1>2, <1>3, <1>4, <1>5, <1>6, <1>7, <1>8, <1>9, <1>10, <1>11, <1>12, <1>13, <1>14
        DEF Opening

\* All steps.
LEMMA CoreStep ==
  ASSUME CoreInv, [MigrationNext]_migrationVars
  PROVE  CoreInv'
<1>0. DOMAIN file = Fields
  BY DEF CoreInv, Typed
<1>1. CASE \E p \in Starter : Opening(p)
  BY <1>1, OpeningCore
<1>2. CASE \E c : StoresList(c)
  BY <1>0, <1>2, StoreEffect, WritesCore DEF Same, Fields
<1>3. CASE MovesCopy \/ RemovesCopy \/ UNCHANGED migrationVars
  <2>1. UNCHANGED <<file, starter, from, stops>>
    BY <1>3 DEF MovesCopy, RemovesCopy, migrationVars
  <2>2. DOMAIN file' = Fields /\ Same({"version", "tables", "log", "pending"})
    BY <2>1, SameFile DEF Same, Fields
  <2> QED BY <2>1, <2>2, WritesCore
<1>4. CASE ClearsPayload
  BY <1>0, <1>4, ClearEffect, WritesCore DEF Same, Fields
<1>5. CASE LegacyWrites
  BY <1>0, <1>5, LegacyEffect, WritesCore DEF Same, Fields
<1>6. (\E p \in Starter : DaemonWrites(p)) \/ OldDaemonWrites => \E c : StoresList(c)
  BY DEF DaemonWrites, OldDaemonWrites
<1> QED BY <1>1, <1>2, <1>3, <1>4, <1>5, <1>6 DEF MigrationNext
-----------------------------------------------------------------------------
(* Payloads. *)

PayloadInv == Samples /\ Copied /\ Kept

\* What the constants are.
LEMMA Instants == Time \subseteq Nat /\ KeepFrom \in Nat /\ "none" \notin Payload
                  /\ LateTime \in Time /\ LateTime >= KeepFrom /\ Undecodable \subseteq Payload
BY MigrationConstants DEF MigrationConstants

\* At first every payload is in the file.
LEMMA InitPayloads ==
  ASSUME MigrationInit
  PROVE  PayloadInv
<1>1. PICK old \in OldFile : file.version = old.version /\ file.samples = old.samples
  BY InitFile
<1>2. /\ file.samples \subseteq SampleType
      /\ file.version < 3 => \A s \in file.samples : s.typed = "none"
  BY <1>1, OldFiles DEF SampleType
<1>3. /\ preImage = [samples |-> {}, state |-> "none"] /\ \A p \in Starter : starter[p].at = "off"
      /\ payloads = {[at |-> s.at, payload |-> s.payload] : s \in {r \in file.samples : r.payload # "none"}}
  BY DEF MigrationInit
<1>4. payloads \subseteq [at : Time, payload : Payload]
  BY <1>2, <1>3 DEF SampleType
<1>5. Samples
  BY <1>2, <1>3, <1>4 DEF Samples
<1>6. Copied
  BY <1>3 DEF Copied
<1>7. Kept
  BY <1>3 DEF Kept, InFile
<1> QED BY <1>5, <1>6, <1>7 DEF PayloadInv

(* There is nothing to rebuild in a file of version 1 or later. *)
LEMMA NothingToCopyAfter ==
  ASSUME CoreInv', file'.version # 0
  PROVE  Copied'
<1>1. ASSUME NEW p \in Starter, starter'[p].at = "opens"
      PROVE  Head(starter'[p].todo) \notin {"rebuild", "rebuildEmpty"}
  BY <1>1 DEF CoreInv, Starters, Fits, Versions
<1> QED BY <1>1 DEF Copied

\* The payloads stay where they are.
LEMMA PayloadsStay ==
  ASSUME PayloadInv, UNCHANGED <<preImage, aside, payloads>>, file'.samples = file.samples,
         file'.version < 3 => file.version < 3, Copied'
  PROVE  PayloadInv'
<1>1. Samples'
  BY DEF PayloadInv, Samples
<1>2. \A l : (InFile(l) => InFile(l)') /\ (InCopy(l) => InCopy(l)')
  BY DEF InFile, InCopy
<1>3. Kept'
  BY <1>2 DEF PayloadInv, Kept
<1> QED BY <1>1, <1>3 DEF PayloadInv

\* Nobody has more to copy than before.
LEMMA HeadsStay ==
  ASSUME PayloadInv, UNCHANGED <<preImage, aside>>, file'.samples = file.samples,
         \A q \in Starter : starter'[q] = starter[q] \/ starter'[q].at # "opens"
  PROVE  Copied'
<1>1. \A l : InCopy(l) => InCopy(l)'
  BY DEF InCopy
<1> QED BY <1>1 DEF PayloadInv, Copied

\* The rebuild drops old payloads, which are in the copy.
LEMMA RebuildPayloads ==
  ASSUME CoreInv, CoreInv', PayloadInv, NEW p \in Starter, Rebuilds(p)
  PROVE  PayloadInv'
<1> DEFINE New(s) == [s EXCEPT !.payload = IF s.at >= KeepFrom THEN s.payload ELSE "none"]
<1>1. /\ IsAt(p, "rebuild") \/ IsAt(p, "rebuildEmpty")
      /\ UNCHANGED <<preImage, aside, payloads>> /\ file'.version = 1
      /\ file'.samples = {New(s) : s \in file.samples}
  BY RebuildEffect DEF Rest, CoreInv, Typed
<1>2. /\ file.version = 0 /\ file.samples \subseteq SampleType
      /\ \A s \in file.samples : s.typed = "none"
  <2>1. file.version = 0
    BY <1>1, AtVersion
  <2> QED BY <2>1 DEF PayloadInv, Samples
<1>3. \A s \in file.samples :
        /\ New(s) \in SampleType /\ New(s).typed = "none" /\ New(s).at = s.at
        /\ New(s).payload = IF s.at >= KeepFrom THEN s.payload ELSE "none"
  BY <1>2 DEF SampleType
<1> HIDE DEF New
<1>4. Samples'
  BY <1>1, <1>3 DEF PayloadInv, Samples
<1>5. Copied'
  BY <1>1, NothingToCopyAfter
<1>6. ASSUME NEW l \in payloads
      PROVE  /\ \E s \in file'.samples : s.at = l.at
             /\ InFile(l)' \/ InCopy(l)'
             /\ l.at >= KeepFrom => InFile(l)'
  <2>1. l.at \in Nat /\ l.payload # "none"
    BY Instants DEF PayloadInv, Samples
  <2>2. \E s \in file'.samples : s.at = l.at
    BY <1>1, <1>3 DEF PayloadInv, Kept
  <2>3. ASSUME InFile(l), l.at >= KeepFrom
        PROVE  InFile(l)'
    <3>1. PICK s \in file.samples : s.at = l.at /\ l.payload \in {s.payload, s.typed}
      BY <2>3 DEF InFile
    <3>2. New(s) \in file'.samples /\ New(s).at = l.at /\ l.payload = New(s).payload
      BY <1>1, <1>2, <1>3, <2>1, <2>3, <3>1
    <3> QED BY <3>2 DEF InFile
  <2>4. InCopy(l) => InCopy(l)'
    BY <1>1 DEF InCopy
  <2>5. ASSUME InFile(l), ~(l.at >= KeepFrom)
        PROVE  InCopy(l)
    <3>1. PICK s \in file.samples : s.at = l.at /\ l.payload \in {s.payload, s.typed}
      BY <2>5 DEF InFile
    <3>2. s.payload = l.payload /\ s.payload # "none" /\ ~(s.at >= KeepFrom)
      BY <1>2, <2>1, <2>5, <3>1
    <3>3. InCopy(s)
      BY <1>1, <3>2 DEF PayloadInv, Copied, IsAt
    <3> QED BY <3>1, <3>2, <3>3 DEF InCopy
  <2>6. (InFile(l) \/ InCopy(l)) /\ (l.at >= KeepFrom => InFile(l))
    BY DEF PayloadInv, Kept
  <2> QED BY <2>2, <2>3, <2>4, <2>5, <2>6
<1>7. Kept'
  BY <1>1, <1>6 DEF Kept
<1> QED BY <1>4, <1>5, <1>7 DEF PayloadInv

\* A decoded payload is in the typed columns.
LEMMA TypePayloads ==
  ASSUME CoreInv, CoreInv', PayloadInv, NEW p \in Starter, TypesSamples(p)
  PROVE  PayloadInv'
<1> DEFINE New(s) == [s EXCEPT !.payload = "none", !.typed = s.payload]
<1>1. /\ IsAt(p, "v2") /\ UNCHANGED <<preImage, aside, payloads>> /\ file'.version = 3
      /\ file'.samples = {New(s) : s \in file.samples}
  BY TypeEffect DEF Rest, CoreInv, Typed
<1>2. /\ file.samples \subseteq SampleType /\ \A s \in file.samples : s.typed = "none"
  <2>1. file.version = 2
    BY <1>1, AtVersion
  <2> QED BY <2>1 DEF PayloadInv, Samples
<1>3. \A s \in file.samples : New(s) \in SampleType /\ New(s).typed = s.payload /\ New(s).at = s.at
  BY <1>2 DEF SampleType
<1> HIDE DEF New
<1>4. Samples'
  BY <1>1, <1>3 DEF PayloadInv, Samples
<1>5. Copied'
  BY <1>1, NothingToCopyAfter
<1>6. ASSUME NEW l \in payloads
      PROVE  /\ \E s \in file'.samples : s.at = l.at
             /\ InFile(l) => InFile(l)'
             /\ InCopy(l) => InCopy(l)'
  <2>1. l.payload # "none"
    BY Instants DEF PayloadInv, Samples
  <2>2. \E s \in file'.samples : s.at = l.at
    BY <1>1, <1>3 DEF PayloadInv, Kept
  <2>3. ASSUME InFile(l)
        PROVE  InFile(l)'
    <3>1. PICK s \in file.samples : s.at = l.at /\ l.payload \in {s.payload, s.typed}
      BY <2>3 DEF InFile
    <3>2. New(s) \in file'.samples /\ New(s).at = l.at /\ l.payload = New(s).typed
      BY <1>1, <1>2, <1>3, <2>1, <3>1
    <3> QED BY <3>2 DEF InFile
  <2>4. InCopy(l) => InCopy(l)'
    BY <1>1 DEF InCopy
  <2> QED BY <2>2, <2>3, <2>4
<1>7. Kept'
  BY <1>1, <1>6 DEF PayloadInv, Kept
<1> QED BY <1>4, <1>5, <1>7 DEF PayloadInv

\* The operator gives up the payload that is cleared.
LEMMA ClearPayloads ==
  ASSUME CoreInv, PayloadInv, ClearsPayload
  PROVE  PayloadInv'
<1>1. /\ UNCHANGED <<preImage, aside, starter>> /\ file'.version = file.version
      /\ \E s \in file.samples :
           /\ file'.samples = (file.samples \ {s}) \cup {[s EXCEPT !.payload = "none"]}
           /\ payloads' = payloads \ {[at |-> s.at, payload |-> s.payload]}
  BY ClearEffect DEF CoreInv, Typed, Same, Fields
<1>2. PICK s \in file.samples :
        /\ file'.samples = (file.samples \ {s}) \cup {[s EXCEPT !.payload = "none"]}
        /\ payloads' = payloads \ {[at |-> s.at, payload |-> s.payload]}
  BY <1>1
<1> DEFINE n == [s EXCEPT !.payload = "none"]
<1>3. s \in SampleType
  BY DEF PayloadInv, Samples
<1>4. n \in SampleType /\ n.at = s.at /\ n.payload = "none" /\ n.typed = s.typed
  BY <1>3 DEF SampleType
<1>5. /\ n \in file'.samples /\ \A x \in file.samples : x # s => x \in file'.samples
      /\ \A x \in file'.samples : x = n \/ x \in file.samples
  BY <1>2
<1> HIDE DEF n
<1>6. Samples'
  <2>1. file'.samples \subseteq SampleType /\ payloads' \subseteq [at : Time, payload : Payload]
    BY <1>2, <1>4, <1>5 DEF PayloadInv, Samples
  <2>2. file'.version < 3 => \A x \in file'.samples : x.typed = "none"
    BY <1>1, <1>4, <1>5 DEF PayloadInv, Samples
  <2> QED BY <1>1, <2>1, <2>2 DEF PayloadInv, Samples
<1>7. \A l : InCopy(l) => InCopy(l)'
  BY <1>1 DEF InCopy
<1>8. Copied'
  <2>1. ASSUME NEW p \in Starter, starter'[p].at = "opens"
        PROVE  /\ Head(starter'[p].todo) = "rebuild" =>
                    \A x \in file'.samples : x.at >= KeepFrom \/ x.payload = "none" \/ InCopy(x)'
               /\ Head(starter'[p].todo) = "rebuildEmpty" => \A x \in file'.samples : x.at >= KeepFrom
    <3>1. starter'[p] = starter[p] /\ starter[p].at = "opens"
      BY <1>1, <2>1
    <3> QED BY <1>4, <1>5, <1>7, <3>1 DEF PayloadInv, Copied
  <2> QED BY <2>1 DEF Copied, InCopy
<1>9. ASSUME NEW l \in payloads'
      PROVE  /\ \E x \in file'.samples : x.at = l.at
             /\ InFile(l) => InFile(l)'
  <2>1. l \in payloads /\ l # [at |-> s.at, payload |-> s.payload] /\ l \in [at : Time, payload : Payload]
    BY <1>2 DEF PayloadInv, Samples
  <2>2. ~(l.at = s.at /\ l.payload = s.payload)
    BY <2>1
  <2>3. \E x \in file'.samples : x.at = l.at
    BY <1>4, <1>5, <2>1 DEF PayloadInv, Kept
  <2>4. ASSUME InFile(l)
        PROVE  InFile(l)'
    <3>1. PICK x \in file.samples : x.at = l.at /\ l.payload \in {x.payload, x.typed}
      BY <2>4 DEF InFile
    <3>2. CASE x = s
      BY <1>4, <1>5, <2>2, <3>1, <3>2 DEF InFile
    <3>3. CASE x # s
      BY <1>5, <3>1, <3>3 DEF InFile
    <3> QED BY <3>2, <3>3
  <2> QED BY <2>3, <2>4
<1>10. Kept'
  <2>1. payloads' \subseteq payloads
    BY <1>2
  <2> QED BY <1>7, <1>9, <2>1 DEF PayloadInv, Kept
<1> QED BY <1>6, <1>8, <1>10 DEF PayloadInv

\* A sample of the legacy collector is younger than what a rebuild drops.
LEMMA LegacyPayloads ==
  ASSUME CoreInv, PayloadInv, LegacyWrites
  PROVE  PayloadInv'
<1>1. /\ UNCHANGED <<preImage, aside, starter>> /\ file'.version = file.version /\ file.version < 2
      /\ \E payload \in Payload \ Undecodable :
           /\ file'.samples = file.samples \cup {[at |-> LateTime, payload |-> payload, typed |-> "none"]}
           /\ payloads' = payloads \cup {[at |-> LateTime, payload |-> payload]}
  BY LegacyEffect DEF CoreInv, Typed, Same, Fields
<1>2. PICK payload \in Payload \ Undecodable :
        /\ file'.samples = file.samples \cup {[at |-> LateTime, payload |-> payload, typed |-> "none"]}
        /\ payloads' = payloads \cup {[at |-> LateTime, payload |-> payload]}
  BY <1>1
<1> DEFINE n == [at |-> LateTime, payload |-> payload, typed |-> "none"]
           k == [at |-> LateTime, payload |-> payload]
<1>3. /\ n \in SampleType /\ n.at = LateTime /\ n.payload = payload /\ n.typed = "none"
      /\ k \in [at : Time, payload : Payload] /\ k.at = LateTime /\ k.payload = payload
  BY Instants DEF SampleType
<1>4. file'.samples = file.samples \cup {n} /\ payloads' = payloads \cup {k}
  BY <1>2
<1> HIDE DEF n, k
<1>5. Samples'
  BY <1>1, <1>3, <1>4 DEF PayloadInv, Samples
<1>6. \A l : (InCopy(l) => InCopy(l)') /\ (InFile(l) => InFile(l)')
  BY <1>1, <1>4 DEF InCopy, InFile
<1>7. Copied'
  <2>1. ASSUME NEW p \in Starter, starter'[p].at = "opens"
        PROVE  /\ Head(starter'[p].todo) = "rebuild" =>
                    \A x \in file'.samples : x.at >= KeepFrom \/ x.payload = "none" \/ InCopy(x)'
               /\ Head(starter'[p].todo) = "rebuildEmpty" => \A x \in file'.samples : x.at >= KeepFrom
    <3>1. starter'[p] = starter[p] /\ starter[p].at = "opens" /\ n.at >= KeepFrom
      BY <1>1, <1>3, <2>1, Instants
    <3> QED BY <1>4, <1>6, <3>1 DEF PayloadInv, Copied
  <2> QED BY <2>1 DEF Copied, InCopy
<1>8. InFile(k)' /\ \E x \in file'.samples : x.at = k.at
  BY <1>3, <1>4 DEF InFile
<1>9. Kept'
  <2>1. ASSUME NEW l \in payloads'
        PROVE  /\ \E x \in file'.samples : x.at = l.at
               /\ InFile(l)' \/ InCopy(l)'
               /\ l.at >= KeepFrom => InFile(l)'
    <3>1. CASE l = k
      BY <1>8, <3>1 DEF InFile
    <3>2. CASE l \in payloads
      BY <1>4, <1>6, <3>2 DEF PayloadInv, Kept
    <3> QED BY <1>4, <3>1, <3>2
  <2> QED BY <2>1 DEF Kept
<1> QED BY <1>5, <1>7, <1>9 DEF PayloadInv

(* A commit that leaves the samples. *)
LEMMA CommitPayloads ==
  ASSUME CoreInv, CoreInv', PayloadInv, UNCHANGED Rest, Same({"samples"}), file'.version # 0,
         file'.version < 3 => file.version < 3
  PROVE  PayloadInv'
<1>1. UNCHANGED <<preImage, aside, payloads>> /\ file'.samples = file.samples
  BY DEF Rest, Same
<1>2. Copied'
  BY NothingToCopyAfter
<1> QED BY <1>1, <1>2, PayloadsStay

(* A start that is refused or dies leaves what the others have to copy. *)
LEMMA RefusalPayloads ==
  ASSUME PayloadInv, NEW p \in Starter, NEW x, x.at # "opens", starter \in [Starter -> StarterState],
         starter' = [starter EXCEPT ![p] = x], UNCHANGED <<file, preImage, aside, payloads>>
  PROVE  PayloadInv'
<1>1. \A q \in Starter : starter'[q] = starter[q] \/ starter'[q].at # "opens"
  OBVIOUS
<1>2. Copied'
  BY <1>1, HeadsStay
<1> QED BY <1>2, PayloadsStay

\* No plan begins with the rebuild of samples.
LEMMA OpenPayloads ==
  ASSUME CoreInv, CoreInv', PayloadInv, NEW p \in Starter, Opens(p)
  PROVE  PayloadInv'
<1>1. /\ UNCHANGED <<file, preImage, aside, payloads>>
      /\ starter'[p] = [at |-> "opens", todo |-> Plan]
      /\ \A q \in Starter : q # p => starter'[q] = starter[q]
  BY DEF Opens, CoreInv, Typed
<1>2. Copied'
  <2>1. CASE file.version # 0
    BY <1>1, <2>1, NothingToCopyAfter
  <2>2. CASE file.version = 0
    <3>1. Head(Plan) # "rebuild" /\ (Head(Plan) = "rebuildEmpty" => file.samples = {})
      <4>1. CASE IsNew
        <5>1. Plan = <<"apply">>
          BY <2>2, <4>1 DEF Plan
        <5>2. Head(<<"apply">>) = "apply"
          OBVIOUS
        <5> QED BY <5>1, <5>2
      <4>2. CASE ~IsNew /\ file.samples = {}
        <5>1. Plan = <<"rebuildEmpty">> \o Steps
          BY <2>2, <4>2 DEF Plan
        <5>2. Head(<<"rebuildEmpty">> \o Steps) = "rebuildEmpty"
          BY BeginningIsTodo
        <5> QED BY <4>2, <5>1, <5>2
      <4>3. CASE ~IsNew /\ file.samples # {}
        <5>1. Plan = <<"copy", "rebuild", "complete">> \o Steps
          BY <2>2, <4>3 DEF Plan
        <5>2. Head(<<"copy", "rebuild", "complete">> \o Steps) = "copy"
          BY BeginningIsTodo
        <5> QED BY <5>1, <5>2
      <4> QED BY <4>1, <4>2, <4>3
    <3>2. \A l : InCopy(l) => InCopy(l)'
      BY <1>1 DEF InCopy
    <3>3. ASSUME NEW q \in Starter, starter'[q].at = "opens"
          PROVE  /\ Head(starter'[q].todo) = "rebuild" =>
                      \A s \in file'.samples : s.at >= KeepFrom \/ s.payload = "none" \/ InCopy(s)'
                 /\ Head(starter'[q].todo) = "rebuildEmpty" => \A s \in file'.samples : s.at >= KeepFrom
      <4>1. CASE q = p
        BY <1>1, <3>1, <4>1
      <4>2. CASE q # p
        BY <1>1, <3>2, <3>3, <4>2 DEF PayloadInv, Copied
      <4> QED BY <4>1, <4>2
    <3> QED BY <3>3 DEF Copied, InCopy
  <2> QED BY <2>1, <2>2
<1> QED BY <1>1, <1>2, PayloadsStay

\* The copy has all samples, and the rebuild comes next.
LEMMA CopyPayloads ==
  ASSUME CoreInv, CoreInv', PayloadInv, NEW p \in Starter, Copies(p)
  PROVE  PayloadInv'
<1>1. /\ IsAt(p, "copy") /\ GoesOn(p) /\ UNCHANGED <<file, aside, payloads>>
      /\ preImage.state = "none" /\ preImage' = [samples |-> file.samples, state |-> "full"]
  BY DEF Copies
<1>2. file.version = 0 /\ preImage.samples = {}
  BY <1>1, AtVersion DEF PayloadInv, Samples
<1>3. Samples'
  <2>1. DOMAIN preImage' = {"samples", "state"} /\ preImage'.state = "full"
    BY <1>1
  <2> QED BY <1>1, <2>1 DEF PayloadInv, Samples
<1>4. \A l : (InCopy(l) => InCopy(l)') /\ (InFile(l) => InFile(l)')
  BY <1>1, <1>2 DEF InCopy, InFile
<1>5. \A s \in file'.samples : InCopy(s)'
  BY <1>1 DEF InCopy
<1>6. \A q \in Starter : starter'[q].at = "opens" => Head(starter'[q].todo) # "rebuildEmpty"
  <2>1. starter[p].todo \in Todos /\ starter[p].at = "opens" /\ Head(starter[p].todo) = "copy"
    BY <1>1, Opened DEF CoreInv
  <2>2. Len(starter[p].todo) # 1 /\ Follows("copy", Head(Tail(starter[p].todo)))
    BY <2>1, TodoSteps
  <2>3. Head(Tail(starter[p].todo)) = "rebuild"
    BY <2>2 DEF Follows
  <2>4. /\ starter'[p] = [at |-> "opens", todo |-> Tail(starter[p].todo)]
        /\ \A q \in Starter : q # p => starter'[q] = starter[q]
    BY <1>1, <2>2 DEF GoesOn, CoreInv, Typed
  <2>5. \A q \in Starter : starter[q].at = "opens" => q = p
    BY <1>2, <2>1 DEF CoreInv, Starters
  <2>6. Head(starter'[p].todo) = "rebuild"
    <3> DEFINE u == Tail(starter[p].todo)
    <3>1. starter'[p] = [at |-> "opens", todo |-> u] /\ Head(u) = "rebuild"
      BY <2>3, <2>4
    <3> HIDE DEF u
    <3>2. starter'[p].todo = u
      BY <3>1
    <3> QED BY <3>1, <3>2
  <2>7. \A q \in Starter : starter'[q].at = "opens" => q = p
    BY <2>4, <2>5
  <2> QED BY <2>6, <2>7
<1>7. Copied'
  BY <1>5, <1>6 DEF Copied, InCopy
<1>8. Kept'
  BY <1>1, <1>4 DEF PayloadInv, Kept
<1> QED BY <1>3, <1>7, <1>8 DEF PayloadInv

\* A copy that breaks off replaces none.
LEMMA BrokenCopyPayloads ==
  ASSUME CoreInv, PayloadInv, NEW p \in Starter, CopyBreaks(p)
  PROVE  PayloadInv'
<1>1. /\ UNCHANGED <<file, aside, payloads>> /\ preImage' = [samples |-> {}, state |-> "partial"]
      /\ preImage.samples = {} /\ starter' = [starter EXCEPT ![p] = [at |-> "off"]]
      /\ starter \in [Starter -> StarterState]
  BY DEF CopyBreaks, PayloadInv, Samples, CoreInv, Typed
<1>2. Samples'
  <2>1. DOMAIN preImage' = {"samples", "state"} /\ preImage'.state = "partial" /\ preImage'.samples = {}
    BY <1>1
  <2> QED BY <1>1, <2>1 DEF PayloadInv, Samples
<1>3. \A l : (InCopy(l) => InCopy(l)') /\ (InFile(l) => InFile(l)')
  BY <1>1 DEF InCopy, InFile
<1>4. \A q \in Starter : starter'[q] = starter[q] \/ starter'[q].at # "opens"
  BY <1>1
<1>5. Copied'
  BY <1>1, <1>3, <1>4 DEF PayloadInv, Copied
<1>6. Kept'
  BY <1>1, <1>3 DEF PayloadInv, Kept
<1> QED BY <1>2, <1>5, <1>6 DEF PayloadInv

\* A copy that is complete is put elsewhere, another holds nothing.
LEMMA MovePayloads ==
  ASSUME PayloadInv, MovesCopy
  PROVE  PayloadInv'
<1>1. /\ UNCHANGED <<file, starter, payloads>> /\ preImage' = [samples |-> {}, state |-> "none"]
      /\ aside' = IF preImage.state = "full" THEN aside \cup preImage.samples ELSE aside
  BY DEF MovesCopy
<1>2. aside \cup preImage.samples \subseteq aside' \cup preImage'.samples
  BY <1>1 DEF PayloadInv, Samples
<1>3. Samples'
  <2>1. DOMAIN preImage' = {"samples", "state"} /\ preImage'.state = "none" /\ preImage'.samples = {}
    BY <1>1
  <2> QED BY <1>1, <2>1 DEF PayloadInv, Samples
<1>4. \A l : (InCopy(l) => InCopy(l)') /\ (InFile(l) => InFile(l)')
  BY <1>1, <1>2 DEF InCopy, InFile
<1>5. Copied'
  BY <1>1, <1>4 DEF PayloadInv, Copied
<1>6. Kept'
  BY <1>1, <1>4 DEF PayloadInv, Kept
<1> QED BY <1>3, <1>5, <1>6 DEF PayloadInv

\* With the copy goes what only it had, which the file keeps when it is not old.
LEMMA RemovePayloads ==
  ASSUME CoreInv, CoreInv', PayloadInv, RemovesCopy
  PROVE  PayloadInv'
<1>1. /\ UNCHANGED <<file, aside, starter>> /\ preImage' = [samples |-> {}, state |-> "none"]
      /\ payloads' = {l \in payloads : \A s \in preImage.samples :
                        ~(s.at = l.at /\ s.payload = l.payload /\ s.at < KeepFrom)}
      /\ file.version >= 1
  BY DEF RemovesCopy, Removable
<1>2. Samples'
  <2>1. DOMAIN preImage' = {"samples", "state"} /\ preImage'.state = "none" /\ preImage'.samples = {}
    BY <1>1
  <2> QED BY <1>1, <2>1 DEF PayloadInv, Samples
<1>3. Copied'
  BY <1>1, NothingToCopyAfter
<1>4. ASSUME NEW l \in payloads'
      PROVE  /\ \E s \in file'.samples : s.at = l.at
             /\ InFile(l)' \/ InCopy(l)'
             /\ l.at >= KeepFrom => InFile(l)'
  <2>1. /\ l \in payloads /\ \A s \in preImage.samples : ~(s.at = l.at /\ s.payload = l.payload /\ s.at < KeepFrom)
        /\ l.at \in Nat /\ KeepFrom \in Nat
    BY <1>1, Instants DEF PayloadInv, Samples
  <2>2. InFile(l) => InFile(l)'
    BY <1>1 DEF InFile
  <2>3. /\ \E s \in file.samples : s.at = l.at
        /\ InFile(l) \/ InCopy(l)
        /\ l.at >= KeepFrom => InFile(l)
    BY <2>1 DEF PayloadInv, Kept
  <2>4. ASSUME ~(l.at >= KeepFrom), InCopy(l)
        PROVE  InCopy(l)'
    <3>1. PICK s \in aside \cup preImage.samples : s.at = l.at /\ s.payload = l.payload
      BY <2>4 DEF InCopy
    <3>2. s \in aside
      BY <2>1, <2>4, <3>1
    <3> QED BY <1>1, <3>1, <3>2 DEF InCopy
  <2> QED BY <1>1, <2>2, <2>3, <2>4
<1>5. Kept'
  BY <1>4 DEF Kept
<1> QED BY <1>2, <1>3, <1>5 DEF PayloadInv

\* Lists are no samples.
LEMMA StorePayloads ==
  ASSUME CoreInv, PayloadInv, NEW c, StoresList(c)
  PROVE  PayloadInv'
<1>1. /\ UNCHANGED <<preImage, aside, starter, payloads>> /\ file'.samples = file.samples
      /\ file'.version = file.version
  BY StoreEffect DEF CoreInv, Typed, Same, Fields
<1>2. Copied'
  BY <1>1, HeadsStay
<1> QED BY <1>1, <1>2, PayloadsStay

\* All steps of a starter.
LEMMA OpeningPayloads ==
  ASSUME CoreInv, CoreInv', PayloadInv, NEW p \in Starter, Opening(p)
  PROVE  PayloadInv'
<1>0. DOMAIN file = Fields /\ starter \in [Starter -> StarterState]
  BY DEF CoreInv, Typed
<1>1. CASE Opens(p)
  BY <1>1, OpenPayloads
<1>2. CASE AppliesSchema(p)
  BY <1>0, <1>2, ApplyEffect, CommitPayloads DEF Same
<1>3. CASE Copies(p)
  BY <1>3, CopyPayloads
<1>4. CASE CopyBreaks(p)
  BY <1>4, BrokenCopyPayloads
<1>5. CASE Rebuilds(p)
  BY <1>5, RebuildPayloads
<1>6. CASE CompletesPending(p)
  <2>1. IsAt(p, "complete") /\ file'.version = file.version /\ UNCHANGED Rest /\ Same({"samples"})
    BY <1>0, <1>6, CompleteEffect DEF Same
  <2>2. file.version \in {1, 6}
    BY <2>1, AtVersion
  <2> QED BY <2>1, <2>2, CommitPayloads
<1>7. CASE InternsCommands(p)
  <2>1. IsAt(p, "v1") /\ file'.version = 2 /\ UNCHANGED Rest /\ Same({"samples"})
    BY <1>0, <1>7, InternEffect DEF Same
  <2>2. file.version = 1
    BY <2>1, AtVersion
  <2> QED BY <2>1, <2>2, CommitPayloads
<1>8. CASE TypesSamples(p)
  BY <1>8, TypePayloads
<1>9. CASE ConvertsStartTimes(p)
  BY <1>0, <1>9, ConvertEffect, CommitPayloads DEF Same
<1>10. CASE AddsSensors(p)
  BY <1>0, <1>10, SensorsEffect, CommitPayloads DEF Same
<1>11. CASE Ranks(p) \/ FindsRanks(p)
  BY <1>11, CommitPayloads DEF Ranks, FindsRanks, Same
<1>12. CASE \E why : Refuses(p, why)
  <2>1. PICK why : Refuses(p, why)
    BY <1>12
  <2> DEFINE x == [at |-> "refused", why |-> why]
  <2>2. x.at # "opens" /\ starter' = [starter EXCEPT ![p] = x] /\ UNCHANGED <<file, preImage, aside, payloads>>
    BY <2>1 DEF Refuses
  <2> HIDE DEF x
  <2> QED BY <1>0, <2>2, RefusalPayloads
<1>13. CASE StarterStops(p)
  <2> DEFINE x == [at |-> "off"]
  <2>1. x.at # "opens" /\ starter' = [starter EXCEPT ![p] = x] /\ UNCHANGED <<file, preImage, aside, payloads>>
    BY <1>13 DEF StarterStops
  <2> HIDE DEF x
  <2> QED BY <1>0, <2>1, RefusalPayloads
<1>14. AddsRanks(p) => Ranks(p) \/ FindsRanks(p) \/ \E why : Refuses(p, why)
  BY <1>0, RanksEffect
<1>15. RefusesCopy(p) \/ RefusesPayload(p) => \E why : Refuses(p, why)
  BY DEF RefusesCopy, RefusesPayload
<1> QED BY <1>1, <1>2, <1>3, <1>4, <1>5, <1>6, <1>7, <1>8, <1>9, <1>10, <1>11, <1>12, <1>13, <1>14, <1>15
        DEF Opening

\* All steps.
LEMMA PayloadStep ==
  ASSUME CoreInv, CoreInv', PayloadInv, [MigrationNext]_migrationVars
  PROVE  PayloadInv'
<1>1. CASE \E p \in Starter : Opening(p)
  BY <1>1, OpeningPayloads
<1>2. CASE \E c : StoresList(c)
  BY <1>2, StorePayloads
<1>3. CASE MovesCopy
  BY <1>3, MovePayloads
<1>4. CASE RemovesCopy
  BY <1>4, RemovePayloads
<1>5. CASE ClearsPayload
  BY <1>5, ClearPayloads
<1>6. CASE LegacyWrites
  BY <1>6, LegacyPayloads
<1>7. CASE UNCHANGED migrationVars
  <2>1. UNCHANGED <<file, preImage, aside, payloads, starter>>
    BY <1>7 DEF migrationVars
  <2>2. Copied'
    BY <2>1, HeadsStay
  <2> QED BY <2>1, <2>2, PayloadsStay
<1>8. (\E p \in Starter : DaemonWrites(p)) \/ OldDaemonWrites => \E c : StoresList(c)
  BY DEF DaemonWrites, OldDaemonWrites
<1> QED BY <1>1, <1>2, <1>3, <1>4, <1>5, <1>6, <1>7, <1>8 DEF MigrationNext
-----------------------------------------------------------------------------
(* Dictionaries and rows. *)

\* A function on a finite set has finitely many values.
LEMMA FiniteRange ==
  ASSUME NEW f, IsFiniteSet(DOMAIN f)
  PROVE  IsFiniteSet({f[x] : x \in DOMAIN f})
<1> DEFINE S == DOMAIN f
           T == {f[x] : x \in S}
           g == [x \in S |-> f[x]]
<1>1. g \in Surjection(S, T)
  BY DEF Surjection
<1> QED BY <1>1, FS_Surjection

\* A dictionary with new names keeps the ids it gave, and has them all.
LEMMA InternedIs ==
  ASSUME NEW commands, IsDictionary(commands), NEW names, IsFiniteSet(names),
         NEW d \in Interned(commands, names)
  PROVE  /\ IsDictionary(d)
         /\ \A i \in DOMAIN commands : i \in DOMAIN d /\ d[i] = commands[i]
         /\ \A name \in names : \E i \in DOMAIN d : d[i] = name
<1> DEFINE new == names \ {commands[i] : i \in DOMAIN commands}
           k == Cardinality(new)
<1>1. PICK n \in Nat : DOMAIN commands = 1..n
  BY DEF IsDictionary
<1> DEFINE Free == n + 1 .. n + k
<1>2. IsFiniteSet(new) /\ k \in Nat
  <2>1. IsFiniteSet(new)
    BY FS_Difference
  <2> QED BY <2>1, FS_CardinalityType
<1>3. Cardinality(DOMAIN commands) = n
  BY <1>1, FS_Interval
<1>4. PICK f \in [Free -> new] :
        /\ \A i, j \in Free : f[i] = f[j] => i = j
        /\ d = [i \in DOMAIN commands \cup Free |-> IF i \in DOMAIN commands THEN commands[i] ELSE f[i]]
  <2> DEFINE All == {g \in [Free -> new] : \A i, j \in Free : g[i] = g[j] => i = j}
             With(f) == [i \in DOMAIN commands \cup Free |-> IF i \in DOMAIN commands THEN commands[i] ELSE f[i]]
  <2>1. d \in {With(f) : f \in All}
    BY <1>3 DEF Interned
  <2>2. PICK f \in All : d = With(f)
    <3> HIDE DEF All, With
    <3> QED BY <2>1
  <2>3. f \in [Free -> new] /\ \A i, j \in Free : f[i] = f[j] => i = j
    BY <2>2
  <2> HIDE DEF Free, new, All
  <2> QED BY <2>2, <2>3
<1>5. \A name \in new : \E i \in Free : f[i] = name
  <2> HIDE DEF new, k
  <2>1. IsFiniteSet(Free) /\ Cardinality(Free) = k
    <3>1. n + 1 \in Int /\ n + k \in Int
      BY <1>2
    <3>2. Cardinality(Free) = IF n + 1 > n + k THEN 0 ELSE (n + k) - (n + 1) + 1
      BY <3>1, FS_Interval
    <3>3. IsFiniteSet(Free)
      BY <3>1, FS_Interval
    <3> QED BY <1>2, <3>2, <3>3
  <2>2. f \in Injection(Free, new)
    BY <1>4 DEF Injection, IsInjective
  <2>3. Cardinality(Free) = Cardinality(new)
    BY <2>1 DEF k
  <2>4. f \in Surjection(Free, new)
    BY <1>2, <2>2, <2>3, FS_Injection
  <2> QED BY <2>4 DEF Surjection
<1>6. DOMAIN d = 1..(n + k)
  <2> HIDE DEF k
  <2>1. DOMAIN d = (1..n) \cup Free
    BY <1>1, <1>4
  <2> QED BY <1>2, <2>1
<1>7. \A i \in DOMAIN commands : i \in DOMAIN d /\ d[i] = commands[i]
  BY <1>4
<1>8. \A i \in Free : i \notin DOMAIN commands => i \in DOMAIN d /\ d[i] = f[i]
  BY <1>4
<1>9. \A i \in Free : i \notin DOMAIN commands
  <2> HIDE DEF k
  <2> QED BY <1>1, <1>2
<1>10. \A i \in DOMAIN d : i \in DOMAIN commands \/ i \in Free
  BY <1>4
<1>11. \A i \in Free : f[i] \in new
  BY <1>4
<1>12. \A i, j \in DOMAIN d : d[i] = d[j] => i = j
  <2> SUFFICES ASSUME NEW i \in DOMAIN d, NEW j \in DOMAIN d, d[i] = d[j]
               PROVE  i = j
    OBVIOUS
  <2>1. CASE i \in DOMAIN commands /\ j \in DOMAIN commands
    BY <1>7, <2>1 DEF IsDictionary
  <2>2. CASE i \in DOMAIN commands /\ j \in Free
    BY <1>7, <1>8, <1>9, <1>11, <2>2
  <2>3. CASE i \in Free /\ j \in DOMAIN commands
    BY <1>7, <1>8, <1>9, <1>11, <2>3
  <2>4. CASE i \in Free /\ j \in Free
    BY <1>4, <1>8, <1>9, <2>4
  <2> HIDE DEF Free, new, k
  <2> QED BY <1>10, <2>1, <2>2, <2>3, <2>4
<1>13. \A name \in names : \E i \in DOMAIN d : d[i] = name
  <2> SUFFICES ASSUME NEW name \in names
               PROVE  \E i \in DOMAIN d : d[i] = name
    OBVIOUS
  <2>1. CASE name \in new
    BY <1>5, <1>8, <1>9, <2>1
  <2>2. CASE name \notin new
    BY <1>7, <2>2
  <2> QED BY <2>1, <2>2
<1>14. n + k \in Nat
  <2> HIDE DEF k
  <2> QED BY <1>2
<1>15. IsDictionary(d)
  <2> HIDE DEF k
  <2> QED BY <1>6, <1>12, <1>14 DEF IsDictionary
<1> QED BY <1>7, <1>13, <1>15

\* The id of a name that a dictionary has.
LEMMA IdOfName ==
  ASSUME NEW commands, NEW name, \E i \in DOMAIN commands : commands[i] = name
  PROVE  CommandId(commands, name) \in DOMAIN commands /\ commands[CommandId(commands, name)] = name
BY DEF CommandId

(* The names of a list, and of the lists, are as many. *)
LEMMA NamesAreFinite ==
  ASSUME NEW all, IsFiniteSet(all), \A c \in all : IsCapture(c)
  PROVE  IsFiniteSet(Named(all))
<1> DEFINE In(c) == {c.list[i].command : i \in DOMAIN c.list}
           g == [c \in all |-> In(c)]
<1>1. ASSUME NEW c \in all
      PROVE  IsFiniteSet(In(c))
  <2> DEFINE f == [i \in DOMAIN c.list |-> c.list[i].command]
  <2>1. IsFiniteSet(DOMAIN c.list)
    <3>1. Len(c.list) \in Nat /\ DOMAIN c.list = 1..Len(c.list)
      BY DEF IsCapture
    <3>2. IsFiniteSet(1..Len(c.list))
      BY <3>1, FS_Interval
    <3> QED BY <3>1, <3>2
  <2>2. IsFiniteSet({f[i] : i \in DOMAIN f})
    BY <2>1, FiniteRange
  <2>3. {f[i] : i \in DOMAIN f} = In(c)
    OBVIOUS
  <2> QED BY <2>2, <2>3
<1>2. IsFiniteSet({g[c] : c \in DOMAIN g})
  BY FiniteRange
<1>3. {g[c] : c \in DOMAIN g} = {In(c) : c \in all}
  OBVIOUS
<1> HIDE DEF g
<1>4. \A T \in {In(c) : c \in all} : IsFiniteSet(T)
  BY <1>1
<1>5. IsFiniteSet(UNION {In(c) : c \in all})
  BY <1>2, <1>3, <1>4, FS_UNION
<1> QED BY <1>5 DEF Named

\* The rows of a list are its entries, each with the id of its command where there are ids.
LEMMA RowsOfTell ==
  ASSUME NEW c, IsCapture(c), NEW commands, NEW ids \in BOOLEAN,
         ids => \A i \in DOMAIN c.list : \E j \in DOMAIN commands : commands[j] = c.list[i].command
  PROVE  LET rows == RowsOf(c, commands, ids)
         IN /\ IsFiniteSet(rows)
            /\ \A r \in rows :
                 /\ DOMAIN r = RowFields /\ OfCapture(r, c) /\ r.rank \in DOMAIN c.list
                 /\ r.started = c.list[r.rank].started
                 /\ r.cpu = c.list[r.rank].cpu /\ r.memory = c.list[r.rank].memory
                 /\ IF ids THEN r.command \in DOMAIN commands /\ commands[r.command] = c.list[r.rank].command
                    ELSE r.command = c.list[r.rank].command
            /\ \A i \in DOMAIN c.list : \E r \in rows : r.rank = i
            /\ \A r, q \in rows : r.rank = q.rank => r = q
<1> DEFINE Id(i) == IF ids THEN CommandId(commands, c.list[i].command) ELSE c.list[i].command
           R(i) == Row(c, i, Id(i), c.list[i].started, c.list[i].cpu, c.list[i].memory)
           f == [i \in DOMAIN c.list |-> R(i)]
           rows == RowsOf(c, commands, ids)
<1>1. rows = {R(i) : i \in DOMAIN c.list}
  BY DEF RowsOf
<1>2. IsFiniteSet(rows)
  <2>1. IsFiniteSet(DOMAIN c.list)
    <3>1. Len(c.list) \in Nat /\ DOMAIN c.list = 1..Len(c.list)
      BY DEF IsCapture
    <3>2. IsFiniteSet(1..Len(c.list))
      BY <3>1, FS_Interval
    <3> QED BY <3>1, <3>2
  <2>2. IsFiniteSet({f[i] : i \in DOMAIN f})
    BY <2>1, FiniteRange
  <2>3. {f[i] : i \in DOMAIN f} = {R(i) : i \in DOMAIN c.list}
    OBVIOUS
  <2> QED BY <1>1, <2>2, <2>3
<1>3. ASSUME NEW i \in DOMAIN c.list
      PROVE  /\ DOMAIN R(i) = RowFields /\ OfCapture(R(i), c) /\ R(i).rank = i
             /\ R(i).started = c.list[i].started
             /\ R(i).cpu = c.list[i].cpu /\ R(i).memory = c.list[i].memory /\ R(i).command = Id(i)
  <2> HIDE DEF Id
  <2> QED BY DEF Row, RowFields, OfCapture
<1>4. ASSUME NEW i \in DOMAIN c.list
      PROVE  IF ids THEN Id(i) \in DOMAIN commands /\ commands[Id(i)] = c.list[i].command
             ELSE Id(i) = c.list[i].command
  BY IdOfName
<1> HIDE DEF R, Id, rows, f
<1>5. ASSUME NEW r \in rows
      PROVE  /\ DOMAIN r = RowFields /\ OfCapture(r, c) /\ r.rank \in DOMAIN c.list
             /\ r.started = c.list[r.rank].started
             /\ r.cpu = c.list[r.rank].cpu /\ r.memory = c.list[r.rank].memory
             /\ IF ids THEN r.command \in DOMAIN commands /\ commands[r.command] = c.list[r.rank].command
                ELSE r.command = c.list[r.rank].command
  <2>1. PICK i \in DOMAIN c.list : r = R(i)
    BY <1>1
  <2>2. r.rank = i /\ r.command = Id(i)
    BY <1>3, <2>1
  <2> QED BY <1>3, <1>4, <2>1, <2>2
<1>6. \A i \in DOMAIN c.list : \E r \in rows : r.rank = i
  BY <1>1, <1>3
<1>7. \A r, q \in rows : r.rank = q.rank => r = q
  BY <1>1, <1>3
<1> QED BY <1>2, <1>5, <1>6, <1>7 DEF rows
-----------------------------------------------------------------------------
(* Process lists through the steps. *)

RowInv == Captures /\ RowsTell /\ Oversized

\* The lists of an old file.
LEMMA InitRows ==
  ASSUME MigrationInit
  PROVE  RowInv
<1>0. PICK old \in OldFile :
        \E commands \in Interned(<<>>, IF old.version >= 2 THEN Named(old.captures) ELSE {}) :
          /\ file.version = old.version /\ file.tables = old.tables /\ file.commands = commands
          /\ file.rows = UNION {RowsOf(c, commands, old.version >= 2) : c \in old.captures}
          /\ captures = old.captures
  BY InitFile
<1>1. PICK commands \in Interned(<<>>, IF old.version >= 2 THEN Named(old.captures) ELSE {}) :
        /\ file.version = old.version /\ file.tables = old.tables /\ file.commands = commands
        /\ file.rows = UNION {RowsOf(c, commands, old.version >= 2) : c \in old.captures}
        /\ captures = old.captures
  BY <1>0
<1>2. /\ old.version \in 0..5 /\ IsFiniteSet(captures)
      /\ captures \subseteq [table : {"minute", "fast"}, at : Time, ranked : {FALSE}, list : Seq(Entries(old.version))]
      /\ \A c, d \in captures : c.table = d.table /\ c.at = d.at => c = d
      /\ DOMAIN old.tables = {} => captures = {}
      /\ old.version = 0 => DOMAIN old.tables = {} \/ Legacy(old.tables)
  BY <1>1, OldFiles
<1>3. ASSUME NEW c \in captures
      PROVE  /\ IsCapture(c) /\ ~c.ranked
             /\ \A i \in DOMAIN c.list : old.version < 4 => c.list[i].started # "ms"
             /\ \A i \in DOMAIN c.list : c.list[i].cpu = 0 /\ c.list[i].memory = 0
  <2>1. c.list \in Seq(Entries(old.version)) /\ c.ranked = FALSE
    BY <1>2
  <2>2. Len(c.list) \in Nat /\ DOMAIN c.list = 1..Len(c.list)
    BY <2>1
  <2>3. \A i \in DOMAIN c.list : c.list[i] \in Entries(old.version)
    BY <2>1
  <2>4. \A i \in DOMAIN c.list :
          /\ c.list[i].started \in {"text", "junk", "ms", "none"}
          /\ old.version < 4 => c.list[i].started # "ms"
          /\ c.list[i].cpu = 0 /\ c.list[i].memory = 0
    BY <2>3 DEF Entries
  <2> QED BY <2>1, <2>2, <2>4 DEF IsCapture
<1>4. Captures
  <2>1. file.version = 0 /\ from = 6 => captures = {}
    <3>1. from = IF file.version = 0 /\ "metric_samples" \notin DOMAIN file.tables THEN 6 ELSE file.version
      BY DEF MigrationInit, IsNew
    <3> QED BY <1>1, <1>2, <3>1 DEF Legacy
  <2> QED BY <1>1, <1>2, <1>3, <2>1 DEF Captures
<1> DEFINE ids == old.version >= 2
           names == IF ids THEN Named(captures) ELSE {}
<1>5. /\ IsDictionary(commands)
      /\ ids => \A c \in captures : \A i \in DOMAIN c.list : \E j \in DOMAIN commands : commands[j] = c.list[i].command
  <2>1. IsDictionary(<<>>)
    <3>1. 0 \in Nat /\ DOMAIN <<>> = 1..0 /\ DOMAIN <<>> = {}
      OBVIOUS
    <3> QED BY <3>1 DEF IsDictionary
  <2>2. IsFiniteSet(names)
    BY <1>2, <1>3, NamesAreFinite, FS_EmptySet
  <2>3. IsDictionary(commands) /\ \A name \in names : \E j \in DOMAIN commands : commands[j] = name
    BY <1>1, <2>1, <2>2, InternedIs
  <2>4. ASSUME ids, NEW c \in captures, NEW i \in DOMAIN c.list
        PROVE  \E j \in DOMAIN commands : commands[j] = c.list[i].command
    <3>1. c.list[i].command \in Named(captures)
      BY DEF Named
    <3>2. names = Named(captures)
      BY <2>4
    <3> QED BY <2>3, <3>1, <3>2
  <2> QED BY <2>3, <2>4
<1> DEFINE R(c) == RowsOf(c, commands, ids)
<1>6. ASSUME NEW c \in captures
      PROVE  /\ IsFiniteSet(R(c))
             /\ \A r \in R(c) :
                  /\ DOMAIN r = RowFields /\ OfCapture(r, c) /\ r.rank \in DOMAIN c.list
                  /\ r.started = c.list[r.rank].started
                  /\ r.cpu = 0 /\ r.memory = 0
                  /\ IF ids THEN r.command \in DOMAIN commands /\ commands[r.command] = c.list[r.rank].command
                     ELSE r.command = c.list[r.rank].command
             /\ \A i \in DOMAIN c.list : \E r \in R(c) : r.rank = i
             /\ \A r, q \in R(c) : r.rank = q.rank => r = q
  <2>1. ids => \A i \in DOMAIN c.list : \E j \in DOMAIN commands : commands[j] = c.list[i].command
    BY <1>5
  <2>2. ids \in BOOLEAN /\ IsCapture(c)
    BY <1>3
  <2> HIDE DEF ids
  <2> QED BY <1>3, <2>1, <2>2, RowsOfTell
<1>7. file.rows = UNION {R(c) : c \in captures}
  BY <1>1
<1>8. file.version = old.version /\ file.commands = commands
  BY <1>1
<1>9. file.version >= 2 <=> ids
  BY <1>8
<1> HIDE DEF R, ids, names
<1>10. IsFiniteSet(file.rows)
  <2> DEFINE g == [c \in captures |-> R(c)]
  <2>1. IsFiniteSet({g[c] : c \in DOMAIN g})
    BY <1>2, FiniteRange
  <2>2. {g[c] : c \in DOMAIN g} = {R(c) : c \in captures}
    OBVIOUS
  <2> HIDE DEF g
  <2>3. \A T \in {R(c) : c \in captures} : IsFiniteSet(T)
    BY <1>6
  <2> QED BY <1>7, <2>1, <2>2, <2>3, FS_UNION
<1>11. ASSUME NEW r \in file.rows
       PROVE  /\ DOMAIN r = RowFields /\ r.cpu = 0 /\ (file.version >= 2 => r.command \in DOMAIN file.commands)
              /\ \E c \in captures : r \in R(c) /\ OfCapture(r, c) /\ Tells(r, c)
  <2>1. PICK c \in captures : r \in R(c)
    BY <1>7
  <2>2. Name(r) = c.list[r.rank].command
    BY <1>6, <1>8, <1>9, <2>1 DEF Name
  <2>3. r.rank \in DOMAIN c.list /\ r.started = c.list[r.rank].started
    BY <1>6, <2>1
  <2>4. Start(c.list[r.rank].started) = c.list[r.rank].started
    <3>1. /\ c.list[r.rank].started \in {"text", "junk", "ms", "none"}
          /\ c.list[r.rank].started = "ms" => old.version >= 4
      BY <1>2, <1>3, <2>3 DEF IsCapture
    <3>2. old.version >= 4 => c.list[r.rank].started \in {"ms", "none"}
      <4>1. c.list \in Seq(Entries(old.version))
        BY <1>2
      <4>2. c.list[r.rank] \in Entries(old.version)
        BY <2>3, <4>1
      <4> QED BY <1>2, <4>2 DEF Entries
    <3> QED BY <1>8, <3>1, <3>2 DEF Start, Converted
  <2>5. r.cpu = 0 /\ r.memory = 0 /\ ~c.ranked
    BY <1>3, <1>6, <2>1
  <2>6. Tells(r, c)
    BY <2>2, <2>3, <2>4, <2>5 DEF Tells
  <2>7. DOMAIN r = RowFields /\ OfCapture(r, c) /\ (file.version >= 2 => r.command \in DOMAIN file.commands)
    BY <1>6, <1>8, <1>9, <2>1
  <2> QED BY <2>1, <2>5, <2>6, <2>7
<1>12. ASSUME NEW c \in captures, NEW i \in DOMAIN c.list
       PROVE  \E r \in file.rows : OfCapture(r, c) /\ r.rank = i
  <2>1. PICK r \in R(c) : r.rank = i
    BY <1>6
  <2> QED BY <1>6, <1>7, <2>1
<1>13. ASSUME NEW r \in file.rows, NEW q \in file.rows, r.table = q.table, r.at = q.at, r.rank = q.rank
       PROVE  r = q
  <2>1. PICK c \in captures : r \in R(c) /\ OfCapture(r, c)
    BY <1>11
  <2>2. PICK d \in captures : q \in R(d) /\ OfCapture(q, d)
    BY <1>11
  <2>3. c = d
    BY <1>2, <1>13, <2>1, <2>2 DEF OfCapture
  <2> QED BY <1>6, <1>13, <2>1, <2>2, <2>3
<1>14. RowsTell
  BY <1>5, <1>8, <1>10, <1>11, <1>12, <1>13 DEF RowsTell
<1>15. Oversized
  BY DEF MigrationInit, Oversized
<1> QED BY <1>4, <1>14, <1>15 DEF RowInv

(* A step of the version, with the lists that there were. *)
LEMMA CapturesStay ==
  ASSUME Captures, UNCHANGED <<captures, from>>, file.version \in 0..6, file'.version \in 0..6,
         file.version <= file'.version
  PROVE  Captures'
<1>1. /\ file'.version < 6 => file.version < 6 /\ (file'.version < 4 => file.version < 4)
      /\ file'.version = 0 => file.version = 0
  OBVIOUS
<1> QED BY <1>1 DEF Captures

\* The rows that a step makes of the rows: each tells what it told.
LEMMA RowsFollow ==
  ASSUME Captures, RowsTell, UNCHANGED captures, IsDictionary(file'.commands),
         NEW f, DOMAIN f = file.rows, file'.rows = {f[r] : r \in file.rows},
         \A r \in file.rows :
           /\ DOMAIN f[r] = RowFields /\ f[r].table = r.table /\ f[r].at = r.at /\ f[r].rank = r.rank
           /\ f[r].cpu \in {r.cpu, r.rank} /\ (file'.version < 6 => f[r].cpu = r.cpu /\ file.version < 6)
           /\ file'.version >= 2 => f[r].command \in DOMAIN file'.commands,
         \A r \in file.rows : \A c \in captures : OfCapture(r, c) /\ Tells(r, c) => Tells(f[r], c)',
         \/ \A r \in file.rows : f[r].cpu = r.cpu
         \/ \A r \in file.rows : f[r].cpu = r.rank
  PROVE  RowsTell'
<1>1. IsFiniteSet(file'.rows)
  <2>1. IsFiniteSet({f[r] : r \in DOMAIN f})
    BY FiniteRange DEF RowsTell
  <2> QED BY <2>1
<1>2. \A r \in file'.rows : DOMAIN r = RowFields /\ (file'.version >= 2 => r.command \in DOMAIN file'.commands)
  OBVIOUS
<1>3. \A r \in file.rows : \A c : OfCapture(f[r], c) <=> OfCapture(r, c)
  BY DEF OfCapture
<1>4. ASSUME NEW x \in file'.rows
      PROVE  \E c \in captures : OfCapture(x, c) /\ Tells(x, c)'
  <2>1. PICK r \in file.rows : x = f[r]
    OBVIOUS
  <2>2. PICK c \in captures : OfCapture(r, c) /\ Tells(r, c)
    BY DEF RowsTell
  <2>3. Tells(f[r], c)' /\ OfCapture(f[r], c)
    BY <1>3, <2>2
  <2> QED BY <2>1, <2>3
<1>5. ASSUME NEW c \in captures, NEW i \in DOMAIN c.list
      PROVE  \E x \in file'.rows : OfCapture(x, c) /\ x.rank = i
  <2>1. PICK r \in file.rows : OfCapture(r, c) /\ r.rank = i
    BY DEF RowsTell
  <2>2. f[r] \in file'.rows /\ OfCapture(f[r], c) /\ f[r].rank = i
    BY <1>3, <2>1
  <2> QED BY <2>2
<1>6. ASSUME NEW x \in file'.rows, NEW y \in file'.rows, x.table = y.table, x.at = y.at, x.rank = y.rank
      PROVE  x = y
  <2>1. PICK r \in file.rows : x = f[r]
    OBVIOUS
  <2>2. PICK q \in file.rows : y = f[q]
    OBVIOUS
  <2>3. r.table = q.table /\ r.at = q.at /\ r.rank = q.rank
    BY <1>6, <2>1, <2>2
  <2>4. r = q
    BY <2>3 DEF RowsTell
  <2> QED BY <2>1, <2>2, <2>4
<1>7. file'.version < 6 => \A x \in file'.rows : x.cpu = 0
  BY DEF RowsTell
<1>8. ASSUME NEW c \in captures, ~c.ranked
      PROVE  \/ \A x \in file'.rows : OfCapture(x, c) => x.cpu = 0
             \/ \A x \in file'.rows : OfCapture(x, c) => x.cpu = x.rank
  <2>1. \/ \A r \in file.rows : OfCapture(r, c) => r.cpu = 0
        \/ \A r \in file.rows : OfCapture(r, c) => r.cpu = r.rank
    BY <1>8 DEF RowsTell
  <2>2. CASE \A r \in file.rows : f[r].cpu = r.cpu
    BY <1>3, <2>1, <2>2
  <2>3. CASE \A r \in file.rows : f[r].cpu = r.rank
    BY <1>3, <2>3
  <2> QED BY <2>2, <2>3
<1>9. /\ \A r \in file'.rows : \E c \in captures' : OfCapture(r, c) /\ Tells(r, c)'
      /\ \A c \in captures' : \A i \in DOMAIN c.list : \E r \in file'.rows : OfCapture(r, c) /\ r.rank = i
      /\ \A c \in captures' : ~c.ranked =>
           \/ \A r \in file'.rows : OfCapture(r, c) => r.cpu = 0
           \/ \A r \in file'.rows : OfCapture(r, c) => r.cpu = r.rank
  BY <1>4, <1>5, <1>8
<1> QED BY <1>1, <1>2, <1>6, <1>7, <1>9 DEF RowsTell

\* The rows stay, and what they mean.
LEMMA RowsStay ==
  ASSUME Captures, RowsTell, UNCHANGED captures, Same({"rows", "commands"}),
         file.version \in 0..6, file'.version \in 0..6, file.version <= file'.version,
         \/ file.version >= 2 <=> file'.version >= 2
         \/ captures = {},
         \/ file.version >= 4 <=> file'.version >= 4
         \/ captures = {}
  PROVE  RowsTell'
<1>1. PICK f : file'.rows = {f[r] : r \in file.rows} /\ DOMAIN f = file.rows /\ \A r \in file.rows : f[r] = r
  <2> DEFINE g == [r \in file.rows |-> r]
  <2>1. file'.rows = {g[r] : r \in file.rows} /\ DOMAIN g = file.rows /\ \A r \in file.rows : g[r] = r
    BY DEF Same
  <2> HIDE DEF g
  <2> QED BY <2>1
<1>2. file'.commands = file.commands /\ IsDictionary(file'.commands)
  BY DEF Same, RowsTell
<1>3. captures = {} => file.rows = {}
  BY DEF RowsTell
<1>4. ASSUME NEW r \in file.rows
      PROVE  /\ DOMAIN r = RowFields /\ (file'.version < 6 => file.version < 6)
             /\ file'.version >= 2 => r.command \in DOMAIN file'.commands
  BY <1>2, <1>3 DEF RowsTell
<1>5. ASSUME NEW r \in file.rows, NEW c \in captures, Tells(r, c)
      PROVE  Tells(r, c)'
  <2>1. (file.version >= 2 <=> file'.version >= 2) /\ (file.version >= 4 <=> file'.version >= 4)
    BY <1>5
  <2>2. Name(r)' = Name(r)
    BY <1>2, <2>1 DEF Name
  <2>3. Start(c.list[r.rank].started)' = Start(c.list[r.rank].started)
    BY <2>1 DEF Start
  <2> QED BY <1>5, <2>2, <2>3 DEF Tells
<1>6. \A r \in file.rows : \A c \in captures : OfCapture(r, c) /\ Tells(r, c) => Tells(f[r], c)'
  BY <1>1, <1>5
<1>7. \A r \in file.rows :
        /\ DOMAIN f[r] = RowFields /\ f[r].table = r.table /\ f[r].at = r.at /\ f[r].rank = r.rank
        /\ f[r].cpu \in {r.cpu, r.rank} /\ (file'.version < 6 => f[r].cpu = r.cpu /\ file.version < 6)
        /\ file'.version >= 2 => f[r].command \in DOMAIN file'.commands
  BY <1>1, <1>4
<1>8. \A r \in file.rows : f[r].cpu = r.cpu
  BY <1>1
<1> QED BY <1>1, <1>2, <1>6, <1>7, <1>8, RowsFollow

(* The commands are replaced by their ids. *)
LEMMA InternRows ==
  ASSUME CoreInv, Captures, RowsTell, NEW p \in Starter, InternsCommands(p)
  PROVE  RowsTell'
<1> DEFINE New(r) == [r EXCEPT !.command = CommandId(file'.commands, @)]
           names == {r.command : r \in file.rows}
<1>1. /\ IsAt(p, "v1") /\ file'.version = 2 /\ UNCHANGED captures
      /\ file'.commands \in Interned(<<>>, names) /\ file'.rows = {New(r) : r \in file.rows}
  BY InternEffect DEF CoreInv, Typed, Rest
<1>2. file.version = 1
  BY <1>1, AtVersion
<1>3. IsDictionary(file'.commands) /\ \A name \in names : \E j \in DOMAIN file'.commands : file'.commands[j] = name
  <2>1. IsDictionary(<<>>)
    <3>1. 0 \in Nat /\ DOMAIN <<>> = 1..0 /\ DOMAIN <<>> = {}
      OBVIOUS
    <3> QED BY <3>1 DEF IsDictionary
  <2>2. IsFiniteSet(names)
    <3> DEFINE g == [r \in file.rows |-> r.command]
    <3>1. DOMAIN g = file.rows /\ IsFiniteSet(file.rows)
      BY DEF RowsTell
    <3>2. {g[r] : r \in DOMAIN g} = names
      OBVIOUS
    <3> HIDE DEF g
    <3>3. IsFiniteSet({g[r] : r \in DOMAIN g})
      BY <3>1, FiniteRange
    <3> QED BY <3>2, <3>3
  <2> HIDE DEF names
  <2> QED BY <1>1, <2>1, <2>2, InternedIs
<1>4. ASSUME NEW r \in file.rows
      PROVE  /\ DOMAIN New(r) = RowFields /\ New(r).table = r.table /\ New(r).at = r.at /\ New(r).rank = r.rank
             /\ New(r).cpu = r.cpu /\ New(r).memory = r.memory /\ New(r).started = r.started
             /\ New(r).command \in DOMAIN file'.commands /\ file'.commands[New(r).command] = r.command
  <2>1. r.command \in names /\ DOMAIN r = RowFields
    BY DEF RowsTell
  <2>2. /\ CommandId(file'.commands, r.command) \in DOMAIN file'.commands
        /\ file'.commands[CommandId(file'.commands, r.command)] = r.command
    BY <1>3, <2>1, IdOfName
  <2> QED BY <2>1, <2>2 DEF RowFields
<1>5. PICK f : DOMAIN f = file.rows /\ file'.rows = {f[r] : r \in file.rows} /\ \A r \in file.rows : f[r] = New(r)
  <2> DEFINE g == [r \in file.rows |-> New(r)]
  <2>1. file'.rows = {g[r] : r \in file.rows} /\ DOMAIN g = file.rows /\ \A r \in file.rows : g[r] = New(r)
    BY <1>1
  <2> HIDE DEF g, New
  <2> QED BY <2>1
<1>6. \A r \in file.rows :
        /\ DOMAIN f[r] = RowFields /\ f[r].table = r.table /\ f[r].at = r.at /\ f[r].rank = r.rank
        /\ f[r].cpu = r.cpu /\ f[r].memory = r.memory /\ f[r].started = r.started
        /\ f[r].command \in DOMAIN file'.commands /\ file'.commands[f[r].command] = r.command
  <2> HIDE DEF New
  <2> QED BY <1>4, <1>5
<1> HIDE DEF New, names
<1>7. ASSUME NEW r \in file.rows, NEW c \in captures, Tells(r, c)
      PROVE  Tells(f[r], c)'
  <2>1. Name(f[r])' = Name(r)
    BY <1>1, <1>2, <1>6 DEF Name
  <2>2. Start(c.list[r.rank].started)' = Start(c.list[r.rank].started)
    BY <1>1, <1>2 DEF Start
  <2>3. f[r].rank = r.rank /\ f[r].cpu = r.cpu /\ f[r].memory = r.memory /\ f[r].started = r.started
    BY <1>6
  <2> QED BY <1>7, <2>1, <2>2, <2>3 DEF Tells
<1>8. /\ \A r \in file.rows :
           /\ DOMAIN f[r] = RowFields /\ f[r].table = r.table /\ f[r].at = r.at /\ f[r].rank = r.rank
           /\ f[r].cpu \in {r.cpu, r.rank} /\ (file'.version < 6 => f[r].cpu = r.cpu /\ file.version < 6)
           /\ file'.version >= 2 => f[r].command \in DOMAIN file'.commands
      /\ \A r \in file.rows : f[r].cpu = r.cpu
  BY <1>2, <1>6
<1>9. \A r \in file.rows : \A c \in captures : OfCapture(r, c) /\ Tells(r, c) => Tells(f[r], c)'
  BY <1>7
<1> QED BY <1>1, <1>3, <1>5, <1>8, <1>9, RowsFollow

(* Start times become numbers. *)
LEMMA ConvertRows ==
  ASSUME CoreInv, Captures, RowsTell, NEW p \in Starter, ConvertsStartTimes(p)
  PROVE  RowsTell'
<1> DEFINE New(r) == [r EXCEPT !.started = IF @ = "text" THEN "ms" ELSE "none"]
<1>1. /\ IsAt(p, "v3") /\ file'.version = 4 /\ UNCHANGED captures /\ file'.commands = file.commands
      /\ file'.rows = {New(r) : r \in file.rows}
  BY ConvertEffect DEF CoreInv, Typed, Rest, Same
<1>2. file.version = 3
  BY <1>1, AtVersion
<1>3. IsDictionary(file'.commands)
  BY <1>1 DEF RowsTell
<1>4. ASSUME NEW r \in file.rows
      PROVE  /\ DOMAIN New(r) = RowFields /\ New(r).table = r.table /\ New(r).at = r.at /\ New(r).rank = r.rank
             /\ New(r).cpu = r.cpu /\ New(r).memory = r.memory /\ New(r).command = r.command
             /\ New(r).started = IF r.started = "text" THEN "ms" ELSE "none"
             /\ r.command \in DOMAIN file'.commands
  BY <1>1, <1>2 DEF RowsTell, RowFields
<1>5. PICK f : DOMAIN f = file.rows /\ file'.rows = {f[r] : r \in file.rows} /\ \A r \in file.rows : f[r] = New(r)
  <2> DEFINE g == [r \in file.rows |-> New(r)]
  <2>1. file'.rows = {g[r] : r \in file.rows} /\ DOMAIN g = file.rows /\ \A r \in file.rows : g[r] = New(r)
    BY <1>1
  <2> HIDE DEF g, New
  <2> QED BY <2>1
<1> HIDE DEF New
<1>6. \A r \in file.rows :
        /\ DOMAIN f[r] = RowFields /\ f[r].table = r.table /\ f[r].at = r.at /\ f[r].rank = r.rank
        /\ f[r].cpu = r.cpu /\ f[r].memory = r.memory /\ f[r].command = r.command
        /\ f[r].started = IF r.started = "text" THEN "ms" ELSE "none"
        /\ f[r].command \in DOMAIN file'.commands
  BY <1>4, <1>5
<1>7. ASSUME NEW r \in file.rows, NEW c \in captures, Tells(r, c)
      PROVE  Tells(f[r], c)'
  <2>1. Name(f[r])' = Name(r)
    BY <1>1, <1>2, <1>6 DEF Name
  <2>2. r.rank \in DOMAIN c.list /\ r.started = c.list[r.rank].started
    BY <1>2, <1>7 DEF Tells, Start
  <2>3. c.list[r.rank].started \in {"text", "junk", "none"}
    BY <1>2, <2>2 DEF Captures, IsCapture
  <2>4. f[r].started = Start(c.list[r.rank].started)'
    BY <1>1, <1>6, <2>2, <2>3 DEF Start, Converted
  <2>5. f[r].rank = r.rank /\ f[r].cpu = r.cpu /\ f[r].memory = r.memory
    BY <1>6
  <2> QED BY <1>7, <2>1, <2>4, <2>5 DEF Tells
<1>8. /\ \A r \in file.rows :
           /\ DOMAIN f[r] = RowFields /\ f[r].table = r.table /\ f[r].at = r.at /\ f[r].rank = r.rank
           /\ f[r].cpu \in {r.cpu, r.rank} /\ (file'.version < 6 => f[r].cpu = r.cpu /\ file.version < 6)
           /\ file'.version >= 2 => f[r].command \in DOMAIN file'.commands
      /\ \A r \in file.rows : f[r].cpu = r.cpu
  BY <1>2, <1>6
<1>9. \A r \in file.rows : \A c \in captures : OfCapture(r, c) /\ Tells(r, c) => Tells(f[r], c)'
  BY <1>7
<1> QED BY <1>1, <1>3, <1>5, <1>8, <1>9, RowsFollow

(* Positions become ranks by CPU: no list has any before. *)
LEMMA RankRows ==
  ASSUME CoreInv, Captures, RowsTell, NEW p \in Starter, Ranks(p)
  PROVE  RowsTell'
<1> DEFINE New(r) == [r EXCEPT !.cpu = r.rank]
<1>1. /\ file.version = 5 /\ file'.version = 6 /\ UNCHANGED captures /\ file'.commands = file.commands
      /\ file'.rows = {New(r) : r \in file.rows}
  BY DEF Ranks, Rest, Same
<1>2. IsDictionary(file'.commands)
  BY <1>1 DEF RowsTell
<1>3. ASSUME NEW r \in file.rows
      PROVE  /\ DOMAIN New(r) = RowFields /\ New(r).table = r.table /\ New(r).at = r.at /\ New(r).rank = r.rank
             /\ New(r).cpu = r.rank /\ New(r).memory = r.memory /\ New(r).command = r.command
             /\ New(r).started = r.started /\ r.command \in DOMAIN file'.commands
  BY <1>1 DEF RowsTell, RowFields
<1>4. PICK f : DOMAIN f = file.rows /\ file'.rows = {f[r] : r \in file.rows} /\ \A r \in file.rows : f[r] = New(r)
  <2> DEFINE g == [r \in file.rows |-> New(r)]
  <2>1. file'.rows = {g[r] : r \in file.rows} /\ DOMAIN g = file.rows /\ \A r \in file.rows : g[r] = New(r)
    BY <1>1
  <2> HIDE DEF g, New
  <2> QED BY <2>1
<1> HIDE DEF New
<1>5. \A r \in file.rows :
        /\ DOMAIN f[r] = RowFields /\ f[r].table = r.table /\ f[r].at = r.at /\ f[r].rank = r.rank
        /\ f[r].cpu = r.rank /\ f[r].memory = r.memory /\ f[r].command = r.command
        /\ f[r].started = r.started /\ f[r].command \in DOMAIN file'.commands
  BY <1>3, <1>4
<1>6. ASSUME NEW r \in file.rows, NEW c \in captures, Tells(r, c)
      PROVE  Tells(f[r], c)'
  <2>1. Name(f[r])' = Name(r)
    BY <1>1, <1>5 DEF Name
  <2>2. Start(c.list[r.rank].started)' = Start(c.list[r.rank].started)
    BY <1>1 DEF Start
  <2>3. ~c.ranked
    BY <1>1 DEF Captures
  <2>4. f[r].rank = r.rank /\ f[r].cpu = r.rank /\ f[r].memory = r.memory /\ f[r].started = r.started
    BY <1>5
  <2> QED BY <1>6, <2>1, <2>2, <2>3, <2>4 DEF Tells
<1>7. /\ \A r \in file.rows :
           /\ DOMAIN f[r] = RowFields /\ f[r].table = r.table /\ f[r].at = r.at /\ f[r].rank = r.rank
           /\ f[r].cpu \in {r.cpu, r.rank} /\ (file'.version < 6 => f[r].cpu = r.cpu /\ file.version < 6)
           /\ file'.version >= 2 => f[r].command \in DOMAIN file'.commands
      /\ \A r \in file.rows : f[r].cpu = r.rank
  BY <1>1, <1>5
<1>8. \A r \in file.rows : \A c \in captures : OfCapture(r, c) /\ Tells(r, c) => Tells(f[r], c)'
  BY <1>6
<1> QED BY <1>1, <1>2, <1>4, <1>7, <1>8, RowsFollow

(* A daemon stores a list of an instant that has none. *)
LEMMA StoreRows ==
  ASSUME CoreInv, RowInv, NEW c, StoresList(c), IsCapture(c), file.version >= 5,
         file.version < 6 => ~c.ranked,
         \A i \in DOMAIN c.list : c.list[i].started \in {"ms", "none"}
  PROVE  RowInv'
<1> DEFINE new == RowsOf(c, file'.commands, TRUE)
<1>1. /\ UNCHANGED <<starter, from>> /\ file'.version = file.version /\ file.version \in 0..6
      /\ \A d \in captures : d.at # c.at
      /\ captures' = captures \cup {c}
      /\ file'.commands \in Interned(file.commands, Named({c}))
      /\ file'.rows = file.rows \cup new
  BY StoreEffect DEF CoreInv, Typed, Same, Fields
<1>2. Captures /\ RowsTell /\ Oversized
  BY DEF RowInv
<1>3. /\ IsDictionary(file'.commands)
      /\ \A i \in DOMAIN file.commands : i \in DOMAIN file'.commands /\ file'.commands[i] = file.commands[i]
      /\ \A i \in DOMAIN c.list : \E j \in DOMAIN file'.commands : file'.commands[j] = c.list[i].command
  <2>1. IsFiniteSet({c})
    BY FS_Singleton
  <2>2. IsFiniteSet(Named({c})) /\ \A i \in DOMAIN c.list : c.list[i].command \in Named({c})
    BY <2>1, NamesAreFinite DEF Named
  <2>3. IsDictionary(file.commands)
    BY <1>2 DEF RowsTell
  <2> DEFINE names == Named({c})
  <2>4. IsFiniteSet(names) /\ file'.commands \in Interned(file.commands, names)
    BY <1>1, <2>2
  <2> HIDE DEF names
  <2>5. /\ IsDictionary(file'.commands)
        /\ \A i \in DOMAIN file.commands : i \in DOMAIN file'.commands /\ file'.commands[i] = file.commands[i]
        /\ \A name \in names : \E j \in DOMAIN file'.commands : file'.commands[j] = name
    BY <2>3, <2>4, InternedIs
  <2> QED BY <2>2, <2>5 DEF names
<1>4. /\ IsFiniteSet(new)
      /\ \A r \in new :
           /\ DOMAIN r = RowFields /\ OfCapture(r, c) /\ r.rank \in DOMAIN c.list
           /\ r.started = c.list[r.rank].started
           /\ r.cpu = c.list[r.rank].cpu /\ r.memory = c.list[r.rank].memory
           /\ r.command \in DOMAIN file'.commands /\ file'.commands[r.command] = c.list[r.rank].command
      /\ \A i \in DOMAIN c.list : \E r \in new : r.rank = i
      /\ \A r, q \in new : r.rank = q.rank => r = q
  <2> DEFINE ids == TRUE
  <2>1. ids \in BOOLEAN /\ (ids => \A i \in DOMAIN c.list : \E j \in DOMAIN file'.commands :
                                    file'.commands[j] = c.list[i].command)
    BY <1>3
  <2>2. new = RowsOf(c, file'.commands, ids) /\ ids
    OBVIOUS
  <2> DEFINE rows == RowsOf(c, file'.commands, ids)
  <2> HIDE DEF new, ids
  <2>3. /\ IsFiniteSet(rows)
        /\ \A r \in rows :
             /\ DOMAIN r = RowFields /\ OfCapture(r, c) /\ r.rank \in DOMAIN c.list
             /\ r.started = c.list[r.rank].started
             /\ r.cpu = c.list[r.rank].cpu /\ r.memory = c.list[r.rank].memory
             /\ IF ids THEN /\ r.command \in DOMAIN file'.commands
                           /\ file'.commands[r.command] = c.list[r.rank].command
                ELSE r.command = c.list[r.rank].command
        /\ \A i \in DOMAIN c.list : \E r \in rows : r.rank = i
        /\ \A r, q \in rows : r.rank = q.rank => r = q
    BY <2>1, RowsOfTell
  <2>4. new = rows /\ ids
    BY <2>2
  <2> HIDE DEF rows
  <2> QED BY <2>3, <2>4
<1> HIDE DEF new
<1>5. Captures'
  <2>1. IsFiniteSet(captures')
    BY <1>1, <1>2, FS_AddElement DEF Captures
  <2>2. \A d, e \in captures' : d.table = e.table /\ d.at = e.at => d = e
    BY <1>1, <1>2 DEF Captures
  <2> QED BY <1>1, <1>2, <2>1, <2>2 DEF Captures
<1>6. ASSUME NEW r \in file.rows, NEW d \in captures, Tells(r, d)
      PROVE  Tells(r, d)'
  <2>1. r.command \in DOMAIN file.commands
    BY <1>1, <1>2 DEF RowsTell
  <2>2. Name(r)' = Name(r)
    BY <1>1, <1>3, <2>1 DEF Name
  <2>3. Start(d.list[r.rank].started)' = Start(d.list[r.rank].started)
    BY <1>1 DEF Start
  <2> QED BY <1>6, <2>2, <2>3 DEF Tells
<1>7. ASSUME NEW r \in new
      PROVE  Tells(r, c)'
  <2>1. Name(r)' = c.list[r.rank].command
    BY <1>1, <1>4 DEF Name
  <2>2. Start(c.list[r.rank].started)' = c.list[r.rank].started
    BY <1>1, <1>4 DEF Start, Converted
  <2>3. IF c.ranked THEN r.cpu = c.list[r.rank].cpu /\ r.memory = c.list[r.rank].memory
        ELSE r.cpu = 0 /\ r.memory = 0
    BY <1>4 DEF IsCapture
  <2> QED BY <1>4, <2>1, <2>2, <2>3 DEF Tells
<1>8. \A r \in file.rows : \E d \in captures : OfCapture(r, d) /\ Tells(r, d) /\ ~OfCapture(r, c)
  <2>1. \A r \in file.rows : \E d \in captures : OfCapture(r, d) /\ Tells(r, d)
    BY <1>2 DEF RowsTell
  <2> QED BY <1>1, <2>1 DEF OfCapture
<1>9. \A r \in new : \A d \in captures : ~OfCapture(r, d)
  BY <1>1, <1>4 DEF OfCapture
<1>10. ASSUME NEW r \in file'.rows
       PROVE  /\ DOMAIN r = RowFields /\ r.command \in DOMAIN file'.commands
              /\ \E d \in captures' : OfCapture(r, d) /\ Tells(r, d)'
              /\ file'.version < 6 => r.cpu = 0
  <2>1. CASE r \in new
    <3>1. ~c.ranked => r.cpu = 0
      BY <1>4, <2>1 DEF IsCapture
    <3>2. OfCapture(r, c) /\ Tells(r, c)' /\ c \in captures'
      BY <1>1, <1>4, <1>7, <2>1
    <3>3. file'.version < 6 => ~c.ranked
      BY <1>1
    <3> QED BY <1>4, <2>1, <3>1, <3>2, <3>3
  <2>2. CASE r \in file.rows
    <3>1. PICK d \in captures : OfCapture(r, d) /\ Tells(r, d)
      BY <1>8, <2>2
    <3>2. OfCapture(r, d) /\ Tells(r, d)' /\ d \in captures'
      BY <1>1, <1>6, <2>2, <3>1
    <3>3. DOMAIN r = RowFields /\ r.command \in DOMAIN file.commands /\ (file.version < 6 => r.cpu = 0)
      BY <1>1, <1>2, <2>2 DEF RowsTell
    <3> QED BY <1>1, <1>3, <3>2, <3>3
  <2> QED BY <1>1, <2>1, <2>2
<1>11. ASSUME NEW d \in captures', NEW i \in DOMAIN d.list
       PROVE  \E r \in file'.rows : OfCapture(r, d) /\ r.rank = i
  <2>1. CASE d = c
    BY <1>1, <1>4, <2>1
  <2>2. CASE d \in captures
    BY <1>1, <1>2, <2>2 DEF RowsTell
  <2> QED BY <1>1, <2>1, <2>2
<1>12. ASSUME NEW r \in file'.rows, NEW q \in file'.rows, r.table = q.table, r.at = q.at, r.rank = q.rank
       PROVE  r = q
  <2>1. CASE r \in new /\ q \in new
    BY <1>4, <1>12, <2>1
  <2>2. CASE r \in file.rows /\ q \in file.rows
    BY <1>2, <1>12, <2>2 DEF RowsTell
  <2>3. r \in new => OfCapture(q, c)
    BY <1>4, <1>12 DEF OfCapture
  <2>4. q \in new => OfCapture(r, c)
    BY <1>4, <1>12 DEF OfCapture
  <2> QED BY <1>1, <1>8, <2>1, <2>2, <2>3, <2>4
<1>13. ASSUME NEW d \in captures', ~d.ranked
       PROVE  \/ \A r \in file'.rows : OfCapture(r, d) => r.cpu = 0
              \/ \A r \in file'.rows : OfCapture(r, d) => r.cpu = r.rank
  <2>1. CASE d = c
    <3>1. ASSUME NEW r \in file'.rows, OfCapture(r, d)
          PROVE  r.cpu = 0
      <4>1. r \in new
        BY <1>1, <1>8, <2>1, <3>1
      <4> QED BY <1>4, <1>13, <2>1, <4>1 DEF IsCapture
    <3> QED BY <3>1
  <2>2. CASE d \in captures
    <3>1. \A r \in file'.rows : OfCapture(r, d) => r \in file.rows
      BY <1>1, <1>9, <2>2
    <3>2. \/ \A r \in file.rows : OfCapture(r, d) => r.cpu = 0
          \/ \A r \in file.rows : OfCapture(r, d) => r.cpu = r.rank
      BY <1>2, <1>13, <2>2 DEF RowsTell
    <3> QED BY <3>1, <3>2
  <2> QED BY <1>1, <2>1, <2>2
<1>14. IsFiniteSet(file'.rows)
  <2>1. IsFiniteSet(file.rows)
    BY <1>2 DEF RowsTell
  <2>2. IsFiniteSet(file.rows \cup new)
    BY <1>4, <2>1, FS_Union
  <2> QED BY <1>1, <2>2
<1>15. RowsTell'
  BY <1>3, <1>10, <1>11, <1>12, <1>13, <1>14 DEF RowsTell
<1>16. Oversized'
  BY <1>1, <1>2 DEF Oversized
<1> QED BY <1>5, <1>15, <1>16 DEF RowInv

\* A step that leaves the process rows.  Only an empty file skips versions.
KeepsRows ==
  /\ Same({"rows", "commands"}) /\ UNCHANGED <<captures, from>> /\ file.version <= file'.version
  /\ \/ file.version >= 2 <=> file'.version >= 2
     \/ file.version = 0 /\ from = 6
  /\ \/ file.version >= 4 <=> file'.version >= 4
     \/ file.version = 0 /\ from = 6

\* The schema is applied to a current file or to one without tables.
LEMMA OnlyNewFilesAreApplied ==
  ASSUME CoreInv, NEW p \in Starter, IsAt(p, "apply"), file.version # 6
  PROVE  file.version = 0 /\ from = 6
<1>1. Head(starter[p].todo) = "apply" /\ Fits(starter[p].todo, file.version, file.pending, from)
  BY Opened DEF CoreInv
<1>2. file.version = 0
  BY AtVersion
<1> QED BY <1>1, <1>2 DEF Fits

\* Steps of the same version.
LEMMA SameKeepsRows ==
  ASSUME CoreInv, CoreInv', Same({"rows", "commands", "version"}), UNCHANGED <<captures, from>>
  PROVE  KeepsRows
<1>1. file'.version = file.version /\ file.version \in 0..6
  BY DEF Same, CoreInv, Typed
<1> QED BY <1>1 DEF KeepsRows, Same

\* Which steps of a starter rewrite rows.
LEMMA OpeningKeepsRows ==
  ASSUME CoreInv, CoreInv', NEW p \in Starter, Opening(p)
  PROVE  KeepsRows \/ InternsCommands(p) \/ ConvertsStartTimes(p) \/ Ranks(p)
<1>0. DOMAIN file = Fields
  BY DEF CoreInv, Typed
<1>1. CASE UNCHANGED <<file, captures, from>>
  BY <1>1, SameKeepsRows DEF Same
<1>2. CASE AppliesSchema(p)
  <2>1. /\ IsAt(p, "apply") /\ Same({"rows", "commands"}) /\ UNCHANGED <<captures, from>> /\ file'.version = 6
    BY <1>0, <1>2, ApplyEffect DEF Same, Rest
  <2>2. CASE file.version = 6
    BY <2>1, <2>2 DEF KeepsRows
  <2>3. CASE file.version # 6
    BY <2>1, <2>3, OnlyNewFilesAreApplied DEF KeepsRows
  <2> QED BY <2>2, <2>3
<1>3. CASE Rebuilds(p)
  <2>1. /\ IsAt(p, "rebuild") \/ IsAt(p, "rebuildEmpty")
        /\ Same({"rows", "commands"}) /\ UNCHANGED <<captures, from>> /\ file'.version = 1
    BY <1>0, <1>3, RebuildEffect DEF Same, Rest
  <2>2. file.version = 0
    BY <2>1, AtVersion
  <2> QED BY <2>1, <2>2 DEF KeepsRows
<1>4. CASE CompletesPending(p)
  BY <1>0, <1>4, CompleteEffect, SameKeepsRows DEF Same, Rest
<1>5. CASE TypesSamples(p)
  <2>1. IsAt(p, "v2") /\ Same({"rows", "commands"}) /\ UNCHANGED <<captures, from>> /\ file'.version = 3
    BY <1>0, <1>5, TypeKeeps DEF Same, Rest
  <2>2. file.version = 2
    BY <2>1, AtVersion
  <2> QED BY <2>1, <2>2 DEF KeepsRows
<1>6. CASE AddsSensors(p)
  <2>1. IsAt(p, "v4") /\ Same({"rows", "commands"}) /\ UNCHANGED <<captures, from>> /\ file'.version = 5
    BY <1>0, <1>6, SensorsEffect DEF Same, Rest
  <2>2. file.version = 4
    BY <2>1, AtVersion
  <2> QED BY <2>1, <2>2 DEF KeepsRows
<1>7. CASE FindsRanks(p)
  BY <1>7 DEF FindsRanks, KeepsRows, Same, Rest
<1>8. AddsRanks(p) => Ranks(p) \/ FindsRanks(p) \/ \E why : Refuses(p, why)
  BY <1>0, RanksEffect
<1>9. RefusesCopy(p) \/ RefusesPayload(p) => \E why : Refuses(p, why)
  BY DEF RefusesCopy, RefusesPayload
<1>10. (\E why : Refuses(p, why)) \/ Opens(p) \/ Copies(p) \/ CopyBreaks(p) \/ StarterStops(p)
         => UNCHANGED <<file, captures, from>>
  BY DEF Refuses, Opens, Copies, CopyBreaks, StarterStops
<1> QED BY <1>1, <1>2, <1>3, <1>4, <1>5, <1>6, <1>7, <1>8, <1>9, <1>10 DEF Opening

\* The others leave what the rows tell.
LEMMA KeptRows ==
  ASSUME CoreInv, CoreInv', Captures, RowsTell, KeepsRows
  PROVE  Captures' /\ RowsTell'
<1>1. file.version \in 0..6 /\ file'.version \in 0..6
  BY DEF CoreInv, Typed
<1>2. Captures'
  BY <1>1, CapturesStay DEF KeepsRows
<1>3. RowsTell'
  <2>1. file.version = 0 /\ from = 6 => captures = {}
    BY DEF Captures
  <2> QED BY <1>1, <2>1, RowsStay DEF KeepsRows
<1> QED BY <1>2, <1>3

\* No new refusal of a list that is too long.
LEMMA OversizedStays ==
  ASSUME Oversized, UNCHANGED captures,
         \A q \in Starter : starter'[q] = starter[q] \/ starter'[q].at # "refused" \/ starter'[q].why # "oversize"
  PROVE  Oversized'
BY DEF Oversized

\* The refusal of a list that is too long has its cause in that list.
LEMMA OpeningOversized ==
  ASSUME CoreInv, RowInv, NEW p \in Starter, Opening(p)
  PROVE  Oversized' /\ UNCHANGED captures
<1>0. DOMAIN file = Fields /\ starter \in [Starter -> StarterState] /\ Oversized
  BY DEF CoreInv, Typed, RowInv
<1>1. CASE IsAt(p, "v5") /\ file.version = 5 /\ Oversize /\ Refuses(p, "oversize")
  <2>1. PICK r \in file.rows : r.rank > MaxListed
    BY <1>1 DEF Oversize
  <2>2. PICK c \in captures : OfCapture(r, c) /\ Tells(r, c)
    BY DEF RowInv, RowsTell
  <2>3. ~c.ranked /\ IsCapture(c) /\ r.rank \in DOMAIN c.list
    BY <1>1, <2>2 DEF RowInv, Captures, Tells
  <2>4. Len(c.list) > MaxListed
    <3>1. MaxListed \in Nat
      BY MigrationConstants DEF MigrationConstants
    <3>2. r.rank \in 1..Len(c.list) /\ Len(c.list) \in Nat
      BY <2>3 DEF IsCapture
    <3> QED BY <2>1, <3>1, <3>2
  <2>5. UNCHANGED captures
    BY <1>1 DEF Refuses
  <2> QED BY <2>3, <2>4, <2>5 DEF Oversized
<1>2. CASE GoesOn(p) /\ UNCHANGED captures
  <2>1. \A q \in Starter : starter'[q] = starter[q] \/ starter'[q].at # "refused"
    BY <1>0, <1>2 DEF GoesOn
  <2> QED BY <1>0, <1>2, <2>1, OversizedStays
<1>3. CASE \E why : why # "oversize" /\ Refuses(p, why)
  <2>1. PICK why : why # "oversize" /\ Refuses(p, why)
    BY <1>3
  <2>2. \A q \in Starter : starter'[q] = starter[q] \/ starter'[q].why # "oversize"
    BY <1>0, <2>1 DEF Refuses
  <2>3. UNCHANGED captures
    BY <2>1 DEF Refuses
  <2> QED BY <1>0, <2>2, <2>3, OversizedStays
<1>4. CASE Opens(p) \/ CopyBreaks(p) \/ StarterStops(p)
  <2>1. \A q \in Starter : starter'[q] = starter[q] \/ starter'[q].at # "refused"
    BY <1>0, <1>4 DEF Opens, CopyBreaks, StarterStops
  <2>2. UNCHANGED captures
    BY <1>4 DEF Opens, CopyBreaks, StarterStops
  <2> QED BY <1>0, <2>1, <2>2, OversizedStays
<1>5. AppliesSchema(p) \/ Rebuilds(p) \/ CompletesPending(p) \/ InternsCommands(p) \/ TypesSamples(p)
        \/ ConvertsStartTimes(p) \/ AddsSensors(p) \/ Copies(p)
        => GoesOn(p) /\ UNCHANGED captures
  <2>1. AppliesSchema(p) => GoesOn(p) /\ UNCHANGED Rest
    BY <1>0, ApplyEffect
  <2>2. Rebuilds(p) => GoesOn(p) /\ UNCHANGED Rest
    BY <1>0, RebuildEffect
  <2>3. CompletesPending(p) => GoesOn(p) /\ UNCHANGED Rest
    BY <1>0, CompleteEffect
  <2>4. InternsCommands(p) => GoesOn(p) /\ UNCHANGED Rest
    BY <1>0, InternEffect
  <2>5. TypesSamples(p) => GoesOn(p) /\ UNCHANGED Rest
    BY <1>0, TypeKeeps
  <2>6. ConvertsStartTimes(p) => GoesOn(p) /\ UNCHANGED Rest
    BY <1>0, ConvertEffect
  <2>7. AddsSensors(p) => GoesOn(p) /\ UNCHANGED Rest
    BY <1>0, SensorsEffect
  <2>8. Copies(p) => GoesOn(p) /\ UNCHANGED captures
    BY DEF Copies
  <2>9. UNCHANGED Rest => UNCHANGED captures
    BY DEF Rest
  <2> QED BY <2>1, <2>2, <2>3, <2>4, <2>5, <2>6, <2>7, <2>8, <2>9
<1>6. Ranks(p) \/ FindsRanks(p) => GoesOn(p) /\ UNCHANGED captures
  BY DEF Ranks, FindsRanks, Rest
<1>7. RefusesCopy(p) \/ RefusesPayload(p) => \E why : why # "oversize" /\ Refuses(p, why)
  BY DEF RefusesCopy, RefusesPayload
<1>8. AddsRanks(p) =>
        \/ Ranks(p) \/ FindsRanks(p) \/ \E why : why # "oversize" /\ Refuses(p, why)
        \/ IsAt(p, "v5") /\ file.version = 5 /\ Oversize /\ Refuses(p, "oversize")
  BY <1>0, RanksEffect
<1> QED BY <1>1, <1>2, <1>3, <1>4, <1>5, <1>6, <1>7, <1>8 DEF Opening

\* All steps of a starter.
LEMMA OpeningRows ==
  ASSUME CoreInv, CoreInv', RowInv, NEW p \in Starter, Opening(p)
  PROVE  RowInv'
<1>1. Oversized' /\ UNCHANGED captures /\ Captures /\ RowsTell
  BY OpeningOversized DEF RowInv
<1>2. CASE KeepsRows
  BY <1>1, <1>2, KeptRows DEF RowInv
<1>3. CASE InternsCommands(p) \/ ConvertsStartTimes(p) \/ Ranks(p)
  <2>1. RowsTell'
    BY <1>1, <1>3, InternRows, ConvertRows, RankRows
  <2>2. file.version <= file'.version /\ file.version \in 0..6 /\ file'.version \in 0..6 /\ UNCHANGED from
    <3>0. DOMAIN file = Fields /\ file.version \in 0..6 /\ file'.version \in 0..6
      BY DEF CoreInv, Typed
    <3>1. CASE InternsCommands(p)
      <4>1. IsAt(p, "v1") /\ file'.version = 2 /\ UNCHANGED from
        BY <3>0, <3>1, InternEffect DEF Rest
      <4> QED BY <3>0, <4>1, AtVersion
    <3>2. CASE ConvertsStartTimes(p)
      <4>1. IsAt(p, "v3") /\ file'.version = 4 /\ UNCHANGED from
        BY <3>0, <3>2, ConvertEffect DEF Rest
      <4> QED BY <3>0, <4>1, AtVersion
    <3>3. CASE Ranks(p)
      BY <3>0, <3>3 DEF Ranks, Rest
    <3> QED BY <1>3, <3>1, <3>2, <3>3
  <2>3. Captures'
    BY <1>1, <2>2, CapturesStay
  <2> QED BY <1>1, <2>1, <2>3 DEF RowInv
<1> QED BY <1>2, <1>3, OpeningKeepsRows

\* The current daemon writes two lists, with ranks, to a current file.
LEMMA DaemonRows ==
  ASSUME CoreInv, RowInv, NEW p \in Starter, DaemonWrites(p)
  PROVE  RowInv'
<1>1. PICK a \in Program, b \in Program :
        StoresList([table |-> "fast", at |-> NewTime, ranked |-> TRUE,
                    list |-> <<Listed(a, "ms", 1, 0), Listed(b, "none", 0, 1)>>])
  BY DEF DaemonWrites
<1> DEFINE list == <<Listed(a, "ms", 1, 0), Listed(b, "none", 0, 1)>>
           c == [table |-> "fast", at |-> NewTime, ranked |-> TRUE, list |-> list]
<1>2. /\ Len(list) = 2 /\ DOMAIN list = 1..2
      /\ list[1].started = "ms" /\ list[2].started = "none" /\ list[1].cpu = 1
  BY DEF Listed
<1>3. file.version = 6
  BY DEF DaemonWrites, CoreInv, Starters
<1>4. c.list = list /\ c.ranked /\ StoresList(c)
  BY <1>1
<1> HIDE DEF c, list
<1>5. IsCapture(c) /\ \A i \in DOMAIN c.list : c.list[i].started \in {"ms", "none"}
  <2>1. 1 \in DOMAIN list /\ \A i \in DOMAIN list : i = 1 \/ i = 2
    BY <1>2
  <2>2. \A i \in DOMAIN list : list[i].started \in {"ms", "none"}
    BY <1>2, <2>1
  <2>3. list[1].cpu # 0 /\ Len(list) \in Nat /\ DOMAIN list = 1..Len(list)
    BY <1>2
  <2> QED BY <1>4, <2>1, <2>2, <2>3 DEF IsCapture
<1> QED BY <1>3, <1>4, <1>5, StoreRows

\* The older one writes to a file of version 5 or 6, without ranks.
LEMMA OldDaemonRows ==
  ASSUME CoreInv, RowInv, OldDaemonWrites
  PROVE  RowInv'
<1>1. PICK a \in Program, b \in Program :
        StoresList([table |-> "fast", at |-> OldTime, ranked |-> FALSE,
                    list |-> <<Listed(a, "ms", 0, 0), Listed(b, "ms", 0, 0)>>])
  BY DEF OldDaemonWrites
<1> DEFINE list == <<Listed(a, "ms", 0, 0), Listed(b, "ms", 0, 0)>>
           c == [table |-> "fast", at |-> OldTime, ranked |-> FALSE, list |-> list]
<1>2. /\ Len(list) = 2 /\ DOMAIN list = 1..2
      /\ list[1].started = "ms" /\ list[2].started = "ms"
      /\ list[1].cpu = 0 /\ list[2].cpu = 0 /\ list[1].memory = 0 /\ list[2].memory = 0
  BY DEF Listed
<1>3. file.version >= 5
  BY DEF OldDaemonWrites, CoreInv, Tables, Typed
<1>4. c.list = list /\ ~c.ranked /\ StoresList(c)
  BY <1>1
<1> HIDE DEF c, list
<1>5. IsCapture(c) /\ \A i \in DOMAIN c.list : c.list[i].started \in {"ms", "none"}
  <2>1. \A i \in DOMAIN list : i = 1 \/ i = 2
    BY <1>2
  <2>2. \A i \in DOMAIN list : list[i].started \in {"ms", "none"} /\ list[i].cpu = 0 /\ list[i].memory = 0
    BY <1>2, <2>1
  <2>3. Len(list) \in Nat /\ DOMAIN list = 1..Len(list)
    BY <1>2
  <2> QED BY <1>4, <2>2, <2>3 DEF IsCapture
<1> QED BY <1>3, <1>4, <1>5, StoreRows

\* All steps.
LEMMA RowStep ==
  ASSUME CoreInv, CoreInv', RowInv, [MigrationNext]_migrationVars
  PROVE  RowInv'
<1>1. CASE \E p \in Starter : Opening(p)
  BY <1>1, OpeningRows
<1>2. CASE \E p \in Starter : DaemonWrites(p)
  BY <1>2, DaemonRows
<1>3. CASE OldDaemonWrites
  BY <1>3, OldDaemonRows
<1>4. CASE MovesCopy \/ RemovesCopy \/ ClearsPayload \/ LegacyWrites \/ UNCHANGED migrationVars
  <2>1. UNCHANGED <<starter, captures, from>> /\ Same({"rows", "commands", "version"})
    <3>1. DOMAIN file = Fields
      BY DEF CoreInv, Typed
    <3>2. CASE ClearsPayload \/ LegacyWrites
      BY <3>1, <3>2, ClearEffect, LegacyEffect DEF Same, Fields
    <3>3. CASE MovesCopy \/ RemovesCopy \/ UNCHANGED migrationVars
      BY <3>3 DEF MovesCopy, RemovesCopy, migrationVars, Same
    <3> QED BY <1>4, <3>2, <3>3
  <2>2. Captures' /\ RowsTell'
    BY <2>1, SameKeepsRows, KeptRows DEF RowInv
  <2>3. Oversized'
    BY <2>1, OversizedStays DEF RowInv
  <2> QED BY <2>2, <2>3 DEF RowInv
<1> QED BY <1>1, <1>2, <1>3, <1>4 DEF MigrationNext
-----------------------------------------------------------------------------
(* Mounts. *)

\* A finite set of instants has a first and a last.
LEMMA FirstAndLast ==
  ASSUME NEW S \in SUBSET Nat, IsFiniteSet(S), S # {}
  PROVE  /\ \E x \in S : \A y \in S : y <= x
         /\ \E x \in S : \A y \in S : x <= y
<1>1. ASSUME NEW T, T \subseteq FiniteSubsetsOf(S), T # {}
      PROVE  \E A \in T : \A B \in T : ~(B \subseteq A /\ B # A)
  <2>1. IsWellFoundedOn(StrictSubsetOrdering(S), FiniteSubsetsOf(S))
    BY FS_StrictSubsetOrderingWellFounded
  <2>2. \E A \in T : \A B \in T : ~(<<B, A>> \in StrictSubsetOrdering(S))
    BY <1>1, <2>1, WFMin
  <2> QED BY <1>1, <2>2 DEF StrictSubsetOrdering, FiniteSubsetsOf
<1>2. \A A \in SUBSET S : A \in FiniteSubsetsOf(S)
  BY FS_Subset DEF FiniteSubsetsOf
<1>3. \E x \in S : \A y \in S : y <= x
  <2> DEFINE Above(x) == {y \in S : x <= y}
             T == {Above(x) : x \in S}
  <2>1. T \subseteq FiniteSubsetsOf(S) /\ T # {}
    BY <1>2
  <2>2. PICK A \in T : \A B \in T : ~(B \subseteq A /\ B # A)
    <3> HIDE DEF T
    <3> QED BY <1>1, <2>1
  <2>3. PICK x \in S : A = Above(x)
    OBVIOUS
  <2>4. ASSUME NEW y \in S
        PROVE  y <= x
    <3>1. CASE ~(y <= x)
      <4>1. Above(y) \subseteq Above(x) /\ x \in Above(x) /\ x \notin Above(y)
        <5>1. x \in Nat /\ y \in Nat /\ x < y /\ \A z \in S : z \in Nat
          BY <3>1
        <5>2. \A z \in S : y <= z => x <= z
          BY <5>1
        <5>3. x <= x /\ ~(y <= x)
          BY <5>1
        <5> QED BY <5>2, <5>3
      <4>2. Above(y) \in T
        OBVIOUS
      <4> HIDE DEF Above, T
      <4> QED BY <2>2, <2>3, <4>1, <4>2
    <3> QED BY <3>1
  <2> QED BY <2>4
<1>4. \E x \in S : \A y \in S : x <= y
  <2> DEFINE Below(x) == {y \in S : y <= x}
             T == {Below(x) : x \in S}
  <2>1. T \subseteq FiniteSubsetsOf(S) /\ T # {}
    BY <1>2
  <2>2. PICK A \in T : \A B \in T : ~(B \subseteq A /\ B # A)
    <3> HIDE DEF T
    <3> QED BY <1>1, <2>1
  <2>3. PICK x \in S : A = Below(x)
    OBVIOUS
  <2>4. ASSUME NEW y \in S
        PROVE  x <= y
    <3>1. CASE ~(x <= y)
      <4>1. Below(y) \subseteq Below(x) /\ x \in Below(x) /\ x \notin Below(y)
        <5>1. x \in Nat /\ y \in Nat /\ y < x /\ \A z \in S : z \in Nat
          BY <3>1
        <5>2. \A z \in S : z <= y => z <= x
          BY <5>1
        <5>3. x <= x /\ ~(x <= y)
          BY <5>1
        <5> QED BY <5>2, <5>3
      <4>2. Below(y) \in T
        OBVIOUS
      <4> HIDE DEF Below, T
      <4> QED BY <2>2, <2>3, <4>1, <4>2
    <3> QED BY <3>1
  <2> QED BY <2>4
<1> QED BY <1>3, <1>4

\* FirstRow and LastRow of a mount that has rows.
LEMMA RowsOfMount ==
  ASSUME Mounts, NEW m, m \in {r.mount : r \in file.mounts}
  PROVE  /\ FirstRow(m) \in Nat /\ [at |-> FirstRow(m), mount |-> m] \in file.mounts
         /\ LastRow(m) \in Nat /\ [at |-> LastRow(m), mount |-> m] \in file.mounts
         /\ \A r \in file.mounts : r.mount = m => FirstRow(m) <= r.at /\ r.at <= LastRow(m)
<1> DEFINE S == {t \in Time : [at |-> t, mount |-> m] \in file.mounts}
<1>1. S \in SUBSET Nat
  BY Instants
<1>2. \A r \in file.mounts : r.at \in Time /\ r.at \in Nat /\ (r.mount = m => r.at \in S)
  BY Instants DEF Mounts
<1>3. S # {}
  BY <1>2
<1>4. IsFiniteSet(S)
  <2> DEFINE g == [r \in file.mounts |-> r.at]
  <2>1. IsFiniteSet(file.mounts)
    BY DEF Mounts
  <2>2. IsFiniteSet({g[r] : r \in DOMAIN g})
    <3>1. DOMAIN g = file.mounts
      OBVIOUS
    <3> HIDE DEF g
    <3> QED BY <2>1, <3>1, FiniteRange
  <2>3. S \subseteq {g[r] : r \in DOMAIN g}
    <3>1. ASSUME NEW t \in S
          PROVE  t \in {g[r] : r \in DOMAIN g}
      <4> DEFINE r == [at |-> t, mount |-> m]
      <4>1. r \in file.mounts /\ r.at = t
        OBVIOUS
      <4> HIDE DEF r
      <4> QED BY <4>1
    <3> QED BY <3>1
  <2> HIDE DEF S, g
  <2> QED BY <2>2, <2>3, FS_Subset
<1>5. /\ \E x \in S : \A y \in S : y <= x
      /\ \E x \in S : \A y \in S : x <= y
  <2> HIDE DEF S
  <2> QED BY <1>1, <1>3, <1>4, FirstAndLast
<1>6. \E t \in Time : [at |-> t, mount |-> m] \in file.mounts /\ \A r \in file.mounts : r.mount = m => r.at <= t
  BY <1>2, <1>5
<1>7. \E t \in Time : [at |-> t, mount |-> m] \in file.mounts /\ \A r \in file.mounts : r.mount = m => t <= r.at
  BY <1>2, <1>5
<1>8. /\ LastRow(m) \in Time /\ [at |-> LastRow(m), mount |-> m] \in file.mounts
      /\ \A r \in file.mounts : r.mount = m => r.at <= LastRow(m)
  BY <1>6 DEF LastRow
<1>9. /\ FirstRow(m) \in Time /\ [at |-> FirstRow(m), mount |-> m] \in file.mounts
      /\ \A r \in file.mounts : r.mount = m => FirstRow(m) <= r.at
  BY <1>7 DEF FirstRow
<1> QED BY <1>8, <1>9, Instants

\* What the mount events show at an instant.
Shown(m, t) ==
  \E e \in file.events :
    /\ e.mount = m /\ e.at <= t /\ e.present
    /\ \A d \in file.events : d.mount = m /\ d.at <= t => d.at <= e.at

\* A mount is shown at each of its rows, and never after all of them where others have later ones.
LEMMA MountsShown ==
  ASSUME Mounts, file.events = MountEvents, NEW r \in file.mounts, NEW q \in file.mounts
  PROVE  /\ Shown(r.mount, r.at)
         /\ Shown(q.mount, r.at) => \E l \in file.mounts : l.mount = q.mount /\ l.at >= r.at
<1> DEFINE listed == {x.mount : x \in file.mounts}
           Comes(m) == [at |-> FirstRow(m), mount |-> m, present |-> TRUE]
           Goes(m) == [at |-> LastRow(m) + 1, mount |-> m, present |-> FALSE]
           gone == {n \in listed : \E x \in file.mounts : x.at > LastRow(n)}
<1>1. file.events = {Comes(m) : m \in listed} \cup {Goes(m) : m \in gone}
  BY DEF MountEvents
<1>2. \A m \in listed :
        /\ FirstRow(m) \in Nat /\ LastRow(m) \in Nat /\ FirstRow(m) <= LastRow(m)
        /\ [at |-> LastRow(m), mount |-> m] \in file.mounts
        /\ \A x \in file.mounts : x.mount = m => FirstRow(m) <= x.at /\ x.at <= LastRow(m)
  <2>1. ASSUME NEW m \in listed
        PROVE  /\ FirstRow(m) \in Nat /\ LastRow(m) \in Nat
               /\ [at |-> LastRow(m), mount |-> m] \in file.mounts
               /\ \A x \in file.mounts : x.mount = m => FirstRow(m) <= x.at /\ x.at <= LastRow(m)
    BY RowsOfMount
  <2>2. ASSUME NEW m \in listed
        PROVE  FirstRow(m) <= LastRow(m)
    <3> DEFINE x == [at |-> LastRow(m), mount |-> m]
    <3>1. x \in file.mounts /\ x.mount = m /\ x.at = LastRow(m)
      BY <2>1
    <3> HIDE DEF x
    <3> QED BY <2>1, <3>1
  <2> QED BY <2>1, <2>2
<1>3. r.mount \in listed /\ q.mount \in listed /\ r.at \in Nat
  BY Instants DEF Mounts
<1> HIDE DEF listed, gone
<1>4. \A m : /\ Comes(m).at = FirstRow(m) /\ Comes(m).mount = m /\ Comes(m).present
             /\ Goes(m).at = LastRow(m) + 1 /\ Goes(m).mount = m /\ ~Goes(m).present
  OBVIOUS
<1> HIDE DEF Comes, Goes
<1>5. \A e \in file.events :
        \/ e = Comes(e.mount) /\ e.mount \in listed
        \/ e = Goes(e.mount) /\ e.mount \in gone
  BY <1>1, <1>4
<1>6. \A m \in gone : m \in listed
  BY DEF gone
<1>7. Shown(r.mount, r.at)
  <2> DEFINE m == r.mount
             e == Comes(m)
  <2>1. e \in file.events /\ e.mount = m /\ e.present /\ e.at = FirstRow(m) /\ e.at <= r.at
    BY <1>1, <1>2, <1>3, <1>4
  <2>2. ASSUME NEW d \in file.events, d.mount = m, d.at <= r.at
        PROVE  d.at <= e.at
    <3>1. d = Comes(m) \/ d = Goes(m)
      BY <1>5, <2>2
    <3>2. d # Goes(m)
      <4>1. r.at <= LastRow(m) /\ LastRow(m) \in Nat
        BY <1>2, <1>3
      <4>2. Goes(m).at = LastRow(m) + 1
        BY <1>4
      <4> QED BY <1>3, <2>2, <4>1, <4>2
    <3>3. FirstRow(m) \in Nat
      BY <1>2, <1>3
    <3> QED BY <2>1, <3>1, <3>2, <3>3
  <2> HIDE DEF e
  <2> QED BY <2>1, <2>2 DEF Shown
<1>8. ASSUME Shown(q.mount, r.at)
      PROVE  \E l \in file.mounts : l.mount = q.mount /\ l.at >= r.at
  <2> DEFINE m == q.mount
             l == [at |-> LastRow(m), mount |-> m]
  <2>1. l \in file.mounts /\ l.mount = m /\ l.at = LastRow(m) /\ LastRow(m) \in Nat
    BY <1>2, <1>3
  <2> HIDE DEF l
  <2>2. CASE LastRow(m) >= r.at
    BY <2>1, <2>2
  <2>3. CASE ~(LastRow(m) >= r.at)
    <3>1. m \in gone /\ Goes(m) \in file.events
      BY <1>1, <1>3, <2>1, <2>3 DEF gone
    <3>2. Goes(m).mount = m /\ Goes(m).at = LastRow(m) + 1 /\ Goes(m).at <= r.at
      BY <1>3, <1>4, <2>1, <2>3
    <3>3. PICK e \in file.events :
            /\ e.mount = m /\ e.at <= r.at /\ e.present
            /\ \A d \in file.events : d.mount = m /\ d.at <= r.at => d.at <= e.at
      BY <1>8 DEF Shown
    <3>4. e = Comes(m) /\ e.at = FirstRow(m)
      BY <1>4, <1>5, <3>3
    <3>5. LastRow(m) + 1 <= FirstRow(m)
      BY <3>1, <3>2, <3>3, <3>4
    <3>6. FirstRow(m) <= LastRow(m) /\ FirstRow(m) \in Nat
      BY <1>2, <1>3
    <3> QED BY <2>1, <3>5, <3>6
  <2> QED BY <2>2, <2>3
<1> QED BY <1>7, <1>8

\* The mounts of an old file.
LEMMA InitMounts ==
  ASSUME MigrationInit
  PROVE  Mounts
<1>1. PICK old \in OldFile :
        /\ file.version = old.version /\ file.tables = old.tables /\ file.mounts = old.mounts
  BY InitFile
<1>2. /\ old.version \in 0..5 /\ IsFiniteSet(old.mounts) /\ (old.version >= 3 => old.mounts = {})
      /\ \A r \in old.mounts : r = [at |-> r.at, mount |-> r.mount] /\ r.at \in Time
      /\ DOMAIN old.tables = {} => old.mounts = {}
      /\ old.version = 0 => DOMAIN old.tables = {} \/ Legacy(old.tables)
  BY OldFiles
<1>3. file.version = 0 /\ from = 6 => file.mounts = {}
  <2>1. from = IF file.version = 0 /\ "metric_samples" \notin DOMAIN file.tables THEN 6 ELSE file.version
    BY DEF MigrationInit, IsNew
  <2> QED BY <1>1, <1>2, <2>1 DEF Legacy
<1> QED BY <1>1, <1>2, <1>3 DEF Mounts

\* A step leaves the rows of the mounts; their events are made on the way to version 3.
KeepsMounts ==
  /\ Same({"mounts"}) /\ UNCHANGED from /\ (file'.version = 0 => file.version = 0)
  /\ \/ file'.events = MountEvents
     \/ Same({"events"}) /\ (file'.version >= 3 => file.version >= 3 \/ (file.version = 0 /\ from = 6))

\* All steps of a starter.
LEMMA OpeningKeepsMounts ==
  ASSUME CoreInv, CoreInv', NEW p \in Starter, Opening(p)
  PROVE  KeepsMounts
<1>0. DOMAIN file = Fields /\ file.version \in 0..6 /\ file'.version \in 0..6
  BY DEF CoreInv, Typed
<1>1. CASE UNCHANGED <<file, from>>
  BY <1>1 DEF KeepsMounts, Same
<1>2. CASE AppliesSchema(p)
  <2>1. /\ IsAt(p, "apply") /\ Same({"mounts", "events"}) /\ UNCHANGED from /\ file'.version = 6
    BY <1>0, <1>2, ApplyEffect DEF Same, Rest
  <2>2. file.version = 6 \/ (file.version = 0 /\ from = 6)
    BY <2>1, OnlyNewFilesAreApplied
  <2> QED BY <2>1, <2>2 DEF KeepsMounts, Same
<1>3. CASE Rebuilds(p)
  BY <1>0, <1>3, RebuildEffect DEF KeepsMounts, Same, Rest
<1>4. CASE CompletesPending(p)
  BY <1>0, <1>4, CompleteEffect DEF KeepsMounts, Same, Rest
<1>5. CASE InternsCommands(p)
  <2>1. file'.version = 2 /\ UNCHANGED Rest /\ Same({"samples", "mounts", "events", "pending"})
    BY <1>0, <1>5, InternEffect
  <2> QED BY <2>1 DEF KeepsMounts, Same, Rest
<1>6. CASE TypesSamples(p)
  BY <1>0, <1>6, TypeKeeps DEF KeepsMounts, Same, Rest
<1>7. CASE ConvertsStartTimes(p)
  <2>1. IsAt(p, "v3") /\ Same({"mounts", "events"}) /\ UNCHANGED from /\ file'.version = 4
    BY <1>0, <1>7, ConvertEffect DEF Same, Rest
  <2>2. file.version = 3
    BY <2>1, AtVersion
  <2> QED BY <2>1, <2>2 DEF KeepsMounts, Same
<1>8. CASE AddsSensors(p)
  <2>1. IsAt(p, "v4") /\ Same({"mounts", "events"}) /\ UNCHANGED from /\ file'.version = 5
    BY <1>0, <1>8, SensorsEffect DEF Same, Rest
  <2>2. file.version = 4
    BY <2>1, AtVersion
  <2> QED BY <2>1, <2>2 DEF KeepsMounts, Same
<1>9. CASE Ranks(p) \/ FindsRanks(p)
  BY <1>9 DEF Ranks, FindsRanks, KeepsMounts, Same, Rest
<1>10. AddsRanks(p) => Ranks(p) \/ FindsRanks(p) \/ \E why : Refuses(p, why)
  BY <1>0, RanksEffect
<1>11. RefusesCopy(p) \/ RefusesPayload(p) => \E why : Refuses(p, why)
  BY DEF RefusesCopy, RefusesPayload
<1>12. (\E why : Refuses(p, why)) \/ Opens(p) \/ Copies(p) \/ CopyBreaks(p) \/ StarterStops(p)
         => UNCHANGED <<file, from>>
  BY DEF Refuses, Opens, Copies, CopyBreaks, StarterStops
<1> QED BY <1>1, <1>2, <1>3, <1>4, <1>5, <1>6, <1>7, <1>8, <1>9, <1>10, <1>11, <1>12 DEF Opening

\* All steps.
LEMMA MountStep ==
  ASSUME CoreInv, CoreInv', Mounts, [MigrationNext]_migrationVars
  PROVE  Mounts'
<1>0. DOMAIN file = Fields /\ file.version \in 0..6 /\ file'.version \in 0..6
  BY DEF CoreInv, Typed
<1>1. KeepsMounts
  <2>1. CASE \E p \in Starter : Opening(p)
    BY <2>1, OpeningKeepsMounts
  <2>2. CASE Same({"mounts", "events", "version"}) /\ UNCHANGED from
    BY <2>2 DEF KeepsMounts, Same
  <2>3. (\E c : StoresList(c)) => Same({"mounts", "events", "version"}) /\ UNCHANGED from
    BY <1>0, StoreEffect DEF Same, Fields
  <2>4. ClearsPayload \/ LegacyWrites => Same({"mounts", "events", "version"}) /\ UNCHANGED from
    BY <1>0, ClearEffect, LegacyEffect DEF Same, Fields
  <2>5. MovesCopy \/ RemovesCopy \/ UNCHANGED migrationVars
          => Same({"mounts", "events", "version"}) /\ UNCHANGED from
    BY DEF MovesCopy, RemovesCopy, migrationVars, Same
  <2>6. (\E p \in Starter : DaemonWrites(p)) \/ OldDaemonWrites => \E c : StoresList(c)
    BY DEF DaemonWrites, OldDaemonWrites
  <2> QED BY <2>1, <2>2, <2>3, <2>4, <2>5, <2>6 DEF MigrationNext
<1>2. file'.mounts = file.mounts
  BY <1>1 DEF KeepsMounts, Same
<1>3. MountEvents' = MountEvents
  BY <1>2 DEF MountEvents, FirstRow, LastRow
<1>4. file'.version >= 3 => file'.mounts = {} \/ file'.events = MountEvents
  BY <1>1, <1>2 DEF KeepsMounts, Same, Mounts
<1>5. file'.version = 0 /\ from' = 6 => file'.mounts = {}
  BY <1>1, <1>2 DEF KeepsMounts, Mounts
<1> QED BY <1>2, <1>3, <1>4, <1>5 DEF Mounts

-----------------------------------------------------------------------------
(* The theorems. *)

MigrationInv == CoreInv /\ PayloadInv /\ RowInv /\ Mounts

\* Every reachable state satisfies the invariant.
LEMMA MigrationInvHolds == MigrationSpec => []MigrationInv
<1>1. MigrationInit => MigrationInv
  BY InitCore, InitPayloads, InitRows, InitMounts DEF MigrationInv
<1>2. MigrationInv /\ [MigrationNext]_migrationVars => MigrationInv'
  BY CoreStep, PayloadStep, RowStep, MountStep DEF MigrationInv
<1> QED BY <1>1, <1>2, PTL DEF MigrationSpec

(* Whatever old file it was, whatever stopped and whoever wrote, a file has the tables of its
   version, its rows ids of the dictionary, and its dictionary one id for each command. *)
THEOREM FilesHaveTheirSchema == MigrationSpec => []MigrationTypeOK
<1>1. ASSUME MigrationInv
      PROVE  MigrationTypeOK
  <2>1. CoreInv /\ Samples /\ RowsTell
    BY <1>1 DEF MigrationInv, PayloadInv, RowInv
  <2>2. file.version \in 0..6 /\ file.pending \in {"none", "open", "done"} /\ stops \in 0..MaxStops
    BY <2>1 DEF CoreInv, Typed, Log
  <2>3. file.version >= 1 => file.tables = Schema[file.version] \/ (file.version = 5 /\ from = 5 /\ ~Recognised)
    BY <2>1, <2>2 DEF CoreInv, Tables
  <2>4. \A s \in file.samples : s.at \in Time /\ {s.payload, s.typed} \subseteq Payload \cup {"none"}
    BY <2>1 DEF Samples, SampleType
  <2>5. /\ \A r \in file.rows : file.version >= 2 => r.command \in DOMAIN file.commands
        /\ \A i, j \in DOMAIN file.commands : file.commands[i] = file.commands[j] => i = j
    BY <2>1 DEF RowsTell, IsDictionary
  <2>6. preImage.state \in {"none", "partial", "full"}
    BY <2>1 DEF Samples
  <2>7. \A p \in Starter : starter[p].at \in {"off", "opens", "runs", "refused"}
    <3>1. \A p \in Starter : starter[p] \in StarterState
      BY <2>1 DEF CoreInv, Typed
    <3> QED BY <3>1 DEF StarterState
  <2> QED BY <2>2, <2>3, <2>4, <2>5, <2>6, <2>7 DEF MigrationTypeOK
<1> QED BY <1>1, MigrationInvHolds, PTL

(* No sample goes, and every payload is in the file or in a complete copy (migrate_populated_v0,
   rebuild_v0_schema, pre_image_remove_allowed). *)
THEOREM EveryPayloadIsKept == MigrationSpec => []PayloadsKept
<1>1. MigrationInv => PayloadsKept
  BY DEF MigrationInv, PayloadInv, Kept, PayloadsKept, InFile, InCopy
<1> QED BY <1>1, MigrationInvHolds, PTL

\* The log of a file of the current version.
LEMMA LogOfCurrent ==
  ASSUME CoreInv, file.version = 6
  PROVE  /\ file.pending # "open"
         /\ file.log = (IF file.pending = "done" THEN <<0>> ELSE <<>>) \o SubSeq(<<1, 2, 3, 4, 5>>, First, 5)
<1> DEFINE zeros == IF file.pending = "done" THEN 1 ELSE 0
           b == IF file.pending = "done" THEN <<0>> ELSE <<>>
           m == <<1, 2, 3, 4, 5>>
           s == SubSeq(m, First, 5)
           log == file.log
<1>1. /\ file.pending \in {"none", "open", "done"} /\ file.pending # "open" /\ log \in Seq(Nat)
      /\ Len(log) = zeros + 6 - First
      /\ \A i \in 1..Len(log) : log[i] = (IF i <= zeros THEN 0 ELSE First + i - zeros - 1)
  BY DEF CoreInv, Log
<1>2. First \in 1..6
  BY DEF First, CoreInv, Typed
<1>3. b \in Seq(Nat) /\ Len(b) = zeros /\ \A i \in 1..zeros : b[i] = 0
  <2>1. CASE file.pending = "done"
    <3>1. <<0>> \in Seq(Nat) /\ Len(<<0>>) = 1 /\ \A i \in 1..1 : <<0>>[i] = 0
      OBVIOUS
    <3> QED BY <2>1, <3>1
  <2>2. CASE file.pending # "done"
    <3>1. <<>> \in Seq(Nat) /\ Len(<<>>) = 0 /\ \A i \in 1..0 : FALSE
      BY EmptySeq
    <3> QED BY <2>2, <3>1
  <2> QED BY <2>1, <2>2
<1>4. m \in Seq(Nat) /\ Len(m) = 5 /\ \A i \in 1..5 : m[i] = i
  OBVIOUS
<1>5. zeros \in {0, 1}
  OBVIOUS
<1> HIDE DEF zeros, b, m, log
<1>6. s \in Seq(Nat) /\ Len(s) = 6 - First /\ \A i \in 1..(6 - First) : s[i] = First + i - 1
  <2>0. First \in Int /\ 5 \in Int /\ \A i \in First..5 : m[i] \in Nat
    <3>1. \A i \in First..5 : i \in 1..5
      BY <1>2
    <3> QED BY <1>2, <1>4, <3>1
  <2>1. /\ SubSeq(m, First, 5) \in Seq(Nat)
        /\ Len(SubSeq(m, First, 5)) = IF First <= 5 THEN 5 - First + 1 ELSE 0
        /\ \A i \in 1..(5 - First + 1) : SubSeq(m, First, 5)[i] = m[First + i - 1]
    BY <2>0, SubSeqProperties
  <2>2. \A i \in 1..(6 - First) : First + i - 1 \in 1..5
    BY <1>2
  <2> HIDE DEF s
  <2>3. 5 - First + 1 = 6 - First
    BY <1>2
  <2>4. Len(s) = 6 - First
    BY <1>2, <2>1 DEF s
  <2> QED BY <1>4, <2>1, <2>2, <2>3, <2>4 DEF s
<1> HIDE DEF s
<1>7. /\ b \o s \in Seq(Nat) /\ Len(b \o s) = zeros + (6 - First)
      /\ \A i \in 1..(zeros + (6 - First)) : (b \o s)[i] = IF i <= zeros THEN b[i] ELSE s[i - zeros]
  BY <1>3, <1>6, ConcatProperties
<1>8. Len(log) = Len(b \o s)
  BY <1>1, <1>2, <1>5, <1>7
<1>9. ASSUME NEW i \in 1..Len(log)
      PROVE  log[i] = (b \o s)[i]
  <2>1. i \in 1..(zeros + (6 - First))
    BY <1>7, <1>8
  <2>2. CASE i <= zeros
    <3>1. i \in 1..zeros
      BY <1>5, <2>1, <2>2
    <3> QED BY <1>1, <1>3, <1>7, <2>1, <2>2, <3>1
  <2>3. CASE ~(i <= zeros)
    <3>1. i - zeros \in 1..(6 - First) /\ First + (i - zeros) - 1 = First + i - zeros - 1
      BY <1>2, <1>5, <2>1, <2>3
    <3> QED BY <1>1, <1>6, <1>7, <2>1, <2>3, <3>1
  <2> QED BY <2>2, <2>3
<1>10. log = b \o s
  BY <1>1, <1>7, <1>8, <1>9, SeqEqual
<1> QED BY <1>1, <1>10 DEF log, b, s, m

(* Who runs has a current file with one marker for each step from the version it came from, and
   a refusal has its cause in the file (migrate_v5_to_v6, vacuum_and_complete_migration). *)
THEOREM MigrationsAreRecorded == MigrationSpec => []MigrationAudited
<1>1. ASSUME MigrationInv
      PROVE  MigrationAudited
  <2>1. CoreInv /\ Oversized
    BY <1>1 DEF MigrationInv, RowInv
  <2>2. ASSUME NEW p \in Starter, starter[p].at = "runs"
        PROVE  /\ file.version = 6 /\ file.pending # "open"
               /\ file.log = (IF file.pending = "done" THEN <<0>> ELSE <<>>)
                               \o SubSeq(<<1, 2, 3, 4, 5>>, IF from = 0 THEN 1 ELSE from, 5)
    <3>1. file.version = 6
      BY <2>1, <2>2 DEF CoreInv, Starters
    <3>2. First = IF from = 0 THEN 1 ELSE from
      BY DEF First
    <3> QED BY <2>1, <3>1, <3>2, LogOfCurrent
  <2>3. ASSUME NEW p \in Starter, starter[p].at = "refused"
        PROVE  /\ starter[p].why = "changed" => file.version = 5 /\ ~Recognised
               /\ starter[p].why = "oversize" => \E c \in captures : ~c.ranked /\ Len(c.list) > MaxListed
    BY <2>1, <2>3 DEF CoreInv, Refusals, Oversized
  <2> QED BY <2>2, <2>3 DEF MigrationAudited
<1> QED BY <1>1, MigrationInvHolds, PTL

\* The rows of a list in a migrated file.
LEMMA ListReads ==
  ASSUME Captures, RowsTell, file.version = 6, NEW c \in captures
  PROVE  LET list == {r \in file.rows : r.table = c.table /\ r.at = c.at}
         IN /\ Cardinality(list) = Len(c.list)
            /\ \A r \in list :
                 /\ file.commands[r.command] = c.list[r.rank].command
                 /\ r.started = (IF c.list[r.rank].started = "junk" THEN "none"
                                 ELSE IF c.list[r.rank].started = "text" THEN "ms"
                                 ELSE c.list[r.rank].started)
                 /\ ReadRank(list, r) = (IF c.ranked THEN c.list[r.rank].cpu ELSE r.rank)
<1> DEFINE list == {r \in file.rows : r.table = c.table /\ r.at = c.at}
           n == Len(c.list)
<1>1. n \in Nat /\ DOMAIN c.list = 1..n /\ IsCapture(c)
  BY DEF Captures, IsCapture
<1>2. ASSUME NEW r \in list
      PROVE  r \in file.rows /\ OfCapture(r, c) /\ Tells(r, c)
  <2>1. PICK d \in captures : OfCapture(r, d) /\ Tells(r, d)
    BY DEF RowsTell
  <2>2. d = c
    BY <2>1 DEF OfCapture, Captures
  <2> QED BY <2>1, <2>2
<1>3. \A r \in file.rows : OfCapture(r, c) => r \in list
  BY DEF OfCapture
<1>4. \A i \in 1..n : \E r \in list : r.rank = i
  <2> HIDE DEF list
  <2>1. \A i \in DOMAIN c.list : \E r \in file.rows : OfCapture(r, c) /\ r.rank = i
    BY DEF RowsTell
  <2> QED BY <1>1, <1>3, <2>1
<1>5. \A r, q \in list : r.rank = q.rank => r = q
  BY DEF RowsTell
<1>6. IsFiniteSet(list)
  BY FS_Subset DEF RowsTell
<1> HIDE DEF list
<1>7. Cardinality(list) = n
  <2> DEFINE f == [r \in list |-> r.rank]
  <2>1. \A r \in list : r.rank \in 1..n
    BY <1>1, <1>2 DEF Tells
  <2>2. f \in Bijection(list, 1..n)
    <3>1. f \in [list -> 1..n] /\ \A r \in list : f[r] = r.rank
      BY <2>1
    <3> HIDE DEF f
    <3>2. f \in Injection(list, 1..n)
      BY <1>5, <3>1 DEF Injection, IsInjective
    <3>3. f \in Surjection(list, 1..n)
      BY <1>4, <3>1 DEF Surjection
    <3> QED BY <3>2, <3>3 DEF Bijection
  <2>3. ExistsBijection(list, 1..n)
    BY <2>2 DEF ExistsBijection
  <2>4. Cardinality(1..n) = Cardinality(list)
    BY <1>6, <2>3, FS_Bijection
  <2>5. Cardinality(1..n) = n
    <3>1. Cardinality(1..n) = IF 1 > n THEN 0 ELSE n - 1 + 1
      <4> HIDE DEF n
      <4>1. 1 \in Int /\ n \in Int
        BY <1>1
      <4> QED BY <4>1, FS_Interval
    <3> HIDE DEF n
    <3> QED BY <1>1, <3>1
  <2> QED BY <2>4, <2>5
<1>8. ASSUME NEW r \in list
      PROVE  /\ file.commands[r.command] = c.list[r.rank].command
             /\ r.started = (IF c.list[r.rank].started = "junk" THEN "none"
                             ELSE IF c.list[r.rank].started = "text" THEN "ms"
                             ELSE c.list[r.rank].started)
             /\ ReadRank(list, r) = (IF c.ranked THEN c.list[r.rank].cpu ELSE r.rank)
  <2>1. Tells(r, c)
    BY <1>2
  <2>2. Name(r) = file.commands[r.command]
    BY DEF Name
  <2>3. Start(c.list[r.rank].started) = Converted(c.list[r.rank].started)
    BY DEF Start
  <2>4. r.started = (IF c.list[r.rank].started = "junk" THEN "none"
                     ELSE IF c.list[r.rank].started = "text" THEN "ms"
                     ELSE c.list[r.rank].started)
    BY <2>1, <2>3 DEF Tells, Converted
  <2>5. CASE c.ranked
    <3>1. PICK i \in 1..n : c.list[i].cpu # 0 \/ c.list[i].memory # 0
      BY <1>1, <2>5 DEF IsCapture
    <3>2. PICK q \in list : q.rank = i
      BY <1>4
    <3>3. q.cpu = c.list[i].cpu /\ q.memory = c.list[i].memory
      BY <1>2, <2>5, <3>2 DEF Tells
    <3>4. ~(\A x \in list : x.cpu = 0 /\ x.memory = 0)
      BY <3>1, <3>2, <3>3
    <3>5. r.cpu = c.list[r.rank].cpu
      BY <2>1, <2>5 DEF Tells
    <3> QED BY <2>1, <2>2, <2>4, <2>5, <3>4, <3>5 DEF Tells, ReadRank
  <2>6. CASE ~c.ranked
    <3>1. \A x \in list : x.memory = 0
      BY <1>2, <2>6 DEF Tells
    <3>2. (\A x \in list : x.cpu = 0) \/ (\A x \in list : x.cpu = x.rank)
      BY <1>2, <2>6 DEF RowsTell
    <3>3. ReadRank(list, r) = r.rank
      BY <3>1, <3>2 DEF ReadRank
    <3> QED BY <2>1, <2>2, <2>4, <2>6, <3>3 DEF Tells
  <2> QED BY <2>5, <2>6
<1> QED BY <1>7, <1>8 DEF list

(* Every process list reads as it was stored, and every mount where it was, in a migrated file
   (migrate_v1_to_v2, read_unranked_capture_as_cpu_list, fs_mount_events). *)
THEOREM ListsAreReadBack == MigrationSpec => []ListsReadBack
<1>1. ASSUME MigrationInv
      PROVE  ListsReadBack
  <2>1. Captures /\ RowsTell /\ Mounts
    BY <1>1 DEF MigrationInv, RowInv
  <2>2. ASSUME file.version = 6, NEW r \in file.mounts, NEW q \in file.mounts
        PROVE  /\ Shown(r.mount, r.at)
               /\ Shown(q.mount, r.at) => \E l \in file.mounts : l.mount = q.mount /\ l.at >= r.at
    <3>1. file.events = MountEvents
      BY <2>1, <2>2 DEF Mounts
    <3> QED BY <2>1, <3>1, MountsShown
  <2> QED BY <2>1, <2>2, ListReads DEF ListsReadBack, Shown
<1> QED BY <1>1, MigrationInvHolds, PTL
=============================================================================
