------------------------------- MODULE Migration -------------------------------
(***************************************************************************)
(* Opening a history file of any schema version: the steps from the legacy *)
(* layout (v0) to the current one (v6), the copy kept of a v0 file, the    *)
(* record of an unfinished migration, and processes that open one file at  *)
(* a time (migration.rs, db pre-image of main.rs; ADRs 0023-0026, 0036,    *)
(* 0037).                                                                  *)
(*                                                                         *)
(* One action is one transaction or VACUUM INTO; a process may die between *)
(* any two of them.  Only v5 to v6 and the opening of a v6 file are made   *)
(* for two processes at a time (ADR 0037), so nothing else is opened by    *)
(* two here.                                                               *)
(*                                                                         *)
(* Abstraction: a table is the set of its columns that some version adds   *)
(* or drops.  A snapshot's JSON is a payload with an identity.  Counts     *)
(* and durations of the markers are left out.                              *)
(***************************************************************************)
EXTENDS Naturals, Sequences, FiniteSets

CONSTANTS Starter,        \* processes that open the file
          Time, Payload, Undecodable, Program,
          OldFile,        \* files as older programs left them
          KeepFrom,       \* v0 payloads captured before it are dropped
          LateTime, OldTime, NewTime, \* when programs that run beside it or after it write
          MaxListed,      \* MAX_TOP_PROCESS_COUNT
          MaxStops        \* bound

ASSUME MigrationConstants ==
  /\ Time \subseteq Nat /\ KeepFrom \in Nat /\ {LateTime, OldTime, NewTime} \subseteq Time
  /\ Undecodable \subseteq Payload /\ "none" \notin Payload
  /\ MaxListed \in Nat \ {0} /\ MaxStops \in Nat
  /\ LateTime >= KeepFrom

VARIABLES file,      \* the database
          preImage,  \* the copy of the v0 file: its samples, and whether it is complete
          aside,     \* the samples of complete copies that the operator put elsewhere
          starter,   \* the processes that open it
          payloads,  \* history: every payload the file was ever given
          captures,  \* history: every process list it was ever given
          from,      \* history: the version before the first start, 6 for no file
          stops

migrationVars == <<file, preImage, aside, starter, payloads, captures, from, stops>>

-----------------------------------------------------------------------------
(* Schemas: what CREATE TABLE IF NOT EXISTS leaves of two of them. *)

Columns(tables, new) ==
  [t \in DOMAIN tables \cup DOMAIN new |-> IF t \in DOMAIN tables THEN tables[t] ELSE new[t]]

BaseTables ==
  [metric_rollups_1m |-> {"bounds"}, metric_rollups_5m |-> {"bounds"},
   metric_rollups_1h |-> {"bounds"}, app_settings |-> {}, history_state |-> {},
   fs_samples |-> {}]

SchemaV1 ==
  Columns([metric_samples |-> {"json"}, process_samples |-> {"command", "started_at"},
           app_events |-> {}], BaseTables)

HeadV2 == Columns([metric_samples |-> {"json"}], BaseTables)
CommandsV2 == [process_commands |-> {}]
FastV2 == [process_samples_fast |-> {"command_id", "started_at", "gpu_percent"}]
MinuteV2 == [process_samples |-> {"command_id", "started_at"}]
Events == [app_events |-> {}]

HeadV3 == [host_identity |-> {}, fs_mount_events |-> {}, metric_samples |-> {"identity_id"}]

ListV4 == {"command_id", "started_at_ms", "gpu_percent"}
FastV4 == [process_samples_fast |-> ListV4]
MinuteV4 == [process_samples |-> ListV4]
GpusV4 == [gpu_adapters |-> {}, gpu_samples |-> {}]

SensorsV5 == [sensor_dim |-> {}, sensor_samples |-> {}]

ListV6 == ListV4 \cup {"swap_bytes", "cpu_rank", "memory_rank"}
FastV6 == [process_samples_fast |-> ListV6]
MinuteV6 == [process_samples |-> ListV6]

\* The groups of CREATE_SCHEMA_V2_SQL and so on, in their order.
SchemaV2 == Columns(HeadV2, Columns(CommandsV2, Columns(FastV2, Columns(MinuteV2, Events))))
SchemaV3 == Columns(HeadV3, SchemaV2)
SchemaV4 ==
  Columns(HeadV3, Columns(HeadV2, Columns(CommandsV2, Columns(FastV4,
    Columns(MinuteV4, Columns(GpusV4, Events))))))
SchemaV5 ==
  Columns(HeadV3, Columns(HeadV2, Columns(CommandsV2, Columns(FastV4,
    Columns(MinuteV4, Columns(GpusV4, Columns(SensorsV5, Events)))))))

SchemaV6HeadFirst ==   \* variant: the older head comes first
  Columns(HeadV2, Columns(HeadV3, Columns(CommandsV2, Columns(FastV6,
    Columns(MinuteV6, Columns(GpusV4, Columns(SensorsV5, Events)))))))

SchemaV6 ==
  Columns(HeadV3, Columns(HeadV2, Columns(CommandsV2, Columns(FastV6,
    Columns(MinuteV6, Columns(GpusV4, Columns(SensorsV5, Events)))))))

Schema == <<SchemaV1, SchemaV2, SchemaV3, SchemaV4, SchemaV5, SchemaV6>>

\* The tables of a v0 file with samples: some of SchemaV1, one of them without bounds.
Legacy(tables) ==
  /\ "metric_samples" \in DOMAIN tables /\ DOMAIN tables \subseteq DOMAIN SchemaV1
  /\ \A t \in DOMAIN tables \ {"metric_rollups_1m"} : tables[t] = SchemaV1[t]

\* What the programs of version v wrote of a process: a start time is text until v4.
Entries(v) ==
  [command : Program, started : IF v < 4 THEN {"text", "junk", "none"} ELSE {"ms", "none"},
   cpu : {0}, memory : {0}]

\* The files as those programs left them; one of v5 may have been changed by another.
ASSUME OldFiles ==
  \A old \in OldFile :
    /\ old.version \in 0..5 /\ old.events = {}
    /\ old.version = 0 => DOMAIN old.tables = {} \/ Legacy(old.tables)
    /\ old.version \in 1..4 => old.tables = Schema[old.version]
    /\ old.version = 5 /\ old.tables # SchemaV5 =>
         \E t \in {"process_samples_fast", "process_samples"} :
           t \in DOMAIN old.tables => old.tables[t] # ListV4
    /\ old.samples \subseteq
         [at : Time, payload : Payload \cup {"none"}, typed : Payload \cup {"none"}]
    /\ \A s \in old.samples : IF old.version < 3 THEN s.typed = "none" ELSE s.payload = "none"
    /\ IsFiniteSet(old.mounts) /\ (old.version >= 3 => old.mounts = {})
    /\ \A r \in old.mounts : r = [at |-> r.at, mount |-> r.mount] /\ r.at \in Time
    /\ IsFiniteSet(old.captures)
    /\ old.captures \subseteq [table : {"minute", "fast"}, at : Time, ranked : {FALSE},
                               list : Seq(Entries(old.version))]
    /\ \A c, d \in old.captures : c.table = d.table /\ c.at = d.at => c = d
    /\ DOMAIN old.tables = {} => old.samples = {} /\ old.mounts = {} /\ old.captures = {}

\* A step that drops or renames a table fails where the schema is another.
Has(table, columns) == table \in DOMAIN file.tables /\ file.tables[table] = columns

-----------------------------------------------------------------------------
(* Rows of the process tables.  Before v2 they hold the command, then its id. *)

Row(c, rank, command, started, cpu, memory) ==
  [table |-> c.table, at |-> c.at, rank |-> rank, command |-> command, started |-> started,
   cpu |-> cpu, memory |-> memory]

\* What a writer stores of a list; Id gives what it stores for a command.
Rows(c, Id(_)) ==
  {Row(c, i, Id(c.list[i].command), c.list[i].started, c.list[i].cpu, c.list[i].memory) :
     i \in DOMAIN c.list}

Named(all) == UNION {{c.list[i].command : i \in DOMAIN c.list} : c \in all}

\* A dictionary that has these names too, one id each.
Interned(commands, names) ==
  LET new == names \ {commands[i] : i \in DOMAIN commands}
      n == Cardinality(DOMAIN commands)
      Free == n + 1 .. n + Cardinality(new)
  IN {[i \in DOMAIN commands \cup Free |-> IF i \in DOMAIN commands THEN commands[i] ELSE f[i]] :
        f \in {g \in [Free -> new] : \A i, j \in Free : g[i] = g[j] => i = j}}

CommandId(commands, name) == CHOOSE i \in DOMAIN commands : commands[i] = name

IsNew == file.version = 0 /\ "metric_samples" \notin DOMAIN file.tables

MigrationInit ==
  /\ \E old \in OldFile :
     \E commands \in Interned(<<>>, IF old.version >= 2 THEN Named(old.captures) ELSE {}) :
       LET Stored(name) == IF old.version >= 2 THEN CommandId(commands, name) ELSE name
       IN /\ file = [version |-> old.version, tables |-> old.tables, samples |-> old.samples,
                     mounts |-> old.mounts, events |-> old.events, commands |-> commands,
                     rows |-> UNION {Rows(c, Stored) : c \in old.captures},
                     log |-> <<>>, pending |-> "none"]
          /\ captures = old.captures
  /\ preImage = [samples |-> {}, state |-> "none"] /\ aside = {}
  /\ starter = [p \in Starter |-> [at |-> "off"]]
  /\ payloads = {[at |-> s.at, payload |-> s.payload] :
                   s \in {r \in file.samples : r.payload # "none"}}
  /\ from = IF IsNew THEN 6 ELSE file.version
  /\ stops = 0

-----------------------------------------------------------------------------
(* A process opens the file. *)

Steps == <<"v1", "v2", "v3", "v4", "v5">>
StepsFrom(v) == SubSeq(Steps, v, 5)

PlanRebuildingFirst ==   \* variant: the copy is made of the rebuilt file
  CASE file.version = 6 -> <<"apply", "complete">>
    [] file.version \in 2..5 -> StepsFrom(file.version) \o <<"complete">>
    [] file.version = 1 -> <<"complete">> \o Steps
    [] IsNew -> <<"apply">>
    [] file.version = 0 /\ ~IsNew /\ file.samples = {} -> <<"rebuildEmpty">> \o Steps
    [] OTHER -> <<"rebuild", "copy", "complete">> \o Steps

PlanCompletingLast ==   \* variant: an unfinished migration to v1 is completed last
  CASE file.version = 6 -> <<"apply", "complete">>
    [] file.version \in 1..5 -> StepsFrom(file.version) \o <<"complete">>
    [] IsNew -> <<"apply">>
    [] file.version = 0 /\ ~IsNew /\ file.samples = {} -> <<"rebuildEmpty">> \o Steps
    [] OTHER -> <<"copy", "rebuild", "complete">> \o Steps

\* ensure_schema: what is to be done, by the version it reads.
Plan ==
  CASE file.version = 6 -> <<"apply", "complete">>
    [] file.version \in 2..5 -> StepsFrom(file.version) \o <<"complete">>
    [] file.version = 1 -> <<"complete">> \o Steps
    [] IsNew -> <<"apply">>
    [] file.version = 0 /\ ~IsNew /\ file.samples = {} -> <<"rebuildEmpty">> \o Steps
    [] OTHER -> <<"copy", "rebuild", "complete">> \o Steps

Opens(p) ==
  /\ starter[p].at \in {"off", "refused"}
  /\ file.version \in {5, 6} \/ \A q \in Starter : starter[q].at # "opens"
  /\ starter' = [starter EXCEPT ![p] = [at |-> "opens", todo |-> Plan]]
  /\ UNCHANGED <<file, preImage, aside, payloads, captures, from, stops>>

IsAt(p, step) == starter[p].at = "opens" /\ Head(starter[p].todo) = step

GoesOn(p) ==
  starter' = [starter EXCEPT ![p] = IF Len(@.todo) = 1 THEN [at |-> "runs"]
                                    ELSE [at |-> "opens", todo |-> Tail(@.todo)]]

Refuses(p, why) ==
  /\ starter' = [starter EXCEPT ![p] = [at |-> "refused", why |-> why]]
  /\ UNCHANGED <<file, preImage, aside, payloads, captures, from, stops>>

\* A transaction commits the next file, where its statements can run.
CommitsFile(p, step, next) ==
  /\ IsAt(p, step)
  /\ file' = next
  /\ GoesOn(p)
  /\ UNCHANGED <<preImage, aside, payloads, captures, from, stops>>

Applied == [file EXCEPT !.tables = Columns(@, SchemaV6), !.version = 6]

AppliesSchema(p) == CommitsFile(p, "apply", Applied)

\* refuse_existing_pre_image; too little free space or none known.
RefusesCopy(p) ==
  /\ IsAt(p, "copy")
  /\ \/ preImage.state # "none" /\ Refuses(p, "copy")
     \/ preImage.state = "none" /\ Refuses(p, "room")

\* VACUUM INTO the pre-image.
Copies(p) ==
  /\ IsAt(p, "copy") /\ preImage.state = "none"
  /\ preImage' = [samples |-> file.samples, state |-> "full"]
  /\ GoesOn(p)
  /\ UNCHANGED <<file, aside, payloads, captures, from, stops>>

\* It breaks off and leaves a part of it.
CopyBreaks(p) ==
  /\ stops < MaxStops
  /\ IsAt(p, "copy") /\ preImage.state = "none"
  /\ preImage' = [samples |-> {}, state |-> "partial"]
  /\ starter' = [starter EXCEPT ![p] = [at |-> "off"]]
  /\ stops' = stops + 1
  /\ UNCHANGED <<file, aside, payloads, captures, from>>

\* v0 to v1: old payloads go, what is missing of the schema is created.
Rebuilt(pending) ==
  [file EXCEPT !.samples = {[s EXCEPT !.payload = IF s.at >= KeepFrom THEN @ ELSE "none"] : s \in @},
               !.tables = [Columns(@, SchemaV1) EXCEPT !.metric_rollups_1m = {"bounds"}],
               !.pending = pending, !.version = 1]

Rebuilds(p) ==
  /\ Has("metric_samples", {"json"})
  /\ \/ CommitsFile(p, "rebuild", Rebuilt("open"))
     \/ CommitsFile(p, "rebuildEmpty", Rebuilt(file.pending))

\* vacuum_and_complete_migration, where the record says that it was not done: the first
\* marker.
CompletesPending(p) ==
  CommitsFile(p, "complete",
          IF file.pending = "open"
          THEN [file EXCEPT !.pending = "done", !.log = IF @ = <<>> THEN <<0>> ELSE @]
          ELSE file)

\* v1 to v2: commands are interned and the column is dropped.
InternsCommands(p) ==
  /\ Has("process_samples", {"command", "started_at"})
  /\ \E commands \in Interned(<<>>, {r.command : r \in file.rows}) :
       CommitsFile(p, "v1",
         [file EXCEPT !.commands = commands,
            !.rows = {[r EXCEPT !.command = CommandId(commands, @)] : r \in @},
            !.tables = Columns(MinuteV2, Columns(@, Columns(CommandsV2, FastV2))),
            !.log = Append(@, 1), !.version = 2])

LastRow(m) == CHOOSE t \in Time : [at |-> t, mount |-> m] \in file.mounts
             /\ \A r \in file.mounts : r.mount = m => r.at <= t
FirstRow(m) == CHOOSE t \in Time : [at |-> t, mount |-> m] \in file.mounts
             /\ \A r \in file.mounts : r.mount = m => t <= r.at

MountsEndingAtLast ==   \* variant: gone with its last row instead of after it
  LET listed == {r.mount : r \in file.mounts}
  IN {[at |-> FirstRow(m), mount |-> m, present |-> TRUE] : m \in listed}
     \cup {[at |-> LastRow(m), mount |-> m, present |-> FALSE] :
             m \in {n \in listed : \E r \in file.mounts : r.at > LastRow(n)}}

\* A mount appears with its first row and is gone after its last.
MountEvents ==
  LET listed == {r.mount : r \in file.mounts}
  IN {[at |-> FirstRow(m), mount |-> m, present |-> TRUE] : m \in listed}
     \cup {[at |-> LastRow(m) + 1, mount |-> m, present |-> FALSE] :
             m \in {n \in listed : \E r \in file.mounts : r.at > LastRow(n)}}

Decodable == \A s \in file.samples : s.payload \notin Undecodable

\* v2 to v3: payloads become an identity and typed columns.
TypesSamples(p) ==
  /\ Has("metric_samples", {"json"}) /\ "host_identity" \notin DOMAIN file.tables
  /\ Decodable
  /\ CommitsFile(p, "v2",
       [file EXCEPT !.samples = {[s EXCEPT !.payload = "none", !.typed = s.payload] : s \in @},
          !.events = MountEvents,
          !.tables = Columns(HeadV3, @),
          !.log = Append(@, 2), !.version = 3])

RefusesPayload(p) == IsAt(p, "v2") /\ ~Decodable /\ Refuses(p, "payload")

\* v3 to v4: start times become numbers where they can be parsed.
ConvertsStartTimes(p) ==
  /\ Has("process_samples", {"command_id", "started_at"})
  /\ Has("process_samples_fast", {"command_id", "started_at", "gpu_percent"})
  /\ CommitsFile(p, "v3",
       [file EXCEPT !.rows = {[r EXCEPT !.started = IF @ = "text" THEN "ms" ELSE "none"] : r \in @},
          !.tables = Columns(FastV4, Columns(MinuteV4, Columns(@, GpusV4))),
          !.log = Append(@, 3), !.version = 4])

\* v4 to v5.
AddsSensors(p) ==
  CommitsFile(p, "v4",
    [file EXCEPT !.tables = Columns(@, Columns(SensorsV5, Events)),
       !.log = Append(@, 4), !.version = 5])

Recognised == Has("process_samples_fast", ListV4) /\ Has("process_samples", ListV4)

Oversize == \E r \in file.rows : r.rank > MaxListed

AddsRanksUnread(p) ==   \* variant: the version is not read again under the lock
  /\ IsAt(p, "v5")
  /\ \/ /\ Recognised /\ ~Oversize
        /\ CommitsFile(p, "v5",
             [file EXCEPT !.rows = {[r EXCEPT !.cpu = r.rank] : r \in @},
                !.tables = Columns(FastV6, Columns(MinuteV6, @)),
                !.log = Append(@, 5), !.version = 6])
     \/ ~Recognised /\ Refuses(p, "changed")
     \/ Recognised /\ Oversize /\ Refuses(p, "oversize")

\* v5 to v6, under the write lock: the version is read again.  Rows of the time before
\* are positions of the one list by CPU.
AddsRanks(p) ==
  /\ IsAt(p, "v5")
  /\ \/ /\ file.version = 5 /\ Recognised /\ ~Oversize
        /\ CommitsFile(p, "v5",
             [file EXCEPT !.rows = {[r EXCEPT !.cpu = r.rank] : r \in @},
                !.tables = Columns(FastV6, Columns(MinuteV6, @)),
                !.log = Append(@, 5), !.version = 6])
     \/ file.version = 6 /\ CommitsFile(p, "v5", Applied)
     \/ file.version # 6 /\ ~(file.version = 5 /\ Recognised) /\ Refuses(p, "changed")
     \/ file.version = 5 /\ Recognised /\ Oversize /\ Refuses(p, "oversize")

\* The process dies, or a statement fails (busy, disk full) and ends it; it may start again.
StarterStops(p) ==
  /\ stops < MaxStops /\ starter[p].at \in {"opens", "runs"}
  /\ starter' = [starter EXCEPT ![p] = [at |-> "off"]]
  /\ stops' = stops + 1
  /\ UNCHANGED <<file, preImage, aside, payloads, captures, from>>

-----------------------------------------------------------------------------
(* The operator. *)

\* The copy is moved to a safe place, as the refusal tells.
MovesCopy ==
  /\ preImage.state # "none"
  /\ preImage' = [samples |-> {}, state |-> "none"]
  /\ aside' = IF preImage.state = "full" THEN aside \cup preImage.samples ELSE aside
  /\ UNCHANGED <<file, starter, payloads, captures, from, stops>>

\* pre_image_remove_allowed.  The database is there and its integrity is not in question.
Removable == file.version >= 1

\* db pre-image remove: what only the copy had is given up.
RemovesCopy ==
  /\ preImage.state # "none" /\ Removable
  /\ preImage' = [samples |-> {}, state |-> "none"]
  /\ payloads' = {l \in payloads : \A s \in preImage.samples :
                    ~(s.at = l.at /\ s.payload = l.payload /\ s.at < KeepFrom)}
  /\ UNCHANGED <<file, aside, starter, captures, from, stops>>

\* A payload that does not decode is cleared by hand, as the refusal tells.
ClearsPayload ==
  /\ \E p \in Starter : starter[p] = [at |-> "refused", why |-> "payload"]
  /\ \E s \in file.samples :
       /\ s.payload \in Undecodable
       /\ file' = [file EXCEPT !.samples = (@ \ {s}) \cup {[s EXCEPT !.payload = "none"]}]
       /\ payloads' = payloads \ {[at |-> s.at, payload |-> s.payload]}
  /\ UNCHANGED <<preImage, aside, starter, captures, from, stops>>

-----------------------------------------------------------------------------
(* Programs that write to it meanwhile and after. *)

\* The legacy collector inserts a sample with its payload, while the columns are there.
LegacyWrites ==
  /\ from = 0 /\ file.version < 2
  /\ \A s \in file.samples : s.at # LateTime
  /\ \E payload \in Payload \ Undecodable :
       /\ file' = [file EXCEPT !.samples = @ \cup {[at |-> LateTime, payload |-> payload, typed |-> "none"]}]
       /\ payloads' = payloads \cup {[at |-> LateTime, payload |-> payload]}
  /\ UNCHANGED <<preImage, aside, starter, captures, from, stops>>

StoresList(c) ==
  /\ \A d \in captures : d.at # c.at
  /\ \E commands \in Interned(file.commands, Named({c})) :
       LET Stored(name) == CommandId(commands, name)
       IN file' = [file EXCEPT !.commands = commands, !.rows = @ \cup Rows(c, Stored)]
  /\ captures' = captures \cup {c}
  /\ UNCHANGED <<preImage, aside, starter, payloads, from, stops>>

Listed(command, started, cpu, memory) ==
  [command |-> command, started |-> started, cpu |-> cpu, memory |-> memory]

\* An older daemon, still running on a v5 file, stores its one list without ranks.
OldDaemonWrites ==
  /\ from = 5
  /\ \E a, b \in Program :
       StoresList([table |-> "fast", at |-> OldTime, ranked |-> FALSE,
               list |-> <<Listed(a, "ms", 0, 0), Listed(b, "ms", 0, 0)>>])

\* This program stores two lists in one.
DaemonWrites(p) ==
  /\ starter[p].at = "runs"
  /\ \E a, b \in Program :
       StoresList([table |-> "fast", at |-> NewTime, ranked |-> TRUE,
               list |-> <<Listed(a, "ms", 1, 0), Listed(b, "none", 0, 1)>>])

Opening(p) ==
  \/ Opens(p) \/ AppliesSchema(p) \/ RefusesCopy(p) \/ Copies(p) \/ CopyBreaks(p)
  \/ Rebuilds(p) \/ CompletesPending(p) \/ InternsCommands(p) \/ TypesSamples(p)
  \/ RefusesPayload(p) \/ ConvertsStartTimes(p) \/ AddsSensors(p) \/ AddsRanks(p) \/ StarterStops(p)

MigrationNext ==
  \/ \E p \in Starter : Opening(p) \/ DaemonWrites(p)
  \/ MovesCopy \/ RemovesCopy \/ ClearsPayload \/ LegacyWrites \/ OldDaemonWrites

MigrationSpec == MigrationInit /\ [][MigrationNext]_migrationVars

-----------------------------------------------------------------------------
(* Properties. *)

\* Types; and whatever path led to a version, its tables are those that a file created at
\* that version has (migrate_v1_to_v2 ... against CREATE_SCHEMA_V2_SQL ...), but for a v5
\* file changed by another program.
MigrationTypeOK ==
  /\ file.version \in 0..6 /\ file.pending \in {"none", "open", "done"}
  /\ file.version >= 1 =>
       \/ file.tables = Schema[file.version]
       \/ file.version = 5 /\ from = 5 /\ ~Recognised
  /\ \A s \in file.samples : s.at \in Time /\ {s.payload, s.typed} \subseteq Payload \cup {"none"}
  /\ \A r \in file.rows : file.version >= 2 => r.command \in DOMAIN file.commands
  /\ \A i, j \in DOMAIN file.commands : file.commands[i] = file.commands[j] => i = j
  /\ preImage.state \in {"none", "partial", "full"}
  /\ \A p \in Starter : starter[p].at \in {"off", "opens", "runs", "refused"}
  /\ stops \in 0..MaxStops

\* No payload of a v0 file is lost: it is in the file, typed since v3, or in a complete
\* copy, wherever a start stopped; unless the operator removed that copy or cleared the
\* payload.  And no sample ever goes (migrate_populated_v0, rebuild_v0_schema).
PayloadsKept ==
  \A l \in payloads :
    /\ \/ \E s \in file.samples : s.at = l.at /\ l.payload \in {s.payload, s.typed}
       \/ \E s \in aside \cup preImage.samples : s.at = l.at /\ s.payload = l.payload
    /\ \E s \in file.samples : s.at = l.at

\* A process that runs has a file of the current version whose migration is recorded: a
\* marker for every step, once and in order, however often it was started.  An open that
\* is refused has its cause in the file, also with two at a time (ADR 0037, "Two migrators
\* are safe"): what another program did to the file meanwhile is never one.
MigrationAudited ==
  \A p \in Starter :
    /\ starter[p].at = "runs" =>
         /\ file.version = 6 /\ file.pending # "open"
         /\ file.log = (IF file.pending = "done" THEN <<0>> ELSE <<>>)
                         \o SubSeq(<<1, 2, 3, 4, 5>>, IF from = 0 THEN 1 ELSE from, 5)
    /\ starter[p].at = "refused" =>
         /\ starter[p].why = "changed" => file.version = 5 /\ ~Recognised
         /\ starter[p].why = "oversize" => \E c \in captures : ~c.ranked /\ Len(c.list) > MaxListed

\* What read_unranked_capture_as_cpu_list makes of a list: without any rank, its rows are
\* positions by CPU.
ReadRank(list, r) == IF \A q \in list : q.cpu = 0 /\ q.memory = 0 THEN r.rank ELSE r.cpu

\* In a migrated file every process list reads as it was stored, whichever steps it went
\* through and whoever stored it: each position holds its command, its start time where
\* that was one, and its place in the list by CPU, which for a writer of one list is the
\* position.  And a mount of the time before v3 is there from its first row to its last,
\* and no longer where others have later rows.
ListsReadBack ==
  file.version = 6 =>
    /\ \A c \in captures :
         LET list == {r \in file.rows : r.table = c.table /\ r.at = c.at}
         IN /\ Cardinality(list) = Len(c.list)
            /\ \A r \in list :
                 /\ file.commands[r.command] = c.list[r.rank].command
                 /\ r.started = (IF c.list[r.rank].started = "junk" THEN "none"
                                 ELSE IF c.list[r.rank].started = "text" THEN "ms"
                                 ELSE c.list[r.rank].started)
                 /\ ReadRank(list, r) = (IF c.ranked THEN c.list[r.rank].cpu ELSE r.rank)
    /\ \A r, q \in file.mounts :
         LET Shown(m, t) ==
               \E e \in file.events :
                 /\ e.mount = m /\ e.at <= t /\ e.present
                 /\ \A d \in file.events : d.mount = m /\ d.at <= t => d.at <= e.at
         IN /\ Shown(r.mount, r.at)
            /\ Shown(q.mount, r.at) => \E l \in file.mounts : l.mount = q.mount /\ l.at >= r.at
=============================================================================
