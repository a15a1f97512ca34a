-------------------------- MODULE SnapshotHistory --------------------------
(***************************************************************************)
(* What insert_snapshot keeps of a snapshot beside its metrics: the host's *)
(* identity, filesystems on change, devices (GPU adapters and sensors) and *)
(* process rows with interned commands; the caches it writes them by; the  *)
(* part of the maintenance tick that prunes them; and the read that puts   *)
(* the snapshot together again (lib.rs, maintenance.rs; ADRs 0021, 0024,   *)
(* 0025).                                                                  *)
(*                                                                         *)
(* One action is one statement or one transaction.  The writer gate allows *)
(* one insert at a time; a tick and a read interleave with it.             *)
(*                                                                         *)
(* Abstraction: a snapshot is the key of its filesystem enumeration (its   *)
(* stamp, or its capture time when the collector gives none), an identity, *)
(* a set of devices and a list of commands; a mount has one value.         *)
(* Numbers a row only carries along are left out.  A capture time is used  *)
(* once.                                                                   *)
(***************************************************************************)
EXTENDS Naturals, Sequences, FiniteSets

CONSTANTS Instant,        \* capture times and clock readings
          Mount, Value,   \* filesystems and what can differ about one
          Identity, Gpu, Sensor, Command,
          Snapshot,       \* what a collector can return
          Window,         \* the first and last capture time a read asks for
          L1Keep, L2Keep, FastKeep, DetailInterval,
          SeenInterval,   \* the 60 s after which last_seen_ms is written again
          FastBatch, OrphanBatch,  \* PROCESS_FAST_PRUNE_BATCH, ORPHAN_COMMAND_PRUNE_BATCH
          MaxBusy,        \* operations in progress; time passes while there are fewer
          Lateness,       \* from a capture to the start of its insert
          MaxInserts, MaxMishaps  \* bounds

ASSUME HistoryConstants ==
  /\ Instant \subseteq Nat /\ IsFiniteSet(Instant)
  /\ Gpu \cap Sensor = {}
  /\ Window \subseteq Nat \X Nat
  /\ Snapshot \subseteq [identity : Identity, filesystems : UNION {[M -> Value] : M \in SUBSET Mount},
                         devices : SUBSET (Gpu \cup Sensor), processes : Seq(Command)]
  /\ \A s \in Snapshot : IsFiniteSet(s.devices)
  /\ L1Keep \in Nat /\ L2Keep \in Nat /\ L1Keep <= L2Keep /\ FastKeep \in Nat
  /\ DetailInterval \in Nat \ {0} /\ SeenInterval \in Nat
  /\ FastBatch \in Nat \ {0} /\ OrphanBatch \in Nat \ {0}
  /\ MaxBusy \in Nat \ {0} /\ Lateness \in Nat
  /\ MaxInserts \in Nat /\ MaxMishaps \in Nat

VARIABLES clock,
          db,       \* the tables
          cache,    \* what the process keeps of them
          insert,   \* the insert that holds the writer gate
          tick,     \* the maintenance tick
          reader,   \* a read of a window
          started,  \* when the process started
          published, \* whether every commit reached the cache: yes, lost, written
          seen,     \* history: the enumeration at each key
          handled,  \* history: the keys whose enumeration was stored
          given,    \* history: the snapshot stored at each capture time
          mishaps

vars == <<clock, db, cache, insert, tick, reader, started, published, seen, handled,
          given, mishaps>>

With(f, x, y) == [z \in DOMAIN f \cup {x} |-> IF z = x THEN y ELSE f[z]]

Busy == Cardinality({op \in {<<1, insert.at>>, <<2, tick.at>>, <<3, reader.at>>} : op[2] # "idle"})

\* Filesystems in the order of an enumeration do not matter: a function from
\* the mounts it lists.
Enumeration == UNION {[M -> Value] : M \in SUBSET Mount}

Idle == [at |-> "idle"]

-----------------------------------------------------------------------------
(* The tables. *)

EmptyTables ==
  [metrics |-> {}, hosts |-> <<>>, rows |-> {}, events |-> {}, devices |-> <<>>,
   readings |-> {}, fast |-> {}, minute |-> {}, commands |-> <<>>,
   lastDetail |-> {}, pending |-> FALSE]

Newest(table, m) ==
  {r \in table : r.mount = m /\ \A q \in table : q.mount = m => q.at <= r.at}

NewestOf(table) == {r \in table : r \in Newest(table, r.mount)}

\* The last metric row decides the current identity and the last key.
LastMetric(tables) == {r \in tables.metrics : \A q \in tables.metrics : q.at <= r.at}

PrimedIdentity(tables) ==
  {[strings |-> tables.hosts[r.host], id |-> r.host] : r \in LastMetric(tables)}

PrimedFilesystems(tables) ==
  [lastKey |-> {r.key : r \in LastMetric(tables)},
   lastRows |-> [m \in {r.mount : r \in tables.rows} |->
                   (CHOOSE r \in Newest(tables.rows, m) : TRUE).value],
   present |-> {e.mount : e \in {n \in NewestOf(tables.events) : n.present}}]

Primed(tables) == [identity |-> PrimedIdentity(tables), fs |-> PrimedFilesystems(tables),
                   devices |-> tables.devices]

Init ==
  /\ clock \in Instant /\ \A t \in Instant : clock <= t
  /\ db = EmptyTables
  /\ cache = Primed(EmptyTables)
  /\ insert = Idle /\ tick = Idle /\ reader = Idle
  /\ started = 0 /\ published = "yes"
  /\ seen = <<>> /\ handled = {} /\ given = <<>>
  /\ mishaps = 0

-----------------------------------------------------------------------------
(* An insert. *)

\* A snapshot captured by now.  Its enumeration is one seen before or a new one;
\* it was made by this process.
InsertBegins ==
  /\ insert.at = "idle" /\ Busy < MaxBusy
  /\ Cardinality(DOMAIN given) < MaxInserts
  /\ \E t \in Instant, k \in Instant, s \in Snapshot :
       /\ started < k /\ k <= t /\ t <= clock /\ clock <= t + Lateness
       /\ t \notin DOMAIN given
       /\ k \in DOMAIN seen => s.filesystems = seen[k]
       /\ seen' = With(seen, k, s.filesystems)
       /\ insert' = [at |-> "store", captured |-> t, key |-> k, snapshot |-> s, rows |-> FALSE]
  /\ UNCHANGED <<clock, db, cache, tick, reader, started, published, handled, given,
                 mishaps>>

HostIdCached(strings) ==   \* variant: the cached identity, whatever it is
  IF cache.identity # {} THEN (CHOOSE c \in cache.identity : TRUE).id ELSE 1

\* The identity's id: the cached one, or the row that INSERT OR IGNORE leaves.
HostId(strings) ==
  IF \E c \in cache.identity : c.strings = strings
  THEN (CHOOSE c \in cache.identity : TRUE).id
  ELSE IF \E i \in 1..Len(db.hosts) : db.hosts[i] = strings
       THEN CHOOSE i \in 1..Len(db.hosts) : db.hosts[i] = strings
       ELSE Len(db.hosts) + 1

HostsWithFirst(strings, id) ==   \* variant: interned only while nothing is cached
  IF cache.identity = {} THEN Append(db.hosts, strings) ELSE db.hosts

HostsWith(strings, id) == IF id > Len(db.hosts) THEN Append(db.hosts, strings) ELSE db.hosts

IsAnotherKey(k) == \A last \in cache.fs.lastKey : last # k   \* variant: a late one is stored

\* Only an enumeration newer than the last one is stored.
IsNewKey(k) == \A last \in cache.fs.lastKey : last < k

Appeared(e) == DOMAIN e \ cache.fs.present
ChangedInCache(e) == {m \in DOMAIN e : m \notin DOMAIN cache.fs.lastRows
                                       \/ cache.fs.lastRows[m] # e[m]}

WrittenMounts(e) == Appeared(e) \cup ChangedInCache(e)

\* An upsert replaces the rows of its key.
Upserted(table, new) ==
  {r \in table : \A n \in new : <<n.at, n.mount>> # <<r.at, r.mount>>} \cup new

RowsWith(k, e) ==
  Upserted(db.rows, {[at |-> k, mount |-> m, value |-> e[m]] : m \in WrittenMounts(e)})

EventsWith(k, e) ==
  Upserted(db.events,
           {[at |-> k, mount |-> m, present |-> TRUE] : m \in Appeared(e)}
           \cup {[at |-> k, mount |-> m, present |-> FALSE] : m \in cache.fs.present \ DOMAIN e})

NextFilesystems(k, e) ==
  [lastKey |-> {k},
   lastRows |-> [m \in DOMAIN cache.fs.lastRows \cup DOMAIN e |->
                   IF m \in DOMAIN e THEN e[m] ELSE cache.fs.lastRows[m]],
   present |-> DOMAIN e]

\* A device of the snapshot: its cached row, seen again after SeenInterval; or the row
\* of the table; or a new one.
DeviceRow(d, t) ==
  IF d \in DOMAIN cache.devices
  THEN IF cache.devices[d].seen + SeenInterval <= t
       THEN [cache.devices[d] EXCEPT !.seen = t]
       ELSE cache.devices[d]
  ELSE db.devices[d]

\* The dictionary with a row for every device of the snapshot, one id each.
DevicesWith(ds, t) ==
  LET new == ds \ (DOMAIN db.devices)
      old == Cardinality(DOMAIN db.devices)
  IN {[d \in DOMAIN db.devices \cup new |->
         IF d \in new THEN [id |-> ids[d], seen |-> t]
         ELSE IF d \in ds THEN DeviceRow(d, t) ELSE db.devices[d]] :
        ids \in {f \in [new -> old + 1 .. old + Cardinality(new)] :
                   \A x, y \in new : f[x] = f[y] => x = y}}

\* The transaction for everything but processes.
Tables(devices) ==
  LET t == insert.captured  k == insert.key  s == insert.snapshot  e == seen[k]
      host == HostId(s.identity)
  IN [db EXCEPT
        !.hosts = HostsWith(s.identity, host),
        !.metrics = @ \cup {[at |-> t, key |-> k, host |-> host]},
        !.rows = IF IsNewKey(k) THEN RowsWith(k, e) ELSE @,
        !.events = IF IsNewKey(k) THEN EventsWith(k, e) ELSE @,
        !.devices = devices,
        !.readings = @ \cup {[at |-> t, id |-> devices[d].id] : d \in s.devices}]

\* It commits.
Commits ==
  /\ insert.at = "store"
  /\ LET t == insert.captured  k == insert.key  s == insert.snapshot  e == seen[k]
     IN /\ \E devices \in DevicesWith(s.devices, t) : db' = Tables(devices)
        /\ given' = With(given, t, [key |-> k, snapshot |-> s])
        /\ handled' = IF IsNewKey(k) THEN handled \cup {k} ELSE handled
        /\ published' = IF published = "lost" /\ IsNewKey(k) THEN "written" ELSE published
        /\ insert' = [insert EXCEPT !.at = "fast",
                        !.rows = IsNewKey(k) /\ WrittenMounts(e) # {}]

\* Its caches are published with the commit: nothing else runs in between.
Publishes ==
  LET k == insert.key  s == insert.snapshot
  IN cache' = [identity |-> {[strings |-> s.identity, id |-> HostId(s.identity)]},
               fs |-> IF IsNewKey(k) THEN NextFilesystems(k, seen[k]) ELSE cache.fs,
               devices |-> [d \in DOMAIN cache.devices \cup s.devices |-> db'.devices[d]]]

Stores ==
  /\ Commits /\ Publishes
  /\ UNCHANGED <<clock, tick, reader, started, seen, mishaps>>

\* The handler is cancelled while it waits for the commit, which goes through.
StoresUnpublished ==
  /\ mishaps < MaxMishaps
  /\ insert.at = "store"
  /\ LET t == insert.captured  k == insert.key  s == insert.snapshot
     IN /\ \E devices \in DevicesWith(s.devices, t) : db' = Tables(devices)
        /\ given' = With(given, t, [key |-> k, snapshot |-> s])
        /\ handled' = IF IsNewKey(k) THEN handled \cup {k} ELSE handled
        /\ published' = IF IsNewKey(k) /\ published = "yes" THEN "lost"
                        ELSE IF IsNewKey(k) THEN "written" ELSE published
  /\ insert' = Idle
  /\ mishaps' = mishaps + 1
  /\ UNCHANGED <<clock, cache, tick, reader, started, seen>>

InsertStopsPublished ==   \* variant: the caches are published before the commit
  /\ mishaps < MaxMishaps
  /\ insert.at = "store"
  /\ \E devices \in DevicesWith(insert.snapshot.devices, insert.captured) :
       cache' = [identity |-> {[strings |-> insert.snapshot.identity,
                                id |-> HostId(insert.snapshot.identity)]},
                 devices |-> devices, fs |-> cache.fs]
  /\ insert' = Idle
  /\ mishaps' = mishaps + 1
  /\ UNCHANGED <<clock, db, tick, reader, started, published, seen, handled, given>>

\* Any statement fails, or the insert is cancelled; nothing of a transaction stays.
InsertStops ==
  /\ mishaps < MaxMishaps
  /\ insert.at # "idle"
  /\ insert' = Idle
  /\ mishaps' = mishaps + 1
  /\ UNCHANGED <<clock, db, cache, tick, reader, started, published, seen, handled, given>>

\* intern_command for each process of a list: the dictionary with an id for every
\* name, the next free ones in the list's order.  The ids of pruned commands are
\* given again.
CommandsWith(list) ==
  LET old == db.commands
      new == {i \in DOMAIN list : /\ \A j \in 1..(i - 1) : list[j] # list[i]
                                  /\ \A id \in DOMAIN old : old[id] # list[i]}
      top == IF DOMAIN old = {} THEN 0 ELSE CHOOSE i \in DOMAIN old : \A j \in DOMAIN old : j <= i
      idOf == [i \in new |-> top + Cardinality({j \in new : j <= i})]
  IN [id \in DOMAIN old \cup {idOf[i] : i \in new} |->
        IF id \in DOMAIN old THEN old[id] ELSE list[CHOOSE i \in new : idOf[i] = id]]

IdOf(commands, name) == CHOOSE i \in DOMAIN commands : commands[i] = name

ProcessRows(commands, t, list) ==
  {[at |-> t, rank |-> i, id |-> IdOf(commands, list[i])] : i \in DOMAIN list}

After(t, table) == {r \in table : r.at # t}

WritesFast ==
  /\ insert.at = "fast"
  /\ LET t == insert.captured  list == insert.snapshot.processes  commands == CommandsWith(list)
     IN db' = [db EXCEPT !.commands = commands,
                           !.fast = After(t, @) \cup ProcessRows(commands, t, list)]
  /\ insert' = [insert EXCEPT !.at = "detail"]
  /\ UNCHANGED <<clock, cache, tick, reader, started, published, seen, handled, given,
                 mishaps>>

\* The two process writes may fail without stopping the insert.
ProcessRowsFail ==
  /\ mishaps < MaxMishaps
  /\ insert.at \in {"fast", "detail"}
  /\ insert' = [insert EXCEPT !.at = IF @ = "fast" THEN "detail" ELSE "count"]
  /\ mishaps' = mishaps + 1
  /\ UNCHANGED <<clock, db, cache, tick, reader, started, published, seen, handled, given>>

DetailDue(t) == \A last \in db.lastDetail : t = last \/ t >= last + DetailInterval

SkipsDetail ==
  /\ insert.at = "detail"
  /\ ~DetailDue(insert.captured)
  /\ insert' = [insert EXCEPT !.at = "count"]
  /\ UNCHANGED <<clock, db, cache, tick, reader, started, published, seen, handled, given,
                 mishaps>>

WritesDetail ==
  /\ insert.at = "detail"
  /\ LET t == insert.captured  list == insert.snapshot.processes  commands == CommandsWith(list)
     IN /\ DetailDue(t)
        /\ db' = [db EXCEPT !.commands = commands, !.lastDetail = {t},
                              !.minute = After(t, @) \cup ProcessRows(commands, t, list)]
  /\ insert' = [insert EXCEPT !.at = "count", !.rows = @ \/ insert.snapshot.processes # <<>>]
  /\ UNCHANGED <<clock, cache, tick, reader, started, published, seen, handled, given,
                 mishaps>>

\* record_pending_detail_rows: a read and a write.  Of the count only is kept whether
\* it is zero.
ReadsPending ==
  /\ insert.at = "count"
  /\ insert.rows
  /\ insert' = [insert EXCEPT !.at = "add"]
  /\ UNCHANGED <<clock, db, cache, tick, reader, started, published, seen, handled, given,
                 mishaps>>

AddsPending ==
  /\ insert.at = "add"
  /\ db' = [db EXCEPT !.pending = TRUE]
  /\ insert' = Idle
  /\ UNCHANGED <<clock, cache, tick, reader, started, published, seen, handled, given,
                 mishaps>>

\* Then the ladder is folded, which touches nothing here.
InsertEnds ==
  /\ insert.at = "count"
  /\ ~insert.rows
  /\ insert' = Idle
  /\ UNCHANGED <<clock, db, cache, tick, reader, started, published, seen, handled, given,
                 mishaps>>

-----------------------------------------------------------------------------
(* The tick's part in it, in its order. *)

TickBegins ==
  /\ tick.at = "idle" /\ Busy < MaxBusy
  /\ tick' = [at |-> "pending", now |-> clock, deleted |-> FALSE, batches |-> FALSE]
  /\ UNCHANGED <<clock, db, cache, insert, reader, started, published, seen, handled,
                 given, mishaps>>

Tick(from, next, tables) ==
  /\ tick.at = from
  /\ db' = tables
  /\ tick' = next
  /\ UNCHANGED <<clock, cache, insert, reader, started, published, seen, handled,
                 given, mishaps>>

To(stage) == [tick EXCEPT !.at = stage]

Cutoff(keep) == IF tick.now >= keep THEN tick.now - keep ELSE 0
Kept(table, keep) == {r \in table : r.at >= Cutoff(keep)}

ReportsPending == Tick("pending", To(IF db.pending THEN "clear" ELSE "raw"), db)
ClearsPending == Tick("clear", To("raw"), [db EXCEPT !.pending = FALSE])
PrunesRaw == Tick("raw", To("gpus"), [db EXCEPT !.metrics = Kept(@, L1Keep)])

Readings(kind) == {r \in db.readings : \E d \in DOMAIN db.devices \cap kind : db.devices[d].id = r.id}
PrunesReadings(from, next, kind) ==
  Tick(from, To(next), [db EXCEPT !.readings = (@ \ Readings(kind)) \cup Kept(Readings(kind), L1Keep)])
PrunesGpus == PrunesReadings("gpus", "sensors", Gpu)
PrunesSensors == PrunesReadings("sensors", "detail", Sensor)

FloorKeptNot(table) == {r \in table : r.at >= Cutoff(L2Keep)}   \* variant: all old rows go

\* A mount keeps its newest row and its newest event, until it is gone for long.
FloorKept(table) ==
  {r \in table : r.at >= Cutoff(L2Keep) \/ r \in Newest(table, r.mount)}
Gone(table) == {e.mount : e \in {n \in NewestOf(table) : ~n.present /\ n.at < Cutoff(L2Keep)}}

PrunesDetail ==
  LET gone == Gone(FloorKept(db.events))
      left == [db EXCEPT !.rows = {r \in FloorKept(@) : r.mount \notin gone},
                         !.events = {e \in FloorKept(@) : e.mount \notin gone},
                         !.minute = Kept(@, L2Keep)]
  IN Tick("detail", [To("fast") EXCEPT !.deleted = left # db], left)

\* A batch of the oldest fast rows; the last one is not full.  Only what a loop that
\* ended deleted counts.
PrunesFast ==
  tick.at = "fast" /\
  LET expired == db.fast \ Kept(db.fast, FastKeep)
  IN \E batch \in SUBSET expired :
       /\ Cardinality(batch) <= FastBatch
       /\ \A r \in batch, q \in expired \ batch :
            r.at < q.at \/ (r.at = q.at /\ r.rank < q.rank)
       /\ \/ /\ Cardinality(batch) = FastBatch
             /\ Tick("fast", [tick EXCEPT !.batches = TRUE], [db EXCEPT !.fast = @ \ batch])
          \/ /\ batch = expired /\ Cardinality(batch) < FastBatch
             /\ Tick("fast", IF tick.deleted \/ tick.batches \/ batch # {} THEN To("orphans")
                             ELSE Idle,
                     [db EXCEPT !.fast = @ \ batch])

OrphansOfMinute ==   \* variant: only the once-a-minute rows are looked at
  {i \in DOMAIN db.commands : \A r \in db.minute : r.id # i}

Orphans == {i \in DOMAIN db.commands : \A r \in db.minute \cup db.fast : r.id # i}

PrunesOrphans ==
  tick.at = "orphans" /\
  \E batch \in SUBSET Orphans :
    /\ Cardinality(batch) = OrphanBatch \/ (batch = Orphans /\ Cardinality(batch) < OrphanBatch)
    /\ Tick("orphans", IF Cardinality(batch) = OrphanBatch THEN tick ELSE Idle,
            [db EXCEPT !.commands = [i \in DOMAIN @ \ batch |-> db.commands[i]]])

NextStage(at) ==
  CASE at \in {"pending", "clear"} -> "raw" [] at = "raw" -> "gpus"
    [] at = "gpus" -> "sensors" [] at = "sensors" -> "detail" [] at = "detail" -> "fast"
    [] at = "fast" /\ tick.deleted -> "orphans" [] OTHER -> "idle"

\* record_step_error: the tick goes on with the next stage.
StageFails ==
  /\ mishaps < MaxMishaps
  /\ tick.at # "idle"
  /\ mishaps' = mishaps + 1
  /\ tick' = IF NextStage(tick.at) = "idle" THEN Idle ELSE To(NextStage(tick.at))
  /\ UNCHANGED <<clock, db, cache, insert, reader, started, published, seen, handled,
                 given>>

-----------------------------------------------------------------------------
(* read_history: the samples of a window, one statement per table. *)

ReadsMetrics ==
  /\ reader.at = "idle" /\ Busy < MaxBusy
  /\ \E w \in Window :
       LET window == {r \in db.metrics : w[1] <= r.at /\ r.at <= w[2]}
       IN /\ window # {}
          /\ reader' = [at |-> "fast", rows |-> window]
  /\ UNCHANGED <<clock, db, cache, insert, tick, started, published, seen, handled, given,
                 mishaps>>

FirstCapture == CHOOSE t \in {r.at : r \in reader.rows} : \A r \in reader.rows : t <= r.at
LastCapture == CHOOSE t \in {r.at : r \in reader.rows} : \A r \in reader.rows : r.at <= t
FirstKey == CHOOSE k \in {r.key : r \in reader.rows} : \A r \in reader.rows : k <= r.key
LastKey == CHOOSE k \in {r.key : r \in reader.rows} : \A r \in reader.rows : r.key <= k

Fallback == 2 * DetailInterval

\* The process rows captured in a range, joined with their commands.
Captures(table, first, last) ==
  {[at |-> r.at, rank |-> r.rank, command |-> db.commands[r.id]] :
     r \in {q \in table : first <= q.at /\ q.at <= last /\ q.id \in DOMAIN db.commands}}

Reads(from, next) ==
  /\ reader.at = from
  /\ reader' = next
  /\ UNCHANGED <<clock, db, cache, insert, tick, started, published, seen, handled, given,
                 mishaps>>

ReadsFast ==
  Reads("fast", [at |-> "minute", rows |-> reader.rows,
                 fast |-> Captures(db.fast, FirstCapture, LastCapture)])

ReadsMinute ==
  Reads("minute",
        [at |-> "devices", rows |-> reader.rows, fast |-> reader.fast,
         minute |-> Captures(db.minute, IF FirstCapture > Fallback THEN FirstCapture - Fallback
                                        ELSE 0, LastCapture)])

\* The list of a sample: its own rows, or those of the last capture before it that
\* is not too old.
ListAt(captures, t) == {[rank |-> c.rank, command |-> c.command] : c \in {d \in captures : d.at = t}}

FallbackEitherSide(minute, t) ==   \* variant: a later capture will do
  {c \in minute : t <= c.at + Fallback}

FallbackCaptures(minute, t) == {c \in minute : c.at <= t /\ t <= c.at + Fallback}

ProcessesAt(t) ==
  LET before == FallbackCaptures(reader.minute, t)
  IN IF ListAt(reader.fast, t) # {} THEN ListAt(reader.fast, t)
     ELSE UNION {ListAt(before, c.at) : c \in {d \in before : \A o \in before : o.at <= d.at}}

\* gpu_samples joined with gpu_adapters.  Sensors are not read back.
GpusAt(t) == {d \in DOMAIN db.devices \cap Gpu : [at |-> t, id |-> db.devices[d].id] \in db.readings}

ReadsDevices ==
  Reads("devices",
        [at |-> "rows",
         samples |-> {[at |-> r.at, key |-> r.key, identity |-> db.hosts[r.host],
                       gpus |-> GpusAt(r.at), processes |-> ProcessesAt(r.at)] :
                        r \in reader.rows},
         rows |-> reader.rows])

\* Of each mount what was newest at the window's first key, and what came later.
FloorAndWindow(table, first, last) ==
  {r \in table : r \in Newest({q \in table : q.at <= first}, r.mount)}
  \cup {r \in table : first < r.at /\ r.at <= last}

ReadsRows ==
  Reads("rows", [at |-> "events", samples |-> reader.samples, rows |-> reader.rows,
                 values |-> FloorAndWindow(db.rows, FirstKey, LastKey)])

\* The mounts present at a key with their values, by the rows and events up to it.
Assembled(values, events, key) ==
  LET present == {e.mount : e \in {n \in NewestOf({q \in events : q.at <= key}) : n.present}}
      known == NewestOf({r \in values : r.at <= key})
  IN [m \in {r.mount : r \in {n \in known : n.mount \in present}} |->
        (CHOOSE r \in known : r.mount = m).value]

ReadsEvents ==
  Reads("events",
        LET events == FloorAndWindow(db.events, FirstKey, LastKey)
        IN [at |-> "done",
            samples |-> {[at |-> s.at, identity |-> s.identity, gpus |-> s.gpus,
                          processes |-> s.processes,
                          filesystems |-> Assembled(reader.values, events, s.key)] :
                           s \in reader.samples}])

ReadEnds == Reads("done", Idle)

-----------------------------------------------------------------------------
\* The process dies and starts again: prime_writer_state.
Restarts ==
  /\ mishaps < MaxMishaps
  /\ mishaps' = mishaps + 1
  /\ cache' = Primed(db)
  /\ insert' = Idle /\ tick' = Idle /\ reader' = Idle
  /\ started' = clock
  /\ published' = IF published = "lost" THEN "yes" ELSE published
  /\ UNCHANGED <<clock, db, seen, handled, given>>

TimePasses ==
  /\ Busy < MaxBusy
  /\ \E t \in Instant : clock < t /\ (\A u \in Instant : clock < u => t <= u) /\ clock' = t
  /\ UNCHANGED <<db, cache, insert, tick, reader, started, published, seen, handled, given,
                 mishaps>>

Insert == \/ InsertBegins \/ Stores \/ StoresUnpublished \/ InsertStops
          \/ WritesFast \/ ProcessRowsFail \/ SkipsDetail \/ WritesDetail
          \/ ReadsPending \/ AddsPending \/ InsertEnds

Maintains == \/ TickBegins \/ ReportsPending \/ ClearsPending \/ PrunesRaw \/ PrunesGpus
             \/ PrunesSensors \/ PrunesDetail \/ PrunesFast \/ PrunesOrphans \/ StageFails

ReadHistory == \/ ReadsMetrics \/ ReadsFast \/ ReadsMinute \/ ReadsDevices \/ ReadsRows
               \/ ReadsEvents \/ ReadEnds

Next == Insert \/ Maintains \/ ReadHistory \/ Restarts \/ TimePasses

Spec == Init /\ [][Next]_vars

-----------------------------------------------------------------------------
(* Properties. *)

IsDevices(f) == /\ DOMAIN f \subseteq Gpu \cup Sensor
                /\ \A d \in DOMAIN f : f[d] \in [id : Nat, seen : Instant]

\* Types, and the constraints the schema declares: a metric row refers to a host, a
\* process row to a command (foreign keys), a command and a device have one id.
TypeOK ==
  /\ clock \in Instant /\ started \in Nat /\ mishaps \in Nat
  /\ published \in {"yes", "lost", "written"}
  /\ DOMAIN seen \subseteq Instant /\ handled \subseteq DOMAIN seen
  /\ \A k \in DOMAIN seen : seen[k] \in Enumeration
  /\ DOMAIN given \subseteq Instant
  /\ cache.fs \in [lastKey : SUBSET Instant, lastRows : Enumeration, present : SUBSET Mount]
  /\ IsDevices(cache.devices) /\ IsDevices(db.devices)
  /\ db.hosts \in Seq(Identity)
  /\ db.metrics \subseteq [at : Instant, key : DOMAIN seen, host : 1..Len(db.hosts)]
  /\ db.rows \subseteq [at : handled, mount : Mount, value : Value]
  /\ db.events \subseteq [at : handled, mount : Mount, present : BOOLEAN]
  /\ \A d, x \in DOMAIN db.devices : db.devices[d].id = db.devices[x].id => d = x
  /\ db.readings \subseteq [at : DOMAIN given, id : {db.devices[d].id : d \in DOMAIN db.devices}]
  /\ DOMAIN db.commands \subseteq Nat
  /\ \A i, j \in DOMAIN db.commands : db.commands[i] = db.commands[j] => i = j
  /\ db.fast \cup db.minute \subseteq [at : DOMAIN given, rank : Nat, id : DOMAIN db.commands]
  /\ db.lastDetail \subseteq Instant /\ db.pending \in BOOLEAN
  /\ tick.at \in {"idle", "pending", "clear", "raw", "gpus", "sensors", "detail", "fast", "orphans"}
  /\ insert.at \in {"idle", "store", "fast", "detail", "count", "add"}
  /\ reader.at \in {"idle", "fast", "minute", "devices", "rows", "events", "done"}

\* The caches are what a restart would read, whatever failed, stopped or was pruned, as
\* long as each commit reached them: present mounts, the last row of each mount that the
\* table still has, devices and the identity (insert_snapshot, prune_detail_history
\* against prime_writer_state).
CacheAgrees ==
  /\ published = "yes" =>
       LET primed == PrimedFilesystems(db)
       IN /\ cache.fs.present = primed.present
          /\ \A m \in DOMAIN primed.lastRows : m \in DOMAIN cache.fs.lastRows
                                               /\ cache.fs.lastRows[m] = primed.lastRows[m]
          /\ primed.present \subseteq DOMAIN primed.lastRows
  /\ \A d \in DOMAIN cache.devices : d \in DOMAIN db.devices
                                     /\ cache.devices[d].id = db.devices[d].id
  /\ \A c \in cache.identity : c.id \in 1..Len(db.hosts) /\ db.hosts[c.id] = c.strings

\* Every capture in the process tables is the list that was collected then, under the
\* commands' own names: interning, pruning of orphans and reuse of their ids never give
\* a row to another command.  Only expired captures lose rows to a batch.
ProcessRowsWhole ==
  /\ \A r \in db.fast \cup db.minute :
       LET list == given[r.at].snapshot.processes
       IN /\ r.rank \in DOMAIN list /\ r.id \in DOMAIN db.commands
          /\ db.commands[r.id] = list[r.rank]
  /\ \A t \in {r.at : r \in db.fast} :
       t + FastKeep >= clock => Cardinality({r \in db.fast : r.at = t})
                                  = Len(given[t].snapshot.processes)
  /\ \A t \in {r.at : r \in db.minute} :
       Cardinality({r \in db.minute : r.at = t}) = Len(given[t].snapshot.processes)

Expired(t, keep) == t + keep < clock

\* A read returns each sample with the identity that was collected and, until it is
\* expired, its GPUs, though it takes a statement per table (assemble_history_snapshots).
SamplesReadBack ==
  reader.at = "done" =>
    \A s \in reader.samples :
      /\ s.identity = given[s.at].snapshot.identity
      /\ s.gpus = given[s.at].snapshot.devices \cap Gpu
         \/ (s.gpus = {} /\ Expired(s.at, L1Keep))

Ranked(list) == {[rank |-> i, command |-> list[i]] : i \in DOMAIN list}

\* The processes of a sample are the whole list of one capture, its own or one at most
\* two detail intervals older; or what a batch left of its own expired one; or none.
ProcessesReadBack ==
  reader.at = "done" =>
    \A s \in reader.samples :
      \/ s.processes = {}
      \/ \E t \in DOMAIN given : /\ t <= s.at /\ s.at <= t + Fallback
                                 /\ s.processes = Ranked(given[t].snapshot.processes)
      \/ /\ Expired(s.at, FastKeep)
         /\ s.processes \subseteq Ranked(given[s.at].snapshot.processes)

\* The enumeration that stands at a key: the last one stored at or before it.
Standing(key) == {k \in handled : k <= key /\ \A j \in handled : j <= key => j <= k}

\* A mount listed in every stored enumeration from before the L2 horizon to k.
IsOld(m, k) ==
  \E j \in handled : /\ j <= k /\ Expired(j, L2Keep)
                     /\ \A i \in handled : j <= i /\ i <= k => m \in DOMAIN seen[i]

\* The filesystems of a sample are those of the enumeration that stood at its key: no
\* mount too many, none with another value, and none missing but those that were already
\* there before the L2 horizon (ADR 0024, decision 4).  Late stamps are the sample's key
\* and change nothing.
FilesystemsReadBack ==
  reader.at = "done" /\ published # "written" =>
    \A s \in reader.samples :
      LET stood == Standing(given[s.at].key)
      IN /\ \A m \in DOMAIN s.filesystems :
              \E k \in stood : m \in DOMAIN seen[k] /\ seen[k][m] = s.filesystems[m]
         /\ \A m \in Mount \ DOMAIN s.filesystems :
              \A k \in stood : m \in DOMAIN seen[k] => IsOld(m, k)
=============================================================================
