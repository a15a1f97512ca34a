# Verification of TinyTop's history store

TLA+ models of the Rust daemon of TinyTop: its SQLite history
(`agent/crates/tinytop-store`), which must not lose or invent data, the loops and
handlers that drive it (`agent/crates/tinytop-agent/src/writer.rs`, `otel.rs`), and
the Linux collector that feeds it (`agent/crates/tinytop-collectors`).  TLC checks
the models on small instances, TLAPS proves the theorems of the `*Proofs`
modules for every value of the constants.  Paths below are relative to the
crate `tinytop-store/src` unless they say otherwise.

## The system

| component | state | operations | interacts with |
|---|---|---|---|
| Writer gate (`lib.rs`, `WriterGate`) | `locked`, ticket queue with wakers | first poll, later polls, Drop of a waiting future, Drop of the guard | serialises `insert_snapshot` of the loop and of the HTTP handlers |
| Insert (`lib.rs`, `insert_snapshot`) | raw samples, minute buckets, caches | one transaction for the rows, then the minute, then the refold | `maintenance.rs` (refold), settings |
| Ladder (`ladder.rs`, `maintenance.rs`) | minute, five-minute and hour buckets, `l3FoldedUntilMs`, `l4FoldedUntilMs`, `l3Enabled`, `l4Enabled` | `maintain`: sync flags, promote, prune each tier, expire hours | inserts, settings saves, archive |
| Settings (`retention_ladder.rs`, `lib.rs`) | one JSON document, its mirrors in `history_state` | validate, save in one transaction | ladder, disk pressure, collectors |
| Archive (`archive.rs`) | an attached database, monthly cold files and their checksums | move expired hours (copy, verify, delete), export and seal months | ladder |
| Disk pressure (`disk.rs`) | `diskPressure` in `history_state` | apply a measurement | settings saves |
| Export and import (`settings_transfer.rs`) | - | plan, apply | settings, disk pressure |
| Migrations (`migration.rs`) | schema version, pre-image, pending record | one step per version, vacuum | start of the daemon |
| Insert caches (`lib.rs`) | identity, filesystem, GPU and sensor caches | prime at start, publish after commit | insert |
| Processes (`lib.rs`) | fast and minute rows, interned commands, `pendingDetailRows` | write, prune, prune orphans | insert, tick |
| Reads (`lib.rs`) | - | choose the tier for a window, page | ladder |
| Daemon (`tinytop-agent/src/writer.rs`) | collector and its configuration, status | collection loop, HTTP handlers, disk, export and OTel loops | all of the above |
| Exporter (`tinytop-agent/src/otel.rs`) | pipeline, schedule, status | build, export, shut down | settings, latest snapshot |
| Collector (`tinytop-collectors/src/linux.rs`, `gpu/linux.rs`, `process_rank.rs`) | the last readings, the process table, GPU clients, slow cache, configuration | collect, configure, rank processes | daemon, operating system |

The command line, the browser dashboard (but for its paging of raw windows), the shell
launchers and the old Bun runtime are I/O, parsing or presentation; `PROJECT.json` lists
each with the reason it is left out.

**How they run.** The connection pool holds a single SQLite connection
(`lib.rs:1243`), so a statement or a transaction is atomic and nothing larger
is: an insert is a transaction followed by six to ten separate statements, a
tick is some thirty.  The collection loop, the HTTP handlers for a manual
collection and for settings, and the disk, export and OTel loops are tasks that
interleave at every `await`.  Inserts exclude each other through the gate;
ticks exclude nobody, and two can overlap.  A handler's future is dropped when
its client goes away, at any `await`.  The process can die anywhere, and
several statements of a tick may fail while it goes on.

**What is hard.**  Promote-before-prune across four tables without a
transaction around it; samples that arrive behind a watermark; buckets whose
source is partly pruned; flags and watermarks that are read, then used much
later; settings that change under a tick; a wall clock that can be set.
`PROJECT.json` lists these hazards at their lines.

**What makes each part correct.**

- Gate: one holder, FIFO, no lost wake-up, under cancellation.
- Ladder: no sample is counted twice; no row goes before the tier that depends
  on it has folded it; a completed bucket only grows until it goes as a whole;
  watermarks advance; a disabled tier is left alone.
- Settings: a horizon never shrinks below the tier that feeds on it; what a save
  switched off stays off.
- Archive: every expired hour is in the database or the archive; a sealed month
  is complete.
- Disk pressure: growth is refused while it is active and only then.
- Migration: a crash leaves a database that the next start completes or refuses.
- Caches: cache and table agree after every commit, failure and restart.
- Process rows: each belongs to the list that was collected, under its own command.
- Reads: a sample is put together from what stood at its time, though a tick prunes
  between the read's statements; a page is the newest of its window.
- Settings handlers: no save is lost, and the collector never goes back to an older
  configuration.
- Exporter: one attempt per interval, none while disabled.
- Collector: the figures of a sample are differences over one and the same span.

## Modules

`WriterGate` models the gate at the level of its internal mutex: one action per
critical section, with the wake that follows it as a step of its own.
`FairLock` is what it promises, a FIFO lock without wakers; `WriterGate`
instantiates it with the refinement mapping *holder = the task in stage
"holding", queue = the waiters*.

| `WriterGate` | code |
|---|---|
| `PollAcquires`, `PollQueues` | `poll` of a future without a ticket |
| `PollAgain` | `poll` of a queued future |
| `Cancel`, then `Wake` | `Drop for WriterGateLock` |
| `Release`, then `Wake` | `Drop for WriterGateGuard` |

`Ladder` models `insert_snapshot` and `maintain` together, one action per
statement that reads or writes the ladder.

- `count[k][t]` says how often tier `k` counts the sample captured at `t`.
  A bucket's `sample_count` is the sum over its bucket, and its averages and
  extrema are functions of the same samples, so losing or duplicating a sample
  shows here and nothing else does.  Upserts, rebuilds, merges and deletes act
  on whole buckets, exactly as the SQL does.
- `writer` is the insert behind the gate: its position and what it has read
  (`keep` and `new` at the start, `held` between a read and its upsert, the
  watermarks and flags of the refold).
- `job[m]` is the tick of maintainer `m`: its stage in `Stages`, the settings it
  was given, its clock, the watermarks it may prune by (`authority`, read before
  it promotes), and `promote`'s loop (`limit`, `search`, `start`, `left`, `held`).
- `stored` and `folded` are history variables that only properties read, except
  that `stored` bounds replays (see below).

| `Ladder` | code |
|---|---|
| `InsertBegins` ... `WritesMinute` | `insert_snapshot`, `rebuild_rollup_bucket` |
| `LooksBehind` ... `WritesAncestor` | `refold_ancestors_for_late_write`, `refold_one` |
| `InsertEnds`, `TickEnds`, `StatementFails` | `?`, cancellation, `record_step_error` |
| `TickBegins`, `ReadsClock` | `collect_and_store`, `update_settings`, `maintain_history` |
| `SyncsFlag`, `ReadsAuthority`, `SkipsStage`, `Prunes` | `maintain_with_archive` |
| `ReadsLimit`, `ReadsWatermark`, `Seeks`, `Gathers`, `Upserts`, `Marks` | `promote` |
| `SavesSettings` | `write_settings_on` in its transaction |

`ArchiveMove` models the end of the tick that empties the hourly tier: the move of
expired hours into `history-archive.sqlite` (ADRs 0018 and 0019).

- `log` is the database as its last checkpoint left it and after each commit since:
  `synchronous = NORMAL` does not fsync the WAL, so a power cut may leave any of
  these.  `archive` and `synced` are the archive's rows as committed and as on disk,
  equal because the attached file is set to `FULL`.
- `insert` is an upsert between the read of its row and the write, which is how
  `refold_one` merges a late sample.
- `move` is the tick's move: its statement, the clock it was given, the batches it
  has left and the rows of the batch (whose minimum, maximum and count the code
  keeps).

The move holds the pool's only connection for a batch, so inside a batch only
another process (`tinytop collect`) can write; the model lets inserts in anywhere,
which covers both.  `KeptHours` is what the move promises: an hour only gains
samples, and what would survive a power cut always will.  `ArchiveMove` instantiates
it with *kept = the database's row if there is one, else the archive's* and
*durable = what every state a power cut may leave shows*.

| `ArchiveMove` | code |
|---|---|
| `Reads`, `Writes` | `refold_one`, `promote` on the hourly table |
| `TickBegins`, `NextBatch` | the loop in `maintain_with_archive` (`maintenance.rs:315`) |
| `Opens` | `ensure_archive_schema`, `acquire_attached` |
| `Copies`, `Verifies` | `copy_attached_batch` |
| `Deletes`, `MovedUntil` | `delete_attached_batch` |
| `MoveFails` | every `?`, `rollback`, `detach_after` |
| `Commits`, `Checkpoint`, `ArchiveCommits`, `PowerCut` | the two `synchronous` pragmas and what they mean |

`SnapshotHistory` models the rest of an insert: identity, filesystems on change,
GPU adapters and sensors, process rows with interned commands, and the caches it
writes them by (ADRs 0021, 0024, 0025), with the prunes of the tick and with
`read_history`, one statement per action.

- `db` is the tables, `cache` what the process keeps of them, `insert`, `tick` and
  `reader` the three operations in progress.
- A snapshot is an identity, a function from the mounts it lists to their values, a
  set of devices and a list of commands; the enumeration of its mounts has a stamp of
  its own (`key`), which several snapshots may share.
- `given`, `seen` and `handled` are what was collected, for the properties; `published`
  tells whether every commit reached the cache.

| `SnapshotHistory` | code |
|---|---|
| `InsertBegins`, `Stores`, `StoresUnpublished`, `InsertStops` | the transaction of `insert_snapshot`; `?` and cancellation before and while it commits |
| `WritesFast` ... `AddsPending` | `write_process_fast_rows`, `write_detail_rows_if_due`, `record_pending_detail_rows` |
| `TickBegins` ... `PrunesOrphans`, `StageFails` | `maintain_with_archive`: raw rows, GPUs, sensors, filesystems, processes in batches, orphaned commands |
| `ReadsMetrics` ... `ReadEnds` | `read_history`, `assemble_history_snapshots` |
| `Restarts` | `prime_writer_state` |

`Migration` models the opening of a history file: the steps from the legacy layout
to version 6, one transaction each, the copy made before a rebuild (`VACUUM INTO`), the
record of an unfinished migration, the operator who moves or removes that copy, and
programs of older versions that still write.  A table is the set of its columns that
some version adds or drops, so that *the migrated file has the schema of a new one* can be
checked; `log` is the markers written, `from` the version before the first start.

| `Migration` | code (`migration.rs`) |
|---|---|
| `Opens`, `AppliesSchema` | `SqliteHistoryStore::connect`, `ensure_schema`, `apply_schema_v6` |
| `RefusesCopy`, `Copies`, `CopyBreaks` | `refuse_existing_pre_image`, `create_pre_image` |
| `Rebuilds`, `CompletesPending` | `rebuild_v0_schema`, `complete_pending_migration` |
| `InternsCommands` ... `AddsRanks` | `migrate_v1_to_v2` ... `migrate_v5_to_v6` |
| `StarterStops` | a kill, a busy file, no space |

`ColdExport` models the export of whole months from the archive into files that are
then sealed, with the move that fills the archive reduced to its two effects.  A file
is the set of hours it holds and a checksum that set; `tmp` and `target` lead from a
month's two names to files, so that a rename, a leftover and two writers of one name
are what they are in a directory.

| `ColdExport` | code (`archive.rs`) |
|---|---|
| `ReadsMonths`, `ReadsMark`, `Checks` | `exportable_months`, `months_ready_to_export` |
| `ReadsMonthRows` ... `Verifies` | the dump to a temporary file, its hash, reading it back |
| `Renames`, `WritesSidecar`, `Records`, `Marks` | the order in which a month is published |
| `Dies`, `PowerCut` | every `?`, a kill; `synchronous = NORMAL` of the database |

`HistoryPages` has no state: which tier answers a request for points, the pages, the
markers and the coverage document, as functions of a query and of what is stored; and the
loop in which the dashboard fetches a raw window page by page (`FetchesWindow`, for
`fetchHistoryWindow` of `app.js`), as a relation between the samples stored at each read
and the pages.

`ControlPlane` composes the settings document with those who act on it: saves and
imports (with the plan an import makes first), the disk check that may forbid growth,
and `configure_collector_if_changed` with its lock.  `saves` is every save with what it
replaced, `breached` the ladder when the pressure began.

| `ControlPlane` | code |
|---|---|
| `PlansImport`, `FinishesPlan` | `plan_import` (`settings_transfer.rs`) |
| `SavesDocument`, `Writes`, `Refuses` | `put_settings_document`, `RetentionLadder::validate` |
| `Queues`, `ReadsDesired`, `Configures` | `configure_collector_if_changed` (`writer.rs`) |
| `ReadsLadder`, `Measures`, `AppliesMeasurement`, `CheckFails` | the disk loop, `apply_disk_measurement` |
| `GivesUp`, `Reboots` | a dropped handler, `?`, a restart (`serve`) |

`OtelExport` is the loop of `otel.rs`, with ages in place of times so that it runs for
ever; the wall clock may step, the timers do not.  `Collector` is `LinuxCollector` with
the parts of the sysinfo library and of the GPU backend it relies on; every figure is
replaced by the span of time it is a difference over.  `ProcessRank` is the order of the
process list.

| `Collector` | code (`tinytop-collectors/src`) |
|---|---|
| `CollectBegins`, `ReadsSlow` | `collect`: `slow_due`, the slow cache |
| `ReadsFast`, `RefreshesAgain`, `Samples` | `collect_fast_sources_with`, `merge_sources` |
| `RefreshedTable` | `refresh_system` and sysinfo's minimum interval |
| `Detected`, `Scanned`, `Busy` | `LinuxGpuBackend::detect`, `scan_fdinfo` |
| `CollectFails`, `Plugs`, `Configure` | a failing source, hotplug, `configure` |

`Daemon` is the three of them beside each other, with no step in common.

`MCHistory` and `MCDaemon` join components that share no state in one run each: `part`
picks, once per behaviour, the component that moves.  That is a packaging of runs and
no composition; the components that do interact are composed in the modules above.

Definitions commented *variant* are plausible mistakes in an action; the runs'
properties are each broken by one of them.

## Runs

| run | result | what it asks |
|---|---|---|
| `gate` (`MCWriterGate.cfg`) | passes | four tasks request, cancel, poll and wake in every order: exclusion, no lost wake-up, refinement of `FairLock` with its liveness |
| `ladder_loop` (`MCLadderLoop.cfg`) | passes | the loop alone, L3 switched by saves, one arbitrary clock change, inserts that stop anywhere, replays |
| `ladder_late` (`MCLadderLate.cfg`) | passes | samples arbitrarily late, one promotion a tick, failing ticks |
| `ladder_overlap` (`MCLadderOverlap.cfg`) | passes | an insert and a tick interleaved statement by statement, either may stop anywhere |
| `ladder_minute` (`MCLadderMinute.cfg`) | violation | a minute that lost one raw row is rebuilt from the rest |
| `ladder_flags` (`MCLadderFlags.cfg`) | violation | a tick overwrites the flags of a later save |
| `ladder_first_mark` (`MCLadderFirstMark.cfg`) | violation | an L3 watermark that could not be written lets hours be promoted from incomplete data |
| `archive` (`MCArchiveMove.cfg`) | passes | three hours expire while inserts change them, batches of two, one failure or power cut anywhere: refinement of `KeptHours`, the watermark, and that every expired hour leaves the database |
| `archive_recreated` (`MCArchiveRecreated.cfg`) | violation | a sample so late that its hour was moved before |
| `history` (`MCHistory.cfg`) | passes | inserts, ticks and reads statement by statement: caches, process rows and what a read returns; every path through the migrations; exports of months |
| `cold_two` (`MCColdExport.cfg`) | violation | the daemon and `db archive export-now` export one month at once |
| `daemon` (`MCDaemon.cfg`) | passes | saves, imports, disk checks and the collector's configuration; the export loop; the collector: safety and convergence |

Deadlock is checked in every run but `cold_two`, where the bounded hours come to an
end: elsewhere the clock stops at its last instant, but a tick can always begin.  The
parts of `history` and `daemon` that come to an end may stay there (`Ends`).

**Bounds of the ladder.**  Time is a handful of instants (`Instant`), samples
are captured at some of them (`SampleTime`).  A minute holds three instants,
five minutes are two minutes and an hour two of those (`Res = <<1,3,6,12>>`):
every bucket can be folded from several, partly or wholly.  Horizons are 13 to
16, all longer than an hour plus the grace, as the validator's minima of days
are.  The instants are chosen at bucket boundaries, at completion (boundary
plus grace) and at each tier's expiry, so the run passes through every
combination of promoted, frozen and pruned.  `Lateness` bounds the time from a
capture to its minute's write, `Slowest` the time from a capture to the end of
its insert, `MaxPromotions` is `MAX_PROMOTIONS_PER_TICK` (50), small so that
promotion lags.  `Overlap = FALSE` keeps operations from overlapping and time
from passing inside one: it buys several late samples and clock changes in one
run.  Three or four samples are enough for two in one minute, two minutes in
one five-minute bucket and two of those in one hour.

**Bounds of the gate.**  Four tasks: a holder, a front waiter, one behind it
and one that barges or cancels.

**Bounds of the archive.**  Three hours and batches of two: with the older row of a
batch changed under it, the next batch spans an archived hour, the gap that ADR 0019
is about.  Two samples an hour, one to write the row and one to change it.  A WAL of
two commits beyond its checkpoint lets a power cut undo one or both; one mishap, a
failure or a power cut (two were checked with two hours).  `Lateness <= Keep` says
that an hour's row is first written before the hour expires: the daemon's clock is
right and it is not down for longer than the horizon.  Four instants of the clock
let every hour expire.

**Bounds of `history`.**  Two inserts at three instants, chosen so that the second
capture may come before the first, within a detail interval and behind every horizon
(`{1, 2, 4}` with horizons of 1); two snapshots that differ in everything, one with a
command the other has not; batches of one row and of two commands, so that a prune
takes several; two of the three operations at a time (`MaxBusy`).  One mishap, a failed
or cancelled commit, a failed stage or a restart; after it a read has the tables to
itself (`ReadsAlone`), before it everything interleaves.  Every version of a file,
empty and with rows of each kind the next step changes; two starters and two stops.
Six hours in three months, one of them short, batches of one hour and one death: an
export meets a month half moved, a late row and a leftover of its own.

The same run evaluates the functions of `HistoryPages` over small ladders, windows and
pages: the choice of a tier against the loop of the code (`AutoIsTheLoop`), pages
(`PagesAreNewest`), the dashboard's pages of a window over every way four samples come and
go between three pages (`WindowPages`), gaps (`GapsOfTheOldestSamples`).

**Bounds of `daemon`.**  Two requests and the loop: two callers that save and one that
holds the lock.  The documents are one that grows, one that shrinks without a block
and one of an old client without a ladder; a disk that is low and changes once, at any
time; one mishap.  The exporter has four settings, of which one cannot be built and one
is off, two changes, one mishap (a read of the settings or of the clock) and one step of
the clock; ages are cut at the longest interval.  The collector refreshes the table after
two units of time and has nine, enough for a refresh that is not noted and the three after
it; one failure, one hotplug.

**Fairness.**  The gate assumes that the executor polls a task that was woken
and that a started `Drop` runs to its end, nothing about tasks that were not
woken, new requests or cancellation; `FairLock` needs only that a front waiter
that stays at the front of a free lock gets it.  The archive assumes that the
collection loop begins a tick again and again and that a tick runs on
(`WF_vars(Moves)`); nothing about inserts, checkpoints or the clock, and failures
are as many as `MaxMishaps`.  The ladder's runs check safety
only.

`daemon` assumes that a call in progress goes on (`Works`: the code has no wait but the
lock, which is handed out in order), that the loop collects again and again and that
the disk is checked again and again: both are `loop`s with a timer that nothing ends.
Saves, failures and clock steps are not assumed and bounded.  `ControlSettles` says that
the collector then works by the saved settings and that the pressure tells the truth.
The exporter's loop assumes that its task is polled, that time passes and that there is a
first snapshot, which `serve` sees to before it starts the loop; `OtelSettles` says that
an enabled exporter goes on exporting, also after the clock was set back, and that
coverage tells of the saved settings in the end.  The requests of a behaviour make
finitely many steps, so `MCDaemon` gives them one fairness condition together.

## What the violations show

1. `ladder_minute`: `raw_is_partial(existing, raw_now)` is asked after the new
   row was inserted, so a minute of two samples of which one was pruned has
   `existing = 2`, `raw_now = 2` and is rebuilt from the surviving tail.  Behind
   the L1 horizon this needs a late row: here the clock is set back.
2. `ladder_flags`: a tick with settings from before a save restores the flag the
   save had cleared, until the next tick.
3. `ladder_first_mark`: `source_folded_until_ms` is `None` when the watermark is
   missing, and `promote` reads `None` as *no limit*.
4. `archive_recreated`: `refold_one` looks for the hour only in the database.  When it
   was moved, the late sample gets a row of its own, which the next batch puts in the
   place of the archived hour (`INSERT OR REPLACE`).
5. `cold_two`: both exporters write the same temporary file and rename it; one empties
   (`File::create`) what the other has hashed and is about to publish, or publishes
   what the other is writing.  The target of a month the watermark seals then differs
   from its manifest and sidecar until the slower one has finished, and for good if
   that one stops.

## What is proved

`WriterGateProofs`, for any set of tasks:

- `TypeCorrect`: types, and that the queue holds exactly the waiting tasks, once
  each.  It is what makes `retain` and `front` mean what the others need.
- `MutexCorrect`: `locked` is true exactly while one task holds the gate.
- `WakeupCorrect`: a free gate's front waiter is woken or about to be.
- `GateImplementsFairLock`: initial states and every step map to `FairLock`.

The inductive invariant joins the four: exclusion needs `locked <=> holder`, and
the wake-up needs that a queued task is in the queue once, since a cancelled
front waiter hands on to whoever is next.

`LadderProofs`, for any instants, resolutions, ladders and maintainers that
satisfy `LadderConstants` (the validator's ranges), overlapping or not:

- `TypeCorrect`: types of every variable, in particular that a tick's count of
  promotions left never passes zero.  It is inductive with `LeftOK`: a promotion
  is begun only while some are left.

With `Overlap = FALSE` besides, inserts, ticks
and saves follow one another, as in the collection loop of a daemon that serves no
request, each stopping at any statement, with any clock:

- `CountsOnce`: no tier counts a sample twice.
- `WatermarksOnlyAdvance`: a watermark never moves back.
- `DisabledNeverTouched`: a tier that is off is neither written nor pruned.
- `OnlyFoldedIsPruned`: no row goes that the watermark of the tier which folds it
  has not passed.

None of the four is inductive.  They follow from `LoopInvariant`, whose parts say
what an operation in progress knows: only one is (`Alone`); the flags follow the
settings and watermarks stand at bucket boundaries (`TablesOK`); what an insert or
a tick holds counts each sample once and is not empty, so an upsert replaces a row
and never empties one; a sample that an insert is about to merge is counted by no
tier it has yet to write (`WriterInv`); a tick acts on the saved settings, prunes
by watermarks that still hold, and searches and promotes from its watermark on
(`TickInv`).  That buckets partition time, from the definition of `\div`, is
proved first: an upsert over one bucket touches no row of another.

`LadderFoldProofs`, for any instants, resolutions of which each is a multiple of the one
before (`Nested`, from `Tier::resolution_ms`) and horizons, where `Undisturbed`: operations
do not overlap, no save changes the ladder, nobody sets the clock, and what fails is the
transaction of an insert or what the next tick does again (`Retried`: flags, the promotion to
hours, prunes).  These are the conditions of `ladder_late`; the findings and the limits below tell what can go wrong
without them.

- `BehindIsFolded`: between operations, every sample that a tier counts behind the
  watermark of the tier which folds it has been folded, however late it came.
- `FoldedBeforePruned`: a row of minutes or five minutes goes only when the tier that folds
  it counts all of its samples.

`FoldInv` adds to `LoopInv` which tiers a sample is in.  `MinutesHave`: a raw sample is in
its minute, or that minute may be pruned.  `FoldedBehind`: what the finer tiers count
behind a watermark is folded, but for the sample that an insert has yet to refold.  `FivesHave`,
with both tiers on: five minutes are kept until the hours have them, since an hour is rebuilt
from five minutes while minutes may still be there.  `HoursBehind`: the watermark of L4 is not
ahead of L3's.  `UnmarkedFives`: where L3 has rows and no watermark, the next tick
has something to promote to L3 and marks it before it asks for L4's limit; it is why the
statements of the promotion to L3 must not fail, the third finding.  `WriterKnows`,
`WriterHolds` and `Promotes` tell what an insert and a promotion have read, and that it
still stands when they write.

`ArchiveMoveProofs`, for any hours, samples, horizons, batch and WAL sizes and any
number of failures and power cuts:

- `TypeCorrect`: types; a batch that is verified or deleted has rows, so its end is
  the end of an hour, and a tick's batches never pass zero.
- `MoveKeepsHours`, with `Recreates = FALSE`: the move implements `KeptHours`, initial
  state and every step.

The invariant `KeptInv` says what the refinement cannot see: the archive on disk is
the archive as committed (`Synced`); what is archived has expired, so an hour that is
young enough to get a first row has no archived one (`ArchivedExpired`); the row an
insert holds is still what its hour shows, also when the row was moved since
(`HeldShown`); and no state that a power cut may leave shows more than the last
(`CutBackShows`), without which a cut could invent samples.

`DaemonProofs`, for any documents, ladders, requests and numbers of mishaps:

- `RetentionShrinksAlways`: under disk pressure nothing is kept longer than when it
  began, over any number of saves.
- `NoUpdateIsLost`: saves form a chain.
- `ConfigurationAdvances`: the collector is never configured from older settings.

The first needs that `GrowsFrom`, written case by case in the code, is what `Horizons`
orders, with *for ever* as the longest, and that this order is transitive.  The third
needs that only the head of the lock's queue has read settings, so that two readings
never cross (`HeadConfigures`), and that each caller is in the queue once.

For any intervals, configurations, failures and hotplugs of the collector:

- `SamplesAlwaysCoherent`: every sample the collector returns is of one time.

`SamplesCoherent` speaks of the sample shown; `CollectorInv` says what makes the next
one come out right: what the collector believes of the last refresh is what the process
table holds, unless a collection failed between the two; readings are never in the future;
the GPU scan is not older than the enumeration; and, for each stage of a
collection, what it has read so far.  After such a failure `torn` counts the refreshes down
from three: the first may pass over the machine's time, the second reads both at once again
(`Whole`), and from the third on a sample's spans are the same one.

For any settings of the exporter, failures and steps of the clock:

- `PipelineOfSettings`: an export goes through a pipeline of the settings the iteration
  observed, and a disabled exporter has none.
- `ExportsAreSpaced`: while the loop observes the same settings its exports are an interval
  apart, whatever read or export fails in between, unless somebody sets the clock.

`OtelInv` holds the ages of an attempt between what clock steps can take off and the
longest interval (`AgesBounded`), so that no pause computed from them is negative; says that
a pipeline in use can be built; and that, while the clock is left alone and the settings
stay, the schedule has an attempt that is no older than the last export (`SpacedInv`).

- `DaemonStatesTyped`: the types of all three beside each other, which include that the
  queue of the configuration lock is exactly the calls that wait for it or hold it.  It
  follows from `ControlStatesTyped`, `OtelStatesTyped` and `CollectorStatesTyped`.

`ColdExportProofs`, for any hours, months, batches, exporters, deaths and power cuts:

- `SealedMonthsWhole`: what the watermark seals was exported whole.
- `SealedFilesAgree`: for at most one exporter (`AtMostOne`; `cold_two` shows that two
  break it), target file, sidecar and manifest row of a sealed month are of one export.
  The invariant `FilesInv` says how far the files of the exporter's month are (`Progress`),
  that no file has two names (`NamesInv`), and, because a power cut takes the watermark
  back behind months that are already recorded, that what is recorded is still in the
  archive (`RecordsInv`) and that with any month on the list every earlier recorded one
  that is not sealed is on it too (`Covers`): the watermark never passes a month whose
  files were left half-made by a second export.
- `FilesHaveOneName`: for any number of exporters, no file is reached by two names.

`SealedWhole` is not inductive: a month is sealed because months before it were, and a list of
months is checked long before its last one is written.  `ColdInv` says that a month
that is ready has all its timely hours in the archive, where no hour is ever deleted;
that the list an exporter works through is ordered and holds every unsealed month
below any it holds; and that what it has read of a month is all of it.

`HistoryProofs`, for any snapshots, keys, horizons, batch sizes and number of inserts,
failures, cancellations and restarts, with an insert, a tick and a read in any order:

- `TypesHold`: types, keys and references between the tables.
- `CachesAgree`: the caches are what a restart would prime, as long as each commit
  reached them.
- `ProcessRowsAreWhole`: each capture in the process tables is the list collected.
- `SamplesAreReadBack`, `ProcessesAreReadBack`, `FilesystemsAreReadBack`: what a read
  puts together is what was collected.

The first three follow from `HistoryInv`, whose parts are what the operations rely on:
which stages an insert, a tick and a read have (`Shapes`), and that times come in order
(`Times`); that an insert in progress is of what was collected (`GivenAgrees`); that
commands are interned once, that each process row is one of its capture, under its name,
and that a capture has all its rows until it expires (`Processes`); that a cached identity
or device is the one in the table, where rows are only added (`Hosts`, `Devices`); that the
newest key of the filesystems cached is the newest stored (`Keys`), and that what the cache
takes for present is what the tables tell, whatever ticks prune (`Filesystems`).

The reads need more, since inserts and prunes come between any two of their statements:
`ReaderTells` says, for each stage, that what the read holds is part of its captures and
stays so.  `ReadingsTell` says that a capture's GPU readings are all there or, expired, all
gone.  Filesystems are stored as rows that say what changed and events that say what came
and went, and are read in two statements: `RowsTell` and `EventsTell` say that for every
enumeration, the newest row and event of a mount up to its key tell its value and whether
it was listed, `ReaderFiles` that the values read in the first statement still fit the
events of the second, but for mounts from before the L2 horizon.

For any rows, ladders and lengths of buckets, of the functions in `HistoryPages`:

- `WindowPagesFollow`: what the following pages of the dashboard's raw window show between
  them, while samples are stored and pruned between one page and the next and any page may
  fail: no sample twice, no hole among the samples kept all along, and all of those once the
  last page was answered and not full.  By a least page that breaks it: a page is asked for
  up to just before the oldest sample of the one before (`PageShowsNewestTimes`: what a page
  leaves out is older than all it shows), and a page that leaves some out is full
  (`PageFull`).  The pages of the other reads do not follow one another: nothing in the
  code asks for a second one.
- `ZoomingOutNeverFiner`: of two windows with the same end the longer one is answered from
  the same tier or a coarser one.  It is assumed that the coarsest tier keeps longest; a
  ladder with L3 and L4 off may keep raw samples longer than minutes
  (`RetentionLadder::validate` does not compare L1 with L2), and there it fails.

`MigrationProofs`, for any old files, starters, number of stops and limits of a list:

- `FilesHaveTheirSchema`: a file's tables are those of its version, for a file created
  anew and for one that was migrated there, step by step.
- `EveryPayloadIsKept`: no payload is lost by a rebuild, wherever starts stop, but by the
  operator who removes the copy or clears what does not decode.
- `MigrationsAreRecorded`: one marker for each step, once and in order; and an open that
  was refused has its cause in the file.
- `ListsAreReadBack`: the process lists and mounts of the old file read as they were.

None of them is inductive, and they need one another in order.  `CoreInv` says what a
start in progress knows: its list of steps fits the version it meets (`Starters`), which
below version 5 is because it is alone and from there on because each step looks again; and
the length and entries of the log for each version (`Log`), so that a start after a stop
goes on where the last one was.  `PayloadInv` has the promise behind the rebuild: a
start that is about to rebuild has a complete copy of what it will drop (`Copied`).
`RowInv` follows a process row through three representations, name or id, text or
milliseconds, one rank or two (`RowsTell`), with all rows of a capture ranked or none;
`Mounts` that presence events are those the rows tell, until the rows go.  The first and the
last row of a mount are found by descent in the finite set of its rows.

They assume `OldFiles`, what the earlier releases leave: a file of versions 1 to 4 has the
schema of its version, one of version 0 some of the tables of version 1, and one of version 5
may have been changed by another program, which the code looks for and refuses.

**Only model-checked.**  `AncestorsKeptWhole`; `FoldedBehindWatermark` and
`PromotedBeforePruned` of a ladder that is not `Undisturbed`, as in `ladder_overlap`;
`ExpiredHoursMove` and `MarkedWhenMoved`.  Out of the prover's reach are liveness under
fairness (the gate's, `ControlSettles`, `OtelSettles`) and `ENABLED`, and induction over
recursive data.

## Limits of the models

- A stamp whose raw row was pruned is not stored again (`InsertBegins`): the code
  counts such a replay as a new sample and says so (`lib.rs:2064`).
- An insert that stops between its minute and its refold leaves a late sample
  that no coarser tier will count.  TLC finds `PromotedBeforePruned` violated
  when `ladder_late` lets inserts stop there; that run therefore lets an insert
  stop only before its transaction.
- The passing runs let no statement of the promotion to L3 fail (third finding).
- Two ticks of which one is delayed across the whole other can promote a partly
  pruned bucket again; `ladder_overlap` has one maintainer.
- A tier switched on again keeps its old watermark, so samples that came late
  while it was off are never folded; `PromotedBeforePruned` is checked with a
  fixed ladder and `PrunedBehindWatermark` with a switched one.
- A clock set back by more than the margin between a bucket and its horizon makes
  `refold_one` take a pruned range for whole; the clock is set only in
  `ladder_loop` and `ladder_minute`.
- In `Ladder` hours expire by deletion, as with the archive off; `ArchiveMove` has the
  other branch.  The rows of details, GPUs, sensors and processes and their prunes
  are in `SnapshotHistory`, which has no tiers.
- `ArchiveMove` has one insert at a time: the gate sees to that in the daemon, nothing
  does between it and `tinytop collect`.  `archiveMovedUntilMs` is advisory (nothing
  reads it); it can move back when a row behind it is moved again.  The archive is
  the daemon's own: the refusal of foreign files is left out.
- A power cut may leave the database an older row than the archive has, and the next
  batch replaces the archived one by it.  `KeptHours` allows this, since the row it
  goes back to is one that a power cut could leave before.

- `SnapshotHistory`: each capture time is used once.  The prune of filesystems keeps the
  newest row and event of each mount (ADR 0024), so a mount that was there all along may
  be missing from a sample older than the L2 horizon (`IsOld`).  An insert that is
  cancelled while it awaits COMMIT, with the commit done, leaves the caches behind the
  tables; `CacheAgrees` and `FilesystemsReadBack` exempt what follows (`published`), since
  a later enumeration may then not be stored as the change it is.  The next start primes
  the caches anew.
- `Migration`: two starts at once of a file below version 5 are out of scope (ADR 0037 says
  so): a slower v4 to v5 step could set `user_version` back.  A power cut after VACUUM INTO
  is not modelled.  `Opens` reads the version, the tables and the counts in one step.
  Whether there is free space for a copy is nondeterministic, and a busy file is a start
  that stops.
- `ColdExport`: with two exporters the watermark may go back, since it is written without a
  comparison.  The directory entry of the sidecar is not fsynced by the code; a cut that
  loses it is covered by the deaths of an export only.  Settings, directory and
  ladder are fixed; hours that are deleted because the archive is not queryable are left
  out.  A power cut gives back any moved rows and any older watermark, more than SQLite can.
- `ControlPlane`: a transaction is one step.  A handler that is dropped between the
  statements of one (`lib.rs:1520`, `disk.rs:118`) would hand its connection back to the pool
  with the transaction open; `GivesUp` only ends the call, before or after it.
- `HistoryPages`: `docs/sqlite-history-architecture.md:636` gives the test for a tier as
  `rangeMs / resolutionMs <= limit`; the code (`lib.rs:4062`) adds one to the quotient.
  `DocumentedPageIsLarger` shows a window they answer from different tiers.  Gaps are
  looked for among the oldest samples of the window only.  The archive is read by the
  settings at the time of the read, so `available` may be true with no points.
- `Collector`: a collection that fails between `refresh_system` and the stamp
  (`linux.rs:370` to `380`) makes the next CPU figures of processes those of a wrong span;
  `SamplesCoherent` exempts the samples up to the third refresh after it (`torn`) and is
  violated with fewer.  When the poll
  interval is not shorter than the interval of filesystems, every collection enumerates
  the GPUs anew, which forgets the last scan, and no busy figure from fdinfo is ever
  reported.  The list of sensors changes only when slow sources are read.
- `pendingDetailRows` is read, reported and cleared in separate statements
  (`maintenance.rs:106`): rows counted in between are missing from the log's number.
- The daemon stores a snapshot before it publishes it as the latest
  (`writer.rs:762` to `770`), outside the collector's lock: two collections may publish in
  the other order.  The order of snapshots shown is in no model.

## Not modelled

- Parsing of the operating system's files, and the collectors for Windows and macOS; a
  reused file descriptor in fdinfo; the warning about swap.
- What a snapshot becomes as OpenTelemetry metrics, and the rate limit of warnings.
- The files an export of settings writes; the fields of settings that order nothing.
- Start-up, shutdown and static files of the daemon; command line, rendering in the
  dashboard (a late answer with markers of another window may be drawn), launchers and the
  Bun runtime.
- The ladder together with details, archive and cold export in one state space: their
  interfaces (a row of the hourly tier, a moved row) are modelled on both sides instead.

Left to prove, in order of worth: `AncestorsKeptWhole` and the two properties of
`LadderFoldProofs` for one insert beside one tick, where the invariant must hold between any
two statements of both; `MarkedWhenMoved`.
