------------------------------- MODULE Ladder -------------------------------
(***************************************************************************)
(* The tiered history ladder: raw samples (tier 1) are folded into minute  *)
(* buckets (2) as they are inserted, minutes are promoted to five-minute   *)
(* buckets (3) and those to hours (4) by the maintenance tick, and every   *)
(* tier is pruned by its own horizon.  Store::insert_snapshot (lib.rs) and *)
(* maintenance.rs, with the settings save that switches tiers on and off.  *)
(*                                                                         *)
(* One action is one SQL statement or transaction: the pool has a single   *)
(* connection, so statements are atomic and everything else interleaves.   *)
(*                                                                         *)
(* Abstraction: a bucket's contents are how often it counts each sample,   *)
(* identified by its capture time (sample_count is their sum; averages and *)
(* extrema are functions of them).  Buckets of a tier partition time, and  *)
(* a row exists exactly when it counts something: folding, rebuilding and  *)
(* promoting copy counts, pruning zeroes them.  Time starts at 0, so 0     *)
(* also stands for a watermark that has never been written.                *)
(***************************************************************************)
EXTENDS Naturals, Sequences, FiniteSetsExt

CONSTANTS Instant,        \* the times the wall clock shows: a bounded, coarse clock
          SampleTime,     \* those at which samples are captured
          Res,            \* the resolution of each tier; Res[1] = 1
          Grace,          \* grace_ms
          Lateness,       \* bound of the time from a capture to its minute's write
          Slowest,        \* bound of the time from a capture to the end of its insert
          Ladders,        \* the ladder settings that can be saved
          Maintainer,     \* the loop and the HTTP handlers that run a tick
          Overlap,        \* whether they run beside an insert and each other
          MayFail,        \* the statements that can return an error or be cut short
          MaxPromotions,  \* MAX_PROMOTIONS_PER_TICK
          MaxClockSets    \* bound of the times the wall clock is set

Tier == 1..4
Coarse == {3, 4}

ASSUME LadderConstants ==
  /\ Instant \subseteq Nat /\ IsFiniteSet(Instant) /\ SampleTime \subseteq Instant
  /\ Grace \in Nat /\ Lateness \in Nat /\ Slowest \in Nat
  /\ MaxPromotions \in Nat \ {0} /\ MaxClockSets \in Nat
  /\ Res \in [Tier -> Nat \ {0}] /\ Res[1] = 1
  /\ Ladders \subseteq [keep : [Tier -> Nat], on : SUBSET Coarse]
  /\ Overlap \in BOOLEAN
  \* RetentionLadder::validate: days against resolutions of at most an hour
  /\ \A l \in Ladders : /\ l.keep[1] >= Res[4] + Grace /\ l.keep[2] >= Res[4] + Grace
                         /\ (3 \in l.on => l.keep[3] >= l.keep[2])
                         /\ 4 \in l.on /\ l.keep[4] > 0 =>
                              l.keep[4] >= l.keep[IF 3 \in l.on THEN 3 ELSE 2]

\* Tier::resolution_ms: a row of a tier lies in one bucket of the next.
ASSUME Nested == \A k \in 1..3 : \E q \in 1..Res[k + 1] : Res[k + 1] = q * Res[k]

VARIABLES clock, clockSets,
          count,     \* count[k][t]: how often tier k counts the sample of time t
          wm,        \* l3FoldedUntilMs and l4FoldedUntilMs
          enabled,   \* l3Enabled and l4Enabled of history_state
          settings,  \* the saved ladder settings
          writer,    \* the insert that holds the writer gate
          job,       \* the tick each maintainer is in
          stored,    \* history: the samples whose raw row was ever written
          folded     \* history: the samples each coarse tier has ever counted

vars == <<clock, clockSets, count, wm, enabled, settings, writer, job, stored, folded>>
tables == <<count, wm, enabled, settings, stored, folded>>
time == <<clock, clockSets>>

-----------------------------------------------------------------------------
(* Buckets.                                                                *)
BucketStart(k, t) == (t \div Res[k]) * Res[k]
BucketEnd(k, t) == BucketStart(k, t) + Res[k]
Within(lo, hi) == {t \in SampleTime : lo <= t /\ t < hi}
Bucket(k, t) == Within(BucketStart(k, t), BucketEnd(k, t))

Since(now, span) == IF now > span THEN now - span ELSE 0
Total(counts, S) == MapThenSumSet(LAMBDA t : counts[t], S)
Empty == [t \in SampleTime |-> 0]

\* What a SELECT over a range of a tier returns, and the upsert of the bucket
\* or range that was computed from it.
Read(k, S) == [t \in SampleTime |-> IF t \in S THEN count[k][t] ELSE 0]
Plus(counts, t) == [counts EXCEPT ![t] = @ + 1]
Written(k, S, counts) ==
  [count EXCEPT ![k] = [t \in SampleTime |-> IF t \in S THEN counts[t] ELSE @[t]]]
Counted(k, counts) == [folded EXCEPT ![k] = @ \cup {t \in SampleTime : counts[t] > 0}]

RawIsPartial(existing, raw) == existing > raw
IsCompleteAtEnd(k, start, now) == start + Res[k] <= now   \* variant: no grace
IsComplete(k, start, now) == start + Res[k] + Grace <= now

\* A tier folds from the nearest enabled finer one, and its rows wait for the
\* nearest enabled coarser one, if there is one.
Source(k, on) == IF k = 4 /\ 3 \in on THEN 3 ELSE 2
Dependents(k, on) == {c \in on : c > k /\ \A d \in on : d > k => c <= d}

-----------------------------------------------------------------------------
(* An insert and a maintenance tick in progress: where each is, and what   *)
(* it has read so far.                                                     *)
Idle == [pc |-> "idle", at |-> 0, new |-> FALSE, keep |-> [k \in Tier |-> 0], now |-> 0,
         tier |-> 3, behind |-> {}, on |-> {}, held |-> Empty]

\* The stages of a tick, in order; a stage that fails is passed over.
Stages == << <<"sync", 3>>, <<"sync", 4>>, <<"authority", 3>>, <<"authority", 4>>,
             <<"promote", 3>>, <<"promote", 4>>,
             <<"prune", 1>>, <<"prune", 2>>, <<"prune", 3>>, <<"prune", 4>> >>
NoTick == [stage |-> 0, step |-> "", cfg |-> [keep |-> [k \in Tier |-> 0], on |-> {}],
           now |-> 0, authority |-> [k \in Coarse |-> 0], limit |-> {}, search |-> 0,
           start |-> 0, left |-> 0, held |-> Empty]

Quiet == writer = Idle /\ \A m \in Maintainer : job[m] = NoTick
MayRun == Overlap \/ Quiet

Init ==
  /\ clock \in Instant /\ \A t \in Instant : clock <= t
  /\ clockSets = 0
  /\ count = [k \in Tier |-> Empty]
  /\ wm = [k \in Coarse |-> 0]
  /\ settings \in Ladders /\ enabled = settings.on
  /\ writer = Idle
  /\ job = [m \in Maintainer |-> NoTick]
  /\ stored = {}
  /\ folded = [k \in Coarse |-> {}]

-----------------------------------------------------------------------------
(* Store::insert_snapshot, one insert at a time behind the writer gate.    *)

\* captured_at_ms was taken before the gate was entered.  A stamp whose raw
\* row is gone is not replayed (a stated boundary of the store).  The row of
\* this stamp is only ever created by this insert, so the read of it and the
\* read of the settings are one step.
InsertBegins(t) ==
  /\ writer = Idle /\ MayRun
  /\ Since(clock, Lateness) <= t /\ t <= clock
  /\ t \in stored => count[1][t] > 0
  /\ writer' = [Idle EXCEPT !.pc = "raw", !.at = t, !.new = count[1][t] = 0,
                            !.keep = settings.keep]
  /\ UNCHANGED <<time, tables, job>>

InsertsRaw ==
  /\ writer.pc = "raw"
  /\ count' = [count EXCEPT ![1][writer.at] = 1]
  /\ stored' = stored \cup {writer.at}
  /\ writer' = [writer EXCEPT !.pc = "measure"]
  /\ UNCHANGED <<time, wm, enabled, settings, job, folded>>

MeasuresAndAlwaysMerges ==   \* variant: a stamp that is replayed is merged again
  /\ writer.pc = "measure"
  /\ LET S == Bucket(2, writer.at)
         partial == RawIsPartial(Total(count[2], S), Total(count[1], S))
     IN  writer' = IF partial
                     THEN [writer EXCEPT !.pc = "minute", !.held = Plus(Read(2, S), writer.at)]
                     ELSE [writer EXCEPT !.pc = "rebuild"]
  /\ UNCHANGED <<time, tables, job>>

\* Compares the minute's row with the raw rows that are left.  A minute that
\* counts more is merged with the new sample, and left alone when the stamp
\* was there before.  The two reads are one step: raw rows pruned between them
\* might as well have gone before, minutes after.
Measures ==
  /\ writer.pc = "measure"
  /\ LET S == Bucket(2, writer.at)
         partial == RawIsPartial(Total(count[2], S), Total(count[1], S))
     IN  writer' = IF ~partial THEN [writer EXCEPT !.pc = "rebuild"]
                   ELSE IF writer.new
                     THEN [writer EXCEPT !.pc = "minute", !.held = Plus(Read(2, S), writer.at)]
                     ELSE Idle
  /\ UNCHANGED <<time, tables, job>>

\* rebuild_rollup_bucket: an aggregate over the raw rows, then the upsert, or
\* the delete of a minute that has none.
Rebuilds ==
  /\ writer.pc = "rebuild"
  /\ writer' = [writer EXCEPT !.pc = "minute", !.held = Read(1, Bucket(2, writer.at))]
  /\ UNCHANGED <<time, tables, job>>

WritesMinute ==
  /\ writer.pc = "minute"
  /\ count' = Written(2, Bucket(2, writer.at), writer.held)
  /\ writer' = [writer EXCEPT !.pc = "look", !.now = clock, !.held = Empty]
  /\ UNCHANGED <<time, wm, enabled, settings, job, stored, folded>>

LooksBehindTheEnd ==   \* variant: the newest promoted bucket counts as not promoted
  /\ writer.pc = "look"
  /\ LET k == writer.tier
         seen == IF BucketEnd(k, writer.at) < wm[k] THEN {k} ELSE {}
     IN  writer' = [writer EXCEPT !.pc = IF k = 3 THEN "look" ELSE "flags",
                                  !.tier = IF k = 3 THEN 4 ELSE 3,
                                  !.behind = @ \cup seen]
  /\ UNCHANGED <<time, tables, job>>

\* refold_ancestors_for_late_write: the watermarks, then the flags.
LooksBehind ==
  /\ writer.pc = "look"
  /\ LET k == writer.tier
         seen == IF BucketStart(k, writer.at) < wm[k] THEN {k} ELSE {}
     IN  writer' = [writer EXCEPT !.pc = IF k = 3 THEN "look" ELSE "flags",
                                  !.tier = IF k = 3 THEN 4 ELSE 3,
                                  !.behind = @ \cup seen]
  /\ UNCHANGED <<time, tables, job>>

LooksAtFlags ==
  /\ writer.pc = "flags"
  /\ LET k == writer.tier
     IN  writer' = [writer EXCEPT !.pc = IF k = 3 THEN "flags" ELSE "source",
                                  !.tier = IF k = 3 THEN 4 ELSE 3,
                                  !.on = @ \cup (enabled \cap {k})]
  /\ UNCHANGED <<time, tables, job>>

\* The writer after the refold of its tier: the hours follow the five minutes.
Refolded == IF writer.tier = 3
              THEN [writer EXCEPT !.pc = "source", !.tier = 4, !.held = Empty]
              ELSE Idle

ReadsSourceNeverMerging ==   \* variant: a range the source has pruned is left as it is
  /\ writer.pc = "source"
  /\ LET k == writer.tier
         source == Source(k, writer.on)
         finer == Read(source, Bucket(k, writer.at))
         whole == /\ finer # Empty
                  /\ BucketStart(k, writer.at) >= Since(writer.now, writer.keep[source])
     IN  writer' = IF k \in writer.behind \cap writer.on /\ whole
                     THEN [writer EXCEPT !.pc = "write", !.held = finer]
                     ELSE Refolded
  /\ UNCHANGED <<time, tables, job>>

\* refold_one: from the finer tier when its horizon still covers the range,
\* else by merging a sample that was not there before.
ReadsSource ==
  /\ writer.pc = "source"
  /\ LET k == writer.tier
         source == Source(k, writer.on)
         finer == Read(source, Bucket(k, writer.at))
         whole == /\ finer # Empty
                  /\ BucketStart(k, writer.at) >= Since(writer.now, writer.keep[source])
     IN  writer' = IF k \notin writer.behind \cap writer.on THEN Refolded
                   ELSE IF whole THEN [writer EXCEPT !.pc = "write", !.held = finer]
                   ELSE IF writer.new THEN [writer EXCEPT !.pc = "target"]
                   ELSE Refolded
  /\ UNCHANGED <<time, tables, job>>

ReadsTarget ==
  /\ writer.pc = "target"
  /\ writer' = [writer EXCEPT !.pc = "write",
                  !.held = Plus(Read(writer.tier, Bucket(writer.tier, writer.at)), writer.at)]
  /\ UNCHANGED <<time, tables, job>>

WritesAncestor ==
  /\ writer.pc = "write"
  /\ count' = Written(writer.tier, Bucket(writer.tier, writer.at), writer.held)
  /\ folded' = Counted(writer.tier, writer.held)
  /\ writer' = Refolded
  /\ UNCHANGED <<time, wm, enabled, settings, job, stored>>

\* A statement fails, the request is cancelled at an await, or the process
\* dies: the statements that ran stay.
InsertEnds ==
  /\ writer # Idle /\ <<"insert", writer.pc>> \in MayFail
  /\ writer' = Idle
  /\ UNCHANGED <<time, tables, job>>

Insert == \/ \E t \in SampleTime : InsertBegins(t)
          \/ InsertsRaw \/ Measures \/ Rebuilds \/ WritesMinute \/ LooksBehind
          \/ LooksAtFlags \/ ReadsSource \/ ReadsTarget \/ WritesAncestor \/ InsertEnds

-----------------------------------------------------------------------------
(* maintenance::maintain.                                                  *)
In(m, kind) == job[m].stage > 0 /\ Stages[job[m].stage][1] = kind
TierOf(m) == Stages[job[m].stage][2]

AfterStage(m) ==
  IF job[m].stage = Len(Stages) THEN NoTick
  ELSE [job[m] EXCEPT !.stage = @ + 1, !.step = "go", !.limit = {}, !.search = 0,
                      !.start = 0, !.left = 0, !.held = Empty]

\* The settings are read (or come from the save that this tick follows), then
\* the clock.
TickBegins(m) ==
  /\ job[m] = NoTick /\ MayRun
  /\ job' = [job EXCEPT ![m].stage = 1, ![m].step = "now", ![m].cfg = settings]
  /\ UNCHANGED <<time, tables, writer>>

ReadsClock(m) ==
  /\ job[m].step = "now"
  /\ job' = [job EXCEPT ![m].step = "go", ![m].now = clock]
  /\ UNCHANGED <<time, tables, writer>>

\* A flag that already has the value is not written, which changes nothing.
SyncsFlag(m) ==
  /\ In(m, "sync") /\ job[m].step = "go"
  /\ LET k == TierOf(m) IN
       enabled' = IF k \in job[m].cfg.on THEN enabled \cup {k} ELSE enabled \ {k}
  /\ job' = [job EXCEPT ![m] = AfterStage(m)]
  /\ UNCHANGED <<time, count, wm, settings, writer, stored, folded>>

\* The watermark that lets this tick prune, read before it promotes.
ReadsAuthority(m) ==
  /\ In(m, "authority")
  /\ job' = [job EXCEPT ![m] = [AfterStage(m) EXCEPT !.authority[TierOf(m)] = wm[TierOf(m)]]]
  /\ UNCHANGED <<time, tables, writer>>

\* Whether the current stage of the tick applies to the tier it is about.
Applies(m) ==
  LET k == TierOf(m) IN
    /\ k \in Coarse => k \in job[m].cfg.on
    /\ In(m, "prune") /\ k = 4 => job[m].cfg.keep[4] > 0

SkipsStage(m) ==
  /\ In(m, "promote") \/ In(m, "prune")
  /\ ~Applies(m)
  /\ job' = [job EXCEPT ![m] = AfterStage(m)]
  /\ UNCHANGED <<time, tables, writer>>

Promoting(m, step) == In(m, "promote") /\ Applies(m) /\ job[m].step = step
From(m) == Source(TierOf(m), job[m].cfg.on)
TargetEnd(m) == job[m].start + Res[TierOf(m)]

\* Hours fold from five minutes only as far as those are promoted; a
\* watermark that was never written is no limit.
ReadsLimit(m) ==
  /\ Promoting(m, "go") /\ From(m) = 3
  /\ job' = [job EXCEPT ![m].step = "from", ![m].limit = {wm[3]} \ {0}]
  /\ UNCHANGED <<time, tables, writer>>

ReadsNoWatermark(m) ==   \* variant: promotion starts over at every tick
  /\ Promoting(m, "from") \/ (Promoting(m, "go") /\ From(m) = 2)
  /\ job' = [job EXCEPT ![m].step = "seek", ![m].search = 0, ![m].left = MaxPromotions]
  /\ UNCHANGED <<time, tables, writer>>

ReadsWatermark(m) ==
  /\ Promoting(m, "from") \/ (Promoting(m, "go") /\ From(m) = 2)
  /\ job' = [job EXCEPT ![m].step = "seek", ![m].search = wm[TierOf(m)],
                        ![m].left = MaxPromotions]
  /\ UNCHANGED <<time, tables, writer>>

\* The source rows from the search position on, by their start.
Ahead(m) == {row \in {BucketStart(From(m), t) : t \in {u \in SampleTime : count[From(m)][u] > 0}} :
               row >= job[m].search}
Promotable(m, start) ==
  /\ IsComplete(TierOf(m), start, job[m].now)
  /\ \A watermark \in job[m].limit : start + Res[TierOf(m)] <= watermark

SeeksForever(m) ==   \* variant: no bound on the promotions of a tick
  /\ Promoting(m, "seek")
  /\ \/ \E row \in Ahead(m) :
          /\ \A other \in Ahead(m) : row <= other
          /\ LET start == BucketStart(TierOf(m), row) IN
               job' = [job EXCEPT ![m] =
                         IF Promotable(m, start)
                           THEN [@ EXCEPT !.step = "gather", !.start = start]
                           ELSE AfterStage(m)]
     \/ Ahead(m) = {} /\ job' = [job EXCEPT ![m] = AfterStage(m)]
  /\ UNCHANGED <<time, tables, writer>>

\* The oldest of them, and whether the bucket that holds it can be promoted.
Seeks(m) ==
  /\ Promoting(m, "seek")
  /\ \/ \E row \in Ahead(m) :
          /\ \A other \in Ahead(m) : row <= other
          /\ LET start == BucketStart(TierOf(m), row) IN
               job' = [job EXCEPT ![m] =
                         IF job[m].left > 0 /\ Promotable(m, start)
                           THEN [@ EXCEPT !.step = "gather", !.start = start]
                           ELSE AfterStage(m)]
     \/ Ahead(m) = {} /\ job' = [job EXCEPT ![m] = AfterStage(m)]
  /\ UNCHANGED <<time, tables, writer>>

Gathers(m) ==
  /\ Promoting(m, "gather")
  /\ LET finer == Read(From(m), Within(job[m].start, TargetEnd(m)))
     IN  job' = [job EXCEPT ![m] =
                   IF finer = Empty
                     THEN [@ EXCEPT !.step = "seek", !.search = TargetEnd(m)]
                     ELSE [@ EXCEPT !.step = "upsert", !.held = finer]]
  /\ UNCHANGED <<time, tables, writer>>

Upserts(m) ==
  /\ Promoting(m, "upsert")
  /\ count' = Written(TierOf(m), Within(job[m].start, TargetEnd(m)), job[m].held)
  /\ folded' = Counted(TierOf(m), job[m].held)
  /\ job' = [job EXCEPT ![m].step = "mark", ![m].held = Empty]
  /\ UNCHANGED <<time, wm, enabled, settings, writer, stored>>

Marks(m) ==
  /\ Promoting(m, "mark")
  /\ wm' = [wm EXCEPT ![TierOf(m)] = TargetEnd(m)]
  /\ job' = [job EXCEPT ![m].step = "seek", ![m].search = TargetEnd(m), ![m].left = @ - 1]
  /\ UNCHANGED <<time, count, enabled, settings, writer, stored, folded>>

ExpiredByAge(m, t) ==   \* variant: pruning does not wait for the coarser tier
  BucketEnd(TierOf(m), t) <= Since(job[m].now, job[m].cfg.keep[TierOf(m)])

\* Minutes and five minutes also wait for the tier that folds them; samples
\* and hours go by age.
Expired(m, t) ==
  LET k == TierOf(m) IN
    /\ BucketEnd(k, t) <= Since(job[m].now, job[m].cfg.keep[k])
    /\ k \in {2, 3} => \A c \in Dependents(k, job[m].cfg.on) :
                         BucketEnd(k, t) <= job[m].authority[c]

\* The expired rows of a tier go in one DELETE; so do the hours, unless there
\* is a queryable archive to move them to.
Prunes(m) ==
  /\ In(m, "prune") /\ Applies(m)
  /\ count' = Written(TierOf(m), {t \in SampleTime : Expired(m, t)}, Empty)
  /\ job' = [job EXCEPT ![m] = AfterStage(m)]
  /\ UNCHANGED <<time, wm, enabled, settings, writer, stored, folded>>

\* A failed statement ends its stage and the tick goes on with the next one;
\* a tick that cannot read the limit goes on without one.
Statement(m) ==
  <<IF ~In(m, "promote") THEN Stages[job[m].stage][1]
    ELSE IF job[m].step # "go" THEN job[m].step
    ELSE IF From(m) = 3 THEN "limit" ELSE "from", TierOf(m)>>
StatementFails(m) ==
  /\ job[m].stage > 0 /\ job[m].step # "now"
  /\ Statement(m) \in MayFail
  /\ In(m, "promote") => Applies(m)
  /\ job' = [job EXCEPT ![m] =
               IF Promoting(m, "go") /\ From(m) = 3 THEN [@ EXCEPT !.step = "from"]
               ELSE AfterStage(m)]
  /\ UNCHANGED <<time, tables, writer>>

\* The request is cancelled at an await, or the process dies.
TickEnds(m) ==
  /\ job[m] # NoTick
  /\ job' = [job EXCEPT ![m] = NoTick]
  /\ UNCHANGED <<time, tables, writer>>

Tick(m) == \/ TickBegins(m) \/ ReadsClock(m) \/ SyncsFlag(m) \/ ReadsAuthority(m)
           \/ SkipsStage(m) \/ ReadsLimit(m) \/ ReadsWatermark(m) \/ Seeks(m)
           \/ Gathers(m) \/ Upserts(m) \/ Marks(m) \/ Prunes(m) \/ StatementFails(m)
           \/ TickEnds(m)

-----------------------------------------------------------------------------
(* Settings and time.                                                      *)
SavesWithoutFlags(l) ==   \* variant: the flags wait for the next tick
  /\ MayRun
  /\ settings' = l
  /\ UNCHANGED <<time, count, wm, enabled, writer, job, stored, folded>>

\* write_settings_on, in its transaction; the tick that follows is a TickBegins.
SavesSettings(l) ==
  /\ MayRun
  /\ settings' = l
  /\ enabled' = l.on
  /\ UNCHANGED <<time, count, wm, writer, job, stored, folded>>

\* Whether the insert in progress has yet to write its minute.
Unfolded == writer.pc \in {"raw", "measure", "rebuild", "minute"}

ClockTicks ==
  /\ MayRun
  /\ \E t \in Instant : /\ t > clock /\ \A u \in Instant : u > clock => t <= u
                       /\ clock' = t
  /\ Unfolded => clock' <= writer.at + Lateness
  /\ writer # Idle => clock' <= writer.at + Slowest
  /\ UNCHANGED <<clockSets, tables, writer, job>>

ClockIsSet(t) ==
  /\ MayRun /\ clockSets < MaxClockSets
  /\ clock' = t
  /\ clockSets' = clockSets + 1
  /\ UNCHANGED <<tables, writer, job>>

Next == \/ Insert
        \/ \E m \in Maintainer : Tick(m)
        \/ \E l \in Ladders : SavesSettings(l)
        \/ ClockTicks
        \/ \E t \in Instant : ClockIsSet(t)

Spec == Init /\ [][Next]_vars

-----------------------------------------------------------------------------
Counts == [SampleTime -> Nat]
Keep == [Tier -> Nat]
InsertState ==
  [pc : {"idle", "raw", "measure", "rebuild", "minute", "look", "flags", "source",
         "target", "write"},
   at : Nat, new : BOOLEAN, keep : Keep, now : Nat, tier : Coarse, behind : SUBSET Coarse,
   on : SUBSET Coarse, held : Counts]
TickState ==
  [stage : 0..10, step : {"", "now", "go", "from", "seek", "gather", "upsert", "mark"},
   cfg : [keep : Keep, on : SUBSET Coarse], now : Nat, authority : [Coarse -> Nat],
   limit : SUBSET Nat, search : Nat, start : Nat, left : 0..MaxPromotions, held : Counts]

TypeOK ==
  /\ clock \in Instant /\ clockSets \in 0..MaxClockSets
  /\ count \in [Tier -> Counts]
  /\ wm \in [Coarse -> Nat]
  /\ enabled \in SUBSET Coarse
  /\ settings \in Ladders
  /\ writer \in InsertState /\ (writer.pc # "idle" => writer.at \in SampleTime)
  /\ job \in [Maintainer -> TickState]
  /\ stored \in SUBSET SampleTime
  /\ folded \in [Coarse -> SUBSET SampleTime]

(* No tier counts a sample twice, however late or often it is stored, and  *)
(* whatever is interrupted: "the merge path runs only for a genuinely new  *)
(* raw row" (P1-fix1b.md:13).                                              *)
NoDoubleCount == \A k \in Tier, t \in SampleTime : count[k][t] <= 1

\* A bucket of tier k loses the sample t with the whole row that counts it.
RowGoes(k, t) == count[k][t] > 0 /\ \A u \in Bucket(k, t) : count'[k][u] = 0

(* A row goes only when the watermark of the nearest enabled coarser tier  *)
(* has passed it ("the fold watermark has passed it", tiered-history-      *)
(* ladder-design.md:47), with tiers switched on and off and the clock set  *)
(* between the ticks.                                                      *)
PrunedBehindWatermark ==
  [][\A k \in {2, 3} : \A t \in SampleTime : RowGoes(k, t) =>
       \A c \in Dependents(k, settings.on) : BucketEnd(k, t) <= wm[c]]_vars

(* Promote before prune: what a row counts has been folded into the        *)
(* nearest enabled coarser tier before the row goes ("No row is deleted    *)
(* until every enabled coarser tier that depends on it has folded it",     *)
(* design:47), late samples included.                                      *)
PromotedBeforePruned ==
  [][\A k \in {2, 3} : \A t \in SampleTime : RowGoes(k, t) =>
       \A c \in Dependents(k, settings.on) : t \in folded[c]]_vars

(* Between inserts and ticks, every sample a tier still counts behind the  *)
(* watermark of the tier that folds it has been folded: the grace keeps a  *)
(* promotion from missing a sample on its way, and the refold brings in    *)
(* the later ones.                                                         *)
FoldedBehindWatermark ==
  Quiet => \A k \in settings.on : \A t \in SampleTime :
             count[Source(k, settings.on)][t] > 0 /\ BucketEnd(k, t) <= wm[k] => t \in folded[k]

(* A completed bucket is frozen (design:49): nothing that an insert or a   *)
(* promotion writes drops a sample from it; it keeps all it counts until   *)
(* the whole row goes.                                                     *)
KeptWhole(k) ==
  \A t \in SampleTime :
    count'[k][t] < count[k][t] => \A u \in Bucket(k, t) : count'[k][u] = 0

AncestorsKeptWhole == [][KeptWhole(3) /\ KeptWhole(4)]_vars

(* The same of the minutes: "a completed bucket is never rebuilt from a    *)
(* partial tail" (briefs/T2-fix1.md:3).                                    *)
MinutesKeptWhole == [][KeptWhole(2)]_vars

(* The authority to delete is never taken back: a watermark only advances. *)
WatermarksAdvance == [][\A k \in Coarse : wm'[k] >= wm[k]]_vars

(* "A disabled L3 or L4 table is neither written nor pruned"               *)
(* (sqlite-history-architecture.md:702), from the save that disables it on.*)
DisabledUntouched ==
  [][\A k \in Coarse : count'[k] # count[k] => k \in settings.on]_vars

(* "a late insert immediately after disabling a tier cannot refold into    *)
(* it" (sqlite-history-architecture.md:716): an insert that reads the      *)
(* flags does not find a tier on that the saved settings have off.         *)
RefoldHonoursSave ==
  writer.pc = "flags" => writer.behind \cap enabled \subseteq settings.on
=============================================================================
