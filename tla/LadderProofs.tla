---------------------------- MODULE LadderProofs ----------------------------
(***************************************************************************)
(* Proofs about the history ladder, for every instant, resolution, set of  *)
(* ladders and number of maintainers the constants allow.                  *)
(***************************************************************************)
EXTENDS Ladder, TLAPS

LEMMA BucketStartNat ==
  ASSUME LadderConstants, NEW k \in Tier, NEW t \in Nat
  PROVE  BucketStart(k, t) \in Nat /\ BucketEnd(k, t) \in Nat
<1> DEFINE r == Res[k]
           q == t \div r
<1>1. r \in Nat /\ r > 0
  BY DEF LadderConstants
<1>2. q \in Nat
  <2> HIDE DEF r
  <2> QED BY <1>1
<1>3. q * r \in Nat
  <2> HIDE DEF r, q
  <2> QED BY <1>1, <1>2
<1> QED BY <1>1, <1>3 DEF BucketStart, BucketEnd

(* A promotion is begun only while some are left, so counting it never     *)
(* goes below zero: what TypeOK needs to be inductive.                     *)
Begun == {"gather", "upsert", "mark"}
LeftOK == \A m \in Maintainer :
            job[m].step \in Begun => job[m].left > 0

(* What each stage of a tick is about.                                     *)
LEMMA StageFacts ==
  /\ Len(Stages) = 10
  /\ \A i \in 1..10 : /\ Stages[i][2] \in Tier
                      /\ Stages[i][1] # "prune" => Stages[i][2] \in Coarse
<1>1. Len(Stages) = 10
  BY DEF Stages
<1>2. ASSUME NEW i \in 1..10
      PROVE  /\ Stages[i][2] \in Tier
             /\ Stages[i][1] # "prune" => Stages[i][2] \in Coarse
  <2>1. i = 1 \/ i = 2 \/ i = 3 \/ i = 4 \/ i = 5 \/ i = 6 \/ i = 7 \/ i = 8 \/ i = 9 \/ i = 10
    OBVIOUS
  <2> QED BY <2>1 DEF Stages, Tier, Coarse
<1> QED BY <1>1, <1>2

LEMMA ReadTyped ==
  ASSUME TypeOK, NEW k \in Tier, NEW S
  PROVE  Read(k, S) \in Counts
BY DEF TypeOK, Read, Counts

LEMMA WrittenTyped ==
  ASSUME TypeOK, NEW k \in Tier, NEW S, NEW c \in Counts
  PROVE  Written(k, S, c) \in [Tier -> Counts]
BY DEF TypeOK, Written, Counts

LEMMA PlusTyped ==
  ASSUME NEW c \in Counts, NEW t \in SampleTime
  PROVE  Plus(c, t) \in Counts
BY DEF Plus, Counts

LEMMA CountedTyped ==
  ASSUME TypeOK, NEW k \in Coarse, NEW c \in Counts
  PROVE  Counted(k, c) \in [Coarse -> SUBSET SampleTime]
BY DEF TypeOK, Counted, Counts

LEMMA IdleTyped == Idle \in InsertState
BY DEF Idle, InsertState, Keep, Tier, Coarse, Counts, Empty

LEMMA NoTickTyped == LadderConstants => NoTick \in TickState
BY DEF NoTick, TickState, Keep, Tier, Coarse, Counts, Empty, LadderConstants

LEMMA AfterStageTyped ==
  ASSUME LadderConstants, NEW m \in Maintainer, job[m] \in TickState, job[m].stage > 0
  PROVE  AfterStage(m) \in TickState
<1>1. CASE job[m].stage = 10
  BY <1>1, NoTickTyped, StageFacts DEF AfterStage
<1>2. CASE job[m].stage # 10
  <2> DEFINE next == [job[m] EXCEPT !.stage = @ + 1, !.step = "go", !.limit = {}, !.search = 0,
                                   !.start = 0, !.left = 0, !.held = Empty]
  <2>1. AfterStage(m) = next
    BY <1>2, StageFacts DEF AfterStage
  <2>2. job[m].stage + 1 \in 0..10
    <3>1. job[m].stage \in 0..10
      BY DEF TickState
    <3> QED BY <1>2, <3>1
  <2>3. Empty \in Counts
    BY DEF Empty, Counts
  <2>4. 0 \in 0..MaxPromotions
    BY DEF LadderConstants
  <2>5. next \in TickState
    BY <2>2, <2>3, <2>4 DEF TickState
  <2> QED BY <2>1, <2>5
<1> QED BY <1>1, <1>2

-----------------------------------------------------------------------------
(* Type correctness, one lemma per kind of step.                           *)

WriterOK(w) == w \in InsertState /\ (w.pc # "idle" => w.at \in SampleTime)

LEMMA WriterStep ==
  ASSUME TypeOK, UNCHANGED <<time, tables, job>>, WriterOK(writer')
  PROVE  TypeOK'
BY DEF TypeOK, WriterOK, time, tables

LEMMA TickStep ==
  ASSUME TypeOK, NEW m \in Maintainer, NEW x \in TickState,
         job' = [job EXCEPT ![m] = x], UNCHANGED <<time, tables, writer>>
  PROVE  TypeOK'
<1>1. job' \in [Maintainer -> TickState]
  BY DEF TypeOK
<1> QED BY <1>1 DEF TypeOK, time, tables

LEMMA IdleOK == WriterOK(Idle)
BY IdleTyped DEF WriterOK, Idle

LEMMA RefoldedOK ==
  ASSUME TypeOK, writer.pc # "idle"
  PROVE  WriterOK(Refolded)
<1>1. CASE writer.tier = 3
  <2>1. Refolded = [writer EXCEPT !.pc = "source", !.tier = 4, !.held = Empty]
    BY <1>1 DEF Refolded
  <2>2. Empty \in Counts
    BY DEF Empty, Counts
  <2> QED BY <2>1, <2>2 DEF TypeOK, WriterOK, InsertState, Coarse
<1>2. CASE writer.tier # 3
  BY <1>2, IdleOK DEF Refolded
<1> QED BY <1>1, <1>2

LEMMA InsertBeginsTyped ==
  ASSUME LadderConstants, TypeOK, NEW t \in SampleTime, InsertBegins(t)
  PROVE  TypeOK'
<1> DEFINE w == [Idle EXCEPT !.pc = "raw", !.at = t, !.new = count[1][t] = 0,
                             !.keep = settings.keep]
<1>1. t \in Nat
  BY DEF LadderConstants
<1>2. settings.keep \in Keep
  BY DEF TypeOK, LadderConstants, Keep
<1>3. WriterOK(w)
  BY <1>1, <1>2, IdleTyped DEF WriterOK, InsertState
<1>4. writer' = w /\ UNCHANGED <<time, tables, job>>
  BY DEF InsertBegins
<1> QED BY <1>3, <1>4, WriterStep

LEMMA InsertsRawTyped ==
  ASSUME LadderConstants, TypeOK, InsertsRaw
  PROVE  TypeOK'
<1>1. writer.at \in SampleTime
  BY DEF TypeOK, InsertsRaw
<1>2. count' \in [Tier -> Counts]
  BY <1>1 DEF TypeOK, InsertsRaw, Counts, Tier
<1>3. WriterOK(writer')
  BY <1>1 DEF TypeOK, InsertsRaw, WriterOK, InsertState
<1> QED BY <1>1, <1>2, <1>3 DEF TypeOK, InsertsRaw, WriterOK, time

LEMMA MeasuresTyped ==
  ASSUME LadderConstants, TypeOK, Measures
  PROVE  TypeOK'
<1> DEFINE S == Bucket(2, writer.at)
           merged == Plus(Read(2, S), writer.at)
<1>1. writer.at \in SampleTime
  BY DEF TypeOK, Measures
<1>2. merged \in Counts
  <2>1. Read(2, S) \in Counts
    BY ReadTyped DEF Tier
  <2> QED BY <1>1, <2>1, PlusTyped
<1>3. \/ writer' = [writer EXCEPT !.pc = "rebuild"]
      \/ writer' = [writer EXCEPT !.pc = "minute", !.held = merged]
      \/ writer' = Idle
  BY DEF Measures
<1> HIDE DEF merged
<1>4. WriterOK(writer')
  BY <1>1, <1>2, <1>3, IdleOK DEF TypeOK, WriterOK, InsertState
<1>5. UNCHANGED <<time, tables, job>>
  BY DEF Measures
<1> QED BY <1>4, <1>5, WriterStep

LEMMA RebuildsTyped ==
  ASSUME LadderConstants, TypeOK, Rebuilds
  PROVE  TypeOK'
<1>1. Read(1, Bucket(2, writer.at)) \in Counts
  BY ReadTyped DEF Tier
<1>2. WriterOK(writer')
  BY <1>1 DEF Rebuilds, TypeOK, WriterOK, InsertState
<1>3. UNCHANGED <<time, tables, job>>
  BY DEF Rebuilds
<1> QED BY <1>2, <1>3, WriterStep

LEMMA WritesMinuteTyped ==
  ASSUME LadderConstants, TypeOK, WritesMinute
  PROVE  TypeOK'
<1>1. writer.held \in Counts /\ clock \in Nat /\ Empty \in Counts
  BY DEF TypeOK, InsertState, LadderConstants, Empty, Counts
<1>2. count' \in [Tier -> Counts]
  BY <1>1, WrittenTyped DEF WritesMinute, Tier
<1>3. WriterOK(writer')
  BY <1>1 DEF WritesMinute, TypeOK, WriterOK, InsertState
<1> QED BY <1>2, <1>3 DEF TypeOK, WritesMinute, WriterOK, time

LEMMA LooksBehindTyped ==
  ASSUME LadderConstants, TypeOK, LooksBehind
  PROVE  TypeOK'
<1>1. PICK seen \in SUBSET Coarse :
        writer' = [writer EXCEPT !.pc = IF writer.tier = 3 THEN "look" ELSE "flags",
                                 !.tier = IF writer.tier = 3 THEN 4 ELSE 3,
                                 !.behind = @ \cup seen]
  BY DEF LooksBehind, TypeOK, InsertState
<1>2. WriterOK(writer')
  <2>1. writer \in InsertState /\ writer.at \in SampleTime
    BY DEF LooksBehind, TypeOK
  <2>2. writer.behind \cup seen \in SUBSET Coarse
    BY <2>1 DEF InsertState
  <2>3. CASE writer.tier = 3
    <3>1. writer' = [writer EXCEPT !.pc = "look", !.tier = 4, !.behind = @ \cup seen]
      BY <1>1, <2>3
    <3> QED BY <2>1, <2>2, <3>1 DEF WriterOK, InsertState, Coarse
  <2>4. CASE writer.tier # 3
    <3>1. writer' = [writer EXCEPT !.pc = "flags", !.tier = 3, !.behind = @ \cup seen]
      BY <1>1, <2>4
    <3> QED BY <2>1, <2>2, <3>1 DEF WriterOK, InsertState, Coarse
  <2> QED BY <2>3, <2>4
<1>3. UNCHANGED <<time, tables, job>>
  BY DEF LooksBehind
<1> QED BY <1>2, <1>3, WriterStep

LEMMA LooksAtFlagsTyped ==
  ASSUME LadderConstants, TypeOK, LooksAtFlags
  PROVE  TypeOK'
<1>1. WriterOK(writer')
  <2>1. writer \in InsertState /\ writer.at \in SampleTime
    BY DEF LooksAtFlags, TypeOK
  <2>2. PICK found \in SUBSET Coarse :
          writer' = [writer EXCEPT !.pc = IF writer.tier = 3 THEN "flags" ELSE "source",
                                   !.tier = IF writer.tier = 3 THEN 4 ELSE 3,
                                   !.on = @ \cup found]
    BY DEF LooksAtFlags, TypeOK
  <2>3. writer.on \cup found \in SUBSET Coarse
    BY <2>1 DEF InsertState
  <2>4. CASE writer.tier = 3
    <3>1. writer' = [writer EXCEPT !.pc = "flags", !.tier = 4, !.on = @ \cup found]
      BY <2>2, <2>4
    <3> QED BY <2>1, <2>3, <3>1 DEF WriterOK, InsertState, Coarse
  <2>5. CASE writer.tier # 3
    <3>1. writer' = [writer EXCEPT !.pc = "source", !.tier = 3, !.on = @ \cup found]
      BY <2>2, <2>5
    <3> QED BY <2>1, <2>3, <3>1 DEF WriterOK, InsertState, Coarse
  <2> QED BY <2>4, <2>5
<1>2. UNCHANGED <<time, tables, job>>
  BY DEF LooksAtFlags
<1> QED BY <1>1, <1>2, WriterStep

LEMMA ReadsSourceTyped ==
  ASSUME LadderConstants, TypeOK, ReadsSource
  PROVE  TypeOK'
<1> DEFINE finer == Read(Source(writer.tier, writer.on), Bucket(writer.tier, writer.at))
<1>1. finer \in Counts
  BY ReadTyped DEF Source, Tier
<1>2. \/ writer' = [writer EXCEPT !.pc = "write", !.held = finer]
      \/ writer' = [writer EXCEPT !.pc = "target"]
      \/ writer' = Refolded
  BY DEF ReadsSource
<1> HIDE DEF finer
<1>3. WriterOK(writer')
  <2>1. WriterOK(Refolded)
    BY RefoldedOK DEF ReadsSource
  <2> QED BY <1>1, <1>2, <2>1 DEF ReadsSource, TypeOK, WriterOK, InsertState
<1>4. UNCHANGED <<time, tables, job>>
  BY DEF ReadsSource
<1> QED BY <1>3, <1>4, WriterStep

LEMMA ReadsTargetTyped ==
  ASSUME LadderConstants, TypeOK, ReadsTarget
  PROVE  TypeOK'
<1> DEFINE merged == Plus(Read(writer.tier, Bucket(writer.tier, writer.at)), writer.at)
<1>1. writer.at \in SampleTime /\ writer.tier \in Tier
  BY DEF TypeOK, ReadsTarget, InsertState, Coarse, Tier
<1>2. merged \in Counts
  BY <1>1, ReadTyped, PlusTyped
<1>3. writer' = [writer EXCEPT !.pc = "write", !.held = merged]
  BY DEF ReadsTarget
<1> HIDE DEF merged
<1>4. WriterOK(writer')
  BY <1>1, <1>2, <1>3 DEF TypeOK, WriterOK, InsertState
<1>5. UNCHANGED <<time, tables, job>>
  BY DEF ReadsTarget
<1> QED BY <1>4, <1>5, WriterStep

LEMMA WritesAncestorTyped ==
  ASSUME LadderConstants, TypeOK, WritesAncestor
  PROVE  TypeOK'
<1>1. writer.held \in Counts /\ writer.tier \in Coarse /\ writer.tier \in Tier
  BY DEF TypeOK, InsertState, Coarse, Tier
<1>2. count' \in [Tier -> Counts]
  BY <1>1, WrittenTyped DEF WritesAncestor
<1>3. folded' \in [Coarse -> SUBSET SampleTime]
  BY <1>1, CountedTyped DEF WritesAncestor
<1>4. WriterOK(writer')
  BY RefoldedOK DEF WritesAncestor
<1> QED BY <1>2, <1>3, <1>4 DEF TypeOK, WritesAncestor, WriterOK, time

LEMMA InsertTyped ==
  ASSUME LadderConstants, TypeOK, Insert
  PROVE  TypeOK'
<1>1. CASE InsertEnds
  BY <1>1, IdleOK, WriterStep DEF InsertEnds
<1> QED
  BY <1>1, InsertBeginsTyped, InsertsRawTyped, MeasuresTyped, RebuildsTyped, WritesMinuteTyped,
     LooksBehindTyped, LooksAtFlagsTyped, ReadsSourceTyped, ReadsTargetTyped,
     WritesAncestorTyped DEF Insert

LEMMA TierOfTyped ==
  ASSUME TypeOK, NEW m \in Maintainer, job[m].stage > 0
  PROVE  /\ TierOf(m) \in Tier
         /\ Stages[job[m].stage][1] # "prune" => TierOf(m) \in Coarse
<1>1. job[m].stage \in 1..10
  <2>1. job[m] \in TickState
    BY DEF TypeOK
  <2>2. job[m].stage \in 0..10
    BY <2>1 DEF TickState
  <2> QED BY <2>2
<1> QED BY <1>1, StageFacts DEF TierOf

LEMMA PromotingTyped ==
  ASSUME TypeOK, NEW m \in Maintainer, NEW s, Promoting(m, s)
  PROVE  /\ job[m] \in TickState /\ job[m].stage > 0
         /\ TierOf(m) \in Coarse /\ TierOf(m) \in Tier
BY TierOfTyped DEF Promoting, In, TypeOK

LEMMA AfterStageStep ==
  ASSUME LadderConstants, TypeOK, NEW m \in Maintainer, job[m].stage > 0
  PROVE  AfterStage(m) \in TickState
BY AfterStageTyped DEF TypeOK

LEMMA TargetEndNat ==
  ASSUME LadderConstants, NEW m \in Maintainer, job[m] \in TickState, TierOf(m) \in Tier
  PROVE  TargetEnd(m) \in Nat
<1>1. job[m].start \in Nat
  BY DEF TickState
<1>2. Res[TierOf(m)] \in Nat
  BY DEF LadderConstants
<1> QED BY <1>1, <1>2 DEF TargetEnd

LEMMA TickBeginsTyped ==
  ASSUME LadderConstants, TypeOK, NEW m \in Maintainer, TickBegins(m)
  PROVE  TypeOK'
<1> DEFINE x == [job[m] EXCEPT !.stage = 1, !.step = "now", !.cfg = settings]
<1>1. job[m] \in TickState
  BY DEF TypeOK
<1>2. settings \in [keep : Keep, on : SUBSET Coarse]
  BY DEF TypeOK, LadderConstants, Keep
<1>3. x \in TickState
  <2>1. 1 \in 0..10
    OBVIOUS
  <2> QED BY <1>1, <1>2, <2>1 DEF TickState
<1>4. job' = [job EXCEPT ![m] = x] /\ UNCHANGED <<time, tables, writer>>
  BY DEF TickBegins
<1> QED BY <1>3, <1>4, TickStep

LEMMA ReadsClockTyped ==
  ASSUME LadderConstants, TypeOK, NEW m \in Maintainer, ReadsClock(m)
  PROVE  TypeOK'
<1> DEFINE x == [job[m] EXCEPT !.step = "go", !.now = clock]
<1>1. job[m] \in TickState /\ clock \in Nat
  BY DEF TypeOK, LadderConstants
<1>2. x \in TickState
  BY <1>1 DEF TickState
<1>3. job' = [job EXCEPT ![m] = x] /\ UNCHANGED <<time, tables, writer>>
  BY DEF ReadsClock
<1> QED BY <1>2, <1>3, TickStep

LEMMA SyncsFlagTyped ==
  ASSUME LadderConstants, TypeOK, NEW m \in Maintainer, SyncsFlag(m)
  PROVE  TypeOK'
<1>1. job[m].stage > 0 /\ TierOf(m) \in Coarse
  BY TierOfTyped DEF SyncsFlag, In
<1>2. job' \in [Maintainer -> TickState]
  <2>1. AfterStage(m) \in TickState
    BY <1>1, AfterStageStep
  <2> QED BY <2>1 DEF SyncsFlag, TypeOK
<1>3. enabled' \in SUBSET Coarse
  BY <1>1 DEF SyncsFlag, TypeOK
<1> QED BY <1>2, <1>3 DEF SyncsFlag, TypeOK, time

LEMMA ReadsAuthorityTyped ==
  ASSUME LadderConstants, TypeOK, NEW m \in Maintainer, ReadsAuthority(m)
  PROVE  TypeOK'
<1> DEFINE next == AfterStage(m)
           k == TierOf(m)
           x == [next EXCEPT !.authority[k] = wm[k]]
<1>1. job[m].stage > 0 /\ k \in Coarse
  BY TierOfTyped DEF ReadsAuthority, In
<1>2. next \in TickState /\ wm[k] \in Nat
  BY <1>1, AfterStageStep DEF TypeOK
<1>3. x \in TickState
  <2> HIDE DEF next, k
  <2>1. [next.authority EXCEPT ![k] = wm[k]] \in [Coarse -> Nat]
    BY <1>1, <1>2 DEF TickState
  <2>2. x = [next EXCEPT !.authority = [next.authority EXCEPT ![k] = wm[k]]]
    OBVIOUS
  <2> QED BY <1>2, <2>1, <2>2 DEF TickState
<1>4. job' = [job EXCEPT ![m] = x] /\ UNCHANGED <<time, tables, writer>>
  BY DEF ReadsAuthority
<1> QED BY <1>3, <1>4, TickStep

LEMMA SkipsStageTyped ==
  ASSUME LadderConstants, TypeOK, NEW m \in Maintainer, SkipsStage(m)
  PROVE  TypeOK'
<1>1. AfterStage(m) \in TickState
  BY AfterStageStep DEF SkipsStage, In
<1> QED BY <1>1, TickStep DEF SkipsStage

LEMMA ReadsLimitTyped ==
  ASSUME LadderConstants, TypeOK, NEW m \in Maintainer, ReadsLimit(m)
  PROVE  TypeOK'
<1> DEFINE x == [job[m] EXCEPT !.step = "from", !.limit = {wm[3]} \ {0}]
<1>1. job[m] \in TickState /\ {wm[3]} \ {0} \in SUBSET Nat
  BY DEF TypeOK, Coarse
<1>2. x \in TickState
  BY <1>1 DEF TickState
<1>3. job' = [job EXCEPT ![m] = x] /\ UNCHANGED <<time, tables, writer>>
  BY DEF ReadsLimit
<1> QED BY <1>2, <1>3, TickStep

LEMMA ReadsWatermarkTyped ==
  ASSUME LadderConstants, TypeOK, NEW m \in Maintainer, ReadsWatermark(m)
  PROVE  TypeOK'
<1> DEFINE x == [job[m] EXCEPT !.step = "seek", !.search = wm[TierOf(m)],
                               !.left = MaxPromotions]
<1>1. job[m] \in TickState /\ TierOf(m) \in Coarse
  BY PromotingTyped DEF ReadsWatermark
<1>2. wm[TierOf(m)] \in Nat /\ MaxPromotions \in 0..MaxPromotions
  BY <1>1 DEF TypeOK, LadderConstants
<1>3. x \in TickState
  BY <1>1, <1>2 DEF TickState
<1>4. job' = [job EXCEPT ![m] = x] /\ UNCHANGED <<time, tables, writer>>
  BY DEF ReadsWatermark
<1> QED BY <1>3, <1>4, TickStep

LEMMA SeeksTyped ==
  ASSUME LadderConstants, TypeOK, NEW m \in Maintainer, Seeks(m)
  PROVE  TypeOK'
<1>1. job[m] \in TickState /\ AfterStage(m) \in TickState /\ TierOf(m) \in Tier
  BY PromotingTyped, AfterStageStep DEF Seeks
<1>2. PICK x : /\ job' = [job EXCEPT ![m] = x]
               /\ \/ x = AfterStage(m)
                  \/ \E row \in Ahead(m) :
                       x = [job[m] EXCEPT !.step = "gather", !.start = BucketStart(TierOf(m), row)]
  BY DEF Seeks
<1>3. x \in TickState
  <2>1. ASSUME NEW row \in Ahead(m)
        PROVE  BucketStart(TierOf(m), row) \in Nat
    <3>1. From(m) \in Tier
      BY DEF From, Source, Tier
    <3>2. row \in Nat
      BY <3>1, BucketStartNat DEF Ahead, LadderConstants
    <3> QED BY <1>1, <3>2, BucketStartNat
  <2>2. CASE x = AfterStage(m)
    BY <1>1, <2>2
  <2>3. ASSUME NEW row \in Ahead(m),
               x = [job[m] EXCEPT !.step = "gather", !.start = BucketStart(TierOf(m), row)]
        PROVE  x \in TickState
    <3> DEFINE start == BucketStart(TierOf(m), row)
    <3>1. start \in Nat
      BY <2>1
    <3> HIDE DEF start
    <3>2. x = [job[m] EXCEPT !.step = "gather", !.start = start]
      BY <2>3 DEF start
    <3> QED BY <1>1, <3>1, <3>2 DEF TickState
  <2> QED BY <1>2, <2>2, <2>3
<1> QED BY <1>2, <1>3, TickStep DEF Seeks

LEMMA GathersTyped ==
  ASSUME LadderConstants, TypeOK, NEW m \in Maintainer, Gathers(m)
  PROVE  TypeOK'
<1> DEFINE finer == Read(From(m), Within(job[m].start, TargetEnd(m)))
<1>1. job[m] \in TickState /\ TierOf(m) \in Tier
  BY PromotingTyped DEF Gathers
<1>2. finer \in Counts
  BY ReadTyped DEF From, Source, Tier
<1>3. TargetEnd(m) \in Nat
  BY <1>1, TargetEndNat
<1>4. PICK x : /\ job' = [job EXCEPT ![m] = x]
               /\ \/ x = [job[m] EXCEPT !.step = "seek", !.search = TargetEnd(m)]
                  \/ x = [job[m] EXCEPT !.step = "upsert", !.held = finer]
  BY DEF Gathers
<1> HIDE DEF finer
<1>5. x \in TickState
  BY <1>1, <1>2, <1>3, <1>4 DEF TickState
<1> QED BY <1>4, <1>5, TickStep DEF Gathers

LEMMA UpsertsTyped ==
  ASSUME LadderConstants, TypeOK, NEW m \in Maintainer, Upserts(m)
  PROVE  TypeOK'
<1> DEFINE x == [job[m] EXCEPT !.step = "mark", !.held = Empty]
<1>1. job[m] \in TickState /\ TierOf(m) \in Tier /\ TierOf(m) \in Coarse
  BY PromotingTyped DEF Upserts
<1>2. job[m].held \in Counts /\ Empty \in Counts
  BY <1>1 DEF TickState, Counts, Empty
<1>3. count' \in [Tier -> Counts]
  BY <1>1, <1>2, WrittenTyped DEF Upserts
<1>4. folded' \in [Coarse -> SUBSET SampleTime]
  BY <1>1, <1>2, CountedTyped DEF Upserts
<1>5. job' \in [Maintainer -> TickState]
  <2>1. x \in TickState
    BY <1>1, <1>2 DEF TickState
  <2>2. job' = [job EXCEPT ![m] = x]
    BY DEF Upserts
  <2> QED BY <2>1, <2>2 DEF TypeOK
<1> QED BY <1>3, <1>4, <1>5 DEF Upserts, TypeOK, time

LEMMA MarksTyped ==
  ASSUME LadderConstants, TypeOK, NEW m \in Maintainer, Marks(m), job[m].left > 0
  PROVE  TypeOK'
<1> DEFINE x == [job[m] EXCEPT !.step = "seek", !.search = TargetEnd(m), !.left = @ - 1]
<1>1. job[m] \in TickState /\ TierOf(m) \in Tier /\ TierOf(m) \in Coarse
  BY PromotingTyped DEF Marks
<1>2. TargetEnd(m) \in Nat
  BY <1>1, TargetEndNat
<1>3. job[m].left - 1 \in 0..MaxPromotions
  <2>1. job[m].left \in 0..MaxPromotions
    BY <1>1 DEF TickState
  <2> QED BY <2>1 DEF LadderConstants
<1>4. wm' \in [Coarse -> Nat]
  BY <1>1, <1>2 DEF Marks, TypeOK
<1>5. job' \in [Maintainer -> TickState]
  <2>1. x \in TickState
    BY <1>1, <1>2, <1>3 DEF TickState
  <2>2. job' = [job EXCEPT ![m] = x]
    BY DEF Marks
  <2> QED BY <2>1, <2>2 DEF TypeOK
<1> QED BY <1>4, <1>5 DEF Marks, TypeOK, time

LEMMA PrunesTyped ==
  ASSUME LadderConstants, TypeOK, NEW m \in Maintainer, Prunes(m)
  PROVE  TypeOK'
<1>1. job[m].stage > 0 /\ TierOf(m) \in Tier /\ Empty \in Counts
  BY TierOfTyped DEF Prunes, In, Empty, Counts
<1>2. count' \in [Tier -> Counts]
  BY <1>1, WrittenTyped DEF Prunes
<1>3. job' \in [Maintainer -> TickState]
  <2>1. AfterStage(m) \in TickState
    BY <1>1, AfterStageStep
  <2> QED BY <2>1 DEF Prunes, TypeOK
<1> QED BY <1>2, <1>3 DEF Prunes, TypeOK, time

LEMMA StatementFailsTyped ==
  ASSUME LadderConstants, TypeOK, NEW m \in Maintainer, StatementFails(m)
  PROVE  TypeOK'
<1>1. job[m] \in TickState /\ AfterStage(m) \in TickState
  BY AfterStageStep DEF StatementFails, TypeOK
<1>2. PICK x : /\ job' = [job EXCEPT ![m] = x]
               /\ \/ x = [job[m] EXCEPT !.step = "from"]
                  \/ x = AfterStage(m)
  BY DEF StatementFails
<1>3. x \in TickState
  BY <1>1, <1>2 DEF TickState
<1> QED BY <1>2, <1>3, TickStep DEF StatementFails

LEMMA TickEndsTyped ==
  ASSUME LadderConstants, TypeOK, NEW m \in Maintainer, TickEnds(m)
  PROVE  TypeOK'
BY NoTickTyped, TickStep DEF TickEnds
LEMMA TickTyped ==
  ASSUME LadderConstants, TypeOK, LeftOK, NEW m \in Maintainer, Tick(m)
  PROVE  TypeOK'
<1>1. CASE Marks(m)
  <2>1. job[m].left > 0
    BY <1>1 DEF LeftOK, Begun, Marks, Promoting
  <2> QED BY <1>1, <2>1, MarksTyped
<1> QED
  BY <1>1, TickBeginsTyped, ReadsClockTyped, SyncsFlagTyped, ReadsAuthorityTyped,
     SkipsStageTyped, ReadsLimitTyped, ReadsWatermarkTyped, SeeksTyped, GathersTyped,
     UpsertsTyped, PrunesTyped, StatementFailsTyped, TickEndsTyped DEF Tick

-----------------------------------------------------------------------------
(* The bound of a tick's promotions.                                       *)
LEMMA LeftStep ==
  ASSUME TypeOK, LeftOK, NEW m \in Maintainer, NEW x,
         job' = [job EXCEPT ![m] = x], x.step \in Begun => x.left > 0
  PROVE  LeftOK'
<1> SUFFICES ASSUME NEW n \in Maintainer, job'[n].step \in Begun
             PROVE  job'[n].left > 0
  BY DEF LeftOK, Begun
<1>1. CASE n = m
  <2>1. job'[n] = x
    BY <1>1 DEF TypeOK
  <2> QED BY <2>1
<1>2. CASE n # m
  <2>1. job'[n] = job[n]
    BY <1>2 DEF TypeOK
  <2> QED BY <2>1 DEF LeftOK, Begun
<1> QED BY <1>1, <1>2

LEMMA AfterStageBegun ==
  ASSUME NEW m \in Maintainer, job[m] \in TickState
  PROVE  AfterStage(m).step \notin Begun
BY DEF AfterStage, NoTick, Begun, TickState

LEMMA TickLeft ==
  ASSUME LadderConstants, TypeOK, LeftOK, NEW m \in Maintainer, Tick(m)
  PROVE  LeftOK'
<1>1. job[m] \in TickState
  BY DEF TypeOK
<1>2. AfterStage(m).step \notin Begun
  BY <1>1, AfterStageBegun
<1>3. CASE TickBegins(m)
  <2> DEFINE x == [job[m] EXCEPT !.stage = 1, !.step = "now", !.cfg = settings]
  <2>1. job' = [job EXCEPT ![m] = x] /\ x.step \notin Begun
    BY <1>1, <1>3 DEF TickBegins, Begun, TickState
  <2> QED BY <2>1, LeftStep
<1>4. CASE ReadsClock(m)
  <2> DEFINE x == [job[m] EXCEPT !.step = "go", !.now = clock]
  <2>1. job' = [job EXCEPT ![m] = x] /\ x.step \notin Begun
    BY <1>1, <1>4 DEF ReadsClock, Begun, TickState
  <2> QED BY <2>1, LeftStep
<1>5. CASE SyncsFlag(m) \/ SkipsStage(m) \/ Prunes(m)
  <2>1. job' = [job EXCEPT ![m] = AfterStage(m)]
    BY <1>5 DEF SyncsFlag, SkipsStage, Prunes
  <2> QED BY <1>2, <2>1, LeftStep
<1>6. CASE ReadsAuthority(m)
  <2> DEFINE x == [AfterStage(m) EXCEPT !.authority[TierOf(m)] = wm[TierOf(m)]]
  <2>1. job' = [job EXCEPT ![m] = x]
    BY <1>6 DEF ReadsAuthority
  <2>2. AfterStage(m) \in TickState
    BY <1>6, AfterStageStep DEF ReadsAuthority, In
  <2>3. x.step = AfterStage(m).step
    BY <2>2 DEF TickState
  <2> QED BY <1>2, <2>1, <2>3, LeftStep
<1>7. CASE ReadsLimit(m)
  <2> DEFINE x == [job[m] EXCEPT !.step = "from", !.limit = {wm[3]} \ {0}]
  <2>1. job' = [job EXCEPT ![m] = x] /\ x.step \notin Begun
    BY <1>1, <1>7 DEF ReadsLimit, Begun, TickState
  <2> QED BY <2>1, LeftStep
<1>8. CASE ReadsWatermark(m)
  <2> DEFINE x == [job[m] EXCEPT !.step = "seek", !.search = wm[TierOf(m)],
                                 !.left = MaxPromotions]
  <2>1. job' = [job EXCEPT ![m] = x] /\ x.step \notin Begun
    BY <1>1, <1>8 DEF ReadsWatermark, Begun, TickState
  <2> QED BY <2>1, LeftStep
<1>9. CASE Seeks(m)
  <2>1. PICK x : /\ job' = [job EXCEPT ![m] = x]
                 /\ \/ x = AfterStage(m)
                    \/ \E start : /\ job[m].left > 0
                                  /\ x = [job[m] EXCEPT !.step = "gather", !.start = start]
    BY <1>9 DEF Seeks
  <2>2. CASE x = AfterStage(m)
    BY <1>2, <2>1, <2>2, LeftStep
  <2>3. CASE x.left > 0
    BY <2>1, <2>3, LeftStep
  <2>4. x = AfterStage(m) \/ x.left > 0
    BY <1>1, <2>1 DEF TickState
  <2> QED BY <2>2, <2>3, <2>4
<1>10. CASE Gathers(m) \/ Upserts(m)
  <2>1. PICK x : /\ job' = [job EXCEPT ![m] = x]
                 /\ \/ \E n : x = [job[m] EXCEPT !.step = "seek", !.search = n]
                    \/ \E h : x = [job[m] EXCEPT !.step = "upsert", !.held = h]
                    \/ x = [job[m] EXCEPT !.step = "mark", !.held = Empty]
    <3>1. CASE Gathers(m)
      BY <3>1 DEF Gathers
    <3>2. CASE Upserts(m)
      BY <3>2 DEF Upserts
    <3> QED BY <1>10, <3>1, <3>2
  <2>2. x.left = job[m].left
    BY <1>1, <2>1 DEF TickState
  <2>3. job[m].left > 0
    BY <1>10 DEF Gathers, Upserts, Promoting, LeftOK, Begun
  <2> QED BY <2>1, <2>2, <2>3, LeftStep
<1>11. CASE Marks(m)
  <2> DEFINE x == [job[m] EXCEPT !.step = "seek", !.search = TargetEnd(m), !.left = @ - 1]
  <2>1. job' = [job EXCEPT ![m] = x] /\ x.step \notin Begun
    BY <1>1, <1>11 DEF Marks, Begun, TickState
  <2> QED BY <2>1, LeftStep
<1>12. CASE StatementFails(m)
  <2>1. PICK x : /\ job' = [job EXCEPT ![m] = x]
                 /\ x = [job[m] EXCEPT !.step = "from"] \/ x = AfterStage(m)
    BY <1>12 DEF StatementFails
  <2>2. x.step \notin Begun
    BY <1>1, <1>2, <2>1 DEF Begun, TickState
  <2> QED BY <2>1, <2>2, LeftStep
<1>13. CASE TickEnds(m)
  BY <1>13, LeftStep DEF TickEnds, NoTick, Begun
<1> QED
  BY <1>3, <1>4, <1>5, <1>6, <1>7, <1>8, <1>9, <1>10, <1>11, <1>12, <1>13 DEF Tick

-----------------------------------------------------------------------------
(* The inductive invariant.                                                *)
IInv == TypeOK /\ LeftOK

LEMMA InitIInv == LadderConstants /\ Init => IInv
<1> SUFFICES ASSUME LadderConstants, Init PROVE IInv
  OBVIOUS
<1>1. Empty \in Counts
  BY DEF Empty, Counts
<1>2. settings.on \in SUBSET Coarse
  BY DEF Init, LadderConstants
<1>3. job \in [Maintainer -> TickState]
  BY NoTickTyped DEF Init
<1>4. writer \in InsertState /\ writer.pc = "idle"
  BY IdleTyped DEF Init, Idle
<1>5. 0 \in 0..MaxClockSets
  BY DEF LadderConstants
<1>6. TypeOK
  BY <1>1, <1>2, <1>3, <1>4, <1>5 DEF TypeOK, Init
<1>7. LeftOK
  BY DEF LeftOK, Begun, Init, NoTick
<1> QED BY <1>6, <1>7 DEF IInv

LEMMA StepIInv == LadderConstants /\ IInv /\ [Next]_vars => IInv'
<1> SUFFICES ASSUME LadderConstants, IInv, [Next]_vars PROVE IInv'
  OBVIOUS
<1> USE DEF IInv
<1>1. CASE Insert
  <2>1. job' = job
    BY <1>1 DEF Insert, InsertBegins, InsertsRaw, Measures, Rebuilds, WritesMinute, LooksBehind,
                LooksAtFlags, ReadsSource, ReadsTarget, WritesAncestor, InsertEnds
  <2> QED BY <1>1, <2>1, InsertTyped DEF LeftOK
<1>2. ASSUME NEW m \in Maintainer, Tick(m)
      PROVE  IInv'
  BY <1>2, TickTyped, TickLeft
<1>3. ASSUME NEW l \in Ladders, SavesSettings(l)
      PROVE  IInv'
  <2>1. l.on \in SUBSET Coarse
    BY DEF LadderConstants
  <2> QED BY <1>3, <2>1 DEF SavesSettings, TypeOK, LeftOK, time
<1>4. CASE ClockTicks
  <2>1. clock' \in Instant
    BY <1>4 DEF ClockTicks
  <2> QED BY <1>4, <2>1 DEF ClockTicks, TypeOK, LeftOK, tables
<1>5. ASSUME NEW t \in Instant, ClockIsSet(t)
      PROVE  IInv'
  <2>1. clockSets' \in 0..MaxClockSets
    <3>1. clockSets \in 0..MaxClockSets /\ MaxClockSets \in Nat
      BY DEF TypeOK, LadderConstants
    <3>2. clockSets < MaxClockSets /\ clockSets' = clockSets + 1
      BY <1>5 DEF ClockIsSet
    <3> QED BY <3>1, <3>2
  <2> QED BY <1>5, <2>1 DEF ClockIsSet, TypeOK, LeftOK, tables
<1>6. CASE UNCHANGED vars
  BY <1>6 DEF vars, TypeOK, LeftOK
<1> QED BY <1>1, <1>2, <1>3, <1>4, <1>5, <1>6 DEF Next

(* Type correctness of inserts, ticks, saves and the clock, however they   *)
(* interleave: in particular a tick never counts more promotions than its  *)
(* bound, MAX_PROMOTIONS_PER_TICK of maintenance::promote.                 *)
THEOREM TypeCorrect == Spec => []TypeOK
<1>1. Init => IInv
  BY LadderConstants, InitIInv
<1>2. IInv /\ [Next]_vars => IInv'
  BY LadderConstants, StepIInv
<1>3. IInv => TypeOK
  BY DEF IInv
<1> QED BY <1>1, <1>2, <1>3, PTL DEF Spec

-----------------------------------------------------------------------------
(* What follows is about inserts, ticks and saves that do not overlap, as  *)
(* in the collection loop of a daemon that serves no request: for all      *)
(* instants, resolutions and ladders, inserts and ticks that stop at any   *)
(* statement and clocks set at any time.                                   *)

-----------------------------------------------------------------------------
(* Buckets partition time.                                                 *)
LEMMA DivBound ==
  ASSUME NEW a \in Nat, NEW r \in Nat, r > 0
  PROVE  a \div r \in Nat /\ (a \div r) * r <= a /\ a < (a \div r) * r + r
OBVIOUS

LEMMA DivMono ==
  ASSUME NEW a \in Nat, NEW q \in Nat, NEW r \in Nat, r > 0, a >= q * r
  PROVE  (a \div r) * r >= q * r
<1> DEFINE d == a \div r
<1>1. d \in Nat /\ a < d * r + r
  BY DivBound
<1> HIDE DEF d
<1>2. d >= q
  <2> SUFFICES ASSUME d + 1 <= q PROVE FALSE
    BY <1>1
  <2>1. PICK e \in Nat : q = d + 1 + e
    <3>1. q - (d + 1) \in Nat /\ q = d + 1 + (q - (d + 1))
      BY <1>1
    <3> QED BY <3>1
  <2>2. q * r = d * r + r + e * r /\ e * r \in Nat
    BY <1>1, <2>1
  <2> QED BY <1>1, <2>2
<1>3. d * r >= q * r
  <2>1. PICK e \in Nat : d = q + e
    <3>1. d - q \in Nat /\ d = q + (d - q)
      BY <1>1, <1>2
    <3> QED BY <3>1
  <2>2. d * r = q * r + e * r /\ e * r \in Nat
    BY <2>1
  <2> QED BY <1>1, <2>2
<1> QED BY <1>3 DEF d

LEMMA DivUnique ==
  ASSUME NEW a \in Nat, NEW q \in Nat, NEW r \in Nat, r > 0, q * r <= a, a < q * r + r
  PROVE  (a \div r) * r = q * r
<1> DEFINE d == a \div r
<1>1. d \in Nat /\ d * r <= a /\ d * r >= q * r
  BY DivBound, DivMono
<1> HIDE DEF d
<1>2. d <= q
  <2> SUFFICES ASSUME q + 1 <= d PROVE FALSE
    BY <1>1
  <2>1. PICK e \in Nat : d = q + 1 + e
    <3>1. d - (q + 1) \in Nat /\ d = q + 1 + (d - (q + 1))
      BY <1>1
    <3> QED BY <3>1
  <2>2. d * r = q * r + r + e * r /\ e * r \in Nat
    BY <2>1
  <2> QED BY <1>1, <2>2
<1>3. q * r >= d * r
  <2>1. PICK e \in Nat : q = d + e
    <3>1. q - d \in Nat /\ q = d + (q - d)
      BY <1>1, <1>2
    <3> QED BY <3>1
  <2>2. q * r = d * r + e * r /\ e * r \in Nat
    BY <1>1, <2>1
  <2> QED BY <1>1, <2>2
<1>4. d * r \in Nat /\ q * r \in Nat
  BY <1>1
<1> QED BY <1>1, <1>3, <1>4 DEF d

LEMMA ResNat ==
  ASSUME LadderConstants, NEW k \in Tier
  PROVE  Res[k] \in Nat /\ Res[k] > 0
BY DEF LadderConstants

LEMMA SampleNat == LadderConstants => SampleTime \subseteq Nat
BY DEF LadderConstants

(* A sample lies in its own bucket.                                        *)
LEMMA InBucket ==
  ASSUME LadderConstants, NEW k \in Tier, NEW t \in SampleTime
  PROVE  t \in Bucket(k, t)
<1> DEFINE r == Res[k]
<1>1. r \in Nat /\ r > 0 /\ t \in Nat
  BY ResNat, SampleNat
<1>2. (t \div r) * r <= t /\ t < (t \div r) * r + r
  <2> HIDE DEF r
  <2> QED BY <1>1, DivBound
<1> QED BY <1>2 DEF Bucket, Within, BucketStart, BucketEnd

(* The samples of an aligned range are the bucket of each of them.         *)
LEMMA AlignedRange ==
  ASSUME LadderConstants, NEW k \in Tier, NEW q \in Nat, NEW t \in SampleTime,
         t \in Within(q * Res[k], q * Res[k] + Res[k])
  PROVE  Bucket(k, t) = Within(q * Res[k], q * Res[k] + Res[k])
<1> DEFINE r == Res[k]
<1>1. r \in Nat /\ r > 0 /\ t \in Nat /\ q * r <= t /\ t < q * r + r
  BY ResNat, SampleNat DEF Within
<1>2. (t \div r) * r = q * r
  <2> HIDE DEF r
  <2> QED BY <1>1, DivUnique
<1> QED BY <1>2 DEF Bucket, BucketStart, BucketEnd

LEMMA BucketAligned ==
  ASSUME LadderConstants, NEW k \in Tier, NEW t \in Nat
  PROVE  \E q \in Nat : /\ BucketStart(k, t) = q * Res[k]
                        /\ Bucket(k, t) = Within(q * Res[k], q * Res[k] + Res[k])
<1>1. t \div Res[k] \in Nat
  BY ResNat, DivBound
<1> QED BY <1>1 DEF BucketStart, BucketEnd, Bucket

LEMMA SameBucket ==
  ASSUME LadderConstants, NEW k \in Tier, NEW a \in SampleTime, NEW t \in Bucket(k, a)
  PROVE  t \in SampleTime /\ Bucket(k, t) = Bucket(k, a)
<1>1. a \in Nat /\ t \in SampleTime
  BY SampleNat DEF Bucket, Within
<1>2. PICK q \in Nat : Bucket(k, a) = Within(q * Res[k], q * Res[k] + Res[k])
  BY <1>1, BucketAligned
<1> QED BY <1>1, <1>2, AlignedRange

-----------------------------------------------------------------------------
(* The inductive invariant.  One operation runs at a time.                 *)
Alone ==
  /\ writer # Idle => \A m \in Maintainer : job[m] = NoTick
  /\ \A m, n \in Maintainer : job[m] # NoTick /\ job[n] # NoTick => m = n

(* What is counted was stored, and once; flags follow the saved settings;  *)
(* watermarks stand at bucket boundaries.                                  *)
TablesOK ==
  /\ \A k \in Tier : \A t \in SampleTime :
       count[k][t] <= 1 /\ (count[k][t] > 0 => t \in stored)
  /\ enabled = settings.on
  /\ \A k \in Coarse : \E q \in Nat : wm[k] = q * Res[k]

(* An insert holds a sample at most once, and what it is about to write is *)
(* a row.  A new sample is counted by no tier the insert has yet to write. *)
WriterFlags ==
  /\ writer.on \subseteq settings.on
  /\ writer.pc \in {"target", "write"} => writer.tier \in writer.on

WriterHeld ==
  /\ \A t \in SampleTime : writer.held[t] <= 1 /\ (writer.held[t] > 0 => t \in stored)
  /\ writer.pc \notin {"idle", "raw"} => writer.at \in stored
  /\ writer.pc \in {"measure", "rebuild"} => count[1][writer.at] > 0
  /\ writer.pc = "minute" => writer.held[writer.at] > 0
  /\ writer.pc = "write" => \E u \in Bucket(writer.tier, writer.at) : writer.held[u] > 0

WriterNew ==
  /\ writer.pc = "target" => writer.new
  /\ writer.new /\ writer.pc = "raw" => writer.at \notin stored
  /\ writer.new /\ writer.pc \in {"measure", "rebuild", "minute"} =>
       \A k \in {2, 3, 4} : count[k][writer.at] = 0
  /\ writer.new /\ writer.pc \in {"look", "flags"} =>
       \A k \in Coarse : count[k][writer.at] = 0
  /\ writer.new /\ writer.pc \in {"source", "target", "write"} =>
       \A k \in Coarse : k >= writer.tier => count[k][writer.at] = 0

WriterInv == WriterFlags /\ WriterHeld /\ WriterNew

(* A tick acts on the saved settings, prunes by watermarks that still      *)
(* hold, and promotes from its watermark on.                               *)
TickInv(m) ==
  /\ job[m] # NoTick => job[m].cfg = settings
  /\ \A t \in SampleTime : job[m].held[t] <= 1 /\ (job[m].held[t] > 0 => t \in stored)
  /\ \A c \in Coarse : job[m].authority[c] <= wm[c]
  /\ In(m, "promote") /\ job[m].step = "seek" => job[m].search >= wm[TierOf(m)]
  /\ In(m, "promote") /\ job[m].step \in Begun =>
       /\ job[m].start >= wm[TierOf(m)]
       /\ \E q \in Nat : job[m].start = q * Res[TierOf(m)]
  /\ In(m, "promote") /\ job[m].step = "upsert" =>
       \E u \in Within(job[m].start, TargetEnd(m)) : job[m].held[u] > 0

LoopInv == IInv /\ Alone /\ TablesOK /\ WriterInv /\ \A m \in Maintainer : TickInv(m)

-----------------------------------------------------------------------------
(* The steps of an insert.                                                 *)

LEMMA InsertAlone ==
  ASSUME LadderConstants, ~Overlap, LoopInv, Insert
  PROVE  /\ \A m \in Maintainer : job[m] = NoTick
         /\ UNCHANGED <<job, settings, enabled, wm>>
<1>1. UNCHANGED <<job, settings, enabled, wm>>
  BY DEF Insert, InsertBegins, InsertsRaw, Measures, Rebuilds, WritesMinute, LooksBehind,
         LooksAtFlags, ReadsSource, ReadsTarget, WritesAncestor, InsertEnds, tables
<1>2. CASE \E t \in SampleTime : InsertBegins(t)
  BY <1>1, <1>2 DEF InsertBegins, MayRun, Quiet
<1>3. CASE writer # Idle
  BY <1>1, <1>3 DEF LoopInv, Alone
<1>4. writer # Idle \/ \E t \in SampleTime : InsertBegins(t)
  BY DEF Insert, InsertsRaw, Measures, Rebuilds, WritesMinute, LooksBehind,
         LooksAtFlags, ReadsSource, ReadsTarget, WritesAncestor, InsertEnds, Idle
<1> QED BY <1>2, <1>3, <1>4

LEMMA ReadOnce ==
  ASSUME TypeOK, TablesOK, NEW k \in Tier, NEW S, NEW t \in SampleTime
  PROVE  /\ Read(k, S)[t] <= 1
         /\ Read(k, S)[t] > 0 => t \in stored /\ t \in S
         /\ t \in S => Read(k, S)[t] = count[k][t]
BY DEF Read, TablesOK

(* A sample that is merged was not counted by that tier.                   *)
LEMMA PlusOnce ==
  ASSUME TypeOK, TablesOK, NEW k \in Tier, NEW S, NEW a \in SampleTime,
         a \in stored, count[k][a] = 0, NEW t \in SampleTime
  PROVE  /\ Plus(Read(k, S), a)[t] <= 1
         /\ Plus(Read(k, S), a)[t] > 0 => t \in stored
         /\ Plus(Read(k, S), a)[a] = 1
<1>1. Read(k, S) \in Counts
  BY ReadTyped
<1>2. Read(k, S)[a] = 0
  BY DEF Read
<1>3. Read(k, S)[t] <= 1 /\ (Read(k, S)[t] > 0 => t \in stored)
  BY ReadOnce
<1> HIDE DEF Read
<1> QED BY <1>1, <1>2, <1>3 DEF Plus, Counts

LEMMA WrittenAt ==
  ASSUME TypeOK, NEW k \in Tier, NEW S, NEW c \in Counts,
         NEW j \in Tier, NEW t \in SampleTime
  PROVE  Written(k, S, c)[j][t] = IF j = k /\ t \in S THEN c[t] ELSE count[j][t]
BY DEF TypeOK, Written, Counts

(* Upserting counts that count once what is stored.                        *)
LEMMA WrittenOnce ==
  ASSUME TypeOK, TablesOK, NEW k \in Tier, NEW S, NEW c \in Counts,
         \A t \in SampleTime : c[t] <= 1 /\ (c[t] > 0 => t \in stored),
         count' = Written(k, S, c), UNCHANGED <<wm, enabled, settings, stored>>
  PROVE  TablesOK'
<1>1. \A j \in Tier : \A t \in SampleTime :
        count'[j][t] <= 1 /\ (count'[j][t] > 0 => t \in stored)
  BY WrittenAt DEF TablesOK
<1> QED BY <1>1 DEF TablesOK

LEMMA IdleInv ==
  ASSUME writer' = Idle
  PROVE  WriterInv'
BY DEF WriterInv, WriterFlags, WriterHeld, WriterNew, Idle, Empty

LEMMA BeginsInv ==
  ASSUME LadderConstants, ~Overlap, LoopInv, NEW t \in SampleTime, InsertBegins(t)
  PROVE  TablesOK' /\ WriterInv'
<1>1. TypeOK /\ TablesOK
  BY DEF LoopInv, IInv
<1>2. UNCHANGED <<count, wm, enabled, settings, stored>>
  BY DEF InsertBegins, tables
<1>3. TablesOK'
  BY <1>1, <1>2 DEF TablesOK
<1>4. /\ writer'.pc = "raw" /\ writer'.at = t /\ writer'.on = {} /\ writer'.held = Empty
      /\ writer'.new = (count[1][t] = 0)
  BY DEF InsertBegins, Idle
<1>5. writer'.new => t \notin stored
  <2>1. count[1][t] \in Nat
    BY <1>1 DEF TypeOK, Counts, Tier
  <2>2. t \in stored => count[1][t] > 0
    BY DEF InsertBegins
  <2> QED BY <1>4, <2>1, <2>2
<1>6. WriterFlags'
  BY <1>4 DEF WriterFlags
<1>7. WriterHeld'
  BY <1>4 DEF WriterHeld, Empty
<1>8. WriterNew'
  BY <1>2, <1>4, <1>5 DEF WriterNew
<1> QED BY <1>3, <1>6, <1>7, <1>8 DEF WriterInv

LEMMA InsertsRawInv ==
  ASSUME LadderConstants, ~Overlap, LoopInv, InsertsRaw
  PROVE  TablesOK' /\ WriterInv'
<1>1. TypeOK /\ TablesOK /\ WriterInv
  BY DEF LoopInv, IInv
<1>2. writer \in InsertState /\ writer.at \in SampleTime /\ writer.pc = "raw"
  BY <1>1 DEF TypeOK, InsertsRaw
<1>3. /\ UNCHANGED <<wm, enabled, settings>>
      /\ stored' = stored \cup {writer.at}
      /\ writer' = [writer EXCEPT !.pc = "measure"]
  BY DEF InsertsRaw
<1>4. /\ writer'.pc = "measure" /\ writer'.at = writer.at /\ writer'.on = writer.on
      /\ writer'.held = writer.held /\ writer'.new = writer.new
  BY <1>2, <1>3 DEF InsertState
<1>5. \A k \in Tier : \A t \in SampleTime :
        count'[k][t] = IF k = 1 /\ t = writer.at THEN 1 ELSE count[k][t]
  BY <1>1, <1>2 DEF InsertsRaw, TypeOK, Counts, Tier
<1>6. TablesOK'
  BY <1>1, <1>2, <1>3, <1>5 DEF TablesOK
<1>7. ASSUME writer.new, NEW k \in {2, 3, 4}
      PROVE  count'[k][writer.at] = 0
  <2>1. writer.at \notin stored
    BY <1>1, <1>2, <1>7 DEF WriterInv, WriterNew
  <2>2. k \in Tier /\ k # 1 /\ count[k][writer.at] \in Nat
    BY <1>1, <1>2 DEF Tier, TypeOK, Counts
  <2>3. ~(count[k][writer.at] > 0)
    BY <1>1, <1>2, <2>1, <2>2 DEF TablesOK
  <2>4. count'[k][writer.at] = count[k][writer.at]
    BY <1>2, <1>5, <2>2
  <2> QED BY <2>2, <2>3, <2>4
<1>8. count'[1][writer.at] > 0
  <2>1. 1 \in Tier
    BY DEF Tier
  <2>2. count'[1][writer.at] = 1
    BY <1>2, <1>5, <2>1
  <2> QED BY <2>2
<1>9. WriterFlags'
  BY <1>1, <1>3, <1>4 DEF WriterInv, WriterFlags
<1>10. WriterHeld'
  BY <1>1, <1>3, <1>4, <1>8 DEF WriterInv, WriterHeld
<1>11. WriterNew'
  BY <1>4, <1>7 DEF WriterNew
<1> QED BY <1>6, <1>9, <1>10, <1>11 DEF WriterInv

LEMMA MeasuresInv ==
  ASSUME LadderConstants, ~Overlap, LoopInv, Measures
  PROVE  TablesOK' /\ WriterInv'
<1> DEFINE S == Bucket(2, writer.at)
           merged == Plus(Read(2, S), writer.at)
<1>1. TypeOK /\ TablesOK /\ WriterInv
  BY DEF LoopInv, IInv
<1>2. writer \in InsertState /\ writer.at \in SampleTime /\ writer.pc = "measure"
  BY <1>1 DEF TypeOK, Measures
<1>3. UNCHANGED <<count, wm, enabled, settings, stored>>
  BY DEF Measures, tables
<1>4. TablesOK'
  BY <1>1, <1>3 DEF TablesOK
<1>5. writer.at \in stored
  BY <1>1, <1>2 DEF WriterInv, WriterHeld
<1>6. CASE writer' = Idle
  BY <1>4, <1>6, IdleInv
<1>7. CASE writer' = [writer EXCEPT !.pc = "rebuild"]
  <2>1. /\ writer'.pc = "rebuild" /\ writer'.at = writer.at /\ writer'.on = writer.on
        /\ writer'.held = writer.held /\ writer'.new = writer.new
    BY <1>2, <1>7 DEF InsertState
  <2>2. WriterFlags'
    BY <1>1, <1>3, <2>1 DEF WriterInv, WriterFlags
  <2>3. WriterHeld'
    BY <1>1, <1>2, <1>3, <2>1 DEF WriterInv, WriterHeld
  <2>4. WriterNew'
    BY <1>1, <1>2, <1>3, <2>1 DEF WriterInv, WriterNew
  <2> QED BY <1>4, <2>2, <2>3, <2>4 DEF WriterInv
<1>8. CASE writer.new /\ writer' = [writer EXCEPT !.pc = "minute", !.held = merged]
  <2>1. /\ writer'.pc = "minute" /\ writer'.at = writer.at /\ writer'.on = writer.on
        /\ writer'.held = merged /\ writer'.new = writer.new
    BY <1>2, <1>8 DEF InsertState
  <2>2. count[2][writer.at] = 0
    BY <1>1, <1>2, <1>8 DEF WriterInv, WriterNew
  <2>3. /\ \A t \in SampleTime : merged[t] <= 1 /\ (merged[t] > 0 => t \in stored)
        /\ merged[writer.at] = 1
    <3>1. 2 \in Tier
      BY DEF Tier
    <3>2. ASSUME NEW t \in SampleTime
          PROVE  merged[t] <= 1 /\ (merged[t] > 0 => t \in stored) /\ merged[writer.at] = 1
      <4> HIDE DEF S
      <4> QED BY <1>1, <1>2, <1>5, <2>2, <3>1, PlusOnce
    <3> QED BY <1>2, <3>2
  <2> HIDE DEF merged
  <2>4. WriterFlags'
    BY <1>1, <1>3, <2>1 DEF WriterInv, WriterFlags
  <2>5. WriterHeld'
    BY <1>3, <1>5, <2>1, <2>3 DEF WriterHeld
  <2>6. WriterNew'
    BY <1>1, <1>2, <1>3, <2>1 DEF WriterInv, WriterNew
  <2> QED BY <1>4, <2>4, <2>5, <2>6 DEF WriterInv
<1> QED BY <1>6, <1>7, <1>8 DEF Measures

LEMMA RebuildsInv ==
  ASSUME LadderConstants, ~Overlap, LoopInv, Rebuilds
  PROVE  TablesOK' /\ WriterInv'
<1> DEFINE S == Bucket(2, writer.at)
           raw == Read(1, S)
<1>1. TypeOK /\ TablesOK /\ WriterInv
  BY DEF LoopInv, IInv
<1>2. writer \in InsertState /\ writer.at \in SampleTime /\ writer.pc = "rebuild"
  BY <1>1 DEF TypeOK, Rebuilds
<1>3. UNCHANGED <<count, wm, enabled, settings, stored>>
  BY DEF Rebuilds, tables
<1>4. /\ writer'.pc = "minute" /\ writer'.at = writer.at /\ writer'.on = writer.on
      /\ writer'.held = raw /\ writer'.new = writer.new
  BY <1>2 DEF Rebuilds, InsertState
<1>5. \A t \in SampleTime : raw[t] <= 1 /\ (raw[t] > 0 => t \in stored)
  BY <1>1, ReadOnce DEF Tier
<1>6. raw[writer.at] > 0
  <2>1. 1 \in Tier /\ 2 \in Tier
    BY DEF Tier
  <2>2. writer.at \in S
    BY <1>2, <2>1, InBucket
  <2>3. count[1][writer.at] > 0
    BY <1>1, <1>2 DEF WriterInv, WriterHeld
  <2>4. raw[writer.at] = count[1][writer.at]
    BY <1>2, <2>2 DEF Read
  <2> QED BY <2>3, <2>4
<1> HIDE DEF raw
<1>7. TablesOK'
  BY <1>1, <1>3 DEF TablesOK
<1>8. WriterFlags'
  BY <1>1, <1>3, <1>4 DEF WriterInv, WriterFlags
<1>9. WriterHeld'
  BY <1>1, <1>2, <1>3, <1>4, <1>5, <1>6 DEF WriterInv, WriterHeld
<1>10. WriterNew'
  BY <1>1, <1>2, <1>3, <1>4 DEF WriterInv, WriterNew
<1> QED BY <1>7, <1>8, <1>9, <1>10 DEF WriterInv

LEMMA WritesMinuteInv ==
  ASSUME LadderConstants, ~Overlap, LoopInv, WritesMinute
  PROVE  TablesOK' /\ WriterInv'
<1>1. TypeOK /\ TablesOK /\ WriterInv
  BY DEF LoopInv, IInv
<1>2. writer \in InsertState /\ writer.at \in SampleTime /\ writer.pc = "minute"
  BY <1>1 DEF TypeOK, WritesMinute
<1>3. /\ count' = Written(2, Bucket(2, writer.at), writer.held)
      /\ UNCHANGED <<wm, enabled, settings, stored>>
  BY DEF WritesMinute
<1>4. /\ writer'.pc = "look" /\ writer'.at = writer.at /\ writer'.on = writer.on
      /\ writer'.held = Empty /\ writer'.new = writer.new
  BY <1>2 DEF WritesMinute, InsertState
<1>5. writer.held \in Counts
  BY <1>2 DEF InsertState
<1>6. TablesOK'
  <2>1. \A t \in SampleTime : writer.held[t] <= 1 /\ (writer.held[t] > 0 => t \in stored)
    BY <1>1 DEF WriterInv, WriterHeld
  <2> QED BY <1>1, <1>3, <1>5, <2>1, WrittenOnce DEF Tier
<1>7. WriterFlags'
  BY <1>1, <1>3, <1>4 DEF WriterInv, WriterFlags
<1>8. WriterHeld'
  BY <1>1, <1>2, <1>3, <1>4 DEF WriterInv, WriterHeld, Empty
<1>9. WriterNew'
  <2>1. ASSUME writer.new, NEW k \in Coarse
        PROVE  count'[k][writer.at] = 0
    <3>1. k \in Tier /\ k # 2 /\ k \in {2, 3, 4}
      BY DEF Coarse, Tier
    <3>2. count'[k][writer.at] = count[k][writer.at]
      <4>1. count'[k] = count[k]
        BY <1>1, <1>3, <3>1 DEF Written, TypeOK, Coarse, Tier
      <4> QED BY <4>1
    <3> QED BY <1>1, <1>2, <2>1, <3>1, <3>2 DEF WriterInv, WriterNew
  <2> QED BY <1>4, <2>1 DEF WriterNew
<1> QED BY <1>6, <1>7, <1>8, <1>9 DEF WriterInv

LEMMA LooksBehindInv ==
  ASSUME LadderConstants, ~Overlap, LoopInv, LooksBehind
  PROVE  TablesOK' /\ WriterInv'
<1>1. TypeOK /\ TablesOK /\ WriterInv
  BY DEF LoopInv, IInv
<1>2. writer \in InsertState /\ writer.pc = "look"
  BY <1>1 DEF TypeOK, LooksBehind
<1>3. UNCHANGED <<count, wm, enabled, settings, stored>>
  BY DEF LooksBehind, tables
<1>4. /\ writer'.pc \in {"look", "flags"} /\ writer'.at = writer.at /\ writer'.on = writer.on
      /\ writer'.held = writer.held /\ writer'.new = writer.new
  <2>1. PICK seen :
          writer' = [writer EXCEPT !.pc = IF writer.tier = 3 THEN "look" ELSE "flags",
                                   !.tier = IF writer.tier = 3 THEN 4 ELSE 3,
                                   !.behind = @ \cup seen]
    BY DEF LooksBehind
  <2> QED BY <1>2, <2>1 DEF InsertState
<1>5. TablesOK'
  BY <1>1, <1>3 DEF TablesOK
<1>6. WriterFlags'
  BY <1>1, <1>3, <1>4 DEF WriterInv, WriterFlags
<1>7. WriterHeld'
  BY <1>1, <1>2, <1>3, <1>4 DEF WriterInv, WriterHeld
<1>8. WriterNew'
  BY <1>1, <1>2, <1>3, <1>4 DEF WriterInv, WriterNew
<1> QED BY <1>5, <1>6, <1>7, <1>8 DEF WriterInv

LEMMA LooksAtFlagsInv ==
  ASSUME LadderConstants, ~Overlap, LoopInv, LooksAtFlags
  PROVE  TablesOK' /\ WriterInv'
<1>1. TypeOK /\ TablesOK /\ WriterInv
  BY DEF LoopInv, IInv
<1>2. writer \in InsertState /\ writer.pc = "flags"
  BY <1>1 DEF TypeOK, LooksAtFlags
<1>3. UNCHANGED <<count, wm, enabled, settings, stored>>
  BY DEF LooksAtFlags, tables
<1>4. /\ writer'.pc \in {"flags", "source"} /\ writer'.at = writer.at
      /\ writer'.on \subseteq writer.on \cup enabled
      /\ writer'.held = writer.held /\ writer'.new = writer.new
  <2>1. PICK found \in SUBSET enabled :
          writer' = [writer EXCEPT !.pc = IF writer.tier = 3 THEN "flags" ELSE "source",
                                   !.tier = IF writer.tier = 3 THEN 4 ELSE 3,
                                   !.on = @ \cup found]
    BY DEF LooksAtFlags
  <2> QED BY <1>2, <2>1 DEF InsertState
<1>5. TablesOK'
  BY <1>1, <1>3 DEF TablesOK
<1>6. WriterFlags'
  BY <1>1, <1>3, <1>4 DEF WriterInv, WriterFlags, TablesOK
<1>7. WriterHeld'
  BY <1>1, <1>2, <1>3, <1>4 DEF WriterInv, WriterHeld
<1>8. WriterNew'
  BY <1>1, <1>2, <1>3, <1>4 DEF WriterInv, WriterNew
<1> QED BY <1>5, <1>6, <1>7, <1>8 DEF WriterInv


(* An insert that is done with a tier, having written no coarser one.      *)
LEMMA RefoldedInv ==
  ASSUME LadderConstants, TypeOK, WriterInv, TablesOK,
         writer.pc \in {"source", "write"}, writer' = Refolded,
         UNCHANGED <<settings, stored>>,
         \A k \in Coarse : k # writer.tier => count'[k] = count[k]
  PROVE  WriterInv'
<1>1. writer \in InsertState /\ writer.at \in SampleTime
  BY DEF TypeOK
<1>2. CASE writer.tier = 3
  <2>1. /\ writer'.pc = "source" /\ writer'.at = writer.at /\ writer'.on = writer.on
        /\ writer'.held = Empty /\ writer'.new = writer.new /\ writer'.tier = 4
    BY <1>1, <1>2 DEF InsertState, Refolded
  <2>2. WriterFlags'
    BY <2>1 DEF WriterInv, WriterFlags
  <2>3. WriterHeld'
    BY <2>1 DEF WriterInv, WriterHeld, Empty
  <2>4. ASSUME writer.new
        PROVE  count'[4][writer.at] = 0
    <3>1. 4 \in Coarse /\ 4 >= writer.tier /\ 4 # writer.tier
      BY <1>2 DEF Coarse
    <3>2. count[4][writer.at] = 0
      BY <2>4, <3>1 DEF WriterInv, WriterNew
    <3> QED BY <3>1, <3>2
  <2>5. WriterNew'
    BY <2>1, <2>4 DEF WriterNew, Coarse
  <2> QED BY <2>2, <2>3, <2>5 DEF WriterInv
<1>3. CASE writer.tier # 3
  BY <1>3, IdleInv DEF Refolded
<1> QED BY <1>2, <1>3

LEMMA ReadsSourceInv ==
  ASSUME LadderConstants, ~Overlap, LoopInv, ReadsSource
  PROVE  TablesOK' /\ WriterInv'
<1> DEFINE source == Source(writer.tier, writer.on)
           S == Bucket(writer.tier, writer.at)
           finer == Read(source, S)
<1>1. TypeOK /\ TablesOK /\ WriterInv
  BY DEF LoopInv, IInv
<1>2. writer \in InsertState /\ writer.at \in SampleTime /\ writer.pc = "source"
  BY <1>1 DEF TypeOK, ReadsSource
<1>3. UNCHANGED <<count, wm, enabled, settings, stored>>
  BY DEF ReadsSource, tables
<1>4. source \in Tier
  BY DEF Source, Tier
<1>5. TablesOK'
  BY <1>1, <1>3 DEF TablesOK
<1>6. \/ writer' = Refolded
      \/ /\ writer.tier \in writer.on /\ finer # Empty
         /\ writer' = [writer EXCEPT !.pc = "write", !.held = finer]
      \/ /\ writer.tier \in writer.on /\ writer.new
         /\ writer' = [writer EXCEPT !.pc = "target"]
  BY DEF ReadsSource
<1>7. CASE writer' = Refolded
  BY <1>1, <1>2, <1>3, <1>5, <1>7, RefoldedInv
<1>8. ASSUME writer.tier \in writer.on, finer # Empty,
             writer' = [writer EXCEPT !.pc = "write", !.held = finer]
      PROVE  WriterInv'
  <2>1. finer \in Counts
    BY <1>1, <1>4, ReadTyped
  <2>2. \A t \in SampleTime : /\ finer[t] <= 1
                              /\ finer[t] > 0 => t \in stored /\ t \in S
    <3> HIDE DEF source, S
    <3> QED BY <1>1, <1>4, ReadOnce
  <2> HIDE DEF finer
  <2>3. PICK u \in SampleTime : finer[u] # 0
    BY <1>8, <2>1 DEF Counts, Empty
  <2>4. finer[u] > 0 /\ u \in S
    <3>1. finer[u] \in Nat
      BY <2>1 DEF Counts
    <3> QED BY <2>2, <2>3, <3>1
  <2>5. /\ writer'.pc = "write" /\ writer'.at = writer.at /\ writer'.on = writer.on
        /\ writer'.held = finer /\ writer'.new = writer.new /\ writer'.tier = writer.tier
    BY <1>2, <1>8 DEF InsertState
  <2>6. WriterFlags'
    BY <1>1, <1>3, <1>8, <2>5 DEF WriterInv, WriterFlags
  <2>7. \E v \in Bucket(writer.tier, writer.at) : finer[v] > 0
    BY <2>4
  <2>8. WriterHeld'
    BY <1>1, <1>2, <1>3, <2>2, <2>5, <2>7 DEF WriterInv, WriterHeld, Bucket, Within, BucketStart,
                                       BucketEnd
  <2>9. WriterNew'
    BY <1>1, <1>2, <1>3, <2>5 DEF WriterInv, WriterNew
  <2> QED BY <2>6, <2>8, <2>9 DEF WriterInv
<1>9. ASSUME writer.tier \in writer.on, writer.new, writer' = [writer EXCEPT !.pc = "target"]
      PROVE  WriterInv'
  <2>1. /\ writer'.pc = "target" /\ writer'.at = writer.at /\ writer'.on = writer.on
        /\ writer'.held = writer.held /\ writer'.new = writer.new /\ writer'.tier = writer.tier
    BY <1>2, <1>9 DEF InsertState
  <2>2. WriterFlags'
    BY <1>1, <1>3, <1>9, <2>1 DEF WriterInv, WriterFlags
  <2>3. WriterHeld'
    BY <1>1, <1>2, <1>3, <2>1 DEF WriterInv, WriterHeld
  <2>4. WriterNew'
    BY <1>1, <1>2, <1>3, <1>9, <2>1 DEF WriterInv, WriterNew
  <2> QED BY <2>2, <2>3, <2>4 DEF WriterInv
<1> HIDE DEF finer
<1> QED BY <1>5, <1>6, <1>7, <1>8, <1>9

LEMMA ReadsTargetInv ==
  ASSUME LadderConstants, ~Overlap, LoopInv, ReadsTarget
  PROVE  TablesOK' /\ WriterInv'
<1> DEFINE k == writer.tier
           S == Bucket(k, writer.at)
           merged == Plus(Read(k, S), writer.at)
<1>1. TypeOK /\ TablesOK /\ WriterInv
  BY DEF LoopInv, IInv
<1>2. writer \in InsertState /\ writer.at \in SampleTime /\ writer.pc = "target"
  BY <1>1 DEF TypeOK, ReadsTarget
<1>3. k \in Coarse /\ k \in Tier /\ k >= k
  BY <1>2 DEF InsertState, Coarse, Tier
<1>4. UNCHANGED <<count, wm, enabled, settings, stored>>
  BY DEF ReadsTarget, tables
<1>5. TablesOK'
  BY <1>1, <1>4 DEF TablesOK
<1>6. writer.at \in stored /\ writer.new /\ k \in writer.on
  BY <1>1, <1>2 DEF WriterInv, WriterHeld, WriterNew, WriterFlags
<1>7. count[k][writer.at] = 0
  BY <1>1, <1>2, <1>3, <1>6 DEF WriterInv, WriterNew
<1>8. /\ \A t \in SampleTime : merged[t] <= 1 /\ (merged[t] > 0 => t \in stored)
      /\ merged[writer.at] > 0
  <2>1. ASSUME NEW t \in SampleTime
        PROVE  merged[t] <= 1 /\ (merged[t] > 0 => t \in stored)
    <3> HIDE DEF S, k
    <3> QED BY <1>1, <1>2, <1>3, <1>6, <1>7, PlusOnce
  <2>2. merged[writer.at] = 1
    <3> HIDE DEF S, k
    <3> QED BY <1>1, <1>2, <1>3, <1>6, <1>7, PlusOnce
  <2>3. merged[writer.at] > 0
    <3> HIDE DEF merged
    <3> QED BY <2>2
  <2> QED BY <2>1, <2>3
<1>9. writer.at \in Bucket(writer.tier, writer.at)
  BY <1>2, <1>3, InBucket
<1>10. /\ writer'.pc = "write" /\ writer'.at = writer.at /\ writer'.on = writer.on
       /\ writer'.held = merged /\ writer'.new = writer.new /\ writer'.tier = writer.tier
  BY <1>2 DEF ReadsTarget, InsertState
<1> HIDE DEF merged
<1>11. WriterFlags'
  BY <1>1, <1>4, <1>6, <1>10 DEF WriterInv, WriterFlags
<1>12. WriterHeld'
  BY <1>4, <1>6, <1>8, <1>9, <1>10 DEF WriterHeld, Bucket, Within, BucketStart, BucketEnd
<1>13. WriterNew'
  BY <1>1, <1>2, <1>4, <1>10 DEF WriterInv, WriterNew
<1> QED BY <1>5, <1>11, <1>12, <1>13 DEF WriterInv

LEMMA WritesAncestorInv ==
  ASSUME LadderConstants, ~Overlap, LoopInv, WritesAncestor
  PROVE  TablesOK' /\ WriterInv'
<1> DEFINE k == writer.tier
           S == Bucket(k, writer.at)
<1>1. TypeOK /\ TablesOK /\ WriterInv
  BY DEF LoopInv, IInv
<1>2. writer \in InsertState /\ writer.pc = "write"
  BY <1>1 DEF TypeOK, WritesAncestor
<1>3. k \in Tier /\ writer.held \in Counts
  BY <1>2 DEF InsertState, Coarse, Tier
<1>4. /\ count' = Written(k, S, writer.held) /\ writer' = Refolded
      /\ UNCHANGED <<wm, enabled, settings, stored>>
  BY DEF WritesAncestor
<1>5. \A t \in SampleTime : writer.held[t] <= 1 /\ (writer.held[t] > 0 => t \in stored)
  BY <1>1 DEF WriterInv, WriterHeld
<1>6. TablesOK'
  <2> HIDE DEF S, k
  <2> QED BY <1>1, <1>3, <1>4, <1>5, WrittenOnce
<1>7. \A j \in Coarse : j # k => count'[j] = count[j]
  BY <1>1, <1>4 DEF Written, TypeOK, Coarse, Tier
<1>8. WriterInv'
  BY <1>1, <1>2, <1>4, <1>7, RefoldedInv
<1> QED BY <1>6, <1>8

LEMMA InsertEndsInv ==
  ASSUME LoopInv, InsertEnds
  PROVE  TablesOK' /\ WriterInv'
<1>1. TablesOK'
  BY DEF LoopInv, InsertEnds, tables, TablesOK
<1>2. WriterInv'
  BY IdleInv DEF InsertEnds
<1> QED BY <1>1, <1>2

(* No tick holds anything while an insert runs.                            *)
LEMMA NoTickInv ==
  ASSUME TypeOK', NEW m \in Maintainer, job'[m] = NoTick
  PROVE  TickInv(m)'
<1>1. job'[m].stage = 0 /\ job'[m].held = Empty
  <2>1. NoTick.stage = 0 /\ NoTick.held = Empty
    BY DEF NoTick
  <2> QED BY <2>1
<1>2. ~In(m, "promote")'
  BY <1>1 DEF In
<1>3. ASSUME NEW c \in Coarse
      PROVE  job'[m].authority[c] <= wm'[c]
  <2>1. NoTick.authority[c] = 0
    BY DEF NoTick
  <2>2. job'[m].authority[c] = 0
    BY <2>1
  <2>3. wm'[c] \in Nat
    BY DEF TypeOK
  <2> QED BY <2>2, <2>3
<1> QED BY <1>1, <1>2, <1>3 DEF TickInv, Empty

LEMMA InsertLoop ==
  ASSUME LadderConstants, ~Overlap, LoopInv, Insert
  PROVE  LoopInv'
<1>1. /\ \A m \in Maintainer : job[m] = NoTick
      /\ UNCHANGED <<job, settings, enabled, wm>>
  BY InsertAlone
<1>2. TablesOK' /\ WriterInv'
  BY BeginsInv, InsertsRawInv, MeasuresInv, RebuildsInv, WritesMinuteInv, LooksBehindInv,
     LooksAtFlagsInv, ReadsSourceInv, ReadsTargetInv, WritesAncestorInv, InsertEndsInv DEF Insert
<1>3. IInv'
  BY StepIInv DEF LoopInv, Next
<1>4. TypeOK' /\ \A m \in Maintainer : job'[m] = NoTick
  BY <1>1, <1>3 DEF IInv
<1>5. Alone'
  BY <1>4 DEF Alone
<1>6. \A m \in Maintainer : TickInv(m)'
  BY <1>4, NoTickInv
<1> QED BY <1>2, <1>3, <1>5, <1>6 DEF LoopInv

-----------------------------------------------------------------------------
(* The steps of a tick.                                                    *)

LEMMA TickRunning ==
  ASSUME NEW m \in Maintainer, job[m].stage > 0 \/ job[m].step = "now"
  PROVE  job[m] # NoTick
<1> SUFFICES ASSUME job[m] = NoTick PROVE FALSE
  OBVIOUS
<1>1. NoTick.stage = 0 /\ NoTick.step = ""
  BY DEF NoTick
<1>2. job[m].step # "now"
  BY <1>1
<1>3. job[m].stage = 0
  BY <1>1
<1>4. ~(job[m].stage > 0)
  BY <1>3
<1> QED BY <1>2, <1>4

LEMMA TickAlone ==
  ASSUME ~Overlap, LoopInv, NEW m \in Maintainer, Tick(m)
  PROVE  /\ writer = Idle
         /\ \A n \in Maintainer : n # m => job[n] = NoTick
         /\ ~TickBegins(m) => job[m].cfg = settings
<1>1. CASE TickBegins(m)
  BY <1>1 DEF TickBegins, MayRun, Quiet
<1>2. CASE ~TickBegins(m)
  <2>1. job[m] # NoTick
    <3>1. \/ job[m].stage > 0 \/ job[m].step = "now" \/ job[m] # NoTick
      BY <1>2 DEF Tick, ReadsClock, SyncsFlag, ReadsAuthority, SkipsStage, ReadsLimit,
                  ReadsWatermark, Seeks, Gathers, Upserts, Marks, Prunes, StatementFails,
                  TickEnds, Promoting, In
    <3> QED BY <3>1, TickRunning
  <2>2. writer = Idle /\ \A n \in Maintainer : n # m => job[n] = NoTick
    BY <2>1 DEF LoopInv, Alone
  <2>3. job[m].cfg = settings
    BY <2>1 DEF LoopInv, TickInv
  <2> QED BY <2>2, <2>3
<1> QED BY <1>1, <1>2

(* A tick that neither searches nor promotes.                              *)
LEMMA CalmInv ==
  ASSUME NEW m \in Maintainer, job'[m].cfg = settings',
         \A t \in SampleTime : job'[m].held[t] <= 1 /\ (job'[m].held[t] > 0 => t \in stored'),
         \A c \in Coarse : job'[m].authority[c] <= wm'[c],
         job'[m].step \notin {"seek", "gather", "upsert", "mark"}
  PROVE  TickInv(m)'
BY DEF TickInv, Begun

LEMMA AfterStageInv ==
  ASSUME TypeOK, TypeOK', NEW m \in Maintainer, TickInv(m), job[m].stage > 0,
         job'[m] = AfterStage(m), UNCHANGED <<wm, settings, stored>>
  PROVE  TickInv(m)'
<1>1. CASE AfterStage(m) = NoTick
  BY <1>1, NoTickInv
<1>2. CASE AfterStage(m) # NoTick
  <2>1. job[m] \in TickState
    BY DEF TypeOK
  <2>2. /\ job'[m].cfg = job[m].cfg /\ job'[m].held = Empty
        /\ job'[m].authority = job[m].authority /\ job'[m].step = "go"
    BY <1>2, <2>1 DEF AfterStage, TickState
  <2>3. job[m].cfg = settings
    BY TickRunning DEF TickInv
  <2>4. \A t \in SampleTime : job'[m].held[t] <= 1 /\ (job'[m].held[t] > 0 => t \in stored')
    BY <2>2 DEF Empty
  <2>5. \A c \in Coarse : job'[m].authority[c] <= wm'[c]
    BY <2>2 DEF TickInv
  <2> QED BY <2>2, <2>3, <2>4, <2>5, CalmInv
<1> QED BY <1>1, <1>2

LEMMA TickBeginsInv ==
  ASSUME TypeOK, LoopInv, NEW m \in Maintainer, TickBegins(m)
  PROVE  TablesOK' /\ TickInv(m)'
<1>1. UNCHANGED <<count, wm, enabled, settings, stored>>
  BY DEF TickBegins, tables
<1>2. TablesOK'
  BY <1>1 DEF LoopInv, TablesOK
<1>3. /\ job'[m].cfg = settings /\ job'[m].held = Empty /\ job'[m].step = "now"
      /\ job'[m].authority = [k \in Coarse |-> 0]
  <2>1. job'[m] = [NoTick EXCEPT !.stage = 1, !.step = "now", !.cfg = settings]
    BY DEF TickBegins, TypeOK
  <2> QED BY <2>1 DEF NoTick
<1>4. \A t \in SampleTime : job'[m].held[t] <= 1 /\ (job'[m].held[t] > 0 => t \in stored')
  BY <1>3 DEF Empty
<1>5. ASSUME NEW c \in Coarse
      PROVE  job'[m].authority[c] <= wm'[c]
  <2>1. job'[m].authority[c] = 0
    BY <1>3
  <2>2. wm'[c] \in Nat
    BY <1>1 DEF TypeOK
  <2> QED BY <2>1, <2>2
<1>6. TickInv(m)'
  BY <1>1, <1>3, <1>4, <1>5, CalmInv
<1> QED BY <1>2, <1>6

(* A step between stages that changes only where the tick is and what it   *)
(* knows of the time and of the limit of its promotion.                    *)
LEMMA MovesInv ==
  ASSUME LoopInv, NEW m \in Maintainer, job[m].cfg = settings,
         UNCHANGED <<count, wm, enabled, settings, stored>>,
         job'[m].cfg = job[m].cfg, job'[m].held = job[m].held,
         job'[m].authority = job[m].authority, job'[m].step \in {"go", "from"}
  PROVE  TablesOK' /\ TickInv(m)'
<1>1. TablesOK'
  BY DEF LoopInv, TablesOK
<1>2. TickInv(m)'
  <2>1. TickInv(m)
    BY DEF LoopInv
  <2> QED BY <2>1, CalmInv DEF TickInv
<1> QED BY <1>1, <1>2

LEMMA ReadsClockInv ==
  ASSUME TypeOK, LoopInv, NEW m \in Maintainer, job[m].cfg = settings, ReadsClock(m)
  PROVE  TablesOK' /\ TickInv(m)'
<1>1. job[m] \in TickState /\ job'[m] = [job[m] EXCEPT !.step = "go", !.now = clock]
  BY DEF TypeOK, ReadsClock
<1>2. /\ job'[m].cfg = job[m].cfg /\ job'[m].held = job[m].held
      /\ job'[m].authority = job[m].authority /\ job'[m].step = "go"
  BY <1>1 DEF TickState
<1>3. UNCHANGED <<count, wm, enabled, settings, stored>>
  BY DEF ReadsClock, tables
<1> QED BY <1>2, <1>3, MovesInv

LEMMA ReadsLimitInv ==
  ASSUME TypeOK, LoopInv, NEW m \in Maintainer, job[m].cfg = settings, ReadsLimit(m)
  PROVE  TablesOK' /\ TickInv(m)'
<1>1. /\ job[m] \in TickState
      /\ job'[m] = [job[m] EXCEPT !.step = "from", !.limit = {wm[3]} \ {0}]
  BY DEF TypeOK, ReadsLimit
<1>2. /\ job'[m].cfg = job[m].cfg /\ job'[m].held = job[m].held
      /\ job'[m].authority = job[m].authority /\ job'[m].step = "from"
  BY <1>1 DEF TickState
<1>3. UNCHANGED <<count, wm, enabled, settings, stored>>
  BY DEF ReadsLimit, tables
<1> QED BY <1>2, <1>3, MovesInv

(* The flags follow the saved settings, which is what this tick was given. *)
LEMMA SyncsFlagInv ==
  ASSUME TypeOK, TypeOK', LoopInv, NEW m \in Maintainer, job[m].cfg = settings, SyncsFlag(m)
  PROVE  TablesOK' /\ TickInv(m)'
<1>1. enabled' = enabled
  BY DEF LoopInv, TablesOK, SyncsFlag
<1>2. UNCHANGED <<count, wm, settings, stored>> /\ job[m].stage > 0
  BY DEF SyncsFlag, In
<1>3. job'[m] = AfterStage(m)
  BY DEF SyncsFlag, TypeOK
<1>4. TablesOK'
  BY <1>1, <1>2 DEF LoopInv, TablesOK
<1>5. TickInv(m)'
  BY <1>2, <1>3, AfterStageInv DEF LoopInv
<1> QED BY <1>4, <1>5

LEMMA ReadsAuthorityInv ==
  ASSUME TypeOK, LoopInv, NEW m \in Maintainer, job[m].cfg = settings, ReadsAuthority(m)
  PROVE  TablesOK' /\ TickInv(m)'
<1> DEFINE k == TierOf(m)
           next == AfterStage(m)
<1>1. job[m].stage > 0 /\ job[m].stage # 10 /\ job[m] \in TickState
  BY DEF ReadsAuthority, In, Stages, TypeOK
<1>2. k \in Coarse /\ wm[k] \in Nat
  BY <1>1, TierOfTyped DEF ReadsAuthority, In, TypeOK
<1>3. UNCHANGED <<count, wm, enabled, settings, stored>>
  BY DEF ReadsAuthority, tables
<1>4. /\ next.cfg = job[m].cfg /\ next.held = Empty
      /\ next.authority = job[m].authority /\ next.step = "go" /\ next \in TickState
  <2>1. next = [job[m] EXCEPT !.stage = @ + 1, !.step = "go", !.limit = {}, !.search = 0,
                              !.start = 0, !.left = 0, !.held = Empty]
    BY <1>1, StageFacts DEF AfterStage
  <2>2. next \in TickState
    BY <1>1, AfterStageStep, LadderConstants
  <2> HIDE DEF next
  <2> QED BY <1>1, <2>1, <2>2 DEF TickState
<1>5. job'[m] = [next EXCEPT !.authority[k] = wm[k]]
  BY DEF ReadsAuthority, TypeOK
<1> HIDE DEF next, k
<1>6. /\ job'[m].cfg = settings /\ job'[m].held = Empty /\ job'[m].step = "go"
      /\ job'[m].authority = [job[m].authority EXCEPT ![k] = wm[k]]
  BY <1>4, <1>5 DEF TickState
<1>7. ASSUME NEW c \in Coarse
      PROVE  job'[m].authority[c] <= wm'[c]
  <2>1. job[m].authority \in [Coarse -> Nat]
    BY <1>1 DEF TickState
  <2>2. CASE c = k
    <3>1. job'[m].authority[c] = wm[c]
      BY <1>6, <2>1, <2>2
    <3> QED BY <1>2, <1>3, <2>2, <3>1
  <2>3. CASE c # k
    <3>1. job'[m].authority[c] = job[m].authority[c]
      BY <1>6, <2>1, <2>3
    <3>2. job[m].authority[c] <= wm[c]
      BY DEF LoopInv, TickInv
    <3> QED BY <1>3, <3>1, <3>2
  <2> QED BY <2>2, <2>3
<1>8. \A t \in SampleTime : job'[m].held[t] <= 1 /\ (job'[m].held[t] > 0 => t \in stored')
  BY <1>6 DEF Empty
<1>9. TickInv(m)'
  BY <1>3, <1>6, <1>7, <1>8, CalmInv
<1>10. TablesOK'
  BY <1>3 DEF LoopInv, TablesOK
<1> QED BY <1>9, <1>10

(* A stage that ends without having changed a table.                       *)
LEMMA StageEndsInv ==
  ASSUME TypeOK, TypeOK', LoopInv, NEW m \in Maintainer, job[m].stage > 0,
         job'[m] = AfterStage(m), UNCHANGED tables
  PROVE  TablesOK' /\ TickInv(m)'
<1>1. TablesOK'
  BY DEF LoopInv, TablesOK, tables
<1>2. TickInv(m)'
  BY AfterStageInv DEF LoopInv, tables
<1> QED BY <1>1, <1>2

(* A promotion leaves what the tick was given alone.                       *)
LEMMA PromotionInv ==
  ASSUME NEW m \in Maintainer, NEW k \in Coarse,
         job'[m].cfg = settings',
         \A t \in SampleTime : job'[m].held[t] <= 1 /\ (job'[m].held[t] > 0 => t \in stored'),
         \A c \in Coarse : job'[m].authority[c] <= wm'[c],
         TierOf(m)' = k,
         job'[m].step = "seek" => job'[m].search >= wm'[k],
         job'[m].step \in Begun => /\ job'[m].start >= wm'[k]
                                   /\ \E q \in Nat : job'[m].start = q * Res[k],
         job'[m].step = "upsert" =>
           \E u \in Within(job'[m].start, job'[m].start + Res[k]) : job'[m].held[u] > 0
  PROVE  TickInv(m)'
<1>1. TargetEnd(m)' = job'[m].start + Res[k]
  BY DEF TargetEnd
<1> QED BY <1>1 DEF TickInv, Within

LEMMA HeldBegun ==
  ASSUME TypeOK, NEW m \in Maintainer, NEW s, Promoting(m, s), TickInv(m)
  PROVE  /\ In(m, "promote") /\ job[m].step = s
         /\ \A t \in SampleTime : job[m].held[t] <= 1 /\ (job[m].held[t] > 0 => t \in stored)
         /\ \A c \in Coarse : job[m].authority[c] <= wm[c]
BY DEF Promoting, TickInv

LEMMA ReadsWatermarkInv ==
  ASSUME TypeOK, LoopInv, NEW m \in Maintainer, job[m].cfg = settings, ReadsWatermark(m)
  PROVE  TablesOK' /\ TickInv(m)'
<1> DEFINE k == TierOf(m)
<1>1. job[m] \in TickState /\ k \in Coarse
  BY PromotingTyped DEF ReadsWatermark
<1>2. UNCHANGED <<count, wm, enabled, settings, stored>>
  BY DEF ReadsWatermark, tables
<1>3. TablesOK'
  BY <1>2 DEF LoopInv, TablesOK
<1>4. job'[m] = [job[m] EXCEPT !.step = "seek", !.search = wm[k], !.left = MaxPromotions]
  BY DEF ReadsWatermark, TypeOK
<1>5. /\ job'[m].cfg = job[m].cfg /\ job'[m].held = job[m].held
      /\ job'[m].authority = job[m].authority /\ job'[m].step = "seek"
      /\ job'[m].search = wm[k] /\ job'[m].stage = job[m].stage
  BY <1>1, <1>4 DEF TickState
<1>6. TierOf(m)' = k
  BY <1>5 DEF TierOf
<1>7. TickInv(m)
  BY DEF LoopInv
<1>8. /\ \A t \in SampleTime : job[m].held[t] <= 1 /\ (job[m].held[t] > 0 => t \in stored)
      /\ \A c \in Coarse : job[m].authority[c] <= wm[c]
  BY <1>7 DEF TickInv
<1>9. wm[k] \in Nat /\ wm[k] >= wm[k]
  BY <1>1 DEF TypeOK
<1> HIDE DEF k
<1>10. TickInv(m)'
  BY <1>1, <1>2, <1>5, <1>6, <1>8, <1>9, PromotionInv DEF Begun
<1> QED BY <1>3, <1>10

LEMMA SeeksInv ==
  ASSUME LadderConstants, TypeOK, TypeOK', LoopInv, NEW m \in Maintainer,
         job[m].cfg = settings, Seeks(m)
  PROVE  TablesOK' /\ TickInv(m)'
<1> DEFINE k == TierOf(m)
<1>1. /\ job[m] \in TickState /\ job[m].stage > 0 /\ k \in Coarse /\ k \in Tier
      /\ Promoting(m, "seek")
  BY PromotingTyped DEF Seeks
<1>2. UNCHANGED tables
  BY DEF Seeks
<1>3. TickInv(m) /\ TablesOK
  BY DEF LoopInv
<1>4. CASE job' = [job EXCEPT ![m] = AfterStage(m)]
  <2>1. job'[m] = AfterStage(m)
    BY <1>4 DEF TypeOK
  <2> QED BY <1>1, <1>2, <2>1, StageEndsInv
<1>5. ASSUME NEW row \in Ahead(m),
             job' = [job EXCEPT ![m] = [job[m] EXCEPT !.step = "gather",
                                                      !.start = BucketStart(k, row)]]
      PROVE  TablesOK' /\ TickInv(m)'
  <2> DEFINE start == BucketStart(k, row)
             r == Res[k]
  <2>1. r \in Nat /\ r > 0
    BY <1>1, ResNat
  <2>2. row \in Nat /\ row >= job[m].search
    <3>1. PICK u \in SampleTime : row = BucketStart(From(m), u)
      BY DEF Ahead
    <3>2. From(m) \in Tier /\ u \in Nat
      BY SampleNat DEF From, Source, Tier
    <3>3. row \in Nat
      BY <3>1, <3>2, BucketStartNat
    <3>4. row >= job[m].search
      BY DEF Ahead
    <3> QED BY <3>3, <3>4
  <2>3. job[m].search >= wm[k] /\ job[m].search \in Nat /\ wm[k] \in Nat
    <3>1. job[m].search >= wm[k]
      BY <1>1, <1>3 DEF Promoting, TickInv
    <3>2. job[m].search \in Nat /\ wm[k] \in Nat
      BY <1>1 DEF TickState, TypeOK
    <3> QED BY <3>1, <3>2
  <2>4. PICK q \in Nat : wm[k] = q * r
    BY <1>1, <1>3 DEF TablesOK
  <2>5. start >= wm[k]
    <3>1. row >= wm[k]
      BY <2>2, <2>3
    <3>2. row >= q * r
      BY <2>4, <3>1
    <3>3. start = (row \div r) * r
      BY DEF BucketStart
    <3>4. (row \div r) * r >= q * r
      <4> HIDE DEF r
      <4> QED BY <2>1, <2>2, <3>2, DivMono
    <3> HIDE DEF start, r
    <3> QED BY <2>4, <3>3, <3>4
  <2>6. \E p \in Nat : start = p * Res[k]
    BY <1>1, <2>2, BucketAligned
  <2>7. job'[m] = [job[m] EXCEPT !.step = "gather", !.start = start]
    BY <1>5 DEF TypeOK
  <2> HIDE DEF start, r, k
  <2>8. /\ job'[m].cfg = job[m].cfg /\ job'[m].held = job[m].held
        /\ job'[m].authority = job[m].authority /\ job'[m].step = "gather"
        /\ job'[m].start = start /\ job'[m].stage = job[m].stage
    BY <1>1, <2>7 DEF TickState
  <2>9. TierOf(m)' = k
    BY <2>8 DEF TierOf, k
  <2>10. /\ \A t \in SampleTime : job[m].held[t] <= 1 /\ (job[m].held[t] > 0 => t \in stored)
         /\ \A c \in Coarse : job[m].authority[c] <= wm[c]
    BY <1>3 DEF TickInv
  <2>11. UNCHANGED <<count, wm, enabled, settings, stored>>
    BY <1>2 DEF tables
  <2>12. TickInv(m)'
    BY <1>1, <2>5, <2>6, <2>8, <2>9, <2>10, <2>11, PromotionInv
  <2>13. TablesOK'
    BY <1>3, <2>11 DEF TablesOK
  <2> QED BY <2>12, <2>13
<1> QED BY <1>4, <1>5 DEF Seeks

LEMMA GathersInv ==
  ASSUME LadderConstants, TypeOK, LoopInv, NEW m \in Maintainer, job[m].cfg = settings,
         Gathers(m)
  PROVE  TablesOK' /\ TickInv(m)'
<1> DEFINE k == TierOf(m)
           S == Within(job[m].start, TargetEnd(m))
           finer == Read(From(m), S)
<1>1. /\ job[m] \in TickState /\ k \in Coarse /\ k \in Tier
      /\ In(m, "promote") /\ job[m].step = "gather"
  BY PromotingTyped DEF Gathers, Promoting
<1>2. UNCHANGED <<count, wm, enabled, settings, stored>>
  BY DEF Gathers, tables
<1>3. TickInv(m) /\ TablesOK
  BY DEF LoopInv
<1>4. TablesOK'
  BY <1>2, <1>3 DEF TablesOK
<1>5. From(m) \in Tier
  BY DEF From, Source, Tier
<1>6. /\ \A t \in SampleTime : job[m].held[t] <= 1 /\ (job[m].held[t] > 0 => t \in stored)
      /\ \A c \in Coarse : job[m].authority[c] <= wm[c]
  BY <1>3 DEF TickInv
<1>7. job[m].start >= wm[k] /\ \E q \in Nat : job[m].start = q * Res[k]
  BY <1>1, <1>3 DEF TickInv, Begun
<1>8. CASE finer = Empty
  <2>1. job'[m] = [job[m] EXCEPT !.step = "seek", !.search = TargetEnd(m)]
    BY <1>8 DEF Gathers, TypeOK
  <2>2. /\ job'[m].cfg = job[m].cfg /\ job'[m].held = job[m].held
        /\ job'[m].authority = job[m].authority /\ job'[m].step = "seek"
        /\ job'[m].search = TargetEnd(m) /\ job'[m].stage = job[m].stage
    BY <1>1, <2>1 DEF TickState
  <2>3. TierOf(m)' = k
    BY <2>2 DEF TierOf
  <2>4. TargetEnd(m) >= wm[k]
    <3>1. TargetEnd(m) = job[m].start + Res[k]
      BY DEF TargetEnd
    <3>2. job[m].start \in Nat /\ wm[k] \in Nat
      BY <1>1 DEF TickState, TypeOK
    <3>3. Res[k] \in Nat
      BY <1>1, ResNat
    <3> QED BY <1>7, <3>1, <3>2, <3>3
  <2> HIDE DEF k
  <2>5. TickInv(m)'
    BY <1>1, <1>2, <1>6, <2>2, <2>3, <2>4, PromotionInv DEF Begun
  <2> QED BY <1>4, <2>5
<1>9. CASE finer # Empty
  <2>1. job'[m] = [job[m] EXCEPT !.step = "upsert", !.held = finer]
    BY <1>9 DEF Gathers, TypeOK
  <2>2. /\ job'[m].cfg = job[m].cfg /\ job'[m].held = finer
        /\ job'[m].authority = job[m].authority /\ job'[m].step = "upsert"
        /\ job'[m].start = job[m].start /\ job'[m].stage = job[m].stage
    <3> HIDE DEF finer
    <3> QED BY <1>1, <2>1 DEF TickState
  <2>3. TierOf(m)' = k
    BY <2>2 DEF TierOf
  <2>4. finer \in Counts
    BY <1>5, ReadTyped
  <2>5. \A t \in SampleTime : finer[t] <= 1 /\ (finer[t] > 0 => t \in stored /\ t \in S)
    <3> HIDE DEF S
    <3> QED BY <1>3, <1>5, ReadOnce
  <2>6. \E u \in S : finer[u] > 0
    <3> HIDE DEF finer
    <3>1. PICK u \in SampleTime : finer[u] # 0
      BY <1>9, <2>4 DEF Counts, Empty
    <3>2. finer[u] \in Nat
      BY <2>4 DEF Counts
    <3>3. finer[u] > 0
      BY <3>1, <3>2
    <3> QED BY <2>5, <3>3
  <2>7. S = Within(job'[m].start, job'[m].start + Res[k])
    BY <2>2 DEF TargetEnd
  <2> HIDE DEF k, S, finer
  <2>8. \A t \in SampleTime : job'[m].held[t] <= 1 /\ (job'[m].held[t] > 0 => t \in stored')
    BY <1>2, <2>2, <2>5
  <2>9. TickInv(m)'
    BY <1>1, <1>2, <1>6, <1>7, <2>2, <2>3, <2>6, <2>7, <2>8, PromotionInv
  <2> QED BY <1>4, <2>9
<1> QED BY <1>8, <1>9

LEMMA UpsertsInv ==
  ASSUME LadderConstants, TypeOK, LoopInv, NEW m \in Maintainer, job[m].cfg = settings,
         Upserts(m)
  PROVE  TablesOK' /\ TickInv(m)'
<1> DEFINE k == TierOf(m)
           S == Within(job[m].start, TargetEnd(m))
<1>1. /\ job[m] \in TickState /\ k \in Coarse /\ k \in Tier
      /\ In(m, "promote") /\ job[m].step = "upsert"
  BY PromotingTyped DEF Upserts, Promoting
<1>2. UNCHANGED <<wm, enabled, settings, stored>> /\ count' = Written(k, S, job[m].held)
  BY DEF Upserts
<1>3. TickInv(m) /\ TablesOK
  BY DEF LoopInv
<1>4. job[m].held \in Counts
  BY <1>1 DEF TickState
<1>5. /\ \A t \in SampleTime : job[m].held[t] <= 1 /\ (job[m].held[t] > 0 => t \in stored)
      /\ \A c \in Coarse : job[m].authority[c] <= wm[c]
  BY <1>3 DEF TickInv
<1>6. TablesOK'
  <2> HIDE DEF k, S
  <2> QED BY <1>1, <1>2, <1>3, <1>4, <1>5, WrittenOnce
<1>7. job[m].start >= wm[k] /\ \E q \in Nat : job[m].start = q * Res[k]
  BY <1>1, <1>3 DEF TickInv, Begun
<1>8. job'[m] = [job[m] EXCEPT !.step = "mark", !.held = Empty]
  BY DEF Upserts, TypeOK
<1>9. /\ job'[m].cfg = job[m].cfg /\ job'[m].held = Empty
      /\ job'[m].authority = job[m].authority /\ job'[m].step = "mark"
      /\ job'[m].start = job[m].start /\ job'[m].stage = job[m].stage
  BY <1>1, <1>8 DEF TickState
<1>10. TierOf(m)' = k
  BY <1>9 DEF TierOf
<1>11. \A t \in SampleTime : job'[m].held[t] <= 1 /\ (job'[m].held[t] > 0 => t \in stored')
  BY <1>9 DEF Empty
<1> HIDE DEF k, S
<1>12. TickInv(m)'
  BY <1>1, <1>2, <1>5, <1>7, <1>9, <1>10, <1>11, PromotionInv
<1> QED BY <1>6, <1>12

(* A watermark moves to the end of the bucket that was promoted.           *)
LEMMA MarksForward ==
  ASSUME LadderConstants, TypeOK, LoopInv, NEW m \in Maintainer, Marks(m)
  PROVE  /\ TierOf(m) \in Coarse
         /\ wm' = [wm EXCEPT ![TierOf(m)] = TargetEnd(m)]
         /\ TargetEnd(m) \in Nat /\ TargetEnd(m) >= wm[TierOf(m)]
         /\ \E q \in Nat : TargetEnd(m) = q * Res[TierOf(m)]
<1> DEFINE k == TierOf(m)
           r == Res[k]
           from == job[m].start
<1>1. /\ job[m] \in TickState /\ k \in Coarse /\ k \in Tier
      /\ In(m, "promote") /\ job[m].step = "mark"
  BY PromotingTyped DEF Marks, Promoting
<1>2. TickInv(m)
  BY DEF LoopInv
<1>3. from >= wm[k] /\ \E q \in Nat : from = q * r
  BY <1>1, <1>2 DEF TickInv, Begun
<1>4. from \in Nat /\ wm[k] \in Nat /\ r \in Nat
  BY <1>1, ResNat DEF TickState, TypeOK
<1>5. TargetEnd(m) = from + r
  BY DEF TargetEnd
<1>6. PICK q \in Nat : from = q * r
  BY <1>3
<1>7. from + r \in Nat /\ from + r >= wm[k]
  <2> HIDE DEF from, r
  <2> QED BY <1>3, <1>4
<1>8. from + r = (q + 1) * r
  <2> HIDE DEF from, r
  <2> QED BY <1>4, <1>6
<1>9. q + 1 \in Nat
  OBVIOUS
<1> QED BY <1>1, <1>5, <1>7, <1>8, <1>9 DEF Marks

LEMMA MarksInv ==
  ASSUME LadderConstants, TypeOK, LoopInv, NEW m \in Maintainer, job[m].cfg = settings,
         Marks(m)
  PROVE  TablesOK' /\ TickInv(m)'
<1> DEFINE k == TierOf(m)
           end == TargetEnd(m)
<1>1. /\ k \in Coarse /\ wm' = [wm EXCEPT ![k] = end]
      /\ end \in Nat /\ end >= wm[k] /\ \E q \in Nat : end = q * Res[k]
  BY MarksForward
<1>2. job[m] \in TickState /\ wm \in [Coarse -> Nat]
  BY DEF TypeOK
<1>3. UNCHANGED <<count, enabled, settings, stored>>
  BY DEF Marks
<1>4. TickInv(m) /\ TablesOK
  BY DEF LoopInv
<1>5. job'[m] = [job[m] EXCEPT !.step = "seek", !.search = end, !.left = @ - 1]
  BY DEF Marks, TypeOK
<1>6. /\ job'[m].cfg = job[m].cfg /\ job'[m].held = job[m].held
      /\ job'[m].authority = job[m].authority /\ job'[m].step = "seek"
      /\ job'[m].search = end /\ job'[m].stage = job[m].stage
  <2> HIDE DEF end
  <2> QED BY <1>2, <1>5 DEF TickState
<1>7. TierOf(m)' = k
  BY <1>6 DEF TierOf
<1> HIDE DEF k, end
<1>8. \A c \in Coarse : wm'[c] = IF c = k THEN end ELSE wm[c]
  BY <1>1, <1>2
<1>9. TablesOK'
  <2>1. ASSUME NEW c \in Coarse
        PROVE  \E q \in Nat : wm'[c] = q * Res[c]
    BY <1>1, <1>4, <1>8 DEF TablesOK
  <2>2. \A j \in Tier : \A t \in SampleTime :
          count'[j][t] <= 1 /\ (count'[j][t] > 0 => t \in stored')
    BY <1>3, <1>4 DEF TablesOK
  <2>3. enabled' = settings'.on
    BY <1>3, <1>4 DEF TablesOK
  <2> QED BY <2>1, <2>2, <2>3 DEF TablesOK
<1>10. /\ \A t \in SampleTime : job[m].held[t] <= 1 /\ (job[m].held[t] > 0 => t \in stored)
       /\ \A c \in Coarse : job[m].authority[c] <= wm[c]
  BY <1>4 DEF TickInv
<1>11. ASSUME NEW c \in Coarse
       PROVE  job'[m].authority[c] <= wm'[c]
  <2>1. job[m].authority[c] \in Nat /\ wm[c] \in Nat /\ job[m].authority[c] <= wm[c]
    BY <1>2, <1>10 DEF TickState
  <2>2. CASE c = k
    <3>1. wm'[c] = end
      BY <1>8, <2>2
    <3> QED BY <1>1, <1>6, <2>1, <2>2, <3>1
  <2>3. CASE c # k
    <3>1. wm'[c] = wm[c]
      BY <1>8, <2>3
    <3> QED BY <1>6, <2>1, <3>1
  <2> QED BY <2>2, <2>3
<1>12. wm'[k] = end /\ end >= end
  BY <1>1, <1>8
<1>13. \A t \in SampleTime : job'[m].held[t] <= 1 /\ (job'[m].held[t] > 0 => t \in stored')
  BY <1>3, <1>6, <1>10
<1>14. TickInv(m)'
  BY <1>1, <1>3, <1>6, <1>7, <1>11, <1>12, <1>13, PromotionInv DEF Begun
<1> QED BY <1>9, <1>14

LEMMA PrunesInv ==
  ASSUME TypeOK, TypeOK', LoopInv, NEW m \in Maintainer, Prunes(m)
  PROVE  TablesOK' /\ TickInv(m)'
<1> DEFINE S == {t \in SampleTime : Expired(m, t)}
<1>1. job[m].stage > 0 /\ TierOf(m) \in Tier
  BY TierOfTyped DEF Prunes, In
<1>2. UNCHANGED <<wm, enabled, settings, stored>> /\ count' = Written(TierOf(m), S, Empty)
  BY DEF Prunes
<1>3. TickInv(m) /\ TablesOK
  BY DEF LoopInv
<1>4. Empty \in Counts /\ \A t \in SampleTime : Empty[t] <= 1 /\ (Empty[t] > 0 => t \in stored)
  BY DEF Empty, Counts
<1>5. TablesOK'
  <2> HIDE DEF S
  <2> QED BY <1>1, <1>2, <1>3, <1>4, WrittenOnce
<1>6. job'[m] = AfterStage(m)
  BY DEF Prunes, TypeOK
<1>7. TickInv(m)'
  BY <1>1, <1>2, <1>3, <1>6, AfterStageInv
<1> QED BY <1>5, <1>7

LEMMA StatementFailsInv ==
  ASSUME TypeOK, TypeOK', LoopInv, NEW m \in Maintainer, job[m].cfg = settings,
         StatementFails(m)
  PROVE  TablesOK' /\ TickInv(m)'
<1>1. job[m].stage > 0 /\ UNCHANGED tables /\ job[m] \in TickState
  BY DEF StatementFails, TypeOK
<1>2. CASE job'[m] = AfterStage(m)
  BY <1>1, <1>2, StageEndsInv
<1>3. CASE job'[m] = [job[m] EXCEPT !.step = "from"]
  <2>1. /\ job'[m].cfg = job[m].cfg /\ job'[m].held = job[m].held
        /\ job'[m].authority = job[m].authority /\ job'[m].step = "from"
    BY <1>1, <1>3 DEF TickState
  <2>2. UNCHANGED <<count, wm, enabled, settings, stored>>
    BY <1>1 DEF tables
  <2> QED BY <2>1, <2>2, MovesInv
<1>4. job'[m] = AfterStage(m) \/ job'[m] = [job[m] EXCEPT !.step = "from"]
  BY DEF StatementFails, TypeOK
<1> QED BY <1>2, <1>3, <1>4

LEMMA TickEndsInv ==
  ASSUME TypeOK, TypeOK', LoopInv, NEW m \in Maintainer, TickEnds(m)
  PROVE  TablesOK' /\ TickInv(m)'
<1>1. TablesOK'
  BY DEF LoopInv, TablesOK, TickEnds, tables
<1>2. job'[m] = NoTick
  BY DEF TickEnds, TypeOK
<1> QED BY <1>1, <1>2, NoTickInv

LEMMA SkipsStageInv ==
  ASSUME TypeOK, TypeOK', LoopInv, NEW m \in Maintainer, SkipsStage(m)
  PROVE  TablesOK' /\ TickInv(m)'
<1>1. job[m].stage > 0 /\ job'[m] = AfterStage(m) /\ UNCHANGED tables
  BY DEF SkipsStage, In, TypeOK
<1> QED BY <1>1, StageEndsInv

LEMMA TickLoop ==
  ASSUME LadderConstants, ~Overlap, LoopInv, NEW m \in Maintainer, Tick(m)
  PROVE  LoopInv'
<1>1. IInv'
  BY StepIInv DEF LoopInv, Next
<1>2. TypeOK /\ TypeOK'
  BY <1>1 DEF LoopInv, IInv
<1>3. /\ writer = Idle /\ \A n \in Maintainer : n # m => job[n] = NoTick
      /\ ~TickBegins(m) => job[m].cfg = settings
  BY TickAlone
<1>4. TablesOK' /\ TickInv(m)'
  BY <1>2, <1>3, TickBeginsInv, ReadsClockInv, SyncsFlagInv, ReadsAuthorityInv, SkipsStageInv,
     ReadsLimitInv, ReadsWatermarkInv, SeeksInv, GathersInv, UpsertsInv, MarksInv, PrunesInv,
     StatementFailsInv, TickEndsInv DEF Tick
<1>5. writer' = Idle /\ \E x : job' = [job EXCEPT ![m] = x]
  <2>1. writer' = writer
    BY DEF Tick, TickBegins, ReadsClock, SyncsFlag, ReadsAuthority, SkipsStage, ReadsLimit,
           ReadsWatermark, Seeks, Gathers, Upserts, Marks, Prunes, StatementFails, TickEnds
  <2>2. \E x : job' = [job EXCEPT ![m] = x]
    BY DEF Tick, TickBegins, ReadsClock, SyncsFlag, ReadsAuthority, SkipsStage, ReadsLimit,
           ReadsWatermark, Seeks, Gathers, Upserts, Marks, Prunes, StatementFails, TickEnds
  <2> QED BY <1>3, <2>1, <2>2
<1>6. \A n \in Maintainer : n # m => job'[n] = NoTick
  BY <1>2, <1>3, <1>5 DEF TypeOK
<1>7. Alone'
  BY <1>5, <1>6 DEF Alone
<1>8. \A n \in Maintainer : TickInv(n)'
  BY <1>2, <1>4, <1>6, NoTickInv
<1>9. WriterInv'
  BY <1>5, IdleInv
<1> QED BY <1>1, <1>4, <1>7, <1>8, <1>9 DEF LoopInv

-----------------------------------------------------------------------------
(* The invariant holds of every behaviour.                                 *)

LEMMA InitLoop == ASSUME LadderConstants, Init PROVE LoopInv
<1>1. IInv
  BY InitIInv
<1>2. Alone
  BY DEF Init, Alone
<1>3. TablesOK
  <2>1. ASSUME NEW k \in Coarse
        PROVE  \E q \in Nat : wm[k] = q * Res[k]
    <3>1. Res[k] \in Nat
      BY ResNat DEF Coarse, Tier
    <3>2. wm[k] = 0
      BY DEF Init
    <3>3. 0 = 0 * Res[k] /\ 0 \in Nat
      BY <3>1
    <3> QED BY <3>2, <3>3
  <2>2. \A k \in Tier : \A t \in SampleTime : count[k][t] = 0
    BY DEF Init, Empty
  <2>3. \A k \in Tier : \A t \in SampleTime :
          count[k][t] <= 1 /\ (count[k][t] > 0 => t \in stored)
    BY <2>2
  <2> QED BY <2>1, <2>3 DEF TablesOK, Init
<1>4. WriterInv
  BY DEF Init, Idle, Empty, WriterInv, WriterFlags, WriterHeld, WriterNew
<1>5. ASSUME NEW m \in Maintainer
      PROVE  TickInv(m)
  <2>1. job[m] = NoTick
    BY DEF Init
  <2>2. NoTick.stage = 0 /\ NoTick.held = Empty
    BY DEF NoTick
  <2>3. ~In(m, "promote")
    BY <2>1, <2>2 DEF In
  <2>4. ASSUME NEW c \in Coarse
        PROVE  job[m].authority[c] <= wm[c]
    <3>1. NoTick.authority[c] = 0
      BY DEF NoTick
    <3>2. job[m].authority[c] = 0 /\ wm[c] = 0
      BY <2>1, <3>1 DEF Init
    <3> QED BY <3>2
  <2> QED BY <2>1, <2>2, <2>3, <2>4 DEF TickInv, Empty
<1> QED BY <1>1, <1>2, <1>3, <1>4, <1>5 DEF LoopInv

(* A step that changes no table, writer or tick.                           *)
LEMMA StillInv ==
  ASSUME LoopInv, IInv', UNCHANGED <<tables, writer, job>>
  PROVE  LoopInv'
<1>1. Alone'
  BY DEF LoopInv, Alone
<1>2. TablesOK'
  BY DEF LoopInv, TablesOK, tables
<1>3. WriterInv'
  BY DEF LoopInv, WriterInv, WriterFlags, WriterHeld, WriterNew, tables, Bucket, Within,
         BucketStart, BucketEnd
<1>4. ASSUME NEW m \in Maintainer
      PROVE  TickInv(m)'
  <2>1. TickInv(m)
    BY DEF LoopInv
  <2> QED BY <2>1 DEF TickInv, In, TierOf, TargetEnd, Within, tables
<1> QED BY <1>1, <1>2, <1>3, <1>4 DEF LoopInv

LEMMA SavesLoop ==
  ASSUME LadderConstants, ~Overlap, LoopInv, NEW l \in Ladders, SavesSettings(l)
  PROVE  LoopInv'
<1>1. IInv'
  BY StepIInv DEF LoopInv, Next
<1>2. TypeOK' /\ writer' = Idle /\ \A m \in Maintainer : job'[m] = NoTick
  BY <1>1 DEF IInv, SavesSettings, MayRun, Quiet
<1>3. Alone'
  BY <1>2 DEF Alone
<1>4. TablesOK'
  BY DEF LoopInv, TablesOK, SavesSettings
<1> QED BY <1>1, <1>2, <1>3, <1>4, IdleInv, NoTickInv DEF LoopInv

LEMMA StepLoop ==
  ASSUME LadderConstants, ~Overlap, LoopInv, [Next]_vars
  PROVE  LoopInv'
<1>1. IInv'
  BY StepIInv DEF LoopInv
<1>2. CASE ClockTicks \/ (\E t \in Instant : ClockIsSet(t)) \/ UNCHANGED vars
  <2>1. UNCHANGED <<tables, writer, job>>
    BY <1>2 DEF ClockTicks, ClockIsSet, vars, tables
  <2> QED BY <1>1, <2>1, StillInv
<1> QED BY <1>2, InsertLoop, TickLoop, SavesLoop DEF Next

(* The collection loop alone, whatever the instants, resolutions and       *)
(* ladders: an insert or a tick may stop at any of its statements and the  *)
(* clock may be set.                                                       *)
THEOREM LoopInvariant == ASSUME ~Overlap PROVE Spec => []LoopInv
<1>1. Init => LoopInv
  BY LadderConstants, InitLoop
<1>2. LoopInv /\ [Next]_vars => LoopInv'
  BY LadderConstants, StepLoop
<1> QED BY <1>1, <1>2, PTL DEF Spec

(* No tier counts a sample twice: Store::insert_snapshot merges a sample   *)
(* only into buckets that do not count it, and a promotion replaces what   *)
(* it folds again.                                                         *)
THEOREM CountsOnce == ASSUME ~Overlap PROVE Spec => []NoDoubleCount
<1>1. LoopInv => NoDoubleCount
  BY DEF LoopInv, TablesOK, NoDoubleCount
<1> QED BY <1>1, LoopInvariant, PTL

-----------------------------------------------------------------------------
(* What a step may never do.                                               *)

(* The steps that change a watermark, and those that change a tier.        *)
LEMMA WatermarkSteps ==
  ASSUME [Next]_vars
  PROVE  UNCHANGED wm \/ \E m \in Maintainer : Marks(m)
BY DEF Next, Insert, InsertBegins, InsertsRaw, Measures, Rebuilds, WritesMinute, LooksBehind,
       LooksAtFlags, ReadsSource, ReadsTarget, WritesAncestor, InsertEnds, Tick, TickBegins,
       ReadsClock, SyncsFlag, ReadsAuthority, SkipsStage, ReadsLimit, ReadsWatermark, Seeks,
       Gathers, Upserts, Prunes, StatementFails, TickEnds, SavesSettings, ClockTicks,
       ClockIsSet, tables, vars

LEMMA CountSteps ==
  ASSUME [Next]_vars
  PROVE  \/ UNCHANGED count
         \/ InsertsRaw \/ WritesMinute \/ WritesAncestor
         \/ \E m \in Maintainer : Upserts(m) \/ Prunes(m)
BY DEF Next, Insert, InsertBegins, Measures, Rebuilds, LooksBehind,
       LooksAtFlags, ReadsSource, ReadsTarget, InsertEnds, Tick, TickBegins,
       ReadsClock, SyncsFlag, ReadsAuthority, SkipsStage, ReadsLimit, ReadsWatermark, Seeks,
       Gathers, Marks, StatementFails, TickEnds, SavesSettings, ClockTicks,
       ClockIsSet, tables, vars

LEMMA WrittenElsewhere ==
  ASSUME TypeOK, NEW k \in Tier, NEW S, NEW c, NEW j \in Tier, j # k
  PROVE  Written(k, S, c)[j] = count[j]
BY DEF TypeOK, Written

LEMMA MarkNeverBack ==
  ASSUME LadderConstants, LoopInv, [Next]_vars
  PROVE  \A k \in Coarse : wm'[k] >= wm[k]
<1> SUFFICES ASSUME NEW k \in Coarse PROVE wm'[k] >= wm[k]
  OBVIOUS
<1>1. TypeOK /\ wm \in [Coarse -> Nat] /\ wm[k] \in Nat
  BY DEF LoopInv, IInv, TypeOK
<1>2. CASE UNCHANGED wm
  BY <1>1, <1>2
<1>3. ASSUME NEW m \in Maintainer, Marks(m)
      PROVE  wm'[k] >= wm[k]
  <2> DEFINE j == TierOf(m)
             end == TargetEnd(m)
  <2>1. /\ wm' = [wm EXCEPT ![j] = end] /\ end \in Nat /\ end >= wm[j]
    BY <1>1, <1>3, MarksForward
  <2> HIDE DEF j, end
  <2>2. CASE k = j
    <3>1. wm'[k] = end
      BY <1>1, <2>1, <2>2
    <3> QED BY <2>1, <2>2, <3>1
  <2>3. CASE k # j
    <3>1. wm'[k] = wm[k]
      BY <1>1, <2>1, <2>3
    <3> QED BY <1>1, <3>1
  <2> QED BY <2>2, <2>3
<1> QED BY <1>2, <1>3, WatermarkSteps

(* The authority to delete is never taken back, with promotions cut short  *)
(* at any statement: maintenance.rs sets a watermark only to the end of a  *)
(* bucket that begins at it or later.                                      *)
THEOREM WatermarksOnlyAdvance == ASSUME ~Overlap PROVE Spec => WatermarksAdvance
<1>1. LoopInv /\ [Next]_vars => [\A k \in Coarse : wm'[k] >= wm[k]]_vars
  BY LadderConstants, MarkNeverBack
<1> QED BY <1>1, LoopInvariant, PTL DEF Spec, WatermarksAdvance

LEMMA TierWrittenIsOn ==
  ASSUME LadderConstants, ~Overlap, LoopInv, [Next]_vars, NEW k \in Coarse, count'[k] # count[k]
  PROVE  k \in settings.on
<1>1. TypeOK /\ WriterInv
  BY DEF LoopInv, IInv
<1>2. k \in Tier /\ k # 1 /\ k # 2
  BY DEF Coarse, Tier
<1>3. CASE InsertsRaw
  <2>1. count'[k] = count[k]
    BY <1>1, <1>2, <1>3 DEF InsertsRaw, TypeOK
  <2> QED BY <2>1
<1>4. CASE WritesMinute
  <2>1. 2 \in Tier
    BY DEF Tier
  <2> QED BY <1>1, <1>2, <1>4, <2>1, WrittenElsewhere DEF WritesMinute
<1>5. CASE WritesAncestor
  <2>1. writer.tier \in Tier /\ writer.pc = "write"
    BY <1>1, <1>5 DEF WritesAncestor, TypeOK, InsertState, Coarse, Tier
  <2>2. k = writer.tier
    BY <1>1, <1>2, <1>5, <2>1, WrittenElsewhere DEF WritesAncestor
  <2> QED BY <1>1, <2>1, <2>2 DEF WriterInv, WriterFlags
<1>6. ASSUME NEW m \in Maintainer, Upserts(m) \/ Prunes(m)
      PROVE  k \in settings.on
  <2>1. TierOf(m) \in Tier /\ Applies(m)
    BY <1>1, <1>6, TierOfTyped DEF Upserts, Promoting, Prunes, In
  <2>2. k = TierOf(m)
    BY <1>1, <1>2, <1>6, <2>1, WrittenElsewhere DEF Upserts, Prunes
  <2>3. k \in job[m].cfg.on
    BY <2>1, <2>2 DEF Applies
  <2>4. Tick(m) /\ ~TickBegins(m)
    <3>1. job[m].stage > 0
      BY <1>6 DEF Upserts, Promoting, Prunes, In
    <3>2. job[m] # NoTick
      BY <3>1, TickRunning
    <3> QED BY <1>6, <3>2 DEF Tick, TickBegins
  <2>5. job[m].cfg = settings
    BY <2>4, TickAlone
  <2> QED BY <2>3, <2>5
<1> QED BY <1>3, <1>4, <1>5, <1>6, CountSteps

(* A tier that the saved settings have off is neither written nor pruned:  *)
(* the flags are saved with the settings, and an insert and a tick look at *)
(* them before they touch the tier.                                        *)
THEOREM DisabledNeverTouched == ASSUME ~Overlap PROVE Spec => DisabledUntouched
<1>1. LoopInv /\ [Next]_vars =>
        [\A k \in Coarse : count'[k] # count[k] => k \in settings.on]_vars
  BY LadderConstants, TierWrittenIsOn
<1> QED BY <1>1, LoopInvariant, PTL DEF Spec, DisabledUntouched

(* A row that an upsert writes is not lost to it, nor is any row of        *)
(* another bucket.                                                         *)
LEMMA RowStays ==
  ASSUME LadderConstants, TypeOK, NEW k \in Tier, NEW q \in Nat, NEW c \in Counts,
         NEW u \in Within(q * Res[k], q * Res[k] + Res[k]), c[u] > 0,
         count' = Written(k, Within(q * Res[k], q * Res[k] + Res[k]), c),
         NEW j \in Tier, NEW t \in SampleTime
  PROVE  ~RowGoes(j, t)
<1> DEFINE S == Within(q * Res[k], q * Res[k] + Res[k])
<1> SUFFICES ASSUME RowGoes(j, t) PROVE FALSE
  OBVIOUS
<1>1. t \in Bucket(j, t)
  BY InBucket
<1>2. count[j][t] > 0 /\ count'[j][t] = 0
  BY <1>1 DEF RowGoes
<1>3. count'[j][t] # count[j][t]
  BY <1>2
<1>4. j = k
  BY <1>3, WrittenElsewhere
<1>5. t \in S
  <2> HIDE DEF S
  <2>1. count'[k][t] = IF t \in S THEN c[t] ELSE count[k][t]
    BY WrittenAt DEF S
  <2> QED BY <1>3, <1>4, <2>1
<1>6. Bucket(k, t) = S
  BY <1>5, AlignedRange
<1>7. count'[k][u] = 0
  BY <1>4, <1>6 DEF RowGoes
<1>8. u \in SampleTime
  BY DEF Within
<1>9. count'[k][u] = c[u]
  <2> HIDE DEF S
  <2>1. count'[k][u] = IF u \in S THEN c[u] ELSE count[k][u]
    BY <1>8, WrittenAt DEF S
  <2> QED BY <2>1 DEF S
<1> QED BY <1>7, <1>9

(* A row of minutes or five minutes goes only to the pruning of a tick.     *)
LEMMA RowGoesPruned ==
  ASSUME LadderConstants, ~Overlap, LoopInv, [Next]_vars,
         NEW k \in {2, 3}, NEW t \in SampleTime, RowGoes(k, t)
  PROVE  \E m \in Maintainer : Prunes(m)
<1>1. TypeOK /\ WriterInv
  BY DEF LoopInv, IInv
<1>2. k \in Tier /\ k # 1
  BY DEF Tier
<1>3. t \in Bucket(k, t)
  BY <1>2, InBucket
<1>4. count[k][t] > 0 /\ count'[k][t] = 0
  BY <1>3 DEF RowGoes
<1>5. count' # count /\ count'[k] # count[k]
  BY <1>4
<1>6. ~InsertsRaw
  BY <1>1, <1>2, <1>5 DEF InsertsRaw, TypeOK
<1>7. ~WritesMinute
  <2> SUFFICES ASSUME WritesMinute PROVE FALSE
    OBVIOUS
  <2>1. writer.pc = "minute" /\ writer.at \in SampleTime /\ writer.held \in Counts
    BY <1>1 DEF WritesMinute, TypeOK, InsertState
  <2>2. writer.held[writer.at] > 0
    BY <1>1, <2>1 DEF WriterInv, WriterHeld
  <2> DEFINE minutes == 2
  <2>3. minutes \in Tier /\ writer.at \in Nat
    <3>1. minutes \in Tier
      BY DEF Tier
    <3>2. writer.at \in Nat
      BY <2>1, SampleNat
    <3> QED BY <3>1, <3>2
  <2>4. count' = Written(minutes, Bucket(minutes, writer.at), writer.held)
    BY DEF WritesMinute
  <2> HIDE DEF minutes
  <2>5. writer.at \in Bucket(minutes, writer.at)
    BY <2>1, <2>3, InBucket
  <2>6. PICK q \in Nat : Bucket(minutes, writer.at)
                           = Within(q * Res[minutes], q * Res[minutes] + Res[minutes])
    BY <2>3, BucketAligned
  <2> QED BY <1>1, <1>2, <2>1, <2>2, <2>3, <2>4, <2>5, <2>6, RowStays
<1>8. ~WritesAncestor
  <2> SUFFICES ASSUME WritesAncestor PROVE FALSE
    OBVIOUS
  <2> DEFINE j == writer.tier
  <2>1. /\ writer.pc = "write" /\ writer.at \in Nat /\ writer.held \in Counts
        /\ j \in Tier
    BY <1>1 DEF WritesAncestor, TypeOK, InsertState, Coarse, Tier
  <2>2. PICK u \in Bucket(j, writer.at) : writer.held[u] > 0
    BY <1>1, <2>1 DEF WriterInv, WriterHeld
  <2>3. count' = Written(j, Bucket(j, writer.at), writer.held)
    BY DEF WritesAncestor
  <2>4. PICK q \in Nat : Bucket(j, writer.at) = Within(q * Res[j], q * Res[j] + Res[j])
    BY <2>1, BucketAligned
  <2> QED BY <1>1, <1>2, <2>1, <2>2, <2>3, <2>4, RowStays
<1>9. ASSUME NEW m \in Maintainer
      PROVE  ~Upserts(m)
  <2> SUFFICES ASSUME Upserts(m) PROVE FALSE
    OBVIOUS
  <2> DEFINE j == TierOf(m)
             S == Within(job[m].start, TargetEnd(m))
  <2>1. /\ j \in Tier /\ job[m] \in TickState /\ In(m, "promote") /\ job[m].step = "upsert"
    BY <1>1, PromotingTyped DEF Upserts, Promoting
  <2>2. job[m].held \in Counts
    BY <2>1 DEF TickState
  <2>3. TickInv(m)
    BY DEF LoopInv
  <2>4. PICK u \in S : job[m].held[u] > 0
    BY <2>1, <2>3 DEF TickInv
  <2>5. PICK q \in Nat : job[m].start = q * Res[j]
    BY <2>1, <2>3 DEF TickInv, Begun
  <2>6. S = Within(q * Res[j], q * Res[j] + Res[j])
    BY <2>5 DEF TargetEnd
  <2>7. count' = Written(j, S, job[m].held)
    BY DEF Upserts
  <2> HIDE DEF S, j
  <2> QED BY <1>1, <1>2, <2>1, <2>2, <2>4, <2>6, <2>7, RowStays
<1> QED BY <1>5, <1>6, <1>7, <1>8, <1>9, CountSteps

LEMMA RowGoesBehindWatermark ==
  ASSUME LadderConstants, ~Overlap, LoopInv, [Next]_vars,
         NEW k \in {2, 3}, NEW t \in SampleTime, RowGoes(k, t),
         NEW c \in Dependents(k, settings.on)
  PROVE  BucketEnd(k, t) <= wm[c]
<1>1. TypeOK
  BY DEF LoopInv, IInv
<1>2. k \in Tier /\ k # 1
  BY DEF Tier
<1>3. t \in Bucket(k, t)
  BY <1>2, InBucket
<1>4. count[k][t] > 0 /\ count'[k][t] = 0
  BY <1>3 DEF RowGoes
<1>5. count' # count /\ count'[k] # count[k]
  BY <1>4
<1>6. ASSUME NEW m \in Maintainer, Prunes(m)
      PROVE  BucketEnd(k, t) <= wm[c]
  <2> DEFINE S == {u \in SampleTime : Expired(m, u)}
  <2>1. TierOf(m) \in Tier /\ job[m].stage > 0 /\ count' = Written(TierOf(m), S, Empty)
    BY <1>1, <1>6, TierOfTyped DEF Prunes, In
  <2>2. TierOf(m) = k
    BY <1>1, <1>2, <1>5, <2>1, WrittenElsewhere
  <2>3. t \in S
    <3> HIDE DEF S
    <3>1. Empty \in Counts
      BY DEF Empty, Counts
    <3>2. Written(k, S, Empty)[k][t] = IF t \in S THEN Empty[t] ELSE count[k][t]
      BY <1>1, <1>2, <3>1, WrittenAt
    <3>3. count'[k][t] # count[k][t]
      BY <1>4
    <3> QED BY <2>1, <2>2, <3>2, <3>3
  <2>4. job[m].cfg = settings
    <3>1. job[m] # NoTick
      BY <2>1, TickRunning
    <3>2. Tick(m) /\ ~TickBegins(m)
      BY <1>6, <3>1 DEF Tick, TickBegins
    <3> QED BY <3>2, TickAlone
  <2>5. BucketEnd(k, t) <= job[m].authority[c]
    BY <2>2, <2>3, <2>4 DEF Expired
  <2>6. c \in Coarse
    BY <1>1 DEF Dependents, TypeOK, LadderConstants
  <2>7. job[m].authority[c] <= wm[c]
    BY <2>6 DEF LoopInv, TickInv
  <2>8. BucketEnd(k, t) \in Nat /\ wm[c] \in Nat /\ job[m].authority[c] \in Nat
    <3>1. t \in Nat
      BY SampleNat
    <3>2. BucketEnd(k, t) \in Nat
      BY <1>2, <3>1, BucketStartNat
    <3>3. job[m] \in TickState
      BY <1>1 DEF TypeOK
    <3>4. wm[c] \in Nat /\ job[m].authority[c] \in Nat
      BY <1>1, <2>6, <3>3 DEF TypeOK, TickState
    <3> QED BY <3>2, <3>4
  <2> QED BY <2>5, <2>7, <2>8
<1> QED BY <1>6, RowGoesPruned

(* No minute and no five minutes are deleted before the watermark of the   *)
(* tier that folds them has passed them: the authority is read in the tick *)
(* that prunes, and upserts replace rows without emptying them.            *)
THEOREM OnlyFoldedIsPruned == ASSUME ~Overlap PROVE Spec => PrunedBehindWatermark
<1>1. LoopInv /\ [Next]_vars =>
        [\A k \in {2, 3} : \A t \in SampleTime : RowGoes(k, t) =>
           \A c \in Dependents(k, settings.on) : BucketEnd(k, t) <= wm[c]]_vars
  BY LadderConstants, RowGoesBehindWatermark
<1> QED BY <1>1, LoopInvariant, PTL DEF Spec, PrunedBehindWatermark
=============================================================================
