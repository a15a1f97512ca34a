-------------------------- MODULE LadderFoldProofs --------------------------
(***************************************************************************)
(* Promote before prune, for inserts and ticks that do not overlap, one    *)
(* ladder that is never changed and a clock that is never set: whatever    *)
(* the instants, resolutions and horizons, however late samples come and   *)
(* whichever statements of a tick fail but those of the promotion to five  *)
(* minutes.                                                                *)
(***************************************************************************)
EXTENDS LadderProofs

-----------------------------------------------------------------------------
(* Buckets of one tier lie in those of the next.                           *)
LEMMA TimesMono ==
  ASSUME NEW a \in Nat, NEW b \in Nat, NEW r \in Nat, a <= b
  PROVE  a * r <= b * r /\ a * r \in Nat /\ b * r \in Nat
<1>1. PICK e \in Nat : b = a + e
  <2>1. b - a \in Nat /\ b = a + (b - a)
    OBVIOUS
  <2> QED BY <2>1
<1>2. b * r = a * r + e * r /\ e * r \in Nat /\ a * r \in Nat
  BY <1>1
<1> QED BY <1>2

LEMMA TimesLess ==
  ASSUME NEW a \in Nat, NEW b \in Nat, NEW r \in Nat, a * r < b * r
  PROVE  a + 1 <= b
<1> SUFFICES ASSUME b <= a PROVE FALSE
  OBVIOUS
<1>1. b * r <= a * r /\ a * r \in Nat /\ b * r \in Nat
  BY TimesMono
<1> QED BY <1>1

LEMMA TimesTimes ==
  ASSUME NEW a \in Nat, NEW b \in Nat, NEW r \in Nat
  PROVE  a * (b * r) = (a * b) * r /\ a * b \in Nat
OBVIOUS

(* A whole number of buckets of a tier makes one of a coarser tier.        *)
Divides(j, k) == \E p \in Nat : Res[k] = p * Res[j]

LEMMA TierDivides ==
  ASSUME LadderConstants, NEW j \in Tier, NEW k \in Tier, j <= k
  PROVE  Divides(j, k)
<1>1. ASSUME NEW i \in 1..3
      PROVE  Divides(i, i + 1)
  <2>1. PICK q \in 1..Res[i + 1] : Res[i + 1] = q * Res[i]
    BY Nested
  <2>2. i + 1 \in Tier
    BY DEF Tier
  <2>3. Res[i + 1] \in Nat
    BY <2>2, ResNat
  <2>4. q \in Nat
    BY <2>3
  <2> QED BY <2>1, <2>4 DEF Divides
<1>2. ASSUME NEW a \in Tier, NEW b \in Tier, NEW c \in Tier, Divides(a, b), Divides(b, c)
      PROVE  Divides(a, c)
  <2>1. PICK p \in Nat : Res[b] = p * Res[a]
    BY <1>2 DEF Divides
  <2>2. PICK q \in Nat : Res[c] = q * Res[b]
    BY <1>2 DEF Divides
  <2> DEFINE r == Res[a]
  <2>3. r \in Nat
    BY ResNat
  <2>4. Res[c] = q * (p * r)
    BY <2>1, <2>2
  <2> HIDE DEF r
  <2>5. Res[c] = (q * p) * r /\ q * p \in Nat
    BY <2>3, <2>4, TimesTimes
  <2> QED BY <2>5 DEF Divides, r
<1>3. ASSUME NEW a \in Tier
      PROVE  Divides(a, a)
  <2>1. Res[a] \in Nat
    BY ResNat
  <2>2. Res[a] = 1 * Res[a]
    BY <2>1
  <2> QED BY <2>2 DEF Divides
<1>4. Divides(1, 2) /\ Divides(2, 3) /\ Divides(3, 4)
  <2>1. Divides(1, 1 + 1) /\ Divides(2, 2 + 1) /\ Divides(3, 3 + 1)
    BY <1>1
  <2>2. 1 + 1 = 2 /\ 2 + 1 = 3 /\ 3 + 1 = 4
    OBVIOUS
  <2> QED BY <2>1, <2>2
<1>5. 1 \in Tier /\ 2 \in Tier /\ 3 \in Tier /\ 4 \in Tier
  BY DEF Tier
<1>6. Divides(1, 3) /\ Divides(2, 4)
  BY <1>2, <1>4, <1>5
<1>7. Divides(1, 4)
  BY <1>2, <1>4, <1>5, <1>6
<1>8. \/ j = k \/ (j = 1 /\ k = 2) \/ (j = 1 /\ k = 3) \/ (j = 1 /\ k = 4)
      \/ (j = 2 /\ k = 3) \/ (j = 2 /\ k = 4) \/ (j = 3 /\ k = 4)
  BY DEF Tier
<1> QED BY <1>3, <1>4, <1>6, <1>7, <1>8

(* The bounds of a bucket.                                                 *)
LEMMA BucketBounds ==
  ASSUME LadderConstants, NEW k \in Tier, NEW t \in Nat
  PROVE  /\ BucketStart(k, t) \in Nat /\ BucketEnd(k, t) \in Nat
         /\ BucketStart(k, t) <= t /\ t < BucketEnd(k, t)
         /\ BucketEnd(k, t) = BucketStart(k, t) + Res[k]
<1> DEFINE r == Res[k]
<1>1. r \in Nat /\ r > 0
  BY ResNat
<1>2. (t \div r) * r <= t /\ t < (t \div r) * r + r
  <2> HIDE DEF r
  <2> QED BY <1>1, DivBound
<1>3. BucketStart(k, t) \in Nat /\ BucketEnd(k, t) \in Nat
  BY BucketStartNat
<1> QED BY <1>2, <1>3 DEF BucketStart, BucketEnd

(* A bucket ends before a boundary of its tier or begins behind it.        *)
LEMMA BeforeOrBehind ==
  ASSUME LadderConstants, NEW k \in Tier, NEW t \in Nat, NEW q \in Nat
  PROVE  BucketEnd(k, t) <= q * Res[k] \/ q * Res[k] <= BucketStart(k, t)
<1> DEFINE r == Res[k]
           d == t \div r
<1>1. r \in Nat /\ r > 0
  BY ResNat
<1>2. d \in Nat /\ d * r <= t /\ t < d * r + r
  <2> HIDE DEF r
  <2> QED BY <1>1, DivBound
<1>3. BucketStart(k, t) = d * r /\ BucketEnd(k, t) = d * r + r
  BY DEF BucketStart, BucketEnd
<1> HIDE DEF r, d
<1>4. CASE q <= d
  <2>1. q * r <= d * r
    BY <1>1, <1>2, <1>4, TimesMono
  <2> QED BY <1>3, <2>1 DEF r
<1>5. CASE d + 1 <= q
  <2>1. (d + 1) * r <= q * r
    BY <1>1, <1>2, <1>5, TimesMono
  <2>2. (d + 1) * r = d * r + r
    BY <1>1, <1>2
  <2> QED BY <1>3, <2>1, <2>2 DEF r
<1> QED BY <1>2, <1>4, <1>5

(* A bucket lies in that of a coarser tier.                                *)
LEMMA InCoarser ==
  ASSUME LadderConstants, NEW j \in Tier, NEW k \in Tier, j <= k, NEW t \in Nat
  PROVE  /\ BucketStart(k, t) <= BucketStart(j, t)
         /\ BucketEnd(j, t) <= BucketEnd(k, t)
<1>1. PICK p \in Nat : Res[k] = p * Res[j]
  BY TierDivides DEF Divides
<1> DEFINE r == Res[j]
           d == t \div Res[k]
<1>2. r \in Nat /\ Res[k] \in Nat /\ Res[k] > 0
  BY ResNat
<1>3. d \in Nat
  BY <1>2, DivBound
<1>4. BucketStart(k, t) = d * Res[k] /\ BucketEnd(k, t) = d * Res[k] + Res[k]
  BY DEF BucketStart, BucketEnd
<1> HIDE DEF r, d
<1>5. BucketStart(k, t) = (d * p) * r /\ d * p \in Nat
  <2>1. BucketStart(k, t) = d * (p * r)
    BY <1>1, <1>4 DEF r
  <2> QED BY <1>2, <1>3, <2>1, TimesTimes
<1>6. BucketEnd(k, t) = ((d + 1) * p) * r /\ (d + 1) * p \in Nat
  <2>1. BucketEnd(k, t) = (d + 1) * Res[k]
    BY <1>2, <1>3, <1>4
  <2>2. BucketEnd(k, t) = (d + 1) * (p * r)
    BY <1>1, <2>1 DEF r
  <2>3. d + 1 \in Nat
    BY <1>3
  <2> QED BY <1>2, <2>2, <2>3, TimesTimes
<1>7. /\ BucketStart(k, t) <= t /\ t < BucketEnd(k, t)
      /\ BucketStart(j, t) <= t /\ t < BucketEnd(j, t)
      /\ BucketStart(j, t) \in Nat /\ BucketEnd(j, t) \in Nat
      /\ BucketStart(k, t) \in Nat /\ BucketEnd(k, t) \in Nat
  BY BucketBounds
<1>8. BucketEnd(j, t) <= BucketStart(k, t) \/ BucketStart(k, t) <= BucketStart(j, t)
  BY <1>5, BeforeOrBehind DEF r
<1>9. BucketEnd(j, t) <= BucketEnd(k, t) \/ BucketEnd(k, t) <= BucketStart(j, t)
  BY <1>6, BeforeOrBehind DEF r
<1> QED BY <1>7, <1>8, <1>9

(* The samples of a bucket are in one bucket of a coarser tier.            *)
LEMMA SameCoarser ==
  ASSUME LadderConstants, NEW j \in Tier, NEW k \in Tier, j <= k, NEW t \in Nat, NEW u \in Nat,
         BucketStart(j, t) <= u, u < BucketEnd(j, t)
  PROVE  BucketStart(k, u) = BucketStart(k, t) /\ BucketEnd(k, u) = BucketEnd(k, t)
<1> DEFINE r == Res[k]
           d == t \div r
<1>1. r \in Nat /\ r > 0
  BY ResNat
<1>2. d \in Nat
  <2> HIDE DEF r
  <2> QED BY <1>1, DivBound
<1>3. BucketStart(k, t) = d * r /\ BucketEnd(k, t) = d * r + r
  BY DEF BucketStart, BucketEnd
<1>4. BucketStart(k, t) <= BucketStart(j, t) /\ BucketEnd(j, t) <= BucketEnd(k, t)
      /\ BucketStart(k, t) \in Nat /\ BucketStart(j, t) \in Nat /\ BucketEnd(j, t) \in Nat
      /\ BucketEnd(k, t) \in Nat
  BY InCoarser, BucketBounds
<1>5. d * r <= u /\ u < d * r + r
  <2> HIDE DEF d, r
  <2> QED BY <1>3, <1>4
<1>6. (u \div r) * r = d * r
  <2> HIDE DEF d, r
  <2> QED BY <1>1, <1>2, <1>5, DivUnique
<1>7. BucketStart(k, u) = BucketStart(k, t)
  BY <1>6 DEF BucketStart
<1> QED BY <1>7 DEF BucketEnd

-----------------------------------------------------------------------------
(* What is assumed: operations follow one another, nothing is changed under *)
(* way, and what fails is retried by the next tick.                        *)
Retried ==
  {<<"insert", "raw">>} \cup ({"sync", "authority"} \X Coarse) \cup ({"prune"} \X Tier)
    \cup ({"from", "seek", "gather", "upsert", "mark"} \X {4})

Undisturbed ==
  /\ ~Overlap /\ MaxClockSets = 0 /\ MayFail \subseteq Retried
  /\ \A l, n \in Ladders : l = n

-----------------------------------------------------------------------------
(* The inductive invariant: which tiers a sample is in.                    *)
BothOn == Coarse \subseteq settings.on
Refolding == {"source", "target", "write"}

\* A new sample that is not in its minute yet, and one the insert has yet to fold.
Fresh(t) == writer.new /\ t = writer.at /\ Unfolded
Due(k, t) == writer.new /\ t = writer.at /\ (writer.pc \in Refolding => k >= writer.tier)

\* Minutes that may have been pruned.
OldMinute(t) ==
  /\ BucketEnd(2, t) <= Since(clock, settings.keep[2])
  /\ \A c \in Dependents(2, settings.on) : BucketEnd(2, t) <= wm[c]
InFiner(k, t) == count[1][t] > 0 \/ count[2][t] > 0 \/ count[Source(k, settings.on)][t] > 0
FoldedAt(k, t) == InFiner(k, t) /\ BucketEnd(k, t) <= wm[k] => t \in folded[k]
FiveAt(t) ==
  (count[1][t] > 0 \/ count[2][t] > 0) /\ BucketEnd(3, t) <= wm[3] /\ wm[4] < BucketEnd(4, t)
    => count[3][t] > 0

\* A raw sample is in its minute, unless that was pruned.
MinutesHave ==
  \A t \in SampleTime : count[1][t] > 0 /\ ~Fresh(t) => count[2][t] > 0 \/ OldMinute(t)

\* What a finer tier counts behind a watermark has been folded.
FoldedBehind == \A k \in settings.on : \A t \in SampleTime : ~Due(k, t) => FoldedAt(k, t)

\* Five minutes are kept until the hours have them: what minutes still count is in its five.
FivesHave == BothOn => \A t \in SampleTime : ~Due(3, t) => FiveAt(t)

HoursBehind == BothOn => wm[4] <= wm[3]

\* Where five minutes were written and not marked, the next tick has them to promote.
UnmarkedFives ==
  BothOn /\ wm[3] = 0 /\ (\E t \in SampleTime : count[3][t] > 0) =>
    \E u \in SampleTime : count[2][u] > 0 /\ IsComplete(3, BucketStart(3, u), clock)

TablesFold == MinutesHave /\ FoldedBehind /\ FivesHave /\ HoursBehind /\ UnmarkedFives

\* What an insert has looked up is as it was.
WriterKnows ==
  /\ writer.pc # "idle" => writer.keep = settings.keep
  /\ Unfolded => writer.tier = 3
  /\ Unfolded \/ writer.pc = "look" =>
       /\ \A k \in Coarse : k \in writer.behind <=> k < writer.tier /\ BucketStart(k, writer.at) < wm[k]
       /\ writer.on = {}
  /\ writer.pc = "flags" => \A k \in Coarse : k \in writer.on <=> k < writer.tier /\ k \in settings.on
  /\ writer.pc \in {"flags"} \cup Refolding =>
       \A k \in Coarse : k \in writer.behind <=> BucketStart(k, writer.at) < wm[k]
  /\ writer.pc \in {"look", "flags"} \cup Refolding => writer.now = clock
  /\ writer.pc \in Refolding => writer.on = settings.on
  /\ writer.pc \in {"target", "write"} => writer.tier \in writer.behind

\* What an insert is about to write is what its minute and its finer tier count.
WriterHolds ==
  /\ writer.pc = "raw" /\ ~writer.new => count[1][writer.at] > 0
  /\ writer.pc = "minute" =>
       \A t \in Bucket(2, writer.at) :
         /\ writer.held[t] > 0 => count[1][t] > 0 \/ count[2][t] > 0
         /\ count[1][t] > 0 => writer.held[t] > 0 \/ OldMinute(t)
  /\ writer.new /\ writer.pc \in {"look", "flags"} \cup Refolding => count[2][writer.at] > 0
  /\ writer.pc = "write" =>
       LET source == Source(writer.tier, settings.on)
           bucket == Bucket(writer.tier, writer.at)
       IN \/ /\ writer.held = Read(source, bucket)
             /\ BucketStart(writer.tier, writer.at) >= Since(clock, settings.keep[source])
          \/ writer.new /\ writer.held = Plus(Read(writer.tier, bucket), writer.at)
  /\ BothOn /\ writer.new /\ writer.pc \in Refolding /\ writer.tier = 4
       /\ BucketEnd(3, writer.at) <= wm[3] => count[3][writer.at] > 0

\* What a promotion has read and written still stands when it marks it.
Promotes(m) ==
  LET k == TierOf(m)
      S == Within(job[m].start, TargetEnd(m))
  IN /\ job[m].step = "seek" => job[m].search = wm[k] /\ (k = 3 /\ job[m].left = 0 => wm[3] > 0)
     /\ k = 3 => job[m].limit = {}
     /\ k = 4 /\ BothOn /\ job[m].step # "go" => job[m].limit = {wm[3]} \ {0}
     /\ job[m].step \in Begun =>
          /\ IsComplete(k, job[m].start, clock)
          /\ \A watermark \in job[m].limit : TargetEnd(m) <= watermark
          /\ \E t \in S : count[From(m)][t] > 0
          /\ \A t \in SampleTime : count[From(m)][t] > 0 /\ wm[k] < BucketEnd(k, t) =>
               job[m].start <= BucketStart(k, t)
     /\ job[m].step = "upsert" => job[m].held = Read(From(m), S)
     /\ job[m].step = "mark" =>
          \A t \in S : count[From(m)][t] > 0 => t \in folded[k] /\ count[k][t] > 0

TickFolds(m) ==
  /\ job[m].step = "now" => job[m].stage = 1
  /\ job[m].stage > 0 /\ job[m].step # "now" => job[m].now = clock
  /\ job[m].stage > 5 /\ BothOn /\ wm[3] = 0 => \A t \in SampleTime : count[3][t] = 0
  /\ In(m, "promote") => Promotes(m)

FoldInv == LoopInv /\ TablesFold /\ WriterKnows /\ WriterHolds /\ \A m \in Maintainer : TickFolds(m)

-----------------------------------------------------------------------------
(* Tiers and settings.                                                     *)
LEMMA SettingsTyped ==
  ASSUME LadderConstants, TypeOK
  PROVE  /\ settings.on \subseteq Coarse /\ settings.keep[2] \in Nat
         /\ settings.keep \in [Tier -> Nat] /\ clock \in Nat
<1>1. settings \in [keep : [Tier -> Nat], on : SUBSET Coarse] /\ clock \in Nat
  BY DEF LadderConstants, TypeOK
<1>2. 2 \in Tier
  BY DEF Tier
<1> QED BY <1>1, <1>2

LEMMA SourceFacts ==
  ASSUME NEW on \in SUBSET Coarse
  PROVE  /\ Source(3, on) = 2
         /\ 3 \in on => Source(4, on) = 3 /\ Dependents(2, on) = {3}
         /\ 3 \notin on => Source(4, on) = 2
         /\ 4 \in on => Dependents(3, on) = {4}
         /\ 3 \notin on /\ 4 \in on => Dependents(2, on) = {4}
         /\ \A k \in Coarse : Source(k, on) \in Tier
         /\ \A k \in Tier : Dependents(k, on) \subseteq Coarse
<1>1. /\ Source(3, on) = 2 /\ (3 \in on => Source(4, on) = 3) /\ (3 \notin on => Source(4, on) = 2)
      /\ \A k \in Coarse : Source(k, on) \in Tier
  BY DEF Source, Coarse, Tier
<1>2. \A k \in Tier : Dependents(k, on) \subseteq Coarse
  BY DEF Dependents
<1>3. on = {} \/ on = {3} \/ on = {4} \/ on = {3, 4}
  BY DEF Coarse
<1>4. 3 \in on => Dependents(2, on) = {3}
  BY <1>3 DEF Dependents
<1>5. 4 \in on => Dependents(3, on) = {4}
  BY <1>3 DEF Dependents
<1>6. 3 \notin on /\ 4 \in on => Dependents(2, on) = {4}
  BY <1>3 DEF Dependents
<1> QED BY <1>1, <1>2, <1>4, <1>5, <1>6

\* Each coarse tier that folds minutes is what they wait for.
LEMMA MinutesWait ==
  ASSUME NEW on \in SUBSET Coarse, NEW k \in on, Source(k, on) = 2
  PROVE  k \in Dependents(2, on)
<1>1. k = 3 \/ (k = 4 /\ 3 \notin on)
  BY SourceFacts DEF Coarse
<1> QED BY <1>1, SourceFacts

(* A bucket behind a watermark lies in one of the watermark's tier that is. *)
LEMMA BehindMark ==
  ASSUME LadderConstants, TypeOK, TablesOK, NEW k \in Coarse, NEW t \in SampleTime
  PROVE  /\ BucketEnd(k, t) <= wm[k] \/ wm[k] <= BucketStart(k, t)
         /\ \A j \in Tier : j <= k /\ BucketEnd(j, t) <= wm[k] => BucketEnd(k, t) <= wm[k]
         /\ BucketStart(k, t) \in Nat /\ BucketEnd(k, t) \in Nat /\ wm[k] \in Nat /\ t \in Nat
<1>1. t \in Nat /\ k \in Tier /\ wm[k] \in Nat
  BY SampleNat DEF Coarse, Tier, TypeOK
<1>2. PICK q \in Nat : wm[k] = q * Res[k]
  BY DEF TablesOK
<1>3. BucketEnd(k, t) <= wm[k] \/ wm[k] <= BucketStart(k, t)
  BY <1>1, <1>2, BeforeOrBehind
<1>4. BucketStart(k, t) \in Nat /\ BucketEnd(k, t) \in Nat
  BY <1>1, BucketBounds
<1>5. ASSUME NEW j \in Tier, j <= k, BucketEnd(j, t) <= wm[k]
      PROVE  BucketEnd(k, t) <= wm[k]
  <2>1. BucketStart(k, t) <= BucketStart(j, t)
    BY <1>1, <1>5, InCoarser
  <2>2. BucketStart(j, t) <= t /\ t < BucketEnd(j, t) /\ BucketStart(j, t) \in Nat /\ BucketEnd(j, t) \in Nat
    BY <1>1, BucketBounds
  <2> QED BY <1>1, <1>3, <1>4, <1>5, <2>1, <2>2
<1> QED BY <1>1, <1>3, <1>4, <1>5

(* What the invariant says of the variables.                               *)
LEMMA FoldFacts ==
  ASSUME LadderConstants, FoldInv
  PROVE  /\ LoopInv /\ TypeOK /\ TablesOK /\ WriterInv
         /\ TablesFold /\ WriterKnows /\ WriterHolds
         /\ settings.on \subseteq Coarse /\ clock \in Nat
         /\ \A k \in Tier : \A t \in SampleTime : count[k][t] \in Nat
         /\ \A k \in Coarse : wm[k] \in Nat
         /\ 1 \in Tier /\ 2 \in Tier /\ 3 \in Tier /\ 4 \in Tier /\ 3 \in Coarse /\ 4 \in Coarse
<1>1. LoopInv /\ TypeOK /\ TablesOK /\ WriterInv /\ TablesFold /\ WriterKnows /\ WriterHolds
  BY DEF FoldInv, LoopInv, IInv
<1>2. \A k \in Tier : \A t \in SampleTime : count[k][t] \in Nat
  BY <1>1 DEF TypeOK, Counts
<1>3. \A k \in Coarse : wm[k] \in Nat
  BY <1>1 DEF TypeOK
<1> QED BY <1>1, <1>2, <1>3, SettingsTyped DEF Tier, Coarse

(* The insert in progress.                                                 *)
LEMMA InsertTypes ==
  ASSUME TypeOK, LadderConstants, writer.pc # "idle"
  PROVE  /\ writer \in InsertState /\ writer.at \in SampleTime /\ writer.at \in Nat
         /\ writer.tier \in Coarse /\ writer.held \in Counts
         /\ writer.new \in BOOLEAN
<1>1. writer \in InsertState /\ writer.at \in SampleTime
  BY DEF TypeOK
<1> QED BY <1>1, SampleNat DEF InsertState

(* Whether minutes are old depends on neither the counts nor the insert.   *)
LEMMA StillOld ==
  ASSUME UNCHANGED <<clock, wm, settings>>, NEW t
  PROVE  OldMinute(t)' <=> OldMinute(t)
BY DEF OldMinute, Since, Dependents, BucketEnd, BucketStart

(* A step that changes no table: what an insert no longer holds back has    *)
(* been written, or needs not be.                                           *)
LEMMA TablesStand ==
  ASSUME TablesFold, UNCHANGED <<clock, count, wm, settings, folded>>,
         \A t \in SampleTime : Fresh(t) /\ ~Fresh(t)' =>
           (count[1][t] > 0 => count[2][t] > 0 \/ OldMinute(t)),
         \A k \in settings.on : \A t \in SampleTime : Due(k, t) /\ ~Due(k, t)' => FoldedAt(k, t),
         BothOn => \A t \in SampleTime : Due(3, t) /\ ~Due(3, t)' => FiveAt(t)
  PROVE  TablesFold'
<1>1. MinutesHave'
  <2> SUFFICES ASSUME NEW t \in SampleTime, count'[1][t] > 0, ~Fresh(t)'
               PROVE  count'[2][t] > 0 \/ OldMinute(t)'
    BY DEF MinutesHave
  <2> QED BY StillOld DEF TablesFold, MinutesHave
<1>2. FoldedBehind'
  <2> SUFFICES ASSUME NEW k \in settings'.on, NEW t \in SampleTime, ~Due(k, t)'
               PROVE  FoldedAt(k, t)'
    BY DEF FoldedBehind
  <2>1. FoldedAt(k, t)
    BY DEF TablesFold, FoldedBehind
  <2> QED BY <2>1 DEF FoldedAt, InFiner, Source, BucketEnd, BucketStart
<1>3. FivesHave'
  <2> SUFFICES ASSUME BothOn', NEW t \in SampleTime, ~Due(3, t)'
               PROVE  FiveAt(t)'
    BY DEF FivesHave
  <2>1. FiveAt(t)
    BY DEF TablesFold, FivesHave, BothOn
  <2> QED BY <2>1 DEF FiveAt, BucketEnd, BucketStart
<1>4. HoursBehind'
  BY DEF TablesFold, HoursBehind, BothOn
<1>5. UnmarkedFives'
  BY DEF TablesFold, UnmarkedFives, BothOn, IsComplete, BucketStart
<1> QED BY <1>1, <1>2, <1>3, <1>4, <1>5 DEF TablesFold

(* No insert is in progress.                                               *)
LEMMA IdleFolds ==
  ASSUME writer' = Idle
  PROVE  WriterKnows' /\ WriterHolds' /\ \A t : ~Fresh(t)' /\ \A k : ~Due(k, t)'
<1>1. writer'.pc = "idle" /\ writer'.new = FALSE
  BY DEF Idle
<1> QED BY <1>1 DEF WriterKnows, WriterHolds, Unfolded, Refolding, Fresh, Due

LEMMA IdleNow ==
  ASSUME writer = Idle
  PROVE  \A t : ~Fresh(t) /\ \A k : ~Due(k, t)
<1>1. writer.new = FALSE
  BY DEF Idle
<1> QED BY <1>1 DEF Fresh, Due

(* No tick is in progress.                                                 *)
LEMMA NoTickFolds ==
  ASSUME NEW m \in Maintainer, job'[m] = NoTick
  PROVE  TickFolds(m)'
<1>1. NoTick.stage = 0 /\ NoTick.step = ""
  BY DEF NoTick
<1>2. job'[m].stage = 0 /\ job'[m].step = ""
  BY <1>1
<1>3. ~(job'[m].stage > 0) /\ ~(job'[m].stage > 5) /\ job'[m].step # "now"
  <2>1. ~(0 > 0) /\ ~(0 > 5)
    OBVIOUS
  <2> QED BY <1>2, <2>1, Zenon
<1>4. ~In(m, "promote")'
  BY <1>3, Zenon DEF In
<1> QED BY <1>3, <1>4, Zenon DEF TickFolds

-----------------------------------------------------------------------------
(* Inserts.                                                                *)
LEMMA BeginsFolds ==
  ASSUME LadderConstants, FoldInv, NEW t \in SampleTime, InsertBegins(t)
  PROVE  TablesFold' /\ WriterKnows' /\ WriterHolds'
<1>1. /\ writer = Idle /\ UNCHANGED <<clock, count, wm, settings, folded>>
      /\ writer' = [Idle EXCEPT !.pc = "raw", !.at = t, !.new = count[1][t] = 0,
                                !.keep = settings.keep]
  BY DEF InsertBegins, time, tables
<1>2. TablesFold'
  BY <1>1, FoldFacts, IdleNow, TablesStand
<1>3. /\ writer'.pc = "raw" /\ writer'.keep = settings'.keep /\ writer'.tier = 3
      /\ writer'.behind = {} /\ writer'.on = {}
      /\ writer'.at = t /\ writer'.new = (count[1][t] = 0)
  BY <1>1 DEF Idle
<1>4. WriterKnows'
  <2>1. \A k \in Coarse : ~(k < 3)
    BY DEF Coarse
  <2> QED BY <1>3, <2>1 DEF WriterKnows, Unfolded, Refolding
<1>5. WriterHolds'
  <2>1. count[1][t] \in Nat
    BY FoldFacts
  <2>2. ~writer'.new => ~(count[1][t] = 0)
    BY <1>3
  <2>3. ~writer'.new => count'[1][t] > 0
    BY <1>1, <2>1, <2>2
  <2> QED BY <1>3, <2>3 DEF WriterHolds, Refolding
<1> QED BY <1>2, <1>4, <1>5

LEMMA InsertsRawFolds ==
  ASSUME LadderConstants, FoldInv, InsertsRaw
  PROVE  TablesFold' /\ WriterKnows' /\ WriterHolds'
<1> DEFINE a == writer.at
<1>1. /\ TypeOK /\ writer.pc = "raw" /\ writer \in InsertState /\ a \in SampleTime
      /\ UNCHANGED <<clock, wm, settings, folded>>
      /\ count' = [count EXCEPT ![1][a] = 1]
      /\ writer' = [writer EXCEPT !.pc = "measure"]
  BY FoldFacts, InsertTypes DEF InsertsRaw, time
<1>2. /\ writer'.pc = "measure" /\ writer'.at = a /\ writer'.new = writer.new
      /\ writer'.keep = writer.keep /\ writer'.tier = writer.tier
      /\ writer'.behind = writer.behind /\ writer'.on = writer.on
  BY <1>1 DEF InsertState
<1>3. \A k \in Tier : \A t \in SampleTime : k # 1 \/ t # a => count'[k][t] = count[k][t]
  BY <1>1 DEF TypeOK, Counts
<1>4. ~writer.new => count[1][a] > 0
  BY <1>1, FoldFacts DEF WriterHolds
<1>5. \A t \in SampleTime : Fresh(t)' <=> Fresh(t)
  BY <1>1, <1>2 DEF Fresh, Unfolded
<1>6. \A k : \A t \in SampleTime : Due(k, t)' <=> (writer.new /\ t = a)
  BY <1>2 DEF Due, Refolding
<1>7. \A k : \A t \in SampleTime : Due(k, t) <=> (writer.new /\ t = a)
  BY <1>1 DEF Due, Refolding
<1>8. ASSUME NEW t \in SampleTime, ~(writer.new /\ t = a), count'[1][t] > 0
      PROVE  count[1][t] > 0
  BY <1>3, <1>4, <1>8, FoldFacts
<1> HIDE DEF a
<1>9. \A t \in SampleTime : count'[2][t] = count[2][t] /\ count'[3][t] = count[3][t]
  BY <1>3, FoldFacts
<1>10. MinutesHave'
  <2> SUFFICES ASSUME NEW t \in SampleTime, count'[1][t] > 0, ~Fresh(t)'
               PROVE  count'[2][t] > 0 \/ OldMinute(t)'
    BY DEF MinutesHave
  <2>1. ~Fresh(t)
    BY <1>5
  <2>2. ~(writer.new /\ t = a)
    BY <1>1, <2>1 DEF Fresh, Unfolded, a
  <2>3. count[1][t] > 0
    BY <1>8, <2>2
  <2>4. count[2][t] > 0 \/ OldMinute(t)
    BY <2>1, <2>3, FoldFacts DEF TablesFold, MinutesHave
  <2> QED BY <1>1, <1>9, <2>4, StillOld
<1>11. FoldedBehind'
  <2> SUFFICES ASSUME NEW k \in settings'.on, NEW t \in SampleTime, ~Due(k, t)'
               PROVE  FoldedAt(k, t)'
    BY DEF FoldedBehind
  <2>1. k \in settings.on /\ settings'.on = settings.on /\ ~(writer.new /\ t = a)
    BY <1>1, <1>6
  <2>2. FoldedAt(k, t)
    BY <1>7, <2>1, FoldFacts DEF TablesFold, FoldedBehind
  <2>3. Source(k, settings.on) = 2 \/ Source(k, settings.on) = 3
    BY DEF Source
  <2>4. InFiner(k, t)' => InFiner(k, t)
    BY <1>8, <1>9, <2>1, <2>3 DEF InFiner, Source
  <2> QED BY <1>1, <2>2, <2>4 DEF FoldedAt, BucketEnd, BucketStart
<1>12. FivesHave'
  <2> SUFFICES ASSUME BothOn', NEW t \in SampleTime, ~Due(3, t)'
               PROVE  FiveAt(t)'
    BY DEF FivesHave
  <2>1. BothOn /\ ~(writer.new /\ t = a)
    BY <1>1, <1>6 DEF BothOn
  <2>2. FiveAt(t)
    BY <1>7, <2>1, FoldFacts DEF TablesFold, FivesHave
  <2> QED BY <1>1, <1>8, <1>9, <2>1, <2>2 DEF FiveAt, BucketEnd, BucketStart
<1>13. HoursBehind'
  BY <1>1, FoldFacts DEF TablesFold, HoursBehind, BothOn
<1>14. UnmarkedFives'
  BY <1>1, <1>9, FoldFacts DEF TablesFold, UnmarkedFives, BothOn, IsComplete, BucketStart
<1>15. WriterKnows'
  BY <1>1, <1>2, FoldFacts DEF WriterKnows, Unfolded, Refolding, BucketStart, a
<1>16. WriterHolds'
  BY <1>2 DEF WriterHolds, Refolding
<1> QED BY <1>10, <1>11, <1>12, <1>13, <1>14, <1>15, <1>16 DEF TablesFold

(* Where a step of an insert changes only the insert.                      *)
LEMMA Stands ==
  ASSUME LadderConstants, FoldInv, UNCHANGED <<time, tables, job>>,
         writer'.new = writer.new, writer'.at = writer.at,
         Unfolded' <=> Unfolded,
         writer.pc \in Refolding => writer'.pc \in Refolding /\ writer'.tier = writer.tier,
         writer'.pc \in Refolding /\ writer.pc \notin Refolding => writer'.tier = 3
  PROVE  TablesFold'
<1>1. UNCHANGED <<clock, count, wm, settings, folded>>
  BY DEF time, tables
<1>2. \A t \in SampleTime : Fresh(t) => Fresh(t)'
  BY DEF Fresh
<1>3. \A k \in settings.on : \A t \in SampleTime : Due(k, t) => Due(k, t)'
  BY FoldFacts DEF Due, Coarse
<1>4. \A t \in SampleTime : Due(3, t) => Due(3, t)'
  BY DEF Due
<1> QED BY <1>1, <1>2, <1>3, <1>4, FoldFacts, TablesStand

(* An insert that has stopped before the refold of a sample is a repeat.   *)
LEMMA Stops ==
  ASSUME LadderConstants, FoldInv, UNCHANGED <<time, tables, job>>, writer' = Idle, ~writer.new
  PROVE  TablesFold'
<1>1. UNCHANGED <<clock, count, wm, settings, folded>>
  BY DEF time, tables
<1>2. \A t : ~Fresh(t) /\ \A k : ~Due(k, t)
  BY DEF Fresh, Due
<1> QED BY <1>1, <1>2, FoldFacts, TablesStand

LEMMA MeasuresFolds ==
  ASSUME LadderConstants, FoldInv, Measures
  PROVE  TablesFold' /\ WriterKnows' /\ WriterHolds'
<1> DEFINE a == writer.at
           S == Bucket(2, a)
           merged == Plus(Read(2, S), a)
<1>1. /\ TypeOK /\ writer.pc = "measure" /\ writer \in InsertState /\ a \in SampleTime
      /\ UNCHANGED <<time, tables, job>>
      /\ UNCHANGED <<clock, count, wm, settings, folded>>
  BY FoldFacts, InsertTypes DEF Measures, time, tables
<1>2. \/ writer' = [writer EXCEPT !.pc = "rebuild"]
      \/ writer.new /\ writer' = [writer EXCEPT !.pc = "minute", !.held = merged]
      \/ ~writer.new /\ writer' = Idle
  BY DEF Measures
<1>3. CASE ~writer.new /\ writer' = Idle
  BY <1>1, <1>3, Stops, IdleFolds
<1>4. CASE writer' = [writer EXCEPT !.pc = "rebuild"]
  <2>1. /\ writer'.pc = "rebuild" /\ writer'.at = a /\ writer'.new = writer.new
        /\ writer'.keep = writer.keep /\ writer'.tier = writer.tier
        /\ writer'.behind = writer.behind /\ writer'.on = writer.on
    BY <1>1, <1>4 DEF InsertState
  <2>2. TablesFold'
    BY <1>1, <2>1, Stands DEF Unfolded, Refolding
  <2>3. WriterKnows'
    BY <1>1, <2>1, FoldFacts DEF WriterKnows, Unfolded, Refolding, BucketStart
  <2>4. WriterHolds'
    BY <2>1 DEF WriterHolds, Refolding
  <2> QED BY <2>2, <2>3, <2>4
<1>5. CASE writer.new /\ writer' = [writer EXCEPT !.pc = "minute", !.held = merged]
  <2> HIDE DEF merged
  <2>1. /\ writer'.pc = "minute" /\ writer'.at = a /\ writer'.new = writer.new
        /\ writer'.keep = writer.keep /\ writer'.tier = writer.tier
        /\ writer'.behind = writer.behind /\ writer'.on = writer.on /\ writer'.held = merged
    BY <1>1, <1>5 DEF InsertState
  <2>2. TablesFold'
    BY <1>1, <2>1, Stands DEF Unfolded, Refolding
  <2>3. WriterKnows'
    BY <1>1, <2>1, FoldFacts DEF WriterKnows, Unfolded, Refolding, BucketStart
  <2>4. ASSUME NEW t \in S
        PROVE  /\ merged[t] > 0 => count[1][t] > 0 \/ count[2][t] > 0
               /\ count[1][t] > 0 => merged[t] > 0 \/ OldMinute(t)
    <3>1. t \in SampleTime /\ count[2][t] \in Nat
      BY FoldFacts DEF Bucket, Within
    <3>2. Read(2, S) \in Counts /\ Read(2, S)[t] = count[2][t]
      BY <3>1, ReadTyped, FoldFacts DEF Read
    <3> DEFINE found == Read(2, S)
    <3> HIDE DEF found, S
    <3>3. merged[t] = IF t = a THEN count[2][t] + 1 ELSE count[2][t]
      BY <1>1, <3>1, <3>2 DEF merged, Plus, Counts, found
    <3>4. CASE t = a
      <4>1. count[1][a] > 0
        BY <1>1, FoldFacts DEF WriterInv, WriterHeld
      <4> QED BY <3>1, <3>3, <3>4, <4>1
    <3>5. CASE t # a
      <4>1. ~Fresh(t)
        BY <3>5 DEF Fresh
      <4>2. count[1][t] > 0 => count[2][t] > 0 \/ OldMinute(t)
        BY <3>1, <4>1, FoldFacts DEF TablesFold, MinutesHave
      <4> QED BY <3>3, <3>5, <4>2
    <3> QED BY <3>4, <3>5
  <2>5. \A t : OldMinute(t)' <=> OldMinute(t)
    BY <1>1, StillOld
  <2>6. WriterHolds'
    <3>1. Bucket(2, writer'.at) = S
      BY <2>1
    <3> HIDE DEF S
    <3>2. Bucket(2, writer.at)' = S
      BY <3>1 DEF Bucket, Within, BucketStart, BucketEnd
    <3> QED BY <1>1, <2>1, <2>4, <2>5, <3>2 DEF WriterHolds, Refolding
  <2> QED BY <2>2, <2>3, <2>6
<1> QED BY <1>2, <1>3, <1>4, <1>5

LEMMA RebuildsFolds ==
  ASSUME LadderConstants, FoldInv, Rebuilds
  PROVE  TablesFold' /\ WriterKnows' /\ WriterHolds'
<1> DEFINE a == writer.at
           S == Bucket(2, a)
           raw == Read(1, S)
<1>1. /\ TypeOK /\ writer.pc = "rebuild" /\ writer \in InsertState /\ a \in SampleTime
      /\ UNCHANGED <<time, tables, job>>
      /\ UNCHANGED <<clock, count, wm, settings, folded>>
      /\ writer' = [writer EXCEPT !.pc = "minute", !.held = raw]
  BY FoldFacts, InsertTypes DEF Rebuilds, time, tables
<1> HIDE DEF raw
<1>2. /\ writer'.pc = "minute" /\ writer'.at = a /\ writer'.new = writer.new
      /\ writer'.keep = writer.keep /\ writer'.tier = writer.tier
      /\ writer'.behind = writer.behind /\ writer'.on = writer.on /\ writer'.held = raw
  BY <1>1 DEF InsertState
<1>3. TablesFold'
  BY <1>1, <1>2, Stands DEF Unfolded, Refolding
<1>4. WriterKnows'
  BY <1>1, <1>2, FoldFacts DEF WriterKnows, Unfolded, Refolding, BucketStart
<1>5. ASSUME NEW t \in S
      PROVE  raw[t] = count[1][t]
  <2>1. t \in SampleTime
    BY DEF Bucket, Within
  <2> QED BY <2>1 DEF raw, Read
<1>6. WriterHolds'
  <2>1. Bucket(2, writer'.at) = S
    BY <1>2
  <2> HIDE DEF S
  <2>2. Bucket(2, writer.at)' = S
    BY <2>1 DEF Bucket, Within, BucketStart, BucketEnd
  <2> QED BY <1>1, <1>2, <1>5, <2>2 DEF WriterHolds, Refolding
<1> QED BY <1>3, <1>4, <1>6

LEMMA WritesMinuteFolds ==
  ASSUME LadderConstants, FoldInv, WritesMinute
  PROVE  TablesFold' /\ WriterKnows' /\ WriterHolds'
<1> DEFINE a == writer.at
           S == Bucket(2, a)
<1>1. /\ TypeOK /\ writer.pc = "minute" /\ writer \in InsertState /\ a \in SampleTime
      /\ a \in Nat /\ writer.held \in Counts
      /\ UNCHANGED <<clock, wm, settings, folded>>
      /\ count' = Written(2, S, writer.held)
      /\ writer' = [writer EXCEPT !.pc = "look", !.now = clock, !.held = Empty]
  BY FoldFacts, InsertTypes DEF WritesMinute, time
<1>2. /\ writer'.pc = "look" /\ writer'.at = a /\ writer'.new = writer.new
      /\ writer'.keep = writer.keep /\ writer'.tier = writer.tier
      /\ writer'.behind = writer.behind /\ writer'.on = writer.on /\ writer'.now = clock
  BY <1>1 DEF InsertState
<1>3. a \in S /\ S \subseteq SampleTime
  <2>1. a \in S
    BY <1>1, InBucket, FoldFacts
  <2> QED BY <2>1 DEF Bucket, Within
<1>4. ASSUME NEW k \in Tier, NEW t \in SampleTime
      PROVE  count'[k][t] = IF k = 2 /\ t \in S THEN writer.held[t] ELSE count[k][t]
  <2> HIDE DEF S
  <2> QED BY <1>1, FoldFacts, WrittenAt
<1>5. ASSUME NEW t \in S
      PROVE  /\ writer.held[t] > 0 => count[1][t] > 0 \/ count[2][t] > 0
             /\ count[1][t] > 0 => writer.held[t] > 0 \/ OldMinute(t)
  BY <1>1, FoldFacts DEF WriterHolds
<1>6. writer.held[a] > 0
  BY <1>1, FoldFacts DEF WriterInv, WriterHeld
<1> HIDE DEF a, S
<1>7. ASSUME NEW t \in SampleTime
      PROVE  /\ count'[1][t] = count[1][t] /\ count'[3][t] = count[3][t]
             /\ t \notin S => count'[2][t] = count[2][t]
             /\ t \in S => count'[2][t] = writer.held[t]
             /\ count'[2][t] > 0 => count[1][t] > 0 \/ count[2][t] > 0
  <2>1. /\ count'[1][t] = count[1][t] /\ count'[3][t] = count[3][t]
        /\ t \notin S => count'[2][t] = count[2][t]
        /\ t \in S => count'[2][t] = writer.held[t]
    BY <1>4, FoldFacts
  <2> QED BY <1>5, <2>1
<1>8. \A t \in SampleTime : \A k : Due(k, t)' <=> Due(k, t)
  BY <1>1, <1>2 DEF Due, Refolding, a
<1>9. MinutesHave'
  <2> SUFFICES ASSUME NEW t \in SampleTime, count'[1][t] > 0, ~Fresh(t)'
               PROVE  count'[2][t] > 0 \/ OldMinute(t)'
    BY DEF MinutesHave
  <2>1. CASE t \in S
    BY <1>1, <1>5, <1>7, <2>1, StillOld
  <2>2. CASE t \notin S
    <3>1. ~Fresh(t)
      BY <1>3, <2>2 DEF Fresh, a
    <3>2. count[2][t] > 0 \/ OldMinute(t)
      BY <1>7, <3>1, FoldFacts DEF TablesFold, MinutesHave
    <3> QED BY <1>1, <1>7, <2>2, <3>2, StillOld
  <2> QED BY <2>1, <2>2
<1>10. FoldedBehind'
  <2> SUFFICES ASSUME NEW k \in settings'.on, NEW t \in SampleTime, ~Due(k, t)'
               PROVE  FoldedAt(k, t)'
    BY DEF FoldedBehind
  <2>1. FoldedAt(k, t)
    BY <1>1, <1>8, FoldFacts DEF TablesFold, FoldedBehind
  <2>2. Source(k, settings.on) = 2 \/ Source(k, settings.on) = 3
    BY DEF Source
  <2>3. Source(k, settings.on)' = Source(k, settings.on)
    BY <1>1 DEF Source
  <2>4. InFiner(k, t)' => InFiner(k, t)
    BY <1>7, <2>2, <2>3 DEF InFiner
  <2> QED BY <1>1, <2>1, <2>4 DEF FoldedAt, BucketEnd, BucketStart
<1>11. FivesHave'
  <2> SUFFICES ASSUME BothOn', NEW t \in SampleTime, ~Due(3, t)'
               PROVE  FiveAt(t)'
    BY DEF FivesHave
  <2>1. FiveAt(t)
    BY <1>1, <1>8, FoldFacts DEF TablesFold, FivesHave, BothOn
  <2> QED BY <1>1, <1>7, <2>1 DEF FiveAt, BucketEnd, BucketStart
<1>12. HoursBehind'
  BY <1>1, FoldFacts DEF TablesFold, HoursBehind, BothOn
<1>13. UnmarkedFives'
  <2> SUFFICES ASSUME BothOn', wm'[3] = 0, NEW t \in SampleTime, count'[3][t] > 0
               PROVE  \E u \in SampleTime : count'[2][u] > 0 /\ IsComplete(3, BucketStart(3, u), clock')
    BY DEF UnmarkedFives, IsComplete, BucketStart
  <2>1. BothOn /\ wm[3] = 0 /\ count[3][t] > 0
    BY <1>1, <1>7 DEF BothOn
  <2>2. PICK u \in SampleTime : count[2][u] > 0 /\ IsComplete(3, BucketStart(3, u), clock)
    BY <2>1, FoldFacts DEF TablesFold, UnmarkedFives
  <2>3. IsComplete(3, BucketStart(3, u), clock')
    BY <1>1, <2>2
  <2>4. CASE u \notin S
    BY <1>7, <2>2, <2>3, <2>4
  <2>5. CASE u \in S
    <3>1. u \in Nat
      BY SampleNat
    <3>2. BucketStart(2, a) <= u /\ u < BucketEnd(2, a)
      BY <2>5 DEF S, Bucket, Within
    <3>3. BucketStart(3, u) = BucketStart(3, a)
      BY <1>1, <3>1, <3>2, FoldFacts, SameCoarser DEF a
    <3>4. count'[2][a] > 0 /\ a \in SampleTime
      BY <1>3, <1>6, <1>7
    <3>5. IsComplete(3, BucketStart(3, a), clock')
      BY <2>3, <3>3
    <3> QED BY <3>4, <3>5
  <2> QED BY <2>4, <2>5
<1>14. WriterKnows'
  BY <1>1, <1>2, FoldFacts DEF WriterKnows, Unfolded, Refolding, BucketStart, a
<1>15. WriterHolds'
  <2>1. count'[2][a] > 0
    BY <1>3, <1>6, <1>7
  <2> QED BY <1>2, <2>1 DEF WriterHolds, Refolding, a
<1> QED BY <1>9, <1>10, <1>11, <1>12, <1>13, <1>14, <1>15 DEF TablesFold

LEMMA LooksBehindFolds ==
  ASSUME LadderConstants, FoldInv, LooksBehind
  PROVE  TablesFold' /\ WriterKnows' /\ WriterHolds'
<1> DEFINE a == writer.at
           k == writer.tier
           seen == IF BucketStart(k, a) < wm[k] THEN {k} ELSE {}
<1>1. /\ TypeOK /\ writer.pc = "look" /\ writer \in InsertState /\ a \in SampleTime
      /\ k \in Coarse /\ UNCHANGED <<time, tables, job>>
      /\ UNCHANGED <<clock, count, wm, settings, folded>>
      /\ writer' = [writer EXCEPT !.pc = IF k = 3 THEN "look" ELSE "flags",
                                  !.tier = IF k = 3 THEN 4 ELSE 3,
                                  !.behind = @ \cup seen]
  BY FoldFacts, InsertTypes DEF LooksBehind, time, tables
<1> HIDE DEF seen
<1>2. /\ writer'.pc = (IF k = 3 THEN "look" ELSE "flags")
      /\ writer'.tier = (IF k = 3 THEN 4 ELSE 3)
      /\ writer'.behind = writer.behind \cup seen
      /\ writer'.at = a /\ writer'.new = writer.new /\ writer'.keep = writer.keep
      /\ writer'.on = writer.on /\ writer'.now = writer.now
  BY <1>1 DEF InsertState
<1>3. TablesFold'
  BY <1>1, <1>2, Stands DEF Unfolded, Refolding
<1>4. /\ writer.on = {} /\ writer.now = clock /\ writer.keep = settings.keep
      /\ \A j \in Coarse : j \in writer.behind <=> j < k /\ BucketStart(j, a) < wm[j]
  BY <1>1, FoldFacts DEF WriterKnows
<1>5. \A j \in Coarse :
        j \in writer'.behind <=> (j < k \/ j = k) /\ BucketStart(j, a) < wm[j]
  BY <1>2, <1>4 DEF seen
<1>6. WriterKnows'
  <2>1. CASE k = 3
    <3>1. writer'.pc = "look" /\ writer'.tier = 4
      BY <1>2, <2>1
    <3>2. \A j \in Coarse : j < 4 <=> j < k \/ j = k
      BY <2>1 DEF Coarse
    <3>3. \A j \in Coarse : j \in writer'.behind <=> j < writer'.tier /\ BucketStart(j, a) < wm[j]
      BY <1>5, <3>1, <3>2
    <3> QED BY <1>1, <1>2, <1>4, <3>1, <3>3 DEF WriterKnows, Unfolded, Refolding, BucketStart
  <2>2. CASE k = 4
    <3>1. writer'.pc = "flags" /\ writer'.tier = 3
      BY <1>2, <2>2
    <3>2. \A j \in Coarse : (j < k \/ j = k) /\ ~(j < 3)
      BY <2>2 DEF Coarse
    <3>3. \A j \in Coarse : j \in writer'.behind <=> BucketStart(j, a) < wm[j]
      BY <1>5, <3>2
    <3>4. \A j \in Coarse : j \in writer'.on <=> j < writer'.tier /\ j \in settings.on
      BY <1>2, <1>4, <3>1, <3>2
    <3> QED BY <1>1, <1>2, <1>4, <3>1, <3>3, <3>4 DEF WriterKnows, Unfolded, Refolding, BucketStart
  <2> QED BY <1>1, <2>1, <2>2 DEF Coarse
<1>7. WriterHolds'
  <2>1. writer.new => count[2][a] > 0
    BY <1>1, FoldFacts DEF WriterHolds
  <2>2. writer'.pc \in {"look", "flags"}
    BY <1>2
  <2> QED BY <1>1, <1>2, <2>1, <2>2 DEF WriterHolds, Refolding
<1> QED BY <1>3, <1>6, <1>7

LEMMA LooksAtFlagsFolds ==
  ASSUME LadderConstants, FoldInv, LooksAtFlags
  PROVE  TablesFold' /\ WriterKnows' /\ WriterHolds'
<1> DEFINE a == writer.at
           k == writer.tier
<1>1. /\ TypeOK /\ writer.pc = "flags" /\ writer \in InsertState /\ a \in SampleTime
      /\ k \in Coarse /\ UNCHANGED <<time, tables, job>>
      /\ UNCHANGED <<clock, count, wm, settings, folded>>
      /\ writer' = [writer EXCEPT !.pc = IF k = 3 THEN "flags" ELSE "source",
                                  !.tier = IF k = 3 THEN 4 ELSE 3,
                                  !.on = @ \cup (enabled \cap {k})]
  BY FoldFacts, InsertTypes DEF LooksAtFlags, time, tables
<1>2. /\ writer'.pc = (IF k = 3 THEN "flags" ELSE "source")
      /\ writer'.tier = (IF k = 3 THEN 4 ELSE 3)
      /\ writer'.on = writer.on \cup (enabled \cap {k})
      /\ writer'.at = a /\ writer'.new = writer.new /\ writer'.keep = writer.keep
      /\ writer'.behind = writer.behind /\ writer'.now = writer.now
  BY <1>1 DEF InsertState
<1>3. TablesFold'
  BY <1>1, <1>2, Stands DEF Unfolded, Refolding
<1>4. /\ writer.now = clock /\ writer.keep = settings.keep /\ writer.on \subseteq Coarse
      /\ enabled = settings.on /\ settings.on \subseteq Coarse
      /\ \A j \in Coarse : j \in writer.on <=> j < k /\ j \in settings.on
      /\ \A j \in Coarse : j \in writer.behind <=> BucketStart(j, a) < wm[j]
  BY <1>1, FoldFacts DEF WriterKnows, TablesOK, InsertState
<1>5. \A j \in Coarse : j \in writer'.on <=> (j < k \/ j = k) /\ j \in settings.on
  BY <1>2, <1>4
<1>6. WriterKnows'
  <2>1. CASE k = 3
    <3>1. writer'.pc = "flags" /\ writer'.tier = 4
      BY <1>2, <2>1
    <3>2. \A j \in Coarse : j < 4 <=> j < k \/ j = k
      BY <2>1 DEF Coarse
    <3>3. \A j \in Coarse : j \in writer'.on <=> j < writer'.tier /\ j \in settings.on
      BY <1>5, <3>1, <3>2
    <3> QED BY <1>1, <1>2, <1>4, <3>1, <3>3 DEF WriterKnows, Unfolded, Refolding, BucketStart
  <2>2. CASE k = 4
    <3>1. writer'.pc = "source" /\ writer'.tier = 3
      BY <1>2, <2>2
    <3>2. \A j \in Coarse : j < k \/ j = k
      BY <2>2 DEF Coarse
    <3>3. writer'.on \subseteq Coarse
      BY <1>2, <1>4
    <3>4. writer'.on = settings.on
      BY <1>4, <1>5, <3>2, <3>3
    <3> QED BY <1>1, <1>2, <1>4, <3>1, <3>4 DEF WriterKnows, Unfolded, Refolding, BucketStart
  <2> QED BY <1>1, <2>1, <2>2 DEF Coarse
<1>7. WriterHolds'
  <2>1. writer.new => count[2][a] > 0
    BY <1>1, FoldFacts DEF WriterHolds
  <2>2. writer'.pc = "flags" \/ (writer'.pc = "source" /\ writer'.tier = 3)
    BY <1>2
  <2> QED BY <1>1, <1>2, <2>1, <2>2 DEF WriterHolds, Refolding
<1> QED BY <1>3, <1>6, <1>7

(* What a refold goes on with, or stops.                                   *)
LEMMA RefoldedIs ==
  ASSUME writer \in InsertState
  PROVE  /\ writer.tier = 3 =>
              /\ Refolded.pc = "source" /\ Refolded.tier = 4 /\ Refolded.at = writer.at
              /\ Refolded.new = writer.new /\ Refolded.keep = writer.keep
              /\ Refolded.now = writer.now /\ Refolded.behind = writer.behind
              /\ Refolded.on = writer.on
         /\ writer.tier # 3 => Refolded = Idle
BY DEF InsertState, Refolded

(* What the insert knows still holds for the next tier.                    *)
LEMMA KnowsNext ==
  ASSUME LadderConstants, FoldInv, writer.pc \in {"source", "write"}, writer' = Refolded,
         UNCHANGED <<clock, wm, settings>>
  PROVE  WriterKnows'
<1>1. writer \in InsertState /\ writer.pc # "idle"
  BY FoldFacts DEF TypeOK
<1>2. CASE writer.tier # 3
  BY <1>1, <1>2, IdleFolds, RefoldedIs
<1>3. CASE writer.tier = 3
  <2>1. /\ writer'.pc = "source" /\ writer'.at = writer.at /\ writer'.keep = writer.keep
        /\ writer'.now = writer.now /\ writer'.behind = writer.behind /\ writer'.on = writer.on
    BY <1>1, <1>3, RefoldedIs
  <2>2. WriterKnows
    BY FoldFacts
  <2> QED BY <1>1, <2>1, <2>2 DEF WriterKnows, Unfolded, Refolding, BucketStart
<1> QED BY <1>2, <1>3

LEMMA ReadsSourceFolds ==
  ASSUME LadderConstants, FoldInv, ReadsSource
  PROVE  TablesFold' /\ WriterKnows' /\ WriterHolds'
<1> DEFINE a == writer.at
           k == writer.tier
           source == Source(k, writer.on)
           finer == Read(source, Bucket(k, a))
           whole == finer # Empty /\ BucketStart(k, a) >= Since(writer.now, writer.keep[source])
<1>1. /\ TypeOK /\ writer.pc = "source" /\ writer \in InsertState /\ a \in SampleTime
      /\ k \in Coarse /\ k \in Tier /\ UNCHANGED <<time, tables, job>>
      /\ UNCHANGED <<clock, count, wm, settings, folded>>
  BY FoldFacts, InsertTypes DEF ReadsSource, time, tables, Coarse, Tier
<1>2. \/ writer' = [writer EXCEPT !.pc = "write", !.held = finer] /\ k \in writer.behind /\ whole
      \/ writer' = [writer EXCEPT !.pc = "target"] /\ k \in writer.behind
      \/ writer' = Refolded /\ (k \in writer.behind /\ k \in writer.on => ~writer.new)
  BY DEF ReadsSource
<1>3. /\ writer.now = clock /\ writer.keep = settings.keep /\ writer.on = settings.on
      /\ \A j \in Coarse : j \in writer.behind <=> BucketStart(j, a) < wm[j]
  BY <1>1, FoldFacts DEF WriterKnows, Refolding
<1>4. /\ writer.new => count[2][a] > 0
      /\ BothOn /\ writer.new /\ k = 4 /\ BucketEnd(3, a) <= wm[3] => count[3][a] > 0
  BY <1>1, FoldFacts DEF WriterHolds, Refolding
<1>5. CASE writer' = [writer EXCEPT !.pc = "write", !.held = finer] /\ k \in writer.behind /\ whole
  <2>1. finer = Read(Source(k, settings.on), Bucket(k, a))
        /\ BucketStart(k, a) >= Since(clock, settings.keep[Source(k, settings.on)])
    BY <1>3, <1>5
  <2> HIDE DEF finer, whole
  <2>2. /\ writer'.pc = "write" /\ writer'.at = a /\ writer'.new = writer.new
        /\ writer'.keep = writer.keep /\ writer'.tier = k /\ writer'.now = writer.now
        /\ writer'.behind = writer.behind /\ writer'.on = writer.on /\ writer'.held = finer
    BY <1>1, <1>5 DEF InsertState
  <2>3. TablesFold'
    BY <1>1, <2>2, Stands DEF Unfolded, Refolding
  <2>4. WriterKnows'
    BY <1>1, <1>3, <1>5, <2>2 DEF WriterKnows, Unfolded, Refolding, BucketStart
  <2>5. WriterHolds'
    BY <1>1, <1>4, <2>1, <2>2
    DEF WriterHolds, Refolding, BothOn, Read, Bucket, Within, BucketStart, BucketEnd, Source, Since
  <2> QED BY <2>3, <2>4, <2>5
<1>6. CASE writer' = [writer EXCEPT !.pc = "target"] /\ k \in writer.behind
  <2>2. /\ writer'.pc = "target" /\ writer'.at = a /\ writer'.new = writer.new
        /\ writer'.keep = writer.keep /\ writer'.tier = k /\ writer'.now = writer.now
        /\ writer'.behind = writer.behind /\ writer'.on = writer.on
    BY <1>1, <1>6 DEF InsertState
  <2>3. TablesFold'
    BY <1>1, <2>2, Stands DEF Unfolded, Refolding
  <2>4. WriterKnows'
    BY <1>1, <1>3, <1>6, <2>2 DEF WriterKnows, Unfolded, Refolding, BucketStart
  <2>5. WriterHolds'
    BY <1>1, <1>4, <2>2 DEF WriterHolds, Refolding, BothOn, BucketStart, BucketEnd
  <2> QED BY <2>3, <2>4, <2>5
<1>7. CASE writer' = Refolded /\ (k \in writer.behind /\ k \in writer.on => ~writer.new)
  <2>1. WriterKnows'
    BY <1>1, <1>7, KnowsNext
  <2>2. ASSUME NEW t \in SampleTime, writer.new, t = a, k \in settings.on
        PROVE  ~(BucketEnd(k, t) <= wm[k])
    <3>1. ~(BucketStart(k, a) < wm[k])
      BY <1>1, <1>3, <1>7, <2>2
    <3>2. /\ BucketStart(k, a) \in Nat /\ BucketEnd(k, a) \in Nat
          /\ BucketStart(k, a) <= a /\ a < BucketEnd(k, a) /\ a \in Nat
      BY <1>1, BucketBounds, SampleNat
    <3>3. wm[k] \in Nat
      BY <1>1, FoldFacts
    <3> HIDE DEF a, k
    <3> QED BY <2>2, <3>1, <3>2, <3>3
  <2>3. \A t \in SampleTime : ~Fresh(t)
    BY <1>1 DEF Fresh, Unfolded
  <2>4. CASE k = 3
    <3>1. /\ writer'.pc = "source" /\ writer'.tier = 4 /\ writer'.at = a
          /\ writer'.new = writer.new
      BY <1>1, <1>7, <2>4, RefoldedIs
    <3>2. ASSUME NEW j \in settings.on, NEW t \in SampleTime, Due(j, t), ~Due(j, t)'
          PROVE  FoldedAt(j, t)
      <4>1. writer.new /\ t = a
        BY <3>2 DEF Due
      <4>2. j \in Coarse
        BY FoldFacts
      <4>3. j = 3
        BY <3>1, <3>2, <4>1, <4>2 DEF Due, Coarse
      <4> QED BY <2>2, <2>4, <3>2, <4>1, <4>3 DEF FoldedAt
    <3>3. ASSUME BothOn, NEW t \in SampleTime, Due(3, t)
          PROVE  FiveAt(t)
      BY <2>2, <2>4, <3>3 DEF Due, BothOn, Coarse, FiveAt
    <3>4. TablesFold'
      BY <1>1, <2>3, <3>2, <3>3, FoldFacts, TablesStand
    <3>5. BothOn /\ writer.new => ~(BucketEnd(3, a) <= wm[3])
      BY <1>1, <2>2, <2>4 DEF BothOn, Coarse
    <3>6. WriterHolds'
      BY <1>1, <1>4, <3>1, <3>5 DEF WriterHolds, Refolding, BothOn, BucketStart, BucketEnd
    <3> QED BY <2>1, <3>4, <3>6
  <2>5. CASE k # 3
    <3>1. writer' = Idle /\ k = 4
      BY <1>1, <1>7, <2>5, RefoldedIs DEF Coarse
    <3>2. ASSUME NEW j \in settings.on, NEW t \in SampleTime, Due(j, t)
          PROVE  FoldedAt(j, t)
      <4>1. writer.new /\ t = a /\ j >= 4
        BY <1>1, <3>1, <3>2 DEF Due, Refolding
      <4>2. j \in Coarse
        BY FoldFacts
      <4>3. j = 4
        BY <4>1, <4>2 DEF Coarse
      <4> QED BY <2>2, <3>1, <3>2, <4>1, <4>3 DEF FoldedAt
    <3>3. ASSUME NEW t \in SampleTime
          PROVE  ~Due(3, t)
      BY <1>1, <3>1 DEF Due, Refolding
    <3>4. TablesFold'
      BY <1>1, <2>3, <3>2, <3>3, FoldFacts, TablesStand
    <3> QED BY <2>1, <3>1, <3>4, IdleFolds
  <2> QED BY <2>4, <2>5
<1> QED BY <1>2, <1>5, <1>6, <1>7

LEMMA ReadsTargetFolds ==
  ASSUME LadderConstants, FoldInv, ReadsTarget
  PROVE  TablesFold' /\ WriterKnows' /\ WriterHolds'
<1> DEFINE a == writer.at
           k == writer.tier
           merged == Plus(Read(k, Bucket(k, a)), a)
<1>1. /\ TypeOK /\ writer.pc = "target" /\ writer \in InsertState /\ a \in SampleTime
      /\ UNCHANGED <<time, tables, job>>
      /\ UNCHANGED <<clock, count, wm, settings, folded>>
      /\ writer' = [writer EXCEPT !.pc = "write", !.held = merged]
  BY FoldFacts, InsertTypes DEF ReadsTarget, time, tables
<1>2. writer.new
  BY <1>1, FoldFacts DEF WriterInv, WriterNew
<1> HIDE DEF merged
<1>3. /\ writer'.pc = "write" /\ writer'.at = a /\ writer'.new = writer.new
      /\ writer'.keep = writer.keep /\ writer'.tier = k /\ writer'.now = writer.now
      /\ writer'.behind = writer.behind /\ writer'.on = writer.on /\ writer'.held = merged
  BY <1>1 DEF InsertState
<1>4. TablesFold'
  BY <1>1, <1>3, Stands DEF Unfolded, Refolding
<1>5. WriterKnows'
  BY <1>1, <1>3, FoldFacts DEF WriterKnows, Unfolded, Refolding, BucketStart
<1>6. WriterHolds'
  <2>1. /\ writer.new => count[2][a] > 0
        /\ BothOn /\ writer.new /\ k = 4 /\ BucketEnd(3, a) <= wm[3] => count[3][a] > 0
    BY <1>1, FoldFacts DEF WriterHolds, Refolding
  <2>2. /\ writer'.new => count'[2][writer'.at] > 0
        /\ BothOn' /\ writer'.new /\ writer'.tier = 4 /\ BucketEnd(3, writer.at)' <= wm'[3] =>
             count'[3][writer'.at] > 0
    BY <1>1, <1>3, <2>1 DEF BothOn, BucketStart, BucketEnd
  <2>3. writer'.new /\ writer'.held = Plus(Read(writer.tier, Bucket(writer.tier, writer.at)), writer.at)'
    BY <1>1, <1>2, <1>3 DEF merged, Plus, Read, Bucket, Within, BucketStart, BucketEnd
  <2> QED BY <1>3, <2>2, <2>3 DEF WriterHolds, Refolding
<1> QED BY <1>4, <1>5, <1>6

LEMMA WritesAncestorFolds ==
  ASSUME LadderConstants, FoldInv, WritesAncestor
  PROVE  TablesFold' /\ WriterKnows' /\ WriterHolds'
<1> DEFINE a == writer.at
           k == writer.tier
           B == Bucket(k, a)
           source == Source(k, settings.on)
           held == writer.held
           new == writer.new
<1>1. /\ TypeOK /\ writer.pc = "write" /\ writer \in InsertState /\ a \in SampleTime
      /\ a \in Nat /\ k \in Coarse /\ k \in Tier /\ held \in Counts
      /\ UNCHANGED <<clock, wm, settings>>
      /\ count' = Written(k, B, held) /\ folded' = Counted(k, held) /\ writer' = Refolded
  BY FoldFacts, InsertTypes DEF WritesAncestor, time, Coarse, Tier
<1>2. /\ k \in settings.on /\ k \in writer.behind
      /\ BucketStart(k, a) < wm[k] /\ settings.on \subseteq Coarse
  <2>1. k \in settings.on /\ settings.on \subseteq Coarse
    BY <1>1, FoldFacts DEF WriterInv, WriterFlags
  <2>2. k \in writer.behind
    BY <1>1, FoldFacts DEF WriterKnows
  <2>3. BucketStart(k, a) < wm[k]
    BY <1>1, <2>2, FoldFacts DEF WriterKnows, Refolding
  <2> QED BY <2>1, <2>2, <2>3
<1>3. a \in B /\ B \subseteq SampleTime
  <2>1. a \in B
    BY <1>1, InBucket, FoldFacts
  <2> QED BY <2>1 DEF Bucket, Within
<1>4. ASSUME NEW j \in Tier, NEW t \in SampleTime
      PROVE  count'[j][t] = IF j = k /\ t \in B THEN held[t] ELSE count[j][t]
  <2> HIDE DEF B, k, held
  <2> QED BY <1>1, FoldFacts, WrittenAt
<1>5. ASSUME NEW j \in Coarse, NEW t \in SampleTime
      PROVE  t \in folded'[j] <=> t \in folded[j] \/ (j = k /\ held[t] > 0)
  <2> HIDE DEF k, held
  <2> QED BY <1>1 DEF Counted, TypeOK
<1>6. /\ new => count[2][a] > 0
      /\ BothOn /\ new /\ k = 4 /\ BucketEnd(3, a) <= wm[3] => count[3][a] > 0
      /\ \/ held = Read(source, B) /\ BucketStart(k, a) >= Since(clock, settings.keep[source])
         \/ new /\ held = Plus(Read(k, B), a)
  BY <1>1, FoldFacts DEF WriterHolds, Refolding
<1>7. source \in Tier /\ source # k /\ (source = 2 \/ (source = 3 /\ k = 4 /\ 3 \in settings.on))
  BY <1>1 DEF Source, Coarse, Tier
\* What is written counts what the finer tier does, or what was there and the sample.
<1>8. ASSUME NEW t \in B
      PROVE  \/ held[t] = count[source][t] /\ BucketStart(k, a) >= Since(clock, settings.keep[source])
             \/ new /\ held[t] = IF t = a THEN count[k][t] + 1 ELSE count[k][t]
  <2>1. t \in SampleTime
    BY <1>3
  <2>2. CASE held = Read(source, B) /\ BucketStart(k, a) >= Since(clock, settings.keep[source])
    <3>1. Read(source, B)[t] = count[source][t]
      BY <2>1 DEF Read
    <3> QED BY <2>2, <3>1
  <2>3. CASE new /\ held = Plus(Read(k, B), a)
    <3>1. Read(k, B) \in Counts /\ Read(k, B)[t] = count[k][t]
      BY <1>1, <2>1, ReadTyped DEF Read
    <3> DEFINE found == Read(k, B)
    <3> HIDE DEF found, B, a, k
    <3>2. Plus(found, a)[t] = IF t = a THEN count[k][t] + 1 ELSE count[k][t]
      BY <1>1, <2>1, <3>1 DEF found, Plus, Counts
    <3> QED BY <2>3, <3>2 DEF found
  <2> QED BY <1>6, <2>2, <2>3
<1> HIDE DEF B
\* The hours take in the five minutes that the insert has just written.
<1>9. source = 3 => BothOn /\ (new => count[3][a] > 0)
  <2> SUFFICES ASSUME source = 3 PROVE BothOn /\ (new => count[3][a] > 0)
    OBVIOUS
  <2>1. k = 4 /\ BothOn
    BY <1>2, <1>7 DEF BothOn, Coarse
  <2>2. /\ BucketEnd(4, a) <= wm[4] /\ BucketEnd(3, a) <= BucketEnd(4, a) /\ wm[4] <= wm[3]
    <3>1. BucketEnd(4, a) <= wm[4] \/ wm[4] <= BucketStart(4, a)
      BY <1>1, BehindMark, FoldFacts
    <3>2. BucketStart(4, a) < wm[4] /\ BucketStart(4, a) \in Nat /\ wm[4] \in Nat
      BY <1>1, <1>2, <2>1, BucketBounds, FoldFacts
    <3>3. BucketEnd(4, a) <= wm[4]
      BY <3>1, <3>2
    <3>4. BucketEnd(3, a) <= BucketEnd(4, a)
      BY <1>1, InCoarser, FoldFacts
    <3>5. wm[4] <= wm[3]
      BY <2>1, FoldFacts DEF TablesFold, HoursBehind
    <3> QED BY <3>3, <3>4, <3>5
  <2>3. /\ BucketEnd(4, a) \in Nat /\ BucketEnd(3, a) \in Nat /\ wm[3] \in Nat /\ wm[4] \in Nat
    BY <1>1, BucketBounds, FoldFacts
  <2>4. BucketEnd(3, a) <= wm[3]
    BY <2>2, <2>3
  <2> QED BY <1>6, <2>1, <2>4
<1>10. new => held[a] > 0
  <2>1. count[k][a] \in Nat
    BY <1>1, FoldFacts
  <2>2. new => count[source][a] > 0
    BY <1>6, <1>7, <1>9
  <2>3. new /\ held[a] = count[k][a] + 1 => held[a] > 0
    BY <2>1
  <2> QED BY <1>3, <1>8, <2>2, <2>3
<1>11. ASSUME NEW t \in SampleTime
       PROVE  /\ count'[1][t] = count[1][t] /\ count'[2][t] = count[2][t]
              /\ k = 4 => count'[3][t] = count[3][t]
              /\ k = 3 /\ t \notin B => count'[3][t] = count[3][t]
              /\ k = 3 /\ t \in B => count'[3][t] = held[t]
  <2>1. k # 1 /\ k # 2
    BY <1>1 DEF Coarse
  <2> QED BY <1>4, <2>1, FoldFacts
<1>12. \A t \in SampleTime : ~Fresh(t) /\ ~Fresh(t)'
  <2>1. writer'.pc = "source" \/ writer' = Idle
    BY <1>1, RefoldedIs
  <2>2. ~Unfolded /\ ~Unfolded'
    BY <1>1, <2>1 DEF Unfolded, Idle
  <2> QED BY <2>2 DEF Fresh
<1>13. k = 3 => /\ writer'.pc = "source" /\ writer'.tier = 4 /\ writer'.at = a /\ writer'.new = new
  BY <1>1, RefoldedIs
<1>14. k = 4 => writer' = Idle
  BY <1>1, RefoldedIs
<1>15. \A j \in Coarse : \A t \in SampleTime : Due(j, t) => new /\ t = a /\ (k = 4 => j = 4)
  BY <1>1 DEF Due, Refolding, Coarse
<1>16. \A t \in SampleTime : Due(4, t)' => Due(4, t)
  <2>1. CASE k = 3
    <3>1. \A t : Due(4, t)' => new /\ t = a
      BY <1>13, <2>1, Zenon DEF Due
    <3>2. 4 >= k
      BY <2>1
    <3> QED BY <3>1, <3>2, Zenon DEF Due
  <2>2. CASE k = 4
    BY <1>14, <2>2, IdleFolds
  <2> QED BY <1>1, <2>1, <2>2 DEF Coarse
<1>17. k = 3 => \A t \in SampleTime : new /\ t = a => Due(4, t)'
  <2>1. 4 >= 4
    OBVIOUS
  <2> QED BY <1>13, <2>1, Zenon DEF Due
<1> HIDE DEF a, k, held, new, source
<1>18. MinutesHave'
  <2> SUFFICES ASSUME NEW t \in SampleTime, count'[1][t] > 0, ~Fresh(t)'
               PROVE  count'[2][t] > 0 \/ OldMinute(t)'
    BY DEF MinutesHave
  <2> QED BY <1>1, <1>11, <1>12, FoldFacts, StillOld DEF TablesFold, MinutesHave
<1>19. FoldedBehind'
  <2> SUFFICES ASSUME NEW j \in settings'.on, NEW t \in SampleTime, ~Due(j, t)',
                      InFiner(j, t)', BucketEnd(j, t)' <= wm'[j]
               PROVE  t \in folded'[j]
    BY DEF FoldedBehind, FoldedAt
  <2>1. j \in settings.on /\ j \in Coarse /\ BucketEnd(j, t) <= wm[j]
    BY <1>1, <1>2 DEF BucketEnd, BucketStart
  <2>2. SUFFICES t \in folded[j] \/ (j = k /\ held[t] > 0)
    BY <1>5, <2>1
  <2>3. Source(j, settings.on)' = Source(j, settings.on)
    BY <1>1 DEF Source
  <2>4. CASE j = k
    <3>1. Source(j, settings.on) # k /\ Source(j, settings.on) \in {2, 3}
      BY <1>1, <2>4 DEF Source, Coarse
    <3>2. k \in {3, 4}
      BY <1>1 DEF Coarse
    <3>3. count'[Source(j, settings.on)][t] = count[Source(j, settings.on)][t]
      BY <1>11, <3>1, <3>2
    <3>4. InFiner(j, t)
      BY <1>11, <2>3, <3>3 DEF InFiner
    <3>5. CASE Due(j, t)
      BY <1>10, <1>15, <2>1, <2>4, <3>5
    <3>6. CASE ~Due(j, t)
      BY <2>1, <3>4, <3>6, FoldFacts DEF TablesFold, FoldedBehind, FoldedAt
    <3> QED BY <3>5, <3>6
  <2>5. CASE k = 3 /\ j = 4
    <3>1. source = 2 /\ Source(j, settings.on) = 3
      BY <1>2, <1>7, <2>5 DEF Source
    <3>2. ~(new /\ t = a) /\ ~Due(j, t)
      <4>1. ~(new /\ t = a)
        BY <1>17, <2>5
      <4>2. ~Due(j, t)
        BY <1>15, <2>1, <4>1
      <4> QED BY <4>1, <4>2
    <3>3. InFiner(j, t)
      <4>1. CASE t \notin B
        BY <1>11, <2>3, <2>5, <3>1, <4>1 DEF InFiner
      <4>2. CASE t \in B
        <5>1. count'[3][t] = held[t] /\ (held[t] = count[2][t] \/ held[t] = count[3][t])
          BY <1>8, <1>11, <2>5, <3>1, <3>2, <4>2
        <5> QED BY <1>11, <2>3, <3>1, <5>1 DEF InFiner
      <4> QED BY <4>1, <4>2
    <3> QED BY <2>1, <3>2, <3>3, FoldFacts DEF TablesFold, FoldedBehind, FoldedAt
  <2>6. CASE k = 4 /\ j = 3
    <3>1. ~Due(j, t)
      BY <1>15, <2>1, <2>6
    <3>2. Source(j, settings.on) = 2
      BY <2>6 DEF Source
    <3>3. InFiner(j, t)
      BY <1>11, <2>3, <3>2 DEF InFiner
    <3> QED BY <2>1, <3>1, <3>3, FoldFacts DEF TablesFold, FoldedBehind, FoldedAt
  <2> QED BY <1>1, <2>1, <2>4, <2>5, <2>6 DEF Coarse
\* What the minutes still count of a range that is folded whole is all it has.
<1>20. ASSUME BothOn, NEW t \in SampleTime, count[1][t] > 0 \/ count[2][t] > 0,
              BucketEnd(3, t) <= wm[3], wm[4] < BucketEnd(4, t)
       PROVE  count'[3][t] > 0
  <2>1. ~Due(3, t) => count[3][t] > 0
    BY <1>20, FoldFacts DEF TablesFold, FivesHave, FiveAt
  <2>2. CASE k = 4
    <3>1. ~Due(3, t)
      BY <1>15, <2>2, FoldFacts
    <3> QED BY <1>11, <2>1, <2>2, <3>1
  <2>3. CASE k = 3 /\ t \notin B
    <3>1. ~Due(3, t)
      BY <1>3, <1>15, <2>3, FoldFacts
    <3> QED BY <1>11, <2>1, <2>3, <3>1
  <2>4. CASE k = 3 /\ t \in B
    <3>1. count'[3][t] = held[t]
      BY <1>11, <2>4
    <3>2. CASE new /\ held[t] = IF t = a THEN count[k][t] + 1 ELSE count[k][t]
      <4>1. CASE t = a
        BY <1>10, <3>1, <3>2, <4>1
      <4>2. CASE t # a
        <5>1. ~Due(3, t)
          BY <1>15, <4>2, FoldFacts
        <5> QED BY <2>1, <2>4, <3>1, <3>2, <4>2, <5>1
      <4> QED BY <4>1, <4>2
    <3>3. CASE held[t] = count[source][t] /\ BucketStart(k, a) >= Since(clock, settings.keep[source])
      <4>1. source = 2
        BY <1>7, <2>4
      <4>2. ~OldMinute(t)
        <5>1. BucketStart(3, a) <= t
          BY <2>4 DEF B, Bucket, Within
        <5>2. t < BucketEnd(2, t) /\ BucketEnd(2, t) \in Nat /\ BucketStart(3, a) \in Nat
          BY <1>1, BucketBounds, SampleNat, FoldFacts
        <5>3. BucketStart(3, a) >= Since(clock, settings.keep[2])
          BY <2>4, <3>3, <4>1
        <5>4. Since(clock, settings.keep[2]) \in Nat /\ t \in Nat
          BY SettingsTyped, FoldFacts, SampleNat DEF Since
        <5>5. ~(BucketEnd(2, t) <= Since(clock, settings.keep[2]))
          BY <5>1, <5>2, <5>3, <5>4
        <5> QED BY <5>5 DEF OldMinute
      <4>3. count[2][t] > 0
        BY <1>12, <1>20, <4>2, FoldFacts DEF TablesFold, MinutesHave
      <4> QED BY <3>1, <3>3, <4>1, <4>3
    <3> QED BY <1>8, <2>4, <3>2, <3>3
  <2> QED BY <1>1, <2>2, <2>3, <2>4 DEF Coarse
<1>21. FivesHave'
  <2> SUFFICES ASSUME BothOn', NEW t \in SampleTime
               PROVE  FiveAt(t)'
    BY DEF FivesHave
  <2>1. BothOn
    BY <1>1 DEF BothOn
  <2> QED BY <1>1, <1>11, <1>20, <2>1 DEF FiveAt, BucketEnd, BucketStart
<1>22. HoursBehind'
  BY <1>1, FoldFacts DEF TablesFold, HoursBehind, BothOn
<1>23. UnmarkedFives'
  <2>1. CASE k = 3
    <3>1. wm'[3] # 0
      <4>1. wm[3] \in Nat /\ BucketStart(3, a) \in Nat /\ BucketStart(3, a) < wm[3]
        BY <1>1, <1>2, <2>1, BucketBounds, FoldFacts
      <4> QED BY <1>1, <4>1
    <3> QED BY <3>1 DEF UnmarkedFives
  <2>2. CASE k = 4
    BY <1>1, <1>11, <2>2, FoldFacts DEF TablesFold, UnmarkedFives, BothOn, IsComplete, BucketStart
  <2> QED BY <1>1, <2>1, <2>2 DEF Coarse
<1>24. WriterKnows'
  BY <1>1, KnowsNext
<1>25. WriterHolds'
  <2>1. CASE k = 3
    <3>1. new => count'[2][a] > 0
      BY <1>1, <1>6, <1>11 
    <3>2. new => count'[3][a] > 0
      BY <1>1, <1>3, <1>10, <1>11, <2>1
    <3> QED BY <1>13, <2>1, <3>1, <3>2 DEF WriterHolds, Refolding
  <2>2. CASE k = 4
    BY <1>14, <2>2, IdleFolds
  <2> QED BY <1>1, <2>1, <2>2 DEF Coarse
<1> QED BY <1>18, <1>19, <1>21, <1>22, <1>23, <1>24, <1>25 DEF TablesFold

LEMMA InsertEndsFolds ==
  ASSUME LadderConstants, Undisturbed, FoldInv, InsertEnds
  PROVE  TablesFold' /\ WriterKnows' /\ WriterHolds'
<1>1. writer' = Idle /\ UNCHANGED <<time, tables, job>>
  BY DEF InsertEnds
<1>2. writer.pc = "raw"
  <2>1. <<"insert", writer.pc>> \in Retried
    BY DEF InsertEnds, Undisturbed
  <2> QED BY <2>1 DEF Retried
<1>3. WriterKnows' /\ WriterHolds'
  BY <1>1, IdleFolds
<1>4. CASE ~writer.new
  BY <1>1, <1>3, <1>4, Stops
<1>5. CASE writer.new
  <2>1. writer.at \notin stored /\ writer.at \in SampleTime
    BY <1>2, <1>5, InsertTypes, FoldFacts DEF WriterInv, WriterNew
  <2>2. \A k \in Tier : ~(count[k][writer.at] > 0)
    BY <2>1, FoldFacts DEF TablesOK
  <2>3. \A t \in SampleTime : Fresh(t) => ~(count[1][t] > 0)
    BY <2>2, FoldFacts DEF Fresh
  <2>4. ASSUME NEW k, NEW t \in SampleTime, Due(k, t)
        PROVE  ~InFiner(k, t) /\ ~(count[1][t] > 0) /\ ~(count[2][t] > 0)
    <3>1. Source(k, settings.on) \in Tier /\ t = writer.at
      BY <2>4 DEF Source, Tier, Due
    <3> QED BY <2>2, <3>1, FoldFacts DEF InFiner
  <2>5. UNCHANGED <<clock, count, wm, settings, folded>>
    BY <1>1 DEF time, tables
  <2>6. TablesFold'
    BY <2>3, <2>4, <2>5, FoldFacts, TablesStand DEF FoldedAt, FiveAt
  <2> QED BY <1>3, <2>6
<1>6. writer.new \in BOOLEAN
  BY <1>2, InsertTypes, FoldFacts
<1> QED BY <1>4, <1>5, <1>6

LEMMA InsertFolds ==
  ASSUME LadderConstants, Undisturbed, FoldInv, Insert
  PROVE  FoldInv'
<1>1. ~Overlap /\ LoopInv
  BY FoldFacts DEF Undisturbed
<1>2. LoopInv'
  BY <1>1, InsertLoop
<1>3. TablesFold' /\ WriterKnows' /\ WriterHolds'
  BY BeginsFolds, InsertsRawFolds, MeasuresFolds, RebuildsFolds, WritesMinuteFolds,
     LooksBehindFolds, LooksAtFlagsFolds, ReadsSourceFolds, ReadsTargetFolds,
     WritesAncestorFolds, InsertEndsFolds DEF Insert
<1>4. \A m \in Maintainer : TickFolds(m)'
  BY <1>1, InsertAlone, NoTickFolds
<1> QED BY <1>2, <1>3, <1>4 DEF FoldInv

-----------------------------------------------------------------------------
(* Ticks.                                                                  *)
LEMMA TickTypes ==
  ASSUME LadderConstants, TypeOK, NEW m \in Maintainer
  PROVE  /\ job[m] \in TickState /\ job[m].stage \in 0..10 /\ job[m].stage \in Nat
         /\ job[m].search \in Nat /\ job[m].start \in Nat /\ job[m].held \in Counts
         /\ job[m].left \in Nat /\ job[m].limit \in SUBSET Nat /\ job[m].now \in Nat
         /\ job[m].authority \in [Coarse -> Nat] /\ job[m].cfg.on \in SUBSET Coarse
<1>1. job[m] \in TickState
  BY DEF TypeOK
<1>2. MaxPromotions \in Nat
  BY DEF LadderConstants
<1>3. /\ job[m].stage \in 0..10 /\ job[m].left \in 0..MaxPromotions
      /\ job[m].search \in Nat /\ job[m].start \in Nat /\ job[m].held \in Counts
      /\ job[m].limit \in SUBSET Nat /\ job[m].now \in Nat
      /\ job[m].authority \in [Coarse -> Nat] /\ job[m].cfg.on \in SUBSET Coarse
  BY <1>1 DEF TickState
<1>4. job[m].stage \in Nat /\ job[m].left \in Nat
  BY <1>2, <1>3
<1> QED BY <1>1, <1>3, <1>4

(* The stages that promote.                                                *)
LEMMA StageNumbers ==
  ASSUME LadderConstants, TypeOK, NEW m \in Maintainer, job[m].stage > 0
  PROVE  /\ In(m, "promote") => (TierOf(m) = 3 /\ job[m].stage = 5) \/ (TierOf(m) = 4 /\ job[m].stage = 6)
         /\ In(m, "sync") \/ In(m, "authority") => job[m].stage < 5
         /\ In(m, "prune") => job[m].stage > 6
         /\ job[m].stage = 1 => In(m, "sync")
         /\ \A a, b : In(m, a) /\ In(m, b) => a = b
<1> DEFINE i == job[m].stage
<1>1. i \in 1..10
  BY TickTypes
<1>2. i = 1 \/ i = 2 \/ i = 3 \/ i = 4 \/ i = 5 \/ i = 6 \/ i = 7 \/ i = 8 \/ i = 9 \/ i = 10
  <2> HIDE DEF i
  <2> QED BY <1>1
<1>3. /\ Stages[i][1] = "promote" => (Stages[i][2] = 3 /\ i = 5) \/ (Stages[i][2] = 4 /\ i = 6)
      /\ Stages[i][1] = "sync" \/ Stages[i][1] = "authority" => i < 5
      /\ Stages[i][1] = "prune" => i > 6
      /\ i = 1 => Stages[i][1] = "sync"
  <2> HIDE DEF i
  <2> QED BY <1>2 DEF Stages
<1> QED BY <1>3 DEF In, TierOf

(* A tick that has read the clock is not in its first step.                *)
LEMMA HasClock ==
  ASSUME LadderConstants, FoldInv, NEW m \in Maintainer,
         \/ In(m, "authority") \/ In(m, "promote") \/ In(m, "prune")
         \/ job[m].stage > 0 /\ job[m].step # "now"
  PROVE  job[m].stage > 0 /\ job[m].step # "now" /\ job[m].now = clock
<1>1. TickFolds(m) /\ TypeOK
  BY FoldFacts DEF FoldInv
<1>2. job[m].stage > 0
  BY DEF In
<1>3. job[m].step # "now"
  <2> SUFFICES ASSUME job[m].step = "now" PROVE FALSE
    OBVIOUS
  <2>1. job[m].stage = 1
    BY <1>1 DEF TickFolds
  <2>2. In(m, "sync")
    BY <1>1, <1>2, <2>1, StageNumbers
  <2> QED BY <1>1, <1>2, <2>2, StageNumbers
<1> QED BY <1>1, <1>2, <1>3 DEF TickFolds

LEMMA TablesCalm ==
  ASSUME LadderConstants, FoldInv, writer = Idle,
         UNCHANGED <<clock, count, wm, settings, folded>>
  PROVE  TablesFold'
BY FoldFacts, IdleNow, TablesStand

LEMMA PromotionWaits ==
  ASSUME NEW m \in Maintainer, job'[m].step = "go", job'[m].limit = {}
  PROVE  Promotes(m)'
<1>1. job'[m].step \notin {"seek", "gather", "upsert", "mark"}
  OBVIOUS
<1> QED BY <1>1 DEF Promotes, Begun

(* A stage is left for the next one.                                       *)
LEMMA StageLeft ==
  ASSUME LadderConstants, FoldInv, NEW m \in Maintainer, job[m].stage > 0, job[m].step # "now",
         UNCHANGED <<clock, settings>>,
         job'[m].stage = AfterStage(m).stage, job'[m].step = AfterStage(m).step,
         job'[m].now = AfterStage(m).now, job'[m].limit = AfterStage(m).limit,
         job[m].stage > 4 /\ BothOn /\ wm'[3] = 0 => \A t \in SampleTime : count'[3][t] = 0
  PROVE  TickFolds(m)'
<1>1. /\ job[m].now = clock /\ job[m] \in TickState /\ job[m].stage \in 1..10
  BY HasClock, TickTypes, FoldFacts
<1>2. CASE job[m].stage = 10
  <2>1. AfterStage(m) = NoTick
    BY <1>2, StageFacts DEF AfterStage
  <2>2. NoTick.stage = 0 /\ NoTick.step = ""
    BY DEF NoTick
  <2>3. job'[m].stage = 0 /\ job'[m].step = ""
    BY <2>1, <2>2
  <2>4. ~(job'[m].stage > 0) /\ ~(job'[m].stage > 5) /\ job'[m].step # "now"
    <3>1. ~(0 > 0) /\ ~(0 > 5)
      OBVIOUS
    <3> QED BY <2>3, <3>1, Zenon
  <2>5. ~In(m, "promote")'
    BY <2>4, Zenon DEF In
  <2> QED BY <2>4, <2>5, Zenon DEF TickFolds
<1>3. CASE job[m].stage # 10
  <2>1. AfterStage(m) = [job[m] EXCEPT !.stage = @ + 1, !.step = "go", !.limit = {}, !.search = 0,
                                       !.start = 0, !.left = 0, !.held = Empty]
    BY <1>3, StageFacts DEF AfterStage
  <2>2. /\ job'[m].stage = job[m].stage + 1 /\ job'[m].step = "go" /\ job'[m].now = clock
        /\ job'[m].limit = {}
    BY <1>1, <2>1 DEF TickState
  <2>3. Promotes(m)'
    BY <2>2, PromotionWaits
  <2>4. job'[m].stage > 5 => job[m].stage > 4
    BY <1>1, <2>2
  <2>5. job'[m].stage > 5 /\ BothOn' /\ wm'[3] = 0 => \A t \in SampleTime : count'[3][t] = 0
    BY <2>4 DEF BothOn
  <2> QED BY <2>2, <2>3, <2>5 DEF TickFolds
<1> QED BY <1>2, <1>3

(* Five minutes are not counted after their promotion unless it marked them. *)
LEMMA FivesAreMarked ==
  ASSUME LadderConstants, FoldInv, NEW m \in Maintainer, job[m].stage > 5, BothOn, wm[3] = 0
  PROVE  \A t \in SampleTime : count[3][t] = 0
BY DEF FoldInv, TickFolds

(* A stage is left with no table changed, after the promotion to five       *)
(* minutes or before it.                                                   *)
LEMMA StagePassed ==
  ASSUME LadderConstants, FoldInv, NEW m \in Maintainer, job[m].stage > 0, job[m].step # "now",
         writer = Idle, UNCHANGED <<clock, count, wm, settings, folded>>,
         job'[m].stage = AfterStage(m).stage, job'[m].step = AfterStage(m).step,
         job'[m].now = AfterStage(m).now, job'[m].limit = AfterStage(m).limit,
         BothOn => job[m].stage # 5
  PROVE  TablesFold' /\ TickFolds(m)'
<1>1. job[m].stage > 4 /\ job[m].stage # 5 => job[m].stage > 5
  BY TickTypes, FoldFacts
<1>2. job[m].stage > 4 /\ BothOn /\ wm'[3] = 0 => \A t \in SampleTime : count'[3][t] = 0
  BY <1>1, FivesAreMarked
<1> QED BY <1>2, StageLeft, TablesCalm

(* A step within a stage.                                                  *)
LEMMA StageStays ==
  ASSUME LadderConstants, FoldInv, NEW m \in Maintainer, In(m, "promote"),
         UNCHANGED <<clock, settings>>,
         job[m].stage > 5 => wm'[3] = wm[3] /\ \A t \in SampleTime : count'[3][t] = count[3][t],
         job'[m].stage = job[m].stage, job'[m].step # "now", job'[m].now = job[m].now,
         Promotes(m)'
  PROVE  TickFolds(m)'
<1>1. TickFolds(m) /\ job[m].now = clock
  BY HasClock DEF FoldInv
<1>2. job'[m].stage > 5 /\ BothOn' /\ wm'[3] = 0 => \A t \in SampleTime : count'[3][t] = 0
  BY <1>1 DEF TickFolds, BothOn
<1> QED BY <1>1, <1>2 DEF TickFolds

LEMMA TickBeginsFolds ==
  ASSUME LadderConstants, FoldInv, NEW m \in Maintainer, writer = Idle, TickBegins(m)
  PROVE  TablesFold' /\ TickFolds(m)'
<1>1. /\ UNCHANGED <<clock, count, wm, settings, folded>>
      /\ job' = [job EXCEPT ![m].stage = 1, ![m].step = "now", ![m].cfg = settings]
  BY DEF TickBegins, time, tables
<1>2. job'[m].stage = 1 /\ job'[m].step = "now"
  <2> DEFINE x == [job[m] EXCEPT !.stage = 1, !.step = "now", !.cfg = settings]
  <2>1. job \in [Maintainer -> TickState]
    BY FoldFacts DEF TypeOK
  <2>2. job' = [job EXCEPT ![m] = x]
    BY <1>1
  <2>3. job'[m] = x /\ job[m] \in TickState
    BY <2>1, <2>2
  <2>4. x.stage = 1 /\ x.step = "now"
    BY <2>3 DEF TickState
  <2> QED BY <2>3, <2>4
<1>3. ~In(m, "promote")'
  BY <1>2 DEF In, Stages
<1>4. ~(job'[m].stage > 5)
  BY <1>2
<1> QED BY <1>1, <1>2, <1>3, <1>4, TablesCalm DEF TickFolds

LEMMA ReadsClockFolds ==
  ASSUME LadderConstants, FoldInv, NEW m \in Maintainer, writer = Idle, ReadsClock(m)
  PROVE  TablesFold' /\ TickFolds(m)'
<1>1. /\ UNCHANGED <<clock, count, wm, settings, folded>> /\ job[m].step = "now"
      /\ job' = [job EXCEPT ![m].step = "go", ![m].now = clock]
  BY DEF ReadsClock, time, tables
<1>2. job[m].stage = 1
  BY <1>1 DEF FoldInv, TickFolds
<1>3. job'[m].stage = 1 /\ job'[m].step = "go" /\ job'[m].now = clock
  BY <1>1, <1>2, FoldFacts DEF TypeOK, TickState
<1>4. ~In(m, "promote")'
  BY <1>3 DEF In, Stages
<1>5. ~(job'[m].stage > 5)
  BY <1>3
<1> QED BY <1>1, <1>3, <1>4, <1>5, TablesCalm DEF TickFolds

LEMMA SyncsFlagFolds ==
  ASSUME LadderConstants, FoldInv, NEW m \in Maintainer, writer = Idle, SyncsFlag(m)
  PROVE  TablesFold' /\ TickFolds(m)'
<1>1. /\ UNCHANGED <<clock, count, wm, settings, folded>> /\ In(m, "sync") /\ job[m].step = "go"
      /\ job' = [job EXCEPT ![m] = AfterStage(m)]
  BY DEF SyncsFlag, time
<1>2. job[m].stage > 0 /\ job[m].stage # 5 /\ job'[m] = AfterStage(m)
  <2>1. job[m].stage > 0
    BY <1>1 DEF In
  <2>2. job[m].stage < 5
    BY <1>1, <2>1, StageNumbers, FoldFacts
  <2> QED BY <1>1, <2>1, <2>2, FoldFacts DEF TypeOK
<1> QED BY <1>1, <1>2, StagePassed

LEMMA ReadsAuthorityFolds ==
  ASSUME LadderConstants, FoldInv, NEW m \in Maintainer, writer = Idle, ReadsAuthority(m)
  PROVE  TablesFold' /\ TickFolds(m)'
<1> DEFINE next == AfterStage(m)
           k == TierOf(m)
<1>1. /\ UNCHANGED <<clock, count, wm, settings, folded>> /\ In(m, "authority")
      /\ job' = [job EXCEPT ![m] = [next EXCEPT !.authority[k] = wm[k]]]
  BY DEF ReadsAuthority, time, tables
<1>2. job[m].stage > 0 /\ job[m].step # "now" /\ job[m].stage # 5
  BY <1>1, HasClock, StageNumbers, FoldFacts
<1>3. next \in TickState
  BY <1>2, AfterStageStep, FoldFacts
<1>4. /\ job'[m].stage = next.stage /\ job'[m].step = next.step /\ job'[m].now = next.now
      /\ job'[m].limit = next.limit
  <2>1. job'[m] = [next EXCEPT !.authority[k] = wm[k]]
    BY <1>1, FoldFacts DEF TypeOK
  <2> HIDE DEF next, k
  <2> QED BY <1>3, <2>1 DEF TickState
<1> QED BY <1>1, <1>2, <1>4, StagePassed

LEMMA SkipsStageFolds ==
  ASSUME LadderConstants, FoldInv, NEW m \in Maintainer, writer = Idle, job[m].cfg = settings,
         SkipsStage(m)
  PROVE  TablesFold' /\ TickFolds(m)'
<1>1. /\ UNCHANGED <<clock, count, wm, settings, folded>> /\ ~Applies(m)
      /\ In(m, "promote") \/ In(m, "prune")
      /\ job' = [job EXCEPT ![m] = AfterStage(m)]
  BY DEF SkipsStage, time, tables
<1>2. job[m].stage > 0 /\ job[m].step # "now"
  BY <1>1, HasClock
<1>3. job'[m] = AfterStage(m)
  BY <1>1, FoldFacts DEF TypeOK
<1>4. BothOn => job[m].stage # 5
  <2> SUFFICES ASSUME BothOn, job[m].stage = 5 PROVE FALSE
    OBVIOUS
  <2>1. TierOf(m) = 3 /\ ~In(m, "prune")
    BY DEF TierOf, Stages, In
  <2>2. 3 \in job[m].cfg.on
    BY FoldFacts DEF BothOn
  <2> QED BY <1>1, <2>1, <2>2 DEF Applies
<1> QED BY <1>1, <1>2, <1>3, <1>4, StagePassed

LEMMA TickEndsFolds ==
  ASSUME LadderConstants, FoldInv, NEW m \in Maintainer, writer = Idle, TickEnds(m)
  PROVE  TablesFold' /\ TickFolds(m)'
<1>1. /\ UNCHANGED <<clock, count, wm, settings, folded>>
      /\ job' = [job EXCEPT ![m] = NoTick]
  BY DEF TickEnds, time, tables
<1>2. job'[m] = NoTick
  BY <1>1, FoldFacts DEF TypeOK
<1> QED BY <1>1, <1>2, TablesCalm, NoTickFolds

LEMMA StatementFailsFolds ==
  ASSUME LadderConstants, Undisturbed, FoldInv, NEW m \in Maintainer, writer = Idle,
         StatementFails(m)
  PROVE  TablesFold' /\ TickFolds(m)'
<1>1. /\ UNCHANGED <<clock, count, wm, settings, folded>>
      /\ job[m].stage > 0 /\ job[m].step # "now" /\ Statement(m) \in Retried
  BY DEF StatementFails, Undisturbed, time, tables
<1>2. job[m].step \in {"", "go", "from", "seek", "gather", "upsert", "mark"}
  BY <1>1, TickTypes, FoldFacts DEF TickState
<1>3. ASSUME In(m, "promote")
      PROVE  TierOf(m) = 4 /\ ~(Promoting(m, "go") /\ From(m) = 3)
  <2> DEFINE s == IF job[m].step # "go" THEN job[m].step ELSE IF From(m) = 3 THEN "limit" ELSE "from"
  <2>1. <<s, TierOf(m)>> \in Retried
    BY <1>1, <1>3 DEF Statement
  <2>2. s \in {"", "from", "seek", "gather", "upsert", "mark", "limit"}
    BY <1>2
  <2>3. s = "limit" <=> job[m].step = "go" /\ From(m) = 3
    BY <1>2
  <2> HIDE DEF s
  <2>4. s \notin {"insert", "sync", "authority", "prune"}
    BY <2>2
  <2>5. s \in {"from", "seek", "gather", "upsert", "mark"} /\ TierOf(m) = 4
    BY <2>1, <2>4 DEF Retried
  <2> QED BY <2>3, <2>5 DEF Promoting
<1>4. job'[m] = AfterStage(m)
  <2>1. ~(Promoting(m, "go") /\ From(m) = 3)
    BY <1>3 DEF Promoting
  <2> QED BY <2>1, FoldFacts DEF StatementFails, TypeOK
<1>5. job[m].stage # 5
  <2> SUFFICES ASSUME job[m].stage = 5 PROVE FALSE
    OBVIOUS
  <2>1. In(m, "promote") /\ TierOf(m) = 3
    BY <1>1 DEF In, TierOf, Stages
  <2> QED BY <1>3, <2>1
<1> QED BY <1>1, <1>4, <1>5, StagePassed

(* The promotion a tick is in, and the tier it folds from.                 *)
LEMMA PromotionFacts ==
  ASSUME LadderConstants, FoldInv, NEW m \in Maintainer, NEW s, Promoting(m, s),
         job[m].cfg = settings
  PROVE  /\ job[m] \in TickState /\ job[m].stage > 0 /\ job[m].step = s /\ In(m, "promote")
         /\ job[m].step # "now" /\ job[m].now = clock
         /\ TierOf(m) \in Coarse /\ TierOf(m) \in Tier /\ TierOf(m) \in settings.on
         /\ From(m) = Source(TierOf(m), settings.on) /\ From(m) \in Tier
         /\ From(m) <= TierOf(m) /\ From(m) # TierOf(m) /\ (From(m) = 2 \/ From(m) = 3)
         /\ From(m) = 3 <=> TierOf(m) = 4 /\ BothOn
         /\ (TierOf(m) = 3 /\ job[m].stage = 5) \/ (TierOf(m) = 4 /\ job[m].stage = 6)
         /\ Promotes(m) /\ TickInv(m)
<1> DEFINE k == TierOf(m)
<1>1. /\ job[m] \in TickState /\ job[m].stage > 0 /\ job[m].step = s /\ In(m, "promote")
      /\ k \in Coarse /\ k \in Tier /\ Applies(m)
  BY PromotingTyped, FoldFacts DEF Promoting
<1>2. job[m].step # "now" /\ job[m].now = clock
  BY <1>1, HasClock
<1>3. k \in settings.on
  BY <1>1 DEF Applies
<1>4. (k = 3 /\ job[m].stage = 5) \/ (k = 4 /\ job[m].stage = 6)
  BY <1>1, StageNumbers, FoldFacts
<1>5. Promotes(m) /\ TickInv(m)
  BY <1>1 DEF FoldInv, TickFolds, LoopInv
<1>6. From(m) = Source(k, settings.on)
  BY DEF From
<1>7. /\ From(m) \in Tier /\ From(m) <= k /\ From(m) # k /\ (From(m) = 2 \/ From(m) = 3)
      /\ From(m) = 3 <=> k = 4 /\ BothOn
  <2>1. k = 3 \/ k = 4
    BY <1>1 DEF Coarse
  <2>2. k = 4 => (3 \in settings.on <=> BothOn)
    BY <1>3 DEF BothOn, Coarse
  <2> HIDE DEF k
  <2> QED BY <1>6, <2>1, <2>2 DEF Source, Tier
<1> QED BY <1>1, <1>2, <1>3, <1>4, <1>5, <1>6, <1>7

(* What a promotion has to keep.                                           *)
LEMMA PromotesNext ==
  ASSUME NEW m \in Maintainer, NEW k, NEW f, TierOf(m)' = k, From(m)' = f,
         k = 3 => job'[m].limit = {},
         k = 4 /\ BothOn' => job'[m].limit = {wm'[3]} \ {0},
         job'[m].step = "seek" => job'[m].search = wm'[k] /\ (k = 3 /\ job'[m].left = 0 => wm'[3] > 0),
         job'[m].step \in Begun =>
           /\ IsComplete(k, job'[m].start, clock')
           /\ \A watermark \in job'[m].limit : job'[m].start + Res[k] <= watermark
           /\ \E t \in Within(job'[m].start, job'[m].start + Res[k]) : count'[f][t] > 0
           /\ \A t \in SampleTime : count'[f][t] > 0 /\ wm'[k] < BucketEnd(k, t) =>
                job'[m].start <= BucketStart(k, t),
         job'[m].step = "upsert" =>
           job'[m].held = [t \in SampleTime |->
             IF t \in Within(job'[m].start, job'[m].start + Res[k]) THEN count'[f][t] ELSE 0],
         job'[m].step = "mark" =>
           \A t \in Within(job'[m].start, job'[m].start + Res[k]) :
             count'[f][t] > 0 => t \in folded'[k] /\ count'[k][t] > 0
  PROVE  Promotes(m)'
<1>1. TargetEnd(m)' = job'[m].start + Res[k]
  BY DEF TargetEnd
<1>2. Within(job[m].start, TargetEnd(m))' = Within(job'[m].start, job'[m].start + Res[k])
  BY <1>1 DEF Within
<1> QED BY <1>1, <1>2 DEF Promotes, Read, IsComplete, BucketEnd, BucketStart

(* Buckets.                                                                *)
LEMMA InRange ==
  ASSUME LadderConstants, NEW k \in Tier, NEW q \in Nat, NEW t \in SampleTime
  PROVE  /\ t \in Within(q * Res[k], q * Res[k] + Res[k]) <=> BucketStart(k, t) = q * Res[k]
         /\ BucketStart(k, t) = q * Res[k] => BucketEnd(k, t) = q * Res[k] + Res[k]
<1> DEFINE r == Res[k]
<1>1. r \in Nat /\ r > 0 /\ t \in Nat
  BY ResNat, SampleNat
<1>2. ASSUME t \in Within(q * r, q * r + r)
      PROVE  BucketStart(k, t) = q * r
  <2>1. q * r <= t /\ t < q * r + r
    BY <1>2 DEF Within
  <2>2. (t \div r) * r = q * r
    <3> HIDE DEF r
    <3> QED BY <1>1, <2>1, DivUnique
  <2> QED BY <2>2 DEF BucketStart
<1>3. ASSUME BucketStart(k, t) = q * r
      PROVE  t \in Within(q * r, q * r + r)
  <2>1. BucketStart(k, t) <= t /\ t < BucketEnd(k, t) /\ BucketEnd(k, t) = BucketStart(k, t) + r
    BY <1>1, BucketBounds
  <2> QED BY <1>3, <2>1 DEF Within
<1> QED BY <1>2, <1>3 DEF BucketEnd

LEMMA BucketStartMono ==
  ASSUME LadderConstants, NEW k \in Tier, NEW a \in Nat, NEW b \in Nat, a <= b
  PROVE  BucketStart(k, a) <= BucketStart(k, b)
<1>1. PICK q \in Nat : BucketStart(k, a) = q * Res[k]
  BY BucketAligned
<1>2. BucketEnd(k, b) <= BucketStart(k, a) \/ BucketStart(k, a) <= BucketStart(k, b)
  BY <1>1, BeforeOrBehind
<1>3. /\ BucketStart(k, a) \in Nat /\ BucketEnd(k, b) \in Nat
      /\ BucketStart(k, a) <= a /\ b < BucketEnd(k, b)
  BY BucketBounds
<1> QED BY <1>2, <1>3

LEMMA CoarserOfStart ==
  ASSUME LadderConstants, NEW j \in Tier, NEW k \in Tier, j <= k, NEW t \in Nat
  PROVE  BucketStart(k, BucketStart(j, t)) = BucketStart(k, t)
<1>1. /\ BucketStart(j, t) \in Nat /\ BucketEnd(j, t) \in Nat
      /\ BucketStart(j, t) <= t /\ t < BucketEnd(j, t)
  BY BucketBounds
<1>2. BucketStart(j, t) <= BucketStart(j, t) /\ BucketStart(j, t) < BucketEnd(j, t)
  BY <1>1
<1> QED BY <1>1, <1>2, SameCoarser

LEMMA ReadsLimitFolds ==
  ASSUME LadderConstants, FoldInv, NEW m \in Maintainer, writer = Idle, job[m].cfg = settings,
         ReadsLimit(m)
  PROVE  TablesFold' /\ TickFolds(m)'
<1> DEFINE k == TierOf(m)
<1>1. /\ UNCHANGED <<clock, count, wm, settings, folded>> /\ Promoting(m, "go") /\ From(m) = 3
      /\ job' = [job EXCEPT ![m].step = "from", ![m].limit = {wm[3]} \ {0}]
  BY DEF ReadsLimit, time, tables
<1>2. job[m] \in TickState /\ job[m].stage > 0 /\ k = 4 /\ In(m, "promote")
  BY <1>1, PromotionFacts
<1>3. /\ job'[m].step = "from" /\ job'[m].limit = {wm[3]} \ {0} /\ job'[m].stage = job[m].stage
      /\ job'[m].cfg = job[m].cfg /\ job'[m].now = job[m].now
  BY <1>1, <1>2, FoldFacts DEF TypeOK, TickState
<1>4. TierOf(m)' = k
  BY <1>3 DEF TierOf
<1>5. Promotes(m)'
  <2>1. PICK f : From(m)' = f
    OBVIOUS
  <2>2. k # 3 /\ job'[m].step \notin Begun \cup {"seek", "upsert", "mark"}
    BY <1>2, <1>3 DEF Begun
  <2>3. job'[m].limit = {wm'[3]} \ {0}
    BY <1>1, <1>3
  <2> HIDE DEF k
  <2> QED BY <1>4, <2>1, <2>2, <2>3, PromotesNext
<1> QED BY <1>1, <1>2, <1>3, <1>5, StageStays, TablesCalm

LEMMA ReadsWatermarkFolds ==
  ASSUME LadderConstants, FoldInv, NEW m \in Maintainer, writer = Idle, job[m].cfg = settings,
         ReadsWatermark(m)
  PROVE  TablesFold' /\ TickFolds(m)'
<1> DEFINE k == TierOf(m)
<1>1. /\ UNCHANGED <<clock, count, wm, settings, folded>>
      /\ Promoting(m, "from") \/ (Promoting(m, "go") /\ From(m) = 2)
      /\ job' = [job EXCEPT ![m].step = "seek", ![m].search = wm[k], ![m].left = MaxPromotions]
  BY DEF ReadsWatermark, time, tables
<1>2. PICK s \in {"from", "go"} : Promoting(m, s) /\ (s = "go" => From(m) = 2)
  BY <1>1
<1>3. /\ job[m] \in TickState /\ job[m].stage > 0 /\ k \in Coarse /\ In(m, "promote")
      /\ job[m].step = s /\ From(m) = 3 <=> k = 4 /\ BothOn
      /\ Promotes(m)
  BY <1>2, PromotionFacts
<1>4. /\ job'[m].step = "seek" /\ job'[m].search = wm[k] /\ job'[m].left = MaxPromotions
      /\ job'[m].limit = job[m].limit /\ job'[m].stage = job[m].stage
      /\ job'[m].cfg = job[m].cfg /\ job'[m].now = job[m].now
  <2> HIDE DEF k
  <2> QED BY <1>1, <1>3, FoldFacts DEF TypeOK, TickState
<1>5. TierOf(m)' = k
  BY <1>4 DEF TierOf
<1>6. MaxPromotions # 0
  BY DEF LadderConstants
<1>7. /\ k = 3 => job[m].limit = {}
      /\ k = 4 /\ BothOn => job[m].limit = {wm[3]} \ {0}
  <2>1. k = 4 /\ BothOn => job[m].step # "go"
    BY <1>2, PromotionFacts
  <2> QED BY <1>3, <2>1 DEF Promotes
<1>8. Promotes(m)'
  <2>1. PICK f : From(m)' = f
    OBVIOUS
  <2>2. BothOn' <=> BothOn
    BY <1>1 DEF BothOn
  <2> HIDE DEF k
  <2> QED BY <1>1, <1>4, <1>5, <1>6, <1>7, <2>1, <2>2, PromotesNext DEF Begun
<1> QED BY <1>1, <1>3, <1>4, <1>8, StageStays, TablesCalm

(* The oldest row ahead of a watermark is in the oldest bucket behind it.  *)
LEMMA OldestAhead ==
  ASSUME LadderConstants, FoldInv, NEW m \in Maintainer, job[m].cfg = settings,
         Promoting(m, "seek"), NEW row \in Ahead(m), \A other \in Ahead(m) : row <= other
  PROVE  LET start == BucketStart(TierOf(m), row) IN
           /\ start \in Nat /\ \E q \in Nat : start = q * Res[TierOf(m)]
           /\ \E t \in Within(start, start + Res[TierOf(m)]) : count[From(m)][t] > 0
           /\ \A t \in SampleTime : count[From(m)][t] > 0 /\ wm[TierOf(m)] < BucketEnd(TierOf(m), t) =>
                start <= BucketStart(TierOf(m), t)
<1> DEFINE k == TierOf(m)
           f == From(m)
           start == BucketStart(k, row)
<1>1. k \in Tier /\ k \in Coarse /\ f \in Tier /\ f <= k /\ job[m].search = wm[k] /\ wm[k] \in Nat
  <2>1. k \in Tier /\ k \in Coarse /\ f \in Tier /\ f <= k /\ Promotes(m) /\ job[m].step = "seek"
    BY PromotionFacts
  <2> QED BY <2>1, FoldFacts DEF Promotes
<1>2. PICK u \in SampleTime : row = BucketStart(f, u) /\ count[f][u] > 0
  BY DEF Ahead
<1>3. u \in Nat /\ row \in Nat
  BY <1>1, <1>2, SampleNat, BucketBounds
<1>4. start = BucketStart(k, u)
  BY <1>1, <1>2, <1>3, CoarserOfStart
<1>5. PICK q \in Nat : start = q * Res[k]
  BY <1>1, <1>3, BucketAligned
<1>6. u \in Within(start, start + Res[k])
  BY <1>1, <1>4, <1>5, InRange
<1>7. start \in Nat
  BY <1>1, <1>3, BucketBounds
<1>8. ASSUME NEW t \in SampleTime, count[f][t] > 0, wm[k] < BucketEnd(k, t)
      PROVE  start <= BucketStart(k, t)
  <2>1. t \in Nat
    BY SampleNat
  <2>2. wm[k] <= BucketStart(k, t)
    <3>1. BucketEnd(k, t) <= wm[k] \/ wm[k] <= BucketStart(k, t)
      BY <1>1, BehindMark, FoldFacts
    <3>2. BucketEnd(k, t) \in Nat
      BY <1>1, <2>1, BucketBounds
    <3> QED BY <1>1, <1>8, <3>1, <3>2
  <2>3. BucketStart(k, t) <= BucketStart(f, t)
    BY <1>1, <2>1, InCoarser
  <2>4. BucketStart(k, t) \in Nat /\ BucketStart(f, t) \in Nat
    BY <1>1, <2>1, BucketBounds
  <2>5. BucketStart(f, t) >= job[m].search
    BY <1>1, <2>2, <2>3, <2>4
  <2>6. BucketStart(f, t) \in Ahead(m)
    BY <1>8, <2>5 DEF Ahead
  <2>7. row <= BucketStart(f, t)
    BY <2>6
  <2>8. BucketStart(k, BucketStart(f, t)) = BucketStart(k, t)
    BY <1>1, <2>1, CoarserOfStart
  <2> QED BY <1>1, <1>3, <2>4, <2>7, <2>8, BucketStartMono
<1> QED BY <1>2, <1>5, <1>6, <1>7, <1>8

LEMMA SeeksFolds ==
  ASSUME LadderConstants, FoldInv, NEW m \in Maintainer, writer = Idle, job[m].cfg = settings,
         Seeks(m)
  PROVE  TablesFold' /\ TickFolds(m)'
<1> DEFINE k == TierOf(m)
           f == From(m)
<1>1. /\ UNCHANGED <<clock, count, wm, settings, folded>> /\ Promoting(m, "seek")
  BY DEF Seeks, time, tables
<1>2. /\ job[m] \in TickState /\ job[m].stage > 0 /\ k \in Coarse /\ k \in Tier
      /\ In(m, "promote") /\ job[m].step = "seek" /\ job[m].step # "now" /\ job[m].now = clock
      /\ f \in Tier /\ f <= k /\ (f = 3 <=> k = 4 /\ BothOn) /\ (f = 2 \/ f = 3)
      /\ (k = 3 /\ job[m].stage = 5) \/ (k = 4 /\ job[m].stage = 6)
  BY <1>1, PromotionFacts
<1>3. /\ job[m].search = wm[k] /\ (k = 3 /\ job[m].left = 0 => wm[3] > 0)
      /\ k = 3 => job[m].limit = {}
      /\ k = 4 /\ BothOn => job[m].limit = {wm[3]} \ {0}
  <2>1. Promotes(m)
    BY <1>1, PromotionFacts
  <2>2. job[m].step # "go"
    BY <1>2
  <2> QED BY <1>2, <2>1, <2>2 DEF Promotes
\* A promotion to five minutes that stops with nothing marked has found none to promote.
<1>4. ASSUME k = 3, BothOn, wm[3] = 0, job' = [job EXCEPT ![m] = AfterStage(m)],
             \/ Ahead(m) = {}
             \/ \E row \in Ahead(m) :
                  /\ \A other \in Ahead(m) : row <= other
                  /\ ~(job[m].left > 0 /\ Promotable(m, BucketStart(k, row)))
      PROVE  \A t \in SampleTime : count[3][t] = 0
  <2> SUFFICES ASSUME NEW t \in SampleTime, count[3][t] # 0 PROVE FALSE
    OBVIOUS
  <2>1. count[3][t] > 0
    <3>1. count[3][t] \in Nat
      BY FoldFacts
    <3> QED BY <3>1
  <2>2. PICK u \in SampleTime : count[2][u] > 0 /\ IsComplete(3, BucketStart(3, u), clock)
    BY <1>4, <2>1, FoldFacts DEF TablesFold, UnmarkedFives
  <2>3. f = 2 /\ job[m].search = 0
    BY <1>2, <1>3, <1>4
  <2>4. u \in Nat /\ BucketStart(2, u) \in Nat
    BY SampleNat, BucketBounds, FoldFacts
  <2>5. BucketStart(2, u) \in Ahead(m)
    <3>1. BucketStart(2, u) >= 0
      BY <2>4
    <3> QED BY <2>2, <2>3, <3>1 DEF Ahead
  <2>6. PICK row \in Ahead(m) : /\ \A other \in Ahead(m) : row <= other
                                /\ ~(job[m].left > 0 /\ Promotable(m, BucketStart(k, row)))
    BY <1>4, <2>5
  <2>7. row \in Nat /\ row <= BucketStart(2, u)
    <3>1. PICK v \in SampleTime : row = BucketStart(f, v)
      BY DEF Ahead
    <3> QED BY <1>2, <2>5, <2>6, <3>1, SampleNat, BucketBounds
  <2>8. BucketStart(3, row) <= BucketStart(3, u)
    <3>1. BucketStart(3, row) <= BucketStart(3, BucketStart(2, u))
      BY <2>4, <2>7, BucketStartMono, FoldFacts
    <3>2. BucketStart(3, BucketStart(2, u)) = BucketStart(3, u)
      BY <2>4, CoarserOfStart, FoldFacts
    <3> QED BY <3>1, <3>2
  <2>9. IsComplete(3, BucketStart(3, row), clock)
    <3>1. BucketStart(3, row) \in Nat /\ BucketStart(3, u) \in Nat
      BY <2>4, <2>7, BucketBounds, FoldFacts
    <3>2. Res[3] \in Nat /\ Grace \in Nat /\ clock \in Nat
      BY ResNat, FoldFacts DEF LadderConstants
    <3> QED BY <2>2, <2>8, <3>1, <3>2 DEF IsComplete
  <2>10. Promotable(m, BucketStart(k, row))
    BY <1>2, <1>3, <1>4, <2>9 DEF Promotable
  <2>11. job[m].left > 0
    <3>1. job[m].left \in Nat
      BY TickTypes, FoldFacts
    <3>2. job[m].left # 0
      BY <1>3, <1>4
    <3> QED BY <3>1, <3>2
  <2> QED BY <2>6, <2>10, <2>11
<1>5. CASE /\ job' = [job EXCEPT ![m] = AfterStage(m)]
           /\ \/ Ahead(m) = {}
              \/ \E row \in Ahead(m) :
                   /\ \A other \in Ahead(m) : row <= other
                   /\ ~(job[m].left > 0 /\ Promotable(m, BucketStart(k, row)))
  <2>1. job'[m] = AfterStage(m)
    BY <1>5, FoldFacts DEF TypeOK
  <2>2. job[m].stage > 4 /\ BothOn /\ wm'[3] = 0 => \A t \in SampleTime : count'[3][t] = 0
    <3>1. CASE k = 3
      BY <1>1, <1>4, <1>5, <3>1
    <3>2. CASE k = 4
      <4>1. job[m].stage > 5
        BY <1>2, <3>2
      <4> QED BY <1>1, <4>1, FivesAreMarked
    <3> QED BY <1>2, <3>1, <3>2
  <2> QED BY <1>1, <1>2, <2>1, <2>2, StageLeft, TablesCalm
<1>6. ASSUME NEW row \in Ahead(m), \A other \in Ahead(m) : row <= other,
             Promotable(m, BucketStart(k, row)),
             job' = [job EXCEPT ![m] = [job[m] EXCEPT !.step = "gather",
                                                      !.start = BucketStart(k, row)]]
      PROVE  TablesFold' /\ TickFolds(m)'
  <2> DEFINE start == BucketStart(k, row)
  <2>1. /\ \E t \in Within(start, start + Res[k]) : count[f][t] > 0
        /\ \A t \in SampleTime : count[f][t] > 0 /\ wm[k] < BucketEnd(k, t) =>
             start <= BucketStart(k, t)
    BY <1>1, <1>6, OldestAhead
  <2>2. /\ IsComplete(k, start, clock)
        /\ \A watermark \in job[m].limit : start + Res[k] <= watermark
    BY <1>2, <1>6 DEF Promotable
  <2> HIDE DEF start
  <2>3. job'[m] = [job[m] EXCEPT !.step = "gather", !.start = start]
    BY <1>6, FoldFacts DEF TypeOK, start
  <2>4. /\ job'[m].step = "gather" /\ job'[m].start = start /\ job'[m].limit = job[m].limit
        /\ job'[m].stage = job[m].stage /\ job'[m].cfg = job[m].cfg /\ job'[m].now = job[m].now
    BY <1>2, <2>3 DEF TickState
  <2>5. TierOf(m)' = k /\ From(m)' = f
    BY <2>4 DEF TierOf, From, Source
  <2>6. Promotes(m)'
    <3>1. PICK j, g : j = k /\ g = f
      OBVIOUS
    <3>2. TierOf(m)' = j /\ From(m)' = g
      BY <2>5, <3>1
    <3>3. /\ j = 3 => job'[m].limit = {}
          /\ j = 4 /\ BothOn' => job'[m].limit = {wm'[3]} \ {0}
      BY <1>1, <1>3, <2>4, <3>1 DEF BothOn
    <3>4. /\ IsComplete(j, job'[m].start, clock')
          /\ \A watermark \in job'[m].limit : job'[m].start + Res[j] <= watermark
          /\ \E t \in Within(job'[m].start, job'[m].start + Res[j]) : count'[g][t] > 0
          /\ \A t \in SampleTime : count'[g][t] > 0 /\ wm'[j] < BucketEnd(j, t) =>
               job'[m].start <= BucketStart(j, t)
      <4> HIDE DEF k, f
      <4> QED BY <1>1, <2>1, <2>2, <2>4, <3>1
    <3> HIDE DEF k, f
    <3> QED BY <2>4, <3>2, <3>3, <3>4, PromotesNext
  <2> QED BY <1>1, <1>2, <2>4, <2>6, StageStays, TablesCalm
<1> QED BY <1>5, <1>6 DEF Seeks

LEMMA GathersFolds ==
  ASSUME LadderConstants, FoldInv, NEW m \in Maintainer, writer = Idle, job[m].cfg = settings,
         Gathers(m)
  PROVE  TablesFold' /\ TickFolds(m)'
<1> DEFINE k == TierOf(m)
           f == From(m)
           start == job[m].start
           S == Within(start, TargetEnd(m))
           finer == Read(f, S)
<1>1. /\ UNCHANGED <<clock, count, wm, settings, folded>> /\ Promoting(m, "gather")
      /\ job' = [job EXCEPT ![m] = IF finer = Empty
                                     THEN [@ EXCEPT !.step = "seek", !.search = TargetEnd(m)]
                                     ELSE [@ EXCEPT !.step = "upsert", !.held = finer]]
  BY DEF Gathers, time, tables
<1>2. /\ job[m] \in TickState /\ job[m].stage > 0 /\ k \in Coarse /\ k \in Tier
      /\ In(m, "promote") /\ job[m].step = "gather" /\ job[m].step # "go" /\ job[m].step \in Begun
  <2>1. job[m].step = "gather"
    BY <1>1, PromotionFacts
  <2> QED BY <1>1, <2>1, PromotionFacts DEF Begun
<1>3. /\ k = 3 => job[m].limit = {}
      /\ k = 4 /\ BothOn => job[m].limit = {wm[3]} \ {0}
      /\ IsComplete(k, start, clock)
      /\ \A watermark \in job[m].limit : TargetEnd(m) <= watermark
      /\ \E t \in S : count[f][t] > 0
      /\ \A t \in SampleTime : count[f][t] > 0 /\ wm[k] < BucketEnd(k, t) => start <= BucketStart(k, t)
  <2>1. Promotes(m)
    BY <1>1, PromotionFacts
  <2> QED BY <1>2, <2>1 DEF Promotes
<1>4. finer # Empty
  <2>1. PICK t \in S : count[f][t] > 0
    BY <1>3
  <2>2. t \in SampleTime
    BY DEF Within
  <2>3. finer[t] = count[f][t] /\ Empty[t] = 0
    BY <2>2 DEF Read, Empty
  <2> HIDE DEF finer
  <2> QED BY <2>1, <2>3
<1>5. /\ job'[m].step = "upsert" /\ job'[m].start = start /\ job'[m].limit = job[m].limit
      /\ job'[m].stage = job[m].stage /\ job'[m].cfg = job[m].cfg /\ job'[m].now = job[m].now
      /\ job'[m].held = finer
  <2> HIDE DEF finer
  <2>1. job'[m] = [job[m] EXCEPT !.step = "upsert", !.held = finer]
    BY <1>1, <1>4, FoldFacts DEF TypeOK
  <2> QED BY <1>2, <2>1 DEF TickState
<1>6. TierOf(m)' = k /\ From(m)' = f
  BY <1>5 DEF TierOf, From, Source
<1>7. Promotes(m)'
  <2>1. PICK j, g : j = k /\ g = f
    OBVIOUS
  <2>2. TierOf(m)' = j /\ From(m)' = g
    BY <1>6, <2>1
  <2>3. /\ j = 3 => job'[m].limit = {}
        /\ j = 4 /\ BothOn' => job'[m].limit = {wm'[3]} \ {0}
    BY <1>1, <1>3, <1>5, <2>1 DEF BothOn
  <2>4. TargetEnd(m) = job'[m].start + Res[j]
    BY <1>5, <2>1 DEF TargetEnd
  <2>5. /\ IsComplete(j, job'[m].start, clock')
        /\ \A watermark \in job'[m].limit : job'[m].start + Res[j] <= watermark
        /\ \E t \in Within(job'[m].start, job'[m].start + Res[j]) : count'[g][t] > 0
        /\ \A t \in SampleTime : count'[g][t] > 0 /\ wm'[j] < BucketEnd(j, t) =>
             job'[m].start <= BucketStart(j, t)
    <3> HIDE DEF k, f
    <3> QED BY <1>1, <1>3, <1>5, <2>1, <2>4
  <2>6. job'[m].held = [t \in SampleTime |->
          IF t \in Within(job'[m].start, job'[m].start + Res[j]) THEN count'[g][t] ELSE 0]
    <3> HIDE DEF k, f
    <3> QED BY <1>1, <1>5, <2>1, <2>4 DEF Read
  <2> HIDE DEF k, f, finer, S, start
  <2> QED BY <1>5, <2>2, <2>3, <2>5, <2>6, PromotesNext
<1> QED BY <1>1, <1>2, <1>5, <1>7, StageStays, TablesCalm

(* What a promotion under way knows of its range.                          *)
LEMMA RangeFacts ==
  ASSUME LadderConstants, FoldInv, NEW m \in Maintainer, NEW s \in Begun, Promoting(m, s),
         job[m].cfg = settings
  PROVE  LET k == TierOf(m)
             f == From(m)
             S == Within(job[m].start, TargetEnd(m))
         IN /\ k = 3 => job[m].limit = {}
            /\ k = 4 /\ BothOn => job[m].limit = {wm[3]} \ {0}
            /\ IsComplete(k, job[m].start, clock)
            /\ \A watermark \in job[m].limit : TargetEnd(m) <= watermark
            /\ \E t \in S : count[f][t] > 0
            /\ \A t \in SampleTime : count[f][t] > 0 /\ wm[k] < BucketEnd(k, t) =>
                 job[m].start <= BucketStart(k, t)
            /\ S \subseteq SampleTime
            /\ \A t \in SampleTime : t \in S <=> BucketStart(k, t) = job[m].start
            /\ \A t \in S : BucketEnd(k, t) = TargetEnd(m)
            /\ wm[k] <= job[m].start /\ job[m].start < TargetEnd(m)
            /\ job[m].start \in Nat /\ TargetEnd(m) \in Nat /\ wm[k] \in Nat
<1> DEFINE k == TierOf(m)
           f == From(m)
           start == job[m].start
           S == Within(start, TargetEnd(m))
<1>1. /\ job[m].step = s /\ job[m].step \in Begun /\ job[m].step # "go" /\ In(m, "promote")
      /\ k \in Coarse /\ k \in Tier /\ Promotes(m) /\ TickInv(m)
  BY PromotionFacts DEF Begun
<1>2. /\ k = 3 => job[m].limit = {}
      /\ k = 4 /\ BothOn => job[m].limit = {wm[3]} \ {0}
      /\ IsComplete(k, start, clock)
      /\ \A watermark \in job[m].limit : TargetEnd(m) <= watermark
      /\ \E t \in S : count[f][t] > 0
      /\ \A t \in SampleTime : count[f][t] > 0 /\ wm[k] < BucketEnd(k, t) => start <= BucketStart(k, t)
  BY <1>1 DEF Promotes
<1>3. PICK q \in Nat : start = q * Res[k]
  BY <1>1 DEF TickInv
<1>4. TargetEnd(m) = start + Res[k]
  BY DEF TargetEnd
<1>5. Res[k] \in Nat /\ Res[k] > 0 /\ wm[k] \in Nat /\ start \in Nat
  BY <1>1, ResNat, TickTypes, FoldFacts
<1>6. wm[k] <= start
  <2>1. start >= wm[k]
    BY <1>1 DEF TickInv
  <2> QED BY <1>5, <2>1
<1>7. S = Within(q * Res[k], q * Res[k] + Res[k])
  BY <1>3, <1>4
<1>8. \A t \in SampleTime : t \in S <=> BucketStart(k, t) = start
  BY <1>1, <1>3, <1>7, InRange
<1>9. S \subseteq SampleTime
  BY DEF Within
<1>10. \A t \in S : BucketEnd(k, t) = TargetEnd(m)
  BY <1>4, <1>8, <1>9 DEF BucketEnd
<1>11. start < TargetEnd(m) /\ TargetEnd(m) \in Nat
  BY <1>4, <1>5
<1> QED BY <1>2, <1>5, <1>6, <1>8, <1>9, <1>10, <1>11

LEMMA UpsertsFolds ==
  ASSUME LadderConstants, FoldInv, NEW m \in Maintainer, writer = Idle, job[m].cfg = settings,
         Upserts(m)
  PROVE  TablesFold' /\ TickFolds(m)'
<1> DEFINE k == TierOf(m)
           f == From(m)
           start == job[m].start
           held == job[m].held
           S == Within(start, TargetEnd(m))
<1>1. /\ UNCHANGED <<clock, wm, settings, writer>> /\ Promoting(m, "upsert")
      /\ count' = Written(k, S, held) /\ folded' = Counted(k, held)
      /\ job' = [job EXCEPT ![m].step = "mark", ![m].held = Empty]
  BY DEF Upserts, time
<1>2. /\ job[m] \in TickState /\ job[m].stage > 0 /\ k \in Coarse /\ k \in Tier
      /\ k \in settings.on /\ settings.on \subseteq Coarse
      /\ In(m, "promote") /\ job[m].step = "upsert" /\ job[m].now = clock /\ f \in Tier
      /\ f # k /\ (f = 2 \/ f = 3) /\ (f = 3 <=> k = 4 /\ BothOn) /\ f = Source(k, settings.on)
      /\ (k = 3 /\ job[m].stage = 5) \/ (k = 4 /\ job[m].stage = 6)
      /\ TypeOK /\ held \in Counts
  BY <1>1, PromotionFacts, FoldFacts, TickTypes
<1>3. /\ k = 3 => job[m].limit = {}
      /\ k = 4 /\ BothOn => job[m].limit = {wm[3]} \ {0}
      /\ IsComplete(k, start, clock)
      /\ \A watermark \in job[m].limit : TargetEnd(m) <= watermark
      /\ \E t \in S : count[f][t] > 0
      /\ \A t \in SampleTime : count[f][t] > 0 /\ wm[k] < BucketEnd(k, t) => start <= BucketStart(k, t)
      /\ S \subseteq SampleTime
      /\ \A t \in SampleTime : t \in S <=> BucketStart(k, t) = start
      /\ \A t \in S : BucketEnd(k, t) = TargetEnd(m)
      /\ wm[k] <= start /\ start < TargetEnd(m)
      /\ start \in Nat /\ TargetEnd(m) \in Nat /\ wm[k] \in Nat
  <2>1. "upsert" \in Begun
    BY DEF Begun
  <2> QED BY <1>1, <2>1, RangeFacts
<1>4. \A t \in S : held[t] = count[f][t]
  <2>1. Promotes(m)
    BY <1>1, PromotionFacts
  <2>2. held = Read(f, S)
    BY <1>2, <2>1 DEF Promotes
  <2> QED BY <1>3, <2>2 DEF Read
<1>5. ASSUME NEW j \in Tier, NEW t \in SampleTime
      PROVE  count'[j][t] = IF j = k /\ t \in S THEN held[t] ELSE count[j][t]
  <2> HIDE DEF S, k, held
  <2> QED BY <1>1, <1>2, WrittenAt
<1>6. ASSUME NEW j \in Coarse, NEW t \in SampleTime
      PROVE  t \in folded'[j] <=> t \in folded[j] \/ (j = k /\ held[t] > 0)
  <2> HIDE DEF k, held
  <2> QED BY <1>1, <1>2 DEF Counted, TypeOK
<1>7. ASSUME NEW t \in SampleTime
      PROVE  /\ count'[1][t] = count[1][t] /\ count'[2][t] = count[2][t]
             /\ k = 4 => count'[3][t] = count[3][t]
             /\ t \notin S => count'[3][t] = count[3][t]
             /\ k = 3 /\ t \in S => count'[3][t] = count[2][t]
             /\ count'[f][t] = count[f][t]
             /\ t \in S => count'[k][t] = count[f][t]
  <2>1. k # 1 /\ k # 2
    BY <1>2 DEF Coarse
  <2>2. k = 3 => f = 2
    BY <1>2
  <2> HIDE DEF S, k, f, held
  <2> QED BY <1>2, <1>4, <1>5, <2>1, <2>2, FoldFacts
<1> HIDE DEF S, k, f, held, start
<1>8. \A t \in SampleTime : /\ ~Fresh(t) /\ ~Fresh(t)'
                             /\ \A j : ~Due(j, t) /\ ~Due(j, t)'
  BY <1>1, IdleNow, IdleFolds
<1>9. MinutesHave'
  <2> SUFFICES ASSUME NEW t \in SampleTime, count'[1][t] > 0
               PROVE  count'[2][t] > 0 \/ OldMinute(t)'
    BY DEF MinutesHave
  <2> QED BY <1>1, <1>7, <1>8, FoldFacts, StillOld DEF TablesFold, MinutesHave
<1>10. FoldedBehind'
  <2> SUFFICES ASSUME NEW j \in settings'.on, NEW t \in SampleTime,
                      InFiner(j, t)', BucketEnd(j, t)' <= wm'[j]
               PROVE  t \in folded'[j]
    BY DEF FoldedBehind, FoldedAt
  <2>1. j \in settings.on /\ j \in Coarse /\ BucketEnd(j, t) <= wm[j]
    BY <1>1, <1>2 DEF BucketEnd, BucketStart
  <2>2. Source(j, settings.on)' = Source(j, settings.on)
    BY <1>1 DEF Source
  <2>3. InFiner(j, t)
    <3>1. Source(j, settings.on) = 2 \/ (Source(j, settings.on) = 3 /\ j = 4)
      BY DEF Source
    <3>2. CASE Source(j, settings.on) = 2
      BY <1>7, <2>2, <3>2 DEF InFiner
    <3>3. CASE Source(j, settings.on) = 3
      <4>1. count'[3][t] > 0 => count[2][t] > 0 \/ count[3][t] > 0
        <5>1. k = 3 \/ k = 4
          BY <1>2 DEF Coarse
        <5> QED BY <1>7, <5>1
      <4> QED BY <1>7, <2>2, <3>3, <4>1 DEF InFiner
    <3> QED BY <3>1, <3>2, <3>3
  <2>4. t \in folded[j]
    BY <1>8, <2>1, <2>3, FoldFacts DEF TablesFold, FoldedBehind, FoldedAt
  <2> QED BY <1>6, <2>1, <2>4
<1>11. FivesHave'
  <2> SUFFICES ASSUME BothOn', NEW t \in SampleTime, count'[1][t] > 0 \/ count'[2][t] > 0,
                      BucketEnd(3, t)' <= wm'[3], wm'[4] < BucketEnd(4, t)'
               PROVE  count'[3][t] > 0
    BY DEF FivesHave, FiveAt
  <2>1. BothOn /\ BucketEnd(3, t) <= wm[3] /\ wm[4] < BucketEnd(4, t)
    BY <1>1 DEF BothOn, BucketEnd, BucketStart
  <2>2. count[3][t] > 0
    BY <1>7, <1>8, <2>1, FoldFacts DEF TablesFold, FivesHave, FiveAt
  <2>3. CASE k = 3
    <3>1. t \notin S
      <4> SUFFICES ASSUME t \in S PROVE FALSE
        OBVIOUS
      <4>1. BucketEnd(3, t) = TargetEnd(m) /\ wm[3] \in Nat
        BY <1>3, <2>3
      <4> QED BY <1>3, <2>1, <2>3, <4>1
    <3> QED BY <1>7, <2>2, <3>1
  <2>4. CASE k = 4
    BY <1>7, <2>2, <2>4
  <2> QED BY <1>2, <2>3, <2>4 DEF Coarse
<1>12. HoursBehind'
  BY <1>1, FoldFacts DEF TablesFold, HoursBehind, BothOn
<1>13. UnmarkedFives'
  <2>1. CASE k = 3
    <3>1. PICK t \in S : count[f][t] > 0
      BY <1>3
    <3>2. f = 2 /\ t \in SampleTime /\ BucketStart(3, t) = start
      BY <1>2, <1>3, <2>1, <3>1
    <3>3. count'[2][t] > 0 /\ IsComplete(3, BucketStart(3, t), clock')
      BY <1>1, <1>3, <1>7, <2>1, <3>1, <3>2
    <3> QED BY <3>2, <3>3 DEF UnmarkedFives, IsComplete, BucketStart
  <2>2. CASE k = 4
    BY <1>1, <1>7, <2>2, FoldFacts DEF TablesFold, UnmarkedFives, BothOn, IsComplete, BucketStart
  <2> QED BY <1>2, <2>1, <2>2 DEF Coarse
<1>14. /\ job'[m].step = "mark" /\ job'[m].start = start /\ job'[m].limit = job[m].limit
       /\ job'[m].stage = job[m].stage /\ job'[m].cfg = job[m].cfg /\ job'[m].now = job[m].now
  BY <1>1, <1>2 DEF TypeOK, TickState, start
<1>15. TierOf(m)' = k /\ From(m)' = f
  BY <1>14 DEF TierOf, From, Source, k, f
<1>16. Promotes(m)'
  <2>1. PICK j, g : j = k /\ g = f
    OBVIOUS
  <2>2. TierOf(m)' = j /\ From(m)' = g
    BY <1>15, <2>1
  <2>3. /\ j = 3 => job'[m].limit = {}
        /\ j = 4 /\ BothOn' => job'[m].limit = {wm'[3]} \ {0}
    BY <1>1, <1>3, <1>14, <2>1 DEF BothOn
  <2>4. TargetEnd(m) = job'[m].start + Res[j] /\ S = Within(job'[m].start, job'[m].start + Res[j])
    BY <1>14, <2>1 DEF TargetEnd, S, k, start
  <2>5. /\ IsComplete(j, job'[m].start, clock')
        /\ \A watermark \in job'[m].limit : job'[m].start + Res[j] <= watermark
        /\ \E t \in Within(job'[m].start, job'[m].start + Res[j]) : count'[g][t] > 0
        /\ \A t \in SampleTime : count'[g][t] > 0 /\ wm'[j] < BucketEnd(j, t) =>
             job'[m].start <= BucketStart(j, t)
    <3>1. \E t \in S : count'[f][t] > 0
      BY <1>3, <1>7
    <3>2. \A t \in SampleTime : count'[f][t] > 0 /\ wm'[k] < BucketEnd(k, t) => start <= BucketStart(k, t)
      BY <1>1, <1>3, <1>7
    <3> QED BY <1>1, <1>3, <1>14, <2>1, <2>4, <3>1, <3>2
  <2>6. \A t \in Within(job'[m].start, job'[m].start + Res[j]) :
          count'[g][t] > 0 => t \in folded'[j] /\ count'[j][t] > 0
    <3> SUFFICES ASSUME NEW t \in S, count'[f][t] > 0
                 PROVE  t \in folded'[k] /\ count'[k][t] > 0
      BY <2>1, <2>4
    <3>1. t \in SampleTime /\ count[f][t] > 0 /\ held[t] = count[f][t]
      BY <1>3, <1>4, <1>7
    <3> QED BY <1>2, <1>6, <1>7, <3>1
  <2>7. job'[m].step \notin {"seek", "upsert"}
    BY <1>14
  <2> QED BY <2>2, <2>3, <2>5, <2>6, <2>7, PromotesNext
<1>17. TickFolds(m)'
  <2>1. job[m].stage > 5 => wm'[3] = wm[3] /\ \A t \in SampleTime : count'[3][t] = count[3][t]
    <3>1. CASE k = 4
      BY <1>1, <1>7, <3>1
    <3>2. CASE k = 3
      <4>1. job[m].stage = 5
        BY <1>2, <3>2
      <4> QED BY <4>1
    <3> QED BY <1>2, <3>1, <3>2
  <2> QED BY <1>1, <1>2, <1>14, <1>16, <2>1, StageStays
<1> QED BY <1>9, <1>10, <1>11, <1>12, <1>13, <1>17 DEF TablesFold

LEMMA MarksFolds ==
  ASSUME LadderConstants, FoldInv, NEW m \in Maintainer, writer = Idle, job[m].cfg = settings,
         Marks(m)
  PROVE  TablesFold' /\ TickFolds(m)'
<1> DEFINE k == TierOf(m)
           f == From(m)
           start == job[m].start
           E == TargetEnd(m)
           S == Within(start, E)
<1>1. /\ UNCHANGED <<clock, count, settings, folded, writer>> /\ Promoting(m, "mark")
      /\ wm' = [wm EXCEPT ![k] = E]
      /\ job' = [job EXCEPT ![m].step = "seek", ![m].search = E, ![m].left = @ - 1]
  BY DEF Marks, time
<1>2. /\ job[m] \in TickState /\ job[m].stage > 0 /\ k \in Coarse /\ k \in Tier
      /\ k \in settings.on /\ settings.on \subseteq Coarse
      /\ In(m, "promote") /\ job[m].step = "mark" /\ job[m].now = clock /\ f \in Tier
      /\ f # k /\ (f = 2 \/ f = 3) /\ (f = 3 <=> k = 4 /\ BothOn) /\ f = Source(k, settings.on)
      /\ (k = 3 /\ job[m].stage = 5) \/ (k = 4 /\ job[m].stage = 6)
      /\ TypeOK /\ TablesOK
  BY <1>1, PromotionFacts, FoldFacts
<1>3. /\ k = 3 => job[m].limit = {}
      /\ k = 4 /\ BothOn => job[m].limit = {wm[3]} \ {0}
      /\ \A watermark \in job[m].limit : E <= watermark
      /\ \E t \in S : count[f][t] > 0
      /\ \A t \in SampleTime : count[f][t] > 0 /\ wm[k] < BucketEnd(k, t) => start <= BucketStart(k, t)
      /\ S \subseteq SampleTime
      /\ \A t \in SampleTime : t \in S <=> BucketStart(k, t) = start
      /\ wm[k] <= start /\ start < E
      /\ start \in Nat /\ E \in Nat /\ wm[k] \in Nat
  <2>1. "mark" \in Begun
    BY DEF Begun
  <2> QED BY <1>1, <2>1, RangeFacts
<1>4. \A t \in S : count[f][t] > 0 => t \in folded[k] /\ count[k][t] > 0
  <2>1. Promotes(m)
    BY <1>1, PromotionFacts
  <2> QED BY <1>2, <2>1 DEF Promotes
<1>5. /\ wm'[k] = E /\ \A j \in Coarse : j # k => wm'[j] = wm[j]
      /\ wm[k] < E /\ E > 0
  <2>1. wm'[k] = E /\ \A j \in Coarse : j # k => wm'[j] = wm[j]
    <3> HIDE DEF k, E
    <3> QED BY <1>1, <1>2 DEF TypeOK
  <2> HIDE DEF E, start, k
  <2> QED BY <1>3, <2>1
<1>6. E = start + Res[k] /\ Res[k] \in Nat
  BY <1>2, ResNat DEF TargetEnd
<1>7. /\ job'[m].step = "seek" /\ job'[m].search = E /\ job'[m].limit = job[m].limit
      /\ job'[m].stage = job[m].stage /\ job'[m].cfg = job[m].cfg /\ job'[m].now = job[m].now
  <2> HIDE DEF E
  <2> QED BY <1>1, <1>2 DEF TypeOK, TickState
<1> HIDE DEF k, f, start, E, S
<1>8. \A t \in SampleTime : /\ ~Fresh(t) /\ ~Fresh(t)'
                             /\ \A j : ~Due(j, t) /\ ~Due(j, t)'
  BY <1>1, IdleNow, IdleFolds
<1>9. \A j \in Coarse : wm[j] \in Nat /\ wm'[j] \in Nat /\ wm[j] <= wm'[j]
  <2> SUFFICES ASSUME NEW j \in Coarse PROVE wm[j] \in Nat /\ wm'[j] \in Nat /\ wm[j] <= wm'[j]
    OBVIOUS
  <2>1. wm[j] \in Nat
    BY FoldFacts
  <2>2. CASE j = k
    BY <1>3, <1>5, <2>1, <2>2
  <2>3. CASE j # k
    BY <1>5, <2>1, <2>3
  <2> QED BY <2>2, <2>3
<1>10. ASSUME NEW t \in SampleTime
       PROVE  /\ BucketEnd(2, t) \in Nat /\ BucketEnd(3, t) \in Nat /\ BucketEnd(4, t) \in Nat
              /\ BucketEnd(k, t) \in Nat /\ BucketStart(k, t) \in Nat
              /\ BucketEnd(k, t) = BucketStart(k, t) + Res[k] /\ BucketEnd(3, t) <= BucketEnd(4, t)
  <2>1. t \in Nat /\ 3 <= 4
    BY SampleNat, FoldFacts
  <2>2. /\ BucketEnd(2, t) \in Nat /\ BucketEnd(3, t) \in Nat /\ BucketEnd(4, t) \in Nat
    BY <2>1, BucketBounds, FoldFacts
  <2>3. /\ BucketEnd(k, t) \in Nat /\ BucketStart(k, t) \in Nat
        /\ BucketEnd(k, t) = BucketStart(k, t) + Res[k]
    BY <1>2, <2>1, BucketBounds, FoldFacts
  <2>4. BucketEnd(3, t) <= BucketEnd(4, t)
    BY <2>1, InCoarser, FoldFacts
  <2> QED BY <2>2, <2>3, <2>4
\* A minute that may have been pruned is behind the watermark of its tier.
<1>11. ASSUME NEW t \in SampleTime, OldMinute(t), f = 2
       PROVE  BucketEnd(k, t) <= wm[k]
  <2>1. k \in Dependents(2, settings.on)
    BY <1>2, <1>11, MinutesWait
  <2>2. BucketEnd(2, t) <= wm[k]
    BY <1>11, <2>1 DEF OldMinute
  <2>3. 2 <= k
    BY <1>2 DEF Coarse
  <2> QED BY <1>2, <2>2, <2>3, BehindMark, FoldFacts
\* The hours are promoted only as far as the five minutes are.
<1>12. k = 4 /\ BothOn => E <= wm[3]
  <2> SUFFICES ASSUME k = 4, BothOn PROVE E <= wm[3]
    OBVIOUS
  <2>1. job[m].stage > 5 /\ f = 3
    BY <1>2
  <2>2. wm[3] # 0
    <3> SUFFICES ASSUME wm[3] = 0 PROVE FALSE
      OBVIOUS
    <3>1. \A t \in SampleTime : count[3][t] = 0
      BY <2>1, FivesAreMarked
    <3> QED BY <1>3, <2>1, <3>1
  <2> QED BY <1>3, <2>2
\* What the finer tier counts of the range that is marked has been folded.
<1>13. ASSUME NEW t \in SampleTime, count[f][t] > 0, wm[k] < BucketEnd(k, t), BucketEnd(k, t) <= E
       PROVE  t \in S
  <2>1. start <= BucketStart(k, t)
    BY <1>3, <1>13
  <2>2. BucketStart(k, t) = start
    BY <1>3, <1>6, <1>10, <1>13, <2>1
  <2> QED BY <1>3, <2>2
<1>14. ASSUME NEW t \in SampleTime, count[1][t] > 0 \/ count[2][t] > 0, f = 2,
              wm[k] < BucketEnd(k, t)
       PROVE  count[2][t] > 0
  <2> SUFFICES ASSUME count[1][t] > 0, ~(count[2][t] > 0) PROVE FALSE
    BY <1>14
  <2>1. OldMinute(t)
    BY <1>8, FoldFacts DEF TablesFold, MinutesHave
  <2>2. BucketEnd(k, t) <= wm[k]
    BY <1>11, <1>14, <2>1
  <2> QED BY <1>3, <1>10, <1>14, <2>2
<1>15. MinutesHave'
  <2> SUFFICES ASSUME NEW t \in SampleTime, count'[1][t] > 0
               PROVE  count'[2][t] > 0 \/ OldMinute(t)'
    BY DEF MinutesHave
  <2>1. count[2][t] > 0 \/ OldMinute(t)
    BY <1>1, <1>8, FoldFacts DEF TablesFold, MinutesHave
  <2>2. ASSUME OldMinute(t)
        PROVE  OldMinute(t)'
    <3>1. BucketEnd(2, t) <= Since(clock, settings.keep[2])
      BY <2>2 DEF OldMinute
    <3>2. ASSUME NEW c \in Dependents(2, settings.on)
          PROVE  BucketEnd(2, t) <= wm'[c]
      <4>1. c \in Coarse /\ BucketEnd(2, t) <= wm[c]
        BY <1>2, <2>2, <3>2 DEF OldMinute, Dependents
      <4> QED BY <1>9, <1>10, <4>1
    <3>3. Dependents(2, settings.on)' = Dependents(2, settings.on)
      BY <1>1 DEF Dependents
    <3>4. BucketEnd(2, t)' = BucketEnd(2, t)
      BY DEF BucketEnd, BucketStart
    <3>5. Since(clock, settings.keep[2])' = Since(clock, settings.keep[2])
      BY <1>1 DEF Since
    <3> QED BY <3>1, <3>2, <3>3, <3>4, <3>5 DEF OldMinute
  <2> QED BY <1>1, <2>1, <2>2
<1>16. FoldedBehind'
  <2> SUFFICES ASSUME NEW j \in settings'.on, NEW t \in SampleTime,
                      InFiner(j, t)', BucketEnd(j, t)' <= wm'[j]
               PROVE  t \in folded'[j]
    BY DEF FoldedBehind, FoldedAt
  <2>1. j \in settings.on /\ j \in Coarse /\ BucketEnd(j, t) <= wm'[j]
    BY <1>1, <1>2 DEF BucketEnd, BucketStart
  <2>2. InFiner(j, t)
    BY <1>1 DEF InFiner, Source
  <2>3. BucketEnd(j, t) <= wm[j] => t \in folded[j]
    BY <1>8, <2>1, <2>2, FoldFacts DEF TablesFold, FoldedBehind, FoldedAt
  <2>4. CASE j # k
    BY <1>1, <1>5, <2>1, <2>3, <2>4
  <2>5. CASE j = k /\ wm[k] < BucketEnd(k, t)
    <3>1. BucketEnd(k, t) <= E
      BY <1>5, <2>1, <2>5
    <3>2. CASE f = 2
      <4>1. count[1][t] > 0 \/ count[2][t] > 0
        BY <1>2, <2>2, <2>5, <3>2 DEF InFiner
      <4>2. count[f][t] > 0
        BY <1>14, <2>5, <3>2, <4>1
      <4> QED BY <1>1, <1>4, <1>13, <2>5, <3>1, <4>2
    <3>3. CASE f = 3
      <4>1. k = 4 /\ BothOn
        BY <1>2, <3>3
      <4>2. BucketEnd(3, t) <= wm[3]
        <5>1. E <= wm[3] /\ wm[3] \in Nat
          BY <1>12, <4>1, FoldFacts
        <5> QED BY <1>3, <1>10, <3>1, <4>1, <5>1
      <4>3. count[1][t] > 0 \/ count[2][t] > 0 => count[3][t] > 0
        BY <1>8, <2>5, <4>1, <4>2, FoldFacts DEF TablesFold, FivesHave, FiveAt
      <4>4. count[f][t] > 0
        BY <1>2, <2>2, <2>5, <3>3, <4>3 DEF InFiner
      <4> QED BY <1>1, <1>4, <1>13, <2>5, <3>1, <4>4
    <3> QED BY <1>2, <3>2, <3>3
  <2> QED BY <1>1, <1>3, <1>10, <2>3, <2>4, <2>5
<1>17. FivesHave'
  <2> SUFFICES ASSUME BothOn', NEW t \in SampleTime, count'[1][t] > 0 \/ count'[2][t] > 0,
                      BucketEnd(3, t)' <= wm'[3], wm'[4] < BucketEnd(4, t)'
               PROVE  count'[3][t] > 0
    BY DEF FivesHave, FiveAt
  <2>1. /\ BothOn /\ BucketEnd(3, t) <= wm'[3] /\ wm'[4] < BucketEnd(4, t)
        /\ count[1][t] > 0 \/ count[2][t] > 0
    BY <1>1 DEF BothOn, BucketEnd, BucketStart
  <2>2. wm[4] < BucketEnd(4, t)
    BY <1>9, <1>10, <2>1, FoldFacts
  <2>3. BucketEnd(3, t) <= wm[3] => count[3][t] > 0
    BY <1>8, <2>1, <2>2, FoldFacts DEF TablesFold, FivesHave, FiveAt
  <2>4. CASE k = 4
    <3>1. wm'[3] = wm[3]
      BY <1>5, <2>4, FoldFacts
    <3> QED BY <1>1, <2>1, <2>3, <3>1
  <2>5. CASE k = 3 /\ wm[3] < BucketEnd(3, t)
    <3>1. f = 2 /\ wm[k] < BucketEnd(k, t) /\ BucketEnd(k, t) <= E
      BY <1>2, <1>5, <2>1, <2>5
    <3>2. count[f][t] > 0
      BY <1>14, <2>1, <3>1
    <3>3. t \in S
      BY <1>13, <3>1, <3>2
    <3> QED BY <1>1, <1>4, <2>5, <3>2, <3>3
  <2>6. wm[3] \in Nat
    BY FoldFacts
  <2> QED BY <1>1, <1>2, <1>10, <2>3, <2>4, <2>5, <2>6 DEF Coarse
<1>18. HoursBehind'
  <2> SUFFICES ASSUME BothOn PROVE wm'[4] <= wm'[3]
    BY <1>1 DEF HoursBehind, BothOn
  <2>1. wm[4] <= wm[3]
    BY FoldFacts DEF TablesFold, HoursBehind
  <2>2. CASE k = 3
    <3>1. wm'[4] = wm[4] /\ wm[3] <= wm'[3]
      BY <1>5, <1>9, <2>2, FoldFacts
    <3> QED BY <1>9, <2>1, <3>1, FoldFacts
  <2>3. CASE k = 4
    BY <1>5, <1>12, <2>3, FoldFacts
  <2> QED BY <1>2, <2>2, <2>3 DEF Coarse
<1>19. UnmarkedFives'
  <2>1. CASE k = 3
    <3>1. wm'[3] # 0
      BY <1>3, <1>5, <2>1
    <3> QED BY <3>1 DEF UnmarkedFives
  <2>2. CASE k = 4
    <3>1. wm'[3] = wm[3]
      BY <1>5, <2>2, FoldFacts
    <3> QED BY <1>1, <3>1, FoldFacts DEF TablesFold, UnmarkedFives, BothOn, IsComplete, BucketStart
  <2> QED BY <1>2, <2>1, <2>2 DEF Coarse
<1>20. Promotes(m)'
  <2>1. PICK j : j = k
    OBVIOUS
  <2>2. TierOf(m)' = j
    BY <1>7, <2>1 DEF TierOf, k
  <2>3. PICK g : From(m)' = g
    OBVIOUS
  <2>4. j = 3 => job'[m].limit = {} /\ wm'[3] > 0
    BY <1>3, <1>5, <1>7, <2>1
  <2>5. j = 4 /\ BothOn' => job'[m].limit = {wm'[3]} \ {0}
    <3> SUFFICES ASSUME k = 4, BothOn PROVE job'[m].limit = {wm'[3]} \ {0}
      BY <1>1, <2>1 DEF BothOn
    <3>1. wm'[3] = wm[3]
      BY <1>5, FoldFacts
    <3> QED BY <1>3, <1>7, <3>1
  <2>6. job'[m].search = wm'[j]
    BY <1>5, <1>7, <2>1
  <2>7. job'[m].step \notin Begun \cup {"upsert", "mark"}
    BY <1>7 DEF Begun
  <2> QED BY <2>2, <2>3, <2>4, <2>5, <2>6, <2>7, PromotesNext
<1>21. TickFolds(m)'
  <2>1. job[m].stage > 5 => wm'[3] = wm[3] /\ \A t \in SampleTime : count'[3][t] = count[3][t]
    <3>1. CASE k = 4
      BY <1>1, <1>5, <3>1, FoldFacts
    <3>2. CASE k = 3
      <4>1. job[m].stage = 5
        BY <1>2, <3>2
      <4> QED BY <4>1
    <3> QED BY <1>2, <3>1, <3>2
  <2> QED BY <1>1, <1>2, <1>7, <1>20, <2>1, StageStays
<1> QED BY <1>15, <1>16, <1>17, <1>18, <1>19, <1>21 DEF TablesFold

LEMMA PrunesFolds ==
  ASSUME LadderConstants, FoldInv, NEW m \in Maintainer, writer = Idle, job[m].cfg = settings,
         Prunes(m)
  PROVE  TablesFold' /\ TickFolds(m)'
<1> DEFINE k == TierOf(m)
           S == {t \in SampleTime : Expired(m, t)}
<1>1. /\ UNCHANGED <<clock, wm, settings, folded, writer>> /\ In(m, "prune") /\ Applies(m)
      /\ count' = Written(k, S, Empty)
      /\ job' = [job EXCEPT ![m] = AfterStage(m)]
  BY DEF Prunes, time
<1>2. /\ job[m].stage > 0 /\ job[m].stage > 6 /\ job[m].step # "now" /\ job[m].now = clock
      /\ k \in Tier /\ TypeOK /\ job'[m] = AfterStage(m) /\ settings.on \subseteq Coarse
  <2>1. job[m].stage > 0 /\ job[m].step # "now" /\ job[m].now = clock
    BY <1>1, HasClock
  <2>2. job[m].stage > 6 /\ k \in Tier
    BY <1>1, <2>1, StageNumbers, TierOfTyped, FoldFacts
  <2> QED BY <1>1, <2>1, <2>2, FoldFacts DEF TypeOK
<1>3. ASSUME NEW j \in Tier, NEW t \in SampleTime
      PROVE  count'[j][t] = IF j = k /\ t \in S THEN 0 ELSE count[j][t]
  <2> HIDE DEF S, k
  <2>1. Empty \in Counts /\ Empty[t] = 0
    BY DEF Empty, Counts
  <2> QED BY <1>1, <1>2, <2>1, WrittenAt
<1>4. ASSUME NEW t \in S
      PROVE  /\ BucketEnd(k, t) <= Since(clock, settings.keep[k])
             /\ k \in {2, 3} => \A c \in Dependents(k, settings.on) : BucketEnd(k, t) <= wm[c]
  <2>1. t \in SampleTime /\ Expired(m, t)
    OBVIOUS
  <2>2. BucketEnd(k, t) <= Since(clock, settings.keep[k])
    BY <1>2, <2>1 DEF Expired
  <2>3. ASSUME k \in {2, 3}, NEW c \in Dependents(k, settings.on)
        PROVE  BucketEnd(k, t) <= wm[c]
    <3>1. c \in Coarse
      BY <1>2 DEF Dependents
    <3>2. BucketEnd(k, t) <= job[m].authority[c]
      BY <2>1, <2>3 DEF Expired
    <3>3. job[m].authority[c] <= wm[c]
      BY <3>1, FoldFacts DEF LoopInv, TickInv
    <3>4. BucketEnd(k, t) \in Nat /\ job[m].authority[c] \in Nat /\ wm[c] \in Nat
      BY <1>2, <2>1, <3>1, BucketBounds, SampleNat, TickTypes, FoldFacts
    <3> QED BY <3>2, <3>3, <3>4
  <2> QED BY <2>2, <2>3
<1> HIDE DEF k, S
<1>5. \A j \in Tier : \A t \in SampleTime :
        /\ count'[j][t] > 0 => count[j][t] > 0
        /\ count[j][t] > 0 => count'[j][t] > 0 \/ (j = k /\ t \in S)
        /\ count[j][t] = 0 => count'[j][t] = 0
  <2>1. ~(0 > 0)
    OBVIOUS
  <2> QED BY <1>3, <2>1
<1>6. \A t \in SampleTime : /\ ~Fresh(t) /\ ~Fresh(t)'
                             /\ \A j : ~Due(j, t) /\ ~Due(j, t)'
  BY <1>1, IdleNow, IdleFolds
<1>7. BothOn /\ wm[3] = 0 => \A t \in SampleTime : count[3][t] = 0 /\ count'[3][t] = 0
  <2>1. job[m].stage > 5
    BY <1>2, TickTypes
  <2> QED BY <1>5, <2>1, FivesAreMarked, FoldFacts
<1>8. MinutesHave'
  <2> SUFFICES ASSUME NEW t \in SampleTime, count'[1][t] > 0
               PROVE  count'[2][t] > 0 \/ OldMinute(t)'
    BY DEF MinutesHave
  <2>1. count[2][t] > 0 \/ OldMinute(t)
    BY <1>5, <1>6, FoldFacts DEF TablesFold, MinutesHave
  <2>2. k = 2 /\ t \in S => OldMinute(t)
    BY <1>4 DEF OldMinute
  <2>3. OldMinute(t)' <=> OldMinute(t)
    BY <1>1, StillOld
  <2> QED BY <1>5, <2>1, <2>2, <2>3, FoldFacts
<1>9. FoldedBehind'
  <2> SUFFICES ASSUME NEW j \in settings'.on, NEW t \in SampleTime,
                      InFiner(j, t)', BucketEnd(j, t)' <= wm'[j]
               PROVE  t \in folded'[j]
    BY DEF FoldedBehind, FoldedAt
  <2>1. j \in settings.on /\ BucketEnd(j, t) <= wm[j]
    BY <1>1 DEF BucketEnd, BucketStart
  <2>2. Source(j, settings.on)' = Source(j, settings.on) /\ Source(j, settings.on) \in Tier
    BY <1>1 DEF Source, Tier
  <2>3. InFiner(j, t)
    BY <1>5, <2>2, FoldFacts DEF InFiner
  <2> QED BY <1>1, <1>6, <2>1, <2>3, FoldFacts DEF TablesFold, FoldedBehind, FoldedAt
<1>10. FivesHave'
  <2> SUFFICES ASSUME BothOn', NEW t \in SampleTime, count'[1][t] > 0 \/ count'[2][t] > 0,
                      BucketEnd(3, t)' <= wm'[3], wm'[4] < BucketEnd(4, t)'
               PROVE  count'[3][t] > 0
    BY DEF FivesHave, FiveAt
  <2>1. /\ BothOn /\ BucketEnd(3, t) <= wm[3] /\ wm[4] < BucketEnd(4, t)
        /\ count[1][t] > 0 \/ count[2][t] > 0
    BY <1>1, <1>5, FoldFacts DEF BothOn, BucketEnd, BucketStart
  <2>2. count[3][t] > 0
    BY <1>6, <2>1, FoldFacts DEF TablesFold, FivesHave, FiveAt
  <2>3. ~(k = 3 /\ t \in S)
    <3> SUFFICES ASSUME k = 3, t \in S PROVE FALSE
      OBVIOUS
    <3>1. 4 \in settings.on
      BY <2>1, FoldFacts DEF BothOn
    <3>2. 4 \in Dependents(3, settings.on)
      BY <1>2, <3>1, SourceFacts
    <3>3. BucketEnd(3, t) <= wm[4]
      BY <1>4, <3>2
    <3>4. BucketEnd(4, t) <= wm[4]
      BY <3>3, BehindMark, FoldFacts
    <3>5. BucketEnd(4, t) \in Nat /\ wm[4] \in Nat
      BY BucketBounds, SampleNat, FoldFacts
    <3> QED BY <2>1, <3>4, <3>5
  <2> QED BY <1>5, <2>2, <2>3, FoldFacts
<1>11. HoursBehind'
  BY <1>1, FoldFacts DEF TablesFold, HoursBehind, BothOn
<1>12. UnmarkedFives'
  <2>1. BothOn' /\ wm'[3] = 0 => ~\E t \in SampleTime : count'[3][t] > 0
    <3>1. ~(0 > 0)
      OBVIOUS
    <3> QED BY <1>1, <1>7, <3>1 DEF BothOn
  <2> QED BY <2>1 DEF UnmarkedFives
<1>13. TickFolds(m)'
  BY <1>1, <1>2, <1>7, StageLeft
<1> QED BY <1>8, <1>9, <1>10, <1>11, <1>12, <1>13 DEF TablesFold

LEMMA TickKeepsFolds ==
  ASSUME LadderConstants, Undisturbed, FoldInv, NEW m \in Maintainer, Tick(m)
  PROVE  FoldInv'
<1>1. ~Overlap /\ LoopInv /\ TypeOK
  BY FoldFacts DEF Undisturbed
<1>2. LoopInv'
  BY <1>1, TickLoop
<1>3. /\ writer = Idle /\ \A n \in Maintainer : n # m => job[n] = NoTick
      /\ ~TickBegins(m) => job[m].cfg = settings
  BY <1>1, TickAlone
<1>4. TablesFold' /\ TickFolds(m)'
  BY <1>3, TickBeginsFolds, ReadsClockFolds, SyncsFlagFolds, ReadsAuthorityFolds,
     SkipsStageFolds, ReadsLimitFolds, ReadsWatermarkFolds, SeeksFolds, GathersFolds,
     UpsertsFolds, MarksFolds, PrunesFolds, StatementFailsFolds, TickEndsFolds DEF Tick
<1>5. writer' = Idle
  BY <1>3 DEF Tick, TickBegins, ReadsClock, SyncsFlag, ReadsAuthority, SkipsStage, ReadsLimit,
              ReadsWatermark, Seeks, Gathers, Upserts, Marks, Prunes, StatementFails, TickEnds
<1>6. \E x : job' = [job EXCEPT ![m] = x]
  BY DEF Tick, TickBegins, ReadsClock, SyncsFlag, ReadsAuthority, SkipsStage, ReadsLimit,
         ReadsWatermark, Seeks, Gathers, Upserts, Marks, Prunes, StatementFails, TickEnds
<1>7. \A n \in Maintainer : n # m => job'[n] = NoTick
  BY <1>1, <1>3, <1>6 DEF TypeOK
<1>8. \A n \in Maintainer : TickFolds(n)'
  BY <1>4, <1>7, NoTickFolds
<1> QED BY <1>2, <1>4, <1>5, <1>8, IdleFolds DEF FoldInv

-----------------------------------------------------------------------------
(* Settings and time.                                                      *)

(* Between inserts and ticks, time only passes.                            *)
LEMMA TimePasses ==
  ASSUME LadderConstants, FoldInv, Quiet, UNCHANGED <<count, wm, settings, folded, writer, job>>,
         clock' \in Nat, clock <= clock'
  PROVE  /\ TablesFold' /\ WriterKnows' /\ WriterHolds'
         /\ \A m \in Maintainer : TickFolds(m)'
<1>1. writer = Idle /\ writer' = Idle /\ \A m \in Maintainer : job'[m] = NoTick
  BY DEF Quiet
<1>2. \A t \in SampleTime : /\ ~Fresh(t) /\ ~Fresh(t)'
                             /\ \A j : ~Due(j, t) /\ ~Due(j, t)'
  BY <1>1, IdleNow, IdleFolds
<1>3. settings.keep[2] \in Nat /\ clock \in Nat
  BY SettingsTyped, FoldFacts
<1>4. ASSUME NEW t \in SampleTime, OldMinute(t)
      PROVE  OldMinute(t)'
  <2>1. Since(clock, settings.keep[2]) <= Since(clock', settings.keep[2])
        /\ Since(clock, settings.keep[2]) \in Nat /\ Since(clock', settings.keep[2]) \in Nat
    BY <1>3 DEF Since
  <2>2. BucketEnd(2, t) \in Nat /\ BucketEnd(2, t) <= Since(clock, settings.keep[2])
    BY <1>4, BucketBounds, SampleNat, FoldFacts DEF OldMinute
  <2>3. BucketEnd(2, t) <= Since(clock', settings.keep[2])
    BY <2>1, <2>2
  <2>4. \A c \in Dependents(2, settings.on) : BucketEnd(2, t) <= wm[c]
    BY <1>4 DEF OldMinute
  <2> QED BY <2>3, <2>4 DEF OldMinute, Dependents, BucketEnd, BucketStart, Since
<1>5. MinutesHave'
  <2> SUFFICES ASSUME NEW t \in SampleTime, count'[1][t] > 0
               PROVE  count'[2][t] > 0 \/ OldMinute(t)'
    BY DEF MinutesHave
  <2> QED BY <1>2, <1>4, FoldFacts DEF TablesFold, MinutesHave
<1>6. FoldedBehind'
  <2> SUFFICES ASSUME NEW k \in settings'.on, NEW t \in SampleTime
               PROVE  FoldedAt(k, t)'
    BY DEF FoldedBehind
  <2>1. FoldedAt(k, t)
    BY <1>2, FoldFacts DEF TablesFold, FoldedBehind
  <2> QED BY <2>1 DEF FoldedAt, InFiner, Source, BucketEnd, BucketStart
<1>7. FivesHave'
  <2> SUFFICES ASSUME BothOn', NEW t \in SampleTime
               PROVE  FiveAt(t)'
    BY DEF FivesHave
  <2>1. FiveAt(t)
    BY <1>2, FoldFacts DEF TablesFold, FivesHave, BothOn
  <2> QED BY <2>1 DEF FiveAt, BucketEnd, BucketStart
<1>8. HoursBehind'
  BY FoldFacts DEF TablesFold, HoursBehind, BothOn
<1>9. UnmarkedFives'
  <2> SUFFICES ASSUME BothOn', wm'[3] = 0, NEW t \in SampleTime, count'[3][t] > 0
               PROVE  \E u \in SampleTime : count'[2][u] > 0 /\ IsComplete(3, BucketStart(3, u), clock')
    BY DEF UnmarkedFives, IsComplete, BucketStart
  <2>1. BothOn /\ wm[3] = 0 /\ count[3][t] > 0
    BY DEF BothOn
  <2>2. PICK u \in SampleTime : count[2][u] > 0 /\ IsComplete(3, BucketStart(3, u), clock)
    BY <2>1, FoldFacts DEF TablesFold, UnmarkedFives
  <2>3. BucketStart(3, u) \in Nat /\ Res[3] \in Nat /\ Grace \in Nat
    BY BucketBounds, ResNat, SampleNat, FoldFacts DEF LadderConstants
  <2>4. IsComplete(3, BucketStart(3, u), clock')
    BY <1>3, <2>2, <2>3 DEF IsComplete
  <2> QED BY <2>2, <2>4
<1> QED BY <1>1, <1>5, <1>6, <1>7, <1>8, <1>9, IdleFolds, NoTickFolds DEF TablesFold

LEMMA SavesKeepFolds ==
  ASSUME LadderConstants, Undisturbed, FoldInv, NEW l \in Ladders, SavesSettings(l)
  PROVE  FoldInv'
<1>1. ~Overlap /\ LoopInv /\ Quiet
  BY FoldFacts DEF Undisturbed, SavesSettings, MayRun
<1>2. LoopInv'
  BY <1>1, SavesLoop
<1>3. settings' = settings
  <2>1. settings \in Ladders /\ settings' = l
    BY FoldFacts DEF TypeOK, SavesSettings
  <2> QED BY <2>1 DEF Undisturbed
<1>4. UNCHANGED <<count, wm, settings, folded, writer, job>> /\ clock' = clock
  BY <1>3 DEF SavesSettings, time
<1>5. clock' \in Nat /\ clock <= clock'
  BY <1>4, FoldFacts
<1> QED BY <1>1, <1>2, <1>4, <1>5, TimePasses DEF FoldInv

LEMMA ClockKeepsFolds ==
  ASSUME LadderConstants, Undisturbed, FoldInv, ClockTicks
  PROVE  FoldInv'
<1>1. ~Overlap /\ LoopInv /\ Quiet
  BY FoldFacts DEF Undisturbed, ClockTicks, MayRun
<1>2. LoopInv'
  BY <1>1, StepLoop DEF Next
<1>3. UNCHANGED <<count, wm, settings, folded, writer, job>>
  BY DEF ClockTicks, tables
<1>4. clock' \in Nat /\ clock <= clock'
  <2>1. PICK t \in Instant : t > clock /\ clock' = t
    BY DEF ClockTicks
  <2>2. t \in Nat /\ clock \in Nat
    BY FoldFacts DEF LadderConstants
  <2> QED BY <2>1, <2>2
<1> QED BY <1>1, <1>2, <1>3, <1>4, TimePasses DEF FoldInv

LEMMA ClockIsNotSet ==
  ASSUME Undisturbed, TypeOK, NEW t \in Instant
  PROVE  ~ClockIsSet(t)
<1>1. MaxClockSets = 0 /\ clockSets \in 0..MaxClockSets
  BY DEF Undisturbed, TypeOK
<1>2. ~(clockSets < MaxClockSets)
  BY <1>1
<1> QED BY <1>2 DEF ClockIsSet

LEMMA StutterKeepsFolds ==
  ASSUME LadderConstants, Undisturbed, FoldInv, UNCHANGED vars
  PROVE  FoldInv'
<1>1. LoopInv'
  BY FoldFacts, StepLoop DEF Undisturbed
<1>2. UNCHANGED <<clock, count, wm, settings, folded, writer, job>>
  BY DEF vars
<1>3. TablesFold'
  BY <1>2, FoldFacts, TablesStand DEF Fresh, Due, Unfolded
<1>4. WriterKnows'
  <2>1. WriterKnows
    BY FoldFacts
  <2> QED BY <1>2, <2>1 DEF WriterKnows, Unfolded, Refolding, BucketStart
<1>5. WriterHolds'
  <2>1. WriterHolds
    BY FoldFacts
  <2>2. \A t : OldMinute(t)' <=> OldMinute(t)
    BY <1>2, StillOld
  <2> QED BY <1>2, <2>1, <2>2
      DEF WriterHolds, Refolding, BothOn, Read, Plus, Bucket, Within, BucketStart, BucketEnd,
          Source, Since
<1>6. ASSUME NEW m \in Maintainer
      PROVE  TickFolds(m)'
  <2>1. TickFolds(m)
    BY DEF FoldInv
  <2> QED BY <1>2, <2>1
      DEF TickFolds, Promotes, BothOn, In, TierOf, From, TargetEnd, Source, Read, Within,
          IsComplete, BucketStart, BucketEnd
<1> QED BY <1>1, <1>3, <1>4, <1>5, <1>6 DEF FoldInv

LEMMA InitFolds ==
  ASSUME LadderConstants, Init
  PROVE  FoldInv
<1>1. LoopInv
  BY InitLoop
<1>2. /\ writer = Idle /\ \A k \in Tier : \A t \in SampleTime : count[k][t] = 0
      /\ \A k \in Coarse : wm[k] = 0
      /\ settings.on \subseteq Coarse
  BY DEF Init, Empty, LadderConstants
<1>3. /\ 1 \in Tier /\ 2 \in Tier /\ 3 \in Tier /\ 3 \in Coarse /\ 4 \in Coarse
      /\ ~(0 > 0) /\ 0 <= 0
  BY DEF Tier, Coarse
<1>4. \A k \in Coarse : \A t \in SampleTime : ~InFiner(k, t)
  <2>1. \A k : Source(k, settings.on) \in Tier
    BY DEF Source, Tier
  <2> QED BY <1>2, <1>3, <2>1 DEF InFiner
<1>5. TablesFold
  <2>1. MinutesHave
    BY <1>2, <1>3 DEF MinutesHave
  <2>2. FoldedBehind
    BY <1>2, <1>4 DEF FoldedBehind, FoldedAt
  <2>3. FivesHave
    BY <1>2, <1>3 DEF FivesHave, FiveAt
  <2>4. HoursBehind
    BY <1>2, <1>3 DEF HoursBehind
  <2>5. UnmarkedFives
    BY <1>2, <1>3 DEF UnmarkedFives
  <2> QED BY <2>1, <2>2, <2>3, <2>4, <2>5 DEF TablesFold
<1>6. writer.pc = "idle" /\ writer.new = FALSE
  BY <1>2 DEF Idle
<1>7. WriterKnows /\ WriterHolds
  BY <1>6 DEF WriterKnows, WriterHolds, Unfolded, Refolding
<1>8. ASSUME NEW m \in Maintainer
      PROVE  TickFolds(m)
  <2>1. job[m] = NoTick
    BY DEF Init
  <2>2. NoTick.stage = 0 /\ NoTick.step = ""
    BY DEF NoTick
  <2>3. ~(job[m].stage > 0) /\ ~(job[m].stage > 5) /\ job[m].step # "now"
    <3>1. ~(0 > 0) /\ ~(0 > 5)
      OBVIOUS
    <3> QED BY <2>1, <2>2, <3>1
  <2>4. ~In(m, "promote")
    BY <2>3, Zenon DEF In
  <2> QED BY <2>3, <2>4, Zenon DEF TickFolds
<1> QED BY <1>1, <1>5, <1>7, <1>8 DEF FoldInv

LEMMA NextKeepsFolds ==
  ASSUME LadderConstants, Undisturbed, FoldInv, [Next]_vars
  PROVE  FoldInv'
BY InsertFolds, TickKeepsFolds, SavesKeepFolds, ClockKeepsFolds, ClockIsNotSet, StutterKeepsFolds,
   FoldFacts DEF Next

(* Where nothing is disturbed, tables, inserts and ticks stay as the fold   *)
(* needs them, whatever the instants, resolutions and horizons.            *)
THEOREM FoldInvariant == ASSUME Undisturbed PROVE Spec => []FoldInv
<1>1. Init => FoldInv
  BY LadderConstants, InitFolds
<1>2. FoldInv /\ [Next]_vars => FoldInv'
  BY LadderConstants, NextKeepsFolds
<1> QED BY <1>1, <1>2, PTL DEF Spec

(* Between inserts and ticks, every sample that a tier still counts behind *)
(* the watermark of the tier that folds it has been folded: late samples   *)
(* are brought in by refold_ancestors_for_late_write, and promote_tier     *)
(* marks no range of which it has missed one.                              *)
THEOREM BehindIsFolded == ASSUME Undisturbed PROVE Spec => []FoldedBehindWatermark
<1>1. FoldInv => FoldedBehindWatermark
  <2> SUFFICES ASSUME FoldInv, Quiet, NEW k \in settings.on, NEW t \in SampleTime,
                      count[Source(k, settings.on)][t] > 0, BucketEnd(k, t) <= wm[k]
               PROVE  t \in folded[k]
    BY DEF FoldedBehindWatermark
  <2>1. ~Due(k, t)
    BY IdleNow DEF Quiet
  <2>2. FoldedAt(k, t)
    BY <2>1 DEF FoldInv, TablesFold, FoldedBehind
  <2> QED BY <2>2 DEF FoldedAt, InFiner
<1> QED BY <1>1, FoldInvariant, PTL

(* What a row counts is folded when the row goes.                          *)
LEMMA RowGoesFolded ==
  ASSUME LadderConstants, Undisturbed, FoldInv, [Next]_vars,
         NEW k \in {2, 3}, NEW t \in SampleTime, RowGoes(k, t),
         NEW c \in Dependents(k, settings.on)
  PROVE  t \in folded[c]
<1>1. ~Overlap /\ LoopInv
  BY FoldFacts DEF Undisturbed
<1>2. PICK m \in Maintainer : Prunes(m)
  BY <1>1, RowGoesPruned
<1>3. writer = Idle
  <2>1. Tick(m)
    BY <1>2 DEF Tick
  <2> QED BY <1>1, <2>1, TickAlone
<1>4. c \in settings.on /\ c \in Coarse /\ k < c /\ k \in Tier
  <2>1. c \in settings.on /\ c > k /\ c \in Coarse
    BY FoldFacts DEF Dependents
  <2> QED BY <2>1 DEF Coarse, Tier
<1>5. BucketEnd(c, t) <= wm[c]
  <2>1. BucketEnd(k, t) <= wm[c]
    BY <1>1, RowGoesBehindWatermark
  <2>2. k <= c
    BY <1>4 DEF Coarse
  <2> QED BY <1>4, <2>1, <2>2, BehindMark, FoldFacts
<1>6. count[k][t] > 0 /\ count'[k] # count[k]
  <2>1. t \in Bucket(k, t)
    BY <1>4, InBucket
  <2>2. count[k][t] > 0 /\ count'[k][t] = 0
    BY <2>1 DEF RowGoes
  <2> QED BY <2>2
<1>7. InFiner(c, t)
  <2>1. CASE k = 2
    BY <1>6, <2>1 DEF InFiner
  <2>2. CASE k = 3
    <3>1. 3 \in settings.on
      BY <1>1, <1>6, <2>2, TierWrittenIsOn DEF Coarse
    <3>2. c = 4
      BY <1>4, <2>2 DEF Coarse
    <3>3. Source(c, settings.on) = 3
      BY <3>1, <3>2 DEF Source
    <3> QED BY <1>6, <2>2, <3>3 DEF InFiner
  <2> QED BY <2>1, <2>2
<1>8. FoldedAt(c, t)
  BY <1>3, <1>4, IdleNow DEF FoldInv, TablesFold, FoldedBehind
<1> QED BY <1>5, <1>7, <1>8 DEF FoldedAt

(* Promote before prune: no row of minutes or five minutes is deleted      *)
(* before the tier that folds it counts all that the row does, late        *)
(* samples and failed statements included.                                 *)
THEOREM FoldedBeforePruned == ASSUME Undisturbed PROVE Spec => PromotedBeforePruned
<1>1. FoldInv /\ [Next]_vars =>
        [\A k \in {2, 3} : \A t \in SampleTime : RowGoes(k, t) =>
           \A c \in Dependents(k, settings.on) : t \in folded[c]]_vars
  BY LadderConstants, RowGoesFolded
<1> QED BY <1>1, FoldInvariant, PTL DEF Spec, PromotedBeforePruned
=============================================================================
