---------------------------- MODULE ColdExportProofs ----------------------------
(***************************************************************************)
(* Whatever the watermark seals was exported whole, for any months,        *)
(* horizons, batches, numbers of exporters, late rows, deaths and power    *)
(* cuts.  The move takes the oldest hours first, so that a month which is  *)
(* in the archive has the earlier ones there too; an exporter's list is    *)
(* therefore closed under earlier months that are not exported yet, and it *)
(* works from the earliest to the latest.                                  *)
(*                                                                         *)
(* And where one exporter runs at a time, file, sidecar and manifest row   *)
(* of a sealed month are of one export: until the watermark passes it, a   *)
(* recorded month is listed again whenever a later one is.  That no file   *)
(* has two names holds for any number of exporters: there are more files   *)
(* than names and exporters.                                               *)
(***************************************************************************)
EXTENDS ColdExport, FiniteSetTheorems, WellFoundedInduction, TLAPS

Working == {"create", "write", "hash", "verify", "rename", "sidecar", "record", "mark2"}
Locations == {"idle", "months", "mark", "check", "read"} \cup Working

\* The hours of month m, and of those before it, are over at time t.
Past(m, t) == \A h \in Hours : MonthOf[h] <= m => h < t

\* What was seen in time of month m is all in the archive (held), in the manifest (record).
Whole(m, seen, held) == \A h \in seen : MonthOf[h] = m => h \in held
Done(m, seen, record) == \A h \in seen : MonthOf[h] = m => h \in record[m].rows

\* The months an exporter still has on its list, and those it has found complete.
Listed(x) ==
  CASE x.at = "check" -> x.todo \cup x.ready
    [] x.at = "read" -> x.ready
    [] x.at \in Working -> x.ready \cup {x.month}
    [] OTHER -> {}
Chosen(x) == IF x.at = "check" THEN x.ready ELSE Listed(x)

Known(x) ==
  /\ x.at \in Locations
  /\ x.at \in {"months", "mark"} => x.now \in Nat
  /\ x.at = "mark" => x.present \in SUBSET Month
  /\ x.at = "check" => x.todo \in SUBSET Month /\ x.ready \in SUBSET Month
  /\ x.at = "read" => x.ready \in SUBSET Month
  /\ x.at \in Working => /\ DOMAIN x = {"at", "ready", "month", "rows", "file", "sha"}
                         /\ x.ready \in SUBSET Month /\ x.month \in Month

\* The archive's months, when they were read, held all the earlier ones.
Archived(x, t, seen, held) ==
  /\ x.at \in {"months", "mark"} => x.now <= t
  /\ x.at = "mark" =>
       \A p \in x.present : /\ \E g \in held : MonthOf[g] = p
                            /\ \A h \in seen : MonthOf[h] < p => MonthOf[h] \in x.present

\* The list leaves no earlier month out but those that are done.
Closed(x, t, seen, record) ==
  \A m \in Listed(x) :
    /\ Past(m, t)
    /\ \A h \in seen : MonthOf[h] <= m => MonthOf[h] \in Listed(x) \/ Done(MonthOf[h], seen, record)

Ordered(x) ==
  /\ x.at = "check" => \A r \in x.ready, q \in x.todo : r < q
  /\ x.at \in Working => \A r \in x.ready : x.month < r

Complete(x, seen, held, record) ==
  /\ \A m \in Chosen(x) : Whole(m, seen, held)
  /\ x.at \in Working => \A h \in seen : MonthOf[h] = x.month => h \in x.rows
  /\ x.at = "mark2" => Done(x.month, seen, record)

Fine(x, t, seen, held, record) ==
  /\ Known(x) /\ Archived(x, t, seen, held) /\ Closed(x, t, seen, record) /\ Ordered(x)
  /\ Complete(x, seen, held, record)

\* The rows: one recorded in time is in the database or the archive, and the archive has
\* every earlier one.
RowsInv ==
  /\ now \in Hours /\ main \in SUBSET Hours /\ moved \in SUBSET Hours /\ batch \in SUBSET moved
  /\ timely \in SUBSET Hours /\ timely \subseteq main \cup moved
  /\ \A h \in timely \cup moved : h < now
  /\ \A h \in timely, g \in moved : h < g => h \in moved

ExportersInv ==
  /\ DOMAIN exporter = Exporter
  /\ \A e \in Exporter : Fine(exporter[e], now, timely, moved, manifest)

MarkInv == mark \in Nat /\ Past(mark, now) /\ DOMAIN manifest = Month

ColdInv == RowsInv /\ ExportersInv /\ MarkInv /\ SealedWhole

-----------------------------------------------------------------------------
(* Hours and months. *)

LEMMA HoursNat == ColdConstants => Hours \in SUBSET Nat /\ IsFiniteSet(Hours)
BY FS_Interval DEF ColdConstants, Hours

LEMMA MonthsNat ==
  ASSUME ColdConstants
  PROVE  /\ Month \in SUBSET (Nat \ {0}) /\ IsFiniteSet(Month)
         /\ \A h \in Hours : MonthOf[h] \in Month
         /\ \A m \in Month : \E h \in Hours : MonthOf[h] = m
         /\ \A g, h \in Hours : MonthOf[g] < MonthOf[h] => g < h
<1>1. /\ Month \in SUBSET (Nat \ {0}) /\ \A h \in Hours : MonthOf[h] \in Month
      /\ \A m \in Month : \E h \in Hours : MonthOf[h] = m
  BY DEF ColdConstants, Month
<1>2. MaxHour \in Hours /\ Hours \in SUBSET Nat
  BY HoursNat DEF ColdConstants, Hours
<1>3. \A h \in Hours : MonthOf[h] <= MonthOf[MaxHour]
  BY <1>1, <1>2 DEF ColdConstants, Hours
<1>4. IsFiniteSet(Month)
  <2>1. \A m \in Month : m <= MonthOf[MaxHour]
    BY <1>1, <1>3
  <2> QED BY <1>1, <1>2, <2>1, FS_BoundedSetOfNaturals
<1>5. \A g, h \in Hours : MonthOf[g] < MonthOf[h] => g < h
  <2> SUFFICES ASSUME NEW g \in Hours, NEW h \in Hours, MonthOf[g] < MonthOf[h], ~(g < h)
               PROVE FALSE
    OBVIOUS
  <2>1. MonthOf[g] \in Nat /\ MonthOf[h] \in Nat /\ g \in Nat /\ h \in Nat
    BY <1>1, <1>2
  <2>2. g = h \/ h < g
    BY <2>1
  <2>3. h < g => MonthOf[h] <= MonthOf[g]
    BY DEF ColdConstants
  <2> QED BY <2>1, <2>2, <2>3
<1> QED BY <1>1, <1>4, <1>5

(* A finite set of numbers has a least one. *)
LEMMA LeastExists ==
  ASSUME NEW S \in SUBSET Nat, IsFiniteSet(S), S # {}
  PROVE  Least(S) \in S /\ \A y \in S : Least(S) <= y
<1> DEFINE Before(h) == {g \in S : g < h}
           T == {Before(h) : h \in S}
<1>1. \A h \in S : Before(h) \in SUBSET S /\ IsFiniteSet(Before(h))
  <2> SUFFICES ASSUME NEW h \in S PROVE Before(h) \in SUBSET S /\ IsFiniteSet(Before(h))
    OBVIOUS
  <2>1. Before(h) \in SUBSET S
    OBVIOUS
  <2> QED BY <2>1, FS_Subset
<1>2. T \subseteq FiniteSubsetsOf(S) /\ T # {}
  BY <1>1 DEF FiniteSubsetsOf
<1>3. PICK U \in T : \A V \in T : ~(<<V, U>> \in StrictSubsetOrdering(S))
  BY <1>2, FS_StrictSubsetOrderingWellFounded, WFMin
<1>4. PICK x \in S : U = Before(x)
  BY <1>3
<1>5. ASSUME NEW y \in S, y < x PROVE FALSE
  <2>1. Before(y) \in T /\ Before(y) \subseteq Before(x)
    <3>1. \A i \in S : i < y => i < x
      BY <1>5
    <3> QED BY <3>1
  <2>2. y \in Before(x) /\ y \notin Before(y)
    BY <1>5
  <2>3. <<Before(y), Before(x)>> \in StrictSubsetOrdering(S)
    BY <2>1, <2>2 DEF StrictSubsetOrdering
  <2> QED BY <1>3, <1>4, <2>1, <2>3
<1>6. x \in S /\ \A y \in S : x <= y
  BY <1>5
<1> QED BY <1>6 DEF Least

(* The lowest n of a set hold, with a member, every lower one. *)
LEMMA LowestClosed ==
  ASSUME NEW S \in SUBSET Nat, IsFiniteSet(S), NEW n \in Nat,
         NEW x \in Lowest(S, n), NEW y \in S, y <= x
  PROVE  y \in Lowest(S, n)
<1> DEFINE Below(z) == {w \in S : w < z}
<1>1. x \in S /\ Cardinality(Below(x)) < n
  BY DEF Lowest
<1>2. Below(y) \subseteq Below(x) /\ Below(x) \subseteq S
  <2>1. \A w \in S : w < y => w < x
    BY <1>1
  <2> QED BY <2>1
<1>3. IsFiniteSet(Below(x)) /\ IsFiniteSet(Below(y))
  BY <1>2, FS_Subset
<1>4. Cardinality(Below(y)) <= Cardinality(Below(x))
  BY <1>2, <1>3, FS_Subset
<1>5. Cardinality(Below(y)) \in Nat /\ Cardinality(Below(x)) \in Nat
  BY <1>3, FS_CardinalityType
<1> HIDE DEF Below
<1>6. Cardinality(Below(y)) < n
  BY <1>1, <1>4, <1>5
<1> QED BY <1>6 DEF Lowest, Below

-----------------------------------------------------------------------------
(* An exporter that does not move stays fine while the clock advances, an hour is recorded,
   rows are moved, and the manifest keeps what is done. *)
LEMMA Carry ==
  ASSUME ColdConstants, RowsInv, NEW x, Fine(x, now, timely, moved, manifest),
         now' \in Hours, now <= now', moved \subseteq moved',
         timely \subseteq timely', timely' \subseteq timely \cup {now},
         \A n \in Month : Past(n, now) /\ Done(n, timely, manifest) => Done(n, timely', manifest')
  PROVE  Fine(x, now', timely', moved', manifest')
<1> USE MonthsNat, HoursNat
<1>1. Known(x) /\ Ordered(x)
  BY DEF Fine
<1>2. now \in Nat /\ now' \in Nat /\ now \in Hours
  BY DEF RowsInv
<1>3. Listed(x) \subseteq Month /\ Chosen(x) \subseteq Listed(x)
  BY <1>1 DEF Listed, Chosen, Known
<1>4. \A m \in Month : Past(m, now) => Past(m, now') /\ ~(MonthOf[now] <= m)
  BY <1>2 DEF Past
<1>5. Archived(x, now', timely', moved')
  <2>1. x.at \in {"months", "mark"} => x.now <= now'
    BY <1>1, <1>2 DEF Fine, Archived, Known
  <2>2. ASSUME x.at = "mark", NEW q \in x.present
        PROVE /\ \E g \in moved' : MonthOf[g] = q
              /\ \A h \in timely' : MonthOf[h] < q => MonthOf[h] \in x.present
    <3>1. PICK g \in moved : MonthOf[g] = q
      BY <2>2 DEF Fine, Archived
    <3>2. g \in Hours /\ g < now
      BY DEF RowsInv
    <3>3. ~(MonthOf[now] < q)
      BY <1>2, <3>1, <3>2
    <3>4. \A h \in timely : MonthOf[h] < q => MonthOf[h] \in x.present
      BY <2>2 DEF Fine, Archived
    <3> QED BY <3>1, <3>3, <3>4
  <2> QED BY <2>1, <2>2 DEF Archived
<1>6. Closed(x, now', timely', manifest')
  <2> SUFFICES ASSUME NEW m \in Listed(x)
               PROVE /\ Past(m, now')
                     /\ \A h \in timely' : MonthOf[h] <= m =>
                          MonthOf[h] \in Listed(x) \/ Done(MonthOf[h], timely', manifest')
    BY DEF Closed
  <2>1. m \in Month /\ Past(m, now)
    BY <1>3 DEF Fine, Closed
  <2>2. ASSUME NEW h \in timely', MonthOf[h] <= m
        PROVE MonthOf[h] \in Listed(x) \/ Done(MonthOf[h], timely', manifest')
    <3>1. h \in timely /\ h \in Hours
      BY <1>4, <2>1, <2>2 DEF RowsInv
    <3>2. MonthOf[h] \in Listed(x) \/ Done(MonthOf[h], timely, manifest)
      BY <2>2, <3>1 DEF Fine, Closed
    <3>3. Past(MonthOf[h], now)
      <4>1. MonthOf[h] \in Nat /\ m \in Nat /\ \A g \in Hours : MonthOf[g] \in Nat
        BY <2>1, <3>1
      <4> QED BY <2>1, <2>2, <4>1 DEF Past
    <3> QED BY <3>1, <3>2, <3>3
  <2> QED BY <1>4, <2>1, <2>2
<1>7. ASSUME NEW m \in Listed(x) PROVE m \in Month /\ MonthOf[now] # m
  <2>1. m \in Month /\ Past(m, now)
    BY <1>3 DEF Fine, Closed
  <2> QED BY <1>4, <2>1
<1>8. Complete(x, timely', moved', manifest')
  <2>1. \A m \in Chosen(x) : Whole(m, timely', moved')
    BY <1>3, <1>7 DEF Fine, Complete, Whole
  <2>2. x.at \in Working => x.month \in Listed(x)
    BY DEF Listed, Working
  <2>3. x.at \in Working => \A h \in timely' : MonthOf[h] = x.month => h \in x.rows
    BY <1>7, <2>2 DEF Fine, Complete
  <2>4. ASSUME x.at = "mark2" PROVE Done(x.month, timely', manifest')
    <3>1. x.month \in Month /\ Past(x.month, now)
      BY <1>3, <2>2, <2>4 DEF Fine, Closed, Working
    <3>2. Done(x.month, timely, manifest)
      BY <2>4 DEF Fine, Complete
    <3> QED BY <3>1, <3>2
  <2> QED BY <2>1, <2>3, <2>4 DEF Complete
<1> QED BY <1>1, <1>5, <1>6, <1>8 DEF Fine

-----------------------------------------------------------------------------
(* The rows. *)

(* Every step keeps RowsInv, and adds to the archive and to what was seen no more than
   Carry allows. *)
LEMMA HourPassesRows ==
  ASSUME ColdConstants, RowsInv, HourPasses
  PROVE  /\ RowsInv' /\ now <= now' /\ moved \subseteq moved'
         /\ timely \subseteq timely' /\ timely' \subseteq timely \cup {now}
<1> USE HoursNat
<1>1. now \in Nat /\ now' = now + 1 /\ now' \in Hours /\ moved' = moved /\ batch' = batch
  <2>1. now' = now + 1 /\ now < MaxHour /\ moved' = moved /\ batch' = batch
    BY DEF HourPasses
  <2>2. now \in 0..MaxHour /\ MaxHour \in Nat
    BY DEF RowsInv, Hours, ColdConstants
  <2> QED BY <2>1, <2>2 DEF Hours
<1>2. /\ timely' = timely \/ timely' = timely \cup {now}
      /\ main \subseteq main' /\ main' \subseteq Hours /\ (now \in timely' => now \in timely \/ now \in main')
  <2>1. \/ main' = main \cup {now} /\ timely' = timely \cup {now}
        \/ main' = main /\ timely' = timely
    BY DEF HourPasses
  <2>2. main \subseteq Hours /\ now \in Hours
    BY DEF RowsInv
  <2>3. CASE main' = main \cup {now} /\ timely' = timely \cup {now}
    BY <2>2, <2>3
  <2>4. CASE main' = main /\ timely' = timely
    BY <2>2, <2>4
  <2> QED BY <2>1, <2>3, <2>4
<1>3. \A h \in timely' \cup moved' : h < now'
  <2> SUFFICES ASSUME NEW h \in timely' \cup moved' PROVE h < now'
    OBVIOUS
  <2>1. h \in timely \cup moved \/ h = now
    BY <1>1, <1>2
  <2>2. h \in timely \cup moved => h \in Nat /\ h < now
    BY DEF RowsInv
  <2> QED BY <1>1, <2>1, <2>2
<1>4. \A h \in timely', g \in moved' : h < g => h \in moved'
  <2> SUFFICES ASSUME NEW h \in timely', NEW g \in moved, h < g PROVE h \in moved
    BY <1>1
  <2>1. g < now /\ g \in Nat
    BY DEF RowsInv
  <2>2. h # now
    BY <1>1, <2>1
  <2> QED BY <1>2, <2>2 DEF RowsInv
<1>5. timely' \subseteq main' \cup moved'
  BY <1>1, <1>2 DEF RowsInv
<1> QED BY <1>1, <1>2, <1>3, <1>4, <1>5 DEF RowsInv

LEMMA MoveCopiesRows ==
  ASSUME ColdConstants, RowsInv, MoveCopies
  PROVE  RowsInv' /\ moved \subseteq moved'
<1> USE HoursNat
<1> DEFINE expired == {h \in main : h + 1 + ArchiveKeep <= now}
<1>1. /\ batch' = Lowest(expired, BatchHours) /\ moved' = moved \cup batch'
      /\ now' = now /\ main' = main /\ timely' = timely
  BY DEF MoveCopies
<1>2. expired \in SUBSET Nat /\ IsFiniteSet(expired) /\ expired \subseteq main /\ main \subseteq Hours
  <2>1. expired \in SUBSET Hours
    BY DEF RowsInv
  <2>2. IsFiniteSet(expired)
    BY <2>1, FS_Subset
  <2> QED BY <2>1, <2>2 DEF RowsInv
<1>3. batch' \subseteq expired
  BY <1>1 DEF Lowest
<1>4. \A h \in batch' : h < now
  <2>1. ArchiveKeep \in Nat /\ now \in Nat
    BY DEF ColdConstants, RowsInv
  <2> QED BY <1>2, <1>3, <2>1
<1>5. ASSUME NEW h \in timely, NEW g \in batch', h < g PROVE h \in moved'
  <2>1. CASE h \in moved
    BY <1>1, <2>1
  <2>2. CASE h \in main
    <3>1. h \in expired
      <4>1. h \in Nat /\ g \in Nat /\ g + 1 + ArchiveKeep <= now
        BY <1>2, <1>3, <2>2
      <4>2. now \in Nat /\ ArchiveKeep \in Nat
        BY DEF ColdConstants, RowsInv
      <4> QED BY <1>5, <2>2, <4>1, <4>2
    <3> HIDE DEF expired
    <3>2. g \in Lowest(expired, BatchHours) /\ BatchHours \in Nat /\ h <= g
      BY <1>1, <1>2, <1>3, <1>5, <3>1 DEF ColdConstants
    <3>3. h \in Lowest(expired, BatchHours)
      BY <1>2, <3>1, <3>2, LowestClosed
    <3> QED BY <1>1, <3>3
  <2> QED BY <2>1, <2>2 DEF RowsInv
<1>6. \A h \in timely' \cup moved' : h < now'
  BY <1>1, <1>4 DEF RowsInv
<1>7. \A h \in timely', g \in moved' : h < g => h \in moved'
  BY <1>1, <1>5 DEF RowsInv
<1> HIDE DEF expired
<1>8. moved' \in SUBSET Hours /\ batch' \in SUBSET moved'
  BY <1>1, <1>2, <1>3 DEF RowsInv
<1> QED BY <1>1, <1>6, <1>7, <1>8 DEF RowsInv

LEMMA OtherRows ==
  ASSUME ColdConstants, RowsInv, LateRow \/ MoveDeletes \/ PowerCut
  PROVE  RowsInv' /\ UNCHANGED <<now, moved, timely>>
<1>1. UNCHANGED <<now, moved, timely>>
  BY DEF LateRow, MoveDeletes, PowerCut
<1>2. main' \in SUBSET Hours /\ batch' \in SUBSET moved /\ timely \subseteq main' \cup moved
  <2>1. CASE LateRow
    BY <2>1 DEF LateRow, RowsInv
  <2>2. CASE MoveDeletes
    <3>1. PICK changed \in SUBSET batch : main' = main \ (batch \ changed)
      BY <2>2 DEF MoveDeletes
    <3>2. batch' = {}
      BY <2>2 DEF MoveDeletes
    <3> QED BY <3>1, <3>2 DEF RowsInv
  <2>3. CASE PowerCut
    <3>1. PICK back \in SUBSET moved : main' = main \cup back
      BY <2>3 DEF PowerCut
    <3>2. batch' = {}
      BY <2>3 DEF PowerCut
    <3> QED BY <3>1, <3>2 DEF RowsInv
  <2> QED BY <2>1, <2>2, <2>3
<1> QED BY <1>1, <1>2 DEF RowsInv

-----------------------------------------------------------------------------
(* An exporter's own steps. *)

LEMMA IdleFine ==
  ASSUME NEW t, NEW seen, NEW held, NEW record
  PROVE  Fine([at |-> "idle"], t, seen, held, record)
<1> DEFINE x == [at |-> "idle"]
<1>1. x.at = "idle" /\ x.at \notin Working
  BY DEF Working
<1> HIDE DEF x
<1>2. Listed(x) = {} /\ Chosen(x) = {}
  BY <1>1 DEF Listed, Chosen
<1>3. Fine(x, t, seen, held, record)
  BY <1>1, <1>2 DEF Fine, Known, Archived, Closed, Ordered, Complete, Locations
<1> QED BY <1>3 DEF x

LEMMA BeginsFine ==
  ASSUME RowsInv, ColdConstants
  PROVE  Fine([at |-> "months", now |-> now], now, timely, moved, manifest)
<1> DEFINE x == [at |-> "months", now |-> now]
<1>1. x.at = "months" /\ x.at \notin Working /\ x.now = now /\ now \in Nat
  BY HoursNat DEF Working, RowsInv
<1> HIDE DEF x
<1>2. Listed(x) = {} /\ Chosen(x) = {}
  BY <1>1 DEF Listed, Chosen
<1>3. Fine(x, now, timely, moved, manifest)
  BY <1>1, <1>2 DEF Fine, Known, Archived, Closed, Ordered, Complete, Locations
<1> QED BY <1>3 DEF x

(* The months of the archive hold all earlier ones that were seen. *)
LEMMA ReadsMonthsFine ==
  ASSUME ColdConstants, RowsInv, NEW x, Fine(x, now, timely, moved, manifest), x.at = "months"
  PROVE  Fine([at |-> "mark", now |-> x.now, present |-> {MonthOf[h] : h \in moved}],
              now, timely, moved, manifest)
<1> DEFINE present == {MonthOf[h] : h \in moved}
           y == [at |-> "mark", now |-> x.now, present |-> present]
<1>1. y.at = "mark" /\ y.at \notin Working /\ y.now = x.now /\ y.present = present
  BY DEF Working
<1>2. x.now \in Nat /\ x.now <= now
  BY DEF Fine, Known, Archived
<1>3. present \in SUBSET Month /\ \A q \in present : \E g \in moved : MonthOf[g] = q
  BY MonthsNat DEF RowsInv
<1>4. ASSUME NEW q \in present, NEW h \in timely, MonthOf[h] < q PROVE MonthOf[h] \in present
  <2>1. PICK g \in moved : MonthOf[g] = q
    BY <1>3
  <2>2. h \in Hours /\ g \in Hours
    BY DEF RowsInv
  <2>3. h < g
    BY <1>4, <2>1, <2>2, MonthsNat
  <2>4. h \in moved
    BY <2>3 DEF RowsInv
  <2> QED BY <2>4
<1> HIDE DEF y, present
<1>5. Listed(y) = {} /\ Chosen(y) = {}
  BY <1>1 DEF Listed, Chosen
<1>6. Fine(y, now, timely, moved, manifest)
  BY <1>1, <1>2, <1>3, <1>4, <1>5
     DEF Fine, Known, Archived, Closed, Ordered, Complete, Locations
<1> QED BY <1>6 DEF y, present

(* What is exportable is over, and closed under earlier months that are present and not
   sealed. *)
LEMMA ExportableClosed ==
  ASSUME ColdConstants, NEW present \in SUBSET Month, NEW t \in Hours, mark \in Nat,
         NEW m \in Exportable(present, t)
  PROVE  /\ m \in Month /\ Past(m, t)
         /\ \A n \in present : n <= m /\ n > mark => n \in Exportable(present, t)
<1> USE MonthsNat, HoursNat
<1>1. /\ m \in Month /\ m + ColdAfter <= MonthOf[t]
      /\ \A h \in Hours : MonthOf[h] = m => h + 1 + ArchiveKeep + Day <= t
  BY DEF Exportable
<1>2. ArchiveKeep \in Nat /\ Day \in Nat /\ ColdAfter \in Nat
  BY DEF ColdConstants
<1>3. PICK g \in Hours : MonthOf[g] = m
  BY <1>1
<1>4. ASSUME NEW h \in Hours, MonthOf[h] <= m
      PROVE h + 1 + ArchiveKeep + Day <= t
  <2>1. CASE MonthOf[h] = m
    BY <1>1, <2>1
  <2>2. CASE MonthOf[h] # m
    <3>1. MonthOf[h] \in Nat /\ m \in Nat
      BY <1>1
    <3>2. MonthOf[h] < MonthOf[g]
      BY <1>3, <1>4, <2>2, <3>1
    <3>3. h < g /\ g + 1 + ArchiveKeep + Day <= t
      BY <1>1, <1>3, <3>2
    <3>4. h \in Nat /\ g \in Nat
      OBVIOUS
    <3> QED BY <1>2, <3>3, <3>4
  <2> QED BY <2>1, <2>2
<1>5. Past(m, t)
  <2>1. \A h \in Hours : h \in Nat
    OBVIOUS
  <2> QED BY <1>2, <1>4, <2>1 DEF Past
<1>6. ASSUME NEW n \in present, n <= m, n > mark PROVE n \in Exportable(present, t)
  <2>1. n + ColdAfter <= MonthOf[t]
    <3>1. n \in Nat /\ m \in Nat /\ MonthOf[t] \in Nat
      BY <1>1
    <3> QED BY <1>1, <1>2, <1>6, <3>1
  <2>2. \A h \in Hours : MonthOf[h] = n => h + 1 + ArchiveKeep + Day <= t
    BY <1>4, <1>6
  <2> QED BY <1>6, <2>1, <2>2 DEF Exportable
<1> QED BY <1>1, <1>5, <1>6

LEMMA ReadsMarkFine ==
  ASSUME ColdConstants, RowsInv, MarkInv, SealedWhole,
         NEW x, Fine(x, now, timely, moved, manifest), x.at = "mark"
  PROVE  Fine([at |-> "check", ready |-> {},
               todo |-> Lowest(Exportable(x.present, x.now), MaxMonths)],
              now, timely, moved, manifest)
<1> USE MonthsNat, HoursNat
<1> DEFINE able == Exportable(x.present, x.now)
           todo == Lowest(able, MaxMonths)
           y == [at |-> "check", ready |-> {}, todo |-> todo]
<1>1. y.at = "check" /\ y.at \notin Working /\ y.ready = {} /\ y.todo = todo
  BY DEF Working
<1>2. x.present \in SUBSET Month /\ x.now \in Nat /\ x.now <= now
  BY DEF Fine, Known, Archived
<1>3. x.now \in Hours /\ mark \in Nat /\ MaxMonths \in Nat
  BY <1>2 DEF RowsInv, MarkInv, ColdConstants, Hours
<1>4. able \subseteq x.present /\ todo \subseteq able
  BY DEF Exportable, Lowest
<1>5. able \in SUBSET Nat /\ IsFiniteSet(able)
  <2>1. able \in SUBSET Month
    BY <1>2, <1>4
  <2> QED BY <2>1, FS_Subset
<1>6. \A m \in able : m \in Month /\ Past(m, x.now)
                      /\ \A n \in x.present : n <= m /\ n > mark => n \in able
  BY <1>2, <1>3, ExportableClosed
<1>7. \A m \in todo, n \in able : n <= m => n \in todo
  BY <1>3, <1>5, LowestClosed
<1> HIDE DEF able, todo, y
<1>8. Listed(y) = todo /\ Chosen(y) = {}
  BY <1>1 DEF Listed, Chosen
<1>9. ASSUME NEW m \in todo
      PROVE /\ Past(m, now)
            /\ \A h \in timely : MonthOf[h] <= m =>
                 MonthOf[h] \in todo \/ Done(MonthOf[h], timely, manifest)
  <2>1. m \in able /\ m \in x.present /\ m \in Month /\ Past(m, x.now)
    BY <1>4, <1>6
  <2>2. Past(m, now)
    <3>1. \A h \in Hours : h < x.now => h < now
      BY <1>2, <1>3 DEF RowsInv
    <3> QED BY <2>1, <3>1 DEF Past
  <2>3. ASSUME NEW h \in timely, MonthOf[h] <= m
        PROVE MonthOf[h] \in todo \/ Done(MonthOf[h], timely, manifest)
    <3>1. h \in Hours /\ MonthOf[h] \in Month /\ MonthOf[h] \in Nat /\ m \in Nat
      BY <2>1 DEF RowsInv
    <3>2. MonthOf[h] \in x.present
      <4>1. MonthOf[h] = m \/ MonthOf[h] < m
        BY <2>3, <3>1
      <4> QED BY <2>1, <4>1 DEF Fine, Archived
    <3>3. CASE MonthOf[h] <= mark
      <4>1. ASSUME NEW g \in timely, MonthOf[g] = MonthOf[h] PROVE g \in manifest[MonthOf[h]].rows
        BY <3>3, <4>1 DEF SealedWhole
      <4> QED BY <4>1 DEF Done
    <3>4. CASE MonthOf[h] > mark
      BY <1>6, <1>7, <2>1, <2>3, <3>2, <3>4
    <3> QED BY <1>3, <3>1, <3>3, <3>4
  <2> QED BY <2>2, <2>3
<1>10. Known(y) /\ Archived(y, now, timely, moved) /\ Ordered(y)
  BY <1>1, <1>2, <1>4 DEF Known, Archived, Ordered, Locations
<1>11. Closed(y, now, timely, manifest) /\ Complete(y, timely, moved, manifest)
  BY <1>1, <1>8, <1>9 DEF Closed, Complete
<1>12. Fine(y, now, timely, moved, manifest)
  BY <1>10, <1>11 DEF Fine
<1> QED BY <1>12 DEF y, todo, able

LEMMA LeastMonth ==
  ASSUME ColdConstants, NEW S \in SUBSET Month, S # {}
  PROVE  Least(S) \in S /\ \A m \in S : Least(S) <= m
<1>1. S \in SUBSET Nat /\ IsFiniteSet(S)
  BY MonthsNat, FS_Subset
<1> QED BY <1>1, LeastExists

(* A month without rows in the database is complete in the archive. *)
LEMMA ReadyFine ==
  ASSUME ColdConstants, RowsInv, NEW x, Fine(x, now, timely, moved, manifest),
         x.at = "check", x.todo # {}
  PROVE  Fine(Ready(x.todo, x.ready), now, timely, moved, manifest)
<1> USE MonthsNat, HoursNat
<1> DEFINE m == Least(x.todo)
           y == Ready(x.todo, x.ready)
<1>1. x.todo \in SUBSET Month /\ x.ready \in SUBSET Month
  BY DEF Fine, Known
<1>2. m \in x.todo /\ \A n \in x.todo : m <= n
  BY <1>1, LeastMonth
<1>3. \A r \in x.ready, q \in x.todo : r < q
  BY DEF Fine, Ordered
<1>4. Listed(x) = x.todo \cup x.ready /\ Chosen(x) = x.ready
  BY DEF Listed, Chosen, Working
<1> HIDE DEF m
<1>5. CASE OfMonth(main, m) # {}
  <2>1. y = [at |-> "check", todo |-> {}, ready |-> x.ready]
    BY <1>5 DEF Ready, m
  <2>2. y.at = "check" /\ y.at \notin Working /\ y.todo = {} /\ y.ready = x.ready
    BY <2>1 DEF Working
  <2> HIDE DEF y
  <2>3. Listed(y) = x.ready /\ Chosen(y) = x.ready
    BY <2>2 DEF Listed, Chosen
  <2>4. ASSUME NEW r \in x.ready
        PROVE /\ Past(r, now)
              /\ \A h \in timely : MonthOf[h] <= r =>
                   MonthOf[h] \in x.ready \/ Done(MonthOf[h], timely, manifest)
    <3>1. r \in Nat /\ \A q \in x.todo : q \in Nat /\ r < q
      BY <1>1, <1>3
    <3> QED BY <1>4, <3>1 DEF Fine, Closed
  <2>5. Closed(y, now, timely, manifest)
    BY <2>3, <2>4 DEF Closed
  <2>6. Complete(y, timely, moved, manifest)
    BY <1>4, <2>2, <2>3 DEF Complete, Fine
  <2>7. Known(y) /\ Archived(y, now, timely, moved) /\ Ordered(y)
    BY <1>1, <2>2 DEF Known, Archived, Ordered, Locations
  <2>8. Fine(y, now, timely, moved, manifest)
    BY <2>5, <2>6, <2>7 DEF Fine
  <2> QED BY <2>8 DEF y
<1>6. CASE OfMonth(main, m) = {}
  <2>1. y = [at |-> "check", todo |-> x.todo \ {m}, ready |-> x.ready \cup {m}]
    BY <1>6 DEF Ready, m
  <2>2. y.at = "check" /\ y.at \notin Working /\ y.todo = x.todo \ {m} /\ y.ready = x.ready \cup {m}
    BY <2>1 DEF Working
  <2> HIDE DEF y
  <2>3. Listed(y) = Listed(x) /\ Chosen(y) = Chosen(x) \cup {m}
    BY <1>2, <1>4, <2>2 DEF Listed, Chosen
  <2>4. Closed(y, now, timely, manifest)
    BY <2>3 DEF Closed, Fine
  <2>5. Whole(m, timely, moved)
    BY <1>6 DEF Whole, OfMonth, RowsInv
  <2>6. Complete(y, timely, moved, manifest)
    BY <2>2, <2>3, <2>5 DEF Complete, Fine
  <2>7. Ordered(y)
    <3>1. \A q \in y.todo : m < q
      <4>1. \A q \in x.todo : q \in Nat
        BY <1>1
      <4> QED BY <1>2, <2>2, <4>1
    <3> QED BY <1>3, <2>2, <3>1 DEF Ordered
  <2>8. Known(y) /\ Archived(y, now, timely, moved)
    BY <1>1, <1>2, <2>2 DEF Known, Archived, Locations
  <2>9. Fine(y, now, timely, moved, manifest)
    BY <2>4, <2>6, <2>7, <2>8 DEF Fine
  <2> QED BY <2>9 DEF y
<1> QED BY <1>5, <1>6

(* An exporter that has checked its months reads them. *)
LEMMA CheckedFine ==
  ASSUME NEW x, Fine(x, now, timely, moved, manifest), x.at = "check", x.todo = {}
  PROVE  Fine([at |-> "read", ready |-> x.ready], now, timely, moved, manifest)
<1> DEFINE y == [at |-> "read", ready |-> x.ready]
<1>1. y.at = "read" /\ y.at \notin Working /\ y.ready = x.ready
  BY DEF Working
<1> HIDE DEF y
<1>2. Listed(x) = x.ready /\ Chosen(x) = x.ready /\ Listed(y) = x.ready /\ Chosen(y) = x.ready
  BY <1>1 DEF Listed, Chosen, Working
<1>3. Known(y) /\ Archived(y, now, timely, moved) /\ Ordered(y)
  BY <1>1 DEF Fine, Known, Archived, Ordered, Locations
<1>4. Closed(y, now, timely, manifest)
  BY <1>2 DEF Closed, Fine
<1>5. Complete(y, timely, moved, manifest)
  BY <1>1, <1>2 DEF Complete, Fine
<1>6. Fine(y, now, timely, moved, manifest)
  BY <1>3, <1>4, <1>5 DEF Fine
<1> QED BY <1>6 DEF y

(* A month whose rows are read has all that was seen of it; one without rows is done. *)
LEMMA ReadsMonthRowsFine ==
  ASSUME ColdConstants, RowsInv, NEW x, Fine(x, now, timely, moved, manifest),
         x.at = "read", x.ready # {}, NEW m, m = Least(x.ready),
         NEW y,
         IF OfMonth(moved, m) = {} THEN y = [at |-> "read", ready |-> x.ready \ {m}]
         ELSE y = [at |-> "create", ready |-> x.ready \ {m}, month |-> m,
                   rows |-> OfMonth(moved, m), file |-> 0, sha |-> {}]
  PROVE  Fine(y, now, timely, moved, manifest)
<1> USE MonthsNat
<1>1. x.ready \in SUBSET Month
  BY DEF Fine, Known
<1>2. m \in x.ready /\ (\A n \in x.ready : m <= n) /\ m \in Month
  BY <1>1, LeastMonth
<1>3. Listed(x) = x.ready /\ Chosen(x) = x.ready
  BY DEF Listed, Chosen, Working
<1>4. Whole(m, timely, moved)
  BY <1>2, <1>3 DEF Fine, Complete
<1>5. CASE OfMonth(moved, m) = {}
  <2>1. y.at = "read" /\ y.at \notin Working /\ y.ready = x.ready \ {m}
    BY <1>5 DEF Working
  <2>2. Listed(y) = x.ready \ {m} /\ Chosen(y) = x.ready \ {m}
    BY <2>1 DEF Listed, Chosen
  <2>3. Done(m, timely, manifest)
    BY <1>4, <1>5 DEF Whole, OfMonth, Done
  <2>4. Closed(y, now, timely, manifest)
    <3> SUFFICES ASSUME NEW n \in x.ready \ {m}
                 PROVE /\ Past(n, now)
                       /\ \A h \in timely : MonthOf[h] <= n =>
                            MonthOf[h] \in x.ready \ {m} \/ Done(MonthOf[h], timely, manifest)
      BY <2>2 DEF Closed
    <3>1. /\ Past(n, now)
          /\ \A h \in timely : MonthOf[h] <= n =>
               MonthOf[h] \in x.ready \/ Done(MonthOf[h], timely, manifest)
      BY <1>3 DEF Fine, Closed
    <3> QED BY <2>3, <3>1
  <2>5. Complete(y, timely, moved, manifest)
    BY <1>3, <2>1, <2>2 DEF Complete, Fine
  <2>6. Known(y) /\ Archived(y, now, timely, moved) /\ Ordered(y)
    BY <1>1, <2>1 DEF Known, Archived, Ordered, Locations
  <2> QED BY <2>4, <2>5, <2>6 DEF Fine
<1>6. CASE OfMonth(moved, m) # {}
  <2>1. y = [at |-> "create", ready |-> x.ready \ {m}, month |-> m,
             rows |-> OfMonth(moved, m), file |-> 0, sha |-> {}]
    BY <1>6
  <2>2. /\ y.at = "create" /\ y.at \in Working /\ y.ready = x.ready \ {m} /\ y.month = m
        /\ y.rows = OfMonth(moved, m)
        /\ DOMAIN y = {"at", "ready", "month", "rows", "file", "sha"}
    BY <2>1 DEF Working
  <2>3. Listed(y) = x.ready /\ Chosen(y) = x.ready
    BY <1>2, <2>2 DEF Listed, Chosen, Working
  <2>4. Closed(y, now, timely, manifest)
    BY <1>3, <2>3 DEF Closed, Fine
  <2>5. \A h \in timely : MonthOf[h] = m => h \in y.rows
    BY <1>4, <2>2 DEF Whole, OfMonth
  <2>6. Complete(y, timely, moved, manifest)
    BY <1>3, <2>2, <2>3, <2>5 DEF Complete, Fine
  <2>7. Ordered(y)
    <3>1. \A r \in x.ready : r \in Nat
      BY <1>1
    <3> QED BY <1>2, <2>2, <3>1 DEF Ordered
  <2>8. Known(y) /\ Archived(y, now, timely, moved)
    BY <1>1, <1>2, <2>2 DEF Known, Archived, Locations
  <2> QED BY <2>4, <2>6, <2>7, <2>8 DEF Fine
<1> QED BY <1>5, <1>6

(* While a month is written, what the exporter knows of it stays. *)
LEMMA WorkingFine ==
  ASSUME NEW t, NEW seen, NEW held, NEW record,
         NEW x, Fine(x, t, seen, held, record), x.at \in Working,
         NEW y, DOMAIN y = DOMAIN x, y.at \in Working,
         y.ready = x.ready, y.month = x.month, y.rows = x.rows,
         y.at = "mark2" => Done(y.month, seen, record)
  PROVE  Fine(y, t, seen, held, record)
<1>1. x.at \notin {"months", "mark", "check", "read"} /\ y.at \notin {"months", "mark", "check", "read"}
  BY DEF Working
<1>2. Listed(y) = Listed(x) /\ Chosen(y) = Chosen(x)
  BY <1>1 DEF Listed, Chosen
<1>3. Known(y) /\ Archived(y, t, seen, held) /\ Ordered(y)
  BY <1>1 DEF Fine, Known, Archived, Ordered, Locations
<1>4. Closed(y, t, seen, record)
  BY <1>2 DEF Fine, Closed
<1>5. Complete(y, seen, held, record)
  BY <1>2 DEF Fine, Complete
<1> QED BY <1>3, <1>4, <1>5 DEF Fine

(* A month is sealed when it and all earlier ones are done. *)
LEMMA MarksSeals ==
  ASSUME ColdConstants, RowsInv, NEW x, Fine(x, now, timely, moved, manifest), x.at = "mark2"
  PROVE  /\ Fine([at |-> "read", ready |-> x.ready], now, timely, moved, manifest)
         /\ x.month \in Month /\ Past(x.month, now)
         /\ \A h \in timely : MonthOf[h] <= x.month => h \in manifest[MonthOf[h]].rows
<1> USE MonthsNat
<1> DEFINE y == [at |-> "read", ready |-> x.ready]
<1>1. x.at \in Working /\ x.at \notin {"check", "read"}
  BY DEF Working
<1>2. x.ready \in SUBSET Month /\ x.month \in Month
  BY <1>1 DEF Fine, Known
<1>3. Listed(x) = x.ready \cup {x.month} /\ Chosen(x) = x.ready \cup {x.month}
  BY <1>1 DEF Listed, Chosen
<1>4. Done(x.month, timely, manifest)
  BY DEF Fine, Complete
<1>5. \A r \in x.ready : x.month < r
  BY <1>1 DEF Fine, Ordered
<1>6. Past(x.month, now)
  BY <1>3 DEF Fine, Closed
<1>7. ASSUME NEW h \in timely, MonthOf[h] <= x.month PROVE h \in manifest[MonthOf[h]].rows
  <2>1. MonthOf[h] \in x.ready \cup {x.month} \/ Done(MonthOf[h], timely, manifest)
    BY <1>3, <1>7 DEF Fine, Closed
  <2>2. MonthOf[h] \notin x.ready
    <3>1. \A r \in x.ready : r \in Nat
      BY <1>2
    <3>2. x.month \in Nat
      BY <1>2
    <3> QED BY <1>5, <1>7, <3>1, <3>2
  <2>3. Done(MonthOf[h], timely, manifest)
    BY <1>4, <2>1, <2>2
  <2> QED BY <2>3 DEF Done
<1>8. y.at = "read" /\ y.at \notin Working /\ y.ready = x.ready
  BY DEF Working
<1> HIDE DEF y
<1>9. Listed(y) = x.ready /\ Chosen(y) = x.ready
  BY <1>8 DEF Listed, Chosen
<1>10. Closed(y, now, timely, manifest)
  <2> SUFFICES ASSUME NEW n \in x.ready
               PROVE /\ Past(n, now)
                     /\ \A h \in timely : MonthOf[h] <= n =>
                          MonthOf[h] \in x.ready \/ Done(MonthOf[h], timely, manifest)
    BY <1>9 DEF Closed
  <2>1. /\ Past(n, now)
        /\ \A h \in timely : MonthOf[h] <= n =>
             MonthOf[h] \in x.ready \cup {x.month} \/ Done(MonthOf[h], timely, manifest)
    BY <1>3 DEF Fine, Closed
  <2> QED BY <1>4, <2>1
<1>11. Complete(y, timely, moved, manifest)
  BY <1>3, <1>8, <1>9 DEF Complete, Fine
<1>12. Known(y) /\ Archived(y, now, timely, moved) /\ Ordered(y)
  BY <1>2, <1>8 DEF Known, Archived, Ordered, Locations
<1>13. Fine(y, now, timely, moved, manifest)
  BY <1>10, <1>11, <1>12 DEF Fine
<1> QED BY <1>2, <1>6, <1>7, <1>13 DEF y

-----------------------------------------------------------------------------
(* Steps. *)

Still == UNCHANGED <<now, main, moved, batch, timely, manifest>>

LEMMA BecomesFine ==
  ASSUME ColdInv, NEW e \in Exporter, NEW y, Becomes(e, y), Still,
         Fine(y, now, timely, moved, manifest)
  PROVE  RowsInv' /\ ExportersInv'
<1>1. RowsInv'
  BY DEF ColdInv, RowsInv, Still
<1>2. DOMAIN exporter' = Exporter /\ exporter'[e] = y
      /\ \A d \in Exporter : d # e => exporter'[d] = exporter[d]
  BY DEF ColdInv, ExportersInv, Becomes
<1>3. /\ now' = now /\ timely' = timely /\ moved' = moved /\ manifest' = manifest
  BY DEF Still
<1>4. \A d \in Exporter : Fine(exporter'[d], now, timely, moved, manifest)
  BY <1>2 DEF ColdInv, ExportersInv
<1> QED BY <1>1, <1>2, <1>3, <1>4 DEF ExportersInv

LEMMA SealsStay ==
  ASSUME ColdInv, Still, mark' = mark
  PROVE  MarkInv' /\ SealedWhole'
BY DEF ColdInv, MarkInv, SealedWhole, Still

(* A step of an exporter that touches neither manifest nor watermark. *)
LEMMA PlainSteps ==
  ASSUME ColdConstants, ColdInv, NEW e \in Exporter,
         \/ Begins(e) \/ ReadsMonths(e) \/ ReadsMark(e) \/ Checks(e) \/ ReadsMonthRows(e)
         \/ Creates(e) \/ WritesFile(e) \/ Hashes(e) \/ Verifies(e) \/ Renames(e)
         \/ WritesSidecar(e) \/ Dies(e)
  PROVE  ColdInv'
<1> DEFINE x == exporter[e]
<1>a. Fine(x, now, timely, moved, manifest) /\ RowsInv /\ MarkInv /\ SealedWhole
  BY DEF ColdInv, ExportersInv
<1>b. Still /\ mark' = mark
  BY DEF Begins, ReadsMonths, ReadsMark, Checks, ReadsMonthRows, Creates, WritesFile, Hashes,
         Verifies, Renames, WritesSidecar, Dies, recorded, Still
<1> SUFFICES \E y : Becomes(e, y) /\ Fine(y, now, timely, moved, manifest)
  BY <1>b, BecomesFine, SealsStay DEF ColdInv
<1>q. ASSUME Quits(e) PROVE \E y : Becomes(e, y) /\ Fine(y, now, timely, moved, manifest)
  BY <1>q, IdleFine DEF Quits
\* x goes on with its month.
<1>w. ASSUME x.at \in Working, NEW y, Becomes(e, y), DOMAIN y = DOMAIN x, y.at \in Working \ {"mark2"},
             y.ready = x.ready, y.month = x.month, y.rows = x.rows
      PROVE \E z : Becomes(e, z) /\ Fine(z, now, timely, moved, manifest)
  <2>1. Fine(y, now, timely, moved, manifest)
    BY <1>a, <1>w, WorkingFine
  <2> QED BY <1>w, <2>1
<1>k. x.at \in Working => DOMAIN x = {"at", "ready", "month", "rows", "file", "sha"}
  BY <1>a DEF Fine, Known
<1> HIDE DEF x
<1>1. CASE Begins(e)
  BY <1>1, <1>a, BeginsFine DEF Begins
<1>2. CASE ReadsMonths(e)
  BY <1>2, <1>a, ReadsMonthsFine DEF ReadsMonths, x
<1>3. CASE ReadsMark(e)
  BY <1>3, <1>a, ReadsMarkFine DEF ReadsMark, x
<1>4. CASE Checks(e)
  <2>1. CASE x.todo = {}
    BY <1>4, <1>a, <2>1, CheckedFine DEF Checks, x
  <2>2. CASE x.todo # {}
    BY <1>4, <1>a, <2>2, ReadyFine DEF Checks, x
  <2> QED BY <2>1, <2>2
<1>5. CASE ReadsMonthRows(e)
  <2>1. CASE x.ready = {}
    BY <1>5, <1>q, <2>1 DEF ReadsMonthRows, x
  <2>2. CASE x.ready # {}
    <3> DEFINE m == Least(x.ready)
    <3>1. PICK y : /\ Becomes(e, y)
                   /\ IF OfMonth(moved, m) = {} THEN y = [at |-> "read", ready |-> x.ready \ {m}]
                      ELSE y = [at |-> "create", ready |-> x.ready \ {m}, month |-> m,
                                rows |-> OfMonth(moved, m), file |-> 0, sha |-> {}]
      BY <1>5, <2>2 DEF ReadsMonthRows, x
    <3>2. x.at = "read"
      BY <1>5 DEF ReadsMonthRows, x
    <3> HIDE DEF m
    <3>3. m = Least(x.ready)
      BY DEF m
    <3>4. Fine(y, now, timely, moved, manifest)
      BY <1>a, <2>2, <3>1, <3>2, <3>3, ReadsMonthRowsFine
    <3> QED BY <3>1, <3>4
  <2> QED BY <2>1, <2>2
<1>6. CASE Creates(e)
  <2>1. PICK f : Becomes(e, [x EXCEPT !.at = "write", !.file = f])
    BY <1>6 DEF Creates, x
  <2>2. x.at \in Working
    BY <1>6 DEF Creates, Working, x
  <2> DEFINE y == [x EXCEPT !.at = "write", !.file = f]
  <2>3. DOMAIN y = DOMAIN x /\ y.at = "write" /\ y.ready = x.ready /\ y.month = x.month
        /\ y.rows = x.rows
    BY <1>k, <2>2
  <2>4. y.at \in Working \ {"mark2"}
    BY <2>3 DEF Working
  <2> HIDE DEF y
  <2>5. Becomes(e, y)
    BY <2>1 DEF y
  <2> QED BY <1>w, <2>2, <2>3, <2>4, <2>5
<1>7. CASE WritesFile(e)
  <2> DEFINE y == [x EXCEPT !.at = "hash"]
  <2>1. Becomes(e, y) /\ x.at \in Working
    BY <1>7 DEF WritesFile, Continues, Working, x
  <2>2. DOMAIN y = DOMAIN x /\ y.at = "hash" /\ y.ready = x.ready /\ y.month = x.month
        /\ y.rows = x.rows
    BY <1>k, <2>1
  <2> HIDE DEF y
  <2> QED BY <1>w, <2>1, <2>2 DEF Working
<1>8. CASE Hashes(e)
  <2>1. Quits(e) \/ \E sum : Becomes(e, [x EXCEPT !.at = "verify", !.sha = sum])
    BY <1>8 DEF Hashes, x
  <2>2. CASE Quits(e)
    BY <1>q, <2>2
  <2>3. ASSUME NEW sum, Becomes(e, [x EXCEPT !.at = "verify", !.sha = sum])
        PROVE \E z : Becomes(e, z) /\ Fine(z, now, timely, moved, manifest)
    <3> DEFINE y == [x EXCEPT !.at = "verify", !.sha = sum]
    <3>1. Becomes(e, y) /\ x.at \in Working
      BY <1>8, <2>3 DEF Hashes, Working, x
    <3>2. DOMAIN y = DOMAIN x /\ y.at = "verify" /\ y.ready = x.ready /\ y.month = x.month
          /\ y.rows = x.rows
      BY <1>k, <3>1
    <3> HIDE DEF y
    <3> QED BY <1>w, <3>1, <3>2 DEF Working
  <2> QED BY <2>1, <2>2, <2>3
<1>9. CASE Verifies(e)
  <2> DEFINE y == [x EXCEPT !.at = "rename"]
  <2>1. Quits(e) \/ Becomes(e, y)
    BY <1>9 DEF Verifies, Continues, x
  <2>2. x.at \in Working
    BY <1>9 DEF Verifies, Working, x
  <2>3. DOMAIN y = DOMAIN x /\ y.at = "rename" /\ y.ready = x.ready /\ y.month = x.month
        /\ y.rows = x.rows
    BY <1>k, <2>2
  <2> HIDE DEF y
  <2> QED BY <1>q, <1>w, <2>1, <2>2, <2>3 DEF Working
<1>10. CASE Renames(e)
  <2> DEFINE y == [x EXCEPT !.at = "sidecar"]
  <2>1. Quits(e) \/ Becomes(e, y)
    BY <1>10 DEF Renames, Continues, x
  <2>2. x.at \in Working
    BY <1>10 DEF Renames, Working, x
  <2>3. DOMAIN y = DOMAIN x /\ y.at = "sidecar" /\ y.ready = x.ready /\ y.month = x.month
        /\ y.rows = x.rows
    BY <1>k, <2>2
  <2> HIDE DEF y
  <2> QED BY <1>q, <1>w, <2>1, <2>2, <2>3 DEF Working
<1>11. CASE WritesSidecar(e)
  <2> DEFINE y == [x EXCEPT !.at = "record"]
  <2>1. Becomes(e, y) /\ x.at \in Working
    BY <1>11 DEF WritesSidecar, Continues, Working, x
  <2>2. DOMAIN y = DOMAIN x /\ y.at = "record" /\ y.ready = x.ready /\ y.month = x.month
        /\ y.rows = x.rows
    BY <1>k, <2>1
  <2> HIDE DEF y
  <2> QED BY <1>w, <2>1, <2>2 DEF Working
<1>12. CASE Dies(e)
  BY <1>12, <1>q DEF Dies
<1> QED
  BY <1>1, <1>2, <1>3, <1>4, <1>5, <1>6, <1>7, <1>8, <1>9, <1>10, <1>11, <1>12

(* The manifest row of a month counts all that was seen of it. *)
LEMMA RecordsStep ==
  ASSUME ColdConstants, ColdInv, NEW e \in Exporter, Records(e)
  PROVE  ColdInv'
<1> USE MonthsNat
<1> DEFINE x == exporter[e]
           y == [x EXCEPT !.at = "mark2"]
<1>1. Fine(x, now, timely, moved, manifest) /\ RowsInv /\ MarkInv /\ SealedWhole
  BY DEF ColdInv, ExportersInv
<1>2. x.at \in Working /\ x.at = "record"
  BY DEF Records, Working
<1>3. x.month \in Month /\ DOMAIN x = {"at", "ready", "month", "rows", "file", "sha"}
  BY <1>1, <1>2 DEF Fine, Known
<1>4. /\ UNCHANGED <<now, main, moved, batch, timely, mark>>
      /\ manifest' = [manifest EXCEPT ![x.month] = [rows |-> x.rows, sha |-> x.sha]]
      /\ Becomes(e, y)
  BY DEF Records, Continues, recorded
<1>5. y.at = "mark2" /\ y.ready = x.ready /\ y.month = x.month /\ y.rows = x.rows /\ DOMAIN y = DOMAIN x
  BY <1>3
<1> HIDE DEF x, y
<1>6. /\ DOMAIN manifest' = Month /\ manifest'[x.month].rows = x.rows
      /\ \A n \in Month : n # x.month => manifest'[n] = manifest[n]
  BY <1>1, <1>3, <1>4 DEF MarkInv
<1>7. Done(x.month, timely, manifest')
  BY <1>1, <1>2, <1>6 DEF Fine, Complete, Done
<1>8. ASSUME NEW n \in Month, Done(n, timely, manifest) PROVE Done(n, timely, manifest')
  <2>1. CASE n = x.month
    BY <1>7, <2>1
  <2>2. CASE n # x.month
    BY <1>6, <1>8, <2>2 DEF Done
  <2> QED BY <2>1, <2>2
<1>9. /\ now' \in Hours /\ now <= now' /\ moved \subseteq moved' /\ timely \subseteq timely'
      /\ timely' \subseteq timely \cup {now}
      /\ now' = now /\ moved' = moved /\ timely' = timely
  BY <1>1, <1>4, HoursNat DEF RowsInv
<1>10. \A n \in Month : Past(n, now) /\ Done(n, timely, manifest) => Done(n, timely', manifest')
  BY <1>8, <1>9
<1>11. \A d \in Exporter : Fine(exporter[d], now', timely', moved', manifest')
  <2> SUFFICES ASSUME NEW d \in Exporter PROVE Fine(exporter[d], now', timely', moved', manifest')
    OBVIOUS
  <2>1. Fine(exporter[d], now, timely, moved, manifest)
    BY DEF ColdInv, ExportersInv
  <2> QED BY <1>1, <1>9, <1>10, <2>1, Carry
<1>12. Fine(y, now', timely', moved', manifest')
  <2>1. Fine(x, now', timely', moved', manifest')
    BY <1>11 DEF x
  <2>2. y.at \in Working /\ Done(y.month, timely', manifest')
    BY <1>5, <1>7, <1>9 DEF Working
  <2> QED BY <1>2, <1>5, <2>1, <2>2, WorkingFine
<1>13. ExportersInv'
  <2>1. DOMAIN exporter' = Exporter /\ exporter'[e] = y
        /\ \A d \in Exporter : d # e => exporter'[d] = exporter[d]
    BY <1>4 DEF ColdInv, ExportersInv, Becomes
  <2> QED BY <1>11, <1>12, <2>1 DEF ExportersInv
<1>14. RowsInv' /\ MarkInv'
  BY <1>1, <1>4, <1>6 DEF RowsInv, MarkInv
<1>15. SealedWhole'
  <2> SUFFICES ASSUME NEW h \in timely, MonthOf[h] <= mark PROVE h \in manifest'[MonthOf[h]].rows
    BY <1>4 DEF SealedWhole
  <2>1. MonthOf[h] \in Month
    BY <1>1 DEF RowsInv
  <2>2. CASE MonthOf[h] = x.month
    BY <1>7, <2>2 DEF Done
  <2>3. CASE MonthOf[h] # x.month
    BY <1>1, <1>6, <2>1, <2>3 DEF SealedWhole
  <2> QED BY <2>2, <2>3
<1> QED BY <1>13, <1>14, <1>15 DEF ColdInv

LEMMA MarksStep ==
  ASSUME ColdConstants, ColdInv, NEW e \in Exporter, Marks(e)
  PROVE  ColdInv'
<1> DEFINE x == exporter[e]
<1>1. Fine(x, now, timely, moved, manifest) /\ RowsInv /\ x.at = "mark2"
  BY DEF ColdInv, ExportersInv, Marks
<1>2. Still /\ mark' = x.month /\ Becomes(e, [at |-> "read", ready |-> x.ready])
  BY DEF Marks, recorded, Still
<1> HIDE DEF x
<1>3. /\ Fine([at |-> "read", ready |-> x.ready], now, timely, moved, manifest)
      /\ x.month \in Month /\ Past(x.month, now)
      /\ \A h \in timely : MonthOf[h] <= x.month => h \in manifest[MonthOf[h]].rows
  BY <1>1, MarksSeals
<1>4. RowsInv' /\ ExportersInv'
  BY <1>2, <1>3, BecomesFine
<1>5. MarkInv'
  BY <1>2, <1>3, MonthsNat DEF ColdInv, MarkInv, Still
<1>6. SealedWhole'
  BY <1>2, <1>3 DEF SealedWhole, Still
<1> QED BY <1>4, <1>5, <1>6 DEF ColdInv

(* Steps of the database leave exporters, manifest and watermark alone, but for a power cut,
   which ends the exporters and takes the watermark back. *)
LEMMA DatabaseSteps ==
  ASSUME ColdConstants, ColdInv, HourPasses \/ LateRow \/ MoveCopies \/ MoveDeletes
  PROVE  ColdInv'
<1> USE MonthsNat, HoursNat
<1>1. /\ RowsInv' /\ now <= now' /\ moved \subseteq moved'
      /\ timely \subseteq timely' /\ timely' \subseteq timely \cup {now}
  <2>1. now \in Nat
    BY DEF ColdInv, RowsInv
  <2>2. CASE HourPasses
    BY <2>2, HourPassesRows DEF ColdInv
  <2>3. CASE MoveCopies
    <3>1. now' = now /\ timely' = timely
      BY <2>3 DEF MoveCopies
    <3> QED BY <2>1, <2>3, <3>1, MoveCopiesRows DEF ColdInv
  <2>4. CASE LateRow \/ MoveDeletes
    BY <2>1, <2>4, OtherRows DEF ColdInv
  <2> QED BY <2>2, <2>3, <2>4
<1>2. exporter' = exporter /\ manifest' = manifest /\ mark' = mark
  BY DEF HourPasses, LateRow, MoveCopies, MoveDeletes
<1>3. RowsInv /\ MarkInv /\ SealedWhole /\ now' \in Hours /\ now \in Hours
  BY <1>1 DEF ColdInv, RowsInv
<1>4. ASSUME NEW n, Past(n, now) PROVE \A h \in timely' : MonthOf[h] <= n => h \in timely
  <2>1. ~(MonthOf[now] <= n)
    BY <1>3, <1>4 DEF Past
  <2> QED BY <1>1, <2>1
<1>5. ASSUME NEW n \in Month, Past(n, now), Done(n, timely, manifest)
      PROVE Done(n, timely', manifest')
  <2>1. \A h \in timely' : MonthOf[h] = n => h \in timely
    <3>1. n <= n
      OBVIOUS
    <3> QED BY <1>4, <1>5, <3>1
  <2> QED BY <1>2, <1>5, <2>1 DEF Done
<1>6. ExportersInv'
  <2>1. DOMAIN exporter' = Exporter
    BY <1>2 DEF ColdInv, ExportersInv
  <2>2. ASSUME NEW d \in Exporter PROVE Fine(exporter'[d], now', timely', moved', manifest')
    <3>1. Fine(exporter[d], now, timely, moved, manifest)
      BY DEF ColdInv, ExportersInv
    <3>2. Fine(exporter[d], now', timely', moved', manifest')
      BY <1>1, <1>3, <1>5, <3>1, Carry
    <3> QED BY <1>2, <3>2
  <2> QED BY <2>1, <2>2 DEF ExportersInv
<1>7. MarkInv'
  <2>1. Past(mark, now')
    <3>1. \A h \in Hours : h < now => h < now'
      BY <1>1, <1>3
    <3> QED BY <1>3, <3>1 DEF MarkInv, Past
  <2> QED BY <1>2, <1>3, <2>1 DEF MarkInv
<1>8. SealedWhole'
  BY <1>2, <1>3, <1>4 DEF SealedWhole, MarkInv
<1> QED BY <1>1, <1>6, <1>7, <1>8 DEF ColdInv

LEMMA PowerCutStep ==
  ASSUME ColdConstants, ColdInv, PowerCut
  PROVE  ColdInv'
<1> USE MonthsNat, HoursNat
<1>1. RowsInv' /\ UNCHANGED <<now, moved, timely, manifest>>
  BY OtherRows DEF ColdInv, PowerCut
<1>2. mark' \in Nat /\ mark \in Nat /\ mark' <= mark
  BY DEF PowerCut, ColdInv, MarkInv
<1>3. \A h \in Hours : MonthOf[h] <= mark' => MonthOf[h] <= mark
  BY <1>2
<1>4. MarkInv'
  BY <1>1, <1>2, <1>3 DEF ColdInv, MarkInv, Past
<1>5. SealedWhole'
  BY <1>1, <1>3 DEF ColdInv, SealedWhole, RowsInv
<1>6. ExportersInv'
  <2>1. exporter' = [e \in Exporter |-> [at |-> "idle"]]
    BY DEF PowerCut
  <2> QED BY <2>1, IdleFine DEF ExportersInv
<1> QED BY <1>1, <1>4, <1>5, <1>6 DEF ColdInv

LEMMA ColdInitInv == ColdConstants /\ ColdInit => ColdInv
<1> SUFFICES ASSUME ColdConstants, ColdInit PROVE ColdInv
  OBVIOUS
<1>1. RowsInv
  BY DEF ColdInit, RowsInv, ColdConstants, Hours
<1>2. ExportersInv
  <2>1. exporter = [e \in Exporter |-> [at |-> "idle"]]
    BY DEF ColdInit
  <2> QED BY <2>1, IdleFine DEF ExportersInv
<1>3. MarkInv
  <2>1. mark = 0 /\ DOMAIN manifest = Month
    BY DEF ColdInit
  <2>2. \A h \in Hours : ~(MonthOf[h] <= 0)
    BY MonthsNat
  <2> QED BY <2>1, <2>2 DEF MarkInv, Past
<1>4. SealedWhole
  BY DEF ColdInit, SealedWhole
<1> QED BY <1>1, <1>2, <1>3, <1>4 DEF ColdInv

LEMMA ColdStep == ColdConstants /\ ColdInv /\ [ColdNext]_coldVars => ColdInv'
<1> SUFFICES ASSUME ColdConstants, ColdInv, [ColdNext]_coldVars PROVE ColdInv'
  OBVIOUS
<1>1. CASE UNCHANGED coldVars
  <2>1. UNCHANGED <<now, main, moved, batch, timely, manifest, mark, exporter>>
    BY <1>1 DEF coldVars
  <2> QED BY <2>1 DEF ColdInv, RowsInv, ExportersInv, MarkInv, SealedWhole
<1>2. CASE HourPasses \/ LateRow \/ MoveCopies \/ MoveDeletes
  BY <1>2, DatabaseSteps
<1>3. CASE PowerCut
  BY <1>3, PowerCutStep
<1>4. ASSUME NEW e \in Exporter, ExportSteps(e) \/ Dies(e) PROVE ColdInv'
  BY <1>4, PlainSteps, RecordsStep, MarksStep DEF ExportSteps
<1> QED BY <1>1, <1>2, <1>3, <1>4 DEF ColdNext

(* What the watermark seals was exported whole: the manifest counts every hour recorded in
   time, however batches, exporters, failures and power cuts follow each other
   (exportable_months, months_ready_to_export, export_cold_months). *)
THEOREM SealedMonthsWhole == ColdSpec => []SealedWhole
<1>1. ColdInit => ColdInv
  BY ColdConstants, ColdInitInv
<1>2. ColdInv /\ [ColdNext]_coldVars => ColdInv'
  BY ColdConstants, ColdStep
<1>3. ColdInv => SealedWhole
  BY DEF ColdInv
<1> QED BY <1>1, <1>2, <1>3, PTL DEF ColdSpec

-----------------------------------------------------------------------------
(* The files of a sealed month, where no more than one exporter runs at a time. *)

AtMostOne == \A d, e \in Exporter : d = e

\* No file has two names (ColdTypeOK).
NamesInv ==
  /\ tmp \in Files /\ target \in Files
  /\ DOMAIN content = File /\ DOMAIN sidecar = Month
  /\ \A m, n \in Month :
       /\ tmp[m] # 0 => tmp[m] # target[n]
       /\ tmp[m] # 0 /\ m # n => tmp[m] # tmp[n]
       /\ target[m] # 0 /\ m # n => target[m] # target[n]

\* What is recorded of a month is in the archive, so that the month is found there again
\* until it is sealed.
RecordsInv == \A m \in Month : manifest[m].rows \subseteq OfMonth(moved, m)

\* A list has only months that are not sealed, and with one of them every earlier one that
\* is not sealed and recorded.
Unsealed(x) == \A m \in Listed(x) : m > mark
Covers(x) ==
  /\ x.at = "mark" => \A n \in Month : manifest[n].rows # {} => n \in x.present
  /\ \A m \in Listed(x), n \in Month :
       n <= m /\ n > mark /\ manifest[n].rows # {} => n \in Listed(x)

\* How far the files of an exporter's month are.
Progress(x) ==
  /\ x.at \in Working => x.rows \subseteq OfMonth(moved, x.month)
  /\ x.at = "write" => tmp[x.month] = x.file /\ x.file # 0
  /\ x.at \in {"hash", "verify", "rename"} =>
       tmp[x.month] # 0 /\ content[tmp[x.month]] = x.rows
  /\ x.at \in {"verify", "rename", "sidecar", "record", "mark2"} => x.sha = x.rows
  /\ x.at \in {"sidecar", "record", "mark2"} =>
       target[x.month] # 0 /\ content[target[x.month]] = x.rows
  /\ x.at \in {"record", "mark2"} => sidecar[x.month] = x.sha
  /\ x.at = "mark2" => manifest[x.month].rows = x.rows /\ manifest[x.month].sha = x.sha

Tracked(x) == Unsealed(x) /\ Covers(x) /\ Progress(x)

FilesInv ==
  NamesInv /\ RecordsInv /\ SealedFilesMatch /\ \A e \in Exporter : Tracked(exporter[e])

LEMMA Alone ==
  ASSUME AtMostOne, NEW e \in Exporter, NamesInv', RecordsInv', SealedFilesMatch',
         Tracked(exporter[e])'
  PROVE  FilesInv'
BY DEF AtMostOne, FilesInv

(* Where files, archive, manifest and watermark stay, so does what is said of them alone. *)
LEMMA FilesStay ==
  ASSUME FilesInv, UNCHANGED <<tmp, target, content, sidecar, moved, manifest, mark>>
  PROVE  NamesInv' /\ RecordsInv' /\ SealedFilesMatch'
BY DEF FilesInv, NamesInv, RecordsInv, SealedFilesMatch, OfMonth

LEMMA Becoming ==
  ASSUME ColdInv, NEW e \in Exporter, NEW y, Becomes(e, y)
  PROVE  exporter'[e] = y
BY DEF ColdInv, ExportersInv, Becomes

(* An idle exporter has no month. *)
LEMMA QuitsTracked ==
  ASSUME ColdInv, NEW e \in Exporter, Quits(e)
  PROVE  Tracked(exporter[e])'
<1>1. exporter'[e] = [at |-> "idle"]
  BY Becoming DEF Quits
<1>2. exporter'[e].at = "idle" /\ "idle" \notin Working
  BY <1>1 DEF Working
<1>3. Listed(exporter'[e]) = {}
  BY <1>2 DEF Listed
<1> QED BY <1>2, <1>3 DEF Tracked, Unsealed, Covers, Progress

(* The database's steps only add to the archive. *)
LEMMA DatabaseFiles ==
  ASSUME FilesInv, HourPasses \/ LateRow \/ MoveCopies \/ MoveDeletes
  PROVE  FilesInv'
<1>1. /\ moved \subseteq moved'
      /\ UNCHANGED <<tmp, target, content, sidecar, manifest, mark, exporter>>
  BY DEF HourPasses, LateRow, MoveCopies, MoveDeletes, files
<1>3. NamesInv' /\ SealedFilesMatch'
  BY <1>1 DEF FilesInv, NamesInv, SealedFilesMatch
<1>4. RecordsInv'
  BY <1>1 DEF FilesInv, RecordsInv, OfMonth
<1>5. ASSUME NEW e \in Exporter PROVE Tracked(exporter[e])'
  <2>1. Unsealed(exporter[e])' /\ Covers(exporter[e])'
    BY <1>1 DEF FilesInv, Tracked, Unsealed, Covers
  <2>2. Progress(exporter[e])'
    BY <1>1 DEF FilesInv, Tracked, Progress, OfMonth
  <2> QED BY <2>1, <2>2 DEF Tracked
<1> QED BY <1>3, <1>4, <1>5 DEF FilesInv

LEMMA PowerCutFiles ==
  ASSUME ColdConstants, ColdInv, FilesInv, PowerCut
  PROVE  FilesInv'
<1>1. /\ UNCHANGED <<tmp, target, content, sidecar, manifest, moved>>
      /\ exporter' = [e \in Exporter |-> [at |-> "idle"]]
  BY DEF PowerCut, files
<1>2. mark' \in Nat /\ mark \in Nat /\ mark' <= mark
  BY MonthsNat DEF PowerCut, ColdInv, MarkInv
<1>3. \A m \in Month : m <= mark' => m <= mark
  BY <1>2, MonthsNat
<1>4. NamesInv' /\ RecordsInv' /\ SealedFilesMatch'
  BY <1>1, <1>3 DEF FilesInv, NamesInv, RecordsInv, SealedFilesMatch, OfMonth
<1>5. ASSUME NEW e \in Exporter PROVE Tracked(exporter[e])'
  <2>1. exporter'[e].at = "idle" /\ "idle" \notin Working
    BY <1>1 DEF Working
  <2>2. Listed(exporter'[e]) = {}
    BY <2>1 DEF Listed
  <2> QED BY <2>1, <2>2 DEF Tracked, Unsealed, Covers, Progress
<1> QED BY <1>4, <1>5 DEF FilesInv

-----------------------------------------------------------------------------
(* Which months. *)

LEMMA BeginsTracked ==
  ASSUME ColdInv, NEW e \in Exporter, Begins(e) \/ ReadsMonths(e), FilesInv
  PROVE  Tracked(exporter[e])'
<1> DEFINE z == exporter'[e]
<1>1. UNCHANGED <<manifest, moved>>
  BY DEF Begins, ReadsMonths, recorded
<1>2. \/ z = [at |-> "months", now |-> now]
      \/ z = [at |-> "mark", now |-> exporter[e].now, present |-> {MonthOf[h] : h \in moved}]
  BY Becoming DEF Begins, ReadsMonths
<1>3. z.at \in {"months", "mark"} /\ z.at \notin Working
      /\ (z.at = "mark" => z.present = {MonthOf[h] : h \in moved})
  BY <1>2 DEF Working
<1> HIDE DEF z
<1>4. Listed(z) = {}
  BY <1>3 DEF Listed
<1>5. ASSUME z.at = "mark", NEW n \in Month, manifest[n].rows # {} PROVE n \in z.present
  <2>1. PICK h \in manifest[n].rows : TRUE
    BY <1>5
  <2>2. h \in moved /\ MonthOf[h] = n
    BY <2>1 DEF FilesInv, RecordsInv, OfMonth
  <2> QED BY <1>3, <1>5, <2>2
<1> QED BY <1>1, <1>3, <1>4, <1>5 DEF Tracked, Unsealed, Covers, Progress, z

LEMMA ReadsMarkTracked ==
  ASSUME ColdConstants, ColdInv, FilesInv, NEW e \in Exporter, ReadsMark(e)
  PROVE  Tracked(exporter[e])'
<1> USE MonthsNat, HoursNat
<1> DEFINE x == exporter[e]
           able == Exportable(x.present, x.now)
           todo == Lowest(able, MaxMonths)
           z == exporter'[e]
<1>1. z = [at |-> "check", ready |-> {}, todo |-> todo] /\ x.at = "mark"
      /\ UNCHANGED <<manifest, moved, mark>>
  BY Becoming DEF ReadsMark, recorded
<1>2. z.at = "check" /\ z.at \notin Working /\ z.ready = {} /\ z.todo = todo
  BY <1>1 DEF Working
<1>3. x.present \in SUBSET Month /\ x.now \in Hours /\ mark \in Nat /\ MaxMonths \in Nat
  <2>1. Fine(x, now, timely, moved, manifest)
    BY DEF ColdInv, ExportersInv
  <2>2. x.present \in SUBSET Month /\ x.now \in Nat /\ x.now <= now /\ now \in Hours /\ mark \in Nat
    BY <1>1, <2>1 DEF Fine, Known, Archived, ColdInv, RowsInv, MarkInv
  <2>3. x.now \in Hours
    BY <2>2 DEF ColdConstants, Hours
  <2> QED BY <2>2, <2>3 DEF ColdConstants
<1>4. \A n \in Month : manifest[n].rows # {} => n \in x.present
  BY <1>1 DEF FilesInv, Tracked, Covers
<1> HIDE DEF x, z
<1>5. able \subseteq x.present /\ todo \subseteq able /\ \A m \in able : m > mark
  BY DEF Exportable, Lowest
<1>6. able \in SUBSET Nat /\ IsFiniteSet(able)
  <2>1. able \in SUBSET Month
    BY <1>3, <1>5
  <2> QED BY <2>1, FS_Subset
<1>7. \A m \in able, n \in x.present : n <= m /\ n > mark => n \in able
  BY <1>3, ExportableClosed
<1>8. \A m \in todo, n \in able : n <= m => n \in todo
  BY <1>3, <1>6, LowestClosed
<1> HIDE DEF able, todo
<1>9. Listed(z) = todo
  BY <1>2 DEF Listed
<1>10. \A m \in todo, n \in Month : n <= m /\ n > mark /\ manifest[n].rows # {} => n \in todo
  BY <1>4, <1>5, <1>7, <1>8
<1> QED BY <1>1, <1>2, <1>5, <1>9, <1>10 DEF Tracked, Unsealed, Covers, Progress, z

(* A list that only loses its latest months covers what it did. *)
LEMMA ChecksTracked ==
  ASSUME ColdConstants, ColdInv, FilesInv, NEW e \in Exporter, Checks(e)
  PROVE  Tracked(exporter[e])'
<1> USE MonthsNat
<1> DEFINE x == exporter[e]
           z == exporter'[e]
<1>1. x.at = "check" /\ UNCHANGED <<manifest, moved, mark>>
  BY DEF Checks, recorded
<1>2. Fine(x, now, timely, moved, manifest) /\ Tracked(x)
  BY DEF ColdInv, ExportersInv, FilesInv
<1>3. x.todo \in SUBSET Month /\ x.ready \in SUBSET Month /\ \A r \in x.ready, q \in x.todo : r < q
  BY <1>1, <1>2 DEF Fine, Known, Ordered
<1>4. Listed(x) = x.todo \cup x.ready
  BY <1>1 DEF Listed, Working
<1>5. \/ z = [at |-> "read", ready |-> x.ready] /\ x.todo = {}
      \/ x.todo # {} /\ z = Ready(x.todo, x.ready)
  BY Becoming DEF Checks
<1> HIDE DEF x, z
<1>6. z.at \in {"check", "read"} /\ (Listed(z) = Listed(x) \/ Listed(z) = x.ready)
  <2>1. CASE z = [at |-> "read", ready |-> x.ready] /\ x.todo = {}
    <3>1. z.at = "read" /\ z.ready = x.ready
      BY <2>1
    <3> QED BY <3>1 DEF Listed, Working
  <2>2. CASE z = [at |-> "check", todo |-> {}, ready |-> x.ready]
    <3>1. z.at = "check" /\ z.ready = x.ready /\ z.todo = {}
      BY <2>2
    <3> QED BY <3>1 DEF Listed, Working
  <2>3. CASE /\ z = [at |-> "check", todo |-> x.todo \ {Least(x.todo)},
                     ready |-> x.ready \cup {Least(x.todo)}]
             /\ x.todo # {}
    <3>1. /\ z.at = "check" /\ z.ready = x.ready \cup {Least(x.todo)}
          /\ z.todo = x.todo \ {Least(x.todo)}
      BY <2>3
    <3>2. Least(x.todo) \in x.todo
      BY <1>3, <2>3, LeastMonth
    <3> QED BY <1>4, <3>1, <3>2 DEF Listed, Working
  <2> QED BY <1>5, <2>1, <2>2, <2>3 DEF Ready
<1>7. \A m \in Listed(z) : m \in Listed(x)
  BY <1>4, <1>6
<1>8. \A m \in Listed(z), n \in Listed(x) : n <= m => n \in Listed(z)
  <2> SUFFICES ASSUME NEW m \in x.ready, NEW n \in x.todo PROVE ~(n <= m)
    BY <1>4, <1>6
  <2>1. m \in Nat /\ n \in Nat /\ m < n
    BY <1>3
  <2> QED BY <2>1
<1>9. Unsealed(x) /\ Covers(x)
  BY <1>2 DEF Tracked
<1> QED BY <1>1, <1>6, <1>7, <1>8, <1>9 DEF Tracked, Unsealed, Covers, Progress, Working, z

(* A month without rows in the archive is not recorded either. *)
LEMMA ReadsMonthRowsTracked ==
  ASSUME ColdConstants, ColdInv, FilesInv, NEW e \in Exporter, ReadsMonthRows(e)
  PROVE  Tracked(exporter[e])'
<1> USE MonthsNat
<1> DEFINE x == exporter[e]
           m == Least(x.ready)
           z == exporter'[e]
<1>1. x.at = "read" /\ UNCHANGED <<manifest, moved, mark>>
  BY DEF ReadsMonthRows, recorded
<1>2. Fine(x, now, timely, moved, manifest) /\ Tracked(x) /\ RecordsInv
  BY DEF ColdInv, ExportersInv, FilesInv
<1>3. x.ready \in SUBSET Month /\ Listed(x) = x.ready
  BY <1>1, <1>2 DEF Fine, Known, Listed, Working
<1>4. \/ x.ready = {} /\ Quits(e)
      \/ x.ready # {} /\ OfMonth(moved, m) = {} /\ z = [at |-> "read", ready |-> x.ready \ {m}]
      \/ x.ready # {} /\ z = [at |-> "create", ready |-> x.ready \ {m}, month |-> m,
                              rows |-> OfMonth(moved, m), file |-> 0, sha |-> {}]
  BY Becoming DEF ReadsMonthRows
<1>5. x.ready # {} => m \in x.ready
  BY <1>3, LeastMonth
<1> HIDE DEF x, z, m
<1>6. Unsealed(x) /\ Covers(x)
  BY <1>2 DEF Tracked
<1>7. CASE x.ready # {} /\ OfMonth(moved, m) = {} /\ z = [at |-> "read", ready |-> x.ready \ {m}]
  <2>1. z.at = "read" /\ z.ready = x.ready \ {m} /\ z.at \notin Working
    BY <1>7 DEF Working
  <2>2. Listed(z) = x.ready \ {m}
    BY <2>1 DEF Listed
  <2>3. manifest[m].rows = {}
    BY <1>2, <1>3, <1>5, <1>7 DEF RecordsInv
  <2> QED BY <1>1, <1>3, <1>6, <2>1, <2>2, <2>3 DEF Tracked, Unsealed, Covers, Progress, z
<1>8. CASE x.ready # {} /\ z = [at |-> "create", ready |-> x.ready \ {m}, month |-> m,
                                rows |-> OfMonth(moved, m), file |-> 0, sha |-> {}]
  <2>1. z.at = "create" /\ z.at \in Working /\ z.ready = x.ready \ {m} /\ z.month = m
        /\ z.rows = OfMonth(moved, m)
    BY <1>8 DEF Working
  <2>2. Listed(z) = x.ready
    BY <1>5, <1>8, <2>1 DEF Listed
  <2> QED BY <1>1, <1>3, <1>6, <2>1, <2>2 DEF Tracked, Unsealed, Covers, Progress, z, OfMonth
<1> QED BY <1>4, <1>7, <1>8, QuitsTracked

LEMMA PlanningFiles ==
  ASSUME ColdConstants, AtMostOne, ColdInv, FilesInv, NEW e \in Exporter,
         Begins(e) \/ ReadsMonths(e) \/ ReadsMark(e) \/ Checks(e) \/ ReadsMonthRows(e)
  PROVE  FilesInv'
<1>1. UNCHANGED <<tmp, target, content, sidecar, moved, manifest, mark>>
  BY DEF Begins, ReadsMonths, ReadsMark, Checks, ReadsMonthRows, recorded, files
<1>2. Tracked(exporter[e])'
  BY BeginsTracked, ReadsMarkTracked, ChecksTracked, ReadsMonthRowsTracked
<1> QED BY <1>1, <1>2, Alone, FilesStay

-----------------------------------------------------------------------------
(* One month. *)

(* While a month is written, the list stays, and what a step records is of that month. *)
LEMMA WorkingTracked ==
  ASSUME FilesInv, NEW e \in Exporter, exporter[e].at \in Working, exporter'[e].at \in Working,
         exporter'[e].ready = exporter[e].ready, exporter'[e].month = exporter[e].month,
         mark' = mark,
         \A n \in Month : n # exporter[e].month => manifest'[n] = manifest[n],
         Progress(exporter[e])'
  PROVE  Tracked(exporter[e])'
<1>1. Unsealed(exporter[e]) /\ Covers(exporter[e])
  BY DEF FilesInv, Tracked
<1>2. \A x : x.at \in Working => x.at # "mark" /\ Listed(x) = x.ready \cup {x.month}
  BY DEF Working, Listed
<1>3. exporter[e].month \in Listed(exporter[e]) /\ Listed(exporter'[e]) = Listed(exporter[e])
  BY <1>2
<1>4. Unsealed(exporter[e])'
  BY <1>1, <1>3 DEF Unsealed
<1>5. Covers(exporter[e])'
  BY <1>1, <1>2, <1>3 DEF Covers
<1> QED BY <1>4, <1>5 DEF Tracked

(* A month that is worked on is not sealed. *)
LEMMA WorkingMonth ==
  ASSUME ColdConstants, ColdInv, FilesInv, NEW e \in Exporter, exporter[e].at \in Working
  PROVE  /\ exporter[e].month \in Month /\ ~(exporter[e].month <= mark)
         /\ DOMAIN exporter[e] = {"at", "ready", "month", "rows", "file", "sha"}
         /\ Progress(exporter[e])
<1> DEFINE x == exporter[e]
<1>1. Fine(x, now, timely, moved, manifest) /\ Tracked(x) /\ mark \in Nat
  BY DEF ColdInv, ExportersInv, FilesInv, MarkInv
<1>2. x.month \in Month /\ DOMAIN x = {"at", "ready", "month", "rows", "file", "sha"}
  BY <1>1 DEF Fine, Known
<1>3. x.month \in Listed(x)
  BY DEF Listed, Working
<1>4. x.month > mark /\ x.month \in Nat
  BY <1>1, <1>2, <1>3, MonthsNat DEF Tracked, Unsealed
<1> QED BY <1>1, <1>2, <1>4 DEF Tracked

LEMMA NamedFiles ==
  ASSUME IsFiniteSet(Month), NEW g \in Files
  PROVE  IsFiniteSet({g[m] : m \in Month}) /\ Cardinality({g[m] : m \in Month}) <= Cardinality(Month)
<1>1. g \in Surjection(Month, {g[m] : m \in Month})
  BY DEF Files, Surjection
<1> QED BY <1>1, FS_Surjection

(* There is a file that no name and no exporter has. *)
LEMMA FreeFile ==
  ASSUME ColdConstants, NamesInv
  PROVE  Least(File \ Used) \in File \ Used
<1> DEFINE N == Cardinality(Month)
           M == Cardinality(Exporter)
           A == {tmp[m] : m \in Month}
           B == {target[m] : m \in Month}
           D == {d \in Exporter : exporter[d].at = "write"}
           C == {exporter[e].file : e \in D}
<1>1. IsFiniteSet(Month) /\ N \in Nat
  BY MonthsNat, FS_CardinalityType
<1>2. IsFiniteSet(A) /\ Cardinality(A) <= N
  BY <1>1, NamedFiles DEF NamesInv
<1>3. IsFiniteSet(B) /\ Cardinality(B) <= N
  BY <1>1, NamedFiles DEF NamesInv
<1>4. IsFiniteSet(C) /\ Cardinality(C) <= M /\ M \in Nat
  <2>1. IsFiniteSet(Exporter) /\ M \in Nat
    BY FS_CardinalityType DEF ColdConstants
  <2>2. IsFiniteSet(D) /\ Cardinality(D) <= M
    <3>1. D \in SUBSET Exporter
      OBVIOUS
    <3> QED BY <2>1, <3>1, FS_Subset
  <2>3. [e \in D |-> exporter[e].file] \in Surjection(D, C)
    BY DEF Surjection
  <2>4. IsFiniteSet(C) /\ Cardinality(C) <= Cardinality(D)
    BY <2>2, <2>3, FS_Surjection
  <2>5. Cardinality(C) \in Nat /\ Cardinality(D) \in Nat
    BY <2>2, <2>4, FS_CardinalityType
  <2> QED BY <2>1, <2>2, <2>4, <2>5
<1>5. Used = (A \cup B) \cup C
  BY DEF Used
<1>6. File = 1..(2 * N + M + 1)
  BY DEF File
<1> HIDE DEF N, M, A, B, C, D
<1>7. IsFiniteSet(File) /\ Cardinality(File) = 2 * N + M + 1 /\ File \in SUBSET Nat
  <2> DEFINE K == 2 * N + M + 1
  <2>1. K \in Int /\ ~(1 > K) /\ K - 1 + 1 = K
    BY <1>1, <1>4
  <2>2. File = 1..K
    BY <1>6
  <2> HIDE DEF K
  <2>3. IsFiniteSet(1..K) /\ Cardinality(1..K) = K - 1 + 1 /\ 1..K \in SUBSET Nat
    BY <2>1, FS_Interval
  <2> QED BY <2>1, <2>2, <2>3 DEF K
<1>8. ASSUME NEW S, NEW T, IsFiniteSet(S), IsFiniteSet(T)
      PROVE  /\ IsFiniteSet(S \cup T) /\ Cardinality(S \cup T) \in Nat
             /\ Cardinality(S \cup T) <= Cardinality(S) + Cardinality(T)
  <2>1. IsFiniteSet(S \cup T)
        /\ Cardinality(S \cup T) = Cardinality(S) + Cardinality(T) - Cardinality(S \cap T)
    BY <1>8, FS_Union
  <2>2. S \cap T \in SUBSET S
    OBVIOUS
  <2>3. IsFiniteSet(S \cap T)
    BY <1>8, <2>2, FS_Subset
  <2>4. Cardinality(S) \in Nat /\ Cardinality(T) \in Nat /\ Cardinality(S \cap T) \in Nat
        /\ Cardinality(S \cup T) \in Nat
    BY <1>8, <2>1, <2>3, FS_CardinalityType
  <2> QED BY <2>1, <2>4
<1>9. IsFiniteSet(Used) /\ Cardinality(Used) \in Nat /\ Cardinality(Used) <= 2 * N + M
  <2>1. IsFiniteSet(A \cup B) /\ Cardinality(A \cup B) \in Nat
        /\ Cardinality(A \cup B) <= Cardinality(A) + Cardinality(B)
    BY <1>2, <1>3, <1>8
  <2>2. IsFiniteSet((A \cup B) \cup C) /\ Cardinality((A \cup B) \cup C) \in Nat
        /\ Cardinality((A \cup B) \cup C) <= Cardinality(A \cup B) + Cardinality(C)
    BY <1>4, <1>8, <2>1
  <2>3. Cardinality(A) \in Nat /\ Cardinality(B) \in Nat /\ Cardinality(C) \in Nat
    BY <1>2, <1>3, <1>4, FS_CardinalityType
  <2> QED BY <1>1, <1>2, <1>3, <1>4, <1>5, <2>1, <2>2, <2>3
<1>10. File \ Used # {}
  <2> SUFFICES ASSUME File \subseteq Used PROVE FALSE
    OBVIOUS
  <2>1. Cardinality(File) <= Cardinality(Used)
    BY <1>9, FS_Subset
  <2> QED BY <1>1, <1>4, <1>7, <1>9, <2>1
<1>11. File \ Used \in SUBSET Nat /\ IsFiniteSet(File \ Used)
  <2>1. File \ Used \in SUBSET File
    OBVIOUS
  <2> QED BY <1>7, <2>1, FS_Subset
<1> QED BY <1>10, <1>11, LeastExists

(* The file that is created has no other name. *)
LEMMA CreatesFiles ==
  ASSUME ColdConstants, AtMostOne, ColdInv, FilesInv, NEW e \in Exporter, Creates(e)
  PROVE  FilesInv'
<1> DEFINE x == exporter[e]
           f == IF tmp[x.month] # 0 THEN tmp[x.month] ELSE Least(File \ Used)
<1>1. /\ x.at = "create" /\ x.at \in Working
      /\ tmp' = [tmp EXCEPT ![x.month] = f] /\ content' = [content EXCEPT ![f] = {}]
      /\ exporter'[e] = [x EXCEPT !.at = "write", !.file = f]
      /\ UNCHANGED <<moved, manifest, mark, target, sidecar>>
  BY Becoming DEF Creates, recorded, Working
<1>2. /\ x.month \in Month /\ DOMAIN x = {"at", "ready", "month", "rows", "file", "sha"}
      /\ Progress(x)
  BY <1>1, WorkingMonth
<1>3. /\ exporter'[e].at = "write" /\ exporter'[e].ready = x.ready
      /\ exporter'[e].month = x.month /\ exporter'[e].rows = x.rows /\ exporter'[e].file = f
  BY <1>1, <1>2
<1>4. NamesInv /\ RecordsInv /\ SealedFilesMatch
  BY DEF FilesInv
<1>5. /\ f \in File /\ f # 0
      /\ \A n \in Month : f # target[n] /\ (n # x.month => f # tmp[n])
  <2>1. CASE tmp[x.month] # 0
    BY <1>2, <1>4, <2>1 DEF NamesInv, Files
  <2>2. CASE tmp[x.month] = 0
    <3>1. f \in File \ Used
      BY <1>4, <2>2, FreeFile
    <3>2. \A n \in Month : tmp[n] \in Used /\ target[n] \in Used
      BY DEF Used
    <3>3. f # 0
      BY <3>1 DEF File
    <3> QED BY <3>1, <3>2, <3>3
  <2> QED BY <2>1, <2>2
<1> HIDE DEF f, x
<1>6. tmp \in Files /\ target \in Files /\ DOMAIN content = File
  BY <1>4 DEF NamesInv
<1>7. tmp'[x.month] = f /\ \A n \in Month : n # x.month => tmp'[n] = tmp[n]
  BY <1>1, <1>2, <1>6 DEF Files
<1>8. NamesInv'
  <2>1. tmp' \in Files /\ DOMAIN content' = File
    BY <1>1, <1>2, <1>5, <1>6 DEF Files
  <2> QED BY <1>1, <1>4, <1>5, <1>7, <2>1 DEF NamesInv
<1>9. RecordsInv'
  BY <1>1, <1>4 DEF RecordsInv, OfMonth
<1>10. SealedFilesMatch'
  <2>1. \A n \in Month : content'[target[n]] = content[target[n]]
    BY <1>1, <1>5
  <2> QED BY <1>1, <1>4, <2>1 DEF SealedFilesMatch
<1>11. Progress(exporter[e])'
  BY <1>1, <1>2, <1>3, <1>5, <1>7 DEF Progress, OfMonth, Working
<1>12. Tracked(exporter[e])'
  <2>1. exporter'[e].at \in Working
    BY <1>3 DEF Working
  <2> QED BY <1>1, <1>3, <1>11, <2>1, WorkingTracked DEF x
<1> QED BY <1>8, <1>9, <1>10, <1>12, Alone

\* What a step of exporter e leaves alone of what it knows of its month.
Same(e) ==
  /\ exporter'[e].ready = exporter[e].ready /\ exporter'[e].month = exporter[e].month
  /\ exporter'[e].rows = exporter[e].rows

LEMMA WritesFileFiles ==
  ASSUME ColdConstants, AtMostOne, ColdInv, FilesInv, NEW e \in Exporter, WritesFile(e)
  PROVE  FilesInv'
<1> DEFINE x == exporter[e]
<1>1. /\ x.at = "write" /\ x.at \in Working
      /\ content' = [content EXCEPT ![x.file] = x.rows]
      /\ exporter'[e] = [x EXCEPT !.at = "hash"]
      /\ UNCHANGED <<moved, manifest, mark, tmp, target, sidecar>>
  BY Becoming DEF WritesFile, Continues, recorded, Working
<1>2. /\ x.month \in Month /\ DOMAIN x = {"at", "ready", "month", "rows", "file", "sha"}
      /\ Progress(x)
  BY <1>1, WorkingMonth
<1>3. exporter'[e].at = "hash" /\ exporter'[e].at \in Working /\ Same(e)
  BY <1>1, <1>2 DEF Same, Working
<1>4. NamesInv /\ RecordsInv /\ SealedFilesMatch
  BY DEF FilesInv
<1> HIDE DEF x
<1>5. /\ x.file = tmp[x.month] /\ x.file # 0 /\ x.file \in File
      /\ \A n \in Month : x.file # target[n]
  BY <1>1, <1>2, <1>4 DEF Progress, NamesInv, Files
<1>6. NamesInv' /\ RecordsInv'
  BY <1>1, <1>4 DEF NamesInv, RecordsInv, OfMonth
<1>7. content'[x.file] = x.rows /\ \A n \in Month : content'[target[n]] = content[target[n]]
  BY <1>1, <1>4, <1>5 DEF NamesInv
<1>8. SealedFilesMatch'
  BY <1>1, <1>4, <1>7 DEF SealedFilesMatch
<1>9. Progress(exporter[e])'
  BY <1>1, <1>2, <1>3, <1>5, <1>7 DEF Progress, OfMonth, Same, x
<1>10. Tracked(exporter[e])'
  BY <1>1, <1>3, <1>9, WorkingTracked DEF Same, x
<1> QED BY <1>6, <1>8, <1>10, Alone

(* The checksum is that of the rows, which the verified file holds. *)
LEMMA HashesFiles ==
  ASSUME ColdConstants, AtMostOne, ColdInv, FilesInv, NEW e \in Exporter, Hashes(e)
  PROVE  FilesInv'
<1> DEFINE x == exporter[e]
<1>1. /\ x.at = "hash" /\ x.at \in Working
      /\ UNCHANGED <<tmp, target, content, sidecar, moved, manifest, mark>>
  BY DEF Hashes, recorded, files, Working
<1>2. /\ x.month \in Month /\ DOMAIN x = {"at", "ready", "month", "rows", "file", "sha"}
      /\ Progress(x)
  BY <1>1, WorkingMonth
<1>3. tmp[x.month] # 0 /\ content[tmp[x.month]] = x.rows
  BY <1>1, <1>2 DEF Progress
<1>4. exporter'[e] = [x EXCEPT !.at = "verify", !.sha = x.rows]
  BY <1>3, Becoming DEF Hashes
<1>5. /\ exporter'[e].at = "verify" /\ exporter'[e].at \in Working /\ Same(e)
      /\ exporter'[e].sha = x.rows
  BY <1>2, <1>4 DEF Same, Working
<1> HIDE DEF x
<1>6. Progress(exporter[e])'
  BY <1>1, <1>2, <1>3, <1>5 DEF Progress, OfMonth, Same, x
<1>7. Tracked(exporter[e])'
  BY <1>1, <1>5, <1>6, WorkingTracked DEF Same, x
<1> QED BY <1>1, <1>7, FilesStay, Alone

LEMMA VerifiesFiles ==
  ASSUME ColdConstants, AtMostOne, ColdInv, FilesInv, NEW e \in Exporter, Verifies(e)
  PROVE  FilesInv'
<1> DEFINE x == exporter[e]
<1>1. /\ x.at = "verify" /\ x.at \in Working
      /\ UNCHANGED <<tmp, target, content, sidecar, moved, manifest, mark>>
  BY DEF Verifies, recorded, files, Working
<1>2. /\ x.month \in Month /\ DOMAIN x = {"at", "ready", "month", "rows", "file", "sha"}
      /\ Progress(x)
  BY <1>1, WorkingMonth
<1>3. Quits(e) \/ exporter'[e] = [x EXCEPT !.at = "rename"]
  BY Becoming DEF Verifies, Continues
<1>4. ASSUME exporter'[e] = [x EXCEPT !.at = "rename"] PROVE Tracked(exporter[e])'
  <2>1. /\ exporter'[e].at = "rename" /\ exporter'[e].at \in Working /\ Same(e)
        /\ exporter'[e].sha = x.sha
    BY <1>2, <1>4 DEF Same, Working
  <2> HIDE DEF x
  <2>2. Progress(exporter[e])'
    BY <1>1, <1>2, <2>1 DEF Progress, OfMonth, Same, x
  <2> QED BY <1>1, <2>1, <2>2, WorkingTracked DEF Same, x
<1>5. Tracked(exporter[e])'
  BY <1>3, <1>4, QuitsTracked
<1> QED BY <1>1, <1>5, FilesStay, Alone

(* The published file is the verified one. *)
LEMMA RenamesFiles ==
  ASSUME ColdConstants, AtMostOne, ColdInv, FilesInv, NEW e \in Exporter, Renames(e)
  PROVE  FilesInv'
<1> DEFINE x == exporter[e]
<1>1. /\ x.at = "rename" /\ x.at \in Working
      /\ UNCHANGED <<content, sidecar, moved, manifest, mark>>
  BY DEF Renames, recorded, Working
<1>2. /\ x.month \in Month /\ DOMAIN x = {"at", "ready", "month", "rows", "file", "sha"}
      /\ Progress(x) /\ ~(x.month <= mark)
  BY <1>1, WorkingMonth
<1>3. tmp[x.month] # 0 /\ content[tmp[x.month]] = x.rows /\ x.sha = x.rows
  BY <1>1, <1>2 DEF Progress
<1>4. /\ target' = [target EXCEPT ![x.month] = tmp[x.month]]
      /\ tmp' = [tmp EXCEPT ![x.month] = 0]
      /\ exporter'[e] = [x EXCEPT !.at = "sidecar"]
  BY <1>3, Becoming DEF Renames, Continues
<1>5. /\ exporter'[e].at = "sidecar" /\ exporter'[e].at \in Working /\ Same(e)
      /\ exporter'[e].sha = x.sha
  BY <1>2, <1>4 DEF Same, Working
<1>6. NamesInv /\ RecordsInv /\ SealedFilesMatch
  BY DEF FilesInv
<1> HIDE DEF x
<1>7. /\ target'[x.month] = tmp[x.month] /\ tmp'[x.month] = 0
      /\ \A n \in Month : n # x.month => target'[n] = target[n] /\ tmp'[n] = tmp[n]
  BY <1>2, <1>4, <1>6 DEF NamesInv, Files
<1>8. tmp' \in Files /\ target' \in Files
  BY <1>2, <1>4, <1>6 DEF NamesInv, Files
<1>9. NamesInv'
  BY <1>1, <1>2, <1>3, <1>6, <1>7, <1>8 DEF NamesInv
<1>10. RecordsInv' /\ SealedFilesMatch'
  BY <1>1, <1>2, <1>6, <1>7 DEF RecordsInv, OfMonth, SealedFilesMatch
<1>11. Progress(exporter[e])'
  BY <1>1, <1>2, <1>3, <1>5, <1>7 DEF Progress, OfMonth, Same, x
<1>12. Tracked(exporter[e])'
  BY <1>1, <1>5, <1>11, WorkingTracked DEF Same, x
<1> QED BY <1>9, <1>10, <1>12, Alone

LEMMA WritesSidecarFiles ==
  ASSUME ColdConstants, AtMostOne, ColdInv, FilesInv, NEW e \in Exporter, WritesSidecar(e)
  PROVE  FilesInv'
<1> DEFINE x == exporter[e]
<1>1. /\ x.at = "sidecar" /\ x.at \in Working
      /\ sidecar' = [sidecar EXCEPT ![x.month] = x.sha]
      /\ exporter'[e] = [x EXCEPT !.at = "record"]
      /\ UNCHANGED <<tmp, target, content, moved, manifest, mark>>
  BY Becoming DEF WritesSidecar, Continues, recorded, Working
<1>2. /\ x.month \in Month /\ DOMAIN x = {"at", "ready", "month", "rows", "file", "sha"}
      /\ Progress(x) /\ ~(x.month <= mark)
  BY <1>1, WorkingMonth
<1>3. /\ exporter'[e].at = "record" /\ exporter'[e].at \in Working /\ Same(e)
      /\ exporter'[e].sha = x.sha
  BY <1>1, <1>2 DEF Same, Working
<1>4. NamesInv /\ RecordsInv /\ SealedFilesMatch
  BY DEF FilesInv
<1> HIDE DEF x
<1>5. /\ sidecar'[x.month] = x.sha /\ DOMAIN sidecar' = Month
      /\ \A n \in Month : n # x.month => sidecar'[n] = sidecar[n]
  BY <1>1, <1>2, <1>4 DEF NamesInv
<1>6. NamesInv' /\ RecordsInv'
  BY <1>1, <1>4, <1>5 DEF NamesInv, RecordsInv, OfMonth
<1>7. SealedFilesMatch'
  BY <1>1, <1>2, <1>4, <1>5 DEF SealedFilesMatch
<1>8. Progress(exporter[e])'
  BY <1>1, <1>2, <1>3, <1>5 DEF Progress, OfMonth, Same, x
<1>9. Tracked(exporter[e])'
  BY <1>1, <1>3, <1>8, WorkingTracked DEF Same, x
<1> QED BY <1>6, <1>7, <1>9, Alone

LEMMA RecordsFiles ==
  ASSUME ColdConstants, AtMostOne, ColdInv, FilesInv, NEW e \in Exporter, Records(e)
  PROVE  FilesInv'
<1> DEFINE x == exporter[e]
<1>1. /\ x.at = "record" /\ x.at \in Working
      /\ manifest' = [manifest EXCEPT ![x.month] = [rows |-> x.rows, sha |-> x.sha]]
      /\ exporter'[e] = [x EXCEPT !.at = "mark2"]
      /\ UNCHANGED <<tmp, target, content, sidecar, moved, mark>>
  BY Becoming DEF Records, Continues, recorded, files, Working
<1>2. /\ x.month \in Month /\ DOMAIN x = {"at", "ready", "month", "rows", "file", "sha"}
      /\ Progress(x) /\ ~(x.month <= mark) /\ DOMAIN manifest = Month
  BY <1>1, WorkingMonth DEF ColdInv, MarkInv
<1>3. /\ exporter'[e].at = "mark2" /\ exporter'[e].at \in Working /\ Same(e)
      /\ exporter'[e].sha = x.sha
  BY <1>1, <1>2 DEF Same, Working
<1>4. NamesInv /\ RecordsInv /\ SealedFilesMatch
  BY DEF FilesInv
<1> HIDE DEF x
<1>5. /\ manifest'[x.month].rows = x.rows /\ manifest'[x.month].sha = x.sha
      /\ \A n \in Month : n # x.month => manifest'[n] = manifest[n]
  BY <1>1, <1>2
<1>6. NamesInv' /\ SealedFilesMatch'
  BY <1>1, <1>2, <1>4, <1>5 DEF NamesInv, SealedFilesMatch
<1>7. RecordsInv'
  <2>1. x.rows \subseteq OfMonth(moved, x.month)
    BY <1>1, <1>2 DEF Progress
  <2> QED BY <1>1, <1>4, <1>5, <2>1 DEF RecordsInv, OfMonth
<1>8. Progress(exporter[e])'
  BY <1>1, <1>2, <1>3, <1>5 DEF Progress, OfMonth, Same, x
<1>9. Tracked(exporter[e])'
  BY <1>1, <1>3, <1>5, <1>8, WorkingTracked DEF Same, x
<1> QED BY <1>6, <1>7, <1>9, Alone

(* The watermark passes the month just recorded, and of those between only months of which
   nothing was recorded. *)
LEMMA MarksFiles ==
  ASSUME ColdConstants, AtMostOne, ColdInv, FilesInv, NEW e \in Exporter, Marks(e)
  PROVE  FilesInv'
<1> USE MonthsNat
<1> DEFINE x == exporter[e]
           z == exporter'[e]
<1>1. /\ x.at = "mark2" /\ x.at \in Working /\ mark' = x.month
      /\ z = [at |-> "read", ready |-> x.ready]
      /\ UNCHANGED <<tmp, target, content, sidecar, moved, manifest>>
  BY Becoming DEF Marks, recorded, files, Working
<1>2. Fine(x, now, timely, moved, manifest) /\ Unsealed(x) /\ Covers(x) /\ mark \in Nat
  BY DEF ColdInv, ExportersInv, MarkInv, FilesInv, Tracked
<1>3. x.month \in Month /\ Progress(x) /\ ~(x.month <= mark)
  BY <1>1, WorkingMonth
<1>4. NamesInv /\ RecordsInv /\ SealedFilesMatch
  BY DEF FilesInv
<1> HIDE DEF x, z
<1>5. /\ x.ready \in SUBSET Month /\ Listed(x) = x.ready \cup {x.month}
      /\ \A r \in x.ready : x.month < r
  BY <1>1, <1>2 DEF Fine, Known, Ordered, Listed, Working
<1>6. z.at = "read" /\ z.ready = x.ready /\ z.at \notin Working /\ Listed(z) = x.ready
  <2>1. z.at = "read" /\ z.ready = x.ready
    BY <1>1
  <2> QED BY <2>1 DEF Listed, Working
<1>7. NamesInv' /\ RecordsInv'
  BY <1>1, <1>4 DEF NamesInv, RecordsInv, OfMonth
<1>8. ASSUME NEW n \in Month, n <= x.month, manifest[n].rows # {} PROVE n <= mark \/ n = x.month
  <2>1. n \in Nat /\ x.month \in Nat
    BY <1>3
  <2>2. n \notin x.ready
    BY <1>5, <1>8, <2>1
  <2>3. n > mark => n \in Listed(x)
    BY <1>2, <1>3, <1>5, <1>8 DEF Covers
  <2> QED BY <1>2, <1>5, <2>1, <2>2, <2>3
<1>9. /\ target[x.month] # 0 /\ content[target[x.month]] = x.rows /\ x.sha = x.rows
      /\ sidecar[x.month] = x.sha /\ manifest[x.month].rows = x.rows
      /\ manifest[x.month].sha = x.sha
  BY <1>1, <1>3 DEF Progress
<1>10. SealedFilesMatch'
  BY <1>1, <1>4, <1>8, <1>9 DEF SealedFilesMatch
<1>11. \A m \in x.ready : m > x.month
  <2>1. x.month \in Nat /\ \A r \in x.ready : r \in Nat
    BY <1>3, <1>5
  <2> QED BY <1>5, <2>1
<1>12. ASSUME NEW m \in x.ready, NEW n \in Month, n <= m, n > x.month, manifest[n].rows # {}
       PROVE n \in x.ready
  <2>1. n \in Nat /\ x.month \in Nat
    BY <1>3
  <2>2. n > mark /\ n # x.month
    BY <1>2, <1>3, <1>12, <2>1
  <2> QED BY <1>2, <1>5, <1>12, <2>2 DEF Covers
<1>13. Tracked(exporter[e])'
  BY <1>1, <1>6, <1>11, <1>12 DEF Tracked, Unsealed, Covers, Progress, z
<1> QED BY <1>7, <1>10, <1>13, Alone

LEMMA DiesFiles ==
  ASSUME ColdConstants, AtMostOne, ColdInv, FilesInv, NEW e \in Exporter, Dies(e)
  PROVE  FilesInv'
<1> DEFINE m == exporter[e].month
<1>1. UNCHANGED <<tmp, target, content, moved, manifest, mark>>
  BY DEF Dies, recorded
<1>2. Tracked(exporter[e])'
  BY QuitsTracked DEF Dies
<1>3. CASE sidecar' = sidecar
  BY <1>1, <1>2, <1>3, FilesStay, Alone
<1>4. CASE exporter[e].at = "sidecar" /\ sidecar' = [sidecar EXCEPT ![m] = {}]
  <2>1. m \in Month /\ ~(m <= mark)
    BY <1>4, WorkingMonth DEF Working
  <2>2. NamesInv /\ RecordsInv /\ SealedFilesMatch
    BY DEF FilesInv
  <2> HIDE DEF m
  <2>3. DOMAIN sidecar' = Month /\ \A n \in Month : n # m => sidecar'[n] = sidecar[n]
    BY <1>4, <2>2 DEF NamesInv
  <2>4. NamesInv' /\ RecordsInv'
    BY <1>1, <2>2, <2>3 DEF NamesInv, RecordsInv, OfMonth
  <2>5. SealedFilesMatch'
    BY <1>1, <2>1, <2>2, <2>3 DEF SealedFilesMatch
  <2> QED BY <1>2, <2>4, <2>5, Alone
<1> QED BY <1>3, <1>4 DEF Dies

LEMMA FilesStep ==
  ASSUME ColdConstants, AtMostOne, ColdInv, FilesInv, [ColdNext]_coldVars
  PROVE  FilesInv'
<1>1. CASE UNCHANGED coldVars
  <2>1. UNCHANGED <<tmp, target, content, sidecar, moved, manifest, mark, exporter>>
    BY <1>1 DEF coldVars, files
  <2> QED BY <2>1 DEF FilesInv, NamesInv, RecordsInv, SealedFilesMatch, OfMonth, Tracked,
                      Unsealed, Covers, Progress
<1>2. CASE HourPasses \/ LateRow \/ MoveCopies \/ MoveDeletes
  BY <1>2, DatabaseFiles
<1>3. CASE PowerCut
  BY <1>3, PowerCutFiles
<1>4. ASSUME NEW e \in Exporter, ExportSteps(e) \/ Dies(e) PROVE FilesInv'
  BY <1>4, PlanningFiles, CreatesFiles, WritesFileFiles, HashesFiles, VerifiesFiles,
     RenamesFiles, WritesSidecarFiles, RecordsFiles, MarksFiles, DiesFiles DEF ExportSteps
<1> QED BY <1>1, <1>2, <1>3, <1>4 DEF ColdNext

LEMMA FilesInit == ColdConstants /\ ColdInit => FilesInv
<1> SUFFICES ASSUME ColdConstants, ColdInit PROVE FilesInv
  OBVIOUS
<1>1. NamesInv /\ RecordsInv /\ SealedFilesMatch
  BY DEF ColdInit, NamesInv, Files, RecordsInv, SealedFilesMatch
<1>2. ASSUME NEW e \in Exporter PROVE Tracked(exporter[e])
  <2>1. exporter[e].at = "idle" /\ "idle" \notin Working
    BY DEF ColdInit, Working
  <2>2. Listed(exporter[e]) = {}
    BY <2>1 DEF Listed
  <2> QED BY <2>1, <2>2 DEF Tracked, Unsealed, Covers, Progress
<1> QED BY <1>1, <1>2 DEF FilesInv

(* Where one exporter runs at a time, the file, the sidecar and the manifest row of every
   sealed month are of one export, wherever exports died and the power was cut (the order
   rename, sidecar, manifest, watermark of export_month). *)
THEOREM SealedFilesAgree ==
  ASSUME AtMostOne
  PROVE  ColdSpec => []SealedFilesMatch
<1>1. ColdInit => ColdInv /\ FilesInv
  BY ColdConstants, ColdInitInv, FilesInit
<1>2. ColdInv /\ FilesInv /\ [ColdNext]_coldVars => (ColdInv /\ FilesInv)'
  BY ColdConstants, AtMostOne, ColdStep, FilesStep
<1>3. ColdInv /\ FilesInv => SealedFilesMatch
  BY DEF FilesInv
<1> QED BY <1>1, <1>2, <1>3, PTL DEF ColdSpec

-----------------------------------------------------------------------------
(* Types and names of the files, for any number of exporters. *)

\* What an exporter holds of its month are hours.
HoursHeld(x) == x.at \in Working => x.rows \subseteq Hours /\ x.sha \subseteq Hours

ColdTyped ==
  /\ NamesInv
  /\ mark \in {0} \cup Month
  /\ manifest \in [Month -> [rows : SUBSET Hours, sha : SUBSET Hours]]
  /\ content \in [File -> SUBSET Hours] /\ sidecar \in [Month -> SUBSET Hours]
  /\ late \in 0..MaxLate /\ deaths \in 0..MaxDeaths
  /\ \A e \in Exporter : HoursHeld(exporter[e])

(* A step that touches the exporters only. *)
LEMMA HeldByOthers ==
  ASSUME ColdInv, NEW e \in Exporter, NEW y, Becomes(e, y), HoursHeld(y),
         \A d \in Exporter : HoursHeld(exporter[d])
  PROVE  \A d \in Exporter : HoursHeld(exporter'[d])
BY DEF ColdInv, ExportersInv, Becomes

LEMMA HeldAtWork ==
  ASSUME ColdInv, ColdTyped, NEW e \in Exporter, exporter[e].at \in Working
  PROVE  /\ exporter[e].rows \subseteq Hours /\ exporter[e].sha \subseteq Hours
         /\ exporter[e].month \in Month
         /\ DOMAIN exporter[e] = {"at", "ready", "month", "rows", "file", "sha"}
BY DEF ColdInv, ExportersInv, Fine, Known, ColdTyped, HoursHeld

LEMMA NotWorking ==
  /\ "idle" \notin Working /\ "months" \notin Working /\ "mark" \notin Working
  /\ "check" \notin Working /\ "read" \notin Working
BY DEF Working

(* An exporter takes hours from the archive, files and manifest from it. *)
LEMMA ColdTypedStep ==
  ASSUME ColdConstants, ColdInv, ColdTyped, [ColdNext]_coldVars
  PROVE  ColdTyped'
<1>0. /\ tmp \in Files /\ target \in Files /\ DOMAIN content = File /\ DOMAIN sidecar = Month
      /\ \A m, n \in Month :
           /\ tmp[m] # 0 => tmp[m] # target[n]
           /\ tmp[m] # 0 /\ m # n => tmp[m] # tmp[n]
           /\ target[m] # 0 /\ m # n => target[m] # target[n]
  BY DEF ColdTyped, NamesInv
<1>1. CASE UNCHANGED coldVars
  BY <1>1 DEF ColdTyped, NamesInv, coldVars, files, HoursHeld
<1>2. CASE HourPasses \/ MoveCopies \/ MoveDeletes \/ LateRow
  <2>1. /\ UNCHANGED <<mark, manifest, tmp, target, content, sidecar, exporter, deaths>>
        /\ (late' = late \/ (late < MaxLate /\ late' = late + 1))
    BY <1>2 DEF HourPasses, MoveCopies, MoveDeletes, LateRow, files
  <2>2. late' \in 0..MaxLate
    BY <2>1 DEF ColdTyped, ColdConstants
  <2> QED BY <2>1, <2>2 DEF ColdTyped, NamesInv, HoursHeld
<1>3. CASE PowerCut
  <2>1. /\ UNCHANGED <<manifest, tmp, target, content, sidecar, late>>
        /\ mark' \in {0} \cup Month /\ deaths < MaxDeaths /\ deaths' = deaths + 1
        /\ exporter' = [d \in Exporter |-> [at |-> "idle"]]
    BY <1>3 DEF PowerCut, files
  <2>2. deaths' \in 0..MaxDeaths
    BY <2>1 DEF ColdTyped, ColdConstants
  <2> QED BY <2>1, <2>2, NotWorking DEF ColdTyped, NamesInv, HoursHeld
<1>4. ASSUME NEW e \in Exporter, ExportSteps(e) \/ Dies(e)
      PROVE  ColdTyped'
  <2> DEFINE x == exporter[e]
  <2>1. \A y : Becomes(e, y) /\ HoursHeld(y) => \A d \in Exporter : HoursHeld(exporter'[d])
    BY HeldByOthers DEF ColdTyped
  <2>2. CASE Begins(e) \/ ReadsMonths(e) \/ ReadsMark(e) \/ Checks(e) \/ ReadsMonthRows(e)
             \/ Hashes(e) \/ Verifies(e) \/ Marks(e)
    <3>1. UNCHANGED <<manifest, tmp, target, content, sidecar, late, deaths>>
      BY <2>2 DEF Begins, ReadsMonths, ReadsMark, Checks, ReadsMonthRows, Hashes, Verifies, Marks,
                  recorded, files
    <3>2. mark' \in {0} \cup Month
      <4>1. x.at = "mark2" => x.month \in Month
        BY HeldAtWork DEF Working
      <4> QED BY <2>2, <4>1 DEF Begins, ReadsMonths, ReadsMark, Checks, ReadsMonthRows, Hashes,
                                Verifies, Marks, ColdTyped
    <3>3. HoursHeld([at |-> "idle"])
      BY NotWorking DEF HoursHeld
    <3>4. \A d \in Exporter : HoursHeld(exporter'[d])
      <4>1. CASE Begins(e) \/ ReadsMonths(e)
        <5>1. PICK y : Becomes(e, y) /\ y.at \in {"months", "mark"}
          BY <4>1 DEF Begins, ReadsMonths
        <5> QED BY <2>1, <5>1, NotWorking DEF HoursHeld
      <4>2. CASE ReadsMark(e) \/ Checks(e) \/ Marks(e)
        <5>1. PICK y : Becomes(e, y) /\ y.at \in {"check", "read"}
          BY <4>2 DEF ReadsMark, Checks, Marks, Ready
        <5> QED BY <2>1, <5>1, NotWorking DEF HoursHeld
      <4>3. CASE ReadsMonthRows(e)
        <5>1. moved \subseteq Hours
          BY DEF ColdInv, RowsInv
        <5>2. PICK y : Becomes(e, y) /\ (y.at \in {"idle", "read"}
                         \/ (y.rows \in {OfMonth(moved, m) : m \in {Least(x.ready)}} /\ y.sha = {}))
          BY <4>3 DEF ReadsMonthRows, Quits
        <5> QED BY <2>1, <5>1, <5>2, NotWorking DEF HoursHeld, OfMonth
      <4>4. CASE Hashes(e)
        <5>1. x.at \in Working /\ x.at = "hash"
          BY <4>4 DEF Hashes, Working
        <5>2. x.month \in Month /\ x.rows \subseteq Hours
              /\ DOMAIN x = {"at", "ready", "month", "rows", "file", "sha"}
          BY <5>1, HeldAtWork
        <5>3. tmp[x.month] # 0 => tmp[x.month] \in File /\ content[tmp[x.month]] \subseteq Hours
          BY <1>0, <5>2 DEF Files, ColdTyped
        <5>4. CASE tmp[x.month] = 0
          BY <2>1, <3>3, <4>4, <5>4 DEF Hashes, Quits
        <5>5. CASE tmp[x.month] # 0
          <6> DEFINE y == [x EXCEPT !.at = "verify", !.sha = content[tmp[x.month]]]
          <6>1. Becomes(e, y)
            BY <4>4, <5>5 DEF Hashes
          <6>2. y.rows = x.rows /\ y.sha = content[tmp[x.month]]
            BY <5>2
          <6> HIDE DEF y
          <6>3. HoursHeld(y)
            BY <5>2, <5>3, <5>5, <6>2 DEF HoursHeld
          <6> QED BY <2>1, <6>1, <6>3
        <5> QED BY <5>4, <5>5
      <4>5. CASE Verifies(e)
        <5>1. x.at \in Working
          BY <4>5 DEF Verifies, Working
        <5>2. x.rows \subseteq Hours /\ x.sha \subseteq Hours
              /\ DOMAIN x = {"at", "ready", "month", "rows", "file", "sha"}
          BY <5>1, HeldAtWork
        <5>3. [x EXCEPT !.at = "rename"].rows = x.rows /\ [x EXCEPT !.at = "rename"].sha = x.sha
          BY <5>2
        <5>4. HoursHeld([x EXCEPT !.at = "rename"])
          BY <5>2, <5>3 DEF HoursHeld
        <5>5. Becomes(e, [x EXCEPT !.at = "rename"]) \/ Becomes(e, [at |-> "idle"])
          BY <4>5 DEF Verifies, Continues, Quits
        <5> QED BY <2>1, <3>3, <5>4, <5>5
      <4> QED BY <2>2, <4>1, <4>2, <4>3, <4>4, <4>5
    <3> QED BY <3>1, <3>2, <3>4 DEF ColdTyped, NamesInv
  <2>3. CASE Creates(e) \/ WritesFile(e) \/ Renames(e) \/ WritesSidecar(e) \/ Records(e)
    <3>1. x.at \in Working
      BY <2>3 DEF Creates, WritesFile, Renames, WritesSidecar, Records, Working
    <3>2. /\ x.rows \subseteq Hours /\ x.sha \subseteq Hours /\ x.month \in Month
          /\ DOMAIN x = {"at", "ready", "month", "rows", "file", "sha"}
      BY <3>1, HeldAtWork
    <3>3. \A step : HoursHeld([x EXCEPT !.at = step])
                    /\ \A f : HoursHeld([x EXCEPT !.at = step, !.file = f])
      BY <3>2 DEF HoursHeld
    <3>4. HoursHeld([at |-> "idle"])
      BY NotWorking DEF HoursHeld
    <3>5. \A d \in Exporter : HoursHeld(exporter'[d])
      <4>1. \/ \E step : Becomes(e, [x EXCEPT !.at = step])
            \/ \E step, f : Becomes(e, [x EXCEPT !.at = step, !.file = f])
            \/ Becomes(e, [at |-> "idle"])
        BY <2>3 DEF Creates, WritesFile, Renames, WritesSidecar, Records, Continues, Quits
      <4> QED BY <2>1, <3>3, <3>4, <4>1
    <3>6. UNCHANGED <<mark, late, deaths>>
      BY <2>3 DEF Creates, WritesFile, Renames, WritesSidecar, Records, recorded
    <3> HIDE DEF x
    <3>7. CASE Creates(e)
      <4> DEFINE f == IF tmp[x.month] # 0 THEN tmp[x.month] ELSE Least(File \ Used)
      <4>1. /\ tmp' = [tmp EXCEPT ![x.month] = f] /\ content' = [content EXCEPT ![f] = {}]
            /\ UNCHANGED <<manifest, target, sidecar>>
        BY <3>7 DEF Creates, x
      <4>2. f \in File /\ \A n \in Month : f # target[n] /\ (n # x.month => f # tmp[n])
        <5>1. CASE tmp[x.month] # 0
          BY <1>0, <3>2, <5>1 DEF Files
        <5>2. CASE tmp[x.month] = 0
          <6>1. f \in File \ Used
            BY <5>2, FreeFile DEF ColdTyped
          <6>2. \A n \in Month : tmp[n] \in Used /\ target[n] \in Used
            BY DEF Used
          <6> QED BY <6>1, <6>2
        <5> QED BY <5>1, <5>2
      <4> HIDE DEF f
      <4>3. tmp'[x.month] = f /\ \A n \in Month : n # x.month => tmp'[n] = tmp[n]
        BY <1>0, <3>2, <4>1 DEF Files
      <4>4. tmp' \in Files /\ content' \in [File -> SUBSET Hours]
        BY <1>0, <4>1, <4>2 DEF Files, ColdTyped
      <4>5. NamesInv'
        BY <1>0, <3>2, <4>1, <4>2, <4>3, <4>4 DEF NamesInv
      <4> QED BY <3>5, <3>6, <4>1, <4>4, <4>5 DEF ColdTyped
    <3>8. CASE WritesFile(e)
      <4>1. /\ content' = [content EXCEPT ![x.file] = x.rows]
            /\ UNCHANGED <<manifest, tmp, target, sidecar>>
        BY <3>8 DEF WritesFile, x
      <4>2. content' \in [File -> SUBSET Hours]
        BY <3>2, <4>1 DEF ColdTyped
      <4> QED BY <1>0, <3>5, <3>6, <4>1, <4>2 DEF ColdTyped, NamesInv
    <3>9. CASE Renames(e)
      <4>1. UNCHANGED <<manifest, content, sidecar>>
        BY <3>9 DEF Renames
      <4>2. CASE tmp[x.month] = 0
        <5>1. UNCHANGED <<tmp, target>>
          BY <3>9, <4>2 DEF Renames, x
        <5> QED BY <1>0, <3>5, <3>6, <4>1, <5>1 DEF ColdTyped, NamesInv
      <4>3. CASE tmp[x.month] # 0
        <5>1. /\ target' = [target EXCEPT ![x.month] = tmp[x.month]]
              /\ tmp' = [tmp EXCEPT ![x.month] = 0]
          BY <3>9, <4>3 DEF Renames, x
        <5>2. tmp' \in Files /\ target' \in Files
          BY <1>0, <3>2, <5>1 DEF Files
        <5>3. /\ tmp'[x.month] = 0 /\ target'[x.month] = tmp[x.month]
              /\ \A n \in Month : n # x.month => tmp'[n] = tmp[n] /\ target'[n] = target[n]
          BY <1>0, <3>2, <5>1 DEF Files
        <5>4. NamesInv'
          BY <1>0, <3>2, <4>1, <5>2, <5>3 DEF NamesInv
        <5> QED BY <3>5, <3>6, <4>1, <5>4 DEF ColdTyped
      <4> QED BY <4>2, <4>3
    <3>10. CASE WritesSidecar(e)
      <4>1. /\ sidecar' = [sidecar EXCEPT ![x.month] = x.sha]
            /\ UNCHANGED <<manifest, tmp, target, content>>
        BY <3>10 DEF WritesSidecar, x
      <4>2. sidecar' \in [Month -> SUBSET Hours]
        BY <3>2, <4>1 DEF ColdTyped
      <4> QED BY <1>0, <3>5, <3>6, <4>1, <4>2 DEF ColdTyped, NamesInv
    <3>11. CASE Records(e)
      <4>1. /\ manifest' = [manifest EXCEPT ![x.month] = [rows |-> x.rows, sha |-> x.sha]]
            /\ UNCHANGED <<tmp, target, content, sidecar>>
        BY <3>11 DEF Records, files, x
      <4>2. [rows |-> x.rows, sha |-> x.sha] \in [rows : SUBSET Hours, sha : SUBSET Hours]
        BY <3>2
      <4>3. manifest' \in [Month -> [rows : SUBSET Hours, sha : SUBSET Hours]]
        BY <4>1, <4>2 DEF ColdTyped
      <4> QED BY <1>0, <3>5, <3>6, <4>1, <4>3 DEF ColdTyped, NamesInv
    <3> QED BY <2>3, <3>7, <3>8, <3>9, <3>10, <3>11
  <2>4. CASE Dies(e)
    <3>1. /\ UNCHANGED <<mark, manifest, tmp, target, content, late>>
          /\ deaths < MaxDeaths /\ deaths' = deaths + 1 /\ Becomes(e, [at |-> "idle"])
          /\ (sidecar' = sidecar \/ sidecar' = [sidecar EXCEPT ![exporter[e].month] = {}])
      BY <2>4 DEF Dies, Quits, recorded
    <3>2. deaths' \in 0..MaxDeaths
      BY <3>1 DEF ColdTyped, ColdConstants
    <3>3. sidecar' \in [Month -> SUBSET Hours]
      BY <3>1 DEF ColdTyped
    <3>4. HoursHeld([at |-> "idle"])
      BY NotWorking DEF HoursHeld
    <3>5. \A d \in Exporter : HoursHeld(exporter'[d])
      BY <2>1, <3>1, <3>4
    <3> QED BY <1>0, <3>1, <3>2, <3>3, <3>5 DEF ColdTyped, NamesInv
  <2> QED BY <1>4, <2>2, <2>3, <2>4 DEF ExportSteps
<1> QED BY <1>1, <1>2, <1>3, <1>4 DEF ColdNext

(* The types of the export, for any number of exporters; and no file has two names, so that *)
(* the next export of a month does not empty the file that was published for it or another. *)
THEOREM FilesHaveOneName == ColdSpec => []ColdTypeOK
<1>1. ColdInit => ColdInv /\ ColdTyped
  <2> SUFFICES ASSUME ColdInit PROVE ColdInv /\ ColdTyped
    OBVIOUS
  <2>1. tmp \in Files /\ target \in Files /\ content \in [File -> SUBSET Hours]
        /\ sidecar \in [Month -> SUBSET Hours]
        /\ manifest \in [Month -> [rows : SUBSET Hours, sha : SUBSET Hours]]
    BY DEF ColdInit, Files
  <2>2. late \in 0..MaxLate /\ deaths \in 0..MaxDeaths /\ mark = 0
    BY ColdConstants DEF ColdInit, ColdConstants
  <2>3. NamesInv
    BY <2>1 DEF ColdInit, NamesInv
  <2>4. \A e \in Exporter : HoursHeld(exporter[e])
    BY NotWorking DEF ColdInit, HoursHeld
  <2>5. ColdTyped
    BY <2>1, <2>2, <2>3, <2>4 DEF ColdTyped
  <2> QED BY <2>5, ColdConstants, ColdInitInv
<1>2. ColdInv /\ ColdTyped /\ [ColdNext]_coldVars => (ColdInv /\ ColdTyped)'
  BY ColdConstants, ColdStep, ColdTypedStep
<1>3. ColdInv /\ ColdTyped => ColdTypeOK
  BY DEF ColdInv, RowsInv, ExportersInv, Fine, Known, Locations, Working, ColdTyped, NamesInv, ColdTypeOK
<1> QED BY <1>1, <1>2, <1>3, PTL DEF ColdSpec
=============================================================================
