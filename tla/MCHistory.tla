------------------------------ MODULE MCHistory ------------------------------
EXTENDS SnapshotHistory, Migration, ColdExport, HistoryPages, TLC

CONSTANT Part   \* the component a behaviour is about; the others do not move
VARIABLE part

MCInstant == {1, 2, 4}
MCWindow == {<<1, 4>>, <<2, 4>>}
MCSnapshot ==
  {[identity |-> "host", devices |-> {"gpu"}, processes |-> <<"cc", "sh">>,
    filesystems |-> ("data" :> 1 @@ "home" :> 1)],
   [identity |-> "renamed", devices |-> {"fan"}, processes |-> <<"sh">>,
    filesystems |-> "data" :> 2]}

-----------------------------------------------------------------------------
(* Files of every version. *)

CONSTANTS a, b, p, q, j, root, usb

MCTime == 1..6
MCNone == [version |-> 0, tables |-> <<>>, samples |-> {}, mounts |-> {}, events |-> {},
           captures |-> {}]
Sample(t, payload) == [at |-> t, payload |-> payload, typed |-> "none"]
Proc(c, start) == [command |-> c, started |-> start, cpu |-> 0, memory |-> 0]
OneList(table, t, list) == [table |-> table, at |-> t, ranked |-> FALSE, list |-> list]
Texts == {OneList("minute", 1, <<Proc(a, "text"), Proc(b, "junk")>>),
          OneList("minute", 2, <<Proc(b, "none")>>)}
Numbers == {OneList("minute", 1, <<Proc(a, "ms"), Proc(b, "none")>>),
            OneList("fast", 2, <<Proc(b, "ms"), Proc(b, "ms")>>)}
LegacyTables == [metric_samples |-> {"json"}, process_samples |-> {"command", "started_at"},
                 metric_rollups_1m |-> {}, app_settings |-> {}, fs_samples |-> {}]

Old(v, kept, mounted, lists) ==
  [version |-> v, tables |-> IF v = 0 THEN LegacyTables ELSE Schema[v], samples |-> kept,
   mounts |-> mounted, events |-> {}, captures |-> lists]

MCOldFile ==
  {MCNone, Old(0, {}, {}, {}),
   [Old(5, {}, {}, {}) EXCEPT !.tables.process_samples_fast = ListV4 \cup {"swap_bytes"}],
   Old(0, {Sample(1, p), Sample(2, q)}, {[at |-> 1, mount |-> root], [at |-> 2, mount |-> root],
                                         [at |-> 1, mount |-> usb]}, Texts),
   Old(1, {Sample(1, "none"), Sample(2, j)}, {[at |-> 1, mount |-> usb], [at |-> 2, mount |-> root]}, Texts),
   Old(2, {Sample(2, p)}, {}, {OneList("fast", 2, <<Proc(a, "junk"), Proc(b, "text")>>)}),
   Old(3, {}, {}, {OneList("fast", 2, <<Proc(a, "text")>>)}),
   Old(4, {}, {}, Numbers), Old(5, {}, {}, Numbers),
   Old(5, {}, {}, {OneList("fast", 1, <<Proc(a, "ms"), Proc(a, "ms"), Proc(b, "ms")>>)})}

-----------------------------------------------------------------------------
MCMonths == [h \in 0..5 |-> <<1, 1, 2, 3, 3, 3>>[h + 1]]

(* The pages, against what the code does step by step, over small times. *)

Toggles(least) == [enabled : BOOLEAN, keep : least..2]
MCLadders == {l \in [l1 : 1..2, l2 : 1..2, l3 : Toggles(1), l4 : Toggles(0), queryable : BOOLEAN] :
                l.l1 <= l.l2 /\ l.l2 <= l.l3.keep}
MCNow == 30
MCSince == {0, 3, 6, 7, 14, 18, 19, 26, 29, 30, 31}
MCPages == {1, 2, 4, 6}

\* The loop over the candidates: from i, the coarsest that holds the start so far being c.
LoopFrom(l, since, limit) ==
  LET loop[i \in 1..5, c \in 0..4] ==
        IF i = 5 THEN IF c # 0 THEN c ELSE IF l.queryable THEN Archived
                      ELSE IF l.l4.enabled THEN Rollup1h ELSE IF l.l3.enabled THEN Rollup5m ELSE Rollup
        ELSE IF i \notin Enabled(l) \/ ~HoldsStart(l, i, since, MCNow) THEN loop[i + 1, c]
        ELSE IF Fits(i, 1, Length(since, MCNow), limit) THEN i ELSE loop[i + 1, i]
  IN loop[1, 0]

ASSUME AutoIsTheLoop ==
  \A l \in MCLadders, since \in MCSince, limit \in MCPages :
    AutoTier(l, 1, MCNow, since, MCNow, limit) = LoopFrom(l, since, limit)

\* The divisions that docs/sqlite-history-architecture.md gives (range / resolution <= limit)
\* leave one point more to the page than the code does.
ASSUME DocumentedPageIsLarger ==
  \E l \in MCLadders, since \in MCSince, limit \in MCPages :
    LET t == AutoTier(l, 1, MCNow, since, MCNow, limit)
    IN \E u \in Holding(l, since, MCNow) :
         u < t /\ Length(since, MCNow) \div Resolution(u, 1) <= limit

ASSUME PagesAreNewest ==
  \A rows \in SUBSET (1..5), limit \in 1..4 :
    LET page == NewestTimes(rows, limit)
    IN /\ Cardinality(page) = IF Cardinality(rows) < limit THEN Cardinality(rows) ELSE limit
       /\ \A out \in rows \ page, in \in page : out < in

\* The dashboard's loop, with samples that come and go from one page to the next: fetched
\* pages descend without a gap and, when the last page was not full, are the whole window.
ASSUME WindowPages ==
  \A t1, t2, t3 \in SUBSET (1..4), since \in {1, 2}, until \in {3, 4}, limit \in 1..2 :
    LET tables == <<t1, t2, t3>>
        page[i \in 1..3] == FetchedPage(tables[i], since, IF i = 1 THEN until ELSE Oldest(page[i - 1]) - 1, limit)
        more(i) == HasMore(page[i], since, limit)
        n == IF ~more(1) THEN 1 ELSE IF ~more(2) THEN 2 ELSE 3
        pages == [i \in 1..n |-> page[i]]
        shown == UNION {pages[i] : i \in 1..n}
        kept == {t \in since..until : \A i \in 1..n : t \in tables[i]}
    IN /\ FetchesWindow(pages, tables, since, until, limit, n)
       /\ \A i, k \in 1..n : i < k => \A t \in pages[i], u \in pages[k] : u < t
       /\ \A t \in kept, u \in shown : u <= t => t \in shown
       /\ ~more(n) => kept \subseteq shown

\* A gap that ends among the oldest samples of the window is marked, and a later one is not.
ASSUME GapsOfTheOldestSamples ==
  LET query == [since |-> {}, until |-> {}, limit |-> {2}]
  IN /\ Markers({}, {1, 5, 6}, query, 2) # {}
     /\ Markers({}, {1, 2, 6}, query, 2) = {}

-----------------------------------------------------------------------------
allVars == <<part, vars, migrationVars, coldVars>>

MCInit ==
  /\ part \in Part /\ Init /\ MigrationInit /\ ColdInit
  /\ (part # "migration" => file.version = 0 /\ file.tables = <<>>)

\* After a mishap a read has the tables to itself; what is written and pruned still interleaves.
ReadsAlone == reader.at # "idle" => Busy = 1

OfHistory(A) ==
  part = "history" /\ A /\ (mishaps' = 0 \/ ReadsAlone') /\ UNCHANGED <<part, migrationVars, coldVars>>
OfMigration(A) == part = "migration" /\ A /\ UNCHANGED <<part, vars, coldVars>>
OfCold(A) == part = "cold" /\ A /\ UNCHANGED <<part, vars, migrationVars>>

\* A migration and the bounded months come to an end.
Ends == part # "history" /\ UNCHANGED allVars

MCNext == OfHistory(Next) \/ OfMigration(MigrationNext) \/ OfCold(ColdNext) \/ Ends
MCSpec == MCInit /\ [][MCNext]_allVars
=============================================================================
