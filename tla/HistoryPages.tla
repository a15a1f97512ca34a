------------------------------ MODULE HistoryPages ------------------------------
(***************************************************************************)
(* The reads of the history that are functions of their query: which tier  *)
(* answers a request for points (resolve_history_point_source_with_poll),  *)
(* the pages of points, filesystems, GPUs and processes, and the markers.  *)
(* The handlers of writer.rs turn parameters into a query; lib.rs and      *)
(* archive.rs answer it.                                                   *)
(*                                                                         *)
(* An absent parameter is {}, a present one the set of it.  A bucket of a  *)
(* tier is its start and its first and newest capture (all the same for a  *)
(* raw sample); another row is its time and its place among the rows of    *)
(* that time.                                                              *)
(***************************************************************************)
EXTENDS Integers, FiniteSets

CONSTANTS DayLength, MinuteLength, FiveMinutes, HourLength,
          LargestPage,   \* 10,000
          DefaultPage,   \* DEFAULT_HISTORY_LIMIT
          DefaultMarkers, \* the page of markers when none is asked for, 250
          MostPages,     \* MAX_HISTORY_PAGE_COUNT of the dashboard
          DefaultWindow, \* DEFAULT_WINDOW_SECONDS
          SecondLength

ASSUME PageConstants ==
  {DayLength, MinuteLength, FiveMinutes, HourLength, LargestPage, DefaultPage, DefaultMarkers,
   MostPages, DefaultWindow, SecondLength}
    \subseteq Nat \ {0}

\* HistoryPointMode, from the finest to the coarsest.
Raw == 1
Rollup == 2
Rollup5m == 3
Rollup1h == 4
Archived == 5

Given(option, default) == IF option = {} THEN default ELSE CHOOSE x \in option : TRUE

Clamped(n) == IF n < 1 THEN 1 ELSE IF n > LargestPage THEN LargestPage ELSE n

Finest(S) == CHOOSE t \in S : \A u \in S : t <= u
Coarsest(S) == CHOOSE t \in S : \A u \in S : u <= t

-----------------------------------------------------------------------------
(* The tier that answers. *)

Resolution(tier, poll) ==
  CASE tier = Raw -> poll
    [] tier = Rollup -> MinuteLength
    [] tier = Rollup5m -> FiveMinutes
    [] OTHER -> HourLength

KeepDays(ladder, tier) ==
  CASE tier = Raw -> ladder.l1
    [] tier = Rollup -> ladder.l2
    [] tier = Rollup5m -> ladder.l3.keep
    [] OTHER -> ladder.l4.keep

Enabled(ladder) ==
  {Raw, Rollup} \cup (IF ladder.l3.enabled THEN {Rollup5m} ELSE {})
    \cup (IF ladder.l4.enabled THEN {Rollup1h} ELSE {})

\* Keeping an hour's row for 0 days keeps it for ever.
HoldsStart(ladder, tier, since, now) ==
  \/ tier = Rollup1h /\ ladder.l4.keep = 0
  \/ since >= now - KeepDays(ladder, tier) * DayLength

Holding(ladder, since, now) == {t \in Enabled(ladder) : HoldsStart(ladder, t, since, now)}

Length(since, until) == IF until < since THEN 0 ELSE until - since

Fits(tier, poll, length, limit) ==
  length \div Resolution(tier, IF poll < 1 THEN 1 ELSE poll) + 1 <= limit

\* The finest that holds the window's start and fits the page; else the coarsest that holds
\* it; else the archive, or the coarsest there is.
AutoTier(ladder, poll, now, since, until, limit) ==
  LET holding == Holding(ladder, since, now)
      fitting == {t \in holding : Fits(t, poll, Length(since, until), limit)}
  IN IF fitting # {} THEN Finest(fitting)
     ELSE IF holding # {} THEN Coarsest(holding)
     ELSE IF ladder.queryable THEN Archived
     ELSE Coarsest(Enabled(ladder))

PointsLimit(query) == Clamped(Given(query.limit, LargestPage))

Resolved(ladder, poll, now, query) ==
  IF query.source # {} THEN Given(query.source, Raw)
  ELSE AutoTier(ladder, poll, now, Given(query.since, now), Given(query.until, now), PointsLimit(query))

-----------------------------------------------------------------------------
(* Pages. *)

InWindow(at, query) ==
  /\ query.since = {} \/ at >= Given(query.since, at)
  /\ query.until = {} \/ at <= Given(query.until, at)

\* ORDER BY ... DESC LIMIT.
NewestTimes(times, limit) == {t \in times : Cardinality({u \in times : u > t}) < limit}
OldestTimes(times, limit) == {t \in times : Cardinality({u \in times : u < t}) < limit}

Before(q, r) == q.at < r.at \/ (q.at = r.at /\ q.key < r.key)
NewestRows(rows, limit) == {r \in rows : Cardinality({q \in rows : Before(r, q)}) < limit}

\* read_history_points with a resolved source: of the archive only while it is queryable.
Points(tiers, ladder, query, source) ==
  IF source = Archived /\ ~ladder.queryable THEN {}
  ELSE NewestTimes({t \in {b.newest : b \in tiers[source]} : InWindow(t, query)},
                   PointsLimit(query))

\* Of a query in seconds, at least one.
WindowLength(window) ==
  LET seconds == Given(window, DefaultWindow)
  IN (IF seconds < 1 THEN 1 ELSE seconds) * SecondLength

\* history_query, detail_history_query: the others keep what they are given.
PageQuery(params, now) ==
  [since |-> {Given(params.since, now - WindowLength(params.window))}, until |-> params.until,
   limit |-> {Clamped(Given(params.limit, DefaultPage))}]

DetailQuery(params) ==
  [since |-> params.since, until |-> params.until,
   limit |-> {Clamped(Given(params.limit, DefaultPage))}]

\* history_points_query; {} where the parameters are refused.
PointsQuery(params, now) ==
  IF (\E n \in params.limit : n < 1) \/ (\E s \in params.since, u \in params.until : s > u) THEN {}
  ELSE {[since |-> {Given(params.since, now - WindowLength(params.window))},
         until |-> params.until,
         limit |-> {Clamped(Given(params.limit, DefaultPage))}, source |-> params.source]}

\* history_points: the source is resolved from the settings as they were, the archive is read
\* by the settings as they are.
PointsAnswer(tiers, was, is, poll, now, query) ==
  LET source == Resolved(was, poll, now, query)
  IN [source |-> source, points |-> Points(tiers, is, query, source),
      available |-> source # Archived \/ was.queryable]

\* read_history_filesystems, read_history_gpus: rows, wherever a capture begins.
Page(rows, query, wanted) ==
  NewestRows({r \in rows : InWindow(r.at, query) /\ (wanted = {} \/ r.name \in wanted)},
             Clamped(Given(query.limit, DefaultPage)))

\* read_history_processes: whole captures of one of the two tables.
ProcessTable(fastKeep, query, now) ==
  IF \E s \in query.since : s >= now - fastKeep THEN "fast" ELSE "minute"

ProcessPage(rows, query) ==
  LET times == {r.at : r \in {p \in rows : InWindow(p.at, query)}}
  IN {r \in rows : r.at \in NewestTimes(times, Clamped(Given(query.limit, DefaultPage)))}

-----------------------------------------------------------------------------
(* The dashboard's pages of raw samples (fetchHistoryWindow).  Samples are stored and pruned *)
(* from one page to the next: tables[i] is what is stored when the i-th page is read.        *)

\* read_history: samples by their times, which differ.
SamplesPage(samples, query) ==
  NewestTimes({t \in samples : InWindow(t, query)}, Clamped(Given(query.limit, DefaultPage)))

FetchedPage(samples, since, until, limit) ==
  SamplesPage(samples, [since |-> {since}, until |-> {until}, limit |-> {limit}])

Oldest(page) == CHOOSE t \in page : \A u \in page : t <= u

\* A page that is not full, or reaches back to the start of the window, is the last.
HasMore(page, since, limit) == page # {} /\ Cardinality(page) >= limit /\ Oldest(page) > since

AskedUntil(pages, until, i) == IF i = 1 THEN until ELSE Oldest(pages[i - 1]) - 1

Answered(pages, tables, since, until, limit, i) ==
  pages[i] = FetchedPage(tables[i], since, AskedUntil(pages, until, i), limit)

\* A response that is not ok is taken as an empty page.
FetchesWindow(pages, tables, since, until, limit, n) ==
  /\ n <= MostPages
  /\ \A i \in 1..n : Answered(pages, tables, since, until, limit, i) \/ pages[i] = {}
  /\ \A i \in 1..n : i < n => HasMore(pages[i], since, limit)

-----------------------------------------------------------------------------
(* Markers. *)

\* read_coverage_gap_markers: between neighbours of the oldest samples of the window.  At
\* least two of them are read.
Gaps(samples, query, expected) ==
  LET asked == Given(query.limit, DefaultMarkers)
      read == OldestTimes({t \in samples : InWindow(t, query)},
                          IF asked < 2 THEN 2 ELSE Clamped(asked))
  IN {[from |-> g[1], at |-> g[2]] : g \in
        {p \in read \X read : /\ p[2] - p[1] > expected
                              /\ ~\E u \in read : p[1] < u /\ u < p[2]}}

\* read_history_markers: of the newest events and the gaps, the newest.  A gap comes after
\* the events of its time.
GapKey(events) == 1 + Cardinality(events)

Markers(events, samples, query, expected) ==
  LET limit == Clamped(Given(query.limit, DefaultMarkers))
      stored == NewestRows({e \in events : InWindow(e.at, query)}, limit)
      gaps == {[at |-> g.at, key |-> GapKey(events)] :
                 g \in IF expected <= 0 THEN {} ELSE Gaps(samples, query, expected)}
  IN NewestRows(stored \cup gaps, limit)

-----------------------------------------------------------------------------
(* What /api/history/coverage tells; {} where the read is refused. *)

Extent(times) ==
  [count |-> Cardinality(times), oldest |-> {t \in times : \A u \in times : t <= u},
   newest |-> {t \in times : \A u \in times : u <= t}]

\* An archive is {} while there is no file: its version, its objects, how many of them are
\* the three of the schema, its buckets and the lengths of its months' files.
Accepted(archive) == archive.version = 1 \/ (archive.version = 0 /\ archive.objects = 0)
Readable(archive) == archive.version = 1 /\ archive.required = 3
Buckets(archives) == UNION {a.buckets : a \in {b \in archives : Readable(b)}}
ColdFiles(archives) == UNION {a.files : a \in {b \in archives : Readable(b)}}

TierCoverage(tiers, ladder, flags, poll, tier) ==
  [enabled |-> CASE tier = Rollup5m -> Given(flags.l3, ladder.l3.enabled)
                 [] tier = Rollup1h -> Given(flags.l4, ladder.l4.enabled)
                 [] OTHER -> TRUE,
   keep |-> KeepDays(ladder, tier), resolution |-> Resolution(tier, poll),
   buckets |-> Extent({b.start : b \in tiers[tier]})]

\* file: its tiers, its sensors and when they were sampled, and the history_state it keeps.
HistoryCoverage(file, settings, archives) ==
  IF \E a \in archives : ~Accepted(a) THEN {}
  ELSE
    {[tiers |-> [t \in Raw..Rollup1h |->
                   TierCoverage(file.tiers, settings.ladder, file.state, settings.poll, t)],
      minutes |-> [oldest |-> Extent({b.first : b \in file.tiers[Rollup]}).oldest,
                   newest |-> Extent({b.newest : b \in file.tiers[Rollup]}).newest],
      thermal |-> IF settings.thermal \/ file.sensors # {} \/ file.sensed # {}
                  THEN {[enabled |-> settings.thermal, count |-> Cardinality(file.sensors),
                         times |-> Extent(file.sensed)]}
                  ELSE {},
      free |-> {p.free : p \in file.state.pressure},
      pressure |-> {p.since : p \in {q \in file.state.pressure : q.active}},
      checked |-> file.state.checked, until |-> file.state.month,
      archive |-> Extent({b.start : b \in Buckets(archives)}), files |-> ColdFiles(archives)]}
=============================================================================
