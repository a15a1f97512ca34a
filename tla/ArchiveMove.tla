---------------------------- MODULE ArchiveMove -----------------------------
(***************************************************************************)
(* The move of expired hours from the history database into               *)
(* history-archive.sqlite: move_expired_l4 in archive.rs, called by the    *)
(* maintenance tick, against inserts, failing statements and power cuts.   *)
(*                                                                         *)
(* A batch is copied in one transaction, verified, and deleted in another. *)
(* The move holds the pool's only connection, but another process          *)
(* (tinytop collect) can write between its statements; batches of ticks    *)
(* that overlap follow one another, so one mover stands for all.           *)
(*                                                                         *)
(* The database commits to a WAL that is not fsynced (synchronous =        *)
(* NORMAL): a power cut may undo its latest commits, in order.  The        *)
(* archive's commits are fsynced (FULL).                                   *)
(*                                                                         *)
(* Abstraction: a row is the set of samples its hour counts, {} when there *)
(* is none; two rows are equal in all 18 columns when those sets are.      *)
(* Time passes in hours.                                                   *)
(***************************************************************************)
EXTENDS Naturals, Sequences, FiniteSets

CONSTANTS Hour,        \* the hours recorded
          Sample,      \* the samples that can fall into one hour
          Keep,        \* l4.keepDays, in hours
          Lateness,    \* an hour's row is first written within this of its start
          Recreates,   \* whether a sample can be so late that its hour was moved
          BatchRows,   \* ARCHIVE_BATCH_ROWS
          MaxBatches,  \* MAX_ARCHIVE_BATCHES_PER_TICK
          WalSize,     \* commits in the WAL that its checkpoint brings to disk
          MaxClock, MaxMishaps   \* bounds

ASSUME ArchiveConstants ==
  /\ Hour \subseteq Nat /\ IsFiniteSet(Hour)
  /\ Keep \in Nat /\ Lateness \in 0..Keep
  /\ Recreates \in BOOLEAN
  /\ BatchRows \in Nat \ {0} /\ MaxBatches \in Nat \ {0} /\ WalSize \in Nat \ {0}
  /\ MaxClock \in Nat /\ MaxMishaps \in Nat

VARIABLES clock,
          log,      \* the database at its last checkpoint and after each commit since
          archive,  \* the archive's rows
          synced,   \* the archive's rows on disk
          insert,   \* the insert that is writing an hour's row
          move,     \* the tick that is moving hours
          mishaps   \* failures and power cuts so far

vars == <<clock, log, archive, synced, insert, move, mishaps>>

Rows == [Hour -> SUBSET Sample]
Database == [rows : Rows, moved : Nat]
NoInsert == [busy |-> FALSE]
Writing == [busy : {TRUE}, hour : Hour, held : SUBSET Sample, sample : Sample]
NoMove == [at |-> "idle", now |-> 0, left |-> 0, batch |-> {}]

TypeOK ==
  /\ clock \in Nat /\ mishaps \in Nat
  /\ log \in Seq(Database) /\ log # <<>>
  /\ archive \in Rows /\ synced \in Rows
  /\ insert \in {NoInsert} \cup Writing
  /\ move \in [at : {"idle", "open", "copy", "verify", "delete"}, now : Nat,
               left : 0..MaxBatches, batch : SUBSET Hour]

NoRows == [h \in Hour |-> {}]

Init ==
  /\ clock = 0 /\ mishaps = 0
  /\ log = <<[rows |-> NoRows, moved |-> 0]>>
  /\ archive = NoRows /\ synced = NoRows
  /\ insert = NoInsert
  /\ move = NoMove

-----------------------------------------------------------------------------
Last == log[Len(log)]
Present == {h \in Hour : Last.rows[h] # {}}

\* A commit goes into the WAL, or fills it so that it is checkpointed.
Commits(db) == log' = <<db>> \/ (Len(log) < WalSize /\ log' = Append(log, db))

Checkpoint ==
  /\ Len(log) > 1
  /\ log' = <<Last>>
  /\ UNCHANGED <<clock, archive, synced, insert, move, mishaps>>

ArchiveCommitsNormal(rows) ==   \* variant: the attached file is not set to FULL
  archive' = rows /\ UNCHANGED synced

ArchiveCommits(rows) == archive' = rows /\ synced' = rows

\* The promotion of an hour, or the refold of a late insert into it, reads the
\* row.  Where there is none, the hour is recent: the clock has not been wrong by
\* more than Lateness, unless Recreates.
Reads(h, s) ==
  /\ ~insert.busy
  /\ h < clock
  /\ h \in Present \/ h + Lateness >= clock \/ Recreates
  /\ s \notin Last.rows[h]
  /\ insert' = [busy |-> TRUE, hour |-> h, held |-> Last.rows[h], sample |-> s]
  /\ UNCHANGED <<clock, log, archive, synced, move, mishaps>>

\* Its upsert: the row it read with one more sample.
Writes ==
  /\ insert.busy
  /\ Commits([Last EXCEPT !.rows[insert.hour] = insert.held \cup {insert.sample}])
  /\ insert' = NoInsert
  /\ UNCHANGED <<clock, archive, synced, move, mishaps>>

-----------------------------------------------------------------------------
TickBegins ==
  /\ move.at = "idle"
  /\ move' = [at |-> "open", now |-> clock, left |-> MaxBatches, batch |-> {}]
  /\ UNCHANGED <<clock, log, archive, synced, insert, mishaps>>

\* ensure_archive_schema, then the database is attached on the pool's connection.
Opens ==
  /\ move.at = "open"
  /\ move' = [move EXCEPT !.at = "copy"]
  /\ UNCHANGED <<clock, log, archive, synced, insert, mishaps>>

Expired(h) == h + 1 + Keep <= move.now

Oldest(S) == {h \in S : Cardinality({g \in S : g < h}) < BatchRows}

\* INSERT OR REPLACE of the oldest expired rows; with none, the tick's move ends.
Copies ==
  /\ move.at = "copy"
  /\ LET batch == Oldest({h \in Present : Expired(h)})
     IN  IF batch = {}
         THEN move' = NoMove /\ UNCHANGED <<archive, synced>>
         ELSE /\ ArchiveCommits([h \in Hour |-> IF h \in batch THEN Last.rows[h]
                                                ELSE archive[h]])
              /\ move' = [move EXCEPT !.at = "verify", !.batch = batch]
  /\ UNCHANGED <<clock, log, insert, mishaps>>

\* BETWEEN min AND max of the batch.
Between(batch) == {h \in Hour : \E a, b \in batch : a <= h /\ h <= b}

ConfirmedInterval == {h \in Between(move.batch) : archive[h] # {}}   \* variant: ADR 0018

Confirmed == {h \in Between(move.batch) \cap Present : archive[h] # {}}

Verifies ==
  /\ move.at = "verify"
  /\ move' = IF Cardinality(Confirmed) = Cardinality(move.batch)
             THEN [move EXCEPT !.at = "delete"] ELSE NoMove
  /\ UNCHANGED <<clock, log, archive, synced, insert, mishaps>>

DeletableByKey ==   \* variant: the row need not equal its copy
  {h \in Between(move.batch) \cap Present : archive[h] # {}}

\* The rows that still equal their copy.
Deletable == {h \in Between(move.batch) \cap Present : Last.rows[h] = archive[h]}

EndOf(batch) == 1 + CHOOSE h \in batch : \A g \in batch : g <= h

MovedUntilAnyway(gone) ==   \* variant: a partial batch advances it too
  IF gone # {} THEN EndOf(move.batch) ELSE Last.moved

\* archiveMovedUntilMs advances when the whole batch went.
MovedUntil(gone) ==
  IF Cardinality(gone) = Cardinality(move.batch) THEN EndOf(move.batch) ELSE Last.moved

NextBatchUnbounded(gone) ==   \* variant: the batches of a tick are not bounded
  IF gone = {} THEN NoMove ELSE [move EXCEPT !.at = "open", !.left = @ - 1, !.batch = {}]

\* The next of the tick's batches, unless this one deleted nothing.
NextBatch(gone) ==
  IF gone = {} \/ move.left = 1 THEN NoMove
  ELSE [move EXCEPT !.at = "open", !.left = @ - 1, !.batch = {}]

Deletes ==
  /\ move.at = "delete"
  /\ Commits([rows |-> [h \in Hour |-> IF h \in Deletable THEN {} ELSE Last.rows[h]],
              moved |-> MovedUntil(Deletable)])
  /\ move' = NextBatch(Deletable)
  /\ UNCHANGED <<clock, archive, synced, insert, mishaps>>

-----------------------------------------------------------------------------
\* Any statement of the move fails; an open transaction is rolled back.
MoveFails ==
  /\ move.at # "idle" /\ mishaps < MaxMishaps
  /\ move' = NoMove
  /\ mishaps' = mishaps + 1
  /\ UNCHANGED <<clock, log, archive, synced, insert>>

\* Both files as the disk has them.  A killed process loses no commit: that is
\* the case in which the power cut undoes none.
PowerCut ==
  /\ mishaps < MaxMishaps
  /\ \E i \in 1..Len(log) : log' = <<log[i]>>
  /\ archive' = synced
  /\ insert' = NoInsert
  /\ move' = NoMove
  /\ mishaps' = mishaps + 1
  /\ UNCHANGED <<clock, synced>>

ClockTicks ==
  /\ clock < MaxClock
  /\ clock' = clock + 1
  /\ UNCHANGED <<log, archive, synced, insert, move, mishaps>>

Moves == TickBegins \/ Opens \/ Copies \/ Verifies \/ Deletes

Next ==
  \/ \E h \in Hour, s \in Sample : Reads(h, s)
  \/ Writes
  \/ Moves
  \/ Checkpoint \/ MoveFails \/ PowerCut \/ ClockTicks

\* The collection loop runs a tick every interval, and a tick runs to its end.
Spec == Init /\ [][Next]_vars /\ WF_vars(Moves)

-----------------------------------------------------------------------------
\* What a reader finds of each hour: the database's row, or the archive's.
Shown(db) == [h \in Hour |-> IF db.rows[h] # {} THEN db.rows[h] ELSE archive[h]]

AfterAnyPowerCut ==
  [h \in Hour |-> {s \in Sample : \A i \in 1..Len(log) : s \in Shown(log[i])[h]}]

KH == INSTANCE KeptHours WITH kept <- Shown(Last), durable <- AfterAnyPowerCut

\* Moving hours is invisible: no step of copy, verify and delete, in whatever order
\* it meets inserts, failures and power cuts, takes a sample from an hour, and what
\* would survive a power cut always will (copy before delete, full-row match and
\* fsynced copy of ADRs 0018 and 0019).
HoursKept == KH!Spec

\* archiveMovedUntilMs is set only by a delete that took every row of its batch:
\* equal counts in an interval that other rows share do mean equal sets.
MarkedWhenMoved ==
  [][mishaps' = mishaps /\ log'[Len(log')].moved # Last.moved =>
       \A h \in move.batch : h \in Present /\ log'[Len(log')].rows[h] = {}]_vars

\* One partial batch does not stop archiving: every row that has expired leaves the
\* database in the end, whatever fails or changes on the way.
ExpiredHoursMove ==
  \A h \in Hour : (h \in Present /\ h + 1 + Keep <= clock) ~> (h \notin Present)

\* The archive keeps what it was given, forever.
ArchivedForever == [][\A h \in Hour : archive[h] \subseteq archive'[h]]_vars
=============================================================================
