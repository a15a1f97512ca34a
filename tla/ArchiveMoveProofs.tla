-------------------------- MODULE ArchiveMoveProofs -------------------------
(***************************************************************************)
(* For any hours, samples, horizons, batch sizes and WAL sizes, and any    *)
(* number of failures and power cuts: the move of expired hours keeps its  *)
(* types and, when no sample comes so late that its hour was moved before, *)
(* implements KeptHours.                                                   *)
(***************************************************************************)
EXTENDS ArchiveMove, FiniteSetTheorems, WellFoundedInduction, TLAPS

\* A batch that is being verified or deleted has rows, and a tick has batches left.
BatchOK ==
  /\ move.at \in {"verify", "delete"} => move.batch # {}
  /\ move.at # "idle" => move.left > 0

TypeInv == TypeOK /\ BatchOK

\* What the archive has on disk is what it has committed.
Synced == synced = archive

\* Only hours that have expired are archived.
ArchivedExpired ==
  /\ move.now <= clock
  /\ \A h \in Hour : archive[h] # {} => h + 1 + Keep <= clock

\* The row an insert has read is still what its hour shows, wherever it is by now.
HeldShown == insert.busy => insert.held = Shown(Last)[insert.hour]

\* Cut back to any earlier state, the database shows nothing that it does not now.
CutBackShows ==
  \A i \in 1..Len(log), h \in Hour : Shown(log[i])[h] \subseteq Shown(Last)[h]

KeptInv == TypeInv /\ Synced /\ ArchivedExpired /\ HeldShown /\ CutBackShows

\* What is found of hour h in database db and archive a.
Found(db, a, h) == IF db.rows[h] # {} THEN db.rows[h] ELSE a[h]

-----------------------------------------------------------------------------
(* A finite set of hours that is not empty has a last one. *)
LEMMA LastHourExists ==
  ASSUME NEW S \in SUBSET Nat, IsFiniteSet(S), S # {}
  PROVE  \E h \in S : \A g \in S : g <= h
<1> DEFINE After(h) == {g \in S : h < g}
           T == {After(h) : h \in S}
<1>0. \A h \in S : After(h) \in SUBSET S /\ IsFiniteSet(After(h))
  <2>1. ASSUME NEW h \in S
        PROVE  IsFiniteSet(After(h))
    <3>1. After(h) \in SUBSET S
      OBVIOUS
    <3> QED BY <3>1, FS_Subset
  <2> QED BY <2>1
<1>1. T \subseteq FiniteSubsetsOf(S) /\ T # {}
  BY <1>0 DEF FiniteSubsetsOf
<1>2. PICK U \in T : \A V \in T : ~(<<V, U>> \in StrictSubsetOrdering(S))
  BY <1>1, FS_StrictSubsetOrderingWellFounded, WFMin
<1>3. PICK h \in S : U = After(h)
  BY <1>2
<1>4. ASSUME NEW g \in S, h < g
      PROVE  FALSE
  <2>1. After(g) \in T /\ After(g) \subseteq After(h)
    <3>1. g \in Nat /\ h \in Nat
      OBVIOUS
    <3>2. \A i \in S : g < i => h < i
      BY <1>4, <3>1
    <3> QED BY <3>2
  <2>2. g \in After(h) /\ g \notin After(g)
    BY <1>4
  <2>3. <<After(g), After(h)>> \in StrictSubsetOrdering(S)
    BY <2>1, <2>2 DEF StrictSubsetOrdering
  <2> QED BY <1>2, <1>3, <2>1, <2>3
<1> QED BY <1>4

LEMMA EndOfType ==
  ASSUME NEW S \in SUBSET Hour, S # {}
  PROVE  EndOf(S) \in Nat
<1>1. S \in SUBSET Nat /\ IsFiniteSet(S)
  BY ArchiveConstants, FS_Subset
<1>2. \E h \in S : \A g \in S : g <= h
  BY <1>1, LastHourExists
<1> DEFINE last == CHOOSE h \in S : \A g \in S : g <= h
<1>3. last \in S
  BY <1>2
<1>4. EndOf(S) = 1 + last
  BY DEF EndOf
<1> HIDE DEF last
<1> QED BY <1>1, <1>3, <1>4

-----------------------------------------------------------------------------
LEMMA InitType == Init => TypeInv
BY ArchiveConstants DEF Init, TypeInv, TypeOK, BatchOK, NoRows, Rows, Database, NoInsert, NoMove

LEMMA LastType ==
  ASSUME TypeOK
  PROVE  /\ Len(log) \in Nat /\ Len(log) > 0
         /\ Last \in Database /\ Last.rows \in Rows /\ Last.moved \in Nat
<1>1. Len(log) \in Nat /\ Len(log) > 0
  BY DEF TypeOK
<1>2. Last \in Database
  BY <1>1 DEF TypeOK, Last
<1> QED BY <1>1, <1>2 DEF Database

(* A commit is the database's last state, and what can be cut back to is its *)
(* last state or one that could be cut back to before.                       *)
LEMMA CommitLog ==
  ASSUME TypeOK, NEW db \in Database, Commits(db)
  PROVE  /\ log' \in Seq(Database) /\ log' # <<>>
         /\ Last' = db
         /\ \A i \in 1..Len(log') : log'[i] = db \/ \E j \in 1..Len(log) : log'[i] = log[j]
<1>0. log \in Seq(Database) /\ Len(log) \in Nat
  BY DEF TypeOK
<1>1. CASE log' = <<db>>
  BY <1>1 DEF Last
<1>2. CASE log' = Append(log, db)
  <2>1. /\ Len(log') = Len(log) + 1 /\ log'[Len(log) + 1] = db
        /\ \A i \in 1..Len(log) : log'[i] = log[i]
        /\ log' \in Seq(Database)
    BY <1>0, <1>2
  <2> QED BY <1>0, <2>1 DEF Last
<1> QED BY <1>1, <1>2 DEF Commits

LEMMA NextType == TypeInv /\ [Next]_vars => TypeInv'
<1> SUFFICES ASSUME TypeInv, [Next]_vars
             PROVE  TypeInv'
  OBVIOUS
<1> USE DEF TypeInv
<1>0. TypeOK /\ BatchOK
  OBVIOUS
<1>L. /\ Len(log) \in Nat /\ Len(log) > 0 /\ Last \in Database /\ Last.rows \in Rows
      /\ Last.moved \in Nat
  BY <1>0, LastType
<1>M. /\ NoMove.at = "idle" /\ NoMove.left = 0 /\ NoMove.now = 0 /\ NoMove.batch = {}
      /\ NoMove \in [at : {"idle", "open", "copy", "verify", "delete"}, now : Nat,
                     left : 0..MaxBatches, batch : SUBSET Hour]
  BY ArchiveConstants DEF NoMove
<1>B. move.left \in 0..MaxBatches /\ move.now \in Nat /\ MaxBatches \in Nat
      /\ move.batch \in SUBSET Hour
  BY ArchiveConstants DEF TypeOK
<1>1. ASSUME NEW h \in Hour, NEW s \in Sample, Reads(h, s)
      PROVE  TypeInv'
  <2>1. insert' \in Writing
    BY <1>1, <1>L DEF Reads, Writing, Rows
  <2> QED BY <1>0, <1>1, <2>1 DEF Reads, TypeOK, BatchOK
<1>2. CASE Writes
  <2>1. insert \in Writing
    BY <1>0, <1>2 DEF Writes, TypeOK, NoInsert
  <2>2. [Last EXCEPT !.rows[insert.hour] = insert.held \cup {insert.sample}] \in Database
    BY <2>1, <1>L DEF Writing, Database, Rows
  <2>3. log' \in Seq(Database) /\ log' # <<>>
    BY <1>0, <1>2, <2>2, CommitLog DEF Writes
  <2> QED BY <1>0, <1>2, <2>3 DEF Writes, TypeOK, BatchOK
<1>3. CASE TickBegins
  <2>1. move' = [at |-> "open", now |-> clock, left |-> MaxBatches, batch |-> {}]
        /\ clock \in Nat /\ MaxBatches \in 0..MaxBatches /\ MaxBatches > 0
    BY <1>0, <1>3, ArchiveConstants DEF TickBegins, TypeOK
  <2> QED BY <1>0, <1>3, <2>1 DEF TickBegins, TypeOK, BatchOK
<1>4. CASE Opens
  BY <1>0, <1>4, <1>B DEF Opens, TypeOK, BatchOK
<1>5. CASE Copies
  <2> DEFINE batch == Oldest({h \in Present : Expired(h)})
  <2>1. batch \in SUBSET Hour
    BY DEF Oldest, Present
  <2>2. CASE batch = {}
    BY <1>0, <1>5, <1>M, <2>2 DEF Copies, TypeOK, BatchOK
  <2>3. CASE batch # {}
    <3> DEFINE rows == [h \in Hour |-> IF h \in batch THEN Last.rows[h] ELSE archive[h]]
    <3>1. rows \in Rows
      BY <1>0, <1>L DEF TypeOK, Rows
    <3>2. /\ archive' = rows /\ synced' = rows
          /\ move' = [move EXCEPT !.at = "verify", !.batch = batch]
          /\ UNCHANGED <<clock, log, insert, mishaps>>
      BY <1>5, <2>3 DEF Copies, ArchiveCommits
    <3> HIDE DEF rows
    <3>3. move.at # "idle"
      BY <1>5 DEF Copies
    <3>4. move.left > 0
      BY <1>0, <3>3 DEF BatchOK
    <3> HIDE DEF batch
    <3>5. move'.batch = batch /\ move'.at = "verify" /\ move'.left = move.left
      BY <1>0, <3>2 DEF TypeOK
    <3>6. move' \in [at : {"idle", "open", "copy", "verify", "delete"}, now : Nat,
                     left : 0..MaxBatches, batch : SUBSET Hour]
      BY <1>0, <2>1, <3>2 DEF TypeOK
    <3>7. TypeOK'
      BY <1>0, <3>1, <3>2, <3>6 DEF TypeOK
    <3> QED BY <2>3, <3>4, <3>5, <3>7 DEF BatchOK
  <2> QED BY <2>2, <2>3
<1>6. CASE Verifies
  <2>1. CASE move' = NoMove
    BY <1>0, <1>6, <1>M, <2>1 DEF Verifies, TypeOK, BatchOK
  <2>2. CASE move' = [move EXCEPT !.at = "delete"]
    BY <1>0, <1>6, <1>B, <2>2 DEF Verifies, TypeOK, BatchOK
  <2> QED BY <1>6, <2>1, <2>2 DEF Verifies
<1>7. CASE Deletes
  <2> DEFINE gone == Deletable
  <2>1. move.batch # {} /\ move.left > 0
    BY <1>0, <1>7 DEF Deletes, BatchOK
  <2>2. MovedUntil(gone) \in Nat
    BY <1>L, <1>B, <2>1, EndOfType DEF MovedUntil
  <2>3. [h \in Hour |-> IF h \in gone THEN {} ELSE Last.rows[h]] \in Rows
    BY <1>L DEF Rows
  <2> HIDE DEF gone
  <2>4. log' \in Seq(Database) /\ log' # <<>>
    BY <1>0, <1>7, <2>2, <2>3, CommitLog DEF Deletes, Database, gone
  <2>5. CASE move' = NoMove
    BY <1>0, <1>7, <1>M, <2>4, <2>5 DEF Deletes, TypeOK, BatchOK
  <2>6. CASE move.left # 1 /\ move' = [move EXCEPT !.at = "open", !.left = @ - 1, !.batch = {}]
    <3>1. move.left - 1 \in 0..MaxBatches /\ move.left - 1 > 0
      BY <1>B, <2>1, <2>6
    <3>2. move' \in [at : {"idle", "open", "copy", "verify", "delete"}, now : Nat,
                     left : 0..MaxBatches, batch : SUBSET Hour]
      BY <1>0, <2>6, <3>1 DEF TypeOK
    <3>3. move'.at = "open" /\ move'.left = move.left - 1
      BY <1>0, <2>6 DEF TypeOK
    <3> QED BY <1>0, <1>7, <2>4, <3>1, <3>2, <3>3 DEF Deletes, TypeOK, BatchOK
  <2> QED BY <1>7, <2>5, <2>6 DEF Deletes, NextBatch, gone
<1>8. CASE Checkpoint
  BY <1>0, <1>8, <1>L DEF Checkpoint, TypeOK, BatchOK
<1>9. CASE MoveFails
  BY <1>0, <1>9, <1>M DEF MoveFails, TypeOK, BatchOK
<1>10. CASE PowerCut
  <2>1. PICK i \in 1..Len(log) : log' = <<log[i]>>
    BY <1>10 DEF PowerCut
  <2>2. log[i] \in Database
    BY <1>0, <2>1 DEF TypeOK
  <2> QED BY <1>0, <1>10, <1>M, <2>1, <2>2 DEF PowerCut, TypeOK, BatchOK
<1>11. CASE ClockTicks
  BY <1>0, <1>11 DEF ClockTicks, TypeOK, BatchOK
<1>12. CASE UNCHANGED vars
  BY <1>0, <1>12 DEF vars, TypeOK, BatchOK
<1> QED BY <1>1, <1>2, <1>3, <1>4, <1>5, <1>6, <1>7, <1>8, <1>9, <1>10, <1>11, <1>12
        DEF Next, Moves

(* The types of every variable; in particular the batches a tick has left never *)
(* pass zero (the loop of maintenance.rs:318) and the watermark is a time.      *)
THEOREM TypeCorrect == Spec => []TypeOK
<1>1. TypeInv => TypeOK
  BY DEF TypeInv
<1> QED BY InitType, NextType, <1>1, PTL DEF Spec

-----------------------------------------------------------------------------
LEMMA ShownFound ==
  ASSUME NEW h \in Hour
  PROVE  /\ \A db : Shown(db)[h] = Found(db, archive, h)
         /\ (Shown(Last)[h])' = Found(Last', archive', h)
         /\ \A i : (Shown(log[i])[h])' = Found(log'[i], archive', h)
BY DEF Shown, Found

LEMMA DurableFound ==
  ASSUME NEW h \in Hour
  PROVE  /\ AfterAnyPowerCut[h] = {s \in Sample : \A i \in 1..Len(log) : s \in Found(log[i], archive, h)}
         /\ AfterAnyPowerCut'[h] = {s \in Sample : \A i \in 1..Len(log') : s \in Found(log'[i], archive', h)}
BY DEF AfterAnyPowerCut, Shown, Found

LEMMA DurableWithin ==
  ASSUME TypeOK
  PROVE  KH!Within(AfterAnyPowerCut, Shown(Last))
<1>1. Len(log) \in 1..Len(log) /\ Last = log[Len(log)]
  BY LastType DEF Last
<1> QED BY <1>1, ShownFound, DurableFound DEF KH!Within

LEMMA DurableWithinNext ==
  ASSUME TypeOK'
  PROVE  KH!Within(AfterAnyPowerCut', Shown(Last)')
<1>1. log' \in Seq(Database) /\ log' # <<>> /\ Last' = log'[Len(log')]
  BY DEF TypeOK, Last
<1>2. Len(log') \in 1..Len(log')
  BY <1>1
<1> QED BY <1>1, <1>2, ShownFound, DurableFound DEF KH!Within

(* What would survive a power cut still does when each of the states that can be *)
(* cut back to shows what some state did before, or all that the last did.       *)
LEMMA DurableGrows ==
  ASSUME TypeOK, TypeOK',
         \A i \in 1..Len(log'), h \in Hour :
           \/ Found(Last, archive, h) \subseteq Found(log'[i], archive', h)
           \/ \E j \in 1..Len(log) : Found(log[j], archive, h) \subseteq Found(log'[i], archive', h)
  PROVE  KH!Within(AfterAnyPowerCut, AfterAnyPowerCut')
<1>1. Len(log) \in 1..Len(log) /\ Last = log[Len(log)]
  BY LastType DEF Last
<1>2. \A i \in 1..Len(log'), h \in Hour : \E j \in 1..Len(log) :
        Found(log[j], archive, h) \subseteq Found(log'[i], archive', h)
  BY <1>1
<1> QED BY <1>2, DurableFound DEF KH!Within

(* A commit to the database of a state that shows at least as much as the last. *)
LEMMA CommitKeeps ==
  ASSUME KeptInv, TypeOK', NEW db \in Database, Commits(db), archive' = archive,
         \A h \in Hour : Found(Last, archive, h) \subseteq Found(db, archive, h)
  PROVE  /\ Last' = db
         /\ CutBackShows'
         /\ KH!Within(AfterAnyPowerCut, AfterAnyPowerCut')
<1>0. TypeOK
  BY DEF KeptInv, TypeInv
<1>1. /\ Last' = db
      /\ \A i \in 1..Len(log') : log'[i] = db \/ \E j \in 1..Len(log) : log'[i] = log[j]
  BY <1>0, CommitLog
<1>2. \A j \in 1..Len(log), h \in Hour : Found(log[j], archive, h) \subseteq Found(Last, archive, h)
  BY ShownFound DEF KeptInv, CutBackShows
<1>3. \A i \in 1..Len(log'), h \in Hour : Found(log'[i], archive', h) \subseteq Found(Last', archive', h)
  BY <1>1, <1>2
<1>4. CutBackShows'
  BY <1>3, ShownFound DEF CutBackShows
<1>5. \A i \in 1..Len(log'), h \in Hour :
        \/ Found(Last, archive, h) \subseteq Found(log'[i], archive', h)
        \/ \E j \in 1..Len(log) : Found(log[j], archive, h) \subseteq Found(log'[i], archive', h)
  BY <1>1
<1> QED BY <1>0, <1>1, <1>4, <1>5, DurableGrows

-----------------------------------------------------------------------------
KeptNext == [KH!Next]_<<Shown(Last), AfterAnyPowerCut>>

LEMMA InitKept == Init => KeptInv /\ KH!Init
<1> SUFFICES ASSUME Init
             PROVE  KeptInv /\ KH!Init
  OBVIOUS
<1>1. /\ log = <<[rows |-> NoRows, moved |-> 0]>> /\ Len(log) = 1
      /\ Last = [rows |-> NoRows, moved |-> 0] /\ log[1] = Last
      /\ archive = NoRows /\ synced = NoRows
  BY DEF Init, Last
<1>2. \A h \in Hour : Found(Last, archive, h) = {}
  BY <1>1 DEF Found, NoRows
<1>3. Shown(Last) = NoRows
  BY <1>2, ShownFound DEF Shown, NoRows
<1>4. AfterAnyPowerCut = NoRows
  <2>1. \A h \in Hour : AfterAnyPowerCut[h] = {}
    BY <1>1, <1>2, DurableFound
  <2> QED BY <2>1 DEF AfterAnyPowerCut, NoRows
<1>5. Synced /\ ArchivedExpired /\ HeldShown
  BY <1>1 DEF Init, Synced, ArchivedExpired, HeldShown, NoRows, NoInsert, NoMove
<1>6. CutBackShows
  BY <1>1 DEF CutBackShows
<1> QED BY <1>3, <1>4, <1>5, <1>6, InitType DEF KeptInv, KH!Init, NoRows

(* Steps that leave both files alone. *)
LEMMA FilesSame ==
  ASSUME KeptInv, UNCHANGED <<log, archive, synced>>
  PROVE  /\ Synced' /\ CutBackShows'
         /\ UNCHANGED <<Shown(Last), AfterAnyPowerCut>>
BY DEF KeptInv, Synced, CutBackShows, Shown, Last, AfterAnyPowerCut

LEMMA ReadsStep ==
  ASSUME ~Recreates, KeptInv, NEW h \in Hour, NEW s \in Sample, Reads(h, s)
  PROVE  ArchivedExpired' /\ HeldShown'
<1>1. ArchivedExpired'
  BY DEF KeptInv, ArchivedExpired, Reads
<1>2. insert'.held = Last.rows[h] /\ insert'.hour = h
      /\ UNCHANGED <<clock, log, archive>>
  BY DEF Reads
<1>3. Last.rows[h] = Found(Last, archive, h)
  <2>1. CASE h \in Present
    BY <2>1 DEF Present, Found
  <2>2. CASE h \notin Present
    <3>1. Last.rows[h] = {} /\ h + Lateness >= clock
      BY <2>2 DEF Present, Reads
    <3>2. h \in Nat /\ clock \in Nat /\ Keep \in Nat /\ Lateness \in Nat /\ Lateness <= Keep
      BY ArchiveConstants DEF KeptInv, TypeInv, TypeOK
    <3>3. ~(h + 1 + Keep <= clock)
      BY <3>1, <3>2
    <3>4. archive[h] = {}
      BY <3>3 DEF KeptInv, ArchivedExpired
    <3> QED BY <3>1, <3>4 DEF Found
  <2> QED BY <2>1, <2>2
<1>4. HeldShown'
  BY <1>2, <1>3, ShownFound DEF HeldShown, Last, Found, Shown
<1> QED BY <1>1, <1>4

LEMMA WritesStep ==
  ASSUME KeptInv, TypeOK', Writes
  PROVE  Synced' /\ ArchivedExpired' /\ HeldShown' /\ CutBackShows' /\ KeptNext
<1> DEFINE g == insert.hour
           t == insert.sample
           db == [Last EXCEPT !.rows[g] = insert.held \cup {t}]
<1>0. TypeOK /\ Last \in Database /\ Last.rows \in Rows
  BY LastType DEF KeptInv, TypeInv
<1>1. insert \in Writing
  BY <1>0 DEF Writes, TypeOK, NoInsert
<1>2. g \in Hour /\ t \in Sample /\ insert.held \in SUBSET Sample
  BY <1>1 DEF Writing
<1>3. db \in Database
  BY <1>0, <1>2 DEF Database, Rows
<1>4. Commits(db) /\ archive' = archive /\ synced' = synced
  BY DEF Writes
<1>5. insert.held = Found(Last, archive, g)
  BY <1>1, <1>2, ShownFound DEF KeptInv, HeldShown, Writing
<1>6. \A h \in Hour : db.rows[h] = IF h = g THEN insert.held \cup {t} ELSE Last.rows[h]
  BY <1>0 DEF Database, Rows
<1>7. \A h \in Hour : Found(db, archive, h) = IF h = g THEN Found(Last, archive, h) \cup {t}
                                              ELSE Found(Last, archive, h)
  BY <1>2, <1>5, <1>6 DEF Found
<1> HIDE DEF db
<1>8. /\ Last' = db /\ CutBackShows'
      /\ KH!Within(AfterAnyPowerCut, AfterAnyPowerCut')
  BY <1>3, <1>4, <1>7, CommitKeeps
<1>9. Shown(Last)' = [Shown(Last) EXCEPT ![g] = @ \cup {t}]
  <2>1. \A h \in Hour : (Shown(Last)[h])' = IF h = g THEN Shown(Last)[h] \cup {t} ELSE Shown(Last)[h]
    BY <1>4, <1>7, <1>8, ShownFound
  <2>2. Shown(Last)' = [h \in Hour |-> (Shown(Last)[h])']
    BY DEF Shown
  <2>3. Shown(Last)' = [h \in Hour |-> IF h = g THEN Shown(Last)[h] \cup {t} ELSE Shown(Last)[h]]
    BY <2>1, <2>2
  <2>4. Shown(Last) = [h \in Hour |-> Shown(Last)[h]]
    BY DEF Shown
  <2> HIDE DEF g, t
  <2> QED BY <1>2, <2>3, <2>4
<1>10. KH!Record(g, t)
  BY <1>8, <1>9, DurableWithinNext DEF KH!Record
<1>11. HeldShown' /\ Synced' /\ ArchivedExpired'
  BY <1>4 DEF Writes, HeldShown, NoInsert, KeptInv, Synced, ArchivedExpired
<1> QED BY <1>2, <1>8, <1>10, <1>11 DEF KeptNext, KH!Next

LEMMA CopiesStep ==
  ASSUME KeptInv, TypeOK', Copies
  PROVE  Synced' /\ ArchivedExpired' /\ HeldShown' /\ CutBackShows' /\ KeptNext
<1> DEFINE batch == Oldest({h \in Present : Expired(h)})
<1>0. TypeOK /\ Last \in Database /\ Last.rows \in Rows
  BY LastType DEF KeptInv, TypeInv
<1>1. UNCHANGED <<clock, log, insert>> /\ Last' = Last
  BY DEF Copies, Last
<1>2. batch \subseteq Hour /\ \A h \in batch : Last.rows[h] # {} /\ h + 1 + Keep <= move.now
  BY DEF Oldest, Present, Expired
<1>3. CASE batch = {}
  <2>1. UNCHANGED <<log, archive, synced>> /\ move' = NoMove
    BY <1>1, <1>3 DEF Copies
  <2>2. HeldShown'
    BY <1>1, <2>1, FilesSame DEF KeptInv, HeldShown, Shown
  <2>3. ArchivedExpired'
    BY <1>0, <1>1, <2>1 DEF KeptInv, ArchivedExpired, NoMove, TypeOK
  <2> QED BY <2>1, <2>2, <2>3, FilesSame DEF KeptNext
<1>4. CASE batch # {}
  <2>1. /\ archive' = [h \in Hour |-> IF h \in batch THEN Last.rows[h] ELSE archive[h]]
        /\ synced' = archive' /\ move'.now = move.now
    BY <1>0, <1>4 DEF Copies, ArchiveCommits, TypeOK
  <2> HIDE DEF batch
  <2>2. \A h \in Hour : Found(Last, archive', h) = Found(Last, archive, h)
    BY <1>2, <2>1 DEF Found
  <2>3. \A i \in 1..Len(log), h \in Hour :
          \/ Found(log[i], archive', h) = Found(log[i], archive, h)
          \/ Found(log[i], archive', h) = Found(Last, archive, h)
    BY <1>2, <2>1 DEF Found
  <2>4. Shown(Last)' = Shown(Last)
    BY <1>1, <2>2 DEF Shown, Found
  <2>5. CutBackShows'
    <3>1. \A i \in 1..Len(log), h \in Hour : Found(log[i], archive, h) \subseteq Found(Last, archive, h)
      BY ShownFound DEF KeptInv, CutBackShows
    <3>2. \A i \in 1..Len(log'), h \in Hour : Found(log'[i], archive', h) \subseteq Found(Last', archive', h)
      BY <1>1, <2>2, <2>3, <3>1
    <3> QED BY <3>2, ShownFound DEF CutBackShows
  <2>6. KH!Within(AfterAnyPowerCut, AfterAnyPowerCut')
    <3>1. \A i \in 1..Len(log'), h \in Hour :
           \/ Found(Last, archive, h) \subseteq Found(log'[i], archive', h)
           \/ \E j \in 1..Len(log) : Found(log[j], archive, h) \subseteq Found(log'[i], archive', h)
      BY <1>1, <2>3
    <3> QED BY <1>0, <3>1, DurableGrows
  <2>7. KH!Within(AfterAnyPowerCut', Shown(Last))
    BY <2>4, DurableWithinNext
  <2>8. HeldShown' /\ Synced'
    BY <1>1, <2>1, <2>4 DEF KeptInv, HeldShown, Synced
  <2>9. ArchivedExpired'
    <3>1. move.now <= clock /\ move.now \in Nat /\ clock \in Nat /\ Keep \in Nat
          /\ Hour \subseteq Nat
      BY <1>0, ArchiveConstants DEF KeptInv, ArchivedExpired, TypeOK
    <3>2. \A h \in batch : h \in Nat /\ h + 1 + Keep <= clock
      BY <1>2, <3>1
    <3> QED BY <1>1, <2>1, <3>1, <3>2 DEF KeptInv, ArchivedExpired
  <2> QED BY <2>4, <2>5, <2>6, <2>7, <2>8, <2>9 DEF KeptNext, KH!Next, KH!Flush
<1> QED BY <1>3, <1>4

LEMMA DeletesStep ==
  ASSUME KeptInv, TypeInv', Deletes
  PROVE  Synced' /\ ArchivedExpired' /\ HeldShown' /\ CutBackShows' /\ KeptNext
<1> DEFINE db == [rows |-> [h \in Hour |-> IF h \in Deletable THEN {} ELSE Last.rows[h]],
                  moved |-> MovedUntil(Deletable)]
<1>0. TypeOK /\ TypeOK' /\ Last \in Database /\ Last.rows \in Rows /\ Last.moved \in Nat
  BY LastType DEF KeptInv, TypeInv
<1>1. Commits(db) /\ UNCHANGED <<clock, archive, synced, insert>>
  BY DEF Deletes
<1>2. db \in Database
  <2>1. move.batch # {} /\ move.batch \in SUBSET Hour
    BY <1>0 DEF Deletes, KeptInv, TypeInv, BatchOK, TypeOK
  <2>2. MovedUntil(Deletable) \in Nat
    BY <1>0, <2>1, EndOfType DEF MovedUntil
  <2> QED BY <1>0, <2>2 DEF Database, Rows
<1>3. \A h \in Deletable : Last.rows[h] = archive[h]
  BY DEF Deletable
<1>4. \A h \in Hour : Found(db, archive, h) = Found(Last, archive, h)
  BY <1>3 DEF Found
<1> HIDE DEF db
<1>5. /\ Last' = db /\ CutBackShows'
      /\ KH!Within(AfterAnyPowerCut, AfterAnyPowerCut')
  BY <1>0, <1>1, <1>2, <1>4, CommitKeeps
<1>6. Shown(Last)' = Shown(Last)
  BY <1>1, <1>4, <1>5 DEF Shown, Found
<1>7. HeldShown' /\ Synced'
  BY <1>1, <1>6 DEF KeptInv, HeldShown, Synced
<1>8. move'.now <= clock
  <2>1. move' = NoMove \/ move'.now = move.now
    BY <1>0 DEF Deletes, NextBatch, TypeOK
  <2> QED BY <1>0, <2>1 DEF NoMove, TypeOK, KeptInv, ArchivedExpired
<1>9. ArchivedExpired'
  BY <1>1, <1>8 DEF KeptInv, ArchivedExpired
<1>10. KH!Within(AfterAnyPowerCut', Shown(Last))
  BY <1>0, <1>6, DurableWithinNext
<1> QED BY <1>5, <1>6, <1>7, <1>9, <1>10 DEF KeptNext, KH!Next, KH!Flush

LEMMA CheckpointStep ==
  ASSUME KeptInv, TypeOK', Checkpoint
  PROVE  Synced' /\ ArchivedExpired' /\ HeldShown' /\ CutBackShows' /\ KeptNext
<1>0. TypeOK
  BY DEF KeptInv, TypeInv
<1>1. log' = <<Last>> /\ Last' = Last /\ UNCHANGED <<clock, archive, synced, insert, move>>
  BY DEF Checkpoint, Last
<1>2. Shown(Last)' = Shown(Last)
  BY <1>1 DEF Shown
<1>3. \A i \in 1..Len(log') : log'[i] = Last
  BY <1>1
<1>4. KH!Within(AfterAnyPowerCut, AfterAnyPowerCut')
  BY <1>0, <1>1, <1>3, DurableGrows
<1>5. KH!Within(AfterAnyPowerCut', Shown(Last))
  BY <1>2, DurableWithinNext
<1>6. CutBackShows'
  BY <1>1, <1>3, ShownFound DEF CutBackShows
<1>7. HeldShown' /\ Synced' /\ ArchivedExpired'
  BY <1>1, <1>2 DEF KeptInv, HeldShown, Synced, ArchivedExpired
<1> QED BY <1>2, <1>4, <1>5, <1>6, <1>7 DEF KeptNext, KH!Next, KH!Flush

LEMMA PowerCutStep ==
  ASSUME KeptInv, TypeOK', PowerCut
  PROVE  Synced' /\ ArchivedExpired' /\ HeldShown' /\ CutBackShows' /\ KeptNext
<1>0. TypeOK
  BY DEF KeptInv, TypeInv
<1>1. PICK i \in 1..Len(log) : log' = <<log[i]>>
  BY DEF PowerCut
<1>2. archive' = archive /\ synced' = synced /\ clock' = clock /\ move' = NoMove
      /\ insert' = NoInsert
  BY DEF PowerCut, KeptInv, Synced
<1>3. Last' = log[i] /\ \A j \in 1..Len(log') : log'[j] = log[i]
  BY <1>1 DEF Last
<1>4. Len(log') = 1 /\ log'[1] = log[i]
  BY <1>1
<1>5. KH!Within(Shown(Last)', Shown(Last))
  <2>1. \A h \in Hour : Found(log[i], archive, h) \subseteq Found(Last, archive, h)
    BY ShownFound DEF KeptInv, CutBackShows
  <2> QED BY <1>2, <1>3, <2>1, ShownFound DEF KH!Within
<1>6. KH!Within(AfterAnyPowerCut, AfterAnyPowerCut')
  BY <1>0, <1>2, <1>3, DurableGrows
<1>7. AfterAnyPowerCut' = Shown(Last)'
  <2>1. \A h \in Hour : Found(Last', archive', h) \subseteq Sample
    <3>1. log[i] \in Database /\ archive \in Rows
      BY <1>0 DEF TypeOK
    <3> QED BY <1>2, <1>3, <3>1 DEF Database, Rows, Found
  <2>2. ASSUME NEW h \in Hour
        PROVE  AfterAnyPowerCut'[h] = Found(Last', archive', h)
    <3>1. AfterAnyPowerCut'[h]
            = {s \in Sample : \A j \in 1..Len(log') : s \in Found(log'[j], archive', h)}
      BY DurableFound
    <3>2. \A s \in Sample : (\A j \in 1..Len(log') : s \in Found(log'[j], archive', h))
                            <=> s \in Found(Last', archive', h)
      BY <1>3, <1>4
    <3> QED BY <2>1, <3>1, <3>2
  <2>3. \A h \in Hour : AfterAnyPowerCut'[h] = (Shown(Last)[h])'
    BY <2>2, ShownFound
  <2> QED BY <2>3 DEF AfterAnyPowerCut, Shown
<1>8. CutBackShows'
  BY <1>3, ShownFound DEF CutBackShows
<1>9. HeldShown' /\ Synced' /\ ArchivedExpired'
  BY <1>0, <1>2 DEF KeptInv, HeldShown, Synced, ArchivedExpired, NoInsert, NoMove, TypeOK
<1> QED BY <1>5, <1>6, <1>7, <1>8, <1>9 DEF KeptNext, KH!Next, KH!PowerCut

(* Steps of the tick and the clock that touch neither file nor insert. *)
LEMMA OtherSteps ==
  ASSUME KeptInv, TickBegins \/ Opens \/ Verifies \/ MoveFails \/ ClockTicks \/ UNCHANGED vars
  PROVE  Synced' /\ ArchivedExpired' /\ HeldShown' /\ CutBackShows' /\ KeptNext
<1>0. TypeOK
  BY DEF KeptInv, TypeInv
<1>1. UNCHANGED <<log, archive, synced, insert>>
  BY DEF TickBegins, Opens, Verifies, MoveFails, ClockTicks, vars
<1>2. Synced' /\ CutBackShows' /\ UNCHANGED <<Shown(Last), AfterAnyPowerCut>>
  BY <1>1, FilesSame
<1>3. HeldShown'
  BY <1>1, <1>2 DEF KeptInv, HeldShown
<1>4. clock' \in Nat /\ clock' >= clock /\ clock \in Nat
  BY <1>0 DEF TypeOK, TickBegins, Opens, Verifies, MoveFails, ClockTicks, vars
<1>5. move'.now = move.now \/ move'.now = clock \/ move'.now = 0
  <2>1. CASE TickBegins
    BY <2>1 DEF TickBegins
  <2>2. CASE Opens
    BY <1>0, <2>2 DEF Opens, TypeOK
  <2>3. CASE Verifies
    BY <1>0, <2>3 DEF Verifies, TypeOK, NoMove
  <2>4. CASE MoveFails
    BY <2>4 DEF MoveFails, NoMove
  <2>5. CASE ClockTicks \/ UNCHANGED vars
    BY <2>5 DEF ClockTicks, vars
  <2> QED BY <2>1, <2>2, <2>3, <2>4, <2>5
<1>6. move.now \in Nat /\ move.now <= clock /\ Keep \in Nat /\ Hour \subseteq Nat
  BY <1>0, ArchiveConstants DEF TypeOK, KeptInv, ArchivedExpired
<1>7. move'.now <= clock'
  BY <1>4, <1>5, <1>6
<1>8. \A h \in Hour : h + 1 + Keep <= clock => h + 1 + Keep <= clock'
  BY <1>4, <1>6
<1>9. ArchivedExpired'
  BY <1>1, <1>7, <1>8 DEF KeptInv, ArchivedExpired
<1> QED BY <1>2, <1>3, <1>9 DEF KeptNext

LEMMA StepKept == ASSUME ~Recreates PROVE KeptInv /\ [Next]_vars => KeptInv' /\ KeptNext
<1> SUFFICES ASSUME KeptInv, [Next]_vars
             PROVE  KeptInv' /\ KeptNext
  OBVIOUS
<1>0. TypeInv' /\ TypeOK'
  BY NextType DEF KeptInv, TypeInv
<1>1. ASSUME NEW h \in Hour, NEW s \in Sample, Reads(h, s)
      PROVE  KeptInv' /\ KeptNext
  <2>1. UNCHANGED <<log, archive, synced>>
    BY <1>1 DEF Reads
  <2> QED BY <1>0, <1>1, <2>1, FilesSame, ReadsStep DEF KeptInv, KeptNext
<1>2. CASE Writes
  BY <1>0, <1>2, WritesStep DEF KeptInv
<1>3. CASE Copies
  BY <1>0, <1>3, CopiesStep DEF KeptInv
<1>4. CASE Deletes
  BY <1>0, <1>4, DeletesStep DEF KeptInv
<1>5. CASE Checkpoint
  BY <1>0, <1>5, CheckpointStep DEF KeptInv
<1>6. CASE PowerCut
  BY <1>0, <1>6, PowerCutStep DEF KeptInv
<1>7. CASE TickBegins \/ Opens \/ Verifies \/ MoveFails \/ ClockTicks \/ UNCHANGED vars
  BY <1>0, <1>7, OtherSteps DEF KeptInv
<1> QED BY <1>1, <1>2, <1>3, <1>4, <1>5, <1>6, <1>7 DEF Next, Moves

(* What every state keeps true: an archived hour has expired, an insert holds *)
(* what its hour shows, and no cut back state shows more than the last.       *)
THEOREM KeptInvariant == ASSUME ~Recreates PROVE Spec => []KeptInv
<1>1. Init => KeptInv
  BY InitKept
<1>2. KeptInv /\ [Next]_vars => KeptInv'
  BY StepKept
<1> QED BY <1>1, <1>2, PTL DEF Spec

(* ADRs 0018 and 0019: copying before deleting, deleting only rows equal to    *)
(* their copy and fsyncing the copy make the move invisible.  No hour loses a  *)
(* sample, at any statement, failure or power cut, and what would survive a    *)
(* power cut always will (archive.rs:1158 to 1317).                            *)
THEOREM MoveKeepsHours == ASSUME ~Recreates PROVE Spec => HoursKept
<1>1. Init => KH!Init
  BY InitKept
<1>2. KeptInv /\ [Next]_vars => [KH!Next]_<<Shown(Last), AfterAnyPowerCut>>
  BY StepKept DEF KeptNext
<1> QED BY <1>1, <1>2, KeptInvariant, PTL DEF Spec, HoursKept, KH!Spec

=============================================================================
