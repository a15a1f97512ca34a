------------------------------ MODULE ColdExport ------------------------------
(***************************************************************************)
(* The monthly export of the queryable archive: export_cold_months in      *)
(* archive.rs, called once an hour by the daemon and by db archive         *)
(* export-now, beside the move that fills the archive (ArchiveMove).       *)
(*                                                                         *)
(* An exporter reads which months there are, drops those that are sealed,  *)
(* too young or not moved whole, and writes each of the others: temporary  *)
(* file, hash, verification, rename, sidecar, manifest row, watermark.  It *)
(* may die or fail between any two of these; every exporter of a month     *)
(* uses the same names.                                                    *)
(*                                                                         *)
(* Abstraction: a row is its hour, the content of a file the hours it      *)
(* holds ({} while it is not whole), a checksum that content.  Time passes *)
(* in hours.  The archive's directory and the ladder do not change.        *)
(***************************************************************************)
EXTENDS Naturals, FiniteSets

CONSTANTS Exporter,    \* the daemon's loop and command lines
          MaxHour,     \* bound: the last hour
          MonthOf,     \* the UTC month of each hour
          Off,         \* hours in which the machine may be off
          ArchiveKeep, \* l4.keepDays, in hours
          Day,         \* the day added to it
          ColdAfter,   \* archive.coldAfterMonths
          MaxMonths,   \* MAX_COLD_MONTHS_PER_PASS
          BatchHours,  \* rows of one batch of the move
          MaxLate, MaxDeaths  \* bounds

Hours == 0..MaxHour

ASSUME ColdConstants ==
  /\ MaxHour \in Nat /\ Off \subseteq Hours /\ MonthOf \in [Hours -> Nat \ {0}]
  /\ \A g, h \in Hours : g < h => MonthOf[g] <= MonthOf[h]
  /\ ArchiveKeep \in Nat /\ Day \in Nat /\ ColdAfter \in Nat \ {0}
  /\ IsFiniteSet(Exporter)
  /\ MaxMonths \in Nat \ {0} /\ BatchHours \in Nat \ {0} /\ MaxLate \in Nat /\ MaxDeaths \in Nat

Month == {MonthOf[h] : h \in Hours}

VARIABLES now,       \* the clock
          main,      \* metric_rollups_1h of the database
          moved,     \* metric_rollups_1h of the archive
          batch,     \* the rows that the move has copied and not yet deleted
          mark,      \* coldExportedUntilMonth, 0 for none
          manifest,  \* archive_manifest: rows counted and checksum of each month
          tmp, target,  \* the file each name of a month leads to, 0 for none
          content,   \* what a file holds
          sidecar,   \* the checksum beside a target
          exporter,
          timely,    \* history: the hours recorded in time
          late, deaths

coldVars == <<now, main, moved, batch, mark, manifest, tmp, target, content, sidecar, exporter,
              timely, late, deaths>>

files == <<tmp, target, content, sidecar>>
recorded == <<main, moved, batch, timely, late>>

OfMonth(rows, m) == {h \in rows : MonthOf[h] = m}
Least(S) == CHOOSE x \in S : \A y \in S : x <= y
Greatest(S) == CHOOSE x \in S : \A y \in S : y <= x
Lowest(S, n) == {x \in S : Cardinality({y \in S : y < x}) < n}

\* Two names per month, and a handle per exporter.
File == 1..(2 * Cardinality(Month) + Cardinality(Exporter) + 1)

ColdInit ==
  /\ now = 0 /\ main = {} /\ moved = {} /\ batch = {} /\ mark = 0
  /\ manifest = [m \in Month |-> [rows |-> {}, sha |-> {}]]
  /\ tmp = [m \in Month |-> 0] /\ target = [m \in Month |-> 0]
  /\ content = [f \in File |-> {}] /\ sidecar = [m \in Month |-> {}]
  /\ exporter = [e \in Exporter |-> [at |-> "idle"]]
  /\ timely = {} /\ late = 0 /\ deaths = 0

-----------------------------------------------------------------------------
(* The rows. *)

\* An hour passes; its row is written unless nothing was sampled.
HourPasses ==
  /\ now < MaxHour
  /\ now' = now + 1
  /\ \/ main' = main \cup {now} /\ timely' = timely \cup {now}
     \/ now \in Off /\ UNCHANGED <<main, timely>>
  /\ UNCHANGED <<moved, batch, mark, manifest, files, exporter, late, deaths>>

\* A sample arrives for an hour that has no row, or no longer.
LateRow ==
  /\ late < MaxLate
  /\ \E h \in Hours : h < now /\ h \notin main /\ main' = main \cup {h}
  /\ late' = late + 1
  /\ UNCHANGED <<now, moved, batch, mark, manifest, files, exporter, timely, deaths>>

\* ArchiveMove's Copies and Deletes: the oldest expired rows are copied, and then those
\* deleted that are still as they were.
MoveCopies ==
  /\ batch = {}
  /\ batch' = Lowest({h \in main : h + 1 + ArchiveKeep <= now}, BatchHours) /\ batch' # {}
  /\ moved' = moved \cup batch'
  /\ UNCHANGED <<now, main, mark, manifest, files, exporter, timely, late, deaths>>

MoveDeletes ==
  /\ batch # {}
  /\ \E changed \in SUBSET batch : main' = main \ (batch \ changed)
  /\ batch' = {}
  /\ UNCHANGED <<now, moved, mark, manifest, files, exporter, timely, late, deaths>>

-----------------------------------------------------------------------------
(* An exporter: which months. *)

Becomes(e, x) == exporter' = [exporter EXCEPT ![e] = x]
Quits(e) == Becomes(e, [at |-> "idle"])

\* The loop's tick, or export-now, where settings ask for it.
Begins(e) ==
  /\ exporter[e].at = "idle"
  /\ Becomes(e, [at |-> "months", now |-> now])
  /\ UNCHANGED <<now, recorded, mark, manifest, files, deaths>>

ReadsMonths(e) ==
  /\ exporter[e].at = "months"
  /\ Becomes(e, [at |-> "mark", now |-> exporter[e].now, present |-> {MonthOf[h] : h \in moved}])
  /\ UNCHANGED <<now, recorded, mark, manifest, files, deaths>>

\* exportable_months: old enough, every hour of it expired, not sealed.
Exportable(present, t) ==
  {m \in present : /\ m + ColdAfter <= MonthOf[t]
                   /\ m > mark
                   /\ \A h \in Hours : MonthOf[h] = m => h + 1 + ArchiveKeep + Day <= t}

ReadsMark(e) ==
  /\ exporter[e].at = "mark"
  /\ Becomes(e, [at |-> "check", ready |-> {},
                 todo |-> Lowest(Exportable(exporter[e].present, exporter[e].now), MaxMonths)])
  /\ UNCHANGED <<now, recorded, mark, manifest, files, deaths>>

ReadyUnchecked(todo, ready) ==   \* variant: rows left in the database are not looked for
  [at |-> "check", todo |-> todo \ {Least(todo)}, ready |-> ready \cup {Least(todo)}]

\* months_ready_to_export: up to the first month that has rows in the database.
Ready(todo, ready) ==
  IF OfMonth(main, Least(todo)) # {} THEN [at |-> "check", todo |-> {}, ready |-> ready]
  ELSE [at |-> "check", todo |-> todo \ {Least(todo)}, ready |-> ready \cup {Least(todo)}]

Checks(e) ==
  /\ exporter[e].at = "check"
  /\ IF exporter[e].todo = {} THEN Becomes(e, [at |-> "read", ready |-> exporter[e].ready])
     ELSE Becomes(e, Ready(exporter[e].todo, exporter[e].ready))
  /\ UNCHANGED <<now, recorded, mark, manifest, files, deaths>>

-----------------------------------------------------------------------------
(* An exporter: one month. *)

\* What it knows of the month until that is sealed.
Continues(e, x, step) == Becomes(e, [x EXCEPT !.at = step])

ReadsMonthRows(e) ==
  /\ exporter[e].at = "read"
  /\ LET ready == exporter[e].ready
         m == Least(ready)
         rows == OfMonth(moved, m)
     IN IF ready = {} THEN Quits(e)
        ELSE IF rows = {} THEN Becomes(e, [at |-> "read", ready |-> ready \ {m}])
        ELSE Becomes(e, [at |-> "create", ready |-> ready \ {m}, month |-> m, rows |-> rows,
                         file |-> 0, sha |-> {}])
  /\ UNCHANGED <<now, recorded, mark, manifest, files, deaths>>

Used == {tmp[m] : m \in Month} \cup {target[m] : m \in Month}
          \cup {exporter[e].file : e \in {d \in Exporter : exporter[d].at = "write"}}

\* File::create: the file of that name is emptied, or there is a new one.
Creates(e) ==
  /\ exporter[e].at = "create"
  /\ LET x == exporter[e]
         f == IF tmp[x.month] # 0 THEN tmp[x.month] ELSE Least(File \ Used)
     IN /\ tmp' = [tmp EXCEPT ![x.month] = f]
        /\ content' = [content EXCEPT ![f] = {}]
        /\ Becomes(e, [x EXCEPT !.at = "write", !.file = f])
  /\ UNCHANGED <<now, recorded, mark, manifest, target, sidecar, deaths>>

\* All rows, and fsync.
WritesFile(e) ==
  /\ exporter[e].at = "write"
  /\ content' = [content EXCEPT ![exporter[e].file] = exporter[e].rows]
  /\ Continues(e, exporter[e], "hash")
  /\ UNCHANGED <<now, recorded, mark, manifest, tmp, target, sidecar, deaths>>

\* sha256_file of the name.
Hashes(e) ==
  /\ exporter[e].at = "hash"
  /\ LET f == tmp[exporter[e].month]
     IN IF f = 0 THEN Quits(e)
        ELSE Becomes(e, [exporter[e] EXCEPT !.at = "verify", !.sha = content[f]])
  /\ UNCHANGED <<now, recorded, mark, manifest, files, deaths>>

\* verify_cold_file: as many rows, the first and the last.
Verified(rows, held) ==
  /\ held # {} /\ Cardinality(held) = Cardinality(rows)
  /\ Least(held) = Least(rows) /\ Greatest(held) = Greatest(rows)

Verifies(e) ==
  /\ exporter[e].at = "verify"
  /\ LET f == tmp[exporter[e].month]
     IN IF f # 0 /\ Verified(exporter[e].rows, content[f]) THEN Continues(e, exporter[e], "rename")
        ELSE Quits(e)
  /\ UNCHANGED <<now, recorded, mark, manifest, files, deaths>>

RenamesLinking(e) ==   \* variant: published by a link, the temporary name stays
  /\ exporter[e].at = "rename"
  /\ LET m == exporter[e].month
     IN IF tmp[m] = 0 THEN Quits(e) /\ UNCHANGED <<tmp, target>>
        ELSE /\ target' = [target EXCEPT ![m] = tmp[m]]
             /\ UNCHANGED tmp
             /\ Continues(e, exporter[e], "sidecar")
  /\ UNCHANGED <<now, recorded, mark, manifest, content, sidecar, deaths>>

\* The rename, and fsync of the directory.
Renames(e) ==
  /\ exporter[e].at = "rename"
  /\ LET m == exporter[e].month
     IN IF tmp[m] = 0 THEN Quits(e) /\ UNCHANGED <<tmp, target>>
        ELSE /\ target' = [target EXCEPT ![m] = tmp[m]]
             /\ tmp' = [tmp EXCEPT ![m] = 0]
             /\ Continues(e, exporter[e], "sidecar")
  /\ UNCHANGED <<now, recorded, mark, manifest, content, sidecar, deaths>>

WritesSidecarOrNot(e) ==   \* variant: its failure is passed over
  /\ exporter[e].at = "sidecar"
  /\ \E sum \in {{}, exporter[e].sha} : sidecar' = [sidecar EXCEPT ![exporter[e].month] = sum]
  /\ Continues(e, exporter[e], "record")
  /\ UNCHANGED <<now, recorded, mark, manifest, tmp, target, content, deaths>>

WritesSidecar(e) ==
  /\ exporter[e].at = "sidecar"
  /\ sidecar' = [sidecar EXCEPT ![exporter[e].month] = exporter[e].sha]
  /\ Continues(e, exporter[e], "record")
  /\ UNCHANGED <<now, recorded, mark, manifest, tmp, target, content, deaths>>

\* INSERT OR REPLACE INTO archive_manifest.
Records(e) ==
  /\ exporter[e].at = "record"
  /\ manifest' = [manifest EXCEPT ![exporter[e].month] =
                    [rows |-> exporter[e].rows, sha |-> exporter[e].sha]]
  /\ Continues(e, exporter[e], "mark2")
  /\ UNCHANGED <<now, recorded, mark, files, deaths>>

\* The watermark, and the next month.
Marks(e) ==
  /\ exporter[e].at = "mark2"
  /\ mark' = exporter[e].month
  /\ Becomes(e, [at |-> "read", ready |-> exporter[e].ready])
  /\ UNCHANGED <<now, recorded, manifest, files, deaths>>

\* The process dies, or a statement or a file operation fails; a sidecar may be left empty.
Dies(e) ==
  /\ deaths < MaxDeaths /\ exporter[e].at # "idle"
  /\ Quits(e)
  /\ \/ UNCHANGED sidecar
     \/ /\ exporter[e].at = "sidecar"
        /\ sidecar' = [sidecar EXCEPT ![exporter[e].month] = {}]
  /\ deaths' = deaths + 1
  /\ UNCHANGED <<now, recorded, mark, manifest, tmp, target, content>>

\* The database's last commits, which are not fsynced, are undone: the watermark is an older
\* one, rows that were moved are back.
PowerCut ==
  /\ deaths < MaxDeaths
  /\ mark' \in {0} \cup {m \in Month : m <= mark}
  /\ mark' <= mark
  /\ \E back \in SUBSET moved : main' = main \cup back
  /\ batch' = {}
  /\ exporter' = [e \in Exporter |-> [at |-> "idle"]]
  /\ deaths' = deaths + 1
  /\ UNCHANGED <<now, moved, manifest, files, timely, late>>

ExportSteps(e) ==
  \/ Begins(e) \/ ReadsMonths(e) \/ ReadsMark(e) \/ Checks(e) \/ ReadsMonthRows(e) \/ Creates(e)
  \/ WritesFile(e) \/ Hashes(e) \/ Verifies(e) \/ Renames(e) \/ WritesSidecar(e) \/ Records(e)
  \/ Marks(e)

ColdNext ==
  \/ HourPasses \/ LateRow \/ MoveCopies \/ MoveDeletes \/ PowerCut
  \/ \E e \in Exporter : ExportSteps(e) \/ Dies(e)

ColdSpec == ColdInit /\ [][ColdNext]_coldVars
-----------------------------------------------------------------------------
(* Properties. *)

Files == [Month -> {0} \cup File]

\* Types; and no file has two names: the temporary one is gone once the file is published
\* (File::create, rename), so that the next export of the month does not empty it.
ColdTypeOK ==
  /\ now \in Hours /\ mark \in {0} \cup Month
  /\ main \subseteq Hours /\ moved \subseteq Hours /\ batch \subseteq moved
  /\ timely \subseteq Hours
  /\ manifest \in [Month -> [rows : SUBSET Hours, sha : SUBSET Hours]]
  /\ tmp \in Files /\ target \in Files
  /\ content \in [File -> SUBSET Hours] /\ sidecar \in [Month -> SUBSET Hours]
  /\ \A e \in Exporter : exporter[e].at \in {"idle", "months", "mark", "check", "read", "create",
       "write", "hash", "verify", "rename", "sidecar", "record", "mark2"}
  /\ late \in 0..MaxLate /\ deaths \in 0..MaxDeaths
  /\ \A m, n \in Month :
       /\ tmp[m] # 0 => tmp[m] # target[n]
       /\ tmp[m] # 0 /\ m # n => tmp[m] # tmp[n]
       /\ target[m] # 0 /\ m # n => target[m] # target[n]

\* A month that the watermark seals has been exported whole: every hour recorded in time is
\* in the rows its manifest row counts, though the move works in batches, fails and is
\* repeated, and late rows come in between (months_ready_to_export).
SealedWhole ==
  \A h \in timely : MonthOf[h] <= mark => h \in manifest[MonthOf[h]].rows

\* The files of a sealed month are what the manifest records: the target holds those rows,
\* and its checksum is the manifest's and the sidecar's, wherever an export died (the order
\* rename, sidecar, manifest, watermark).
SealedFilesMatch ==
  \A m \in Month :
    m <= mark /\ manifest[m].rows # {} =>
      /\ target[m] # 0 /\ content[target[m]] = manifest[m].rows
      /\ manifest[m].sha = manifest[m].rows /\ sidecar[m] = manifest[m].sha
=============================================================================
