---------------------------- MODULE ControlPlane ----------------------------
(***************************************************************************)
(* The settings document and those who act on it: saves and imports of it, *)
(* the measurement of free disk space that forbids a longer retention, and *)
(* the configuration of the collector (lib.rs, retention_ladder.rs,        *)
(* settings_transfer.rs, disk.rs, writer.rs; ADRs 0020, 0031).             *)
(*                                                                         *)
(* A caller is the collection loop or an HTTP request.  One action is one  *)
(* transaction, one read or one step under a lock; callers and the disk    *)
(* check interleave between them.                                          *)
(*                                                                         *)
(* Abstraction: of the document are kept the ladder, the blocks an older   *)
(* client may leave out and one value it always sends; the legacy mirrors  *)
(* retentionHours and rollupRetentionDays are functions of the saved       *)
(* ladder.  A document with a value outside its own range is refused by    *)
(* every reader alike and does not occur, except in the ladder.            *)
(***************************************************************************)
EXTENDS Integers, Sequences, FiniteSets

CONSTANTS Request, Loop,    \* requests, one call each; the collection loop
          Document, Carried, \* settings documents, and those each request may carry
          DefaultLadder, DefaultBlock, DefaultValue, Block,
          L1Least, L2Least, FastLeast, MinFreeLeast, KeepMost,  \* ranges of the validator
          HoursPerDay,
          FreeBytes,        \* what the disk may have left
          MaxFreeChanges, MaxControlMishaps  \* bounds

Caller == Request \cup {Loop}

Toggled == [enabled : BOOLEAN, keep : Nat]
LadderSettings ==
  [l1 : Nat, l2 : Nat, l3 : Toggled, l4 : Toggled, fast : Nat,
   queryable : BOOLEAN, cold : BOOLEAN, minFree : Nat]
Settings == [ladder : LadderSettings, otel : Block, thermal : Block, value : Block]

ASSUME ControlConstants ==
  /\ Loop \notin Request
  /\ MaxFreeChanges \in Nat /\ MaxControlMishaps \in Nat
  /\ DefaultLadder \in LadderSettings
  /\ DefaultBlock \in Block /\ DefaultValue \in Block
  /\ L1Least \in Nat /\ L2Least \in Nat /\ FastLeast \in Nat /\ MinFreeLeast \in Nat
  /\ KeepMost \in Nat /\ HoursPerDay \in Nat \ {0} /\ FreeBytes \subseteq Nat
  /\ Carried \in [Request -> SUBSET Document]
  /\ \A doc \in Document :
       /\ doc.ladder \subseteq LadderSettings /\ doc.otel \subseteq Block
       /\ doc.thermal \subseteq Block /\ doc.value \in Block
       /\ doc.hours \in Nat /\ doc.days \in Nat

VARIABLES settings,   \* the document in app_settings
          flags,      \* l3Enabled and l4Enabled of history_state
          pressure,   \* whether diskPressure of history_state is active
          disk,       \* the disk check in progress
          free,       \* the bytes the disk has left
          caller,     \* what each caller is doing
          configQueue, \* collector_config: its holder and those who wait for it
          applied,    \* the configuration it holds: none or one
          collector,  \* the configuration the collector works by
          saves,      \* history: each save with the document and what it replaced
          appliedSave, \* history: the save the collector was last configured from
          breached,   \* history: the ladder when the pressure began
          spent       \* bounded counts: free changes and mishaps

controlVars == <<settings, flags, pressure, disk, free, caller, configQueue, applied,
                 collector, saves, appliedSave, breached, spent>>

-----------------------------------------------------------------------------
(* The ladder: order, growth, legacy aliases. *)

AtLeast(x, y) == IF x >= y THEN x ELSE y

\* The ranges, and longer horizons for coarser tiers.
IsValid(ladder) ==
  /\ L1Least <= ladder.l1 /\ ladder.l1 <= KeepMost
  /\ L2Least <= ladder.l2 /\ ladder.l2 <= KeepMost
  /\ ladder.l3.keep <= KeepMost /\ ladder.l4.keep <= KeepMost /\ FastLeast <= ladder.fast
  /\ MinFreeLeast <= ladder.minFree
  /\ ladder.l3.enabled => ladder.l3.keep >= ladder.l2
  /\ ladder.l4.enabled /\ ladder.l4.keep # 0 =>
       ladder.l4.keep >= (IF ladder.l3.enabled THEN ladder.l3.keep ELSE ladder.l2)
  /\ ladder.cold => ladder.queryable

\* enabled_horizon_grew.  For L4 a horizon of zero is for ever.
L3Grew(new, old) == new.enabled /\ (~old.enabled \/ new.keep > old.keep)
L4Grew(new, old) ==
  new.enabled /\ (\/ ~old.enabled
                  \/ new.keep = 0 /\ old.keep # 0
                  \/ new.keep # 0 /\ old.keep # 0 /\ new.keep > old.keep)

GrowsFromL4AsL3(new, old) ==   \* variant: a horizon of zero is the shortest
  \/ new.l1 > old.l1 \/ new.l2 > old.l2
  \/ L3Grew(new.l3, old.l3) \/ L3Grew(new.l4, old.l4)
  \/ new.fast > old.fast
  \/ new.queryable /\ ~old.queryable
  \/ new.cold /\ ~old.cold

GrowsFrom(new, old) ==
  \/ new.l1 > old.l1 \/ new.l2 > old.l2
  \/ L3Grew(new.l3, old.l3) \/ L4Grew(new.l4, old.l4)
  \/ new.fast > old.fast
  \/ new.queryable /\ ~old.queryable
  \/ new.cold /\ ~old.cold

\* A document without a ladder only has the two legacy horizons.
WithAliases(ladder, hours, days) ==
  LET l2 == AtLeast(days, L2Least)
      l3 == IF ladder.l3.enabled THEN AtLeast(ladder.l3.keep, l2) ELSE ladder.l3.keep
      below == IF ladder.l3.enabled THEN l3 ELSE l2
      l4 == IF ladder.l4.enabled /\ ladder.l4.keep # 0 THEN AtLeast(ladder.l4.keep, below)
            ELSE ladder.l4.keep
  IN [ladder EXCEPT !.l1 = AtLeast((hours + (HoursPerDay - 1)) \div HoursPerDay, L1Least),
                    !.l2 = l2, !.l3.keep = l3, !.l4.keep = l4]

The(set) == CHOOSE x \in set : TRUE

\* from_document over the persisted settings: absent blocks are kept.
Decoded(doc, persisted) ==
  [ladder  |-> IF doc.ladder # {} THEN The(doc.ladder)
               ELSE WithAliases(persisted.ladder, doc.hours, doc.days),
   otel    |-> IF doc.otel # {} THEN The(doc.otel) ELSE persisted.otel,
   thermal |-> IF doc.thermal # {} THEN The(doc.thermal) ELSE persisted.thermal,
   value   |-> doc.value]

DefaultSettings ==
  [ladder |-> DefaultLadder, otel |-> DefaultBlock, thermal |-> DefaultBlock,
   value |-> DefaultValue]

\* What a save is refused for.
Refused(new, old) ==
  \/ ~IsValid(new.ladder)
  \/ pressure /\ GrowsFrom(new.ladder, old.ladder)

\* collector_config_from: the thermal block and the process count.  The interval of the
\* filesystem check goes the same way.
ConfigFrom(s) == <<s.thermal, s.value>>

-----------------------------------------------------------------------------
Resting == [at |-> "idle"]

ControlInit ==
  /\ settings = DefaultSettings
  /\ flags = [l3 |-> DefaultLadder.l3.enabled, l4 |-> DefaultLadder.l4.enabled]
  /\ pressure = FALSE
  /\ disk = Resting
  /\ free \in FreeBytes
  /\ caller = [c \in Caller |-> IF c = Loop THEN Resting ELSE [at |-> "new"]]
  /\ configQueue = <<>> /\ applied = {} /\ collector = {}
  /\ saves = <<>> /\ appliedSave = 0
  /\ breached = DefaultLadder
  /\ spent = [free |-> 0, mishaps |-> 0]

Goes(c, state) == caller' = [caller EXCEPT ![c] = state]

\* apply_import first makes a plan, from two reads.  Its errors end the import.
PlansImport(c) ==
  /\ caller[c].at = "new"
  /\ \E doc \in Carried[c] :
       Goes(c, [at |-> "plan", doc |-> doc, previous |-> settings])
  /\ UNCHANGED <<settings, flags, pressure, disk, free, configQueue, applied, collector,
                 saves, appliedSave, breached, spent>>

FinishesPlan(c) ==
  /\ caller[c].at = "plan"
  /\ LET old == caller[c].previous  new == Decoded(caller[c].doc, old)
     IN Goes(c, IF Refused(new, old) THEN Resting
                ELSE [at |-> "save", doc |-> caller[c].doc, previous |-> old])
  /\ UNCHANGED <<settings, flags, pressure, disk, free, configQueue, applied, collector,
                 saves, appliedSave, breached, spent>>

SavesDocument(c) ==
  /\ caller[c].at = "new"
  /\ \E doc \in Carried[c] : Goes(c, [at |-> "save", doc |-> doc])
  /\ UNCHANGED <<settings, flags, pressure, disk, free, configQueue, applied, collector,
                 saves, appliedSave, breached, spent>>

PersistedPlanned(c) ==   \* variant: what an import read for its plan
  IF "previous" \in DOMAIN caller[c] THEN caller[c].previous ELSE settings

\* What the transaction decodes the document over and compares it with.
Persisted(c) == settings

WritesPlanned(c) ==   \* variant: a planned import is not checked again
  /\ caller[c].at = "save"
  /\ LET old == settings  new == Decoded(caller[c].doc, old)
     IN /\ "previous" \in DOMAIN caller[c] \/ ~Refused(new, old)
        /\ settings' = new
        /\ flags' = [l3 |-> new.ladder.l3.enabled, l4 |-> new.ladder.l4.enabled]
        /\ saves' = Append(saves, [doc |-> caller[c].doc, from |-> old, to |-> new])
        /\ Goes(c, [at |-> "lock"])
  /\ UNCHANGED <<pressure, disk, free, configQueue, applied, collector, appliedSave,
                 breached, spent>>

\* put_settings_document: read, decode, validate, write, with the flags, in one
\* transaction.
Writes(c) ==
  /\ caller[c].at = "save"
  /\ LET old == Persisted(c)  new == Decoded(caller[c].doc, old)
     IN /\ ~Refused(new, old)
        /\ settings' = new
        /\ flags' = [l3 |-> new.ladder.l3.enabled, l4 |-> new.ladder.l4.enabled]
        /\ saves' = Append(saves, [doc |-> caller[c].doc, from |-> old, to |-> new])
        /\ Goes(c, [at |-> "lock"])
  /\ UNCHANGED <<pressure, disk, free, configQueue, applied, collector, appliedSave,
                 breached, spent>>

Refuses(c) ==
  /\ caller[c].at = "save"
  /\ Refused(Decoded(caller[c].doc, Persisted(c)), Persisted(c))
  /\ Goes(c, Resting)
  /\ UNCHANGED <<settings, flags, pressure, disk, free, configQueue, applied, collector,
                 saves, appliedSave, breached, spent>>

\* A snapshot is collected and stored; maintenance follows, then the configuration.  (A
\* request for a collection does the same in its place.)
CollectsSnapshot ==
  /\ caller[Loop].at = "idle"
  /\ Goes(Loop, [at |-> "lock"])
  /\ UNCHANGED <<settings, flags, pressure, disk, free, configQueue, applied, collector,
                 saves, appliedSave, breached, spent>>

-----------------------------------------------------------------------------
(* configure_collector_if_changed.  The mutex is handed out in order.  The collector's
   own lock is only held over steps without an await. *)

Queues(c) ==
  /\ caller[c].at = "lock"
  /\ Goes(c, [at |-> "wait"])
  /\ configQueue' = Append(configQueue, c)
  /\ UNCHANGED <<settings, flags, pressure, disk, free, applied, collector, saves,
                 appliedSave, breached, spent>>

\* The lock is the head's.
Holds(c) == configQueue # <<>> /\ configQueue[1] = c

ReadsWaiting(c) ==   \* variant: the settings are read before the lock is held
  /\ caller[c].at = "wait"
  /\ Goes(c, [at |-> "configure", desired |-> settings, save |-> Len(saves)])
  /\ UNCHANGED <<settings, flags, pressure, disk, free, configQueue, applied, collector,
                 saves, appliedSave, breached, spent>>

ReadsDesired(c) ==
  /\ caller[c].at = "wait" /\ Holds(c)
  /\ Goes(c, [at |-> "configure", desired |-> settings, save |-> Len(saves)])
  /\ UNCHANGED <<settings, flags, pressure, disk, free, configQueue, applied, collector,
                 saves, appliedSave, breached, spent>>

Configures(c) ==
  /\ caller[c].at = "configure" /\ Holds(c)
  /\ LET desired == ConfigFrom(caller[c].desired)
     IN /\ applied' = {desired}
        /\ IF desired \in applied THEN UNCHANGED <<collector, appliedSave>>
           ELSE collector' = {desired} /\ appliedSave' = caller[c].save
  /\ Goes(c, Resting)
  /\ configQueue' = Tail(configQueue)
  /\ UNCHANGED <<settings, flags, pressure, disk, free, saves, breached, spent>>

\* The queue once c has left it.
Left(queue, c) ==
  IF \A i \in 1..Len(queue) : queue[i] # c THEN queue
  ELSE LET k == CHOOSE i \in 1..Len(queue) : queue[i] = c
       IN [i \in 1..(Len(queue) - 1) |-> queue[IF i < k THEN i ELSE i + 1]]

GivesUpLocked(c) ==   \* variant: the lock is not left
  /\ spent.mishaps < MaxControlMishaps
  /\ caller[c].at \notin {"new", "idle"}
  /\ Goes(c, Resting)
  /\ spent' = [spent EXCEPT !.mishaps = @ + 1]
  /\ UNCHANGED <<settings, flags, pressure, disk, free, configQueue, applied, collector,
                 saves, appliedSave, breached>>

\* A statement fails or the client goes away: the rest of the call does not happen, and
\* the lock is left.
GivesUp(c) ==
  /\ spent.mishaps < MaxControlMishaps
  /\ caller[c].at \notin {"new", "idle"}
  /\ Goes(c, Resting)
  /\ configQueue' = Left(configQueue, c)
  /\ spent' = [spent EXCEPT !.mishaps = @ + 1]
  /\ UNCHANGED <<settings, flags, pressure, disk, free, applied, collector, saves,
                 appliedSave, breached>>

-----------------------------------------------------------------------------
(* The disk check: settings, measurement and pressure, one after the other. *)

ReadsLadder ==
  /\ disk.at = "idle"
  /\ disk' = [at |-> "measure", ladder |-> settings.ladder]
  /\ UNCHANGED <<settings, flags, pressure, free, caller, configQueue, applied, collector,
                 saves, appliedSave, breached, spent>>

Measures ==
  /\ disk.at = "measure"
  /\ disk' = [at |-> "apply", ladder |-> disk.ladder, free |-> free]
  /\ UNCHANGED <<settings, flags, pressure, free, caller, configQueue, applied, collector,
                 saves, appliedSave, breached, spent>>

AppliesMeasurementSticky ==   \* variant: pressure ends only with a restart
  /\ disk.at = "apply"
  /\ LET low == disk.free < disk.ladder.minFree
     IN /\ pressure' = (low \/ pressure)
        /\ breached' = IF low /\ ~pressure THEN settings.ladder ELSE breached
  /\ disk' = Resting
  /\ UNCHANGED <<settings, flags, free, caller, configQueue, applied, collector, saves,
                 appliedSave, spent>>

\* apply_disk_measurement: one transaction.  The event it records and the time since
\* which follow the transition.
AppliesMeasurement ==
  /\ disk.at = "apply"
  /\ LET low == disk.free < disk.ladder.minFree
     IN /\ pressure' = (low)
        /\ breached' = IF low /\ ~pressure THEN settings.ladder ELSE breached
  /\ disk' = Resting
  /\ UNCHANGED <<settings, flags, free, caller, configQueue, applied, collector, saves,
                 appliedSave, spent>>

\* The measurement or its transaction fails: nothing is written.
CheckFails ==
  /\ spent.mishaps < MaxControlMishaps
  /\ disk.at # "idle"
  /\ disk' = Resting
  /\ spent' = [spent EXCEPT !.mishaps = @ + 1]
  /\ UNCHANGED <<settings, flags, pressure, free, caller, configQueue, applied, collector,
                 saves, appliedSave, breached>>

FreeChanges ==
  /\ spent.free < MaxFreeChanges
  /\ \E f \in FreeBytes \ {free} : free' = f
  /\ spent' = [spent EXCEPT !.free = @ + 1]
  /\ UNCHANGED <<settings, flags, pressure, disk, caller, configQueue, applied, collector,
                 saves, appliedSave, breached>>

\* The daemon dies and starts again: the collector has its default configuration and is
\* configured before the first collection.
Reboots ==
  /\ spent.mishaps < MaxControlMishaps
  /\ caller' = [c \in Caller |-> IF c = Loop THEN [at |-> "lock"]
                              ELSE IF caller[c].at = "new" THEN caller[c] ELSE Resting]
  /\ configQueue' = <<>> /\ applied' = {} /\ collector' = {} /\ appliedSave' = 0
  /\ disk' = Resting
  /\ spent' = [spent EXCEPT !.mishaps = @ + 1]
  /\ UNCHANGED <<settings, flags, pressure, free, saves, breached>>

Works(c) == \/ FinishesPlan(c) \/ Writes(c) \/ Refuses(c)
            \/ Queues(c) \/ ReadsDesired(c) \/ Configures(c)

ChecksDisk == ReadsLadder \/ Measures \/ AppliesMeasurement

ControlNext ==
  \/ \E c \in Caller : \/ PlansImport(c) \/ SavesDocument(c) \/ Works(c) \/ GivesUp(c)
  \/ CollectsSnapshot \/ ChecksDisk \/ CheckFails \/ FreeChanges \/ Reboots

\* Statements and tasks finish, the loop collects for ever and so does the disk check.
ControlFairness ==
  /\ \A c \in Caller : WF_controlVars(Works(c))
  /\ WF_controlVars(CollectsSnapshot)
  /\ WF_controlVars(ChecksDisk)

ControlSpec == ControlInit /\ [][ControlNext]_controlVars /\ ControlFairness

-----------------------------------------------------------------------------
(* Properties. *)

\* Types; and the configuration lock is held or awaited by the calls that are at it.
ControlTypeOK ==
  /\ settings \in Settings /\ flags \in [l3 : BOOLEAN, l4 : BOOLEAN]
  /\ pressure \in BOOLEAN /\ free \in FreeBytes /\ breached \in LadderSettings
  /\ disk.at \in {"idle", "measure", "apply"}
  /\ \A c \in Caller :
       caller[c].at \in {"new", "idle", "plan", "save", "lock", "wait", "configure"}
  /\ applied \subseteq Block \X Block /\ collector \subseteq Block \X Block
  /\ configQueue \in Seq(Caller)
  /\ \A c \in Caller : Cardinality({i \in 1..Len(configQueue) : configQueue[i] = c})
                        = IF caller[c].at \in {"wait", "configure"} THEN 1 ELSE 0
  /\ appliedSave \in 0..Len(saves)
  /\ spent \in [free : 0..MaxFreeChanges, mishaps : 0..MaxControlMishaps]

\* How long each kind of row is kept, more when it is kept longer.
Horizons(ladder) ==
  [l1 |-> ladder.l1, l2 |-> ladder.l2,
   l3 |-> IF ladder.l3.enabled THEN ladder.l3.keep ELSE -1,
   l4 |-> IF ~ladder.l4.enabled THEN -1
          ELSE IF ladder.l4.keep = 0 THEN KeepMost + 1 ELSE ladder.l4.keep,
   fast |-> ladder.fast,
   queryable |-> IF ladder.queryable THEN 1 ELSE 0,
   cold |-> IF ladder.cold THEN 1 ELSE 0]

\* From the check that finds the disk low to the one that finds it well again, no series
\* of saves and imports, however planned, keeps any data longer than when it began
\* (RetentionLadder::validate under disk pressure).
RetentionOnlyShrinks ==
  pressure => \A kind \in DOMAIN Horizons(breached) :
                Horizons(settings.ladder)[kind] <= Horizons(breached)[kind]

\* A save replaces exactly what the save before it left, whatever was read for a plan:
\* blocks its document leaves out are kept, and the change it reports is the change made
\* (put_settings_document, update_settings, import_settings).
NoLostUpdate ==
  /\ settings = IF saves = <<>> THEN DefaultSettings ELSE saves[Len(saves)].to
  /\ \A n \in 1..Len(saves) :
       LET before == IF n = 1 THEN DefaultSettings ELSE saves[n - 1].to
       IN /\ saves[n].from = before
          /\ saves[n].doc.otel = {} => saves[n].to.otel = before.otel
          /\ saves[n].doc.thermal = {} => saves[n].to.thermal = before.thermal

\* Callers that configure the collector from settings each of them read do not bring
\* back an older configuration (configure_collector_if_changed).
ConfigurationNeverGoesBack ==
  [][applied' # {} => appliedSave' >= appliedSave]_controlVars

\* When nobody saves any more, the collector works by the saved settings and stays there.
CollectorConverges == <>[](collector = {ConfigFrom(settings)})

\* When disk and settings stay as they are, the pressure tells the truth about them.
PressureCatchesUp == <>[](pressure <=> free < settings.ladder.minFree)

\* A client that knows no ladder and sends the settings back as it got them changes
\* nothing; and what the aliases make of a valid ladder is valid.
LegacyRoundTrip(ladder) ==
  /\ WithAliases(ladder, ladder.l1 * HoursPerDay, ladder.l2) = ladder
  /\ \A hours, days \in 0..KeepMost : IsValid(WithAliases(ladder, hours, days))
=============================================================================
