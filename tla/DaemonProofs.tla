----------------------------- MODULE DaemonProofs -----------------------------
(***************************************************************************)
(* The control plane, for every set of requests and documents and without  *)
(* bounds on what happens: no data is kept longer while the disk is low,   *)
(* no save is lost, and the collector's configuration does not go back.    *)
(* The first needs the types only; the last that a caller that configures  *)
(* is the head of the lock's queue, and has read the settings since.  The  *)
(* queue itself holds exactly the calls at the lock, each once.            *)
(*                                                                         *)
(* The export loop: its pipeline is of the settings it goes by, and        *)
(* exports are an interval apart, since the schedule knows an attempt that *)
(* is no older than the last export.                                       *)
(*                                                                         *)
(* The collector: samples are coherent for every MinRefresh and every set  *)
(* of configurations; the inductive invariant relates the process table to *)
(* the stamp of its last refresh, the counters kept to the last sample,    *)
(* and the GPU scans to the last slow tick.                                *)
(***************************************************************************)
EXTENDS Daemon, FiniteSetTheorems, TLAPS

Step == [ControlNext]_controlVars

CallerState ==
  [at : {"new", "idle", "lock", "wait"}]
    \cup [at : {"plan", "save"}, doc : Document, previous : Settings]
    \cup [at : {"save"}, doc : Document]
    \cup [at : {"configure"}, desired : Settings, save : Nat]

Typed ==
  /\ settings \in Settings /\ breached \in LadderSettings /\ pressure \in BOOLEAN
  /\ caller \in [Caller -> CallerState] /\ configQueue \in Seq(Caller)
  /\ saves \in Seq([doc : Document, from : Settings, to : Settings])
  /\ appliedSave \in Nat
  /\ caller[Loop].at # "new"

\* A caller that configures holds the lock and read the settings after those the collector
\* was configured from.
HeadConfigures ==
  /\ appliedSave <= Len(saves)
  /\ \A c \in Caller :
       caller[c].at = "configure" =>
         /\ configQueue # <<>> /\ configQueue[1] = c
         /\ appliedSave <= caller[c].save /\ caller[c].save <= Len(saves)

ControlInv == Typed /\ HeadConfigures /\ NoLostUpdate /\ RetentionOnlyShrinks

-----------------------------------------------------------------------------
(* Decoding. *)

LEMMA DefaultTyped ==
  ASSUME ControlConstants
  PROVE  DefaultSettings \in Settings
BY DEF ControlConstants, DefaultSettings, Settings

LEMMA TheMember ==
  ASSUME NEW S, S # {}
  PROVE  The(S) \in S
BY DEF The

LEMMA AtLeastNat ==
  ASSUME NEW x \in Nat, NEW y \in Nat
  PROVE  AtLeast(x, y) \in Nat
BY DEF AtLeast

LEMMA AliasesTyped ==
  ASSUME ControlConstants, NEW ladder \in LadderSettings, NEW hours \in Nat, NEW days \in Nat
  PROVE  WithAliases(ladder, hours, days) \in LadderSettings
<1> DEFINE l2 == AtLeast(days, L2Least)
           l3 == IF ladder.l3.enabled THEN AtLeast(ladder.l3.keep, l2) ELSE ladder.l3.keep
           below == IF ladder.l3.enabled THEN l3 ELSE l2
           l4 == IF ladder.l4.enabled /\ ladder.l4.keep # 0 THEN AtLeast(ladder.l4.keep, below)
                 ELSE ladder.l4.keep
           h == (hours + (HoursPerDay - 1)) \div HoursPerDay
           l1 == AtLeast(h, L1Least)
<1>1. /\ ladder.l3 \in Toggled /\ ladder.l4 \in Toggled
      /\ ladder.l3.keep \in Nat /\ ladder.l4.keep \in Nat
  BY DEF LadderSettings, Toggled
<1>2. l2 \in Nat
  BY AtLeastNat DEF ControlConstants
<1>3. l3 \in Nat
  BY <1>1, <1>2, AtLeastNat
<1>4. below \in Nat
  BY <1>2, <1>3
<1>5. l4 \in Nat
  BY <1>1, <1>4, AtLeastNat
<1>6. h \in Nat
  <2>1. HoursPerDay \in Nat \ {0} /\ hours + (HoursPerDay - 1) \in Nat
    BY DEF ControlConstants
  <2> HIDE DEF h
  <2> QED BY <2>1 DEF h
<1>7. l1 \in Nat
  BY <1>6, AtLeastNat DEF ControlConstants
<1>8. WithAliases(ladder, hours, days)
        = [ladder EXCEPT !.l1 = l1, !.l2 = l2, !.l3.keep = l3, !.l4.keep = l4]
  BY DEF WithAliases
<1> HIDE DEF l1, l2, l3, l4, below, h
<1>9. [ladder.l3 EXCEPT !.keep = l3] \in Toggled /\ [ladder.l4 EXCEPT !.keep = l4] \in Toggled
  BY <1>1, <1>3, <1>5 DEF Toggled
<1>10. WithAliases(ladder, hours, days)
         = [ladder EXCEPT !.l1 = l1, !.l2 = l2, !.l3 = [ladder.l3 EXCEPT !.keep = l3],
                          !.l4 = [ladder.l4 EXCEPT !.keep = l4]]
  BY <1>8 DEF LadderSettings
<1> HIDE DEF Toggled
<1> QED BY <1>2, <1>7, <1>9, <1>10 DEF LadderSettings

(* What a document makes of the persisted settings is a settings document. *)
LEMMA DecodedTyped ==
  ASSUME ControlConstants, NEW doc \in Document, NEW old \in Settings
  PROVE  Decoded(doc, old) \in Settings
<1>1. /\ doc.ladder \subseteq LadderSettings /\ doc.otel \subseteq Block
      /\ doc.thermal \subseteq Block /\ doc.value \in Block
      /\ doc.hours \in Nat /\ doc.days \in Nat
  BY DEF ControlConstants
<1>2. old.ladder \in LadderSettings /\ old.otel \in Block /\ old.thermal \in Block
  BY DEF Settings
<1>3. Decoded(doc, old).ladder \in LadderSettings
  BY <1>1, <1>2, TheMember, AliasesTyped DEF Decoded
<1>4. Decoded(doc, old).otel \in Block /\ Decoded(doc, old).thermal \in Block
  BY <1>1, <1>2, TheMember DEF Decoded
<1>5. Decoded(doc, old)
        = [ladder |-> Decoded(doc, old).ladder, otel |-> Decoded(doc, old).otel,
           thermal |-> Decoded(doc, old).thermal, value |-> doc.value]
  BY DEF Decoded
<1> HIDE DEF Decoded
<1> QED BY <1>1, <1>3, <1>4, <1>5 DEF Settings

(* A ladder that does not grow from another keeps no kind of row longer. *)
LEMMA NotGrown ==
  ASSUME ControlConstants, NEW new \in LadderSettings, NEW old \in LadderSettings,
         IsValid(new), ~GrowsFrom(new, old)
  PROVE  \A kind \in DOMAIN Horizons(old) : Horizons(new)[kind] <= Horizons(old)[kind]
<1>1. new.l1 <= old.l1 /\ new.l2 <= old.l2 /\ new.fast <= old.fast
  BY DEF GrowsFrom, LadderSettings
<1>2. Horizons(new).l3 <= Horizons(old).l3
  BY DEF GrowsFrom, L3Grew, LadderSettings, Toggled, Horizons
<1>3. Horizons(new).l4 <= Horizons(old).l4
  <2>1. new.l4.keep \in Nat /\ old.l4.keep \in Nat /\ new.l4.keep <= KeepMost /\ KeepMost \in Nat
    BY DEF LadderSettings, Toggled, IsValid, ControlConstants
  <2>2. new.l4.enabled \in BOOLEAN /\ old.l4.enabled \in BOOLEAN
    BY DEF LadderSettings, Toggled
  <2>3. ~L4Grew(new.l4, old.l4)
    BY DEF GrowsFrom
  <2> QED BY <2>1, <2>2, <2>3 DEF L4Grew, Horizons
<1>4. Horizons(new).queryable <= Horizons(old).queryable
  BY DEF GrowsFrom, LadderSettings, Horizons
<1>5. Horizons(new).cold <= Horizons(old).cold
  BY DEF GrowsFrom, LadderSettings, Horizons
<1>6. DOMAIN Horizons(old) = {"l1", "l2", "l3", "l4", "fast", "queryable", "cold"}
  BY DEF Horizons
<1>7. /\ Horizons(new).l1 = new.l1 /\ Horizons(new).l2 = new.l2 /\ Horizons(new).fast = new.fast
      /\ Horizons(old).l1 = old.l1 /\ Horizons(old).l2 = old.l2 /\ Horizons(old).fast = old.fast
  BY DEF Horizons
<1> HIDE DEF Horizons
<1> QED BY <1>1, <1>2, <1>3, <1>4, <1>5, <1>6, <1>7

(* Horizons are ordered transitively. *)
LEMMA HorizonsInt ==
  ASSUME ControlConstants, NEW ladder \in LadderSettings
  PROVE  /\ DOMAIN Horizons(ladder) = {"l1", "l2", "l3", "l4", "fast", "queryable", "cold"}
         /\ \A kind \in DOMAIN Horizons(ladder) : Horizons(ladder)[kind] \in Int
BY DEF Horizons, LadderSettings, Toggled, ControlConstants

-----------------------------------------------------------------------------
(* The queue of the configuration lock. *)

LEMMA LeftKeeps ==
  ASSUME NEW queue \in Seq(Caller), NEW c \in Caller
  PROVE  /\ Left(queue, c) \in Seq(Caller)
         /\ queue # <<>> /\ queue[1] # c => Left(queue, c) # <<>> /\ Left(queue, c)[1] = queue[1]
<1>1. CASE \A i \in 1..Len(queue) : queue[i] # c
  BY <1>1 DEF Left
<1>2. CASE ~\A i \in 1..Len(queue) : queue[i] # c
  <2> DEFINE k == CHOOSE i \in 1..Len(queue) : queue[i] = c
             left == [i \in 1..(Len(queue) - 1) |-> queue[IF i < k THEN i ELSE i + 1]]
  <2>1. k \in 1..Len(queue) /\ queue[k] = c
    BY <1>2
  <2>2. Left(queue, c) = left
    BY <1>2 DEF Left
  <2> HIDE DEF k
  <2>3. Len(queue) \in Nat /\ Len(queue) - 1 \in Nat
    BY <2>1
  <2>4. \A i \in 1..(Len(queue) - 1) : queue[IF i < k THEN i ELSE i + 1] \in Caller
    BY <2>1, <2>3
  <2>5. left \in [1..(Len(queue) - 1) -> Caller]
    BY <2>4
  <2>6. left \in Seq(Caller) /\ Len(left) = Len(queue) - 1
    BY <2>3, <2>5
  <2>7. ASSUME queue # <<>>, queue[1] # c
        PROVE left # <<>> /\ left[1] = queue[1]
    <3>1. 1 < k /\ 1 \in 1..(Len(queue) - 1)
      BY <2>1, <2>3, <2>7
    <3>2. left[1] = queue[1]
      BY <3>1
    <3>3. Len(left) # 0
      BY <2>6, <3>1, <2>3
    <3> HIDE DEF left
    <3> QED BY <2>6, <3>2, <3>3
  <2> QED BY <2>2, <2>6, <2>7
<1> QED BY <1>1, <1>2

(* What a caller carries, by where it is. *)
LEMMA StateKinds ==
  ASSUME NEW s \in CallerState
  PROVE  /\ s.at \in {"new", "idle", "lock", "wait", "plan", "save", "configure"}
         /\ s.at = "plan" => s.doc \in Document /\ s.previous \in Settings
         /\ s.at = "save" => s.doc \in Document
         /\ s.at = "configure" => s.desired \in Settings /\ s.save \in Nat
BY DEF CallerState

LEMMA CarriedDocument ==
  ASSUME ControlConstants, NEW c \in Request, NEW doc \in Carried[c]
  PROVE  doc \in Document
BY DEF ControlConstants

LEMMA GoesTyped ==
  ASSUME NEW c \in Caller, NEW s \in CallerState, caller \in [Caller -> CallerState], Goes(c, s)
  PROVE  /\ caller' \in [Caller -> CallerState] /\ caller'[c] = s
         /\ \A d \in Caller : d # c => caller'[d] = caller[d]
BY DEF Goes

LEMMA Plain ==
  /\ Resting \in CallerState /\ [at |-> "lock"] \in CallerState /\ [at |-> "wait"] \in CallerState
BY DEF Resting, CallerState

-----------------------------------------------------------------------------
(* Steps that change no more than the callers, the disk check and the counts. *)
Calm == UNCHANGED <<settings, breached, pressure, saves>>

(* A saved document is the next of the chain. *)
LEMMA Appends ==
  ASSUME Typed, NoLostUpdate, NEW doc \in Document, ControlConstants,
         settings' = Decoded(doc, settings),
         saves' = Append(saves, [doc |-> doc, from |-> settings, to |-> settings'])
  PROVE  /\ settings' \in Settings
         /\ saves' \in Seq([doc : Document, from : Settings, to : Settings])
         /\ Len(saves') = Len(saves) + 1 /\ Len(saves) \in Nat
         /\ NoLostUpdate'
<1> DEFINE S == [doc : Document, from : Settings, to : Settings]
           save == [doc |-> doc, from |-> settings, to |-> settings']
<1>1. settings \in Settings /\ saves \in Seq(S)
  BY DEF Typed
<1>2. settings' \in Settings
  BY <1>1, DecodedTyped
<1>3. save \in S
  BY <1>1, <1>2
<1>4. save.from = settings /\ save.to = settings' /\ save.doc = doc
  OBVIOUS
<1>5. (doc.otel = {} => settings'.otel = settings.otel)
      /\ (doc.thermal = {} => settings'.thermal = settings.thermal)
  BY DEF Decoded
<1> HIDE DEF save, S
<1>6. saves' = Append(saves, save)
  BY DEF save
<1>7. /\ saves' \in Seq(S) /\ Len(saves') = Len(saves) + 1 /\ Len(saves) \in Nat
      /\ saves'[Len(saves) + 1] = save /\ \A n \in 1..Len(saves) : saves'[n] = saves[n]
  BY <1>1, <1>3, <1>6
<1>8. settings' = saves'[Len(saves')].to /\ saves' # <<>>
  <2>1. saves'[Len(saves')] = save
    BY <1>7
  <2>2. Len(saves') # 0
    BY <1>7
  <2> QED BY <1>4, <1>7, <2>1, <2>2
<1> DEFINE Was(t, n) == IF n = 1 THEN DefaultSettings ELSE t[n - 1].to
           Follows(t, n) == /\ t[n].from = Was(t, n)
                            /\ t[n].doc.otel = {} => t[n].to.otel = Was(t, n).otel
                            /\ t[n].doc.thermal = {} => t[n].to.thermal = Was(t, n).thermal
<1>9. \A n \in 1..Len(saves) : Follows(saves, n)
  BY DEF NoLostUpdate
<1>10. settings = Was(saves, Len(saves) + 1)
  BY <1>1, <1>7 DEF NoLostUpdate
<1>11. ASSUME NEW n \in 1..Len(saves) PROVE Follows(saves', n)
  <2>1. saves'[n] = saves[n]
    BY <1>7
  <2>2. n # 1 => saves'[n - 1] = saves[n - 1]
    <3>1. n # 1 => n - 1 \in 1..Len(saves)
      BY <1>7
    <3> QED BY <1>7, <3>1
  <2>3. Was(saves', n) = Was(saves, n)
    BY <2>2
  <2> QED BY <1>9, <2>1, <2>3
<1>12. Follows(saves', Len(saves) + 1)
  <2>1. Was(saves', Len(saves) + 1) = settings
    <3>1. Len(saves) + 1 # 1 => saves'[Len(saves) + 1 - 1] = saves[Len(saves) + 1 - 1]
      <4>1. Len(saves) + 1 # 1 => Len(saves) \in 1..Len(saves) /\ Len(saves) + 1 - 1 = Len(saves)
        BY <1>7
      <4> QED BY <1>7, <4>1
    <3> QED BY <1>10, <3>1
  <2> QED BY <1>4, <1>5, <1>7, <2>1
<1>13. \A n \in 1..Len(saves') : Follows(saves', n)
  <2>1. \A n \in 1..Len(saves') : n \in 1..Len(saves) \/ n = Len(saves) + 1
    BY <1>7
  <2> QED BY <1>11, <1>12, <2>1
<1>14. NoLostUpdate'
  BY <1>8, <1>13 DEF NoLostUpdate
<1> QED BY <1>2, <1>7, <1>14 DEF S

(* Every step keeps the types. *)
LEMMA TypedStep ==
  ASSUME ControlConstants, Typed, HeadConfigures, NoLostUpdate, Step
  PROVE  Typed'
<1>a. /\ settings \in Settings /\ breached \in LadderSettings /\ pressure \in BOOLEAN
      /\ caller \in [Caller -> CallerState] /\ configQueue \in Seq(Caller)
      /\ saves \in Seq([doc : Document, from : Settings, to : Settings])
      /\ appliedSave \in Nat /\ caller[Loop].at # "new" /\ settings.ladder \in LadderSettings
      /\ Len(saves) \in Nat
  BY DEF Typed, Settings
<1>b. \A c \in Caller : caller[c] \in CallerState
  BY <1>a
<1>c. Loop \in Caller
  BY DEF Caller
\* A caller goes to a state of its own, and nothing else of Typed changes but the queue.
<1>d. ASSUME NEW c \in Caller, NEW state \in CallerState, Goes(c, state), state.at # "new",
             Calm, appliedSave' \in Nat, configQueue' \in Seq(Caller)
      PROVE  Typed'
  <2>1. caller' \in [Caller -> CallerState] /\ caller'[Loop].at # "new"
    BY <1>a, <1>c, <1>d, GoesTyped
  <2> QED BY <1>a, <1>d, <2>1 DEF Typed, Calm
<1>e. ASSUME Calm, UNCHANGED <<caller, configQueue, appliedSave>> PROVE Typed'
  BY <1>e, <1>a DEF Typed, Calm
<1>0. CASE UNCHANGED controlVars
  BY <1>0, <1>e DEF controlVars, Calm
<1>1. ASSUME NEW c \in Caller, PlansImport(c) PROVE Typed'
  <2>1. c \in Request
    BY <1>1, <1>a DEF PlansImport, Caller
  <2>2. PICK doc \in Carried[c] : Goes(c, [at |-> "plan", doc |-> doc, previous |-> settings])
    BY <1>1 DEF PlansImport
  <2>3. [at |-> "plan", doc |-> doc, previous |-> settings] \in CallerState
    BY <2>1, <1>a, CarriedDocument DEF CallerState
  <2> QED BY <1>1, <1>a, <1>d, <2>2, <2>3 DEF PlansImport, Calm
<1>2. ASSUME NEW c \in Caller, FinishesPlan(c) PROVE Typed'
  <2>1. caller[c].doc \in Document /\ caller[c].previous \in Settings
    BY <1>2, <1>b, StateKinds DEF FinishesPlan
  <2>2. PICK state \in {Resting, [at |-> "save", doc |-> caller[c].doc,
                                  previous |-> caller[c].previous]} : Goes(c, state)
    BY <1>2 DEF FinishesPlan
  <2>3. state \in CallerState /\ state.at # "new"
    BY <2>1, <2>2 DEF CallerState, Resting
  <2> QED BY <1>2, <1>a, <1>d, <2>2, <2>3 DEF FinishesPlan, Calm
<1>3. ASSUME NEW c \in Caller, SavesDocument(c) PROVE Typed'
  <2>1. c \in Request
    BY <1>3, <1>a DEF SavesDocument, Caller
  <2>2. PICK doc \in Carried[c] : Goes(c, [at |-> "save", doc |-> doc])
    BY <1>3 DEF SavesDocument
  <2>3. [at |-> "save", doc |-> doc] \in CallerState
    BY <2>1, CarriedDocument DEF CallerState
  <2> QED BY <1>3, <1>a, <1>d, <2>2, <2>3 DEF SavesDocument, Calm
<1>4. ASSUME NEW c \in Caller, Writes(c) PROVE Typed'
  <2>1. caller[c].doc \in Document
    BY <1>4, <1>b, StateKinds DEF Writes
  <2>2. /\ settings' = Decoded(caller[c].doc, settings)
        /\ saves' = Append(saves, [doc |-> caller[c].doc, from |-> settings, to |-> settings'])
    BY <1>4 DEF Writes, Persisted
  <2>3. /\ settings' \in Settings
        /\ saves' \in Seq([doc : Document, from : Settings, to : Settings])
    BY <2>1, <2>2, Appends
  <2>4. caller' \in [Caller -> CallerState] /\ caller'[Loop].at # "new"
    BY <1>4, <1>a, <1>c, GoesTyped, Plain DEF Writes
  <2> QED BY <1>4, <1>a, <2>3, <2>4 DEF Typed, Writes
<1>5. ASSUME NEW c \in Caller, Refuses(c) PROVE Typed'
  BY <1>5, <1>a, <1>d, Plain DEF Refuses, Resting, Calm
<1>6. ASSUME NEW c \in Caller, Queues(c) PROVE Typed'
  <2>1. configQueue' \in Seq(Caller)
    BY <1>6, <1>a DEF Queues
  <2> QED BY <1>6, <1>a, <1>d, <2>1, Plain DEF Queues, Calm
<1>7. ASSUME NEW c \in Caller, ReadsDesired(c) PROVE Typed'
  <2>1. [at |-> "configure", desired |-> settings, save |-> Len(saves)] \in CallerState
    BY <1>a DEF CallerState
  <2> QED BY <1>7, <1>a, <1>d, <2>1 DEF ReadsDesired, Calm
<1>8. ASSUME NEW c \in Caller, Configures(c) PROVE Typed'
  <2>1. caller[c].save \in Nat
    BY <1>8, <1>b, StateKinds DEF Configures
  <2>2. appliedSave' \in Nat
    BY <1>8, <1>a, <2>1 DEF Configures
  <2>3. configQueue # <<>>
    BY <1>8 DEF Configures, HeadConfigures
  <2>4. configQueue' \in Seq(Caller)
    BY <1>8, <1>a, <2>3 DEF Configures
  <2> QED BY <1>8, <1>d, <2>2, <2>4, Plain DEF Configures, Resting, Calm
<1>9. ASSUME NEW c \in Caller, GivesUp(c) PROVE Typed'
  BY <1>9, <1>a, <1>d, Plain, LeftKeeps DEF GivesUp, Resting, Calm
<1>10. CASE CollectsSnapshot
  BY <1>10, <1>a, <1>c, <1>d, Plain DEF CollectsSnapshot, Calm
<1>11. CASE ReadsLadder \/ Measures \/ CheckFails \/ FreeChanges
  BY <1>11, <1>e DEF ReadsLadder, Measures, CheckFails, FreeChanges, Calm
<1>12. CASE AppliesMeasurement
  <2>1. pressure' \in BOOLEAN
    BY <1>12 DEF AppliesMeasurement
  <2>2. breached' = settings.ladder \/ breached' = breached
    BY <1>12 DEF AppliesMeasurement
  <2> QED BY <1>12, <1>a, <2>1, <2>2 DEF Typed, AppliesMeasurement
<1>13. CASE Reboots
  <2>1. caller' \in [Caller -> CallerState] /\ caller'[Loop].at # "new"
    BY <1>13, <1>b, <1>c, Plain DEF Reboots
  <2> QED BY <1>13, <1>a, <2>1 DEF Typed, Reboots
<1> QED
  BY <1>0, <1>1, <1>2, <1>3, <1>4, <1>5, <1>6, <1>7, <1>8, <1>9, <1>10, <1>11, <1>12, <1>13
     DEF Step, ControlNext, Works, ChecksDisk

(* A step of a caller that configures nothing, and leaves the head of the queue if another
   has it, keeps HeadConfigures. *)
LEMMA OthersKeepHead ==
  ASSUME Typed, HeadConfigures, NEW c \in Caller, NEW state \in CallerState, Goes(c, state),
         state.at # "configure", appliedSave' = appliedSave,
         Len(saves') \in Nat, Len(saves) <= Len(saves'),
         configQueue # <<>> /\ configQueue[1] # c =>
           configQueue' # <<>> /\ configQueue'[1] = configQueue[1]
  PROVE  HeadConfigures'
<1>1. /\ caller \in [Caller -> CallerState] /\ appliedSave \in Nat /\ Len(saves) \in Nat
      /\ \A d \in Caller : caller[d].at = "configure" => caller[d].save \in Nat
  BY StateKinds DEF Typed
<1>2. appliedSave' <= Len(saves')
  BY <1>1 DEF HeadConfigures
<1>3. ASSUME NEW d \in Caller, caller'[d].at = "configure"
      PROVE /\ configQueue' # <<>> /\ configQueue'[1] = d
            /\ appliedSave' <= caller'[d].save /\ caller'[d].save <= Len(saves')
  <2>1. d # c /\ caller'[d] = caller[d]
    BY <1>1, <1>3, GoesTyped
  <2>2. configQueue # <<>> /\ configQueue[1] = d /\ appliedSave <= caller[d].save
        /\ caller[d].save <= Len(saves) /\ caller[d].save \in Nat
    BY <1>1, <1>3, <2>1 DEF HeadConfigures
  <2> QED BY <1>1, <2>1, <2>2
<1> QED BY <1>2, <1>3 DEF HeadConfigures

(* Every step keeps the configuring caller at the head, with settings that are not older than
   the collector's; and the collector is not configured from older ones. *)
LEMMA HeadStep ==
  ASSUME ControlConstants, Typed, HeadConfigures, NoLostUpdate, Step
  PROVE  HeadConfigures' /\ (applied' # {} => appliedSave' >= appliedSave)
<1>a. /\ settings \in Settings /\ caller \in [Caller -> CallerState]
      /\ configQueue \in Seq(Caller) /\ appliedSave \in Nat /\ Len(saves) \in Nat
  BY DEF Typed
<1>b. \A c \in Caller : caller[c] \in CallerState
  BY <1>a
<1>c. Loop \in Caller
  BY DEF Caller
<1>d. ASSUME UNCHANGED <<caller, configQueue, appliedSave, saves>>
      PROVE HeadConfigures' /\ (applied' # {} => appliedSave' >= appliedSave)
  BY <1>a, <1>d DEF HeadConfigures
\* A caller goes to a state other than "configure"; queue and saves stay.
<1>e. ASSUME NEW c \in Caller, NEW state \in CallerState, Goes(c, state), state.at # "configure",
             UNCHANGED <<configQueue, appliedSave, saves>>
      PROVE HeadConfigures' /\ (applied' # {} => appliedSave' >= appliedSave)
  BY <1>a, <1>e, OthersKeepHead
<1>0. CASE UNCHANGED controlVars
  BY <1>0, <1>d DEF controlVars
<1>1. ASSUME NEW c \in Caller, PlansImport(c) \/ FinishesPlan(c) \/ SavesDocument(c)
                               \/ Writes(c) \/ Refuses(c)
      PROVE HeadConfigures' /\ (applied' # {} => appliedSave' >= appliedSave)
  <2>1. appliedSave' = appliedSave /\ configQueue' = configQueue
    BY <1>1 DEF PlansImport, FinishesPlan, SavesDocument, Writes, Refuses
  <2>2. caller' \in [Caller -> CallerState]
    BY TypedStep, <1>1 DEF Step, ControlNext, Works, Typed
  <2>3. ASSUME FinishesPlan(c) PROVE \E state : Goes(c, state) /\ state.at # "configure"
    <3>1. PICK state \in {Resting, [at |-> "save", doc |-> caller[c].doc,
                                    previous |-> caller[c].previous]} : Goes(c, state)
      BY <2>3 DEF FinishesPlan
    <3> QED BY <3>1 DEF Resting
  <2>4. ASSUME PlansImport(c) PROVE \E state : Goes(c, state) /\ state.at # "configure"
    <3>1. PICK doc \in Carried[c] : Goes(c, [at |-> "plan", doc |-> doc, previous |-> settings])
      BY <2>4 DEF PlansImport
    <3> QED BY <3>1
  <2>5. ASSUME SavesDocument(c) PROVE \E state : Goes(c, state) /\ state.at # "configure"
    <3>1. PICK doc \in Carried[c] : Goes(c, [at |-> "save", doc |-> doc])
      BY <2>5 DEF SavesDocument
    <3> QED BY <3>1
  <2>6. ASSUME Writes(c) \/ Refuses(c) PROVE \E state : Goes(c, state) /\ state.at # "configure"
    <3>1. Goes(c, [at |-> "lock"]) \/ Goes(c, [at |-> "idle"])
      BY <2>6 DEF Writes, Refuses, Resting
    <3> QED BY <3>1
  <2>7. PICK state : Goes(c, state) /\ state.at # "configure"
    BY <1>1, <2>3, <2>4, <2>5, <2>6
  <2>8. state = caller'[c] /\ state \in CallerState
    BY <1>a, <2>2, <2>7 DEF Goes
  <2>9. Len(saves') \in Nat /\ Len(saves) <= Len(saves')
    <3>1. CASE Writes(c)
      <4>1. caller[c].doc \in Document
        BY <3>1, <1>b, StateKinds DEF Writes
      <4>2. /\ settings' = Decoded(caller[c].doc, settings)
            /\ saves' = Append(saves, [doc |-> caller[c].doc, from |-> settings, to |-> settings'])
        BY <3>1 DEF Writes, Persisted
      <4>3. Len(saves') = Len(saves) + 1
        BY <4>1, <4>2, Appends
      <4> QED BY <1>a, <4>3
    <3>2. CASE ~Writes(c)
      <4>1. saves' = saves
        BY <1>1, <3>2 DEF PlansImport, FinishesPlan, SavesDocument, Refuses
      <4> QED BY <1>a, <4>1
    <3> QED BY <3>1, <3>2
  <2> QED BY <1>a, <2>1, <2>7, <2>8, <2>9, OthersKeepHead
<1>2. ASSUME NEW c \in Caller, Queues(c)
      PROVE HeadConfigures' /\ (applied' # {} => appliedSave' >= appliedSave)
  <2>1. configQueue # <<>> => configQueue' # <<>> /\ configQueue'[1] = configQueue[1]
    BY <1>2, <1>a DEF Queues
  <2> QED BY <1>2, <1>a, <2>1, OthersKeepHead, Plain DEF Queues
<1>3. ASSUME NEW c \in Caller, ReadsDesired(c)
      PROVE HeadConfigures' /\ (applied' # {} => appliedSave' >= appliedSave)
  <2> DEFINE state == [at |-> "configure", desired |-> settings, save |-> Len(saves)]
  <2>1. state \in CallerState
    BY <1>a DEF CallerState
  <2>2. caller'[c] = state /\ \A d \in Caller : d # c => caller'[d] = caller[d]
    BY <1>3, <1>a, <2>1, GoesTyped DEF ReadsDesired
  <2>3. /\ configQueue # <<>> /\ configQueue[1] = c /\ configQueue' = configQueue
        /\ saves' = saves /\ appliedSave' = appliedSave
    BY <1>3 DEF ReadsDesired, Holds
  <2> QED BY <1>a, <2>2, <2>3 DEF HeadConfigures
<1>4. ASSUME NEW c \in Caller, Configures(c)
      PROVE HeadConfigures' /\ (applied' # {} => appliedSave' >= appliedSave)
  <2>1. /\ configQueue[1] = c /\ saves' = saves /\ caller[c].save \in Nat
        /\ appliedSave <= caller[c].save /\ caller[c].save <= Len(saves)
    BY <1>4, <1>b, StateKinds DEF Configures, Holds, HeadConfigures
  <2>2. appliedSave' \in {appliedSave, caller[c].save}
    BY <1>4 DEF Configures
  <2>3. caller'[c] = Resting /\ \A d \in Caller : d # c => caller'[d] = caller[d]
    BY <1>4, <1>a, Plain, GoesTyped DEF Configures
  <2>4. \A d \in Caller : caller'[d].at # "configure"
    BY <2>1, <2>3 DEF HeadConfigures, Resting
  <2> QED BY <1>a, <2>1, <2>2, <2>4 DEF HeadConfigures
<1>5. ASSUME NEW c \in Caller, GivesUp(c)
      PROVE HeadConfigures' /\ (applied' # {} => appliedSave' >= appliedSave)
  <2>1. /\ Goes(c, Resting) /\ saves' = saves /\ appliedSave' = appliedSave
        /\ configQueue' = Left(configQueue, c)
    BY <1>5 DEF GivesUp
  <2>2. configQueue # <<>> /\ configQueue[1] # c =>
          configQueue' # <<>> /\ configQueue'[1] = configQueue[1]
    BY <1>a, <2>1, LeftKeeps
  <2>3. Resting \in CallerState /\ Resting.at # "configure"
    BY Plain DEF Resting
  <2> QED BY <1>a, <2>1, <2>2, <2>3, OthersKeepHead
<1>6. CASE CollectsSnapshot
  BY <1>6, <1>c, <1>e, Plain DEF CollectsSnapshot
<1>7. CASE ReadsLadder \/ Measures \/ AppliesMeasurement \/ CheckFails \/ FreeChanges
  BY <1>7, <1>d DEF ReadsLadder, Measures, AppliesMeasurement, CheckFails, FreeChanges
<1>8. CASE Reboots
  <2>1. \A c \in Caller : caller'[c].at # "configure"
    BY <1>8 DEF Reboots, Resting
  <2>2. appliedSave' = 0 /\ saves' = saves /\ applied' = {}
    BY <1>8 DEF Reboots
  <2> QED BY <1>a, <2>1, <2>2 DEF HeadConfigures
<1> QED
  BY <1>0, <1>1, <1>2, <1>3, <1>4, <1>5, <1>6, <1>7, <1>8
     DEF Step, ControlNext, Works, ChecksDisk

(* Every step keeps the chain of saves. *)
LEMMA ChainStep ==
  ASSUME ControlConstants, Typed, NoLostUpdate, Step
  PROVE  NoLostUpdate'
<1>1. ASSUME NEW c \in Caller, Writes(c) PROVE NoLostUpdate'
  <2>1. caller[c].doc \in Document
    BY <1>1, StateKinds DEF Writes, Typed
  <2>2. /\ settings' = Decoded(caller[c].doc, settings)
        /\ saves' = Append(saves, [doc |-> caller[c].doc, from |-> settings, to |-> settings'])
    BY <1>1 DEF Writes, Persisted
  <2> QED BY <2>1, <2>2, Appends
<1>2. CASE settings' = settings /\ saves' = saves
  BY <1>2 DEF NoLostUpdate
<1>3. (\E c \in Caller : Writes(c)) \/ (settings' = settings /\ saves' = saves)
  BY DEF Step, ControlNext, Works, ChecksDisk, controlVars, PlansImport, FinishesPlan,
         SavesDocument, Refuses, Queues, ReadsDesired, Configures, GivesUp, CollectsSnapshot,
         ReadsLadder, Measures, AppliesMeasurement, CheckFails, FreeChanges, Reboots
<1> QED BY <1>1, <1>2, <1>3

(* No step keeps anything longer while the pressure lasts. *)
LEMMA RetentionStep ==
  ASSUME ControlConstants, Typed, RetentionOnlyShrinks, Step
  PROVE  RetentionOnlyShrinks'
<1>a. settings.ladder \in LadderSettings /\ breached \in LadderSettings /\ settings \in Settings
  BY DEF Typed, Settings
<1>1. ASSUME NEW c \in Caller, Writes(c) PROVE RetentionOnlyShrinks'
  <2>1. caller[c].doc \in Document
    BY <1>1, StateKinds DEF Writes, Typed
  <2>2. /\ settings' = Decoded(caller[c].doc, settings) /\ ~Refused(settings', settings)
        /\ pressure' = pressure /\ breached' = breached
    BY <1>1 DEF Writes, Persisted
  <2>3. settings'.ladder \in LadderSettings
    BY <1>a, <2>1, <2>2, DecodedTyped DEF Settings
  <2>4. SUFFICES ASSUME pressure, NEW kind \in DOMAIN Horizons(breached)
                 PROVE Horizons(settings'.ladder)[kind] <= Horizons(breached)[kind]
    BY <2>2 DEF RetentionOnlyShrinks
  <2>5. IsValid(settings'.ladder) /\ ~GrowsFrom(settings'.ladder, settings.ladder)
    BY <2>2, <2>4 DEF Refused
  <2>6. /\ kind \in DOMAIN Horizons(settings.ladder)
        /\ kind \in DOMAIN Horizons(settings'.ladder)
    BY <1>a, <2>3, <2>4, HorizonsInt
  <2>7. Horizons(settings'.ladder)[kind] <= Horizons(settings.ladder)[kind]
    BY <1>a, <2>3, <2>5, <2>6, NotGrown
  <2>8. Horizons(settings.ladder)[kind] <= Horizons(breached)[kind]
    BY <2>4 DEF RetentionOnlyShrinks
  <2>9. /\ Horizons(settings'.ladder)[kind] \in Int /\ Horizons(settings.ladder)[kind] \in Int
        /\ Horizons(breached)[kind] \in Int
    BY <1>a, <2>3, <2>4, <2>6, HorizonsInt
  <2> QED BY <2>7, <2>8, <2>9
<1>2. CASE AppliesMeasurement
  <2>1. /\ settings' = settings
        /\ pressure' => (~pressure /\ breached' = settings.ladder)
                        \/ (pressure /\ breached' = breached)
    BY <1>2 DEF AppliesMeasurement
  <2>2. SUFFICES ASSUME pressure'
                 PROVE \A kind \in DOMAIN Horizons(breached') :
                         Horizons(settings.ladder)[kind] <= Horizons(breached')[kind]
    BY <2>1 DEF RetentionOnlyShrinks
  <2>3. CASE breached' = settings.ladder
    <3>1. \A kind \in DOMAIN Horizons(settings.ladder) : Horizons(settings.ladder)[kind] \in Int
      BY <1>a, HorizonsInt
    <3> QED BY <2>3, <3>1
  <2>4. CASE pressure /\ breached' = breached
    BY <2>4 DEF RetentionOnlyShrinks
  <2> QED BY <2>1, <2>2, <2>3, <2>4
<1>3. CASE settings' = settings /\ pressure' = pressure /\ breached' = breached
  BY <1>3 DEF RetentionOnlyShrinks
<1>4. \/ \E c \in Caller : Writes(c)
      \/ AppliesMeasurement
      \/ settings' = settings /\ pressure' = pressure /\ breached' = breached
  BY DEF Step, ControlNext, Works, ChecksDisk, controlVars, PlansImport, FinishesPlan,
         SavesDocument, Refuses, Queues, ReadsDesired, Configures, GivesUp, CollectsSnapshot,
         ReadsLadder, Measures, CheckFails, FreeChanges, Reboots
<1> QED BY <1>1, <1>2, <1>3, <1>4

LEMMA InitInv == ControlConstants /\ ControlInit => ControlInv
<1> SUFFICES ASSUME ControlConstants, ControlInit PROVE ControlInv
  OBVIOUS
<1>1. settings \in Settings /\ breached \in LadderSettings /\ pressure = FALSE
      /\ configQueue = <<>> /\ saves = <<>> /\ appliedSave = 0 /\ settings = DefaultSettings
  BY DefaultTyped DEF ControlInit, ControlConstants
<1>2. caller \in [Caller -> CallerState] /\ caller[Loop].at # "new"
      /\ \A c \in Caller : caller[c].at # "configure"
  BY DEF ControlInit, CallerState, Resting, Caller
<1>3. Typed
  <2>1. configQueue \in Seq(Caller)
        /\ saves \in Seq([doc : Document, from : Settings, to : Settings])
    BY <1>1
  <2>2. pressure \in BOOLEAN /\ appliedSave \in Nat
    BY <1>1
  <2> QED BY <1>1, <1>2, <2>1, <2>2 DEF Typed
<1>4. HeadConfigures /\ NoLostUpdate /\ RetentionOnlyShrinks
  BY <1>1, <1>2 DEF HeadConfigures, NoLostUpdate, RetentionOnlyShrinks
<1> QED BY <1>3, <1>4 DEF ControlInv

LEMMA StepInv == ControlConstants /\ ControlInv /\ Step => ControlInv'
BY TypedStep, HeadStep, ChainStep, RetentionStep DEF ControlInv

LEMMA InvAlways == ControlSpec => []ControlInv
<1>1. ControlInit => ControlInv
  BY ControlConstants, InitInv
<1>2. ControlInv /\ [ControlNext]_controlVars => ControlInv'
  BY ControlConstants, StepInv DEF Step
<1> QED BY <1>1, <1>2, PTL DEF ControlSpec

(* While the disk is low, no series of saves and imports keeps any data longer than when that
   began (RetentionLadder::validate as put_settings_document calls it). *)
THEOREM RetentionShrinksAlways == ControlSpec => []RetentionOnlyShrinks
BY InvAlways, PTL DEF ControlInv

(* However saves, imports and their plans interleave, a save replaces what the save before it
   left and keeps the blocks its document leaves out (put_settings_document). *)
THEOREM NoUpdateIsLost == ControlSpec => []NoLostUpdate
BY InvAlways, PTL DEF ControlInv

(* The collector is never configured from older settings than it was (the lock over reading
   and configuring in configure_collector_if_changed). *)
THEOREM ConfigurationAdvances == ControlSpec => ConfigurationNeverGoesBack
<1>1. ControlInv /\ [ControlNext]_controlVars =>
        [applied' # {} => appliedSave' >= appliedSave]_controlVars
  BY ControlConstants, HeadStep DEF ControlInv, Step
<1> QED BY <1>1, InvAlways, PTL DEF ControlSpec, ConfigurationNeverGoesBack

-----------------------------------------------------------------------------
(* Types of the rest, and the queue of the configuration lock as a whole. *)

\* Waiting for the lock, or its holder.
AtLock(c) == caller[c].at \in {"wait", "configure"}

QueueInv ==
  /\ \A c \in Caller : AtLock(c) <=> \E i \in 1..Len(configQueue) : configQueue[i] = c
  /\ \A i, j \in 1..Len(configQueue) : configQueue[i] = configQueue[j] => i = j

RestTyped ==
  /\ flags \in [l3 : BOOLEAN, l4 : BOOLEAN] /\ free \in FreeBytes
  /\ disk.at \in {"idle", "measure", "apply"}
  /\ applied \subseteq Block \X Block /\ collector \subseteq Block \X Block
  /\ spent \in [free : 0..MaxFreeChanges, mishaps : 0..MaxControlMishaps]

LEMMA RestTypedStep ==
  ASSUME ControlConstants, Typed, NoLostUpdate, RestTyped, Step
  PROVE  RestTyped'
<1>a. /\ \A c \in Caller : caller[c] \in CallerState
      /\ spent.free \in 0..MaxFreeChanges /\ spent.mishaps \in 0..MaxControlMishaps
      /\ MaxFreeChanges \in Nat /\ MaxControlMishaps \in Nat /\ settings \in Settings
  BY DEF Typed, RestTyped, ControlConstants
<1>1. flags' \in [l3 : BOOLEAN, l4 : BOOLEAN]
  <2>1. CASE \E c \in Caller : Writes(c)
    <3>1. PICK c \in Caller : Writes(c)
      BY <2>1
    <3>2. caller[c].doc \in Document
      BY <1>a, <3>1, StateKinds DEF Writes
    <3>3. Decoded(caller[c].doc, settings).ladder \in LadderSettings
      BY <1>a, <3>2, DecodedTyped DEF Settings
    <3>4. \A ladder \in LadderSettings : ladder.l3.enabled \in BOOLEAN /\ ladder.l4.enabled \in BOOLEAN
      BY DEF LadderSettings, Toggled
    <3> QED BY <3>1, <3>3, <3>4 DEF Writes, Persisted
  <2>2. CASE ~\E c \in Caller : Writes(c)
    <3>1. flags' = flags
      BY <2>2 DEF Step, ControlNext, Works, ChecksDisk, controlVars, PlansImport, FinishesPlan,
         SavesDocument, Refuses, Queues, ReadsDesired, Configures, GivesUp, CollectsSnapshot,
         ReadsLadder, Measures, AppliesMeasurement, CheckFails, FreeChanges, Reboots
    <3> QED BY <3>1 DEF RestTyped
  <2> QED BY <2>1, <2>2
<1>2. applied' \subseteq Block \X Block /\ collector' \subseteq Block \X Block
  <2>1. CASE \E c \in Caller : Configures(c)
    <3>1. PICK c \in Caller : Configures(c)
      BY <2>1
    <3>2. caller[c].desired \in Settings
      BY <1>a, <3>1, StateKinds DEF Configures
    <3>3. ConfigFrom(caller[c].desired) \in Block \X Block
      BY <3>2 DEF ConfigFrom, Settings
    <3> QED BY <3>1, <3>3 DEF Configures, RestTyped
  <2>2. CASE ~\E c \in Caller : Configures(c)
    <3>1. (applied' = applied /\ collector' = collector) \/ (applied' = {} /\ collector' = {})
      BY <2>2 DEF Step, ControlNext, Works, ChecksDisk, controlVars, PlansImport, FinishesPlan,
         SavesDocument, Writes, Refuses, Queues, ReadsDesired, GivesUp, CollectsSnapshot,
         ReadsLadder, Measures, AppliesMeasurement, CheckFails, FreeChanges, Reboots
    <3> QED BY <3>1 DEF RestTyped
  <2> QED BY <2>1, <2>2
<1>3. free' \in FreeBytes /\ disk'.at \in {"idle", "measure", "apply"}
  <2>1. free' = free \/ free' \in FreeBytes
    BY DEF Step, ControlNext, Works, ChecksDisk, controlVars, PlansImport, FinishesPlan,
         SavesDocument, Writes, Refuses, Queues, ReadsDesired, Configures, GivesUp, CollectsSnapshot,
         ReadsLadder, Measures, AppliesMeasurement, CheckFails, FreeChanges, Reboots
  <2>2. disk' = disk \/ disk' = Resting \/ ReadsLadder \/ Measures
    BY DEF Step, ControlNext, Works, ChecksDisk, controlVars, PlansImport, FinishesPlan,
         SavesDocument, Writes, Refuses, Queues, ReadsDesired, Configures, GivesUp, CollectsSnapshot,
         AppliesMeasurement, CheckFails, FreeChanges, Reboots
  <2>3. ReadsLadder \/ Measures => disk'.at \in {"measure", "apply"}
    BY DEF ReadsLadder, Measures
  <2> QED BY <2>1, <2>2, <2>3 DEF RestTyped, Resting
<1>4. spent' \in [free : 0..MaxFreeChanges, mishaps : 0..MaxControlMishaps]
  <2>1. \/ spent' = spent
        \/ spent.free < MaxFreeChanges /\ spent' = [spent EXCEPT !.free = @ + 1]
        \/ spent.mishaps < MaxControlMishaps /\ spent' = [spent EXCEPT !.mishaps = @ + 1]
    BY DEF Step, ControlNext, Works, ChecksDisk, controlVars, PlansImport, FinishesPlan,
         SavesDocument, Writes, Refuses, Queues, ReadsDesired, Configures, GivesUp, CollectsSnapshot,
         ReadsLadder, Measures, AppliesMeasurement, CheckFails, FreeChanges, Reboots
  <2>2. CASE spent' = spent
    BY <2>2 DEF RestTyped
  <2>3. CASE spent.free < MaxFreeChanges /\ spent' = [spent EXCEPT !.free = @ + 1]
    <3>1. spent.free + 1 \in 0..MaxFreeChanges
      BY <1>a, <2>3
    <3> QED BY <2>3, <3>1 DEF RestTyped
  <2>4. CASE spent.mishaps < MaxControlMishaps /\ spent' = [spent EXCEPT !.mishaps = @ + 1]
    <3>1. spent.mishaps + 1 \in 0..MaxControlMishaps
      BY <1>a, <2>4
    <3> QED BY <2>4, <3>1 DEF RestTyped
  <2> QED BY <2>1, <2>2, <2>3, <2>4
<1> QED BY <1>1, <1>2, <1>3, <1>4 DEF RestTyped

(* Who leaves the queue leaves the others in it, each where there was one. *)
LEMMA LeftOthers ==
  ASSUME NEW queue \in Seq(Caller), NEW c \in Caller,
         \A i, j \in 1..Len(queue) : queue[i] = queue[j] => i = j
  PROVE  /\ \A d : (\E i \in 1..Len(Left(queue, c)) : Left(queue, c)[i] = d)
                     <=> d # c /\ \E i \in 1..Len(queue) : queue[i] = d
         /\ \A i, j \in 1..Len(Left(queue, c)) : Left(queue, c)[i] = Left(queue, c)[j] => i = j
<1>1. CASE \A i \in 1..Len(queue) : queue[i] # c
  BY <1>1 DEF Left
<1>2. CASE ~\A i \in 1..Len(queue) : queue[i] # c
  <2> DEFINE k == CHOOSE i \in 1..Len(queue) : queue[i] = c
             n == Len(queue)
             left == [i \in 1..(n - 1) |-> queue[IF i < k THEN i ELSE i + 1]]
  <2>1. k \in 1..n /\ queue[k] = c /\ n \in Nat
    BY <1>2
  <2>2. Left(queue, c) = left
    BY <1>2 DEF Left
  <2> HIDE DEF k, n
  <2>3. Len(left) = n - 1
    <3>1. n - 1 \in Nat /\ DOMAIN left = 1..(n - 1)
      BY <2>1
    <3>2. left \in Seq(Caller)
      <4>1. \A i \in 1..(n - 1) : queue[IF i < k THEN i ELSE i + 1] \in Caller
        BY <2>1 DEF n
      <4> QED BY <3>1, <4>1
    <3> QED BY <3>1, <3>2
  <2>4. \A i, j \in 1..n : queue[i] = queue[j] => i = j
    BY DEF n
  <2>5. \A i \in 1..(n - 1) : left[i] = queue[IF i < k THEN i ELSE i + 1]
    OBVIOUS
  <2> HIDE DEF left
  <2>6. ASSUME NEW i \in 1..(n - 1)
        PROVE  left[i] # c /\ \E j \in 1..n : queue[j] = left[i]
    <3>1. (IF i < k THEN i ELSE i + 1) \in 1..n /\ (IF i < k THEN i ELSE i + 1) # k
      BY <2>1
    <3> QED BY <2>1, <2>4, <2>5, <3>1
  <2>7. ASSUME NEW j \in 1..n, queue[j] # c
        PROVE  \E i \in 1..(n - 1) : left[i] = queue[j]
    <3>1. CASE j < k
      <4>1. j \in 1..(n - 1) /\ left[j] = queue[j]
        BY <2>1, <2>5, <3>1
      <4> QED BY <4>1
    <3>2. CASE ~(j < k)
      <4>1. j # k
        BY <2>1, <2>7
      <4>2. j - 1 \in 1..(n - 1) /\ ~(j - 1 < k) /\ j - 1 + 1 = j
        BY <2>1, <3>2, <4>1
      <4>3. left[j - 1] = queue[j]
        BY <2>5, <4>2
      <4> QED BY <4>2, <4>3
    <3> QED BY <3>1, <3>2
  <2>8. ASSUME NEW i \in 1..(n - 1), NEW j \in 1..(n - 1), left[i] = left[j]
        PROVE  i = j
    <3>1. /\ (IF i < k THEN i ELSE i + 1) \in 1..n /\ (IF j < k THEN j ELSE j + 1) \in 1..n
      BY <2>1
    <3>2. (IF i < k THEN i ELSE i + 1) = (IF j < k THEN j ELSE j + 1)
      BY <2>4, <2>5, <2>8, <3>1
    <3> QED BY <2>1, <3>2
  <2>9. \A d : (\E i \in 1..(n - 1) : left[i] = d) <=> d # c /\ \E i \in 1..n : queue[i] = d
    <3>1. ASSUME NEW d, NEW i \in 1..(n - 1), left[i] = d
          PROVE  d # c /\ \E j \in 1..n : queue[j] = d
      BY <2>6, <3>1
    <3>2. ASSUME NEW d, d # c, NEW j \in 1..n, queue[j] = d
          PROVE  \E i \in 1..(n - 1) : left[i] = d
      BY <2>7, <3>2
    <3> QED BY <3>1, <3>2
  <2>10. n = Len(queue)
    BY DEF n
  <2> QED BY <2>2, <2>3, <2>8, <2>9, <2>10
<1> QED BY <1>1, <1>2

LEMMA QueueStep ==
  ASSUME ControlConstants, Typed, HeadConfigures, QueueInv, Step
  PROVE  QueueInv'
<1> DEFINE n == Len(configQueue)
<1>a. /\ caller \in [Caller -> CallerState] /\ configQueue \in Seq(Caller) /\ n \in Nat
      /\ \A c \in Caller : caller[c] \in CallerState
  BY DEF Typed
<1>b. Loop \in Caller
  BY DEF Caller
\* A caller goes from outside the lock to outside it, or stays where it is in the queue.
<1>c. ASSUME NEW c \in Caller, NEW state, Goes(c, state), configQueue' = configQueue,
             state.at \in {"wait", "configure"} <=> AtLock(c)
      PROVE  QueueInv'
  <2>1. \A d \in Caller : AtLock(d)' <=> AtLock(d)
    BY <1>a, <1>c DEF Goes, AtLock
  <2> QED BY <1>c, <2>1 DEF QueueInv
<1>0. CASE UNCHANGED <<caller, configQueue>>
  BY <1>0 DEF QueueInv, AtLock
<1>1. ASSUME NEW c \in Caller, PlansImport(c) \/ SavesDocument(c) PROVE QueueInv'
  <2>1. caller[c].at = "new" /\ configQueue' = configQueue
    BY <1>1 DEF PlansImport, SavesDocument
  <2>2. PICK state : Goes(c, state) /\ state.at \in {"plan", "save"}
    <3>1. PICK doc : Goes(c, [at |-> "plan", doc |-> doc, previous |-> settings])
                     \/ Goes(c, [at |-> "save", doc |-> doc])
      BY <1>1 DEF PlansImport, SavesDocument
    <3>2. /\ [at |-> "plan", doc |-> doc, previous |-> settings].at = "plan"
          /\ [at |-> "save", doc |-> doc].at = "save"
      OBVIOUS
    <3> QED BY <3>1, <3>2
  <2> QED BY <1>c, <2>1, <2>2 DEF AtLock
<1>2. ASSUME NEW c \in Caller, FinishesPlan(c) \/ Writes(c) \/ Refuses(c) PROVE QueueInv'
  <2>1. caller[c].at \in {"plan", "save"} /\ configQueue' = configQueue
    BY <1>2 DEF FinishesPlan, Writes, Refuses
  <2>2. PICK state : Goes(c, state) /\ state.at \in {"idle", "save", "lock"}
    BY <1>2 DEF FinishesPlan, Writes, Refuses, Resting
  <2> QED BY <1>c, <2>1, <2>2 DEF AtLock
<1>3. CASE CollectsSnapshot
  <2>1. caller[Loop].at = "idle" /\ configQueue' = configQueue /\ Goes(Loop, [at |-> "lock"])
    BY <1>3 DEF CollectsSnapshot
  <2> QED BY <1>b, <1>c, <2>1 DEF AtLock
<1>4. ASSUME NEW c \in Caller, ReadsDesired(c) PROVE QueueInv'
  <2>1. caller[c].at = "wait" /\ configQueue' = configQueue
    BY <1>4 DEF ReadsDesired
  <2>2. PICK state : Goes(c, state) /\ state.at = "configure"
    BY <1>4 DEF ReadsDesired
  <2> QED BY <1>c, <2>1, <2>2 DEF AtLock
<1>5. ASSUME NEW c \in Caller, Queues(c) PROVE QueueInv'
  <2>1. /\ caller[c].at = "lock" /\ configQueue' = Append(configQueue, c)
        /\ caller'[c].at = "wait" /\ \A d \in Caller : d # c => caller'[d] = caller[d]
    BY <1>5, <1>a DEF Queues, Goes
  <2>2. /\ Len(configQueue') = n + 1 /\ configQueue'[n + 1] = c
        /\ \A i \in 1..n : configQueue'[i] = configQueue[i]
    BY <1>a, <2>1
  <2>3. \A i \in 1..n : configQueue[i] # c
    BY <2>1 DEF QueueInv, AtLock
  <2>4. \A i \in 1..(n + 1) : i \in 1..n \/ i = n + 1
    BY <1>a
  <2>5. \A i \in 1..n : i \in 1..(n + 1)
    BY <1>a
  <2>6. n + 1 \in 1..(n + 1)
    BY <1>a
  <2>7. ASSUME NEW d \in Caller
        PROVE  AtLock(d)' <=> \E i \in 1..(n + 1) : configQueue'[i] = d
    <3>1. CASE d = c
      BY <2>1, <2>2, <2>6, <3>1 DEF AtLock
    <3>2. CASE d # c
      <4>1. AtLock(d)' <=> AtLock(d)
        BY <2>1, <3>2 DEF AtLock
      <4> QED BY <2>2, <2>4, <2>5, <3>2, <4>1 DEF QueueInv
    <3> QED BY <3>1, <3>2
  <2>8. ASSUME NEW i \in 1..(n + 1), NEW j \in 1..(n + 1), configQueue'[i] = configQueue'[j]
        PROVE  i = j
    BY <2>2, <2>3, <2>4, <2>8 DEF QueueInv
  <2> QED BY <2>2, <2>7, <2>8 DEF QueueInv
<1>6. ASSUME NEW c \in Caller, Configures(c) PROVE QueueInv'
  <2>1. /\ configQueue # <<>> /\ configQueue[1] = c /\ configQueue' = Tail(configQueue)
        /\ caller'[c].at = "idle" /\ \A d \in Caller : d # c => caller'[d] = caller[d]
    BY <1>6, <1>a DEF Configures, Holds, Goes, Resting
  <2>2. n # 0 /\ 1 \in 1..n
    BY <1>a, <2>1
  <2>3. /\ Len(configQueue') = n - 1
        /\ \A i \in 1..(n - 1) : configQueue'[i] = configQueue[i + 1]
    BY <1>a, <2>1
  <2>4. \A i \in 1..(n - 1) : i + 1 \in 1..n /\ i + 1 # 1
    BY <1>a
  <2>5. \A i \in 1..n : i # 1 => i - 1 \in 1..(n - 1) /\ i - 1 + 1 = i
    BY <1>a
  <2>6. ASSUME NEW d \in Caller
        PROVE  AtLock(d)' <=> \E i \in 1..(n - 1) : configQueue'[i] = d
    <3>1. CASE d = c
      <4>1. ~AtLock(d)'
        BY <2>1, <3>1 DEF AtLock
      <4>2. \A i \in 1..(n - 1) : configQueue'[i] # c
        BY <2>1, <2>2, <2>3, <2>4 DEF QueueInv
      <4> QED BY <3>1, <4>1, <4>2
    <3>2. CASE d # c
      <4>1. AtLock(d)' <=> AtLock(d)
        BY <2>1, <3>2 DEF AtLock
      <4>2. (\E i \in 1..n : configQueue[i] = d) => \E i \in 1..(n - 1) : configQueue'[i] = d
        <5>1. ASSUME NEW i \in 1..n, configQueue[i] = d PROVE \E k \in 1..(n - 1) : configQueue'[k] = d
          <6>1. i # 1
            BY <2>1, <3>2, <5>1
          <6>2. configQueue'[i - 1] = d
            BY <2>3, <2>5, <5>1, <6>1
          <6> QED BY <2>5, <6>1, <6>2
        <5> QED BY <5>1
      <4>3. (\E i \in 1..(n - 1) : configQueue'[i] = d) => \E i \in 1..n : configQueue[i] = d
        BY <2>3, <2>4
      <4> QED BY <4>1, <4>2, <4>3 DEF QueueInv
    <3> QED BY <3>1, <3>2
  <2>7. ASSUME NEW i \in 1..(n - 1), NEW j \in 1..(n - 1), configQueue'[i] = configQueue'[j]
        PROVE  i = j
    <3>1. i + 1 = j + 1
      BY <2>3, <2>4, <2>7 DEF QueueInv
    <3> QED BY <3>1
  <2> QED BY <2>3, <2>6, <2>7 DEF QueueInv
<1>7. ASSUME NEW c \in Caller, GivesUp(c) PROVE QueueInv'
  <2>1. /\ configQueue' = Left(configQueue, c)
        /\ caller'[c].at = "idle" /\ \A d \in Caller : d # c => caller'[d] = caller[d]
    BY <1>7, <1>a DEF GivesUp, Goes, Resting
  <2>2. /\ \A d : (\E i \in 1..Len(configQueue') : configQueue'[i] = d)
                    <=> d # c /\ \E i \in 1..n : configQueue[i] = d
        /\ \A i, j \in 1..Len(configQueue') : configQueue'[i] = configQueue'[j] => i = j
    <3>1. \A i, j \in 1..Len(configQueue) : configQueue[i] = configQueue[j] => i = j
      BY DEF QueueInv
    <3> DEFINE rest == Left(configQueue, c)
    <3>2. /\ \A d : (\E i \in 1..Len(rest) : rest[i] = d)
                      <=> d # c /\ \E i \in 1..Len(configQueue) : configQueue[i] = d
          /\ \A i, j \in 1..Len(rest) : rest[i] = rest[j] => i = j
      BY <1>a, <3>1, LeftOthers
    <3>3. configQueue' = rest
      BY <2>1
    <3> HIDE DEF rest
    <3> QED BY <3>2, <3>3
  <2>3. \A d \in Caller : AtLock(d)' <=> d # c /\ AtLock(d)
    BY <2>1 DEF AtLock
  <2> QED BY <2>2, <2>3 DEF QueueInv
<1>8. CASE Reboots
  <2>1. configQueue' = <<>> /\ \A c \in Caller : caller'[c].at \in {"lock", "new", "idle"}
    BY <1>8 DEF Reboots, Resting
  <2> QED BY <2>1 DEF QueueInv, AtLock
<1>9. CASE ReadsLadder \/ Measures \/ AppliesMeasurement \/ CheckFails \/ FreeChanges \/ UNCHANGED controlVars
  BY <1>0, <1>9 DEF ReadsLadder, Measures, AppliesMeasurement, CheckFails, FreeChanges, controlVars
<1> QED
  BY <1>1, <1>2, <1>3, <1>4, <1>5, <1>6, <1>7, <1>8, <1>9
     DEF Step, ControlNext, Works, ChecksDisk

\* At most one turn each.
LEMMA OneTurn ==
  ASSUME NEW S, \A i, j \in S : i = j
  PROVE  Cardinality(S) = IF S = {} THEN 0 ELSE 1
<1>1. CASE S = {}
  BY <1>1, FS_EmptySet
<1>2. CASE S # {}
  <2>1. PICK x : S = {x}
    BY <1>2
  <2> QED BY <1>2, <2>1, FS_Singleton
<1> QED BY <1>1, <1>2

(* The types of the settings' side; and the queue of the configuration lock has exactly those *)
(* calls in it, once, that wait for it or hold it: none that gave up keeps it.                *)
THEOREM ControlStatesTyped == ControlSpec => []ControlTypeOK
<1>1. ControlInit => RestTyped /\ QueueInv
  <2> SUFFICES ASSUME ControlInit PROVE RestTyped /\ QueueInv
    OBVIOUS
  <2>1. /\ DefaultLadder.l3.enabled \in BOOLEAN /\ DefaultLadder.l4.enabled \in BOOLEAN
        /\ MaxFreeChanges \in Nat /\ MaxControlMishaps \in Nat
    BY ControlConstants DEF ControlConstants, LadderSettings, Toggled
  <2>2. flags \in [l3 : BOOLEAN, l4 : BOOLEAN]
    BY <2>1 DEF ControlInit
  <2>3. spent \in [free : 0..MaxFreeChanges, mishaps : 0..MaxControlMishaps]
    BY <2>1 DEF ControlInit
  <2>4. free \in FreeBytes /\ disk.at = "idle" /\ applied = {} /\ collector = {}
    BY DEF ControlInit, Resting
  <2>5. QueueInv
    BY DEF ControlInit, QueueInv, AtLock, Resting
  <2> QED BY <2>2, <2>3, <2>4, <2>5 DEF RestTyped
<1>2. ControlInv /\ RestTyped /\ QueueInv /\ [ControlNext]_controlVars => (RestTyped /\ QueueInv)'
  BY ControlConstants, RestTypedStep, QueueStep DEF ControlInv, Step
<1>3. ControlInv /\ RestTyped /\ QueueInv => ControlTypeOK
  <2> SUFFICES ASSUME ControlInv, RestTyped, QueueInv PROVE ControlTypeOK
    OBVIOUS
  <2>1. /\ settings \in Settings /\ pressure \in BOOLEAN /\ breached \in LadderSettings
        /\ configQueue \in Seq(Caller) /\ \A c \in Caller : caller[c] \in CallerState
    BY DEF ControlInv, Typed
  <2>2. \A c \in Caller :
          caller[c].at \in {"new", "idle", "plan", "save", "lock", "wait", "configure"}
    BY <2>1, StateKinds
  <2>3. appliedSave \in 0..Len(saves)
    <3>1. Len(saves) \in Nat /\ appliedSave \in Nat /\ appliedSave <= Len(saves)
      BY DEF ControlInv, Typed, HeadConfigures
    <3> QED BY <3>1
  <2>4. ASSUME NEW c \in Caller
        PROVE  Cardinality({i \in 1..Len(configQueue) : configQueue[i] = c})
                 = IF caller[c].at \in {"wait", "configure"} THEN 1 ELSE 0
    <3> DEFINE S == {i \in 1..Len(configQueue) : configQueue[i] = c}
    <3>1. \A i, j \in S : i = j
      BY DEF QueueInv
    <3>2. S = {} <=> caller[c].at \notin {"wait", "configure"}
      BY DEF QueueInv, AtLock
    <3>3. Cardinality(S) = IF S = {} THEN 0 ELSE 1
      BY <3>1, OneTurn
    <3> QED BY <3>2, <3>3
  <2>5. /\ flags \in [l3 : BOOLEAN, l4 : BOOLEAN] /\ free \in FreeBytes
        /\ disk.at \in {"idle", "measure", "apply"}
        /\ applied \subseteq Block \X Block /\ collector \subseteq Block \X Block
        /\ spent \in [free : 0..MaxFreeChanges, mishaps : 0..MaxControlMishaps]
    BY DEF RestTyped
  <2> QED BY <2>1, <2>2, <2>3, <2>4, <2>5 DEF ControlTypeOK
<1> QED BY <1>1, <1>2, <1>3, InvAlways, PTL DEF ControlSpec

-----------------------------------------------------------------------------
(* The export loop of OpenTelemetry. *)

OtelStep == [OtelNext]_otelVars

LoopState ==
  [at : {"read"}] \cup [at : {"sleep"}, left : Nat] \cup [at : {"act"}, settings : OtelSettings]
    \cup [at : {"export"}, settings : OtelSettings, elapsed : Nat]

StatusState ==
  [enabled : BOOLEAN, endpoint : {s.endpoint : s \in OtelSettings}, last : {"none", "success", "failure"}]

\* An age is as much below zero as the clock was set back.
OtelTyped ==
  /\ wanted \in OtelSettings /\ latest \in BOOLEAN /\ loop \in LoopState
  /\ pipeline \subseteq OtelSettings /\ observed \subseteq OtelSettings
  /\ lastAttempt \subseteq Int /\ \A age \in lastAttempt : age <= MaxInterval
  /\ status \in StatusState
  /\ sinceStart \subseteq [settings : OtelSettings, age : 0..MaxInterval]
  /\ otelSpent \in [changes : Nat, mishaps : 0..MaxOtelMishaps, steps : 0..MaxClockSteps]

AgesBounded == \A age \in lastAttempt : -(ClockStep * otelSpent.steps) <= age

\* While the clock is left alone and the loop goes by the settings of its last export, the
\* schedule has an attempt since.
SpacedInv ==
  \A x \in sinceStart :
    /\ latest /\ x.settings.enabled /\ x.settings \notin Unbuildable /\ observed = {x.settings}
    /\ otelSpent.steps = 0 => lastAttempt # {} /\ \A age \in lastAttempt : age <= x.age

OtelInv ==
  /\ OtelTyped /\ AgesBounded /\ PipelineIsOfSettings
  /\ pipeline \cap Unbuildable = {}
  /\ SpacedInv

(* What each iteration leaves of the exporter's state. *)
LEMMA OtelTypedStep ==
  ASSUME OtelConstants, OtelTyped, OtelStep
  PROVE  OtelTyped'
<1>0. /\ \A s \in OtelSettings : s.enabled \in BOOLEAN
      /\ Tick \in Nat /\ RetryDelay \in Nat /\ MaxInterval \in Nat /\ ClockStep \in Nat
      /\ MaxOtelMishaps \in Nat /\ MaxClockSteps \in Nat
      /\ otelSpent.changes \in Nat /\ otelSpent.mishaps \in 0..MaxOtelMishaps
      /\ otelSpent.steps \in 0..MaxClockSteps
  BY DEF OtelConstants, OtelTyped
<1>1. \A s \in OtelSettings : StatusFor(s) \in StatusState
  BY <1>0 DEF OtelTyped, StatusFor, StatusState
<1>2. \A n \in Nat : Sleeping(n) \in LoopState
  BY DEF Sleeping, LoopState
<1>3. \A s \in OtelSettings : /\ PipelineAfter(s) \subseteq OtelSettings
                              /\ AttemptAfter(s) \subseteq lastAttempt
                              /\ PipelineBuilt(s) \subseteq OtelSettings
                              /\ SinceAfter(s) \subseteq sinceStart
  BY DEF OtelTyped, PipelineAfter, AttemptAfter, SinceAfter, PipelineBuilt
<1>4. loop.at = "act" => loop.settings \in OtelSettings
  BY DEF OtelTyped, LoopState
<1>5. CASE ReadsSettings \/ SavesOtel \/ FirstSnapshot \/ UNCHANGED otelVars
  <2>1. CASE ReadsSettings
    <3>1. [at |-> "act", settings |-> wanted] \in LoopState
      BY DEF OtelTyped, LoopState
    <3> QED BY <2>1, <3>1 DEF ReadsSettings, OtelTyped
  <2>2. CASE SavesOtel
    <3>1. [otelSpent EXCEPT !.changes = @ + 1] \in [changes : Nat, mishaps : 0..MaxOtelMishaps, steps : 0..MaxClockSteps]
      BY DEF OtelTyped
    <3> QED BY <2>2, <3>1 DEF SavesOtel, OtelTyped
  <2>3. CASE FirstSnapshot \/ UNCHANGED otelVars
    BY <2>3 DEF FirstSnapshot, otelVars, OtelTyped
  <2> QED BY <1>5, <2>1, <2>2, <2>3
<1>6. CASE ReadFails \/ ClockSteps
  <2>1. /\ otelSpent' \in [changes : Nat, mishaps : 0..MaxOtelMishaps, steps : 0..MaxClockSteps]
        /\ loop' \in LoopState
    <3>1. CASE ReadFails
      <4>1. /\ otelSpent' = [otelSpent EXCEPT !.mishaps = @ + 1]
            /\ otelSpent.mishaps < MaxOtelMishaps /\ loop' = Sleeping(RetryDelay)
        BY <3>1 DEF ReadFails
      <4>2. otelSpent.mishaps + 1 \in 0..MaxOtelMishaps
        BY <1>0, <4>1
      <4>3. loop' \in LoopState
        BY <1>0, <1>2, <4>1
      <4> QED BY <4>1, <4>2, <4>3 DEF OtelTyped
    <3>2. CASE ClockSteps
      <4>1. /\ otelSpent' = [otelSpent EXCEPT !.steps = @ + 1]
            /\ otelSpent.steps < MaxClockSteps /\ loop' = loop
        BY <3>2 DEF ClockSteps
      <4>2. otelSpent.steps + 1 \in 0..MaxClockSteps
        BY <1>0, <4>1
      <4> QED BY <4>1, <4>2 DEF OtelTyped
    <3> QED BY <1>6, <3>1, <3>2
  <2>2. \A age \in lastAttempt' : age \in Int /\ age <= MaxInterval
    <3>1. CASE ReadFails
      BY <3>1 DEF ReadFails, OtelTyped
    <3>2. CASE ClockSteps
      <4>1. PICK d \in {-ClockStep, ClockStep} :
              lastAttempt' = {IF age + d > MaxInterval THEN MaxInterval ELSE age + d : age \in lastAttempt}
        BY <3>2 DEF ClockSteps
      <4>2. d \in Int /\ \A age \in lastAttempt : age \in Int
        BY <1>0 DEF OtelTyped
      <4> QED BY <1>0, <4>1, <4>2
    <3> QED BY <1>6, <3>1, <3>2
  <2> QED BY <1>6, <2>1, <2>2 DEF ReadFails, ClockSteps, OtelTyped
<1>7. CASE ActsDisabled \/ WaitsTurn
  <2>1. loop.settings \in OtelSettings
    BY <1>4, <1>7 DEF ActsDisabled, WaitsTurn
  <2>2. Sleeping(Tick) \in LoopState /\ StatusFor(loop.settings) \in StatusState
    BY <1>0, <1>1, <1>2, <2>1
  <2> QED BY <1>3, <1>7, <2>1, <2>2 DEF ActsDisabled, WaitsTurn, OtelTyped
<1>8. CASE BuildFails
  <2>1. loop.settings \in OtelSettings
    BY <1>4, <1>8 DEF BuildFails
  <2>2. [StatusFor(loop.settings) EXCEPT !.last = "failure"] \in StatusState
    BY <1>1, <2>1 DEF StatusState
  <2>3. /\ Sleeping(Tick) \in LoopState /\ 0 \in Int /\ 0 <= MaxInterval
        /\ SinceAfter(loop.settings) \subseteq sinceStart
    BY <1>0, <1>2, <1>3, <2>1
  <2> QED BY <1>8, <2>1, <2>2, <2>3 DEF BuildFails, OtelTyped
<1>9. CASE Exports
  <2>1. loop.settings \in OtelSettings
    BY <1>4, <1>9 DEF Exports
  <2>2. /\ [at |-> "export", settings |-> loop.settings, elapsed |-> 0] \in LoopState
        /\ [settings |-> loop.settings, age |-> 0] \in [settings : OtelSettings, age : 0..MaxInterval]
        /\ 0 \in Int /\ 0 <= MaxInterval
    BY <1>0, <2>1 DEF LoopState
  <2> QED BY <1>1, <1>3, <1>9, <2>1, <2>2 DEF Exports, OtelTyped
<1>10. CASE Completes
  <2>1. loop.elapsed \in Nat
    BY <1>10 DEF Completes, OtelTyped, LoopState
  <2>2. Rest(loop.elapsed) \in Nat
    BY <1>0, <2>1 DEF Rest
  <2>3. Sleeping(Rest(loop.elapsed)) \in LoopState
    BY <1>2, <2>2
  <2>4. status' \in StatusState
    BY <1>10 DEF Completes, OtelTyped, StatusState
  <2> QED BY <1>10, <2>3, <2>4 DEF Completes, OtelTyped
<1>11. CASE Wakes
  BY <1>11 DEF Wakes, OtelTyped, LoopState
<1>12. CASE UnitPasses
  <2>1. loop' \in LoopState
    <3>1. CASE loop.at = "sleep" /\ loop.left > 0 /\ loop' = [loop EXCEPT !.left = @ - 1]
      <4>1. loop \in [at : {"sleep"}, left : Nat]
        BY <3>1 DEF OtelTyped, LoopState
      <4>2. loop' \in [at : {"sleep"}, left : Nat]
        BY <3>1, <4>1
      <4> QED BY <4>2 DEF LoopState
    <3>2. CASE loop.at = "export" /\ loop' = [loop EXCEPT !.elapsed = @ + 1]
      <4>1. loop \in [at : {"export"}, settings : OtelSettings, elapsed : Nat]
        BY <3>2 DEF OtelTyped, LoopState
      <4>2. loop' \in [at : {"export"}, settings : OtelSettings, elapsed : Nat]
        BY <3>2, <4>1
      <4> QED BY <4>2 DEF LoopState
    <3> QED BY <1>12, <3>1, <3>2 DEF UnitPasses
  <2>2. \A age \in Int : age <= MaxInterval => Older(age) \in Int /\ Older(age) <= MaxInterval
    BY <1>0 DEF Older
  <2>3. \A age \in 0..MaxInterval : Older(age) \in 0..MaxInterval
    BY <1>0 DEF Older
  <2>4. \A age \in lastAttempt' : age \in Int /\ age <= MaxInterval
    BY <1>12, <2>2 DEF UnitPasses, OtelTyped
  <2>5. sinceStart' \subseteq [settings : OtelSettings, age : 0..MaxInterval]
    BY <1>12, <2>3 DEF UnitPasses, OtelTyped
  <2> QED BY <1>12, <2>1, <2>4, <2>5 DEF UnitPasses, OtelTyped
<1>13. CASE ClockUnreadable
  <2>1. loop.settings \in OtelSettings
    BY <1>4, <1>13 DEF ClockUnreadable
  <2>2. Sleeping(Tick) \in LoopState /\ StatusFor(loop.settings) \in StatusState
    BY <1>0, <1>1, <1>2, <2>1
  <2>3. /\ otelSpent' = [otelSpent EXCEPT !.mishaps = @ + 1]
        /\ otelSpent.mishaps < MaxOtelMishaps
    BY <1>13 DEF ClockUnreadable
  <2>4. otelSpent.mishaps + 1 \in 0..MaxOtelMishaps
    BY <1>0, <2>3
  <2>5. otelSpent' \in [changes : Nat, mishaps : 0..MaxOtelMishaps, steps : 0..MaxClockSteps]
    BY <2>3, <2>4 DEF OtelTyped
  <2> QED BY <1>3, <1>13, <2>1, <2>2, <2>5 DEF ClockUnreadable, OtelTyped
<1> QED
  BY <1>5, <1>6, <1>7, <1>8, <1>9, <1>10, <1>11, <1>12, <1>13 DEF OtelStep, OtelNext, OtelLoop

(* How far below zero an age may be grows with each time the clock is set. *)
LEMMA FartherBack ==
  ASSUME NEW c \in Nat, NEW n \in Nat, NEW m \in Nat, n <= m
  PROVE  c * n \in Nat /\ c * (n + 1) = c * n + c /\ c * n <= c * m
<1>1. PICK k \in Nat : m = n + k
  <2>1. m - n \in Nat /\ m = n + (m - n)
    OBVIOUS
  <2> QED BY <2>1
<1>2. c * m = c * n + c * k /\ c * k \in Nat /\ c * n \in Nat
  BY <1>1
<1> QED BY <1>2

LEMMA AgesBoundedStep ==
  ASSUME OtelConstants, OtelTyped, AgesBounded, OtelStep
  PROVE  AgesBounded'
<1> DEFINE m == otelSpent.steps
<1>0. /\ ClockStep \in Nat /\ m \in Nat /\ MaxInterval \in Nat
      /\ ClockStep * m \in Nat /\ ClockStep * (m + 1) = ClockStep * m + ClockStep
      /\ \A age \in lastAttempt : age \in Int /\ -(ClockStep * m) <= age
  BY FartherBack DEF OtelConstants, OtelTyped, AgesBounded
<1>1. CASE otelSpent'.steps = m
  <2>1. SUFFICES \A age \in lastAttempt' : -(ClockStep * m) <= age
    BY <1>1 DEF AgesBounded
  <2>2. CASE lastAttempt' \subseteq lastAttempt \cup {0}
    BY <1>0, <2>2
  <2>3. CASE UnitPasses
    <3>1. \A age \in lastAttempt : Older(age) \in Int /\ age <= Older(age)
      BY <1>0 DEF Older
    <3> QED BY <1>0, <2>3, <3>1 DEF UnitPasses
  <2>4. ~UnitPasses => lastAttempt' \subseteq lastAttempt \cup {0}
    <3>1. ~ClockSteps
      <4>1. ClockSteps => otelSpent'.steps = m + 1
        BY DEF ClockSteps, OtelTyped
      <4> QED BY <1>0, <1>1, <4>1
    <3> QED BY <3>1 DEF OtelStep, OtelNext, OtelLoop, otelVars, ReadsSettings, ActsDisabled, BuildFails,
             Exports, WaitsTurn, Completes, Wakes, SavesOtel, FirstSnapshot, AttemptAfter,
             ReadFails, ClockUnreadable
  <2> QED BY <2>2, <2>3, <2>4
<1>2. CASE ClockSteps
  <2>1. otelSpent'.steps = m + 1
    BY <1>2 DEF ClockSteps, OtelTyped
  <2>2. \A age \in lastAttempt' : -(ClockStep * m + ClockStep) <= age
    <3>1. PICK d \in {-ClockStep, ClockStep} :
            lastAttempt' = {IF age + d > MaxInterval THEN MaxInterval ELSE age + d : age \in lastAttempt}
      BY <1>2 DEF ClockSteps
    <3> QED BY <1>0, <3>1
  <2> QED BY <1>0, <2>1, <2>2 DEF AgesBounded
<1>3. ClockSteps \/ otelSpent'.steps = m
  BY DEF OtelStep, OtelNext, OtelLoop, otelVars, ReadsSettings, ActsDisabled, BuildFails,
         Exports, WaitsTurn, Completes, Wakes, SavesOtel, FirstSnapshot, UnitPasses, ReadFails,
         ClockUnreadable, OtelTyped
<1> QED BY <1>1, <1>2, <1>3

(* What an iteration leaves of the pipeline. *)
LEMMA PipelineStep ==
  ASSUME OtelConstants, OtelTyped, PipelineIsOfSettings, OtelStep
  PROVE  PipelineIsOfSettings'
<1>1. \A s : PipelineAfter(s) \subseteq {s} /\ PipelineBuilt(s) \subseteq {s}
  BY DEF PipelineAfter, PipelineBuilt, PipelineIsOfSettings
<1>2. \A s : \A t \in PipelineAfter(s) : t.enabled
  BY DEF PipelineAfter, PipelineIsOfSettings
<1>3. CASE ReadsSettings \/ ReadFails \/ Completes \/ Wakes
  BY <1>3 DEF ReadsSettings, ReadFails, Completes, Wakes, Sleeping, PipelineIsOfSettings
<1>4. CASE ActsDisabled \/ BuildFails
  BY <1>4 DEF ActsDisabled, BuildFails, Sleeping, PipelineIsOfSettings
<1>5. CASE Exports
  <2>1. pipeline' # {} /\ pipeline' \subseteq {loop.settings} /\ observed' = {loop.settings}
        /\ loop.settings.enabled /\ loop'.settings = loop.settings
    BY <1>1, <1>5 DEF Exports, CanExport
  <2> QED BY <2>1 DEF PipelineIsOfSettings
<1>6. CASE WaitsTurn \/ ClockUnreadable
  BY <1>1, <1>2, <1>6 DEF WaitsTurn, ClockUnreadable, Sleeping, PipelineIsOfSettings
<1>7. CASE UnitPasses
  <2>1. (loop'.at = loop.at /\ loop'.settings = loop.settings) \/ loop'.at = "sleep"
    BY <1>7 DEF UnitPasses, OtelTyped, LoopState
  <2> QED BY <1>7, <2>1 DEF UnitPasses, PipelineIsOfSettings
<1>8. CASE ClockSteps \/ SavesOtel \/ FirstSnapshot \/ UNCHANGED otelVars
  BY <1>8 DEF ClockSteps, SavesOtel, FirstSnapshot, otelVars, PipelineIsOfSettings
<1> QED BY <1>3, <1>4, <1>5, <1>6, <1>7, <1>8 DEF OtelStep, OtelNext, OtelLoop

LEMMA BuildableStep ==
  ASSUME pipeline \cap Unbuildable = {}, PipelineIsOfSettings, OtelStep
  PROVE  pipeline' \cap Unbuildable = {}
<1>1. CASE Exports
  BY <1>1 DEF Exports, PipelineBuilt, PipelineAfter
<1>2. CASE UNCHANGED otelVars
  BY <1>2 DEF otelVars
<1> QED
  BY <1>1, <1>2 DEF OtelStep, OtelNext, OtelLoop, ReadsSettings, ActsDisabled, BuildFails, WaitsTurn,
     Completes, Wakes, ReadFails, ClockUnreadable, UnitPasses, ClockSteps, SavesOtel, FirstSnapshot,
     PipelineAfter

(* The last export and the schedule, through every step of the loop and of the clocks. *)
LEMMA SpacedStep ==
  ASSUME OtelConstants, OtelTyped, PipelineIsOfSettings, pipeline \cap Unbuildable = {}, SpacedInv, OtelStep
  PROVE  SpacedInv'
<1>0. \A s : SinceAfter(s) # {} => SinceAfter(s) = sinceStart /\ observed = {s}
  BY DEF SinceAfter
<1>1. CASE ActsDisabled \/ BuildFails
  <2> DEFINE s == loop.settings
  <2>1. ~s.enabled \/ s \in Unbuildable
    BY <1>1 DEF ActsDisabled, BuildFails
  <2>2. sinceStart' = SinceAfter(s)
    BY <1>1 DEF ActsDisabled, BuildFails
  <2>3. ASSUME NEW x \in sinceStart' PROVE FALSE
    <3>1. x \in sinceStart /\ observed = {s}
      BY <1>0, <2>2
    <3>2. x.settings = s
      BY <3>1 DEF SpacedInv
    <3> QED BY <2>1, <3>1, <3>2 DEF SpacedInv
  <2> QED BY <2>3 DEF SpacedInv
<1>2. CASE WaitsTurn \/ ClockUnreadable
  <2> DEFINE s == loop.settings
  <2>1. /\ observed' = {s} /\ lastAttempt' = AttemptAfter(s) /\ sinceStart' = SinceAfter(s)
        /\ latest' = latest
    BY <1>2 DEF WaitsTurn, ClockUnreadable
  <2>2. otelSpent'.steps = otelSpent.steps
    BY <1>2 DEF WaitsTurn, ClockUnreadable, OtelTyped
  <2>3. observed = {s} => lastAttempt' = lastAttempt /\ observed' = observed
    BY <2>1 DEF AttemptAfter
  <2> HIDE DEF s
  <2> QED BY <1>0, <2>1, <2>2, <2>3 DEF SpacedInv
<1>3. CASE Exports
  <2> DEFINE s == loop.settings
  <2>1. /\ s.enabled /\ latest /\ latest' = latest /\ observed' = {s}
        /\ lastAttempt' = {0} /\ sinceStart' = {[settings |-> s, age |-> 0]}
    BY <1>3 DEF Exports, CanExport
  <2>2. s \notin Unbuildable
    <3>1. ~(NeedsPipeline(s) /\ s \in Unbuildable) /\ PipelineBuilt(s) # {}
      BY <1>3 DEF Exports, CanExport
    <3>2. ~NeedsPipeline(s) => s \in pipeline
      BY <3>1 DEF PipelineBuilt, PipelineAfter, PipelineIsOfSettings
    <3> QED BY <3>1, <3>2
  <2> HIDE DEF s
  <2> QED BY <2>1, <2>2 DEF SpacedInv
<1>4. CASE UnitPasses
  <2>1. /\ lastAttempt' = {Older(age) : age \in lastAttempt}
        /\ sinceStart' = {[x EXCEPT !.age = Older(@)] : x \in sinceStart}
        /\ latest' = latest /\ observed' = observed /\ otelSpent' = otelSpent
    BY <1>4 DEF UnitPasses
  <2>2. \A a, b \in Int : a <= b /\ b <= MaxInterval => Older(a) <= Older(b)
    BY DEF Older, OtelConstants
  <2>3. \A x \in sinceStart : /\ x.age \in Int /\ x.age <= MaxInterval
                              /\ [x EXCEPT !.age = Older(@)].settings = x.settings
                              /\ [x EXCEPT !.age = Older(@)].age = Older(x.age)
    BY DEF OtelTyped, OtelConstants
  <2>4. \A age \in lastAttempt : age \in Int
    BY DEF OtelTyped
  <2>5. ASSUME NEW y \in sinceStart'
        PROVE  /\ latest' /\ y.settings.enabled /\ y.settings \notin Unbuildable
               /\ observed' = {y.settings}
               /\ otelSpent'.steps = 0 =>
                    lastAttempt' # {} /\ \A age \in lastAttempt' : age <= y.age
    <3>1. PICK x \in sinceStart : y = [x EXCEPT !.age = Older(@)]
      BY <2>1
    <3>2. y.settings = x.settings /\ y.age = Older(x.age)
      BY <2>3, <3>1
    <3>3. latest /\ x.settings.enabled /\ x.settings \notin Unbuildable /\ observed = {x.settings}
      BY DEF SpacedInv
    <3>4. ASSUME otelSpent.steps = 0
          PROVE  lastAttempt' # {} /\ \A age \in lastAttempt' : age <= y.age
      <4>1. lastAttempt # {} /\ \A age \in lastAttempt : age <= x.age
        BY <3>4 DEF SpacedInv
      <4>2. \A age \in lastAttempt : Older(age) <= Older(x.age)
        BY <2>2, <2>3, <2>4, <4>1
      <4> QED BY <2>1, <3>2, <4>1, <4>2
    <3> QED BY <2>1, <3>2, <3>3, <3>4
  <2> QED BY <2>5 DEF SpacedInv
<1>5. CASE ClockSteps
  <2>1. /\ otelSpent'.steps # 0 /\ sinceStart' = sinceStart /\ latest' = latest
        /\ observed' = observed
    <3>1. otelSpent'.steps = otelSpent.steps + 1 /\ otelSpent.steps \in Nat
      BY <1>5 DEF ClockSteps, OtelTyped, OtelConstants
    <3> QED BY <1>5, <3>1 DEF ClockSteps
  <2> QED BY <2>1 DEF SpacedInv
<1>6. CASE ReadsSettings \/ ReadFails \/ Completes \/ Wakes \/ SavesOtel \/ FirstSnapshot
           \/ UNCHANGED otelVars
  <2>1. /\ sinceStart' = sinceStart /\ (latest => latest') /\ observed' = observed
        /\ lastAttempt' = lastAttempt /\ otelSpent'.steps = otelSpent.steps
    BY <1>6 DEF ReadsSettings, ReadFails, Completes, Wakes, SavesOtel, FirstSnapshot, otelVars, OtelTyped
  <2> QED BY <2>1 DEF SpacedInv
<1> QED BY <1>1, <1>2, <1>3, <1>4, <1>5, <1>6 DEF OtelStep, OtelNext, OtelLoop

THEOREM OtelInvHolds == OtelSpec => []OtelInv
<1> USE OtelConstants
<1>1. OtelInit => OtelInv
  <2> SUFFICES ASSUME OtelInit PROVE OtelInv
    OBVIOUS
  <2>1. OtelTyped
    <3>1. loop \in LoopState
      BY DEF OtelInit, LoopState
    <3>2. status \in StatusState
      BY DEF OtelInit, StatusState, OtelConstants
    <3>3. otelSpent \in [changes : Nat, mishaps : 0..MaxOtelMishaps, steps : 0..MaxClockSteps]
      BY DEF OtelInit, OtelConstants
    <3>4. wanted \in OtelSettings /\ latest = FALSE /\ pipeline = {} /\ observed = {}
          /\ lastAttempt = {} /\ sinceStart = {}
      BY DEF OtelInit
    <3> QED BY <3>1, <3>2, <3>3, <3>4 DEF OtelTyped
  <2> QED BY <2>1 DEF OtelInit, OtelInv, AgesBounded, PipelineIsOfSettings, SpacedInv
<1>2. OtelInv /\ [OtelNext]_otelVars => OtelInv'
  <2> SUFFICES ASSUME OtelInv, OtelStep PROVE OtelInv'
    BY DEF OtelStep
  <2>1. OtelTyped' /\ AgesBounded' /\ PipelineIsOfSettings'
    BY OtelTypedStep, AgesBoundedStep, PipelineStep DEF OtelInv
  <2>2. pipeline' \cap Unbuildable = {} /\ SpacedInv'
    BY BuildableStep, SpacedStep DEF OtelInv
  <2> QED BY <2>1, <2>2 DEF OtelInv
<1> QED BY <1>1, <1>2, PTL DEF OtelSpec

(* The types of the export loop: in particular a pause is never negative, and the schedule *)
(* is never further from the truth than the clock was set.                                *)
THEOREM OtelStatesTyped == OtelSpec => []OtelTypeOK
<1>1. OtelInv => OtelTypeOK
  <2> SUFFICES ASSUME OtelInv PROVE OtelTypeOK
    OBVIOUS
  <2>1. \A age \in lastAttempt : age \in (-(ClockStep * MaxClockSteps))..MaxInterval
    <3>1. /\ ClockStep \in Nat /\ otelSpent.steps \in Nat /\ MaxClockSteps \in Nat
          /\ otelSpent.steps <= MaxClockSteps
      BY OtelConstants DEF OtelConstants, OtelInv, OtelTyped
    <3>2. /\ ClockStep * otelSpent.steps <= ClockStep * MaxClockSteps
          /\ ClockStep * otelSpent.steps \in Nat /\ ClockStep * MaxClockSteps \in Nat
      BY <3>1, FartherBack
    <3>3. \A age \in lastAttempt : age \in Int /\ age <= MaxInterval
                                   /\ -(ClockStep * otelSpent.steps) <= age
      BY DEF OtelInv, OtelTyped, AgesBounded
    <3>4. MaxInterval \in Nat
      BY OtelConstants DEF OtelConstants
    <3> QED BY <3>2, <3>3, <3>4
  <2>2. /\ wanted \in OtelSettings /\ latest \in BOOLEAN /\ loop \in LoopState
        /\ pipeline \subseteq OtelSettings /\ observed \subseteq OtelSettings /\ status \in StatusState
    BY DEF OtelInv, OtelTyped
  <2>3. loop.at \in {"read", "act", "export", "sleep"} /\ (loop.at = "sleep" => loop.left \in Nat)
    BY <2>2 DEF LoopState
  <2>4. status.last \in {"none", "success", "failure"}
    BY <2>2 DEF StatusState
  <2> QED BY <2>1, <2>2, <2>3, <2>4 DEF OtelTypeOK
<1> QED BY <1>1, OtelInvHolds, PTL

(* Nothing is sent by a pipeline of older settings than the iteration read, and none is kept *)
(* for an exporter that is switched off (run_otel_export_task, OtelSchedule::observe).        *)
THEOREM PipelineOfSettings == OtelSpec => []PipelineIsOfSettings
<1>1. OtelInv => PipelineIsOfSettings
  BY DEF OtelInv
<1> QED BY <1>1, OtelInvHolds, PTL

(* Exports are an interval apart, whatever fails in between, while the loop observes the     *)
(* same settings and nobody sets the clock: the schedule knows of an attempt since the last. *)
THEOREM ExportsAreSpaced == OtelSpec => ExportsSpaced
<1> DEFINE Spaced ==
      sinceStart' # sinceStart /\ otelSpent.steps = 0 /\ loop'.at = "export" /\ loop.at = "act"
        => \A x \in sinceStart : x.settings = loop.settings => x.age >= loop.settings.interval
<1>1. OtelInv /\ [OtelNext]_otelVars => [Spaced]_otelVars
  <2> SUFFICES ASSUME OtelInv, OtelStep,
                      sinceStart' # sinceStart, otelSpent.steps = 0, loop'.at = "export", loop.at = "act",
                      NEW x \in sinceStart, x.settings = loop.settings
               PROVE  x.age >= loop.settings.interval
    BY DEF OtelStep
  <2> DEFINE s == loop.settings
  <2>1. Exports
    BY DEF OtelStep, OtelNext, OtelLoop, otelVars, ReadsSettings, ActsDisabled, BuildFails, WaitsTurn,
           Completes, Wakes, ReadFails, ClockUnreadable, UnitPasses, ClockSteps, SavesOtel,
           FirstSnapshot, Sleeping
  <2>2. IsDue(lastAttempt, s)
    <3>1. IsDue(AttemptBuilt(s), s)
      BY <2>1 DEF Exports, CanExport
    <3>2. AttemptAfter(s) = lastAttempt
      BY DEF AttemptAfter, OtelInv, SpacedInv
    <3> QED BY <3>1, <3>2 DEF AttemptBuilt, NeedsPipeline
  <2>3. lastAttempt # {} /\ \A age \in lastAttempt : age <= x.age
    BY DEF OtelInv, SpacedInv
  <2>4. x.age \in Int /\ lastAttempt \subseteq Int
    BY DEF OtelInv, OtelTyped
  <2>5. s \in OtelSettings /\ s.interval \in Int
    BY OtelConstants DEF OtelInv, OtelTyped, LoopState, OtelConstants
  <2> HIDE DEF s
  <2>6. PICK age \in lastAttempt : age >= s.interval /\ age <= x.age
    BY <2>2, <2>3 DEF IsDue
  <2>7. x.age >= s.interval
    BY <2>4, <2>5, <2>6
  <2> QED BY <2>7 DEF s
<1>2. OtelSpec => [][OtelNext]_otelVars
  BY DEF OtelSpec
<1> QED BY <1>1, <1>2, OtelInvHolds, PTL DEF ExportsSpaced

-----------------------------------------------------------------------------
(* The collector. *)

Chips == {c.chips : c \in Config} \cup {{}}

LinuxType ==
  [config : Config, previous : Nat, refreshed : Nat, taken : Nat, filesystems : Nat,
   sensors : Chips, listed : BOOLEAN, gpu : SUBSET [adapters : BOOLEAN, scanned : Nat]]

TableType == [read : Nat, machine : Nat, used : Nat \X Nat, over : Nat \X Nat]

Begun == [at : {"slow", "fast"}, now : Nat]
Refreshed == [at : {"window", "sample"}, now : Nat, refresh : BOOLEAN, from : Nat]

CollectorTyped ==
  /\ time \in Nat /\ 0 < time /\ plugged \in BOOLEAN /\ torn \in 0..3
  /\ failures \in Nat /\ ended \in Nat
  /\ linux \in LinuxType /\ table \in TableType
  /\ op \in {Idle} \cup Begun \cup Refreshed
  /\ shown # {} => op = Idle
  /\ \A s \in shown : s.cpu \in Nat \X Nat

\* The times of the past.
Past ==
  /\ linux.taken <= time /\ linux.previous <= time /\ table.read <= time
  /\ op # Idle => 0 < op.now /\ op.now <= time /\ linux.taken <= op.now

\* The table that a sample shows: both spans are the same one.
Matched == table.machine = table.read /\ table.used = table.over /\ 0 < table.used[1] /\ 0 < table.read

\* How whole the table is: from the second refresh on after one that was not noted its readings
\* are of one time, from the third on both spans are the same one.
Whole ==
  /\ torn <= 1 => table.machine = table.read /\ 0 < table.read
  /\ torn = 0 => Matched

\* The last refresh was noted, or there was none.
Noted ==
  \/ torn = 0 /\ linux.previous = 0 /\ table.read = 0 /\ table.machine = 0
  \/ 0 < linux.previous /\ table.read <= linux.refreshed /\ Whole

TableInv ==
  /\ table.machine <= table.read
  /\ linux.previous = 0 <=> linux.refreshed = 0
  /\ op.at = "window" => op.refresh /\ 0 < op.from /\ table.read = op.from
  /\ op.at = "sample" /\ ~op.refresh => 0 < linux.previous
  /\ torn <= 2 =>
       /\ op.at \in {"idle", "slow", "fast"} => Noted
       /\ op.at = "window" => torn # 1 /\ (torn = 0 => table.machine = op.from)
       /\ op.at = "sample" => Whole /\ (op.refresh \/ table.read <= linux.refreshed)

\* The file systems in the cache are young enough for the collection that runs.
SlowInv ==
  /\ linux.taken <= linux.filesystems
  /\ op.at \in {"fast", "window", "sample"} =>
       0 < linux.taken /\ op.now - linux.taken < linux.config.interval

\* The counters kept are those the last sample ended with, or later ones.
CpuInv ==
  /\ shown = {} => ended <= linux.previous /\ (failures = 0 => ended = linux.previous)
  /\ op.at \in {"window", "sample"} =>
       IF linux.previous = 0 THEN ended = 0 ELSE op.from = linux.previous
  /\ \A s \in shown : s.cpu[2] = linux.previous

GpuInv ==
  \A g \in linux.gpu : /\ g.scanned = 0 \/ linux.taken <= g.scanned
                       /\ 0 < linux.taken /\ g.adapters => linux.listed

CollectorInv == CollectorTyped /\ Past /\ TableInv /\ SlowInv /\ CpuInv /\ GpuInv /\ SamplesCoherent

-----------------------------------------------------------------------------
(* The fields of the collector after each action. *)
LEMMA LinuxFields ==
  ASSUME linux \in LinuxType
  PROVE  /\ linux.config \in Config /\ linux.previous \in Nat /\ linux.refreshed \in Nat
         /\ linux.taken \in Nat /\ linux.filesystems \in Nat /\ linux.sensors \in Chips
         /\ linux.listed \in BOOLEAN /\ linux.gpu \in SUBSET [adapters : BOOLEAN, scanned : Nat]
         /\ linux.config.chips \in Chips
BY DEF LinuxType, Chips

LEMMA OpKinds ==
  ASSUME op \in {Idle} \cup Begun \cup Refreshed
  PROVE  /\ op.at \in {"idle", "slow", "fast", "window", "sample"}
         /\ op.at = "idle" <=> op = Idle
         /\ op.at \in {"slow", "fast"} => op \in Begun
         /\ op.at \in {"window", "sample"} => op \in Refreshed
BY DEF Idle, Begun, Refreshed

(* A refresh of the process table keeps the types. *)
LEMMA RefreshedTyped ==
  ASSUME CollectorConstants, time \in Nat, table \in TableType
  PROVE  RefreshedTable \in TableType
BY DEF RefreshedTable, TableType, CollectorConstants

LEMMA DetectedTyped ==
  ASSUME plugged \in BOOLEAN
  PROVE  Detected \in SUBSET [adapters : BOOLEAN, scanned : Nat]
BY DEF Detected

(* Every step keeps the types. *)
LEMMA CollectorTypedStep ==
  ASSUME CollectorConstants, CollectorTyped, [CollectorNext]_collectorVars
  PROVE  CollectorTyped'
<1> USE DEF CollectorTyped
<1>0. CASE UNCHANGED collectorVars
  BY <1>0 DEF collectorVars
<1>1. ASSUME NEW config \in Config, Configure(config) PROVE CollectorTyped'
  BY <1>1 DEF Configure, LinuxType, counts, Free
<1>2. CASE CollectBegins
  BY <1>2 DEF CollectBegins, counts, Begun, Free
<1>3. CASE ReadsSlow
  <2>1. op \in Begun
    BY <1>3, OpKinds DEF ReadsSlow
  <2>2. op' \in Begun
    BY <1>3, <2>1 DEF ReadsSlow, Begun
  <2>3. GpuAfterSlow \in SUBSET [adapters : BOOLEAN, scanned : Nat]
    BY DetectedTyped, LinuxFields DEF GpuAfterSlow
  <2>4. linux' \in LinuxType
    BY <1>3, <2>1, <2>3, LinuxFields DEF ReadsSlow, LinuxType, Begun
  <2>5. op # Idle /\ shown' = {}
    BY <1>3 DEF ReadsSlow, Idle
  <2> QED BY <1>3, <2>2, <2>4, <2>5 DEF ReadsSlow, counts
<1>4. CASE ReadsFast
  <2>1. op \in Begun
    BY <1>4, OpKinds DEF ReadsFast
  <2>2. op' \in Refreshed
    BY <1>4, <2>1, LinuxFields DEF ReadsFast, Refreshed, Begun, RefreshDue
  <2>3. table' \in TableType
    BY <1>4, RefreshedTyped DEF ReadsFast
  <2>4. op # Idle /\ shown' = {}
    BY <1>4 DEF ReadsFast, Idle
  <2> QED BY <1>4, <2>2, <2>3, <2>4 DEF ReadsFast, counts
<1>5. CASE RefreshesAgain
  <2>1. op \in Refreshed
    BY <1>5, OpKinds DEF RefreshesAgain
  <2>2. op' \in Refreshed
    BY <1>5, <2>1 DEF RefreshesAgain, Refreshed
  <2>3. table' \in TableType
    BY <1>5, RefreshedTyped DEF RefreshesAgain
  <2>4. op # Idle /\ shown' = {}
    BY <1>5 DEF RefreshesAgain, Idle
  <2> QED BY <1>5, <2>2, <2>3, <2>4 DEF RefreshesAgain, counts
<1>6. CASE Samples
  <2>1. StampedRefresh \in Nat
    BY LinuxFields DEF StampedRefresh
  <2>2. Scanned(linux.gpu) \in SUBSET [adapters : BOOLEAN, scanned : Nat]
    BY LinuxFields DEF Scanned
  <2>3. linux' \in LinuxType
    BY <1>6, <2>1, <2>2 DEF Samples, LinuxType
  <2>4. \A s \in shown' : s.cpu \in Nat \X Nat
    <3>1. op \in Refreshed
      BY <1>6, OpKinds DEF Samples
    <3>2. op.from \in Nat
      BY <3>1 DEF Refreshed
    <3>3. Snapshot.cpu = <<op.from, time>>
      BY DEF Snapshot
    <3>4. shown' = {Snapshot} \/ shown' = shown
      BY <1>6 DEF Samples
    <3>5. time \in Nat /\ \A s \in shown : s.cpu \in Nat \X Nat
      OBVIOUS
    <3> HIDE DEF CollectorTyped
    <3> QED BY <3>2, <3>3, <3>4, <3>5
  <2> QED BY <1>6, <2>3, <2>4 DEF Samples
<1>7. CASE Takes
  <2>1. PICK s \in shown : ended' = s.cpu[2]
    BY <1>7 DEF Takes
  <2> QED BY <1>7, <2>1 DEF Takes, counts
<1>8. CASE CollectFails
  BY <1>8 DEF CollectFails, Idle
<1>9. CASE Ticks
  BY <1>9 DEF Ticks, counts
<1>10. CASE Plugs
  BY <1>10 DEF Plugs
<1> QED
  BY <1>0, <1>1, <1>2, <1>3, <1>4, <1>5, <1>6, <1>7, <1>8, <1>9, <1>10 DEF CollectorNext

(* Every step keeps the times of the past in the past. *)
LEMMA PastStep ==
  ASSUME CollectorConstants, CollectorTyped, Past, [CollectorNext]_collectorVars
  PROVE  Past'
<1> USE LinuxFields, OpKinds DEF Past
<1>a. time \in Nat /\ 0 < time /\ linux \in LinuxType
      /\ op \in {Idle} \cup Begun \cup Refreshed /\ table \in TableType /\ table.read \in Nat
  BY DEF CollectorTyped, TableType
<1>b. op # Idle => op.now \in Nat
  BY <1>a DEF Begun, Refreshed
<1>0. CASE UNCHANGED collectorVars
  BY <1>0 DEF collectorVars
<1>1. ASSUME NEW config \in Config, Configure(config) PROVE Past'
  BY <1>1, <1>a DEF Configure, LinuxType, Free
<1>2. CASE CollectBegins
  BY <1>2, <1>a DEF CollectBegins, Free
<1>3. CASE ReadsSlow
  <2>1. op \in Begun /\ op # Idle
    BY <1>3, <1>a DEF ReadsSlow, Idle
  <2>2. op'.now = op.now
    BY <1>3, <2>1 DEF ReadsSlow, Begun
  <2>3. linux'.taken = op.now /\ linux'.previous = linux.previous
    BY <1>3, <1>a DEF ReadsSlow, LinuxType
  <2> QED BY <1>3, <1>a, <1>b, <2>1, <2>2, <2>3 DEF ReadsSlow
<1>4. CASE ReadsFast
  <2>1. op # Idle /\ op'.now = op.now
    BY <1>4 DEF ReadsFast, Idle
  <2>2. table'.read = table.read \/ table'.read = time
    BY <1>4, <1>a DEF ReadsFast, RefreshedTable, TableType
  <2> QED BY <1>4, <1>a, <1>b, <2>1, <2>2 DEF ReadsFast
<1>5. CASE RefreshesAgain
  <2>1. op # Idle /\ op'.now = op.now
    BY <1>5, <1>a DEF RefreshesAgain, Idle, Refreshed
  <2>2. table'.read = time
    BY <1>5, <1>a DEF RefreshesAgain, RefreshedTable, TableType
  <2> QED BY <1>5, <1>a, <1>b, <2>1, <2>2 DEF RefreshesAgain
<1>6. CASE Samples
  <2>1. linux'.taken = linux.taken /\ linux'.previous = time
    BY <1>6, <1>a DEF Samples, LinuxType
  <2> QED BY <1>6, <1>a, <2>1 DEF Samples
<1>7. CASE Takes
  BY <1>7 DEF Takes
<1>8. CASE CollectFails
  BY <1>8 DEF CollectFails
<1>9. CASE Ticks
  BY <1>9, <1>a, <1>b DEF Ticks
<1>10. CASE Plugs
  BY <1>10 DEF Plugs
<1> QED
  BY <1>0, <1>1, <1>2, <1>3, <1>4, <1>5, <1>6, <1>7, <1>8, <1>9, <1>10 DEF CollectorNext

(* A refresh more than the minimum after the last one leaves both spans equal. *)
LEMMA RefreshMatches ==
  ASSUME CollectorConstants, time \in Nat, 0 < time, table \in TableType,
         0 < table.read, table.read = table.machine, time - table.read >= MinRefresh
  PROVE  /\ RefreshedTable.machine = time /\ RefreshedTable.read = time
         /\ RefreshedTable.used = <<table.read, time>>
         /\ RefreshedTable.over = <<table.read, time>>
BY DEF RefreshedTable, TableType, CollectorConstants

(* A refresh more than the minimum after the last one reads the machine too. *)
LEMMA RefreshReads ==
  ASSUME CollectorConstants, time \in Nat, 0 < time, table \in TableType,
         table.machine <= table.read, table.read <= time
  PROVE  /\ RefreshedTable.read = time /\ RefreshedTable.machine <= time
         /\ time - table.read >= MinRefresh \/ table.machine = 0 => RefreshedTable.machine = time
<1>1. table.read \in Nat /\ table.machine \in Nat /\ MinRefresh \in Nat
  BY DEF TableType, CollectorConstants
<1>2. CASE time - table.machine >= MinRefresh \/ table.machine = 0
  <2>1. RefreshedTable.read = time /\ RefreshedTable.machine = time
    BY <1>2 DEF RefreshedTable
  <2> QED BY <1>1, <2>1
<1>3. CASE ~(time - table.machine >= MinRefresh \/ table.machine = 0)
  <2>1. RefreshedTable = [table EXCEPT !.read = time, !.used = <<table.read, time>>]
    BY <1>3 DEF RefreshedTable
  <2>2. RefreshedTable.read = time /\ RefreshedTable.machine = table.machine
    BY <2>1 DEF TableType
  <2> QED BY <1>1, <1>3, <2>2
<1> QED BY <1>2, <1>3

(* Every step keeps the relation of the process table to its stamp. *)
LEMMA TableStep ==
  ASSUME CollectorConstants, CollectorTyped, Past, TableInv, SlowInv, CpuInv,
         [CollectorNext]_collectorVars
  PROVE  TableInv'
<1> USE LinuxFields, OpKinds
<1>a. time \in Nat /\ 0 < time /\ linux \in LinuxType /\ table \in TableType
      /\ op \in {Idle} \cup Begun \cup Refreshed /\ torn \in 0..3
      /\ table.read \in Nat /\ table.machine \in Nat /\ MinRefresh \in Nat
  BY DEF CollectorTyped, TableType, CollectorConstants
<1>b. table.machine <= table.read /\ table.read <= time /\ (linux.previous = 0 <=> linux.refreshed = 0)
  BY DEF TableInv, Past
<1>0. CASE UNCHANGED collectorVars
  BY <1>0 DEF collectorVars, TableInv, Noted, Whole, Matched
<1>1. ASSUME NEW config \in Config, Configure(config) PROVE TableInv'
  <2>1. /\ UNCHANGED <<table, op, torn>> /\ linux'.previous = linux.previous
        /\ linux'.refreshed = linux.refreshed
    BY <1>1, <1>a DEF Configure, LinuxType, counts
  <2> QED BY <2>1 DEF TableInv, Noted, Whole, Matched
<1>2. CASE CollectBegins
  <2>1. UNCHANGED <<table, linux, torn>> /\ op.at = "idle" /\ op'.at \in {"slow", "fast"}
    BY <1>2 DEF CollectBegins, Free, counts, Idle
  <2> QED BY <2>1 DEF TableInv, Noted, Whole, Matched
<1>3. CASE ReadsSlow
  <2>1. op \in Begun /\ op.at = "slow"
    BY <1>3, <1>a DEF ReadsSlow
  <2>2. op'.at = "fast"
    BY <1>3, <2>1 DEF ReadsSlow, Begun
  <2>3. /\ UNCHANGED <<table, torn>> /\ linux'.previous = linux.previous
        /\ linux'.refreshed = linux.refreshed
    BY <1>3, <1>a DEF ReadsSlow, LinuxType, counts
  <2> QED BY <2>1, <2>2, <2>3 DEF TableInv, Noted, Whole, Matched
<1>4. CASE ReadsFast
  <2>1. op.at = "fast" /\ linux' = linux
        /\ torn' = IF (FirstCollection \/ RefreshDue) /\ 0 < torn THEN torn - 1 ELSE torn
    BY <1>4 DEF ReadsFast
  <2>2. torn <= 2 => Noted
    BY <2>1 DEF TableInv
  <2>3. CASE FirstCollection
    <3>1. op'.at = "window" /\ op'.from = time /\ op'.refresh = RefreshDue /\ RefreshDue
          /\ table' = RefreshedTable
      BY <1>4, <1>b, <2>3 DEF ReadsFast, FirstCollection, RefreshDue
    <3>2. table'.read = time /\ table'.machine <= time
          /\ (table.machine = 0 => table'.machine = time)
      BY <1>a, <1>b, <3>1, RefreshReads
    <3>3. (torn = 3 /\ torn' = 2) \/ (torn = 0 /\ torn' = 0 /\ table.machine = 0)
      <4>1. torn' = IF 0 < torn THEN torn - 1 ELSE torn
        BY <2>1, <2>3
      <4>2. torn <= 2 => torn = 0 /\ table.machine = 0
        BY <1>a, <2>2, <2>3 DEF Noted, FirstCollection
      <4> QED BY <1>a, <4>1, <4>2
    <3> QED BY <1>a, <1>b, <2>1, <3>1, <3>2, <3>3 DEF TableInv
  <2>4. CASE ~FirstCollection /\ ~RefreshDue
    <3>1. op'.at = "sample" /\ op'.refresh = RefreshDue /\ table' = table /\ torn' = torn
      BY <1>4, <2>1, <2>4 DEF ReadsFast
    <3>2. 0 < linux.previous
      BY <1>a, <2>4 DEF FirstCollection
    <3> QED BY <1>b, <2>1, <2>2, <3>1, <3>2 DEF TableInv, Noted, Whole, Matched
  <2>5. CASE ~FirstCollection /\ RefreshDue
    <3>1. op'.at = "sample" /\ op'.refresh = RefreshDue /\ table' = RefreshedTable
      BY <1>4, <2>5 DEF ReadsFast
    <3>2. table'.read = time /\ table'.machine <= time
          /\ (time - table.read >= MinRefresh => table'.machine = time)
      BY <1>a, <1>b, <3>1, RefreshReads
    <3>3. 0 < linux.previous /\ time - linux.refreshed >= MinRefresh
      BY <1>a, <1>b, <2>5 DEF FirstCollection, RefreshDue
    <3>4. torn' = IF 0 < torn THEN torn - 1 ELSE 0
      BY <1>a, <2>1, <2>5
    <3>5. torn' <= 1 => /\ table.read <= linux.refreshed /\ Whole /\ time - table.read >= MinRefresh
                        /\ torn <= 2
      BY <1>a, <2>2, <3>3, <3>4 DEF Noted
    <3>6. torn' <= 1 => table'.machine = table'.read /\ 0 < table'.read
      BY <1>a, <3>2, <3>5
    <3>7. torn' = 0 => Matched'
      <4>1. SUFFICES ASSUME torn' = 0 PROVE Matched'
        OBVIOUS
      <4>2. torn <= 1 /\ table.machine = table.read /\ 0 < table.read
            /\ time - table.read >= MinRefresh
        BY <1>a, <3>4, <3>5, <4>1 DEF Whole
      <4>3. /\ table'.machine = time /\ table'.read = time
            /\ table'.used = <<table.read, time>> /\ table'.over = <<table.read, time>>
        BY <1>a, <3>1, <4>2, RefreshMatches
      <4> QED BY <1>a, <4>2, <4>3 DEF Matched
    <3>8. Whole'
      BY <3>6, <3>7 DEF Whole
    <3> QED BY <1>b, <2>1, <2>5, <3>1, <3>2, <3>8 DEF TableInv
  <2> QED BY <2>3, <2>4, <2>5
<1>5. CASE RefreshesAgain
  <2>1. op \in Refreshed /\ torn' = torn /\ linux' = linux /\ op.at = "window"
    BY <1>5, <1>a DEF RefreshesAgain, counts
  <2>2. op'.at = "sample" /\ op'.refresh = op.refresh
    BY <1>5, <2>1 DEF RefreshesAgain, Refreshed
  <2>3. /\ op.refresh /\ 0 < op.from /\ table.read = op.from
        /\ torn <= 2 => torn # 1 /\ (torn = 0 => table.machine = op.from)
    BY <2>1 DEF TableInv
  <2>4. time - op.from >= MinRefresh /\ table' = RefreshedTable
    BY <1>5 DEF RefreshesAgain
  <2>5. table'.read = time /\ table'.machine = time
    BY <1>a, <1>b, <2>3, <2>4, RefreshReads
  <2>6. torn = 0 => Matched'
    BY <1>a, <2>3, <2>4, RefreshMatches DEF Matched
  <2>7. torn <= 2 => Whole'
    BY <1>a, <2>1, <2>5, <2>6 DEF Whole
  <2> QED BY <1>a, <1>b, <2>1, <2>2, <2>3, <2>5, <2>7 DEF TableInv
<1>6. CASE Samples
  <2>1. op \in Refreshed /\ torn' = torn /\ table' = table /\ op'.at = "idle" /\ op.at = "sample"
    BY <1>6, <1>a DEF Samples, Idle
  <2>2. linux'.refreshed = StampedRefresh /\ linux'.previous = time
    BY <1>6, <1>a DEF Samples, LinuxType
  <2>3. ~op.refresh => 0 < linux.previous /\ 0 < linux.refreshed
    BY <1>a, <1>b, <2>1 DEF TableInv
  <2>4. torn <= 2 => Whole /\ (op.refresh \/ table.read <= linux.refreshed)
    BY <2>1 DEF TableInv
  <2>5. 0 < StampedRefresh /\ (torn <= 2 => table.read <= StampedRefresh)
    BY <1>a, <1>b, <2>3, <2>4 DEF StampedRefresh
  <2>6. torn <= 2 => Noted'
    BY <1>a, <2>1, <2>2, <2>4, <2>5 DEF Noted, Whole, Matched
  <2> QED BY <1>a, <1>b, <2>1, <2>2, <2>5, <2>6 DEF TableInv
<1>7. CASE Takes
  BY <1>7 DEF Takes, TableInv, Noted, Whole, Matched, counts
<1>8. CASE CollectFails
  <2>1. op'.at = "idle" /\ linux' = linux /\ table' = table
        /\ torn' = IF op.at = "sample" /\ op.refresh THEN 3 ELSE torn
    BY <1>8 DEF CollectFails, Idle
  <2>2. torn' <= 2 => Noted
    <3>1. CASE op.at \in {"slow", "fast"}
      BY <2>1, <3>1 DEF TableInv
    <3>2. CASE op.at = "sample"
      BY <1>a, <2>1, <3>2 DEF TableInv, Noted
    <3> QED BY <1>8, <3>1, <3>2 DEF CollectFails
  <2>3. torn' <= 2 => torn' = torn
    BY <2>1
  <2>4. torn' <= 2 => Noted'
    BY <2>1, <2>2, <2>3 DEF Noted, Whole, Matched
  <2> QED BY <1>b, <2>1, <2>4 DEF TableInv
<1>9. CASE Ticks
  BY <1>9 DEF Ticks, TableInv, Noted, Whole, Matched, counts
<1>10. CASE Plugs
  BY <1>10 DEF Plugs, TableInv, Noted, Whole, Matched
<1> QED
  BY <1>0, <1>1, <1>2, <1>3, <1>4, <1>5, <1>6, <1>7, <1>8, <1>9, <1>10 DEF CollectorNext

(* Every step keeps the file systems young enough for the running collection. *)
LEMMA SlowStep ==
  ASSUME CollectorConstants, CollectorTyped, Past, SlowInv, [CollectorNext]_collectorVars
  PROVE  SlowInv'
<1> USE LinuxFields, OpKinds DEF SlowInv
<1>a. time \in Nat /\ linux \in LinuxType /\ op \in {Idle} \cup Begun \cup Refreshed
  BY DEF CollectorTyped
<1>b. op # Idle => op.now \in Nat
  BY <1>a DEF Begun, Refreshed
<1>c. linux.config.interval \in Nat \ {0}
  BY <1>a DEF CollectorConstants
<1>0. CASE UNCHANGED collectorVars
  BY <1>0 DEF collectorVars
<1>1. ASSUME NEW config \in Config, Configure(config) PROVE SlowInv'
  BY <1>1, <1>a DEF Configure, LinuxType, Free, Idle
<1>2. CASE CollectBegins
  BY <1>2, <1>a, <1>c DEF CollectBegins, SlowDue
<1>3. CASE ReadsSlow
  <2>1. op \in Begun /\ op # Idle
    BY <1>3, <1>a DEF ReadsSlow, Idle
  <2>2. op'.now = op.now
    BY <1>3, <2>1 DEF ReadsSlow, Begun
  <2>3. linux'.taken = op.now /\ linux'.filesystems = time /\ linux'.config = linux.config
    BY <1>3, <1>a DEF ReadsSlow, LinuxType
  <2> QED BY <1>a, <1>b, <1>c, <2>1, <2>2, <2>3 DEF Past
<1>4. CASE ReadsFast
  BY <1>4 DEF ReadsFast
<1>5. CASE RefreshesAgain
  <2>1. op'.now = op.now
    BY <1>5, <1>a DEF RefreshesAgain, Refreshed
  <2> QED BY <1>5, <2>1 DEF RefreshesAgain
<1>6. CASE Samples
  <2>1. linux'.taken = linux.taken /\ linux'.filesystems = linux.filesystems
    BY <1>6, <1>a DEF Samples, LinuxType
  <2> QED BY <1>6, <2>1 DEF Samples, Idle
<1>7. CASE Takes
  BY <1>7 DEF Takes
<1>8. CASE CollectFails
  BY <1>8 DEF CollectFails, Idle
<1>9. CASE Ticks
  BY <1>9 DEF Ticks
<1>10. CASE Plugs
  BY <1>10 DEF Plugs
<1> QED
  BY <1>0, <1>1, <1>2, <1>3, <1>4, <1>5, <1>6, <1>7, <1>8, <1>9, <1>10 DEF CollectorNext

(* Every step keeps the counters those of the last sample. *)
LEMMA CpuStep ==
  ASSUME CollectorConstants, CollectorTyped, Past, CpuInv, [CollectorNext]_collectorVars
  PROVE  CpuInv'
<1> USE LinuxFields, OpKinds DEF CpuInv
<1>a. /\ time \in Nat /\ 0 < time /\ linux \in LinuxType
      /\ op \in {Idle} \cup Begun \cup Refreshed /\ failures \in Nat /\ ended \in Nat
      /\ shown # {} => op = Idle
  BY DEF CollectorTyped
<1>0. CASE UNCHANGED collectorVars
  BY <1>0 DEF collectorVars
<1>1. ASSUME NEW config \in Config, Configure(config) PROVE CpuInv'
  <2>1. linux'.previous = linux.previous
    BY <1>1, <1>a DEF Configure, LinuxType
  <2> QED BY <1>1, <2>1 DEF Configure, Free, counts
<1>2. CASE CollectBegins
  BY <1>2 DEF CollectBegins, counts, Free
<1>3. CASE ReadsSlow
  <2>1. linux'.previous = linux.previous /\ op'.at = "fast"
    BY <1>3, <1>a DEF ReadsSlow, LinuxType, Begun
  <2> QED BY <1>3, <2>1 DEF ReadsSlow, counts
<1>4. CASE ReadsFast
  <2>1. shown = {}
    BY <1>4, <1>a DEF ReadsFast, Idle
  <2>2. ended <= linux.previous
    BY <2>1
  <2> QED BY <1>4, <1>a, <2>1, <2>2 DEF ReadsFast, FirstCollection, counts
<1>5. CASE RefreshesAgain
  <2>1. op'.from = op.from
    BY <1>5, <1>a DEF RefreshesAgain, Refreshed
  <2> QED BY <1>5, <2>1 DEF RefreshesAgain, counts
<1>6. CASE Samples
  <2>1. linux'.previous = time /\ shown = {} /\ op'.at = "idle" /\ ended' = ended
    BY <1>6, <1>a DEF Samples, LinuxType, Idle
  <2>2. ended <= time
    BY <1>a, <2>1 DEF Past
  <2>3. CASE shown' = {Snapshot}
    <3>1. Snapshot.cpu[2] = time
      BY DEF Snapshot
    <3> QED BY <2>1, <2>3, <3>1
  <2>4. CASE shown' = {} /\ failures' = failures + 1
    BY <1>a, <2>1, <2>2, <2>4
  <2> QED BY <1>6, <2>1, <2>3, <2>4 DEF Samples
<1>7. CASE Takes
  <2>1. shown # {} /\ op' = Idle /\ linux' = linux /\ shown' = {}
    BY <1>7, <1>a DEF Takes
  <2>2. ended' = linux.previous
    BY <1>7 DEF Takes
  <2> QED BY <1>a, <2>1, <2>2 DEF Idle
<1>8. CASE CollectFails
  <2>1. shown = {} /\ op'.at = "idle" /\ failures' = failures + 1
    BY <1>8, <1>a DEF CollectFails, Idle
  <2> QED BY <1>8, <1>a, <2>1 DEF CollectFails
<1>9. CASE Ticks
  BY <1>9 DEF Ticks, counts
<1>10. CASE Plugs
  BY <1>10 DEF Plugs
<1> QED
  BY <1>0, <1>1, <1>2, <1>3, <1>4, <1>5, <1>6, <1>7, <1>8, <1>9, <1>10 DEF CollectorNext

(* Every step keeps the GPU scans behind the last enumeration. *)
LEMMA GpuStep ==
  ASSUME CollectorConstants, CollectorTyped, Past, GpuInv, [CollectorNext]_collectorVars
  PROVE  GpuInv'
<1> USE LinuxFields, OpKinds DEF GpuInv
<1>a. time \in Nat /\ linux \in LinuxType /\ op \in {Idle} \cup Begun \cup Refreshed
      /\ plugged \in BOOLEAN
  BY DEF CollectorTyped
<1>0. CASE UNCHANGED collectorVars
  BY <1>0 DEF collectorVars
<1>1. ASSUME NEW config \in Config, Configure(config) PROVE GpuInv'
  BY <1>1, <1>a DEF Configure, LinuxType
<1>2. CASE CollectBegins
  BY <1>2 DEF CollectBegins
<1>3. CASE ReadsSlow
  <2>1. /\ linux'.gpu = GpuAfterSlow
        /\ linux'.listed = IF GpuAfterSlow = {} THEN linux.listed ELSE plugged
    BY <1>3, <1>a DEF ReadsSlow, LinuxType
  <2>2. CASE GpuAfterSlow = {}
    BY <2>1, <2>2
  <2>3. CASE GpuAfterSlow # {}
    <3>1. GpuAfterSlow = Detected
      BY <2>3 DEF GpuAfterSlow
    <3>2. \A g \in Detected : g.scanned = 0 /\ g.adapters = plugged
      BY DEF Detected
    <3> QED BY <2>1, <2>3, <3>1, <3>2
  <2> QED BY <2>2, <2>3
<1>4. CASE ReadsFast
  BY <1>4 DEF ReadsFast
<1>5. CASE RefreshesAgain
  BY <1>5 DEF RefreshesAgain
<1>6. CASE Samples
  <2>1. /\ linux'.gpu = Scanned(linux.gpu) /\ linux'.listed = linux.listed
        /\ linux'.taken = linux.taken
    BY <1>6, <1>a DEF Samples, LinuxType
  <2>2. linux.taken <= time
    BY DEF Past
  <2>3. ASSUME NEW g \in linux'.gpu
        PROVE (g.scanned = 0 \/ linux.taken <= g.scanned)
              /\ (0 < linux.taken /\ g.adapters => linux.listed)
    <3>1. PICK b \in linux.gpu : g = [b EXCEPT !.scanned = IF b.adapters THEN time ELSE @]
      BY <2>1, <2>3 DEF Scanned
    <3>2. b \in [adapters : BOOLEAN, scanned : Nat]
      BY <1>a
    <3>3. g.adapters = b.adapters /\ g.scanned = IF b.adapters THEN time ELSE b.scanned
      BY <3>1, <3>2
    <3>4. g.scanned = time \/ g.scanned = b.scanned
      BY <3>3
    <3> QED BY <2>2, <3>3, <3>4
  <2> QED BY <2>1, <2>3
<1>7. CASE Takes
  BY <1>7 DEF Takes
<1>8. CASE CollectFails
  BY <1>8 DEF CollectFails
<1>9. CASE Ticks
  BY <1>9 DEF Ticks
<1>10. CASE Plugs
  BY <1>10 DEF Plugs
<1> QED
  BY <1>0, <1>1, <1>2, <1>3, <1>4, <1>5, <1>6, <1>7, <1>8, <1>9, <1>10 DEF CollectorNext

(* A snapshot is coherent when it is taken. *)
LEMMA SnapshotCoherent ==
  ASSUME CollectorConstants, CollectorInv, Samples, shown' = {Snapshot}
  PROVE  SamplesCoherent'
<1> USE LinuxFields, OpKinds
<1>a. /\ time \in Nat /\ 0 < time /\ linux \in LinuxType
      /\ op \in {Idle} \cup Begun \cup Refreshed /\ failures \in Nat /\ ended \in Nat
      /\ shown # {} => op = Idle
  BY DEF CollectorInv, CollectorTyped
<1>b. /\ op.at = "sample" /\ op \in Refreshed /\ op # Idle /\ shown = {}
      /\ op.now \in Nat /\ op.from \in Nat
  BY <1>a DEF Samples, Idle, Refreshed
<1>2. /\ linux'.taken = linux.taken /\ linux'.config = linux.config
      /\ ended' = ended /\ torn' = torn
  BY <1>a DEF Samples, LinuxType
<1>3. failures' = failures
  <2>1. shown' # shown
    BY <1>b
  <2> QED BY <2>1 DEF Samples
<1>4. ended # 0 => IF failures = 0 THEN Snapshot.cpu[1] = ended ELSE Snapshot.cpu[1] >= ended
  <2>1. Snapshot.cpu[1] = op.from
    BY DEF Snapshot
  <2>2. ended # 0 => op.from = linux.previous
    BY <1>a, <1>b DEF CollectorInv, CpuInv
  <2>3. ended <= linux.previous /\ (failures = 0 => ended = linux.previous)
    BY <1>b DEF CollectorInv, CpuInv
  <2> QED BY <1>a, <2>1, <2>2, <2>3
<1>5. torn = 0 => Snapshot.used = Snapshot.over /\ 0 < Snapshot.used[1]
  BY <1>b DEF CollectorInv, TableInv, Whole, Matched, Snapshot
<1>6. Snapshot.age < linux.config.interval /\ Snapshot.filesystems >= linux.taken
  BY <1>a, <1>b DEF CollectorInv, SlowInv, Snapshot
<1>7. \A span \in Snapshot.busy : Snapshot.gpus /\ linux.taken <= span[1]
  <2>1. Snapshot.busy = Busy(linux.gpu) /\ Snapshot.gpus = (linux.gpu # {} /\ linux.listed)
    BY DEF Snapshot
  <2>2. 0 < linux.taken
    BY <1>b DEF CollectorInv, SlowInv
  <2>3. ASSUME NEW g \in linux.gpu, g.adapters, 0 < g.scanned
        PROVE linux.gpu # {} /\ linux.listed /\ linux.taken <= g.scanned
    BY <2>2, <2>3 DEF CollectorInv, GpuInv
  <2>4. ASSUME NEW span \in Busy(linux.gpu)
        PROVE linux.gpu # {} /\ linux.listed /\ linux.taken <= span[1]
    <3>1. PICK g \in linux.gpu : g.adapters /\ 0 < g.scanned /\ span = <<g.scanned, time>>
      BY <2>4 DEF Busy
    <3> QED BY <2>3, <3>1
  <2> QED BY <2>1, <2>4
<1> QED BY <1>2, <1>3, <1>4, <1>5, <1>6, <1>7 DEF SamplesCoherent

(* A shown snapshot stays coherent: what it is measured against is not changed before the
   daemon takes it. *)
LEMMA CoherentStep ==
  ASSUME CollectorConstants, CollectorInv, [CollectorNext]_collectorVars
  PROVE  SamplesCoherent'
<1>a. shown # {} => op = Idle
  BY DEF CollectorInv, CollectorTyped
<1>b. SamplesCoherent
  BY DEF CollectorInv
<1>0. CASE UNCHANGED collectorVars
  BY <1>0, <1>b DEF collectorVars, SamplesCoherent
<1>1. CASE Samples
  <2>1. shown = {}
    BY <1>1, <1>a DEF Samples, Idle
  <2>2. CASE shown' = {Snapshot}
    BY <1>1, <2>2, SnapshotCoherent
  <2>3. CASE shown' = {}
    BY <2>3 DEF SamplesCoherent
  <2> QED BY <1>1, <2>1, <2>2, <2>3 DEF Samples
<1>2. CASE Takes
  BY <1>2 DEF Takes, SamplesCoherent
<1>3. CASE Plugs
  BY <1>3, <1>b DEF Plugs, SamplesCoherent
<1>4. CASE /\ CollectorNext /\ ~Samples /\ ~Takes /\ ~Plugs
  <2>1. shown' = {}
    BY <1>4, <1>a DEF CollectorNext, Configure, CollectBegins, ReadsSlow, ReadsFast,
                      RefreshesAgain, CollectFails, Ticks, Free, Idle
  <2> QED BY <2>1 DEF SamplesCoherent
<1> QED BY <1>0, <1>1, <1>2, <1>3, <1>4

LEMMA CollectorInit0 == CollectorConstants /\ CollectorInit => CollectorInv
<1> SUFFICES ASSUME CollectorConstants, CollectorInit PROVE CollectorInv
  OBVIOUS
<1> USE DEF CollectorInit
<1>1. CollectorTyped
  <2>1. linux \in LinuxType
    BY DetectedTyped DEF LinuxType, Chips, CollectorConstants
  <2>2. table \in TableType
    BY DEF TableType
  <2>3. time \in Nat /\ 0 < time /\ failures \in Nat /\ ended \in Nat /\ shown = {} /\ op = Idle
    OBVIOUS
  <2>4. torn \in 0..3 /\ plugged \in BOOLEAN
    OBVIOUS
  <2> HIDE DEF CollectorInit
  <2> QED BY <2>1, <2>2, <2>3, <2>4 DEF CollectorTyped
<1>2. Past /\ SlowInv /\ CpuInv
  BY DEF Past, SlowInv, CpuInv, Idle
<1>3. TableInv
  BY DEF TableInv, Noted, Idle
<1>4. GpuInv
  BY DEF GpuInv, Detected
<1>5. SamplesCoherent
  BY DEF SamplesCoherent
<1> QED BY <1>1, <1>2, <1>3, <1>4, <1>5 DEF CollectorInv

(* Every sample the collector returns is of one time: SamplesCoherent holds whatever the
   intervals are, however often reads fail, and however GPUs come and go (linux.rs
   collect_with_fast_collector and collect_fast_sources_with). *)
THEOREM SamplesAlwaysCoherent == CollectorSpec => []SamplesCoherent
<1>1. CollectorInit => CollectorInv
  BY CollectorInit0, CollectorConstants
<1>2. CollectorInv /\ [CollectorNext]_collectorVars => CollectorInv'
  <2> SUFFICES ASSUME CollectorInv, [CollectorNext]_collectorVars PROVE CollectorInv'
    OBVIOUS
  <2> USE CollectorConstants
  <2>1. CollectorTyped /\ Past /\ TableInv /\ SlowInv /\ CpuInv /\ GpuInv
    BY DEF CollectorInv
  <2> QED
    BY <2>1, CollectorTypedStep, PastStep, TableStep, SlowStep, CpuStep, GpuStep, CoherentStep
       DEF CollectorInv
<1>3. CollectorInv => SamplesCoherent
  BY DEF CollectorInv
<1> QED BY <1>1, <1>2, <1>3, PTL DEF CollectorSpec

-----------------------------------------------------------------------------
(* Types. *)

\* Nothing was read in the future, and there is one snapshot and one GPU backend at most.
Bounded ==
  /\ time <= MaxTime /\ failures <= MaxFailures /\ plugs \in 0..MaxPlugs
  /\ linux.refreshed <= time /\ linux.filesystems <= time /\ ended <= time
  /\ table.machine <= table.read
  /\ \A s, t \in shown : s = t
  /\ \A g, h \in linux.gpu : g = h

LEMMA RefreshedBounded ==
  ASSUME CollectorConstants, CollectorTyped, Past, Bounded
  PROVE  RefreshedTable.machine <= RefreshedTable.read
BY DEF RefreshedTable, CollectorTyped, TableType, Past, Bounded

LEMMA BoundedStep ==
  ASSUME CollectorConstants, CollectorTyped, Past, CpuInv, Bounded, [CollectorNext]_collectorVars
  PROVE  Bounded'
<1>a. /\ time \in Nat /\ failures \in Nat /\ ended \in Nat /\ linux \in LinuxType
      /\ linux.refreshed \in Nat /\ linux.filesystems \in Nat /\ linux.previous \in Nat
      /\ MaxTime \in Nat /\ MaxFailures \in Nat /\ MaxPlugs \in Nat
      /\ linux.previous <= time
  BY LinuxFields DEF CollectorTyped, Past, CollectorConstants
<1>0. CASE UNCHANGED collectorVars
  BY <1>0 DEF collectorVars, Bounded
<1>1. ASSUME NEW config \in Config, Configure(config) PROVE Bounded'
  <2>1. linux' = [linux EXCEPT !.config = config]
        /\ UNCHANGED <<time, table, shown, ended, failures, plugs>>
    BY <1>1 DEF Configure, counts
  <2>2. linux'.refreshed = linux.refreshed /\ linux'.filesystems = linux.filesystems
        /\ linux'.gpu = linux.gpu
    BY <1>a, <2>1 DEF LinuxType
  <2> QED BY <2>1, <2>2 DEF Bounded
<1>2. CASE CollectBegins \/ CollectFails
  <2>1. UNCHANGED <<time, table, shown, ended, linux, plugs>>
    BY <1>2 DEF CollectBegins, CollectFails, counts
  <2>2. failures' <= MaxFailures
    BY <1>a, <1>2 DEF CollectBegins, CollectFails, counts, Bounded
  <2> QED BY <2>1, <2>2 DEF Bounded
<1>3. CASE ReadsSlow
  <2>1. /\ linux'.refreshed = linux.refreshed /\ linux'.filesystems = time
        /\ linux'.gpu = GpuAfterSlow
        /\ UNCHANGED <<time, table, shown, ended, failures, plugs>>
    BY <1>3, <1>a DEF ReadsSlow, counts, LinuxType
  <2>2. \A g, h \in GpuAfterSlow : g = h
    BY DEF GpuAfterSlow, Detected, Bounded
  <2> QED BY <1>a, <2>1, <2>2 DEF Bounded
<1>4. CASE ReadsFast \/ RefreshesAgain
  <2>1. UNCHANGED <<time, linux, shown, ended, failures, plugs>>
    BY <1>4 DEF ReadsFast, RefreshesAgain, counts
  <2>2. table'.machine <= table'.read
    BY <1>4, RefreshedBounded DEF ReadsFast, RefreshesAgain, Bounded
  <2> QED BY <2>1, <2>2 DEF Bounded
<1>5. CASE Samples
  <2>1. /\ linux'.refreshed = StampedRefresh /\ linux'.filesystems = linux.filesystems
        /\ linux'.gpu = Scanned(linux.gpu)
        /\ UNCHANGED <<time, table, ended, plugs>>
    BY <1>5, <1>a DEF Samples, LinuxType
  <2>2. \A g, h \in Scanned(linux.gpu) : g = h
    BY DEF Scanned, Bounded
  <2>3. StampedRefresh <= time
    BY <1>a DEF StampedRefresh, Bounded
  <2>4. failures' <= MaxFailures
    BY <1>a, <1>5 DEF Samples, Bounded
  <2>5. \A s, t \in shown' : s = t
    BY <1>5 DEF Samples, Bounded
  <2> QED BY <2>1, <2>2, <2>3, <2>4, <2>5 DEF Bounded
<1>6. CASE Takes
  <2>1. UNCHANGED <<time, table, linux, failures, plugs>> /\ shown' = {}
    BY <1>6 DEF Takes, counts
  <2>2. ended' = linux.previous
    BY <1>6 DEF Takes, CpuInv
  <2> QED BY <1>a, <2>1, <2>2 DEF Bounded
<1>7. CASE Ticks
  <2>1. time' = time + 1 /\ time < MaxTime /\ UNCHANGED <<table, linux, shown, ended, failures, plugs>>
    BY <1>7 DEF Ticks, counts
  <2> QED BY <1>a, <2>1 DEF Bounded
<1>8. CASE Plugs
  <2>1. plugs < MaxPlugs /\ plugs' = plugs + 1
        /\ UNCHANGED <<time, table, linux, shown, ended, failures>>
    BY <1>8 DEF Plugs
  <2> QED BY <1>a, <2>1 DEF Bounded
<1> QED BY <1>0, <1>1, <1>2, <1>3, <1>4, <1>5, <1>6, <1>7, <1>8 DEF CollectorNext

LEMMA AtMostOne ==
  ASSUME NEW S, \A x, y \in S : x = y
  PROVE  Cardinality(S) <= 1
<1>1. CASE S = {}
  BY <1>1, FS_EmptySet
<1>2. CASE S # {}
  <2>1. PICK x : S = {x}
    BY <1>2
  <2> QED BY <2>1, FS_Singleton
<1> QED BY <1>1, <1>2

(* The types of the collector: what it holds was read in the past, the process table after the *)
(* machine's CPU time.                                                                         *)
THEOREM CollectorStatesTyped == CollectorSpec => []CollectorTypeOK
<1>1. CollectorInit => CollectorInv /\ Bounded
  <2> SUFFICES ASSUME CollectorInit PROVE Bounded
    BY CollectorInit0, CollectorConstants
  <2>1. /\ time = 1 /\ failures = 0 /\ plugs = 0 /\ ended = 0 /\ shown = {}
        /\ linux.refreshed = 0 /\ linux.filesystems = 0 /\ table.machine = 0 /\ table.read = 0
    BY DEF CollectorInit
  <2>2. \A g, h \in linux.gpu : g = h
    BY DEF CollectorInit, Detected
  <2>3. MaxTime \in Nat /\ 0 < MaxTime /\ MaxFailures \in Nat /\ MaxPlugs \in Nat
    BY CollectorConstants DEF CollectorConstants
  <2> QED BY <2>1, <2>2, <2>3 DEF Bounded
<1>2. CollectorInv /\ Bounded /\ [CollectorNext]_collectorVars => (CollectorInv /\ Bounded)'
  <2> SUFFICES ASSUME CollectorInv, Bounded, [CollectorNext]_collectorVars
               PROVE  (CollectorInv /\ Bounded)'
    OBVIOUS
  <2> USE CollectorConstants
  <2>1. CollectorTyped /\ Past /\ TableInv /\ SlowInv /\ CpuInv /\ GpuInv
    BY DEF CollectorInv
  <2>2. CollectorInv'
    BY <2>1, CollectorTypedStep, PastStep, TableStep, SlowStep, CpuStep, GpuStep, CoherentStep
       DEF CollectorInv
  <2> QED BY <2>1, <2>2, BoundedStep
<1>3. CollectorInv /\ Bounded => CollectorTypeOK
  <2> SUFFICES ASSUME CollectorInv, Bounded PROVE CollectorTypeOK
    OBVIOUS
  <2>1. /\ CollectorTyped /\ Past /\ linux.config \in Config /\ linux.previous \in Nat
        /\ linux.refreshed \in Nat /\ linux.taken \in Nat /\ linux.filesystems \in Nat
    BY LinuxFields DEF CollectorInv, CollectorTyped
  <2>2. /\ time \in 1..MaxTime /\ failures \in 0..MaxFailures /\ plugs \in 0..MaxPlugs
        /\ plugged \in BOOLEAN /\ torn \in 0..3
    BY <2>1, CollectorConstants DEF CollectorTyped, Bounded, CollectorConstants
  <2>3. {linux.previous, linux.refreshed, linux.taken, linux.filesystems, ended} \subseteq 0..time
    BY <2>1 DEF CollectorTyped, Past, Bounded
  <2>4. op.at \in {"idle", "slow", "fast", "window", "sample"}
    BY <2>1, OpKinds DEF CollectorTyped
  <2>5. Cardinality(shown) <= 1 /\ Cardinality(linux.gpu) <= 1
    BY AtMostOne DEF Bounded
  <2> QED BY <2>1, <2>2, <2>3, <2>4, <2>5 DEF Past, Bounded, CollectorTypeOK
<1> QED BY <1>1, <1>2, <1>3, PTL DEF CollectorSpec

(* The types of the daemon's parts, whatever each does beside the others. *)
THEOREM DaemonStatesTyped == DaemonSpec => []DaemonTypeOK
<1>1. ControlTypeOK /\ OtelTypeOK /\ CollectorTypeOK => DaemonTypeOK
  BY DEF DaemonTypeOK
<1>2. DaemonSpec => ControlSpec /\ OtelSpec /\ CollectorSpec
  BY DEF DaemonSpec
<1> QED BY <1>1, <1>2, ControlStatesTyped, OtelStatesTyped, CollectorStatesTyped, PTL
=============================================================================
