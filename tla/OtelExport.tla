----------------------------- MODULE OtelExport -----------------------------
(***************************************************************************)
(* The OpenTelemetry export loop: the settings it reads in each iteration, *)
(* the schedule, the pipeline it builds and drops, the status it reports   *)
(* (writer.rs, otel.rs; ADR 0028).                                         *)
(*                                                                         *)
(* Abstraction: times are kept as their age, up to the longest interval,   *)
(* in units of the loop's tick; the wall clock may step, the timers do     *)
(* not.  The snapshot's metrics, the counts and texts of the status and    *)
(* the throttled warnings are left out.                                    *)
(***************************************************************************)
EXTENDS Integers, FiniteSets

CONSTANTS OtelSettings,   \* [enabled, endpoint, interval]; intervals within the range
          Unbuildable,    \* settings whose headers or exporter cannot be built
          Tick, RetryDelay, ExportTimeout,  \* of the loop, in its own units
          MaxInterval,    \* ages are kept up to it
          ClockStep,      \* how far the wall clock may step
          MaxOtelChanges, MaxOtelMishaps, MaxClockSteps  \* bounds

ASSUME OtelConstants ==
  /\ \A s \in OtelSettings : s.enabled \in BOOLEAN /\ s.interval \in 1..MaxInterval
  /\ Unbuildable \subseteq OtelSettings
  /\ Tick \in Nat \ {0} /\ RetryDelay \in Nat /\ ExportTimeout \in Nat
  /\ MaxInterval \in Nat /\ ClockStep \in Nat
  /\ {MaxOtelChanges, MaxOtelMishaps, MaxClockSteps} \subseteq Nat

VARIABLES wanted,     \* the saved settings of the exporter
          latest,     \* whether a snapshot was ever collected
          loop,       \* where the loop is
          pipeline,   \* the settings the pipeline was built for: none or one
          observed,   \* the schedule's settings: none or one
          lastAttempt, \* the age of its last attempt: none or one
          status,     \* what coverage shows
          sinceStart, \* history: the age of the last export by the settings observed, on timers
          otelSpent   \* bounded counts

otelVars == <<wanted, latest, loop, pipeline, observed, lastAttempt, status, sinceStart,
              otelSpent>>

Sleeping(n) == [at |-> "sleep", left |-> n]

OtelInit ==
  /\ wanted \in OtelSettings
  /\ latest = FALSE
  /\ loop = [at |-> "read"]
  /\ pipeline = {} /\ observed = {} /\ lastAttempt = {}
  /\ status = [enabled |-> wanted.enabled, endpoint |-> wanted.endpoint, last |-> "none"]
  /\ sinceStart = {}
  /\ otelSpent = [changes |-> 0, mishaps |-> 0, steps |-> 0]

IsDueThen(last, s) == \A age \in last : age = s.interval   \* variant: not after it

IsDue(last, s) == \A age \in last : age >= s.interval

ReadsSettings ==
  /\ loop.at = "read"
  /\ loop' = [at |-> "act", settings |-> wanted]
  /\ UNCHANGED <<wanted, latest, pipeline, observed, lastAttempt, status, sinceStart, otelSpent>>

ReadFails ==
  /\ loop.at = "read"
  /\ otelSpent.mishaps < MaxOtelMishaps
  /\ otelSpent' = [otelSpent EXCEPT !.mishaps = @ + 1]
  /\ loop' = Sleeping(RetryDelay)
  /\ UNCHANGED <<wanted, latest, pipeline, observed, lastAttempt, status, sinceStart>>

PipelineKept(s) == pipeline   \* variant: the old pipeline stays when settings change

\* OtelSchedule::observe: other settings than last time drop the pipeline.
PipelineAfter(s) == IF observed = {s} THEN pipeline ELSE {}
AttemptAfter(s) == IF observed = {s} THEN lastAttempt ELSE {}
\* History: an export by other settings does not count.
SinceAfter(s) == IF observed = {s} THEN sinceStart ELSE {}

StatusFor(s) == [status EXCEPT !.enabled = s.enabled, !.endpoint = s.endpoint]

\* disable_pipeline.
ActsDisabled ==
  /\ loop.at = "act"
  /\ ~loop.settings.enabled
  /\ observed' = {loop.settings}
  /\ pipeline' = {} /\ lastAttempt' = AttemptAfter(loop.settings)
  /\ sinceStart' = SinceAfter(loop.settings)
  /\ status' = StatusFor(loop.settings)
  /\ loop' = Sleeping(Tick)
  /\ UNCHANGED <<wanted, latest, otelSpent>>

\* now_ms fails: the iteration ends with the pipeline as it is.
ClockUnreadable ==
  /\ loop.at = "act" /\ loop.settings.enabled
  /\ otelSpent.mishaps < MaxOtelMishaps
  /\ otelSpent' = [otelSpent EXCEPT !.mishaps = @ + 1]
  /\ LET s == loop.settings
     IN /\ observed' = {s} /\ pipeline' = PipelineAfter(s) /\ lastAttempt' = AttemptAfter(s)
        /\ sinceStart' = SinceAfter(s) /\ status' = StatusFor(s)
  /\ loop' = Sleeping(Tick)
  /\ UNCHANGED <<wanted, latest>>

\* A missing pipeline is built when an attempt is due and there is something to export.
NeedsPipeline(s) == PipelineAfter(s) = {} /\ IsDue(AttemptAfter(s), s) /\ latest

BuildFails ==
  /\ loop.at = "act"
  /\ LET s == loop.settings
     IN /\ s.enabled /\ NeedsPipeline(s) /\ s \in Unbuildable
        /\ observed' = {s} /\ pipeline' = {} /\ lastAttempt' = {0}
        /\ sinceStart' = SinceAfter(s)
        /\ status' = [StatusFor(s) EXCEPT !.last = "failure"]
  /\ loop' = Sleeping(Tick)
  /\ UNCHANGED <<wanted, latest, otelSpent>>

\* A pipeline just built is due at once.
AttemptBuilt(s) == IF NeedsPipeline(s) THEN {} ELSE AttemptAfter(s)
PipelineBuilt(s) == IF NeedsPipeline(s) THEN {s} ELSE PipelineAfter(s)

CanExport(s) == PipelineBuilt(s) # {} /\ latest /\ IsDue(AttemptBuilt(s), s)

ExportsUnmarked ==   \* variant: an attempt is only marked when it succeeded
  /\ loop.at = "act"
  /\ LET s == loop.settings
     IN /\ s.enabled /\ ~(NeedsPipeline(s) /\ s \in Unbuildable) /\ CanExport(s)
        /\ observed' = {s} /\ pipeline' = PipelineBuilt(s) /\ lastAttempt' = {}
        /\ status' = StatusFor(s)
        /\ sinceStart' = {[settings |-> s, age |-> 0]}
  /\ loop' = [at |-> "export", settings |-> loop.settings, elapsed |-> 0]
  /\ UNCHANGED <<wanted, latest, otelSpent>>

Exports ==
  /\ loop.at = "act"
  /\ LET s == loop.settings
     IN /\ s.enabled /\ ~(NeedsPipeline(s) /\ s \in Unbuildable) /\ CanExport(s)
        /\ observed' = {s} /\ pipeline' = PipelineBuilt(s) /\ lastAttempt' = {0}
        /\ status' = StatusFor(s)
        /\ sinceStart' = {[settings |-> s, age |-> 0]}
  /\ loop' = [at |-> "export", settings |-> loop.settings, elapsed |-> 0]
  /\ UNCHANGED <<wanted, latest, otelSpent>>

WaitsTurn ==
  /\ loop.at = "act"
  /\ LET s == loop.settings
     IN /\ s.enabled /\ ~NeedsPipeline(s) /\ ~CanExport(s)
        /\ observed' = {s} /\ pipeline' = PipelineAfter(s) /\ lastAttempt' = AttemptAfter(s)
        /\ sinceStart' = SinceAfter(s) /\ status' = StatusFor(s)
  /\ loop' = Sleeping(Tick)
  /\ UNCHANGED <<wanted, latest, otelSpent>>

RestPlain(elapsed) == Tick - elapsed   \* variant: does not saturate

\* next_tick_delay: the tick goes on from the iteration's start.
Rest(elapsed) == IF elapsed >= Tick THEN 0 ELSE Tick - elapsed

\* The collector answers, refuses or times out.
Completes ==
  /\ loop.at = "export"
  /\ \E outcome \in {"success", "failure"} : status' = [status EXCEPT !.last = outcome]
  /\ loop' = Sleeping(Rest(loop.elapsed))
  /\ UNCHANGED <<wanted, latest, pipeline, observed, lastAttempt, sinceStart, otelSpent>>

Wakes ==
  /\ loop.at = "sleep" /\ loop.left = 0
  /\ loop' = [at |-> "read"]
  /\ UNCHANGED <<wanted, latest, pipeline, observed, lastAttempt, status, sinceStart, otelSpent>>

Older(age) == IF age < MaxInterval THEN age + 1 ELSE age

\* A unit of time.  An export is given up after its timeout, a due timer wakes the loop.
UnitPasses ==
  /\ \/ loop.at = "sleep" /\ loop.left > 0 /\ loop' = [loop EXCEPT !.left = @ - 1]
     \/ loop.at = "export" /\ loop.elapsed < ExportTimeout
                           /\ loop' = [loop EXCEPT !.elapsed = @ + 1]
  /\ lastAttempt' = {Older(age) : age \in lastAttempt}
  /\ sinceStart' = {[x EXCEPT !.age = Older(@)] : x \in sinceStart}
  /\ UNCHANGED <<wanted, latest, pipeline, observed, status, otelSpent>>

\* The wall clock is set back or forth.
ClockSteps ==
  /\ otelSpent.steps < MaxClockSteps
  /\ otelSpent' = [otelSpent EXCEPT !.steps = @ + 1]
  /\ \E d \in {-ClockStep, ClockStep} :
       lastAttempt' = {IF age + d > MaxInterval THEN MaxInterval ELSE age + d : age \in lastAttempt}
  /\ UNCHANGED <<wanted, latest, loop, pipeline, observed, status, sinceStart>>

SavesOtel ==
  /\ otelSpent.changes < MaxOtelChanges
  /\ \E s \in OtelSettings \ {wanted} : wanted' = s
  /\ otelSpent' = [otelSpent EXCEPT !.changes = @ + 1]
  /\ UNCHANGED <<latest, loop, pipeline, observed, lastAttempt, status, sinceStart>>

\* serve publishes the first snapshot before it starts the loop; the loop does not rely
\* on it.
FirstSnapshot ==
  /\ ~latest /\ latest' = TRUE
  /\ UNCHANGED <<wanted, loop, pipeline, observed, lastAttempt, status, sinceStart, otelSpent>>

OtelLoop == \/ ReadsSettings \/ ActsDisabled \/ BuildFails \/ Exports \/ WaitsTurn
            \/ Completes \/ Wakes

OtelNext == \/ OtelLoop \/ ReadFails \/ ClockUnreadable \/ UnitPasses \/ ClockSteps
            \/ SavesOtel \/ FirstSnapshot

\* The task is scheduled, time passes, and the daemon collects.
OtelFairness == WF_otelVars(OtelLoop) /\ WF_otelVars(UnitPasses) /\ WF_otelVars(FirstSnapshot)

OtelSpec == OtelInit /\ [][OtelNext]_otelVars /\ OtelFairness

-----------------------------------------------------------------------------
(* Properties. *)

\* Types; a pause is never negative (a timer that could not be armed).
OtelTypeOK ==
  /\ wanted \in OtelSettings /\ latest \in BOOLEAN
  /\ loop.at \in {"read", "act", "export", "sleep"}
  /\ loop.at = "sleep" => loop.left \in Nat
  /\ pipeline \subseteq OtelSettings /\ observed \subseteq OtelSettings
  /\ lastAttempt \subseteq (-(ClockStep * MaxClockSteps))..MaxInterval
  /\ status.last \in {"none", "success", "failure"}

\* Nothing is sent by a pipeline of older settings than the iteration read, and none is
\* kept for an exporter that is switched off (a changed endpoint, header or attribute
\* takes effect with the next iteration).
PipelineIsOfSettings ==
  /\ pipeline \subseteq observed
  /\ \A s \in pipeline : s.enabled
  /\ loop.at = "export" => pipeline = {loop.settings}

\* Exports are an interval apart, whatever fails in between (a read of the settings or of the
\* clock, an export), while the loop observes the same settings and nobody sets the clock.
ExportsSpaced ==
  [][sinceStart' # sinceStart /\ otelSpent.steps = 0 /\ loop'.at = "export" /\ loop.at = "act"
     => \A x \in sinceStart :
          x.settings = loop.settings => x.age >= loop.settings.interval]_otelVars

\* An exporter that stays on, with settings a pipeline can be built for, goes on
\* exporting: a clock that was set back, a failed read or export only delays it.
KeepsExporting ==
  <>[](wanted.enabled /\ wanted \notin Unbuildable) => []<>(loop.at = "export")

\* Coverage tells of the saved settings in the end, and a switched-off exporter holds no
\* pipeline.
StatusCatchesUp ==
  <>[](/\ status.enabled = wanted.enabled /\ status.endpoint = wanted.endpoint
       /\ wanted.enabled \/ pipeline = {})
=============================================================================
