-------------------------------- MODULE Collector --------------------------------
(***************************************************************************)
(* The Linux collector (tinytop-collectors): what one sample is made of    *)
(* and how old each part of it is.  A collection reads the slow sources    *)
(* when their interval is over, the fast ones always, and refreshes the    *)
(* process table of the sysinfo library unless it has just done so.  The   *)
(* daemon holds a lock over a collection and over configure, so that they  *)
(* do not overlap, but any of the reads may fail, and time passes between  *)
(* them.                                                                   *)
(*                                                                         *)
(* Values are replaced by the times they were read at: a CPU figure is the *)
(* two readings it is the difference of, a list of file systems the time   *)
(* of its enumeration.  0 stands for no reading.                           *)
(***************************************************************************)
EXTENDS Integers, FiniteSets

CONSTANTS
  MinRefresh,    \* MINIMUM_CPU_UPDATE_INTERVAL of sysinfo, 200 ms
  Config,        \* values of CollectorConfig: interval (filesystems_interval) and chips, the
                 \* chips thermal reads ({} while it is off, or the CPU's and extra ones)
  FirstConfig,   \* CollectorConfig::default
  MaxTime,       \* bound on time
  MaxFailures,   \* bound on failing reads
  MaxPlugs       \* bound on GPUs coming and going

ASSUME CollectorConstants ==
  /\ MinRefresh \in Nat \ {0} /\ {MaxTime, MaxFailures, MaxPlugs} \subseteq Nat /\ 0 < MaxTime
  /\ FirstConfig \in Config /\ \A c \in Config : c.interval \in Nat \ {0}

VARIABLES
  time,
  plugged,   \* whether the machine has a GPU now
  linux, \* LinuxCollector
  table,     \* the System of sysinfo
  op,        \* the collection that is running
  shown,     \* the snapshot of the last collection, {} while there is none
  ended,     \* end of the CPU figure of the last snapshot
  failures, plugs,
  torn       \* refreshes until the table is whole again after a failed collection

collectorVars == <<time, plugged, linux, table, op, shown, ended, failures, torn, plugs>>
counts == <<failures, torn, plugs>>

-----------------------------------------------------------------------------
(* sysinfo: refresh_processes reads every process, and the machine's CPU   *)
(* time only if its last reading is old enough.  A process's figure is its *)
(* CPU time from one read to the next (used) over the machine's between    *)
(* its last two readings (over).                                           *)

\* Variant: the list of CPUs is rebuilt before every refresh.
RefreshedTableRebuilt ==
  [read |-> time, machine |-> time, used |-> <<table.read, time>>, over |-> <<0, time>>]

\* Variant: a refresh that is due for the machine leaves the processes as they were.
RefreshedMachine ==
  IF time - table.machine >= MinRefresh \/ table.machine = 0
  THEN [table EXCEPT !.machine = time, !.over = <<table.machine, time>>]
  ELSE [table EXCEPT !.read = time, !.used = <<table.read, time>>]

RefreshedTable ==
  IF time - table.machine >= MinRefresh \/ table.machine = 0
  THEN [read |-> time, machine |-> time, used |-> <<table.read, time>>,
        over |-> <<table.machine, time>>]
  ELSE [table EXCEPT !.read = time, !.used = <<table.read, time>>]

-----------------------------------------------------------------------------
(* The GPU backend: {} while none was found. *)

Detected == {[adapters |-> plugged, scanned |-> 0]}

\* scan_fdinfo: the engines' time since the previous scan, if there is one.
Busy(gpu) ==
  {<<g.scanned, time>> : g \in {b \in gpu : b.adapters /\ 0 < b.scanned /\ b.scanned < time}}

Scanned(gpu) == {[g EXCEPT !.scanned = IF g.adapters THEN time ELSE @] : g \in gpu}

-----------------------------------------------------------------------------
Idle == [at |-> "idle"]

CollectorInit ==
  /\ time = 1 /\ plugged \in BOOLEAN /\ shown = {} /\ ended = 0 /\ op = Idle
  /\ failures = 0 /\ torn = 0 /\ plugs = 0
  /\ table = [read |-> 0, machine |-> 0, used |-> <<0, 0>>, over |-> <<0, 0>>]
  /\ linux = [config |-> FirstConfig, previous |-> 0, refreshed |-> 0, taken |-> 0,
              filesystems |-> 0, sensors |-> {}, listed |-> FALSE,
              gpu |-> IF plugged THEN Detected ELSE {}]

Free == op = Idle /\ shown = {}

Configure(config) ==
  /\ Free
  /\ linux' = [linux EXCEPT !.config = config]
  /\ UNCHANGED <<time, plugged, table, op, shown, ended, counts>>

\* Variant: only once the interval is exceeded.
SlowDueLate == linux.taken = 0 \/ time - linux.taken > linux.config.interval

SlowDue == linux.taken = 0 \/ time - linux.taken >= linux.config.interval

CollectBegins ==
  /\ Free
  /\ op' = [at |-> IF SlowDue THEN "slow" ELSE "fast", now |-> time]
  /\ UNCHANGED <<time, plugged, linux, table, shown, ended, counts>>

\* Variant: the clients of the last scan are kept when the adapters are listed again.
GpuKeptScan ==
  IF linux.gpu # {} THEN {[g EXCEPT !.adapters = plugged] : g \in linux.gpu}
  ELSE IF linux.taken # 0 /\ plugged THEN Detected ELSE {}

\* A machine without a GPU at the start is looked at again from the second slow tick on.
GpuAfterSlow ==
  IF linux.gpu # {} \/ (linux.taken # 0 /\ plugged) THEN Detected ELSE linux.gpu

ReadsSlow ==
  /\ op.at = "slow"
  /\ linux' = [linux EXCEPT !.taken = op.now, !.filesystems = time,
                            !.sensors = linux.config.chips, !.gpu = GpuAfterSlow,
                            !.listed = IF GpuAfterSlow = {} THEN @ ELSE plugged]
  /\ op' = [op EXCEPT !.at = "fast"]
  /\ UNCHANGED <<time, plugged, table, shown, ended, counts>>

FirstCollection == linux.previous = 0
RefreshDue == linux.refreshed = 0 \/ time - linux.refreshed >= MinRefresh

\* collect_fast_sources_with, up to its first refresh.
ReadsFast ==
  /\ op.at = "fast"
  /\ table' = IF FirstCollection \/ RefreshDue THEN RefreshedTable ELSE table
  /\ op' = [at |-> IF FirstCollection THEN "window" ELSE "sample", now |-> op.now,
            refresh |-> RefreshDue, from |-> IF FirstCollection THEN time ELSE linux.previous]
  /\ torn' = IF (FirstCollection \/ RefreshDue) /\ 0 < torn THEN torn - 1 ELSE torn
  /\ UNCHANGED <<time, plugged, linux, shown, ended, failures, plugs>>

\* A first collection sleeps for FIRST_COLLECTION_CPU_WINDOW and refreshes again.
RefreshesAgain ==
  /\ op.at = "window" /\ time - op.from >= MinRefresh
  /\ table' = RefreshedTable
  /\ op' = [op EXCEPT !.at = "sample"]
  /\ UNCHANGED <<time, plugged, linux, shown, ended, counts>>

\* Variant: stamped with the time the collection began at.
StampedBegin == IF op.refresh THEN op.now ELSE linux.refreshed

StampedRefresh == IF op.refresh THEN time ELSE linux.refreshed

Snapshot ==
  [cpu |-> <<op.from, time>>, used |-> table.used, over |-> table.over,
   filesystems |-> linux.filesystems, age |-> op.now - linux.taken,
   gpus |-> linux.gpu # {} /\ linux.listed, busy |-> Busy(linux.gpu),
   sensors |-> IF linux.config.chips = {} THEN {} ELSE linux.sensors]

\* From the second reading of the counters on; the snapshot may still not parse.
Samples ==
  /\ op.at = "sample"
  /\ linux' = [linux EXCEPT !.refreshed = StampedRefresh, !.previous = time, !.gpu = Scanned(@)]
  /\ op' = Idle
  /\ \/ shown' = {Snapshot} /\ UNCHANGED failures
     \/ failures < MaxFailures /\ failures' = failures + 1 /\ UNCHANGED shown
  /\ UNCHANGED <<time, plugged, table, ended, torn, plugs>>

\* The daemon has the snapshot.
Takes ==
  /\ \E s \in shown : ended' = s.cpu[2]
  /\ shown' = {}
  /\ UNCHANGED <<time, plugged, linux, table, op, counts>>

\* A read fails: what was done so far stays.  After a refresh that was not noted, the next one
\* may pass over the machine, and the one after that has two spans to make up for.
CollectFails ==
  /\ op.at \in {"slow", "fast", "sample"} /\ failures < MaxFailures
  /\ failures' = failures + 1
  /\ op' = Idle
  /\ torn' = IF op.at = "sample" /\ op.refresh THEN 3 ELSE torn
  /\ UNCHANGED <<time, plugged, linux, table, shown, ended, plugs>>

\* Time passes between collections, while the file systems are enumerated, during the sleep
\* and after a refresh.
Ticks ==
  /\ time < MaxTime /\ op.at # "fast" /\ shown = {} /\ time' = time + 1
  /\ UNCHANGED <<plugged, linux, table, op, shown, ended, counts>>

Plugs ==
  /\ plugs < MaxPlugs /\ plugs' = plugs + 1 /\ plugged' = ~plugged
  /\ UNCHANGED <<time, linux, table, op, shown, ended, failures, torn>>

CollectorNext ==
  \/ \E config \in Config : Configure(config)
  \/ CollectBegins \/ ReadsSlow \/ ReadsFast \/ RefreshesAgain \/ Samples \/ Takes
  \/ CollectFails \/ Ticks \/ Plugs

CollectorSpec == CollectorInit /\ [][CollectorNext]_collectorVars

-----------------------------------------------------------------------------
CollectorTypeOK ==
  /\ time \in 1..MaxTime /\ plugged \in BOOLEAN /\ torn \in 0..3
  /\ failures \in 0..MaxFailures /\ plugs \in 0..MaxPlugs /\ linux.config \in Config
  /\ {linux.previous, linux.refreshed, linux.taken, linux.filesystems, ended} \subseteq 0..time
  /\ table.machine <= table.read /\ table.read <= time
  /\ op.at \in {"idle", "slow", "fast", "window", "sample"}
  /\ Cardinality(shown) <= 1 /\ Cardinality(linux.gpu) <= 1

\* A sample is of one time.  The host's CPU figure begins where that of the last sample ended,
\* or later if a collection between them failed.  A process's figure is its time and the
\* machine's over the same span, even when collections follow each other closely; when one of
\* them failed between refreshing the table and noting that it had, again from the third
\* refresh after that on.  File systems are younger than the interval, and GPU figures do not
\* reach back behind the enumeration that listed the adapters.
SamplesCoherent ==
  \A s \in shown :
    /\ ended # 0 => IF failures = 0 THEN s.cpu[1] = ended ELSE s.cpu[1] >= ended
    /\ torn = 0 => s.used = s.over /\ 0 < s.used[1]
    /\ s.age < linux.config.interval /\ s.filesystems >= linux.taken
    /\ \A span \in s.busy : s.gpus /\ linux.taken <= span[1]
=============================================================================
