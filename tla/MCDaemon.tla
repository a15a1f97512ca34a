------------------------------ MODULE MCDaemon ------------------------------
EXTENDS Daemon, ProcessRank, TLC

CONSTANT Part   \* the component a behaviour is about; the others do not move
VARIABLE part

MCLadder == [l1 |-> 1, l2 |-> 1, l3 |-> [enabled |-> TRUE, keep |-> 1],
             l4 |-> [enabled |-> TRUE, keep |-> 2], fast |-> 1,
             queryable |-> FALSE, cold |-> FALSE, minFree |-> 1]
MCForever == [MCLadder EXCEPT !.l4.keep = 0]
MCWithout == [MCLadder EXCEPT !.l3.enabled = FALSE, !.minFree = 2]

CONSTANTS r1, r2

\* A dashboard sends everything, older clients leave blocks out.
MCKeepForever == [ladder |-> {MCForever}, otel |-> {"a"}, thermal |-> {"b"}, value |-> "a",
                  hours |-> 1, days |-> 1]
MCNoThermal == [ladder |-> {MCWithout}, otel |-> {"b"}, thermal |-> {}, value |-> "b",
                hours |-> 1, days |-> 1]
MCLegacy == [ladder |-> {}, otel |-> {}, thermal |-> {"a"}, value |-> "a",
             hours |-> 1, days |-> 2]
MCDocument == {MCKeepForever, MCNoThermal, MCLegacy}
MCCarried == (r1 :> {MCKeepForever, MCLegacy}) @@ (r2 :> {MCNoThermal})

MCToggled == [enabled : BOOLEAN, keep : 0..3]
ASSUME LegacyClients ==
  \A l1, l2 \in 1..3, l3, l4 \in MCToggled :
    LET ladder == [MCLadder EXCEPT !.l1 = l1, !.l2 = l2, !.l3 = l3, !.l4 = l4]
    IN IsValid(ladder) => LegacyRoundTrip(ladder)

MCOtel == {[enabled |-> TRUE, endpoint |-> "a", interval |-> 2],
           [enabled |-> TRUE, endpoint |-> "b", interval |-> 3],
           [enabled |-> FALSE, endpoint |-> "a", interval |-> 2],
           [enabled |-> TRUE, endpoint |-> "c", interval |-> 1]}
MCUnbuildable == {s \in MCOtel : s.endpoint = "c"}

MCConfig == {[interval |-> 3, chips |-> {}], [interval |-> 2, chips |-> {"cpu"}]}
MCFirstConfig == [interval |-> 3, chips |-> {}]

\* The rows of a sample: consumers of before the second list take the first ones for the
\* processes by CPU.
MCProcess == [cpu : 0..1, rss : 0..2, swap : 0..1]
ASSUME RankedLists ==
  \A f \in [1..3 -> MCProcess], n \in 0..3 :
    LET ps == {[pid |-> i, cpu |-> f[i].cpu, rss |-> f[i].rss, swap |-> f[i].swap] : i \in 1..3}
        rows == RankProcesses(ps, n)
        Most(i) == IF i < 1 THEN 1 ELSE i
        first == IF Most(n) < 3 THEN Most(n) ELSE 3
    IN /\ Len(rows) \in first..(2 * Most(n)) /\ Cardinality({rows[i].pid : i \in DOMAIN rows}) = Len(rows)
       /\ \A i \in 1..first : CpuRank(ps, rows[i]) = i - 1
       /\ \A i \in 1..Len(rows), j \in 1..Len(rows) :
            first < i /\ i < j => MemoryRank(ps, rows[i]) < MemoryRank(ps, rows[j])

allVars == <<part, controlVars, otelVars, collectorVars>>

\* The disk starts low: how it came to be does not matter, a check may find it at any time.
MCInit == part \in Part /\ ControlInit /\ OtelInit /\ CollectorInit
          /\ free = 0
          /\ (part # "collector" => ~plugged)
          /\ (part # "otel" => wanted = [enabled |-> FALSE, endpoint |-> "a", interval |-> 2])
OfControl(A) == part = "control" /\ A /\ UNCHANGED <<part, otelVars, collectorVars>>
OfOtel(A) == part = "otel" /\ A /\ UNCHANGED <<part, controlVars, collectorVars>>
OfCollector(A) == part = "collector" /\ A /\ UNCHANGED <<part, controlVars, otelVars>>

\* The bounded time comes to an end.
Ends == part = "collector" /\ UNCHANGED allVars

MCNext == OfControl(ControlNext) \/ OfOtel(OtelNext) \/ OfCollector(CollectorNext) \/ Ends

\* ControlFairness and OtelFairness, of the behaviours about each: a behaviour has one
\* part only, so that two actions may share a conjunct.  Requests make finitely many steps,
\* so that they may share one too.
MCSpec == /\ MCInit /\ [][MCNext]_allVars
          /\ WF_allVars(OfControl(Works(Loop)) \/ OfOtel(OtelLoop))
          /\ WF_allVars(OfControl(CollectsSnapshot) \/ OfOtel(UnitPasses))
          /\ WF_allVars(OfControl(ChecksDisk) \/ OfOtel(FirstSnapshot))
          /\ WF_allVars(OfControl(\E c \in Request : Works(c)))

\* The liveness of each component, of the behaviours that are about it.
ControlSettles == part = "control" => CollectorConverges /\ PressureCatchesUp
OtelSettles == part = "otel" => KeepsExporting /\ StatusCatchesUp
=============================================================================
