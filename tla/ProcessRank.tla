------------------------------- MODULE ProcessRank -------------------------------
(***************************************************************************)
(* Which processes a sample keeps (process_rank.rs): the top n by CPU,     *)
(* then those of the top n by memory that are not among them.  A CPU       *)
(* figure that is not a number is below all others.                        *)
(***************************************************************************)
EXTENDS Integers, FiniteSets, SequencesExt

Footprint(p) == p.rss + p.swap

CpuBefore(p, q) ==
  \/ p.cpu > q.cpu
  \/ p.cpu = q.cpu /\ Footprint(p) > Footprint(q)
  \/ p.cpu = q.cpu /\ Footprint(p) = Footprint(q) /\ p.pid < q.pid

MemoryBefore(p, q) ==
  \/ Footprint(p) > Footprint(q)
  \/ Footprint(p) = Footprint(q) /\ p.cpu > q.cpu
  \/ Footprint(p) = Footprint(q) /\ p.cpu = q.cpu /\ p.pid < q.pid

CpuRank(ps, p) == Cardinality({q \in ps : CpuBefore(q, p)})
MemoryRank(ps, p) == Cardinality({q \in ps : MemoryBefore(q, p)})

RankProcesses(ps, count) ==
  LET n == IF count < 1 THEN 1 ELSE count
      byCpu == {p \in ps : CpuRank(ps, p) < n}
      byMemory == {p \in ps : MemoryRank(ps, p) < n}
  IN SetToSortSeq(byCpu, CpuBefore) \o SetToSortSeq(byMemory \ byCpu, MemoryBefore)
=============================================================================
