----------------------------- MODULE KeptHours ------------------------------
(***************************************************************************)
(* What the queryable archive promises about the hours of history: an hour *)
(* only gains samples, wherever its row is stored, and a power cut takes   *)
(* nothing back that had become durable.                                   *)
(***************************************************************************)
CONSTANTS Hour, Sample

VARIABLES kept,      \* the samples each hour shows now
          durable    \* those it shows after a power cut, whatever that undoes

Within(f, g) == \A h \in Hour : f[h] \subseteq g[h]

Init == kept = [h \in Hour |-> {}] /\ durable = kept

Record(h, s) ==
  /\ kept' = [kept EXCEPT ![h] = @ \cup {s}]
  /\ Within(durable, durable') /\ Within(durable', kept')

\* Moving an hour may make it durable and is otherwise invisible.
Flush ==
  /\ kept' = kept
  /\ Within(durable, durable') /\ Within(durable', kept)

PowerCut ==
  /\ Within(durable, kept') /\ Within(kept', kept)
  /\ durable' = kept'

Next == (\E h \in Hour, s \in Sample : Record(h, s)) \/ Flush \/ PowerCut

Spec == Init /\ [][Next]_<<kept, durable>>
=============================================================================
