------------------------------ MODULE MCLadder ------------------------------
(* Values for the ladder's constants.  A minute holds three instants, five *)
(* minutes are two of those and an hour is two of these, so every bucket   *)
(* can be folded from several, and every horizon is longer than an hour.   *)
EXTENDS Ladder

MCRes == <<1, 3, 6, 12>>
MCKeep == <<13, 14, 15, 16>>

AllOn == {[keep |-> MCKeep, on |-> Coarse]}
L3Switched == {[keep |-> MCKeep, on |-> S] : S \in {{4}, Coarse}}

\* Statements that can fail.  Of a tick, all but those of the promotion to five
\* minutes and the read of their watermark as the limit of the hours.
Inserts == {<<"insert", pc>> : pc \in {"raw", "measure", "rebuild", "minute", "look", "flags",
                                      "source", "target", "write"}}
Ticks == ({"sync", "authority"} \X Coarse) \cup ({"prune"} \X Tier)
         \cup ({"from", "seek", "gather", "upsert", "mark"} \X {4})
EveryStatement == Inserts \cup Ticks
TicksOnly == {<<"insert", "raw">>} \cup Ticks
FirstMark == {<<"mark", 3>>}
=============================================================================
