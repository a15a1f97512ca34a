--------------------------- MODULE MCArchiveMove ----------------------------
(* Three hours: a batch of two with the oldest changed under it leaves a   *)
(* gap that the next batch spans.                                          *)
EXTENDS ArchiveMove
=============================================================================
