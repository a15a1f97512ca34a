---------------------------- MODULE MCWriterGate ----------------------------
(* Four tasks: the collection loop and three HTTP handlers.                *)
EXTENDS WriterGate
=============================================================================
