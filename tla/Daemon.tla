------------------------------- MODULE Daemon -------------------------------
(***************************************************************************)
(* Three components of the daemon beside each other: its control plane,    *)
(* the OpenTelemetry loop and the Linux collector.  They share no state:   *)
(* each takes its own steps, whatever the others do.                       *)
(***************************************************************************)
EXTENDS ControlPlane, OtelExport, Collector

DaemonSpec == ControlSpec /\ OtelSpec /\ CollectorSpec

-----------------------------------------------------------------------------
(* Properties. *)

\* The types of all three: a call waits for the configuration lock, or holds it, where and
\* only where it is queued, once; no timer is armed with a negative pause; nothing was read
\* in the future, and the process table no earlier than the machine's CPU time.
DaemonTypeOK == ControlTypeOK /\ OtelTypeOK /\ CollectorTypeOK
=============================================================================
