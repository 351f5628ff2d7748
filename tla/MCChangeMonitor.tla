--------------------------- MODULE MCChangeMonitor ---------------------------
(* ChangeMonitor with few registrations and termination functions. *)
EXTENDS ChangeMonitor
=============================================================================
