--------------------------- MODULE MCFaultMonitor ---------------------------
(* Finite instances of FaultMonitor for TLC. *)
EXTENDS FaultMonitor

(* A stalled sample (0), a nominal one (1) and a late one (3). *)
MCDts == {0, 1, 3}
=============================================================================
