----------------------------- MODULE MCMonitor -----------------------------
(* The monitor, run by launchd and by an operator at the same time.        *)
EXTENDS Monitor

CONSTANTS backup, queue, m1, m2
=============================================================================
