---------------------------- MODULE MCCpuTracker ----------------------------
(* Small instances of the CPU usage tracker for TLC.                       *)
EXTENDS CpuTracker
=============================================================================
