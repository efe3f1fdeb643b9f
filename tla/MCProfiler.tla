----------------------------- MODULE MCProfiler -----------------------------
(* Small instances of the page fault profiler for TLC.                     *)
EXTENDS Profiler
=============================================================================
