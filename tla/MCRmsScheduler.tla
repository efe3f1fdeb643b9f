--------------------------- MODULE MCRmsScheduler ---------------------------
(* Small instances of the scheduler for TLC.                               *)
EXTENDS RmsRefinement, TLC

Symmetry == Permutations(Pid) \cup Permutations(Pcb)
=============================================================================
