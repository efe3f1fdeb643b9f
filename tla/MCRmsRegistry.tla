--------------------------- MODULE MCRmsRegistry ----------------------------
(* Small instances of the task registry for TLC.                           *)
EXTENDS RmsRegistry

\* Periods with different rounding errors, and what a zero or a negative
\* computation time does.
SmallPeriods == {0, 3, 5, 7, 8}
SmallComps   == -1 .. 3

\* The hypothesis under which the registry's theorems are proved holds here.
ASSUME SmallArgsDoNotWrap == NoWrap
=============================================================================
