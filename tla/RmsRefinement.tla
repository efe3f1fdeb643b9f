--------------------------- MODULE RmsRefinement ----------------------------
(* RmsScheduler implements RmsRegistry.                                    *)
EXTENDS RmsScheduler

\* What the scheduler promises about the registered tasks: its list, read as
\* task records, behaves as RmsRegistry specifies under every interleaving
\* of taskregister(), deregister() and cleanuplist().
Registry == INSTANCE RmsRegistry WITH tasks <- TaskList
ImplementsRegistry == Registry!Spec
=============================================================================
