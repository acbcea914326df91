---------------------- MODULE MCLifecycleWakeScheduler ----------------------
(* Two sources, one of them the reconciler's.                               *)
EXTENDS LifecycleWakeScheduler

CONSTANTS lease, kanban, s1, s2

McSources == {lease, kanban}
McLate == {lease}
McScanIds == {s1, s2}
=============================================================================
