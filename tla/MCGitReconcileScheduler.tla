----------------------- MODULE MCGitReconcileScheduler -----------------------
(* One repository in ticks of 500 ms, so the intervals are those of the    *)
(* code; the ceiling and the cap on the gap are scaled down.               *)
EXTENDS GitReconcileScheduler

CONSTANT r1
=============================================================================
