-------------------------- MODULE MCTaskLifecycle --------------------------
(* Instances of TaskLifecycle for TLC.                                      *)
EXTENDS TaskLifecycle

Limit(n, q) == [maxConcurrentTasks |-> n, maxQueuedTasks |-> q]

(* With two tasks: the second is refused, is queued, or runs beside the      *)
(* first.                                                                    *)
AllLimits == {Limit(1, 0), Limit(1, 1), Limit(2, 1)}
OneSlot == {Limit(1, 1)}
=============================================================================
