----------------------------- MODULE MCScheduler -----------------------------
(* Instances of Scheduler for model checking: idle, main and one more      *)
(* thread.                                                                 *)
EXTENDS Scheduler

CONSTANTS idle, main, a

MCThread == {idle, main, a}
MCQueue == {"ipc", "defunct"}
MCPrioHigher == [t \in Thread |-> IF t = idle THEN 2 ELSE IF t = main THEN 1 ELSE 0]

=============================================================================
