------------------------------- MODULE MCClock -------------------------------
(* Instances of Clock: idle, main, one more thread of the same priority as *)
(* main, and an application timer beside the timers of these threads.      *)
EXTENDS Clock

CONSTANTS idle, main, a, x

MCThread == {idle, main, a}
MCTimers == {idle, main, a, x}
MCQueue == {"ipc", "defunct"}
MCPrio == [t \in Thread |-> IF t = idle THEN 1 ELSE 0]

\* Only distances between ticks matter, and of a timer that is not running
\* only what is read when it is started.
MCView ==
  <<k, pc, arg, isr, call, stray, tm.list, tm.active,
    [z \in Timers |-> IF Counting(z) THEN <<Minus(tm.at[z], tm.tick), due[z]>> ELSE << >>],
    [z \in AppTimer |-> <<tm.init[z], tm.periodic[z]>>]>>

=============================================================================
