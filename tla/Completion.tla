------------------------------ MODULE Completion ------------------------------
(***************************************************************************)
(* The completion of components/drivers/src/completion.c under the real    *)
(* scheduler: one client at a time waits until a thread or an interrupt    *)
(* handler says that something is done.                                    *)
(*                                                                         *)
(*   obj  completion->flag = RT_COMPLETED                                  *)
(***************************************************************************)
EXTENDS Client

Init == /\ InitClients
        /\ obj = FALSE
        /\ own = [t \in Thread |-> {}]

-----------------------------------------------------------------------------

\* rt_completion_wait.  With timeout = 0 and nothing done it changes nothing.
WaitDone ==
  /\ Calls("recv") /\ obj
  /\ obj' = FALSE
  /\ UNCHANGED <<k, pc, timed, alive, own>>

\* "only one thread can suspend on complete" is asserted: clients keep to it.
WaitBlock(bounded) ==
  /\ Calls("recv") /\ ~obj /\ k.wait["recv"] = << >>
  /\ LET s == rt_thread_suspend([k EXCEPT !.error[k.cur] = "EOK"], k.cur)
     IN  Park(Enqueue(s, "recv", k.cur), "blocked", bounded)
  /\ UNCHANGED <<alive, obj, own>>

\* Back from rt_schedule, whatever the result: the flag is cleared.
WaitReturn ==
  /\ pc[k.cur] = "woken"
  /\ obj' = FALSE
  /\ Return("run")
  /\ UNCHANGED <<k, alive, own>>

\* rt_completion_done tests the flag before it disables interrupts.
Done ==
  /\ Calls("send") /\ ~obj
  /\ Goto("done_set")
  /\ UNCHANGED <<k, timed, alive, obj, own>>

DoneSet ==
  /\ pc[k.cur] = "done_set"
  /\ obj' = TRUE
  /\ WakeFirst("recv")
  /\ UNCHANGED <<alive, own>>

DoneFromISR ==
  /\ "isr" \in Api /\ ~obj
  /\ obj' = TRUE
  /\ k' = WokenByISR("recv")
  /\ UNCHANGED <<pc, timed, alive, own>>

Next ==
  \/ WaitDone \/ WaitReturn \/ Done \/ DoneSet \/ DoneFromISR \/ Common
  \/ \E bounded \in Bounded : WaitBlock(bounded)

Spec == Init /\ [][Next]_vars

-----------------------------------------------------------------------------
(* Properties *)

\* The type of the object.
TypeOK == obj \in BOOLEAN /\ own \in [Thread -> {{}}]

\* Nobody is suspended on a completion that is complete, although the flag is
\* tested before interrupts are disabled (rt_completion_done).
NoLostWakeup == obj => k.wait["recv"] = << >>

=============================================================================
