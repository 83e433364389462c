--------------------------------- MODULE IPC ---------------------------------
(***************************************************************************)
(* What every IPC object of src/src/ipc.c shares: the order of its list of *)
(* suspended threads and how threads enter and leave it, as operators on   *)
(* the kernel record of RTKernel.                                          *)
(***************************************************************************)
EXTENDS RTKernel, FiniteSets

Seqs == INSTANCE SequencesExt

Flag == {"FIFO", "PRIO"}

\* Mutant: the flag of the object is ignored.
InsertPos_IgnoresFlag(k, q, t, flag) == Len(k.wait[q]) + 1

\* Where rt_ipc_list_suspend links thread t: at the tail, or before the first
\* thread of strictly lower priority.
InsertPos(k, q, t, flag) ==
  LET lower == {i \in DOMAIN k.wait[q] : k.prio[t] < k.prio[k.wait[q][i]]}
  IN  IF flag = "FIFO" \/ lower = {} THEN Len(k.wait[q]) + 1 ELSE Min(lower)

rt_ipc_list_suspend(k, q, t, flag) ==
  LET s == rt_thread_suspend(k, t)
  IN  [s EXCEPT !.wait[q] = InsertAt(@, InsertPos(s, q, t, flag), t)]

rt_ipc_list_resume(k, q) == rt_thread_resume(k, Head(k.wait[q]))

\* One iteration of the loop of rt_ipc_list_resume_all.
ResumeOne(k, t) == rt_thread_resume([k EXCEPT !.error[t] = "ERROR"], t)

\* The loop when the caller has interrupts disabled throughout.
rt_ipc_list_resume_all(k, q) == Seqs!FoldLeft(ResumeOne, k, k.wait[q])

\* The kernel when the threads of s have been started, the others do not
\* exist, and the first of the highest priority has been given the CPU.
InitKernel(c, s) ==
  [ready |-> [p \in Prio |-> Seqs!SetToSeq({t \in s \ {c} : InitPrio[t] = p})],
   group |-> {InitPrio[t] : t \in s \ {c}},
   wait  |-> [q \in Queue |-> << >>],
   cur   |-> c,
   stat  |-> [t \in Thread |-> IF t = c THEN "RUNNING"
                               ELSE IF t \in s THEN "READY" ELSE "NONE"],
   prio  |-> InitPrio,
   error |-> [t \in Thread |-> "EOK"],
   slice |-> [t \in Thread |-> InitTick],
   timer |-> [t \in Thread |-> FALSE],
   lock  |-> 0]

IsFirst(c, s) == \A t \in s : InitPrio[c] <= InitPrio[t]

=============================================================================
