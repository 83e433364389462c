------------------------------ MODULE Semaphore ------------------------------
(***************************************************************************)
(* The counting semaphore of src/src/ipc.c under the real scheduler: the   *)
(* clients take it (waiting for ever, with a timeout, or not at all) and   *)
(* release it, interrupt handlers release it, and a client may reset or    *)
(* delete it.                                                              *)
(*                                                                         *)
(*   obj.value  sem->value                                                 *)
(*   obj.total  history: tokens put into the semaphore so far              *)
(* A client that has a token is at the label "hold".                       *)
(***************************************************************************)
EXTENDS Client, Integers

CONSTANTS IpcFlag,     \* RT_IPC_FLAG_FIFO or RT_IPC_FLAG_PRIO
          InitValue,   \* the value given to rt_sem_init
          ValueMod,    \* 2^16 in the code: sem->value is an rt_uint16_t
          MaxTotal     \* bound on the tokens interrupts may add

Init == /\ InitClients
        /\ obj = [value |-> InitValue, total |-> InitValue]
        /\ own = [t \in Thread |-> {}]

-----------------------------------------------------------------------------

\* rt_sem_take: the token is there.
TakeAvailable ==
  /\ Calls("recv") /\ obj.value > 0
  /\ obj' = [obj EXCEPT !.value = @ - 1]
  /\ Goto("hold")
  /\ UNCHANGED <<k, timed, alive, own>>

\* rt_sem_take with time # 0: queue up, start the timer if time > 0.
TakeBlock(bounded) ==
  /\ Calls("recv") /\ obj.value = 0
  /\ Park(rt_ipc_list_suspend([k EXCEPT !.error[k.cur] = "EOK"], "recv", k.cur, IpcFlag),
          "blocked", bounded)
  /\ UNCHANGED <<alive, obj, own>>

\* The return from rt_schedule: thread->error decides.
TakeReturn ==
  /\ pc[k.cur] = "woken"
  /\ Return(IF k.error[k.cur] = "EOK" THEN "hold" ELSE "run")
  /\ UNCHANGED <<k, alive, obj, own>>

\* Mutant: the token is counted although it has been handed over.
ReleaseValue_AlwaysCounts == (obj.value + 1) % ValueMod

\* rt_sem_release hands the token to the first waiter or counts it.
ReleaseValue ==
  IF k.wait["recv"] # << >> THEN obj.value ELSE (obj.value + 1) % ValueMod

\* rt_sem_release by a thread: it reschedules only after waking somebody.
Release ==
  /\ "send" \in Api /\ alive /\ pc[k.cur] = "hold"
  /\ WakeFirst("recv")
  /\ obj' = [obj EXCEPT !.value = ReleaseValue]
  /\ UNCHANGED <<alive, own>>

\* rt_sem_control(RT_IPC_CMD_RESET): wake everybody with an error.
Reset(v) ==
  /\ Calls("reset")
  /\ k' = rt_ipc_list_resume_all(k, "recv")
  /\ obj' = [value |-> v, total |-> obj.total + v - obj.value]
  /\ Goto("sched")
  /\ UNCHANGED <<timed, alive, own>>

ReleaseFromISR ==
  /\ "isr" \in Api /\ alive /\ obj.total < MaxTotal
  /\ k' = WokenByISR("recv")
  /\ obj' = [value |-> ReleaseValue, total |-> obj.total + 1]
  /\ UNCHANGED <<pc, timed, alive, own>>

Next ==
  \/ TakeAvailable \/ TakeReturn \/ Release \/ ReleaseFromISR \/ Common
  \/ \E bounded \in Bounded : TakeBlock(bounded)
  \/ \E v \in 0 .. InitValue : Reset(v)
  \/ Delete \/ DeleteTest(<<"recv">>, "del_free") \/ DeleteWake(<<"recv">>)
  \/ DeleteEnd

Spec == Init /\ [][Next]_vars

-----------------------------------------------------------------------------
(* Properties *)

\* The type of the object.
TypeOK == obj \in [value : 0 .. ValueMod - 1, total : Int]

\* A client owns a token from the moment a release hands it over, not from
\* the moment it returns from rt_sem_take.
Holders == {t \in Thread : pc[t] = "hold"} \cup InFlight("recv")

\* No token is lost or duplicated: the value plus the tokens owned equals the
\* tokens put in, across hand-over, timeout, reset and release from an
\* interrupt, whichever comes first (rt_sem_take, rt_sem_release).
TokensConserved == alive => obj.value + Cardinality(Holders) = obj.total

\* Nobody waits while a token is available (rt_sem_release's choice between
\* waking and counting, rt_sem_take's between counting and waiting).
NoLostWakeup == obj.value > 0 => k.wait["recv"] = << >>

=============================================================================
