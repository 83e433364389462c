-------------------------------- MODULE Client --------------------------------
(***************************************************************************)
(* The clients of one kernel object, as far as they are the same whichever *)
(* object it is: threads that call it one step at a time, the interrupts   *)
(* between the steps, and the loops with which deleting an object wakes    *)
(* its waiters.  A call is split where it enables interrupts: pc[t] says   *)
(* where in its call client t is.  The modules that extend this one say    *)
(* what obj and own are.                                                   *)
(***************************************************************************)
EXTENDS IPC

CONSTANTS Idle,     \* never calls
          Caller,   \* the other threads of this instance
          Sleeper,  \* the clients that delay themselves
          Bounded,  \* whether waits are bounded (which need not expire) or not
          Api       \* the calls the clients of this instance make

ASSUME ClientAssumption ==
  /\ Idle \in Thread \ Sleeper /\ Caller \subseteq Thread \ {Idle}
  /\ Bounded \subseteq BOOLEAN /\ {"recv", "send"} \subseteq Queue

VARIABLES k,      \* the kernel record
          pc,     \* where each client is
          timed,  \* the wait of its pending call is bounded
          alive,  \* nobody has started to delete the object
          obj,    \* the object
          own     \* what each client has of it

vars == <<k, pc, timed, alive, obj, own>>

Label == {"run", "hold", "using", "sched", "sched_using",
          "blocked", "woken", "tx_blocked", "tx_woken",
          "copy_in", "link", "copy_out", "give_back", "done_set", "unlock",
          "del_test", "del_wake", "del_test2", "del_wake2", "del_free", "corrupt"}

InitClients ==
  /\ \E c \in Caller : IsFirst(c, Caller) /\ k = InitKernel(c, Caller \cup {Idle})
  /\ pc = [t \in Thread |-> "run"]
  /\ timed = [t \in Thread |-> FALSE]
  /\ alive = TRUE

Calls(op) == op \in Api /\ alive /\ k.cur # Idle /\ pc[k.cur] = "run"

Goto(label) == pc' = [pc EXCEPT ![k.cur] = label]

\* The current thread has been put on a list, giving s: start its timer if
\* the wait is bounded, and go on to rt_schedule.
Park(s, label, bounded) ==
  /\ k' = [s EXCEPT !.timer[k.cur] = bounded]
  /\ timed' = [timed EXCEPT ![k.cur] = bounded]
  /\ Goto(label)

\* A call ends.
Return(label) == timed' = [timed EXCEPT ![k.cur] = FALSE] /\ Goto(label)

\* A list wakes its first thread, if it has one, and the caller goes through
\* rt_schedule; then the call has ended.
WakeFirst(q) ==
  IF k.wait[q] = << >> THEN k' = k /\ Return("run")
                       ELSE k' = rt_ipc_list_resume(k, q) /\ Return("sched")

\* The same when the client has got something it will use.
WakeFirstAndUse(q) ==
  IF k.wait[q] = << >> THEN k' = k /\ Return("using")
                       ELSE k' = rt_ipc_list_resume(k, q) /\ Return("sched_using")

\* The same in an interrupt handler; no thread runs before its rt_schedule.
WokenByISR(q) == IF k.wait[q] = << >> THEN k ELSE rt_schedule(rt_ipc_list_resume(k, q))

Sched ==
  /\ pc[k.cur] \in {"sched", "sched_using", "blocked", "tx_blocked"}
  /\ k' = rt_schedule(k)
  /\ Goto(CASE pc[k.cur] = "sched" -> "run"
            [] pc[k.cur] = "sched_using" -> "using"
            [] pc[k.cur] = "blocked" -> "woken"
            [] pc[k.cur] = "tx_blocked" -> "tx_woken")
  /\ UNCHANGED <<timed, alive, obj, own>>

\* A client delays itself and lets the others run, or waits for the heap's
\* semaphore in the rt_free of a delete.  (The window inside rt_thread_sleep,
\* and the clearing of its error, which no call here reads before setting it,
\* are in Scheduler.)
Sleep ==
  /\ \/ k.cur \in Sleeper /\ pc[k.cur] \in {"run", "hold"}
     \/ pc[k.cur] = "del_free"
  /\ k' = rt_schedule(rt_thread_sleep(k, k.cur))
  /\ UNCHANGED <<pc, timed, alive, obj, own>>

Tick == k' = rt_tick_increase(k) /\ UNCHANGED <<pc, timed, alive, obj, own>>

Timeout(t) ==
  /\ k.timer[t]
  /\ k' = rt_thread_timeout(k, t)
  /\ UNCHANGED <<pc, timed, alive, obj, own>>

Common == Sched \/ Sleep \/ Tick \/ \E t \in Thread : Timeout(t)

-----------------------------------------------------------------------------
(* Waking everybody: rt_ipc_list_resume_all on each list of the object, in  *)
(* turn, tests its loop condition with interrupts enabled.                 *)

TestAt == <<"del_test", "del_test2">>
WakeAt == <<"del_wake", "del_wake2">>

\* A delete or detach function starts.
Delete ==
  /\ Calls("delete")
  /\ alive' = FALSE
  /\ Goto("del_test")
  /\ UNCHANGED <<k, timed, obj, own>>

DeleteTest(lists, end) ==
  /\ \E i \in DOMAIN lists :
       /\ pc[k.cur] = TestAt[i]
       /\ Goto(IF k.wait[lists[i]] # << >> THEN WakeAt[i]
               ELSE IF i < Len(lists) THEN TestAt[i + 1] ELSE end)
  /\ UNCHANGED <<k, timed, alive, obj, own>>

\* Mutant: only the first waiter is woken.
DeleteWake_First(lists) ==
  /\ \E i \in DOMAIN lists :
       /\ pc[k.cur] = WakeAt[i]
       /\ IF k.wait[lists[i]] = << >>
          THEN k' = k /\ Goto("corrupt")
          ELSE k' = ResumeOne(k, Head(k.wait[lists[i]])) /\ Goto("run")
  /\ UNCHANGED <<timed, alive, obj, own>>

\* The loop body takes list->next for a thread without looking again: if the
\* last waiter has timed out since the test, that is the list head itself, and
\* the caller goes on in a kernel the model no longer describes.
DeleteWake(lists) ==
  /\ \E i \in DOMAIN lists :
       /\ pc[k.cur] = WakeAt[i]
       /\ IF k.wait[lists[i]] = << >>
          THEN k' = k /\ Goto("corrupt")
          ELSE k' = ResumeOne(k, Head(k.wait[lists[i]])) /\ Goto(TestAt[i])
  /\ UNCHANGED <<timed, alive, obj, own>>

\* After the last empty list: the memory of the object is given back, in calls
\* that may wait and that leave its contents alone until they return.
DeleteEnd ==
  /\ pc[k.cur] = "del_free"
  /\ Goto("run")
  /\ UNCHANGED <<k, timed, alive, obj, own>>

\* The delete function has returned: the memory of the object is free.
Gone == ~alive /\ \A t \in Thread :
                    pc[t] \notin ToSet(TestAt) \cup ToSet(WakeAt) \cup {"del_free"}

\* A client woken with RT_EOK goes back to its loop after that and reads
\* memory that is no longer the object.
UseAfterDelete ==
  /\ Gone /\ pc[k.cur] \in {"woken", "tx_woken"} /\ k.error[k.cur] = "EOK"
  /\ Goto("corrupt")
  /\ UNCHANGED <<k, timed, alive, obj, own>>

-----------------------------------------------------------------------------

Waiting(q) == ToSet(k.wait[q])

\* The clients on their way out of the list q with RT_EOK.
InFlight(q) ==
  {t \in Thread : /\ pc[t] \in IF q = "recv" THEN {"blocked", "woken"}
                                             ELSE {"tx_blocked", "tx_woken"}
                  /\ t \notin Waiting(q) /\ k.error[t] = "EOK"}

Sorted(q) == \A i, j \in DOMAIN k.wait[q] :
               i < j => k.prio[k.wait[q][i]] <= k.prio[k.wait[q][j]]

=============================================================================
