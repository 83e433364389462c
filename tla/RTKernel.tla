------------------------------ MODULE RTKernel ------------------------------
(***************************************************************************)
(* The uniprocessor RT-Thread kernel as operators on one record: the ready *)
(* lists and priority bitmap of src/src/scheduler.c, the thread control    *)
(* block fields of src/src/thread.c that decide who runs, and the wait     *)
(* lists that IPC objects and the idle thread keep.  Every operator stands *)
(* for one C function run with interrupts disabled, so a C call sequence   *)
(* is operator composition, e.g. rt_schedule(rt_thread_resume(k, t)).      *)
(*                                                                         *)
(* A kernel record k has the fields                                        *)
(*   ready  rt_thread_priority_table: one FIFO list per priority           *)
(*   group  rt_thread_ready_priority_group: the set of priorities whose    *)
(*          bit is 1                                                       *)
(*   wait   every other list a thread's tlist node may be linked into      *)
(*   cur    rt_current_thread                                              *)
(*   stat, prio, error, slice   thread->stat, ->current_priority, ->error, *)
(*          ->remaining_tick                                               *)
(*   timer  the thread's own timer is active (its list and its flag)       *)
(*   lock   rt_scheduler_lock_nest                                         *)
(* The node tlist is intrusive: rt_list_remove unlinks a thread from       *)
(* whichever list it is in.  rt_current_priority is write-only in this     *)
(* build and thread->number_mask is 1 << current_priority from startup on, *)
(* so neither has a field.  Ticks are abstract: an active timer may expire *)
(* at any time.                                                            *)
(***************************************************************************)
EXTENDS RTList

CONSTANTS Thread,      \* thread objects
          PrioMax,     \* RT_THREAD_PRIORITY_MAX
          Queue,       \* lists other than the ready lists
          InitTick,    \* thread->init_tick, the round-robin slice
          InitPrio     \* thread->init_priority, given at creation

ASSUME PrioAssumption == PrioMax \in Nat \ {0}
ASSUME TickAssumption == InitTick \in Nat \ {0}

Prio == 0 .. PrioMax - 1

ASSUME InitPrioAssumption == InitPrio \in [Thread -> Prio]

Stat == {"NONE", "INIT", "READY", "SUSPEND", "RUNNING", "CLOSE"}

Error == {"EOK", "ETIMEOUT", "ERROR"}

Kernel == [ready : [Prio -> Seq(Thread)],
           group : SUBSET Prio,
           wait  : [Queue -> Seq(Thread)],
           cur   : Thread,
           stat  : [Thread -> Stat],
           prio  : [Thread -> Prio],
           error : [Thread -> Error],
           slice : [Thread -> 1 .. InitTick],
           timer : [Thread -> BOOLEAN],
           lock  : Nat]

-----------------------------------------------------------------------------
(* Lists *)

\* A thread is linked at most once: removing its first occurrence unlinks it.
rt_list_remove(k, t) ==
  [k EXCEPT !.ready = [p \in Prio |-> RemoveFirst(k.ready[p], t)],
            !.wait  = [q \in Queue |-> RemoveFirst(k.wait[q], t)]]

\* rt_list_insert_before(&list, &thread->tlist): at the tail.
Enqueue(k, q, t) == [k EXCEPT !.wait[q] = Append(@, t)]

\* rt_list_insert_after(&list, &thread->tlist): at the head.
Push(k, q, t) == [k EXCEPT !.wait[q] = Cons(t, @)]

-----------------------------------------------------------------------------
(* scheduler.c *)

\* Mutant: the search runs from the wrong end of the bitmap.
HighestReady_WrongEnd(k) == Max(k.group)

\* __rt_ffs of the bitmap: the lowest number is the highest priority.
HighestReady(k) == Min(k.group)

rt_schedule_insert_thread(k, t) ==
  IF t = k.cur
  THEN [k EXCEPT !.stat[t] = "RUNNING"]
  ELSE [k EXCEPT !.stat[t] = "READY",
                 !.ready[k.prio[t]] = Append(@, t),
                 !.group = @ \cup {k.prio[t]}]

\* Mutant: the bit of a list that has become empty stays set.
rt_schedule_remove_thread_KeepsBit(k, t) == rt_list_remove(k, t)

rt_schedule_remove_thread(k, t) ==
  LET r == rt_list_remove(k, t)
  IN  [r EXCEPT !.group = IF r.ready[k.prio[t]] = << >>
                          THEN @ \ {k.prio[t]} ELSE @]

\* Mutant: the thread that loses the CPU is queued but keeps its state.
SwitchTo_KeepsStat(k, to) ==
  LET moved == [k EXCEPT !.cur = to]
      kept  == IF k.stat[k.cur] = "RUNNING"
               THEN rt_schedule_insert_thread(moved, k.cur) ELSE moved
  IN  [rt_schedule_remove_thread(kept, to) EXCEPT !.stat = [k.stat EXCEPT ![to] = "RUNNING"]]

\* The switch itself: the running thread goes to the tail of its own list,
\* unless it has left the RUNNING state before the call.
SwitchTo(k, to) ==
  LET moved == [k EXCEPT !.cur = to]
      kept  == IF k.stat[k.cur] = "RUNNING"
               THEN rt_schedule_insert_thread(moved, k.cur) ELSE moved
  IN  [rt_schedule_remove_thread(kept, to) EXCEPT !.stat[to] = "RUNNING"]

\* Mutant: a thread of equal priority does not get its turn.
rt_schedule_NoTurn(k) ==
  IF k.lock # 0 \/ k.group = {} THEN k
  ELSE IF k.stat[k.cur] = "RUNNING" /\ k.prio[k.cur] <= HighestReady(k)
  THEN rt_schedule_remove_thread(k, k.cur)
  ELSE SwitchTo(k, Head(k.ready[HighestReady(k)]))

\* rt_schedule: nothing while the scheduler is locked; a RUNNING thread of
\* strictly higher priority than every ready one keeps the CPU.
rt_schedule(k) ==
  LET hp == HighestReady(k)
  IN  IF k.lock # 0 \/ k.group = {}
      THEN k
      ELSE IF k.stat[k.cur] = "RUNNING" /\ k.prio[k.cur] < hp
      THEN rt_schedule_remove_thread(k, k.cur)
      ELSE SwitchTo(k, Head(k.ready[hp]))

rt_enter_critical(k) == [k EXCEPT !.lock = @ + 1]

\* Mutant: the outermost unlock does not reschedule.
rt_exit_critical_NoSchedule(k) == [k EXCEPT !.lock = @ - 1]

rt_exit_critical(k) ==
  IF k.lock <= 1 THEN rt_schedule([k EXCEPT !.lock = 0])
                 ELSE [k EXCEPT !.lock = @ - 1]

-----------------------------------------------------------------------------
(* thread.c *)

rt_thread_suspend(k, t) ==
  IF k.stat[t] \in {"READY", "RUNNING"}
  THEN [rt_schedule_remove_thread(k, t) EXCEPT !.stat[t] = "SUSPEND",
                                               !.timer[t] = FALSE]
  ELSE k

\* Mutant: the thread timer is left running.
rt_thread_resume_TimerRuns(k, t) ==
  IF k.stat[t] = "SUSPEND" THEN rt_schedule_insert_thread(rt_list_remove(k, t), t) ELSE k

rt_thread_resume(k, t) ==
  IF k.stat[t] = "SUSPEND"
  THEN rt_schedule_insert_thread([rt_list_remove(k, t) EXCEPT !.timer[t] = FALSE], t)
  ELSE k

\* rt_thread_sleep's critical section.
rt_thread_sleep(k, t) == [rt_thread_suspend(k, t) EXCEPT !.timer[t] = TRUE]

\* Mutant: the thread is not taken off the list it waits on.
rt_thread_timeout_StaysQueued(k, t) ==
  rt_schedule(rt_schedule_insert_thread(
    [k EXCEPT !.error[t] = "ETIMEOUT", !.timer[t] = FALSE], t))

\* The expiry of a thread's one-shot timer, as rt_timer_check runs it.
rt_thread_timeout(k, t) ==
  rt_schedule(rt_schedule_insert_thread(
    [rt_list_remove(k, t) EXCEPT !.error[t] = "ETIMEOUT", !.timer[t] = FALSE], t))

\* Mutant: a ready thread stays in the list of its old priority.
ChangePriority_NoMove(k, t, p) == [k EXCEPT !.prio[t] = p]

\* rt_thread_control, RT_THREAD_CTRL_CHANGE_PRIORITY: no rescheduling.
ChangePriority(k, t, p) ==
  IF k.stat[t] = "READY"
  THEN rt_schedule_insert_thread(
         [rt_schedule_remove_thread(k, t) EXCEPT !.prio[t] = p], t)
  ELSE [k EXCEPT !.prio[t] = p]

\* rt_thread_yield is a bare call of the scheduler in this version.
rt_thread_yield(k) == rt_schedule(k)

-----------------------------------------------------------------------------
(* clock.c *)

\* Mutant: the slice is not reset when it ends.
rt_tick_increase_NoReset(k) ==
  LET s == [k EXCEPT !.slice[k.cur] = @ - 1]
  IN  IF s.slice[k.cur] = 0 THEN rt_thread_yield(s) ELSE s

\* rt_tick_increase without its timer check: at the end of its slice the
\* running thread gets a new one and yields.
rt_tick_increase(k) ==
  IF k.slice[k.cur] = 1
  THEN rt_thread_yield([k EXCEPT !.slice[k.cur] = InitTick])
  ELSE [k EXCEPT !.slice[k.cur] = @ - 1]

=============================================================================
