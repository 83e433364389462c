------------------------------ MODULE Scheduler ------------------------------
(***************************************************************************)
(* Threads, the scheduler, the tick and the idle thread of RT-Thread       *)
(* (src/src/thread.c, scheduler.c, clock.c, idle.c) on one CPU.            *)
(*                                                                         *)
(* A thread takes a step only while it is k.cur.  A call that the code     *)
(* splits over several interrupt-disabled sections is split here at the    *)
(* same places: pc[t] says where in the call thread t is, arg[t] which     *)
(* thread the call is about.  Between any two steps the tick interrupt, a  *)
(* thread timer or another interrupt may run.                              *)
(*                                                                         *)
(* "ipc" stands for the wait list of any IPC object.  Blocking calls are   *)
(* made with the scheduler unlocked; the idle thread only reaps.  No two   *)
(* threads work on the same target at once, and nobody deletes a thread    *)
(* that is itself in the middle of such a call.                            *)
(***************************************************************************)
EXTENDS RTKernel, FiniteSets

CONSTANTS Idle,          \* the idle thread
          Main,          \* the thread rt_application_init starts
          Static,        \* threads made by rt_thread_init, not _create
          Api,           \* the calls the threads of this instance make
          MaxNest,       \* bound on rt_scheduler_lock_nest
          TimedTargets   \* delete and resume may hit a thread with a running timer

ASSUME ThreadAssumption ==
  /\ Idle \in Thread /\ Main \in Thread /\ Main # Idle
  /\ Static \subseteq Thread
  /\ InitPrio[Idle] = PrioMax - 1 /\ InitPrio[Main] < InitPrio[Idle]
  /\ {"ipc", "defunct"} = Queue

ASSUME BoundAssumption == MaxNest \in Nat /\ TimedTargets \in BOOLEAN

VARIABLES k,    \* the kernel record
          pc,   \* where each thread is in the call it is making
          arg   \* the target of that call

vars == <<k, pc, arg>>

Label == {"run", "resume", "insert", "insert_sched", "sched", "blocked", "slept",
          "del_timer", "del_close", "del_defunct", "free", "dead"}

\* rt_system_scheduler_start has just switched to the main thread; the idle
\* thread is ready and every other object is still to be made.
Init ==
  /\ k = [ready |-> [p \in Prio |-> IF p = InitPrio[Idle] THEN <<Idle>> ELSE << >>],
          group |-> {InitPrio[Idle]},
          wait  |-> [q \in Queue |-> << >>],
          cur   |-> Main,
          stat  |-> [t \in Thread |-> IF t = Main THEN "RUNNING"
                                      ELSE IF t = Idle THEN "READY" ELSE "NONE"],
          prio  |-> InitPrio,
          error |-> [t \in Thread |-> "EOK"],
          slice |-> [t \in Thread |-> InitTick],
          timer |-> [t \in Thread |-> FALSE],
          lock  |-> 0]
  /\ pc = [t \in Thread |-> IF t \in {Main, Idle} THEN "run" ELSE "dead"]
  /\ arg = [t \in Thread |-> t]

-----------------------------------------------------------------------------
(* The current thread's calls *)

\* A thread is in the middle of a call about u.
Targeted(u) ==
  \E t \in Thread : /\ pc[t] \in {"resume", "insert", "insert_sched", "del_timer",
                                  "del_close", "del_defunct", "free"}
                    /\ arg[t] = u

Calls(op) == op \in Api /\ k.cur # Idle /\ pc[k.cur] = "run"

\* The current thread goes on at a label of a call about u, or at one of a
\* call about nobody.
Call(label, u) == /\ pc'  = [pc EXCEPT ![k.cur] = label]
                  /\ arg' = [arg EXCEPT ![k.cur] = u]

Goto(label) == Call(label, k.cur)

\* _rt_thread_init's fields.
Fresh(r, u, stat) ==
  [r EXCEPT !.stat[u] = stat, !.prio[u] = InitPrio[u], !.error[u] = "EOK",
            !.slice[u] = InitTick, !.timer[u] = FALSE]

\* rt_thread_create or rt_thread_init: an object in state INIT.
Create(u) ==
  /\ Calls("create")
  /\ \/ k.stat[u] = "NONE"
     \/ u \in Static /\ k.stat[u] = "CLOSE" /\ u # k.cur /\ ~Targeted(u)
  /\ k' = Fresh(k, u, "INIT")
  /\ pc' = [pc EXCEPT ![u] = "run"]
  /\ UNCHANGED arg

\* rt_thread_startup up to the end of rt_thread_resume's critical section.
Startup(u) ==
  /\ Calls("startup") /\ k.stat[u] = "INIT" /\ ~Targeted(u)
  /\ k' = [rt_list_remove(k, u) EXCEPT !.prio[u] = InitPrio[u],
                                       !.stat[u] = "SUSPEND", !.timer[u] = FALSE]
  /\ Call("insert_sched", u)

\* rt_thread_resume called by a thread: the test of the target's state, with
\* interrupts enabled.  With TimedTargets FALSE the target was suspended by
\* rt_thread_suspend and waits for nothing else: a timeout or a wake-up between
\* this test and the critical section would make it READY before it is
\* unlinked.
Resume(u) ==
  /\ Calls("resume") /\ k.stat[u] = "SUSPEND" /\ u # k.cur /\ ~Targeted(u)
  /\ TimedTargets \/ (~k.timer[u] /\ ~Contains(k.wait["ipc"], u))
  /\ Call("resume", u)
  /\ UNCHANGED k

\* ... its critical section: off its list, its timer stopped ...
ResumeUnlink ==
  /\ pc[k.cur] = "resume"
  /\ k' = [rt_list_remove(k, arg[k.cur]) EXCEPT !.timer[arg[k.cur]] = FALSE]
  /\ Call("insert", arg[k.cur])

\* ... and its insertion into the ready list, in a critical section of its
\* own.  Only rt_thread_startup goes on to call the scheduler.
Insert ==
  /\ pc[k.cur] \in {"insert", "insert_sched"}
  /\ k' = rt_schedule_insert_thread(k, arg[k.cur])
  /\ Goto(IF pc[k.cur] = "insert" THEN "run" ELSE "sched")

\* rt_thread_sleep, rt_thread_suspend(self), and the blocking half of every
\* IPC receive: one critical section, then the call of the scheduler.
Block(queued, timed) ==
  /\ Calls(IF queued THEN "wait" ELSE IF timed THEN "sleep" ELSE "suspend")
  /\ k.lock = 0
  /\ LET c == k.cur
         s == rt_thread_suspend(IF queued THEN [k EXCEPT !.error[c] = "EOK"] ELSE k, c)
         e == IF queued THEN Enqueue(s, "ipc", c) ELSE s
     IN  k' = [e EXCEPT !.timer[c] = timed]
  /\ Goto("blocked")

\* The call of rt_schedule that ends an API function.
Sched ==
  /\ pc[k.cur] \in {"sched", "blocked"}
  /\ k' = rt_schedule(k)
  /\ Goto(IF k.stat[k.cur] = "CLOSE" THEN "dead"
          ELSE IF pc[k.cur] = "sched" THEN "run" ELSE "slept")

\* Back on the CPU: rt_thread_sleep clears the timeout error.
Wake ==
  /\ pc[k.cur] = "slept"
  /\ k' = [k EXCEPT !.error[k.cur] = IF @ = "ETIMEOUT" THEN "EOK" ELSE @]
  /\ Goto("run")

\* The releasing half of an IPC object: wake the first waiter.
Post ==
  /\ Calls("post") /\ k.wait["ipc"] # << >>
  /\ k' = rt_thread_resume(k, Head(k.wait["ipc"]))
  /\ Goto("sched")

Yield ==
  /\ Calls("yield")
  /\ k' = rt_thread_yield(k)
  /\ UNCHANGED <<pc, arg>>

\* rt_thread_exit: a static thread's object is detached, the others go to
\* the defunct list, in one critical section.
Exit ==
  /\ Calls("exit") /\ k.lock = 0
  /\ LET c == k.cur
         r == [rt_schedule_remove_thread(k, c) EXCEPT !.stat[c] = "CLOSE",
                                                      !.timer[c] = FALSE]
     IN  k' = IF c \in Static THEN r ELSE Push(r, "defunct", c)
  /\ Goto("sched")

\* rt_thread_delete(u), or rt_thread_detach(u) of a static thread: four
\* steps, only the first and the last of which are critical sections over
\* the lists.
Delete(u) ==
  /\ Calls("delete") /\ u \notin {k.cur, Idle} /\ ~Targeted(u)
  /\ k.stat[u] \in {"INIT", "READY", "SUSPEND"}
  /\ pc[u] \in {"run", "sched", "blocked", "slept"}
  /\ TimedTargets \/ ~k.timer[u]
  /\ k' = IF k.stat[u] = "INIT" THEN k ELSE rt_schedule_remove_thread(k, u)
  /\ Call("del_timer", u)

DeleteTimer ==
  /\ pc[k.cur] = "del_timer"
  /\ k' = [k EXCEPT !.timer[arg[k.cur]] = FALSE]
  /\ Call("del_close", arg[k.cur])

DeleteClose ==
  /\ pc[k.cur] = "del_close"
  /\ k' = [k EXCEPT !.stat[arg[k.cur]] = "CLOSE"]
  /\ Call("del_defunct", arg[k.cur])

DeleteDefunct ==
  /\ pc[k.cur] = "del_defunct"
  /\ k' = IF arg[k.cur] \in Static THEN k ELSE Push(k, "defunct", arg[k.cur])
  /\ pc' = [pc EXCEPT ![k.cur] = "run", ![arg[k.cur]] = "dead"]
  /\ arg' = [arg EXCEPT ![k.cur] = k.cur]

\* rt_thread_control, the change of priority.
Control(u, p) ==
  /\ Calls("control") /\ u # Idle /\ ~Targeted(u)
  /\ k.stat[u] \in {"INIT", "READY", "SUSPEND", "RUNNING"}
  /\ k' = ChangePriority(k, u, p)
  /\ UNCHANGED <<pc, arg>>

EnterCritical ==
  /\ Calls("critical") /\ k.lock < MaxNest
  /\ k' = rt_enter_critical(k)
  /\ UNCHANGED <<pc, arg>>

\* The rt_schedule at its end runs with interrupts enabled again: an interrupt
\* before it schedules by itself, and what is left of the call is a Yield.
ExitCritical ==
  /\ Calls("critical") /\ k.lock > 0
  /\ k' = rt_exit_critical(k)
  /\ UNCHANGED <<pc, arg>>

-----------------------------------------------------------------------------
(* The idle thread: rt_thread_idle_excute *)

\* Under the interrupt lock: take a defunct thread off the list; the
\* rt_enter_critical, rt_exit_critical pair around the cleanup reschedules.
Reap ==
  /\ k.cur = Idle /\ pc[Idle] = "run" /\ k.lock = 0 /\ k.wait["defunct"] # << >>
  /\ LET d == Head(k.wait["defunct"])
     IN  /\ k' = rt_exit_critical(rt_enter_critical(rt_list_remove(k, d)))
         /\ Call("free", d)

\* Stack and object go back to the heap; a freed object has no fields, which
\* the model writes as those of a new one.
Free ==
  /\ k.cur = Idle /\ pc[Idle] = "free"
  /\ k' = Fresh(k, arg[Idle], "NONE")
  /\ pc' = [pc EXCEPT ![Idle] = "run", ![arg[Idle]] = "dead"]
  /\ arg' = [arg EXCEPT ![Idle] = Idle]

-----------------------------------------------------------------------------
(* Interrupts *)

Tick == k' = rt_tick_increase(k) /\ UNCHANGED <<pc, arg>>

Timeout(u) ==
  /\ k.timer[u]
  /\ k' = rt_thread_timeout(k, u)
  /\ UNCHANGED <<pc, arg>>

\* An interrupt handler releases an IPC object.
PostFromISR ==
  /\ k.wait["ipc"] # << >>
  /\ k' = rt_schedule(rt_thread_resume(k, Head(k.wait["ipc"])))
  /\ UNCHANGED <<pc, arg>>

ThreadStep ==
  \/ \E u \in Thread : Create(u) \/ Startup(u) \/ Resume(u) \/ Delete(u)
  \/ \E u \in Thread, p \in Prio : Control(u, p)
  \/ \E queued, timed \in BOOLEAN : Block(queued, timed)
  \/ ResumeUnlink \/ Insert \/ Sched \/ Wake \/ Post \/ Yield \/ Exit
  \/ DeleteTimer \/ DeleteClose \/ DeleteDefunct
  \/ EnterCritical \/ ExitCritical \/ Reap \/ Free

Next ==
  \/ ThreadStep
  \/ Tick
  \/ \E u \in Thread : Timeout(u)
  \/ PostFromISR

Spec == Init /\ [][Next]_vars

\* SysTick is periodic: the only progress the hardware guarantees.
FairSpec == Spec /\ WF_vars(Tick)

-----------------------------------------------------------------------------
(* Properties *)

\* The type of the state.
TypeOK ==
  /\ k \in Kernel
  /\ pc \in [Thread -> Label]
  /\ arg \in [Thread -> Thread]

\* rt_thread_delete(t) has unlinked t and has not yet put it on the defunct
\* list, or the idle thread is about to free it.
BeingDeleted(t) ==
  \E u \in Thread : /\ pc[u] \in {"del_timer", "del_close", "del_defunct", "free"}
                    /\ arg[u] = t

\* The priority bitmap that rt_schedule searches has a bit set exactly for
\* the priorities whose ready list is not empty, between any two critical
\* sections: a stale bit sends the scheduler to an empty list, a missing one
\* loses a thread (scheduler.c, rt_schedule_insert/remove_thread).
BitmapExact == \A p \in Prio : p \in k.group <=> k.ready[p] # << >>

\* A thread is linked into the ready list of its own current priority exactly
\* when it is READY, and only once, whatever changes of priority, timeouts,
\* wake-ups from interrupts and deletions have happened (thread.c).
ReadyListsExact ==
  \A p \in Prio :
    /\ IsInjective(k.ready[p])
    /\ \A t \in Thread : Contains(k.ready[p], t) <=>
         k.stat[t] = "READY" /\ k.prio[t] = p /\ ~BeingDeleted(t)

\* A thread waiting on an IPC object is SUSPEND and waits there once, and the
\* defunct list holds each closed dynamic thread until the idle thread takes
\* it, so that none is freed twice or leaked (thread.c, idle.c).
WaitListsExact ==
  /\ \A q \in Queue : IsInjective(k.wait[q])
  /\ \A t \in Thread :
       /\ Contains(k.wait["ipc"], t) => k.stat[t] = "SUSPEND"
       /\ Contains(k.wait["defunct"], t) <=>
            k.stat[t] = "CLOSE" /\ t \notin Static /\ ~BeingDeleted(t)

\* Only the current thread is RUNNING, and it is RUNNING except while it has
\* blocked or exited and not yet reached its call of rt_schedule, even when
\* its own timeout fires in that window (scheduler.c).
OneRunning ==
  /\ \A t \in Thread : k.stat[t] = "RUNNING" => t = k.cur
  /\ \/ k.stat[k.cur] = "RUNNING"
     \/ k.stat[k.cur] = "SUSPEND" /\ pc[k.cur] = "blocked"
     \/ k.stat[k.cur] = "CLOSE" /\ pc[k.cur] = "sched"

\* A running thread timer means a suspended thread: what rt_thread_timeout
\* asserts of the thread it is called for (thread.c:755).
TimerMeansSuspended == \A t \in Thread : k.timer[t] => k.stat[t] = "SUSPEND"

\* Whenever the CPU changes hands it goes to a thread of the highest ready
\* priority, which is RUNNING then, and not while the scheduler is locked
\* (rt_schedule).
SwitchesToHighest ==
  [][k'.cur # k.cur =>
       /\ k'.lock = 0
       /\ k'.stat[k'.cur] = "RUNNING"
       /\ \A t \in Thread : k'.stat[t] = "READY" /\ ~BeingDeleted(t)
                             => k'.prio[k'.cur] <= k'.prio[t]]_vars

\* The current thread is as urgent as every ready one, or a call of rt_schedule
\* is still owed: at the end of the API function it is in, or of the critical
\* section.
Strict ==
  \/ k.lock > 0
  \/ pc[k.cur] \in {"insert_sched", "sched", "blocked"}
  \/ \A t \in Thread : k.stat[t] = "READY" /\ ~BeingDeleted(t)
                        => k.prio[k.cur] <= k.prio[t]

\* Strict preemption: no step of a thread or of an interrupt leaves a thread
\* running past a ready one of higher priority, except the two functions of
\* thread.c that change priorities or ready lists and do not reschedule:
\* rt_thread_control, and rt_thread_resume where a thread calls it.
StrictPreemption ==
  /\ Strict
  /\ [][Strict => \/ Strict'
                  \/ pc[k.cur] = "insert"
                  \/ \E u \in Thread, p \in Prio : Control(u, p)]_vars

\* Round robin: a ready thread cannot wait for ever unless higher-priority
\* threads or a locked scheduler keep the CPU from its priority again and
\* again, or rt_thread_control, which links a ready thread anew at the tail of
\* its list, is called for ever (rt_tick_increase and the FIFO ready lists).
RoundRobin ==
  \/ []<><<\E u \in Thread, p \in Prio : Control(u, p)>>_vars
  \/ \A t \in Thread :
       []<>(\/ k.stat[t] # "READY" \/ BeingDeleted(t) \/ k.lock > 0
            \/ \E u \in Thread : /\ k.stat[u] \in {"READY", "RUNNING"}
                                 /\ k.prio[u] < k.prio[t])

\* What the comment on rt_thread_delete promises: "The thread object will be
\* removed from thread queue" (thread.c:421).  A closed thread is never in a
\* ready list.
DeletedLeavesQueue ==
  \A t \in Thread, p \in Prio : k.stat[t] = "CLOSE" => ~Contains(k.ready[p], t)

=============================================================================
