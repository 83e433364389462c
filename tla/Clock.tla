-------------------------------- MODULE Clock --------------------------------
(***************************************************************************)
(* Scheduler with real time: the thread timers that Scheduler lets expire  *)
(* at any moment are timers of src/src/timer.c here, beside timers that    *)
(* the application starts, stops and changes.  The tick interrupt advances *)
(* rt_tick and then runs rt_timer_check, one timer at a time; no thread    *)
(* runs in between.                                                        *)
(*                                                                         *)
(* A thread's own timer is started and stopped inside critical sections of *)
(* thread.c.  The application calls rt_timer_start, rt_timer_stop and      *)
(* rt_timer_control with interrupts enabled: call[t] says where in such a  *)
(* call thread t is.                                                       *)
(***************************************************************************)
EXTENDS Scheduler, Timer

CONSTANTS AppTimer,  \* the application's timers
          MaxLate    \* bound on the ticks a thread is preempted within
                     \* rt_timer_start, after it has read rt_tick

ASSUME ClockAssumption ==
  /\ Timers = AppTimer \cup Thread /\ AppTimer \cap Thread = {}
  /\ MaxLate \in Nat
  /\ \A n \in Delay : n + MaxLate < HalfTick

VARIABLES tm,    \* the timer record
          isr,   \* rt_timer_check is running
          call,  \* the call about a timer each thread is in
          due,   \* history: ticks until each timer should expire
          stray  \* history: timers of which the flag was set against the list,
                 \* by rt_timer_check or by rt_timer_control

clockvars == <<k, pc, arg, tm, isr, call, due, stray>>

NoCall == [at |-> "none", on |-> Idle]

\* rt_tick is 0 when the kernel starts; ticks are only ever subtracted from one
\* another, and these behaviours begin shortly before rt_tick wraps.
ClockInit ==
  /\ Init
  /\ \E n \in Delay :
       tm = [tick |-> TickMod - 2, list |-> << >>, at |-> [x \in Timers |-> 0],
             init |-> [x \in Timers |-> n],
             active |-> [x \in Timers |-> FALSE], periodic |-> [x \in Timers |-> FALSE]]
  /\ isr = FALSE
  /\ call = [t \in Thread |-> NoCall]
  /\ due = [x \in Timers |-> 0]
  /\ stray = {}

-----------------------------------------------------------------------------
(* Threads *)

\* rt_thread_resume stops the timer of a thread whose wait ends early.  No step
\* ends the waits of two threads.
Stops(u) == k.timer[u] /\ ~k'.timer[u]

Stopped(m) ==
  IF \E u \in Thread : Stops(u) THEN rt_timer_stop(m, CHOOSE u \in Thread : Stops(u)) ELSE m

\* A step of Scheduler by a thread, which starts the thread's own timer when
\* its wait is bounded.  Nobody deletes a thread that is in the middle of a call
\* about a timer.
Step(n) ==
  /\ ~isr /\ call[k.cur] = NoCall
  /\ ThreadStep /\ call[arg'[k.cur]] = NoCall
  /\ IF k'.timer[k.cur] /\ ~k.timer[k.cur]
     THEN /\ tm' = rt_timer_start([tm EXCEPT !.init[k.cur] = n], k.cur)
          /\ due' = [due EXCEPT ![k.cur] = n]
     ELSE tm' = Stopped(tm) /\ UNCHANGED due
  /\ UNCHANGED <<isr, call, stray>>

\* The current thread is in a call about x, or may make one: no two threads
\* work on one timer at once.
At(label, x) == ~isr /\ pc[k.cur] = "run" /\ call[k.cur] = [at |-> label, on |-> x]

MayCall(x) == /\ ~isr /\ k.cur # Idle /\ pc[k.cur] = "run" /\ call[k.cur] = NoCall
              /\ \A t \in Thread : call[t].at # "none" => call[t].on # x

Go(label, x) == call' = [call EXCEPT ![k.cur] = IF label = "none" THEN NoCall
                                                ELSE [at |-> label, on |-> x]]

\* rt_timer_start: take the timer out, read the tick, link the timer.
TimerStart(x) ==
  /\ MayCall(x)
  /\ tm' = Unlink(tm, x) /\ stray' = stray \ {x}
  /\ Go("read", x)
  /\ UNCHANGED <<k, pc, arg, isr, due>>

TimerRead(x) ==
  /\ At("read", x)
  /\ tm' = SetTimeout(tm, x)
  /\ due' = [due EXCEPT ![x] = tm.init[x]]
  /\ Go("link", x)
  /\ UNCHANGED <<k, pc, arg, isr, stray>>

TimerLink(x) ==
  /\ At("link", x)
  /\ tm' = Link(tm, x)
  /\ Go("none", x)
  /\ UNCHANGED <<k, pc, arg, isr, due, stray>>

\* rt_timer_stop: test the flag, take the timer out, clear the flag.
TimerStop(x) ==
  /\ MayCall(x) /\ tm.active[x]
  /\ Go("remove", x)
  /\ UNCHANGED <<k, pc, arg, tm, isr, due, stray>>

\* Mutant: the flag is cleared and the timer stays in the list.
TimerRemove_Not(x) ==
  /\ At("remove", x)
  /\ Go("clear", x)
  /\ UNCHANGED <<k, pc, arg, tm, isr, due, stray>>

TimerRemove(x) ==
  /\ At("remove", x)
  /\ tm' = _rt_timer_remove(tm, x) /\ stray' = stray \ {x}
  /\ Go("clear", x)
  /\ UNCHANGED <<k, pc, arg, isr, due>>

TimerClear(x) ==
  /\ At("clear", x)
  /\ tm' = [tm EXCEPT !.active[x] = FALSE]
  /\ Go("none", x)
  /\ UNCHANGED <<k, pc, arg, isr, due, stray>>

\* rt_timer_control, also of a running timer: RT_TIMER_CTRL_SET_TIME, ...
TimerSetTime(x, n) ==
  /\ MayCall(x)
  /\ tm' = [tm EXCEPT !.init[x] = n]
  /\ UNCHANGED <<k, pc, arg, isr, call, due, stray>>

\* ... and RT_TIMER_CTRL_SET_ONESHOT and SET_PERIODIC, which load the flags
\* (the label says whether RT_TIMER_FLAG_ACTIVATED is among them) ...
TimerLoad(x) ==
  /\ MayCall(x)
  /\ \E label \in IF tm.active[x] THEN {"oneshot_on", "periodic_on"}
                                  ELSE {"oneshot_off", "periodic_off"} : Go(label, x)
  /\ UNCHANGED <<k, pc, arg, tm, isr, due, stray>>

\* ... and store them, whatever the tick interrupt has done to them since.
TimerStore(x, label) ==
  /\ At(label, x)
  /\ tm' = [tm EXCEPT !.active[x] = (label \in {"oneshot_on", "periodic_on"}),
                       !.periodic[x] = (label \in {"periodic_on", "periodic_off"})]
  /\ stray' = IF tm'.active[x] = tm.active[x] THEN stray ELSE stray \cup {x}
  /\ Go("none", x)
  /\ UNCHANGED <<k, pc, arg, isr, due>>

-----------------------------------------------------------------------------
(* Interrupts *)

\* Time runs for the timers in the list and for those about to be linked.
Counting(x) == \/ Contains(tm.list, x)
               \/ \E t \in Thread : call[t] = [at |-> "link", on |-> x]

\* rt_tick_increase up to its call of rt_timer_check.
ClockTick ==
  /\ ~isr
  /\ \A t \in Thread : call[t].at = "link" => tm.init[call[t].on] - due[call[t].on] < MaxLate
  /\ k' = rt_tick_increase(k)
  /\ tm' = [tm EXCEPT !.tick = (@ + 1) % TickMod]
  /\ due' = [x \in Timers |-> IF Counting(x) THEN due[x] - 1 ELSE due[x]]
  /\ isr' = TRUE
  /\ UNCHANGED <<pc, arg, call, stray>>

\* The timeout function of a thread's timer.
CheckThread(u) ==
  /\ isr /\ Expired(tm) /\ Head(tm.list) = u
  /\ k' = rt_thread_timeout(k, u)
  /\ tm' = AfterCallback(_rt_timer_remove(tm, u), u)
  /\ UNCHANGED <<pc, arg, isr, call, due, stray>>

\* One of the application's: it may release an IPC object, stop its timer or
\* start it anew.  A one-shot timer started by its own callback is in the list
\* when rt_timer_check clears its flag.
CheckApp(x, callback) ==
  /\ isr /\ Expired(tm) /\ Head(tm.list) = x
  /\ k' = IF callback = "post" /\ k.wait["ipc"] # << >>
          THEN rt_schedule(rt_thread_resume(k, Head(k.wait["ipc"]))) ELSE k
  /\ LET r == _rt_timer_remove(tm, x)
         c == CASE callback = "stop" -> rt_timer_stop(r, x)
                [] callback = "restart" -> rt_timer_start(r, x)
                [] callback = "post" -> Stopped(r)
     IN  /\ tm' = AfterCallback(c, x)
         /\ due' = IF Contains(tm'.list, x) THEN [due EXCEPT ![x] = tm.init[x]] ELSE due
  /\ stray' = IF callback = "restart" /\ ~tm.periodic[x] THEN stray \cup {x} ELSE stray \ {x}
  /\ UNCHANGED <<pc, arg, isr, call>>

CheckEnd ==
  /\ isr /\ ~Expired(tm)
  /\ isr' = FALSE
  /\ UNCHANGED <<k, pc, arg, tm, call, due, stray>>

\* Another interrupt handler releases an IPC object.
ClockPost ==
  /\ ~isr /\ PostFromISR
  /\ tm' = Stopped(tm)
  /\ UNCHANGED <<isr, call, due, stray>>

ClockNext ==
  \/ \E n \in Delay : Step(n)
  \/ \E x \in AppTimer :
       \/ TimerStart(x) \/ TimerRead(x) \/ TimerLink(x)
       \/ TimerStop(x) \/ TimerRemove(x) \/ TimerClear(x)
       \/ \E n \in Delay : TimerSetTime(x, n)
       \/ TimerLoad(x)
       \/ \E label \in {"oneshot_on", "oneshot_off", "periodic_on", "periodic_off"} :
            TimerStore(x, label)
       \/ \E callback \in {"post", "stop", "restart"} : CheckApp(x, callback)
  \/ ClockTick \/ CheckEnd \/ ClockPost
  \/ \E u \in Thread : CheckThread(u)

ClockSpec == ClockInit /\ [][ClockNext]_clockvars

-----------------------------------------------------------------------------
(* Properties *)

\* The type of the state.
ClockTypeOK ==
  /\ tm \in TimerRecord
  /\ isr \in BOOLEAN /\ due \in [Timers -> Int] /\ stray \subseteq AppTimer

\* Real timers behave as Scheduler supposes: a thread is woken by its timer
\* only while it is waiting with one, and every step is one of Scheduler or
\* leaves the threads alone.  What holds of Scheduler holds here.
ImplementsScheduler == Spec

\* The timer list holds no timer twice.  A thread's timer is in it exactly while
\* the thread waits with one, and its RT_TIMER_FLAG_ACTIVATED says so.  The flag
\* of a timer of the application says whether it is in the list, whatever starts,
\* stops, expiries and callbacks interleave, with two exceptions only, until the
\* next start, completed stop or expiry: a one-shot timer restarted by its own
\* callback is in the list without the flag (timer.c:542), and rt_timer_control
\* puts back the flag of a timer that has expired since it read the flags
\* (timer.c:476, 480).  rt_timer_stop clears the flag after the removal.
LinkedIffActive ==
  /\ IsInjective(tm.list)
  /\ \A u \in Thread : (Contains(tm.list, u) <=> k.timer[u]) /\ (tm.active[u] <=> k.timer[u])
  /\ \A x \in AppTimer \ stray :
       \/ Contains(tm.list, x) <=> tm.active[x]
       \/ ~Contains(tm.list, x) /\ \E t \in Thread : call[t] = [at |-> "clear", on |-> x]

\* Time is kept although rt_tick wraps: no timer expires before its time, and
\* when the tick interrupt is over every timer that was due has expired, even
\* one whose start was preempted for longer than the timer's time.
OnTime ==
  [][/\ isr /\ isr' => due[Head(tm.list)] <= 0
     /\ isr /\ ~isr' => \A x \in ToSet(tm.list) : due[x] > 0]_clockvars

=============================================================================
