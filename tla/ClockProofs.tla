---------------------------- MODULE ClockProofs -----------------------------
(***************************************************************************)
(* Clock implements Scheduler, and its timer list and flags agree, for     *)
(* every number of threads, timers and ticks.                              *)
(***************************************************************************)
EXTENDS TimerLemmas, SchedulerProofs

-----------------------------------------------------------------------------
(* The interrupts and the other steps of threads *)

\* rt_tick_increase may switch threads but starts and stops no timer.
LEMMA ClockTickStep ==
  ASSUME ClockInv, ~TimedTargets, ClockTick PROVE ClockInv' /\ Next
<1>0. TimersOK(tm) /\ TimerInv(k.timer, tm, call, stray) /\ due \in [Timers -> Int] /\ isr \in BOOLEAN
  BY ClockBasics DEF ClockInv
<1>1. /\ k' = rt_tick_increase(k) /\ tm' = [tm EXCEPT !.tick = (@ + 1) % TickMod]
      /\ due' = [x \in Timers |-> IF Counting(x) THEN due[x] - 1 ELSE due[x]]
      /\ isr' = TRUE /\ UNCHANGED <<pc, arg, call, stray>>
  BY DEF ClockTick
<1>2. Next
  BY <1>1 DEF Next, Tick
<1>3. IInv'
  BY <1>2, NextStep, ClockBasics
<1>4. k'.timer = k.timer
  <2> DEFINE r == [k EXCEPT !.slice[k.cur] = InitTick]
  <2>1. "timer" \in DOMAIN k
    BY ClockBasics, Basics DEF Kernel
  <2>2. "timer" \in DOMAIN r /\ r.timer = k.timer
    BY <2>1
  <2> HIDE DEF r
  <2>3. rt_schedule(r).timer = k.timer
    BY <2>2, ScheduleKeepsTimers DEF SameTimers
  <2>4. k' = rt_schedule(r) \/ k' = [k EXCEPT !.slice[k.cur] = @ - 1]
    BY <1>1 DEF rt_tick_increase, rt_thread_yield, r
  <2>. QED BY <2>1, <2>3, <2>4
<1>5. (tm.tick + 1) % TickMod \in 0 .. TickMod - 1
  <2>1. tm.tick \in Int /\ TickMod \in Nat \ {0}
    BY <1>0, TimerAssumption DEF TimersOK, TimerRecord
  <2>. QED BY <2>1
<1>6. /\ TimersOK(tm') /\ tm'.list = tm.list /\ tm'.active = tm.active
      /\ tm'.periodic = tm.periodic
  BY <1>0, <1>1, <1>5 DEF TimersOK, TimerRecord
<1>7. TimerInv(k.timer, tm', call, stray)
  BY <1>0, <1>6 DEF TimerInv
<1>8. due' \in [Timers -> Int]
  BY <1>0, <1>1
<1>. QED BY <1>1, <1>2, <1>3, <1>4, <1>7, <1>8 DEF ClockInv

\* The timer that rt_timer_check looks at is in the list.
LEMMA HeadLinked ==
  ASSUME ClockInv, Expired(tm), NEW x, Head(tm.list) = x
  PROVE  x \in Timers /\ Contains(tm.list, x)
<1>1. tm.list \in Seq(Timers) /\ tm.list # << >>
  BY ClockBasics DEF TimersOK, TimerRecord, Expired
<1>. QED BY <1>1, EmptyLemma

\* An expired thread timer wakes a thread that waits with it, as Timeout does.
LEMMA CheckThreadStep ==
  ASSUME ClockInv, ~TimedTargets, NEW u \in Thread, CheckThread(u) PROVE ClockInv' /\ Next
<1> DEFINE r == _rt_timer_remove(tm, u)
<1>0. /\ TimersOK(tm) /\ TimerInv(k.timer, tm, call, stray) /\ u \in Timers /\ IInv
      /\ k.timer \in [Thread -> BOOLEAN]
  BY ClockBasics
<1>1. /\ Expired(tm) /\ Head(tm.list) = u
      /\ k' = rt_thread_timeout(k, u) /\ tm' = AfterCallback(r, u)
      /\ UNCHANGED <<pc, arg, isr, call, due, stray>>
  BY DEF CheckThread
<1>2. Contains(tm.list, u)
  BY <1>1, HeadLinked
<1>3. k.timer[u]
  BY <1>0, <1>2 DEF TimerInv
<1>4. Next
  BY <1>1, <1>3 DEF Next, Timeout
<1>5. IInv'
  BY <1>0, <1>4, NextStep
<1>6. k'.timer = [k.timer EXCEPT ![u] = FALSE]
  <2>1. KernelSound(k) /\ k.stat[u] = "SUSPEND"
    BY <1>0, <1>3, Basics DEF KernelSound
  <2>2. PICK x : KernelSound(x) /\ Awakened(k, u, x) /\ k' = rt_schedule(x)
    BY ONLY <1>1, <2>1, u \in Thread, TimeoutLemma
  <2>3. "timer" \in DOMAIN x /\ x.timer = [k.timer EXCEPT ![u] = FALSE]
    BY <2>2 DEF Awakened, KernelSound, Kernel
  <2>. QED BY <2>2, <2>3, ScheduleKeepsTimers DEF SameTimers
<1>7. /\ TimersOK(r)
      /\ r.tick = tm.tick /\ r.init = tm.init /\ r.periodic = tm.periodic
      /\ r.active = tm.active
      /\ \A y : Contains(r.list, y) <=> Contains(tm.list, y) /\ y # u
  BY <1>0, TimerRemoveLemma
<1> HIDE DEF r
<1>8. PICK b \in BOOLEAN : Changed(r, u, b, tm') /\ (b => r.periodic[u])
  BY <1>0, <1>1, <1>7, AfterCallbackLemma
<1>9. b = FALSE
  BY <1>0, <1>7, <1>8 DEF TimerInv
<1>10. Changed(tm, u, b, tm')
  BY <1>7, <1>8 DEF Changed
<1>11. k'.timer = [k.timer EXCEPT ![u] = b]
  BY <1>6, <1>9
<1>12. TimerInv(k'.timer, tm', call, stray)
  <2>1. TimerInv([k.timer EXCEPT ![u] = b], tm', call, stray)
    BY <1>0, <1>10, ThreadChanged
  <2>. QED BY <1>11, <2>1
<1>. QED BY <1>1, <1>4, <1>5, <1>12 DEF ClockInv

\* A release from an interrupt stops the woken thread's timer.
LEMMA ClockPostStep ==
  ASSUME ClockInv, ~TimedTargets, ClockPost PROVE ClockInv' /\ Next
<1>0. /\ TimersOK(tm) /\ TimerInv(k.timer, tm, call, stray) /\ IInv
      /\ k.timer \in [Thread -> BOOLEAN]
  BY ClockBasics
<1>1. PostFromISR /\ tm' = Stopped(tm) /\ UNCHANGED <<isr, call, due, stray>>
  BY DEF ClockPost
<1>2. Next
  BY <1>1 DEF Next
<1>3. IInv'
  BY <1>0, <1>2, NextStep
<1>4. PICK u \in Thread, b \in BOOLEAN : k'.timer = [k.timer EXCEPT ![u] = b] /\ ~b
  BY <1>0, <1>1, PostStops
<1>5. \A v \in Thread : (Contains(tm.list, v) <=> k.timer[v]) /\ (tm.active[v] <=> k.timer[v])
  BY <1>0 DEF TimerInv
<1>6. Changed(tm, u, b, tm')
  BY <1>0, <1>1, <1>4, <1>5, StoppedLemma
<1>7. TimerInv(k'.timer, tm', call, stray)
  BY <1>0, <1>4, <1>6, ThreadChanged
<1>. QED BY <1>1, <1>2, <1>3, <1>7 DEF ClockInv

\* The end of rt_timer_check changes no thread and no timer.
LEMMA CheckEndStep ==
  ASSUME ClockInv, CheckEnd PROVE ClockInv' /\ UNCHANGED vars
<1>1. isr' = FALSE /\ UNCHANGED <<k, pc, arg, tm, call, due, stray>>
  BY DEF CheckEnd
<1>. QED BY <1>1 DEF ClockInv, IInv, vars

\* A step of a thread starts its own timer, stops another thread's, or neither.
LEMMA StepStep ==
  ASSUME ClockInv, ~TimedTargets, NEW n \in Delay, Step(n) PROVE ClockInv' /\ Next
<1>0. /\ TimersOK(tm) /\ TimerInv(k.timer, tm, call, stray) /\ IInv /\ k.cur \in Thread
      /\ k.timer \in [Thread -> BOOLEAN] /\ Thread \subseteq Timers
  BY ClockBasics
<1>1. ThreadStep /\ UNCHANGED <<isr, call, stray>>
  BY DEF Step
<1>2. Next
  BY <1>1 DEF Next
<1>3. IInv'
  BY <1>0, <1>2, NextStep
<1>4. PICK u \in Thread, b \in BOOLEAN : k'.timer = [k.timer EXCEPT ![u] = b] /\ (b => u = k.cur)
  BY <1>0, <1>1, StepTimer DEF OneTimer
<1>5. CASE k'.timer[k.cur] /\ ~k.timer[k.cur]
  <2> DEFINE m == [tm EXCEPT !.init[k.cur] = n]
  <2>1. tm' = rt_timer_start(m, k.cur) /\ due' = [due EXCEPT ![k.cur] = n]
    BY <1>5 DEF Step
  <2>2. TimersOK(m) /\ m.list = tm.list /\ m.active = tm.active /\ m.periodic = tm.periodic
    BY <1>0 DEF TimersOK, TimerRecord
  <2> HIDE DEF m
  <2>3. TimerInv(k.timer, m, call, stray)
    BY <1>0, <2>2 DEF TimerInv
  <2>4. Changed(m, k.cur, TRUE, tm')
    BY <1>0, <2>1, <2>2, StartLemma
  <2>5. u = k.cur /\ b = TRUE
    BY <1>0, <1>4, <1>5
  <2>6. TimerInv(k'.timer, tm', call, stray)
    <3>1. Changed(m, u, b, tm')
      BY <2>4, <2>5
    <3>. QED BY <1>0, <1>4, <2>3, <3>1, ThreadChanged
  <2>7. n \in Int
    BY TimerAssumption
  <2>8. due' \in [Timers -> Int]
    BY <1>0, <2>1, <2>7 DEF ClockInv
  <2>. QED BY <1>1, <1>2, <1>3, <2>6, <2>8 DEF ClockInv
<1>6. CASE ~(k'.timer[k.cur] /\ ~k.timer[k.cur])
  <2>1. tm' = Stopped(tm) /\ due' = due
    BY <1>6 DEF Step
  <2>2. b => k.timer[u]
    BY <1>0, <1>4, <1>6
  <2>3. \A v \in Thread : (Contains(tm.list, v) <=> k.timer[v]) /\ (tm.active[v] <=> k.timer[v])
    BY <1>0 DEF TimerInv
  <2>4. Changed(tm, u, b, tm')
    <3>1. Changed(tm, u, b, Stopped(tm))
      BY <1>0, <1>4, <2>2, <2>3, StoppedLemma
    <3>. QED BY <2>1, <3>1
  <2>5. TimerInv(k'.timer, tm', call, stray)
    BY <1>0, <1>4, <2>4, ThreadChanged
  <2>. QED BY <1>1, <1>2, <1>3, <2>1, <2>5 DEF ClockInv
<1>. QED BY <1>5, <1>6

\* What an application timer's callback has done to the timers, before
\* rt_timer_check goes on with timer x.
CallbackDone(x, c) ==
  /\ TimersOK(c) /\ c.init = tm.init /\ c.periodic = tm.periodic
  /\ \A v \in Thread : (Contains(c.list, v) <=> k'.timer[v]) /\ (c.active[v] <=> k'.timer[v])
  /\ \A y \in AppTimer \ {x} :
       (Contains(c.list, y) <=> Contains(tm.list, y)) /\ (c.active[y] <=> tm.active[y])

\* The callback has left x out of the list, or started it as rt_timer_check is
\* about to do.
Regular(x, c) == ~Contains(c.list, x) \/ (c.periodic[x] /\ c.active[x])

\* An expired timer of the application: whatever its callback does, x ends up
\* linked and activated, or neither, or is a stray timer: a one-shot timer that
\* its callback has started.
LEMMA CheckAppStep ==
  ASSUME ClockInv, ~TimedTargets, NEW x \in AppTimer,
         NEW callback \in {"post", "stop", "restart"}, CheckApp(x, callback)
  PROVE  ClockInv' /\ [Next]_vars
<1> DEFINE r == _rt_timer_remove(tm, x)
           c == CASE callback = "stop" -> rt_timer_stop(r, x)
                  [] callback = "restart" -> rt_timer_start(r, x)
                  [] callback = "post" -> Stopped(r)
<1>0. /\ TimersOK(tm) /\ TimerInv(k.timer, tm, call, stray) /\ IInv /\ x \in Timers
      /\ k.timer \in [Thread -> BOOLEAN] /\ Thread \subseteq Timers \ {x}
      /\ AppTimer \subseteq Timers /\ k.cur \in Thread
  BY ClockBasics
<1>1. /\ Expired(tm) /\ Head(tm.list) = x
      /\ k' = IF callback = "post" /\ k.wait["ipc"] # << >>
              THEN rt_schedule(rt_thread_resume(k, Head(k.wait["ipc"]))) ELSE k
      /\ tm' = AfterCallback(c, x)
      /\ due' = IF Contains(tm'.list, x) THEN [due EXCEPT ![x] = tm.init[x]] ELSE due
      /\ stray' = IF callback = "restart" /\ ~tm.periodic[x] THEN stray \cup {x} ELSE stray \ {x}
      /\ UNCHANGED <<pc, arg, isr, call>>
  BY DEF CheckApp
<1>2. Contains(tm.list, x)
  BY <1>1, HeadLinked
<1>3. /\ stray' \subseteq AppTimer /\ \A y \in AppTimer \ {x} : y \in stray => y \in stray'
      /\ callback = "restart" /\ ~tm.periodic[x] => x \in stray'
  BY <1>1 DEF ClockInv
<1>4. /\ TimersOK(r)
      /\ r.tick = tm.tick /\ r.init = tm.init /\ r.periodic = tm.periodic
      /\ r.active = tm.active
      /\ \A y : Contains(r.list, y) <=> Contains(tm.list, y) /\ y # x
  BY <1>0, TimerRemoveLemma
<1> HIDE DEF r
<1>5. [Next]_vars
  BY <1>1 DEF Next, PostFromISR, vars
<1>6. IInv'
  BY <1>0, <1>5, NextStep
<1>7. \A v \in Thread : (Contains(r.list, v) <=> k.timer[v]) /\ (r.active[v] <=> k.timer[v])
  BY <1>0, <1>4 DEF TimerInv
<1>8. PICK u \in Thread, b \in BOOLEAN : k'.timer = [k.timer EXCEPT ![u] = b] /\ (b => k.timer[u])
  <2>1. CASE PostFromISR
    BY <1>0, <2>1, PostStops
  <2>2. CASE ~PostFromISR
    <3>1. k' = k
      BY <1>1, <2>2 DEF PostFromISR
    <3>2. k.timer = [k.timer EXCEPT ![k.cur] = k.timer[k.cur]] /\ k.timer[k.cur] \in BOOLEAN
      BY <1>0
    <3>. QED BY <1>0, <3>1, <3>2
  <2>. QED BY <2>1, <2>2
<1>9. r.active \in [Timers -> BOOLEAN]
  BY <1>4 DEF TimersOK, TimerRecord
<1>10. CallbackDone(x, c) /\ (x \in stray' \/ Regular(x, c))
  <2>1. ASSUME callback # "post", NEW w \in BOOLEAN, Changed(r, x, w, c),
               w => callback = "restart"
        PROVE  CallbackDone(x, c) /\ (x \in stray' \/ Regular(x, c))
    <3>1. k' = k
      BY <1>1, <2>1
    <3>2. c.active[x] = w /\ \A y \in Timers \ {x} : c.active[y] = r.active[y]
      BY <1>0, <1>9, <2>1 DEF Changed
    <3> HIDE DEF c
    <3>3. x \in stray' \/ Regular(x, c)
      BY <1>3, <1>4, <2>1, <3>2 DEF Changed, Regular
    <3>4. \A v \in Thread : (Contains(c.list, v) <=> k.timer[v]) /\ (c.active[v] <=> k.timer[v])
      BY <1>0, <1>7, <2>1, <3>2 DEF Changed
    <3>5. \A y \in AppTimer \ {x} :
            (Contains(c.list, y) <=> Contains(tm.list, y)) /\ (c.active[y] <=> tm.active[y])
      BY <1>0, <1>4, <2>1, <3>2 DEF Changed
    <3>. QED BY <1>4, <2>1, <3>1, <3>3, <3>4, <3>5 DEF CallbackDone, Changed
  <2>2. CASE callback = "stop"
    <3>1. c = rt_timer_stop(r, x)
      BY <2>2
    <3> HIDE DEF c
    <3>2. Changed(r, x, FALSE, c)
      <4>1. CASE r.active[x]
        BY <1>0, <1>4, <3>1, <4>1, UnlinkLemma DEF rt_timer_stop
      <4>2. CASE ~r.active[x]
        <5>1. Contains(r.list, x) <=> r.active[x]
          BY <1>4, <4>2
        <5>. QED BY <1>0, <1>4, <3>1, <5>1, StopLemma
      <4>. QED BY <4>1, <4>2
    <3>. QED BY <2>1, <2>2, <3>2
  <2>3. CASE callback = "restart"
    <3>1. c = rt_timer_start(r, x)
      BY <2>3
    <3> HIDE DEF c
    <3>2. Changed(r, x, TRUE, c)
      BY <1>0, <1>4, <3>1, StartLemma
    <3>. QED BY <2>1, <2>3, <3>2
  <2>4. CASE callback = "post"
    <3>1. c = Stopped(r)
      BY <2>4
    <3>2. Changed(r, u, b, c)
      BY <1>0, <1>4, <1>7, <1>8, <3>1, StoppedLemma
    <3> HIDE DEF c
    <3>3. c.active[u] = b /\ \A y \in Timers \ {u} : c.active[y] = r.active[y]
      BY <1>0, <1>9, <3>2 DEF Changed
    <3>4. k'.timer[u] = b /\ \A v \in Thread \ {u} : k'.timer[v] = k.timer[v]
      BY <1>0, <1>8
    <3>5. Regular(x, c)
      BY <1>0, <1>4, <3>2 DEF Changed, Regular
    <3>6. \A v \in Thread : (Contains(c.list, v) <=> k'.timer[v]) /\ (c.active[v] <=> k'.timer[v])
      BY <1>0, <1>7, <3>2, <3>3, <3>4 DEF Changed
    <3>7. \A y \in AppTimer \ {x} :
            (Contains(c.list, y) <=> Contains(tm.list, y)) /\ (c.active[y] <=> tm.active[y])
      <4>1. u \notin AppTimer
        BY ClockAssumption
      <4>. QED BY <1>0, <1>4, <3>2, <3>3, <4>1 DEF Changed
    <3>. QED BY <1>4, <3>2, <3>5, <3>6, <3>7 DEF CallbackDone, Changed
  <2>. QED BY <2>2, <2>3, <2>4
<1> HIDE DEF c
<1>11. TimersOK(c) /\ Moved(c, x, tm')
  <2>1. TimersOK(c)
    BY <1>10 DEF CallbackDone
  <2>. QED BY <1>0, <1>1, <2>1, AfterCallbackMoves
<1>12. x \in stray' \/ (Contains(tm'.list, x) <=> tm'.active[x])
  <2>1. CASE Regular(x, c)
    <3>1. PICK d \in BOOLEAN : Changed(c, x, d, tm')
      <4>1. ~Contains(c.list, x) \/ (c.periodic[x] /\ c.active[x])
        BY <2>1 DEF Regular
      <4>2. \E d \in BOOLEAN : /\ Changed(c, x, d, AfterCallback(c, x))
                               /\ d => c.periodic[x]
        BY <1>0, <1>11, <4>1, AfterCallbackLemma
      <4>. QED BY <1>1, <4>2
    <3>2. c.active \in [Timers -> BOOLEAN]
      BY <1>11 DEF TimersOK, TimerRecord
    <3>3. tm'.active[x] = d
      BY <1>0, <3>1, <3>2 DEF Changed
    <3>. QED BY <3>1, <3>3 DEF Changed
  <2>. QED BY <1>10, <2>1
<1>13. \A v \in Thread : /\ Contains(tm'.list, v) <=> k'.timer[v]
                         /\ tm'.active[v] <=> k'.timer[v]
                         /\ ~tm'.periodic[v]
  <2>1. \A v \in Thread : ~tm.periodic[v]
    BY <1>0 DEF TimerInv
  <2>. QED BY <1>0, <1>10, <1>11, <2>1 DEF CallbackDone, Moved
<1>14. \A y \in AppTimer :
         \/ /\ Contains(tm'.list, y) <=> Contains(tm.list, y)
            /\ tm'.active[y] <=> tm.active[y]
            /\ y \in stray => y \in stray'
         \/ /\ Contains(tm.list, y)
            /\ y \in stray' \/ (Contains(tm'.list, y) <=> tm'.active[y])
  BY <1>0, <1>2, <1>3, <1>10, <1>11, <1>12 DEF CallbackDone, Moved
<1>15. TimersOK(tm')
  BY <1>11 DEF Moved
<1>16. TimerInv(k'.timer, tm', call, stray')
  BY <1>0, <1>13, <1>14, <1>15, CheckKeeps
<1>17. due' \in [Timers -> Int]
  BY <1>0, <1>1, DelayInt DEF ClockInv
<1>. QED BY <1>1, <1>3, <1>5, <1>6, <1>16, <1>17 DEF ClockInv

-----------------------------------------------------------------------------
(* The results *)

\* No timer runs at the start.
LEMMA ClockInitSound == ClockInit => ClockInv
<1> SUFFICES ASSUME ClockInit PROVE ClockInv
  OBVIOUS
<1>1. IInv
  BY InitSound DEF ClockInit
<1>2. PICK n \in Delay :
        tm = [tick |-> TickMod - 2, list |-> << >>, at |-> [x \in Timers |-> 0],
              init |-> [x \in Timers |-> n],
              active |-> [x \in Timers |-> FALSE], periodic |-> [x \in Timers |-> FALSE]]
  BY DEF ClockInit
<1>3. TickMod - 2 \in 0 .. TickMod - 1 /\ 0 \in 0 .. TickMod - 1
  <2>1. TickMod \in Nat \ {0} /\ n \in Nat \ {0} /\ MaxLate \in Nat /\ n + MaxLate < HalfTick
    BY ClockAssumption, TimerAssumption
  <2>. QED BY <2>1 DEF HalfTick
<1>4. << >> \in Seq(Timers) /\ IsInjective(<< >>) /\ \A x : ~Contains(<< >>, x)
  BY DEF IsInjective, Contains
<1>5. TimersOK(tm)
  BY <1>2, <1>3, <1>4 DEF TimersOK, TimerRecord
<1>6. call = [t \in Thread |-> NoCall] /\ due = [x \in Timers |-> 0] /\ isr = FALSE
      /\ stray = {}
  BY DEF ClockInit
<1>7. \A t \in Thread : k.timer[t] = FALSE
  BY DEF ClockInit, Init
<1>8. call \in [Thread -> TimerCall] /\ \A t \in Thread : call[t].at = "none"
  BY <1>6, CallFacts DEF TimerCall
<1>9. TimerInv(k.timer, tm, call, stray)
  BY <1>2, <1>4, <1>5, <1>7, <1>8, ClockAssumption DEF TimerInv
<1>10. due \in [Timers -> Int]
  BY <1>6
<1>11. isr \in BOOLEAN /\ stray \subseteq AppTimer
  BY <1>6
<1>. QED BY <1>1, <1>9, <1>10, <1>11 DEF ClockInv

\* Every step keeps the invariant and is a step of Scheduler or none.
LEMMA ClockNextStep ==
  ASSUME ClockInv, ~TimedTargets, [ClockNext]_clockvars PROVE ClockInv' /\ [Next]_vars
<1>1. CASE UNCHANGED clockvars
  BY <1>1 DEF clockvars, ClockInv, IInv, vars
<1>2. ASSUME NEW n \in Delay, Step(n) PROVE ClockInv' /\ [Next]_vars
  BY <1>2, StepStep
<1>3. ASSUME NEW x \in AppTimer, TimerStart(x) \/ TimerRead(x) \/ TimerLink(x)
      PROVE  ClockInv' /\ [Next]_vars
  <2>1. UNCHANGED vars
    BY <1>3 DEF TimerStart, TimerRead, TimerLink, vars
  <2>. QED BY <1>3, <2>1, TimerStartStep, TimerReadStep, TimerLinkStep
<1>4. ASSUME NEW x \in AppTimer, TimerStop(x) \/ TimerRemove(x) \/ TimerClear(x)
      PROVE  ClockInv' /\ [Next]_vars
  <2>1. UNCHANGED vars
    BY <1>4 DEF TimerStop, TimerRemove, TimerClear, vars
  <2>. QED BY <1>4, <2>1, TimerStopStep, TimerRemoveStep, TimerClearStep
<1>5. ASSUME NEW x \in AppTimer, NEW n \in Delay, TimerSetTime(x, n)
      PROVE  ClockInv' /\ [Next]_vars
  <2>1. UNCHANGED vars
    BY <1>5 DEF TimerSetTime, vars
  <2>. QED BY <1>5, <2>1, TimerSetTimeStep
<1>9. ASSUME NEW x \in AppTimer, TimerLoad(x) \/ \E label \in Loaded : TimerStore(x, label)
      PROVE  ClockInv' /\ [Next]_vars
  <2>1. UNCHANGED vars
    BY <1>9 DEF TimerLoad, TimerStore, vars
  <2>. QED BY <1>9, <2>1, TimerLoadStep, TimerStoreStep
<1>6. ASSUME NEW x \in AppTimer, NEW callback \in {"post", "stop", "restart"},
             CheckApp(x, callback)
      PROVE  ClockInv' /\ [Next]_vars
  BY <1>6, CheckAppStep
<1>7. CASE ClockTick \/ CheckEnd \/ ClockPost
  BY <1>7, ClockTickStep, CheckEndStep, ClockPostStep
<1>8. ASSUME NEW u \in Thread, CheckThread(u) PROVE ClockInv' /\ [Next]_vars
  BY <1>8, CheckThreadStep
<1>. QED BY <1>1, <1>2, <1>3, <1>4, <1>5, <1>6, <1>7, <1>8, <1>9 DEF ClockNext, Loaded

\* What the invariant says of a state.
LEMMA ClockInvImplies == ClockInv => LinkedIffActive /\ ClockTypeOK
<1> SUFFICES ASSUME ClockInv PROVE LinkedIffActive /\ ClockTypeOK
  OBVIOUS
<1>1. ClockTypeOK
  BY ClockBasics DEF ClockInv, ClockTypeOK, TimersOK
<1>2. ASSUME NEW x \in AppTimer \ stray
      PROVE  \/ Contains(tm.list, x) <=> tm.active[x]
             \/ ~Contains(tm.list, x) /\ \E t \in Thread : call[t] = [at |-> "clear", on |-> x]
  <2>1. ASSUME NEW t \in Thread, call[t] = [at |-> "clear", on |-> x]
        PROVE  ~Contains(tm.list, x)
    BY <2>1, OutOfList
  <2>. QED BY <2>1 DEF ClockInv, TimerInv
<1>3. /\ IsInjective(tm.list)
      /\ \A u \in Thread : (Contains(tm.list, u) <=> k.timer[u]) /\ (tm.active[u] <=> k.timer[u])
  BY ClockBasics DEF TimerInv, TimersOK
<1>. QED BY <1>1, <1>2, <1>3 DEF LinkedIffActive

\* The invariant holds whatever the interleaving of threads, tick interrupt,
\* callbacks and calls about timers (timer.c, thread.c).
THEOREM ClockInvariance == ASSUME ~TimedTargets PROVE ClockSpec => []ClockInv
<1>1. ClockInv /\ [ClockNext]_clockvars => ClockInv'
  BY ClockNextStep
<1>. QED BY <1>1, ClockInitSound, PTL DEF ClockSpec

\* The timers of timer.c wake threads as Scheduler supposes: every behaviour of
\* the threads with real timers is one of Scheduler.
THEOREM ClockRefinement == ASSUME ~TimedTargets PROVE ClockSpec => ImplementsScheduler
<1>1. ClockInit => Init
  BY DEF ClockInit
<1>2. ClockInv /\ [ClockNext]_clockvars => [Next]_vars
  BY ClockNextStep
<1>. QED BY <1>1, <1>2, ClockInvariance, PTL DEF ClockSpec, ImplementsScheduler, Spec

\* The timer list, RT_TIMER_FLAG_ACTIVATED and the waits of threads agree in
\* every state, also within rt_timer_start, rt_timer_stop and rt_timer_control,
\* but for the application's timers that the two exceptions of LinkedIffActive
\* have struck: a one-shot timer restarted by its callback, and one that expired
\* while rt_timer_control changed its flags.
THEOREM ClockLinked == ASSUME ~TimedTargets PROVE ClockSpec => []LinkedIffActive
BY ClockInvariance, ClockInvImplies, PTL

\* The timers have their type: no timeout exceeds RT_TICK_MAX.
THEOREM ClockTyped == ASSUME ~TimedTargets PROVE ClockSpec => []ClockTypeOK
BY ClockInvariance, ClockInvImplies, PTL

=============================================================================
