-------------------------- MODULE SchedulerProofs ---------------------------
(***************************************************************************)
(* The calls that take a thread off the CPU keep the invariant of          *)
(* Scheduler, and what follows from it for every number of threads and     *)
(* priorities: the invariants, who gets the CPU, and strict preemption.    *)
(***************************************************************************)
EXTENDS SchedulerInv

-----------------------------------------------------------------------------
(* The calls that move a thread: control, exit, sleep, and the idle thread's reaping *)

\* Changing a priority moves a ready thread to the list of the new one.
LEMMA ControlStep ==
  ASSUME IInv, NEW u \in Thread, NEW p \in Prio, Control(u, p) PROVE IInv'
<1>0. /\ KernelSound(k) /\ k \in Kernel /\ k.cur \in Thread /\ k.prio \in [Thread -> Prio]
      /\ pc \in [Thread -> Label] /\ arg \in [Thread -> Thread] /\ Idle \in Thread
      /\ "defunct" \in Queue
  BY Basics
<1>1. /\ k' = ChangePriority(k, u, p) /\ pc' = pc /\ arg' = arg
      /\ ~Targeted(u) /\ pc[k.cur] = "run"
  BY DEF Control, Calls
<1>2. KernelSound(k') /\ Reprioritised(k, u, p, k')
  BY ONLY <1>0, <1>1, u \in Thread, p \in Prio, PriorityLemma
<1>3. /\ k'.cur = k.cur /\ k'.stat = k.stat /\ k'.timer = k.timer /\ k'.lock = k.lock
      /\ \A q \in Queue : \A x : Contains(k'.wait[q], x) <=> Contains(k.wait[q], x)
      /\ k'.prio = [k.prio EXCEPT ![u] = p]
      /\ \A pp \in Prio : \A x : Contains(k'.ready[pp], x) <=>
           \/ Contains(k.ready[pp], x) /\ x # u
           \/ x = u /\ k.stat[u] = "READY" /\ pp = p
  BY <1>2 DEF Reprioritised
<1>4. Untouched(k, k', u)
  BY <1>0, <1>3 DEF Untouched
<1>5. \A v \in Thread : pc[v] \in TargetLabel => arg[v] # u
  BY <1>1, Untargeted
<1>6. CallsKept(pc, arg, pc, arg, u)
  BY DEF CallsKept
<1>7. pc[u] \in TargetLabel => k'.stat[u] \in {"READY", "RUNNING"}
  BY <1>3 DEF IInv, Sound, CallersOK
<1>8. CallsAbout(k, k', pc, pc, arg, u)
  BY ONLY <1>5, <1>7 DEF CallsAbout
<1>9. Placed(k', pc, arg, u)
  BY <1>0, <1>3 DEF IInv, Sound, DefunctOK, Placed
<1>10. CurOK(k', pc) /\ IdleOK(k', pc)
  BY <1>3 DEF IInv, Sound, CurOK, IdleOK
<1>11. Sound(k, pc, arg)
  BY DEF IInv
<1>12. Sound(k', pc, arg)
  BY ONLY <1>0, <1>2, <1>4, <1>6, <1>8, <1>9, <1>10, <1>11, u \in Thread, LocalStep
<1>. QED BY <1>1, <1>12 DEF IInv

\* The current thread takes the state of the members of q.
Leave(x, q, e) ==
  [x EXCEPT !.stat = [x.stat EXCEPT ![x.cur] = QueueStat(q)],
            !.timer = [x.timer EXCEPT ![x.cur] = FALSE], !.error = e]

\* What is then true of it and of the others, in(q) saying whether it is in q.
Away(z, q, in) ==
  /\ KernelSound(z) /\ Untouched(k, z, k.cur) /\ z.lock = k.lock
  /\ z.stat[k.cur] = QueueStat(q) /\ z.timer[k.cur] = FALSE
  /\ \A qq \in Queue : Contains(z.wait[qq], k.cur) <=> in /\ qq = q

\* The running thread leaves the RUNNING state.
LEMMA LeaveLemma ==
  ASSUME IInv, k.stat[k.cur] = "RUNNING", NEW q \in Queue,
         NEW e \in [Thread -> Error], NEW y, y = Leave(k, q, e)
  PROVE  Away(y, q, FALSE) /\ Unlinked(y, k.cur)
<1>0. /\ KernelSound(k) /\ k \in Kernel /\ ListsSound(k) /\ k.cur \in Thread
      /\ k.stat \in [Thread -> Stat] /\ k.timer \in [Thread -> BOOLEAN]
  BY Basics
<1> DEFINE st == [k.stat EXCEPT ![k.cur] = QueueStat(q)]
           ti == [k.timer EXCEPT ![k.cur] = FALSE]
<1>1. /\ st \in [Thread -> Stat] /\ ti \in [Thread -> BOOLEAN]
      /\ st[k.cur] = QueueStat(q) /\ ti[k.cur] = FALSE /\ QueueStat(q) \in {"SUSPEND", "CLOSE"}
      /\ \A x \in Thread : x # k.cur => st[x] = k.stat[x] /\ ti[x] = k.timer[x]
  BY <1>0 DEF QueueStat, Stat
<1>2. y = [k EXCEPT !.stat = st, !.timer = ti, !.error = e]
  BY DEF Leave
<1> HIDE DEF st, ti
<1>3. /\ y \in Kernel /\ SameLists(k, y) /\ y.stat = st /\ y.timer = ti /\ y.prio = k.prio
      /\ y.lock = k.lock /\ y.cur = k.cur
  BY <1>0, <1>1, <1>2, ZenonT(40) DEF Kernel, SameLists
<1>4. Unlinked(k, k.cur)
  BY <1>0, StatUnlinked
<1>5. KernelSound(y) /\ Unlinked(y, k.cur)
  <2>1. /\ \A x \in Thread : x # k.cur => /\ y.stat[x] = k.stat[x] /\ y.prio[x] = k.prio[x]
                                          /\ y.timer[x] = k.timer[x]
        /\ k.cur = k.cur => y.stat[k.cur] # "READY"
        /\ y.stat[k.cur] = "RUNNING" => k.cur = k.cur
        /\ y.timer[k.cur] => y.stat[k.cur] = "SUSPEND"
    BY <1>1, <1>3
  <2>. QED BY ONLY <1>0, <1>3, <1>4, <2>1, StateChange
<1>6. Untouched(k, y, k.cur)
  BY <1>1, <1>3 DEF Untouched, SameLists
<1>. QED BY <1>1, <1>3, <1>5, <1>6 DEF Away, Unlinked

\* ... and enters the list, at either end.
LEMMA LeaveQueued ==
  ASSUME IInv, k.stat[k.cur] = "RUNNING", NEW q \in Queue,
         NEW e \in [Thread -> Error], NEW y, y = Leave(k, q, e),
         NEW z, z = Enqueue(y, q, k.cur) \/ z = Push(y, q, k.cur)
  PROVE  Away(z, q, TRUE)
<1>0. k.cur \in Thread
  BY Basics
<1>1. Away(y, q, FALSE) /\ Unlinked(y, k.cur)
  BY LeaveLemma
<1>2. /\ KernelSound(y) /\ Unlinked(y, k.cur) /\ k.cur \in Thread /\ q \in Queue
      /\ y.stat[k.cur] = QueueStat(q) /\ (z = Enqueue(y, q, k.cur) \/ z = Push(y, q, k.cur))
  BY <1>0, <1>1 DEF Away
<1>3. KernelSound(z) /\ Linked(y, q, k.cur, z)
  BY ONLY <1>2, LinkLemma
<1>4. /\ z.ready = y.ready /\ z.cur = y.cur /\ z.stat = y.stat
      /\ z.prio = y.prio /\ z.timer = y.timer /\ z.lock = y.lock
      /\ \A qq \in Queue : \A x : Contains(z.wait[qq], x) <=>
           Contains(y.wait[qq], x) \/ (x = k.cur /\ qq = q)
  BY <1>3 DEF Linked
<1>5. Untouched(k, z, k.cur)
  <2>1. Untouched(k, y, k.cur)
    BY <1>1 DEF Away
  <2>2. z.cur = k.cur
    BY <1>4, <2>1 DEF Untouched
  <2>3. ASSUME NEW x \in Thread \ {k.cur}
        PROVE  /\ z.stat[x] = k.stat[x] /\ z.prio[x] = k.prio[x] /\ z.timer[x] = k.timer[x]
               /\ \A p \in Prio : Contains(z.ready[p], x) <=> Contains(k.ready[p], x)
    BY ONLY <1>4, <2>1, <2>3 DEF Untouched
  <2>4. ASSUME NEW x \in Thread \ {k.cur}, NEW qq \in Queue
        PROVE  Contains(z.wait[qq], x) <=> Contains(k.wait[qq], x)
    <3>1. Contains(y.wait[qq], x) <=> Contains(k.wait[qq], x)
      BY <2>1 DEF Untouched
    <3>. QED BY <1>4, <3>1
  <2>. QED BY <2>2, <2>3, <2>4 DEF Untouched
<1>6. \A qq \in Queue : Contains(z.wait[qq], k.cur) <=> TRUE /\ qq = q
  BY <1>1, <1>4 DEF Unlinked
<1>. QED BY <1>1, <1>3, <1>4, <1>5, <1>6 DEF Away

\* rt_thread_exit closes the caller, which stays the current thread until its
\* call of rt_schedule.
LEMMA ExitStep ==
  ASSUME IInv, Exit PROVE IInv'
<1>0. /\ KernelSound(k) /\ k \in Kernel /\ ListsSound(k) /\ k.cur \in Thread
      /\ "defunct" \in Queue /\ k.error \in [Thread -> Error] /\ pc \in [Thread -> Label]
  BY Basics
<1>1. /\ pc[k.cur] = "run" /\ k.cur # Idle /\ k.lock = 0
      /\ pc' = [pc EXCEPT ![k.cur] = "sched"] /\ arg' = [arg EXCEPT ![k.cur] = k.cur]
  BY DEF Exit, Calls, Goto, Call
<1>2. k.stat[k.cur] = "RUNNING"
  BY <1>1, RunsOwnCode
<1>3. rt_schedule_remove_thread(k, k.cur) = k
  BY <1>0, <1>2, StatUnlinked, RemoveUnlinked
<1> DEFINE y == Leave(k, "defunct", k.error)
<1>4. y = [k EXCEPT !.stat[k.cur] = "CLOSE", !.timer[k.cur] = FALSE]
  BY <1>0 DEF QueueStat, Kernel, Leave
<1>5. k' = IF k.cur \in Static THEN y ELSE Push(y, "defunct", k.cur)
  BY <1>3, <1>4 DEF Exit
<1> HIDE DEF y
<1>6. Away(k', "defunct", k.cur \notin Static)
  <2>1. CASE k.cur \in Static
    <3>1. Away(y, "defunct", FALSE)
      BY <1>0, <1>2, LeaveLemma DEF y
    <3>. QED BY <1>5, <2>1, <3>1 DEF Away
  <2>2. CASE k.cur \notin Static
    <3>1. k' = Push(y, "defunct", k.cur)
      BY <1>5, <2>2
    <3>2. Away(k', "defunct", TRUE)
      BY <1>0, <1>2, <3>1, LeaveQueued DEF y
    <3>. QED BY <2>2, <3>2 DEF Away
  <2>. QED BY <2>1, <2>2
<1>7. /\ KernelSound(k') /\ Untouched(k, k', k.cur) /\ k'.cur = k.cur /\ k'.lock = 0
      /\ k'.stat[k.cur] = "CLOSE"
      /\ Contains(k'.wait["defunct"], k.cur) <=> k.cur \notin Static
  BY <1>0, <1>1, <1>6 DEF Away, QueueStat, Untouched
<1>8. CurOK(k', pc')
  BY <1>0, <1>1, <1>7 DEF CurOK
<1>9. pc[k.cur] \notin TargetLabel /\ "sched" \in Label \ TargetLabel
  BY <1>1 DEF TargetLabel, Label
<1>10. /\ k'.stat[k.cur] # "READY"
       /\ Contains(k'.wait["defunct"], k.cur) => k.cur \notin Static
       /\ k'.stat[k.cur] = "CLOSE" /\ k.cur \notin Static => Contains(k'.wait["defunct"], k.cur)
  BY <1>7
<1>11. Sound(k', pc', arg')
  BY ONLY IInv, <1>1, <1>7, <1>8, <1>9, <1>10, SelfStep
<1>. QED BY <1>11 DEF IInv

\* rt_thread_sleep, rt_thread_suspend of the caller and the calls that wait on
\* an object suspend the current thread, queued or not, timed or not.
LEMMA BlockStep ==
  ASSUME IInv, NEW queued \in BOOLEAN, NEW timed \in BOOLEAN, Block(queued, timed) PROVE IInv'
<1>0. /\ KernelSound(k) /\ k \in Kernel /\ ListsSound(k) /\ k.cur \in Thread /\ "ipc" \in Queue
      /\ "defunct" \in Queue /\ k.error \in [Thread -> Error] /\ pc \in [Thread -> Label]
  BY Basics
<1>1. /\ pc[k.cur] = "run" /\ k.cur # Idle /\ k.lock = 0
      /\ pc' = [pc EXCEPT ![k.cur] = "blocked"] /\ arg' = [arg EXCEPT ![k.cur] = k.cur]
  BY DEF Block, Calls, Goto, Call
<1>2. k.stat[k.cur] = "RUNNING"
  BY <1>1, RunsOwnCode
<1> DEFINE er == IF queued THEN [k.error EXCEPT ![k.cur] = "EOK"] ELSE k.error
           n == IF queued THEN [k EXCEPT !.error[k.cur] = "EOK"] ELSE k
           y == Leave(k, "ipc", er)
           z == IF queued THEN Enqueue(y, "ipc", k.cur) ELSE y
<1>3. er \in [Thread -> Error]
  BY <1>0 DEF Error
<1>4. n = [k EXCEPT !.error = er]
  BY <1>0 DEF Kernel
<1> HIDE DEF er
<1>5. /\ n \in Kernel /\ SameLists(k, n) /\ n.stat = k.stat /\ n.prio = k.prio
      /\ n.timer = k.timer /\ n.cur = k.cur /\ ListsSound(n)
  <2> HIDE DEF n
  <2>1. /\ n \in Kernel /\ SameLists(k, n) /\ n.stat = k.stat /\ n.prio = k.prio
        /\ n.timer = k.timer /\ n.cur = k.cur
    BY <1>0, <1>3, <1>4 DEF Kernel, SameLists
  <2>. QED BY ONLY <1>0, <2>1 DEF ListsSound, SameLists
<1>6. rt_schedule_remove_thread(n, k.cur) = n
  BY <1>0, <1>2, <1>5, StatUnlinked, RemoveUnlinked
<1>7. rt_thread_suspend(n, k.cur) = [n EXCEPT !.stat[k.cur] = "SUSPEND", !.timer[k.cur] = FALSE]
  <2> HIDE DEF n
  <2>. QED BY <1>2, <1>5, <1>6 DEF rt_thread_suspend
<1>8. [n EXCEPT !.stat[k.cur] = "SUSPEND", !.timer[k.cur] = FALSE] = y
  <2> HIDE DEF n
  <2>. QED BY <1>0, <1>4, <1>5 DEF Kernel, Leave, QueueStat
<1>9. k' = [z EXCEPT !.timer[k.cur] = timed]
  <2>1. rt_thread_suspend(n, k.cur) = y
    BY <1>7, <1>8
  <2> HIDE DEF y
  <2>. QED BY <2>1 DEF Block
<1>10. Away(z, "ipc", queued)
  <2>1. y = Leave(k, "ipc", er)
    OBVIOUS
  <2> HIDE DEF y
  <2>2. CASE queued
    <3>1. z = Enqueue(y, "ipc", k.cur) \/ z = Push(y, "ipc", k.cur)
      BY <2>2
    <3> HIDE DEF z
    <3>2. Away(z, "ipc", TRUE)
      BY <1>0, <1>2, <1>3, <2>1, <3>1, LeaveQueued
    <3>. QED BY <2>2, <3>2
  <2>3. CASE ~queued
    <3>1. Away(y, "ipc", FALSE) /\ z = y
      BY <1>0, <1>2, <1>3, <2>1, <2>3, LeaveLemma
    <3> HIDE DEF z
    <3>. QED BY <2>3, <3>1
  <2>. QED BY <2>2, <2>3
<1> HIDE DEF z, y, n
<1>11. /\ k' \in Kernel /\ SameLists(z, k') /\ k'.stat = z.stat /\ k'.prio = z.prio
       /\ k'.lock = z.lock /\ k'.timer = [z.timer EXCEPT ![k.cur] = timed]
       /\ z \in Kernel /\ z.timer \in [Thread -> BOOLEAN]
  <2>1. z \in Kernel /\ z.timer \in [Thread -> BOOLEAN]
    BY <1>10 DEF Away, KernelSound, Kernel
  <2> DEFINE ti == [z.timer EXCEPT ![k.cur] = timed]
  <2>2. k' = [z EXCEPT !.timer = ti] /\ ti \in [Thread -> BOOLEAN]
    BY <1>9, <2>1
  <2> HIDE DEF ti
  <2>3. /\ k' \in Kernel /\ SameLists(z, k') /\ k'.stat = z.stat /\ k'.prio = z.prio
        /\ k'.lock = z.lock /\ k'.timer = ti
    BY <2>1, <2>2 DEF Kernel, SameLists
  <2>. QED BY <2>1, <2>3 DEF ti
<1>12. /\ k'.cur = k.cur /\ k'.stat[k.cur] = "SUSPEND" /\ k'.lock = 0
       /\ ~Contains(k'.wait["defunct"], k.cur)
  BY <1>0, <1>1, <1>10, <1>11 DEF Away, QueueStat, Untouched, SameLists
<1>13. KernelSound(k')
  <2>1. ListsSound(k')
    <3>1. ListsSound(z)
      BY <1>10 DEF Away, KernelSound
    <3>. QED BY ONLY <1>11, <3>1 DEF ListsSound, SameLists
  <2>2. \A t \in Thread : k'.timer[t] => k'.stat[t] = "SUSPEND"
    BY <1>0, <1>10, <1>11, <1>12 DEF Away, KernelSound
  <2>3. /\ k'.stat[k'.cur] # "READY"
        /\ \A t \in Thread : k'.stat[t] = "RUNNING" => t = k'.cur
    BY <1>10, <1>11 DEF Away, KernelSound, SameLists
  <2>. QED BY <1>11, <2>1, <2>2, <2>3 DEF KernelSound
<1>14. Untouched(k, k', k.cur)
  <2>1. Untouched(k, z, k.cur)
    BY <1>10 DEF Away
  <2>2. \A t \in Thread \ {k.cur} : k'.timer[t] = z.timer[t]
    BY <1>11
  <2>. QED BY <1>11, <2>1, <2>2 DEF Untouched, SameLists
<1>15. CurOK(k', pc')
  BY <1>0, <1>1, <1>12 DEF CurOK
<1>16. pc[k.cur] \notin TargetLabel /\ "blocked" \in Label \ TargetLabel
  BY <1>1 DEF TargetLabel, Label
<1>17. /\ k'.stat[k.cur] # "READY"
       /\ Contains(k'.wait["defunct"], k.cur) => k.cur \notin Static
       /\ k'.stat[k.cur] = "CLOSE" /\ k.cur \notin Static => Contains(k'.wait["defunct"], k.cur)
  BY <1>12
<1>18. Sound(k', pc', arg')
  BY ONLY IInv, <1>1, <1>13, <1>14, <1>15, <1>16, <1>17, SelfStep
<1>. QED BY <1>18 DEF IInv

\* The idle thread unlinks a closed thread d and calls the scheduler.
LEMMA ReapSchedules ==
  ASSUME IInv, Reap
  PROVE  \E d \in Thread, n \in Kernel :
           /\ k.cur = Idle /\ pc[k.cur] = "run" /\ k.stat[k.cur] = "RUNNING"
           /\ k' = rt_schedule(n) /\ KernelSound(n) /\ ReadyOK(n, pc, arg) /\ n.cur = k.cur
           /\ Untouched(k, n, d) /\ Unlinked(n, d) /\ ~Unlinked(k, d) /\ n.timer[d] = FALSE
           /\ k.stat[d] = "CLOSE" /\ n.stat[d] = "CLOSE"
           /\ pc' = [pc EXCEPT ![k.cur] = "free"] /\ arg' = [arg EXCEPT ![k.cur] = d]
<1>0. /\ KernelSound(k) /\ k \in Kernel /\ ListsSound(k) /\ k.cur \in Thread
      /\ k.stat \in [Thread -> Stat] /\ k.timer \in [Thread -> BOOLEAN] /\ "defunct" \in Queue
      /\ k.error \in [Thread -> Error] /\ k.wait["defunct"] \in Seq(Thread)
  BY Basics DEF Kernel
<1>1. PICK d \in Thread : d = Head(k.wait["defunct"]) /\ Contains(k.wait["defunct"], d)
  <2>1. k.wait["defunct"] # << >>
    BY DEF Reap
  <2> DEFINE w == k.wait["defunct"]
  <2>2. w \in Seq(Thread) /\ w # << >>
    BY <1>0, <2>1
  <2> HIDE DEF w
  <2>3. Head(w) \in Thread /\ 1 \in 1 .. Len(w) /\ w[1] = Head(w)
    BY ONLY <2>2
  <2>4. Contains(w, Head(w))
    BY ONLY <2>3 DEF Contains
  <2>. QED BY ONLY <2>3, <2>4 DEF w
<1> DEFINE n == rt_list_remove(k, d)
<1>2. /\ k.cur = Idle /\ pc[k.cur] = "run" /\ k.lock = 0
      /\ k' = rt_exit_critical(rt_enter_critical(n))
      /\ pc' = [pc EXCEPT ![k.cur] = "free"] /\ arg' = [arg EXCEPT ![k.cur] = d]
  BY <1>1 DEF Reap, Call
<1>3. k.stat[d] = "CLOSE" /\ ~Unlinked(k, d) /\ k.stat[k.cur] = "RUNNING"
  BY <1>0, <1>1, <1>2, RunsOwnCode DEF ListsSound, QueueStat, Unlinked
<1>4. KernelSound(n) /\ Unlinked(n, d) /\ Detached(k, d, k.error, n)
  BY <1>0, <1>3, RemoveClosed
<1>5. n \in Kernel /\ n.lock = 0
  BY <1>2, <1>4 DEF KernelSound, Detached
<1>6. k' = rt_schedule(n)
  <2> HIDE DEF n
  <2>1. rt_enter_critical(n) = [n EXCEPT !.lock = 1]
    BY <1>5 DEF rt_enter_critical, Kernel
  <2>2. [n EXCEPT !.lock = 1].lock = 1 /\ [[n EXCEPT !.lock = 1] EXCEPT !.lock = 0] = n
    BY <1>5 DEF Kernel
  <2>. QED BY <1>2, <2>1, <2>2 DEF rt_exit_critical
<1> HIDE DEF n
<1>8. Untouched(k, n, d) /\ n.cur = k.cur /\ n.stat = k.stat /\ n.timer[d] = FALSE
  BY <1>0, <1>4 DEF Detached, Untouched
<1>9. ReadyOK(n, pc, arg)
  BY <1>4 DEF IInv, Sound, ReadyOK, Detached
<1>. QED BY <1>1, <1>2, <1>3, <1>4, <1>5, <1>6, <1>8, <1>9

\* The idle thread takes a closed thread off the defunct list to free it.
LEMMA ReapStep ==
  ASSUME IInv, Reap PROVE IInv'
<1>1. PICK d \in Thread, n \in Kernel :
        /\ k.cur = Idle /\ pc[k.cur] = "run" /\ k.stat[k.cur] = "RUNNING"
        /\ k' = rt_schedule(n) /\ KernelSound(n) /\ ReadyOK(n, pc, arg) /\ n.cur = k.cur
        /\ Untouched(k, n, d) /\ Unlinked(n, d) /\ ~Unlinked(k, d) /\ n.timer[d] = FALSE
        /\ k.stat[d] = "CLOSE" /\ n.stat[d] = "CLOSE"
        /\ pc' = [pc EXCEPT ![k.cur] = "free"] /\ arg' = [arg EXCEPT ![k.cur] = d]
  BY ReapSchedules
<1>2. TargetOK(n, "free", d)
  BY <1>1 DEF TargetOK, TargetStat
<1>3. /\ \A v \in Thread : v # k.cur /\ pc[v] \in TargetLabel => arg[v] # d
      /\ pc[d] \notin TargetLabel
  BY <1>1 DEF IInv, Sound, TargetsOK, TargetOK, CallersOK
<1>4. "free" \in TargetLabel /\ pc[k.cur] \notin TargetLabel
  BY <1>1 DEF TargetLabel
<1>5. Sound(n, pc', arg')
  BY <1>1, <1>2, <1>3, <1>4, CallStep
<1>6. Sound(k', pc', arg')
  BY <1>1, <1>5, ScheduleStep
<1>. QED BY <1>6 DEF IInv

-----------------------------------------------------------------------------
(* The invariant *)

\* Every step keeps the inductive invariant.
LEMMA NextStep ==
  ASSUME IInv, ~TimedTargets, [Next]_vars PROVE IInv'
<1>1. CASE UNCHANGED vars
  BY <1>1 DEF vars, IInv
<1>2. ASSUME NEW u \in Thread, Create(u) \/ Startup(u) \/ Resume(u) \/ Delete(u)
      PROVE  IInv'
  BY <1>2, CreateStep, StartupStep, ResumeStep, DeleteStep
<1>3. ASSUME NEW u \in Thread, NEW p \in Prio, Control(u, p) PROVE IInv'
  BY <1>3, ControlStep
<1>4. ASSUME NEW queued \in BOOLEAN, NEW timed \in BOOLEAN, Block(queued, timed) PROVE IInv'
  BY <1>4, BlockStep
<1>5. CASE ResumeUnlink \/ Insert \/ Sched \/ Wake \/ Post \/ Yield \/ Exit
  BY <1>5, ResumeUnlinkStep, InsertStep, SchedStep, WakeStep, PostStep, YieldStep, ExitStep
<1>6. CASE DeleteTimer \/ DeleteClose \/ DeleteDefunct
  BY <1>6, DeleteTimerStep, DeleteCloseStep, DeleteDefunctStep
<1>7. CASE EnterCritical \/ ExitCritical \/ Reap \/ Free
  BY <1>7, EnterCriticalStep, ExitCriticalStep, ReapStep, FreeStep
<1>8. CASE Tick \/ PostFromISR
  BY <1>8, TickStep, PostFromISRStep
<1>9. ASSUME NEW u \in Thread, Timeout(u) PROVE IInv'
  BY <1>9, TimeoutStep
<1>. QED BY <1>1, <1>2, <1>3, <1>4, <1>5, <1>6, <1>7, <1>8, <1>9 DEF Next, ThreadStep

\* A target that is being deleted is in no list.
LEMMA DeletingUnlinked ==
  ASSUME IInv, NEW t \in Thread, BeingDeleted(t) PROVE Unlinked(k, t)
BY DEF IInv, Sound, TargetsOK, TargetOK, BeingDeleted, TargetLabel

\* Each invariant of the run is part of IInv or follows from it.
LEMMA IInvImplies ==
  ASSUME IInv
  PROVE  /\ TypeOK /\ BitmapExact /\ ReadyListsExact /\ WaitListsExact
         /\ OneRunning /\ TimerMeansSuspended
<1>0. /\ KernelSound(k) /\ k \in Kernel /\ ListsSound(k) /\ "ipc" \in Queue /\ "defunct" \in Queue
      /\ k.prio \in [Thread -> Prio]
  BY Basics
<1>1. TypeOK
  BY Basics DEF TypeOK
<1>2. BitmapExact
  BY <1>0 DEF ListsSound, BitmapExact
<1>3. \A t \in Thread : BeingDeleted(t) <=> Deleting(pc, arg, t)
  BY DEF BeingDeleted, Deleting, DeleteLabel
<1>4. ReadyListsExact
  <2>. SUFFICES ASSUME NEW p \in Prio
                PROVE  /\ IsInjective(k.ready[p])
                       /\ \A t \in Thread : Contains(k.ready[p], t) <=>
                            k.stat[t] = "READY" /\ k.prio[t] = p /\ ~BeingDeleted(t)
    BY DEF ReadyListsExact
  <2>1. IsInjective(k.ready[p])
    BY <1>0 DEF ListsSound
  <2>2. ASSUME NEW t \in Thread, Contains(k.ready[p], t)
        PROVE  k.stat[t] = "READY" /\ k.prio[t] = p /\ ~BeingDeleted(t)
    BY <1>0, <2>2, DeletingUnlinked DEF ListsSound, Unlinked
  <2>3. ASSUME NEW t \in Thread, k.stat[t] = "READY", k.prio[t] = p, ~BeingDeleted(t)
        PROVE  Contains(k.ready[p], t)
    BY <1>3, <2>3 DEF IInv, Sound, ReadyOK
  <2>. QED BY <2>1, <2>2, <2>3
<1>5. WaitListsExact
  <2>1. \A q \in Queue : IsInjective(k.wait[q])
    BY <1>0 DEF ListsSound
  <2>2. \A t \in Thread : Contains(k.wait["ipc"], t) => k.stat[t] = "SUSPEND"
    BY <1>0 DEF ListsSound, QueueStat
  <2>3. ASSUME NEW t \in Thread, Contains(k.wait["defunct"], t)
        PROVE  k.stat[t] = "CLOSE" /\ t \notin Static /\ ~BeingDeleted(t)
    <3>1. k.stat[t] = "CLOSE"
      BY <1>0, <2>3 DEF ListsSound, QueueStat
    <3>2. t \notin Static
      BY <2>3 DEF IInv, Sound, DefunctOK
    <3>3. ~BeingDeleted(t)
      BY <1>0, <2>3, DeletingUnlinked DEF Unlinked
    <3>. QED BY <3>1, <3>2, <3>3
  <2>4. ASSUME NEW t \in Thread, k.stat[t] = "CLOSE", t \notin Static, ~BeingDeleted(t)
        PROVE  Contains(k.wait["defunct"], t)
    BY <1>3, <2>4 DEF IInv, Sound, DefunctOK
  <2>. QED BY <2>1, <2>2, <2>3, <2>4 DEF WaitListsExact
<1>6. OneRunning
  BY <1>0 DEF IInv, Sound, CurOK, KernelSound, OneRunning
<1>7. TimerMeansSuspended
  BY <1>0 DEF KernelSound, TimerMeansSuspended
<1>. QED BY <1>1, <1>2, <1>4, <1>5, <1>6, <1>7

\* The inductive invariant holds for ever, for any number of threads, priorities
\* and ticks per slice, as long as nobody deletes a thread whose timer runs.
THEOREM Invariance ==
  ASSUME ~TimedTargets PROVE Spec => []IInv
<1>1. IInv /\ [Next]_vars => IInv'
  BY NextStep
<1>. QED BY <1>1, InitSound, PTL DEF Spec

\* The state has its type: in particular no slice reaches 0 and every list
\* holds thread objects (thread.c, scheduler.c).
THEOREM TypeCorrect == ASSUME ~TimedTargets PROVE Spec => []TypeOK
BY Invariance, IInvImplies, PTL

\* The bitmap that rt_schedule searches is exact.
THEOREM Bitmap == ASSUME ~TimedTargets PROVE Spec => []BitmapExact
BY Invariance, IInvImplies, PTL

\* A thread is in the ready list of its priority exactly when it is ready.
THEOREM ReadyLists == ASSUME ~TimedTargets PROVE Spec => []ReadyListsExact
BY Invariance, IInvImplies, PTL

\* A waiting thread is suspended and queued once; the defunct list holds every
\* closed dynamic thread until the idle thread frees it.
THEOREM WaitLists == ASSUME ~TimedTargets PROVE Spec => []WaitListsExact
BY Invariance, IInvImplies, PTL

\* Only the current thread runs.
THEOREM SingleRunner == ASSUME ~TimedTargets PROVE Spec => []OneRunning
BY Invariance, IInvImplies, PTL

\* rt_thread_timeout finds the thread suspended, as it asserts.
THEOREM TimeoutAssertion == ASSUME ~TimedTargets PROVE Spec => []TimerMeansSuspended
BY Invariance, IInvImplies, PTL

-----------------------------------------------------------------------------
(* Who gets the CPU *)

\* Nobody ready has a higher priority than the current thread.
Top(r, c, a) ==
  \A t \in Thread : r.stat[t] = "READY" /\ ~Deleting(c, a, t) => r.prio[r.cur] <= r.prio[t]

\* r has switched to a thread with no better candidate.
Best(r, c, a) == r.lock = 0 /\ r.stat[r.cur] = "RUNNING" /\ Top(r, c, a)

\* rt_schedule leaves the CPU to the best candidate, whether or not it switches.
LEMMA ScheduleTop ==
  ASSUME NEW x, NEW c, NEW a, KernelSound(x), ReadyOK(x, c, a),
         NEW r, r = rt_schedule(x), x.lock = 0
  PROVE  Top(r, c, a)
<1>0. x \in Kernel /\ ListsSound(x) /\ x.prio \in [Thread -> Prio] /\ x.cur \in Thread
  BY DEF KernelSound, Kernel
<1>1. /\ \/ r = x
         \/ Switched(x, r) /\ (x.stat[x.cur] = "RUNNING" => x.prio[r.cur] <= x.prio[x.cur])
      /\ \A p \in x.group : r.prio[r.cur] <= p
  BY ScheduleLemma
<1>2. ASSUME NEW t \in Thread, x.stat[t] = "READY", ~Deleting(c, a, t)
      PROVE  r.prio[r.cur] <= x.prio[t]
  <2>1. Contains(x.ready[x.prio[t]], t) /\ x.prio[t] \in Prio
    BY <1>0, <1>2 DEF ReadyOK
  <2>2. x.ready[x.prio[t]] \in Seq(Thread) /\ x.ready[x.prio[t]] # << >>
    BY <1>0, <2>1 DEF Kernel, Contains
  <2>3. x.prio[t] \in x.group
    BY <1>0, <2>1, <2>2 DEF ListsSound
  <2>. QED BY <1>1, <2>3
<1>3. CASE r = x
  BY <1>2, <1>3 DEF Top
<1>4. CASE Switched(x, r) /\ (x.stat[x.cur] = "RUNNING" => x.prio[r.cur] <= x.prio[x.cur])
  <2>1. /\ r.prio = x.prio /\ r.cur \in Thread
        /\ r.stat = [t \in Thread |->
                       IF t = r.cur THEN "RUNNING"
                       ELSE IF t = x.cur /\ x.stat[t] = "RUNNING" THEN "READY" ELSE x.stat[t]]
    BY <1>4 DEF Switched
  <2>2. ASSUME NEW t \in Thread, r.stat[t] = "READY", ~Deleting(c, a, t)
        PROVE  r.prio[r.cur] <= r.prio[t]
    <3>1. CASE t = x.cur /\ x.stat[t] = "RUNNING"
      BY <1>4, <2>1, <3>1
    <3>2. CASE x.stat[t] = "READY"
      BY <1>2, <2>1, <2>2, <3>2
    <3>. QED BY <2>1, <2>2, <3>1, <3>2
  <2>. QED BY <2>2 DEF Top
<1>. QED BY <1>1, <1>3, <1>4

\* rt_schedule only switches to the best candidate.
LEMMA ScheduleBest ==
  ASSUME NEW x, NEW c, NEW a, KernelSound(x), ReadyOK(x, c, a),
         NEW r, r = rt_schedule(x), r.cur # x.cur
  PROVE  Best(r, c, a)
<1>1. x.lock = 0 /\ Switched(x, r)
  BY ScheduleLemma
<1>2. r.lock = 0 /\ r.stat[r.cur] = "RUNNING"
  BY <1>1 DEF Switched
<1>. QED BY <1>1, <1>2, ScheduleTop DEF Best

\* y is a kernel with x's current thread.
SameCpu(x, y) == "cur" \in DOMAIN y /\ y.cur = x.cur

\* The list operations do not choose the current thread.
LEMMA ListsKeepCpu ==
  ASSUME NEW x, "cur" \in DOMAIN x, NEW u, NEW q
  PROVE  /\ SameCpu(x, rt_list_remove(x, u)) /\ SameCpu(x, rt_schedule_remove_thread(x, u))
         /\ SameCpu(x, rt_schedule_insert_thread(x, u))
         /\ SameCpu(x, Enqueue(x, q, u)) /\ SameCpu(x, Push(x, q, u))
<1>1. SameCpu(x, rt_list_remove(x, u))
  BY DEF SameCpu, rt_list_remove
<1>2. SameCpu(x, rt_schedule_remove_thread(x, u))
  BY <1>1 DEF SameCpu, rt_schedule_remove_thread
<1>3. SameCpu(x, rt_schedule_insert_thread(x, u))
  BY DEF SameCpu, rt_schedule_insert_thread
<1>4. SameCpu(x, Enqueue(x, q, u)) /\ SameCpu(x, Push(x, q, u))
  BY DEF SameCpu, Enqueue, Push
<1>. QED BY <1>1, <1>2, <1>3, <1>4

\* No action but a call of rt_schedule moves the CPU.
LEMMA KeepsCpu ==
  ASSUME IInv,
         \/ \E u \in Thread : Create(u) \/ Startup(u) \/ Resume(u) \/ Delete(u)
         \/ \E u \in Thread, p \in Prio : Control(u, p)
         \/ \E queued, timed \in BOOLEAN : Block(queued, timed)
         \/ ResumeUnlink \/ Insert \/ Wake \/ Post \/ Exit
         \/ DeleteTimer \/ DeleteClose \/ DeleteDefunct \/ EnterCritical \/ Free
  PROVE  k'.cur = k.cur
<1>0. k \in Kernel /\ "cur" \in DOMAIN k
  BY Basics DEF Kernel
<1>1. ASSUME NEW u \in Thread, Create(u) PROVE k'.cur = k.cur
  BY <1>0, <1>1 DEF Create, Fresh
<1>2. ASSUME NEW u \in Thread, Startup(u) PROVE k'.cur = k.cur
  BY <1>0, <1>2, ListsKeepCpu DEF Startup, SameCpu
<1>3. ASSUME NEW u \in Thread, Resume(u) PROVE k'.cur = k.cur
  BY <1>3 DEF Resume
<1>4. ASSUME NEW u \in Thread, Delete(u) PROVE k'.cur = k.cur
  BY <1>0, <1>4, ListsKeepCpu DEF Delete, SameCpu
<1>5. ASSUME NEW u \in Thread, NEW p \in Prio, Control(u, p) PROVE k'.cur = k.cur
  <2>1. k' = ChangePriority(k, u, p) /\ KernelSound(k)
    BY <1>5, Basics DEF Control
  <2>2. Reprioritised(k, u, p, k')
    BY ONLY <2>1, u \in Thread, p \in Prio, PriorityLemma
  <2>. QED BY <2>2 DEF Reprioritised
<1>6. ASSUME NEW queued \in BOOLEAN, NEW timed \in BOOLEAN, Block(queued, timed)
      PROVE  k'.cur = k.cur
  <2> DEFINE n == IF queued THEN [k EXCEPT !.error[k.cur] = "EOK"] ELSE k
             s == rt_thread_suspend(n, k.cur)
             e == IF queued THEN Enqueue(s, "ipc", k.cur) ELSE s
  <2>1. SameCpu(k, n)
    BY <1>0 DEF SameCpu
  <2> HIDE DEF n
  <2>2. SameCpu(k, s)
    BY <2>1, ListsKeepCpu DEF SameCpu, rt_thread_suspend
  <2> HIDE DEF s
  <2>3. SameCpu(k, e)
    <3>1. SameCpu(k, Enqueue(s, "ipc", k.cur))
      <4>1. "cur" \in DOMAIN s /\ s.cur = k.cur
        BY ONLY <2>2 DEF SameCpu
      <4>2. SameCpu(s, Enqueue(s, "ipc", k.cur))
        BY ONLY <4>1, ListsKeepCpu
      <4>. QED BY ONLY <4>1, <4>2 DEF SameCpu
    <3>. QED BY <2>2, <3>1
  <2>4. k' = [e EXCEPT !.timer[k.cur] = timed]
    BY <1>6 DEF Block, e, s, n
  <2> HIDE DEF e
  <2>. QED BY <2>3, <2>4 DEF SameCpu
<1>7. CASE Insert
  BY <1>0, <1>7, ListsKeepCpu DEF Insert, SameCpu
<1>8. CASE Wake
  BY <1>0, <1>8 DEF Wake
<1>9. CASE Post
  BY <1>9, ResumeFirst DEF Post
<1>10. CASE Exit
  <2> DEFINE n == rt_schedule_remove_thread(k, k.cur)
             r == [n EXCEPT !.stat[k.cur] = "CLOSE", !.timer[k.cur] = FALSE]
  <2>1. SameCpu(k, n)
    BY <1>0, ListsKeepCpu
  <2>2. k' = IF k.cur \in Static THEN r ELSE Push(r, "defunct", k.cur)
    BY <1>10 DEF Exit
  <2> HIDE DEF n
  <2>3. SameCpu(k, r)
    BY <2>1 DEF SameCpu
  <2> HIDE DEF r
  <2>. QED BY <2>2, <2>3, ListsKeepCpu, SMTT(30) DEF SameCpu
<1>11. CASE DeleteTimer \/ DeleteClose
  BY <1>0, <1>11 DEF DeleteTimer, DeleteClose
<1>12. CASE DeleteDefunct
  BY <1>0, <1>12, ListsKeepCpu DEF DeleteDefunct, SameCpu
<1>13. CASE EnterCritical
  BY <1>0, <1>13 DEF EnterCritical, rt_enter_critical
<1>14. CASE Free
  BY <1>0, <1>14 DEF Free, Fresh
<1>15. CASE ResumeUnlink
  BY <1>0, <1>15, ListsKeepCpu DEF ResumeUnlink, SameCpu
<1>. QED BY <1>1, <1>2, <1>3, <1>4, <1>5, <1>6, <1>7, <1>8, <1>9, <1>10, <1>11, <1>12, <1>13, <1>14,
            <1>15

\* k' is what rt_schedule makes of a sound state that differs from k in what
\* the step did before the call.
Reschedules ==
  \E y : /\ KernelSound(y) /\ ReadyOK(y, pc, arg) /\ y.cur = k.cur
         /\ k' = rt_schedule(y)

\* The step neither calls rt_schedule nor makes a thread ready.
LeavesThreads ==
  /\ k'.cur = k.cur /\ k'.stat = k.stat /\ k'.prio = k.prio
  /\ k'.lock = k.lock \/ k'.lock > 0

\* A time slice and the nesting of the scheduler lock are in no list.
LEMMA SameState ==
  ASSUME NEW x, NEW c, NEW a, KernelSound(x), ReadyOK(x, c, a), NEW y \in Kernel,
         y.ready = x.ready /\ y.group = x.group /\ y.wait = x.wait,
         y.cur = x.cur /\ y.stat = x.stat /\ y.prio = x.prio /\ y.timer = x.timer
  PROVE  KernelSound(y) /\ ReadyOK(y, c, a)
<1>0. /\ y.ready = x.ready /\ y.group = x.group /\ y.wait = x.wait
      /\ y.cur = x.cur /\ y.stat = x.stat /\ y.prio = x.prio /\ y.timer = x.timer
  OBVIOUS
<1>1. ListsSound(y)
  <2>1. ListsSound(x)
    BY DEF KernelSound
  <2>2. ASSUME NEW p \in Prio
        PROVE  /\ IsInjective(y.ready[p]) /\ (p \in y.group <=> y.ready[p] # << >>)
               /\ \A t \in Thread : Contains(y.ready[p], t) => y.stat[t] = "READY" /\ y.prio[t] = p
    BY ONLY <1>0, <2>1, p \in Prio DEF ListsSound
  <2>3. ASSUME NEW q \in Queue
        PROVE  /\ IsInjective(y.wait[q])
               /\ \A t \in Thread : Contains(y.wait[q], t) => y.stat[t] = QueueStat(q)
    BY ONLY <1>0, <2>1, q \in Queue DEF ListsSound
  <2>. QED BY ONLY <2>2, <2>3 DEF ListsSound
<1>2. KernelSound(y)
  BY <1>1 DEF KernelSound
<1>3. ReadyOK(y, c, a)
  BY DEF ReadyOK
<1>. QED BY <1>2, <1>3

\* The interrupts, rt_thread_yield, rt_exit_critical, the end of every API
\* function and the idle thread's rt_enter/rt_exit pair reschedule.
LEMMA SchedulingStep ==
  ASSUME IInv,
         \/ Sched \/ Yield \/ Tick \/ ExitCritical \/ PostFromISR \/ Reap
         \/ \E u \in Thread : Timeout(u)
  PROVE  Reschedules \/ LeavesThreads
<1>0. KernelSound(k) /\ ReadyOK(k, pc, arg) /\ k \in Kernel /\ k.cur \in Thread
  BY Basics DEF IInv, Sound
<1>1. CASE Sched \/ Yield
  <2>1. k' = rt_schedule(k)
    BY <1>1 DEF Sched, Yield, rt_thread_yield
  <2>. QED BY <1>0, <2>1 DEF Reschedules
<1>2. CASE Tick
  <2>1. k.slice \in [Thread -> 1 .. InitTick]
    BY <1>0 DEF Kernel
  <2> DEFINE sl == [k.slice EXCEPT ![k.cur] = InitTick]
             y == [k EXCEPT !.slice = sl]
  <2>2. sl \in [Thread -> 1 .. InitTick]
    <3>1. InitTick \in 1 .. InitTick
      BY TickAssumption
    <3>. QED BY <1>0, <2>1, <3>1
  <2>3. k' = rt_schedule(y) \/ LeavesThreads
    BY <1>0, <1>2 DEF Tick, rt_tick_increase, rt_thread_yield, Kernel, LeavesThreads
  <2> HIDE DEF sl
  <2>4. /\ y \in Kernel /\ y.ready = k.ready /\ y.group = k.group /\ y.wait = k.wait
        /\ y.cur = k.cur /\ y.stat = k.stat /\ y.prio = k.prio /\ y.timer = k.timer
    BY <1>0, <2>2 DEF Kernel
  <2> HIDE DEF y
  <2>5. KernelSound(y) /\ ReadyOK(y, pc, arg)
    BY <1>0, <2>4, SameState
  <2>. QED BY <2>3, <2>4, <2>5 DEF Reschedules
<1>3. CASE ExitCritical
  <2> DEFINE y == [k EXCEPT !.lock = 0]
  <2>1. k' = rt_schedule(y) \/ LeavesThreads
    BY <1>0, <1>3 DEF ExitCritical, rt_exit_critical, Kernel, LeavesThreads
  <2>2. /\ y \in Kernel /\ y.ready = k.ready /\ y.group = k.group /\ y.wait = k.wait
        /\ y.cur = k.cur /\ y.stat = k.stat /\ y.prio = k.prio /\ y.timer = k.timer
    BY <1>0 DEF Kernel
  <2> HIDE DEF y
  <2>3. KernelSound(y) /\ ReadyOK(y, pc, arg)
    BY <1>0, <2>2, SameState
  <2>. QED BY <2>1, <2>2, <2>3 DEF Reschedules
<1>4. ASSUME NEW u \in Thread, Timeout(u) PROVE Reschedules
  <2>1. k' = rt_thread_timeout(k, u) /\ k.timer[u] /\ Sound(k, pc, arg)
    BY <1>4 DEF Timeout, IInv
  <2>2. k.stat[u] = "SUSPEND"
    BY <1>0, <2>1 DEF KernelSound
  <2>3. PICK x : KernelSound(x) /\ Awakened(k, u, x) /\ rt_thread_timeout(k, u) = rt_schedule(x)
    BY ONLY <1>0, <2>2, u \in Thread, TimeoutLemma
  <2>4. Sound(x, pc, arg)
    BY ONLY <2>1, <2>2, <2>3, u \in Thread, AwakenStep
  <2>5. x.cur = k.cur /\ ReadyOK(x, pc, arg)
    BY <2>3, <2>4 DEF Awakened, Sound
  <2>. QED BY <2>1, <2>3, <2>5 DEF Reschedules
<1>5. CASE PostFromISR
  <2> DEFINE y == rt_thread_resume(k, Head(k.wait["ipc"]))
  <2>1. k' = rt_schedule(y) /\ k.wait["ipc"] # << >>
    BY <1>5 DEF PostFromISR
  <2>2. Sound(y, pc, arg) /\ y.cur = k.cur
    BY <2>1, ResumeFirst
  <2> HIDE DEF y
  <2>3. KernelSound(y) /\ ReadyOK(y, pc, arg)
    BY <2>2 DEF Sound
  <2>. QED BY <2>1, <2>2, <2>3 DEF Reschedules
<1>6. CASE Reap
  BY <1>6, ReapSchedules DEF Reschedules
<1>. QED BY <1>1, <1>2, <1>3, <1>4, <1>5, <1>6

\* A step that moves the CPU gives it to the best candidate.
LEMMA SwitchBest ==
  ASSUME IInv, Next, k'.cur # k.cur PROVE Best(k', pc, arg)
<1>1. \/ Sched \/ Yield \/ Tick \/ ExitCritical \/ PostFromISR \/ Reap
      \/ \E u \in Thread : Timeout(u)
  BY KeepsCpu DEF Next, ThreadStep
<1>2. Reschedules
  BY <1>1, SchedulingStep DEF LeavesThreads
<1>. QED BY <1>2, ScheduleBest DEF Reschedules

\* The CPU goes to the highest ready priority, and not while the scheduler is
\* locked, in every behaviour.
THEOREM HighestRuns == ASSUME ~TimedTargets PROVE Spec => SwitchesToHighest
<1>1. \A t \in Thread : BeingDeleted(t) <=> Deleting(pc, arg, t)
  BY DEF BeingDeleted, Deleting, DeleteLabel
<1>2. ASSUME IInv, [Next]_vars, k'.cur # k.cur
      PROVE  /\ k'.lock = 0
             /\ k'.stat[k'.cur] = "RUNNING"
             /\ \A t \in Thread : k'.stat[t] = "READY" /\ ~BeingDeleted(t)
                                   => k'.prio[k'.cur] <= k'.prio[t]
  <2>1. Best(k', pc, arg)
    BY <1>2, SwitchBest DEF vars
  <2>. QED BY <1>1, <2>1 DEF Best, Top
<1>3. IInv /\ [Next]_vars =>
        [k'.cur # k.cur =>
           /\ k'.lock = 0
           /\ k'.stat[k'.cur] = "RUNNING"
           /\ \A t \in Thread : k'.stat[t] = "READY" /\ ~BeingDeleted(t)
                                 => k'.prio[k'.cur] <= k'.prio[t]]_vars
  BY <1>2
<1>. QED BY <1>3, Invariance, PTL DEF Spec, SwitchesToHighest
-----------------------------------------------------------------------------
(* Strict preemption *)

\* Where the current thread still has its rt_schedule before it.
OwedLabel == {"insert_sched", "sched", "blocked"}

\* Strict, as a predicate on a kernel and the threads' places.
Ahead(x, c, a) == x.lock = 0 /\ c[x.cur] \notin OwedLabel => Top(x, c, a)

\* A step that begins in the lead and makes nobody ready stays in the lead.
LEMMA StaysTop ==
  ASSUME Ahead(k, pc, arg), pc[k.cur] \notin OwedLabel,
         k'.cur = k.cur, k'.lock = k.lock, k'.prio[k.cur] = k.prio[k.cur],
         \A t \in Thread : k'.stat[t] = "READY" /\ ~Deleting(pc', arg', t)
                           => /\ k.stat[t] = "READY" /\ ~Deleting(pc, arg, t)
                              /\ k'.prio[t] = k.prio[t]
  PROVE  k'.lock = 0 => Top(k', pc', arg')
BY DEF Ahead, Top

\* The scheduling steps end in the lead.
LEMMA SchedulingAhead ==
  ASSUME IInv, Ahead(k, pc, arg), k'.lock = 0, pc'[k'.cur] \notin OwedLabel,
         \/ Sched \/ Yield \/ Tick \/ ExitCritical \/ PostFromISR \/ Reap
         \/ \E u \in Thread : Timeout(u)
  PROVE  Top(k', pc', arg')
<1>0. /\ k.cur \in Thread /\ pc \in [Thread -> Label] /\ arg \in [Thread -> Thread]
  BY Basics
<1>1. \A t \in Thread : Deleting(pc, arg, t) => Deleting(pc', arg', t)
  <2>1. CASE Sched
    BY <1>0, <2>1 DEF Sched, Goto, Call, Deleting, DeleteLabel
  <2>2. CASE Reap
    BY <1>0, <2>2 DEF Reap, Call, Deleting, DeleteLabel
  <2>3. CASE pc' = pc /\ arg' = arg
    BY <2>3
  <2>. QED BY <2>1, <2>2, <2>3 DEF Yield, Tick, ExitCritical, PostFromISR, Timeout
<1>2. CASE Reschedules
  <2>1. PICK y : /\ KernelSound(y) /\ ReadyOK(y, pc, arg) /\ y.cur = k.cur
                 /\ k' = rt_schedule(y)
    BY <1>2 DEF Reschedules
  <2>2. y.lock = 0
    <3>1. k' = y \/ (y.lock = 0 /\ Switched(y, k'))
      BY <2>1, ScheduleLemma
    <3>. QED BY <3>1
  <2>3. Top(k', pc, arg)
    BY <2>1, <2>2, ScheduleTop
  <2>. QED BY <1>1, <2>3 DEF Top
<1>3. CASE LeavesThreads /\ ~Reschedules
  <2>1. ~Sched /\ ~Reap
    <3>1. KernelSound(k) /\ ReadyOK(k, pc, arg)
      BY DEF IInv, Sound
    <3>2. ~Sched
      BY <1>3, <3>1 DEF Sched, Reschedules
    <3>3. ~Reap
      BY <1>3, ReapSchedules DEF Reschedules
    <3>. QED BY <3>2, <3>3
  <2>2. pc' = pc /\ arg' = arg
    BY <2>1 DEF Yield, Tick, ExitCritical, PostFromISR, Timeout
  <2>3. k'.cur = k.cur /\ k'.stat = k.stat /\ k'.prio = k.prio /\ k.lock = 0
    BY <1>3 DEF LeavesThreads
  <2>. QED BY <2>2, <2>3 DEF Ahead, Top
<1>. QED BY <1>2, <1>3, SchedulingStep

\* x and y agree on who runs and on every thread's state and priority.
SameThreads(x, y) ==
  /\ {"cur", "stat", "prio", "lock"} \subseteq DOMAIN y
  /\ y.cur = x.cur /\ y.stat = x.stat /\ y.prio = x.prio /\ y.lock = x.lock

\* The operations that unlink a thread or queue a closed one.
LEMMA ListsKeepThreads ==
  ASSUME NEW x \in Kernel, NEW u, NEW q
  PROVE  /\ SameThreads(x, rt_list_remove(x, u))
         /\ SameThreads(x, rt_schedule_remove_thread(x, u))
         /\ SameThreads(x, Push(x, q, u))
<1>1. SameThreads(x, rt_list_remove(x, u))
  BY DEF SameThreads, rt_list_remove, Kernel
<1>2. SameThreads(x, rt_schedule_remove_thread(x, u))
  BY <1>1 DEF SameThreads, rt_schedule_remove_thread
<1>3. SameThreads(x, Push(x, q, u))
  BY DEF SameThreads, Push, Kernel
<1>. QED BY <1>1, <1>2, <1>3

\* At most thread u, which is not the current one, changes its state or its
\* priority, and it is not ready afterwards, or it is being deleted.
Quiet(u) ==
  /\ k'.cur = k.cur /\ k'.lock = k.lock /\ u # k.cur
  /\ \A t \in Thread \ {u} : k'.stat[t] = k.stat[t] /\ k'.prio[t] = k.prio[t]
  /\ \A t \in Thread \ {u} : Deleting(pc, arg, t) => Deleting(pc', arg', t)
  /\ k'.stat[u] = "READY" => Deleting(pc', arg', u)

\* rt_thread_create, rt_thread_startup and rt_thread_resume before they insert,
\* the four steps of rt_thread_delete and the end of a freed object make nobody
\* ready.
LEMMA QuietStep ==
  ASSUME IInv,
         \/ \E u \in Thread : Create(u) \/ Startup(u) \/ Resume(u) \/ Delete(u)
         \/ ResumeUnlink \/ DeleteTimer \/ DeleteClose \/ DeleteDefunct \/ Free
  PROVE  \E u \in Thread : Quiet(u)
<1>0. /\ k \in Kernel /\ k.cur \in Thread /\ pc \in [Thread -> Label] /\ arg \in [Thread -> Thread]
      /\ k.stat \in [Thread -> Stat] /\ k.prio \in [Thread -> Prio] /\ Idle \in Thread
  BY Basics
<1>1. ASSUME NEW u \in Thread, Create(u) PROVE Quiet(u)
  <2>1. /\ k' = Fresh(k, u, "INIT") /\ pc' = [pc EXCEPT ![u] = "run"] /\ arg' = arg
        /\ pc[k.cur] = "run" /\ k.stat[u] \in {"NONE", "CLOSE"}
    BY <1>1 DEF Create, Calls
  <2>2. k.stat[k.cur] = "RUNNING"
    BY <2>1, RunsOwnCode
  <2>3. Renewed(k, u, "INIT", k')
    BY <1>0, <2>1, FreshLemma DEF Stat
  <2>4. pc[u] \notin DeleteLabel
    BY <2>1 DEF IInv, Sound, CallersOK, DeleteLabel, TargetLabel
  <2>5. \A t \in Thread : Deleting(pc, arg, t) => Deleting(pc', arg', t)
    BY <1>0, <2>1, <2>4 DEF Deleting
  <2>. QED BY <2>1, <2>2, <2>3, <2>5 DEF Renewed, SameLists, Quiet
<1>2. ASSUME NEW u \in Thread, Startup(u) PROVE Quiet(u)
  <2> DEFINE n == rt_list_remove(k, u)
  <2>1. /\ k' = [n EXCEPT !.prio[u] = InitPrio[u], !.stat[u] = "SUSPEND", !.timer[u] = FALSE]
        /\ pc' = [pc EXCEPT ![k.cur] = "insert_sched"] /\ arg' = [arg EXCEPT ![k.cur] = u]
        /\ pc[k.cur] = "run" /\ k.stat[u] = "INIT"
    BY <1>2 DEF Startup, Calls, Call
  <2>2. k.stat[k.cur] = "RUNNING"
    BY <2>1, RunsOwnCode
  <2>3. SameThreads(k, n)
    BY <1>0, ListsKeepThreads
  <2> HIDE DEF n
  <2>4. /\ k'.cur = k.cur /\ k'.lock = k.lock /\ k'.stat = [k.stat EXCEPT ![u] = "SUSPEND"]
        /\ k'.prio = [k.prio EXCEPT ![u] = InitPrio[u]]
    BY <2>1, <2>3 DEF SameThreads
  <2>5. \A t \in Thread : Deleting(pc, arg, t) => Deleting(pc', arg', t)
    BY <1>0, <2>1 DEF Deleting, DeleteLabel
  <2>6. /\ k'.stat[u] = "SUSPEND"
        /\ \A t \in Thread \ {u} : k'.stat[t] = k.stat[t] /\ k'.prio[t] = k.prio[t]
    BY <1>0, <2>4
  <2>. QED BY <2>1, <2>2, <2>4, <2>5, <2>6 DEF Quiet
<1>3. ASSUME NEW u \in Thread, Delete(u) PROVE Quiet(u)
  <2>1. /\ k' = k \/ k' = rt_schedule_remove_thread(k, u)
        /\ pc' = [pc EXCEPT ![k.cur] = "del_timer"] /\ arg' = [arg EXCEPT ![k.cur] = u]
        /\ pc[k.cur] = "run" /\ u # k.cur
    BY <1>3 DEF Delete, Calls, Call
  <2>2. SameThreads(k, k')
    <3>1. SameThreads(k, k)
      BY <1>0 DEF SameThreads, Kernel
    <3>. QED BY <1>0, <2>1, <3>1, ListsKeepThreads
  <2>3. \A t \in Thread : Deleting(pc, arg, t) => Deleting(pc', arg', t)
    BY <1>0, <2>1 DEF Deleting, DeleteLabel
  <2>4. Deleting(pc', arg', u)
    BY <1>0, <2>1 DEF Deleting, DeleteLabel
  <2>. QED BY <2>1, <2>2, <2>3, <2>4 DEF SameThreads, Quiet
<1>4. CASE DeleteTimer \/ DeleteClose
  <2> DEFINE u == arg[k.cur]
  <2>1. /\ \/ k' = [k EXCEPT !.timer[u] = FALSE]
           \/ k' = [k EXCEPT !.stat[u] = "CLOSE"]
        /\ pc' = [pc EXCEPT ![k.cur] = "del_close"] \/ pc' = [pc EXCEPT ![k.cur] = "del_defunct"]
        /\ arg' = [arg EXCEPT ![k.cur] = u]
        /\ pc[k.cur] \in {"del_timer", "del_close"}
    BY <1>4 DEF DeleteTimer, DeleteClose, Call
  <2>2. u \in Thread /\ u # k.cur
    BY <1>0, <2>1, TargetFacts DEF TargetLabel, TargetOK
  <2>3. \A t \in Thread : Deleting(pc, arg, t) => Deleting(pc', arg', t)
    BY <1>0, <2>1 DEF Deleting, DeleteLabel
  <2>4. Deleting(pc', arg', u)
    BY <1>0, <2>1, <2>2 DEF Deleting, DeleteLabel
  <2> HIDE DEF u
  <2>5. /\ k'.cur = k.cur /\ k'.lock = k.lock /\ k'.prio = k.prio
        /\ k'.stat = k.stat \/ k'.stat = [k.stat EXCEPT ![u] = "CLOSE"]
    BY <1>0, <2>1 DEF Kernel
  <2>6. \A t \in Thread \ {u} : k'.stat[t] = k.stat[t]
    BY <1>0, <2>2, <2>5
  <2>. QED BY <2>6, <2>2, <2>3, <2>4, <2>5 DEF Quiet
<1>5. CASE DeleteDefunct
  <2> DEFINE u == arg[k.cur]
  <2>1. /\ k' = k \/ k' = Push(k, "defunct", u)
        /\ pc' = [pc EXCEPT ![k.cur] = "run", ![u] = "dead"]
        /\ arg' = [arg EXCEPT ![k.cur] = k.cur]
        /\ pc[k.cur] = "del_defunct"
    BY <1>5 DEF DeleteDefunct
  <2>2. u \in Thread /\ u # k.cur /\ k.stat[u] = "CLOSE" /\ pc[u] \notin TargetLabel
    BY <1>0, <2>1, TargetFacts DEF TargetLabel, TargetOK, TargetStat
  <2>3. \A t \in Thread \ {u} : Deleting(pc, arg, t) => Deleting(pc', arg', t)
    BY <1>0, <2>1, <2>2 DEF Deleting, DeleteLabel, TargetLabel
  <2> HIDE DEF u
  <2>4. SameThreads(k, k')
    <3>1. SameThreads(k, k)
      BY <1>0 DEF SameThreads, Kernel
    <3>. QED BY <1>0, <2>1, <3>1, ListsKeepThreads
  <2>. QED BY <2>2, <2>3, <2>4 DEF SameThreads, Quiet
<1>6. CASE Free
  <2> DEFINE u == arg[Idle]
  <2>1. /\ k' = Fresh(k, u, "NONE") /\ k.cur = Idle /\ pc[k.cur] = "free"
        /\ pc' = [pc EXCEPT ![k.cur] = "run", ![u] = "dead"]
        /\ arg' = [arg EXCEPT ![k.cur] = k.cur]
    BY <1>6 DEF Free
  <2>2. u \in Thread /\ u # k.cur /\ pc[u] \notin TargetLabel
    BY <1>0, <2>1, TargetFacts DEF TargetLabel, TargetOK
  <2>3. \A t \in Thread \ {u} : Deleting(pc, arg, t) => Deleting(pc', arg', t)
    BY <1>0, <2>1, <2>2 DEF Deleting, DeleteLabel, TargetLabel
  <2> HIDE DEF u
  <2>4. Renewed(k, u, "NONE", k')
    BY <1>0, <2>1, <2>2, FreshLemma DEF Stat
  <2>. QED BY <2>2, <2>3, <2>4 DEF Renewed, SameLists, Quiet
<1>7. ASSUME NEW u \in Thread, Resume(u) PROVE Quiet(u)
  <2>1. /\ k' = k /\ k.stat[u] = "SUSPEND" /\ u # k.cur /\ pc[k.cur] = "run"
        /\ pc' = [pc EXCEPT ![k.cur] = "resume"] /\ arg' = [arg EXCEPT ![k.cur] = u]
    BY <1>7 DEF Resume, Calls, Call
  <2>2. \A t \in Thread : Deleting(pc, arg, t) => Deleting(pc', arg', t)
    BY <1>0, <2>1 DEF Deleting, DeleteLabel
  <2>. QED BY <2>1, <2>2 DEF Quiet
<1>8. CASE ResumeUnlink
  <2> DEFINE u == arg[k.cur]
             n == rt_list_remove(k, u)
  <2>1. /\ k' = [n EXCEPT !.timer[u] = FALSE] /\ pc[k.cur] = "resume"
        /\ pc' = [pc EXCEPT ![k.cur] = "insert"] /\ arg' = [arg EXCEPT ![k.cur] = u]
    BY <1>8 DEF ResumeUnlink, Call
  <2>2. u \in Thread /\ u # k.cur /\ k.stat[u] = "SUSPEND"
    BY <1>0, <2>1, TargetFacts DEF TargetLabel, TargetOK, TargetStat
  <2>3. \A t \in Thread : Deleting(pc, arg, t) => Deleting(pc', arg', t)
    BY <1>0, <2>1 DEF Deleting, DeleteLabel
  <2>4. SameThreads(k, n)
    BY <1>0, ListsKeepThreads
  <2> HIDE DEF u, n
  <2>5. k'.cur = k.cur /\ k'.lock = k.lock /\ k'.stat = k.stat /\ k'.prio = k.prio
    BY <2>1, <2>4 DEF SameThreads
  <2>. QED BY <2>2, <2>3, <2>5 DEF Quiet
<1>. QED BY <1>1, <1>2, <1>3, <1>4, <1>5, <1>6, <1>7, <1>8

\* Every step but the two that do not reschedule keeps the lead.
LEMMA AheadStep ==
  ASSUME IInv, Ahead(k, pc, arg), [Next]_vars, pc[k.cur] # "insert",
         ~ \E u \in Thread, p \in Prio : Control(u, p)
  PROVE  Ahead(k', pc', arg')
<1>0. k \in Kernel /\ k.cur \in Thread /\ pc \in [Thread -> Label] /\ arg \in [Thread -> Thread]
  BY Basics
<1>1. CASE UNCHANGED vars
  BY <1>1 DEF vars
<1>2. CASE Next
  <2>. SUFFICES ASSUME k'.lock = 0, pc'[k'.cur] \notin OwedLabel
                PROVE  Top(k', pc', arg')
    BY DEF Ahead
  <2>2. CASE \/ Sched \/ Yield \/ Tick \/ ExitCritical \/ PostFromISR \/ Reap
             \/ \E u \in Thread : Timeout(u)
    BY <2>2, SchedulingAhead
  <2>3. CASE \/ \E u \in Thread : Create(u) \/ Startup(u) \/ Resume(u) \/ Delete(u)
             \/ ResumeUnlink \/ DeleteTimer \/ DeleteClose \/ DeleteDefunct \/ Free
    <3>1. PICK u \in Thread : Quiet(u)
      BY <2>3, QuietStep
    <3>2. pc[k.cur] \notin OwedLabel
      BY <2>3 DEF Create, Startup, Resume, ResumeUnlink, Delete, Calls, DeleteTimer, DeleteClose,
                  DeleteDefunct, Free, OwedLabel
    <3>3. \A t \in Thread : k'.stat[t] = "READY" /\ ~Deleting(pc', arg', t)
                            => /\ k.stat[t] = "READY" /\ ~Deleting(pc, arg, t)
                               /\ k'.prio[t] = k.prio[t]
      BY <3>1 DEF Quiet
    <3>4. k'.cur = k.cur /\ k'.lock = k.lock /\ k'.prio[k.cur] = k.prio[k.cur]
      BY <1>0, <3>1 DEF Quiet
    <3>. QED BY <3>2, <3>3, <3>4, StaysTop
  <2>4. CASE Wake
    <3>1. /\ pc[k.cur] = "slept" /\ pc' = [pc EXCEPT ![k.cur] = "run"]
          /\ arg' = [arg EXCEPT ![k.cur] = k.cur]
          /\ k'.cur = k.cur /\ k'.lock = k.lock /\ k'.prio = k.prio /\ k'.stat = k.stat
      BY <1>0, <2>4 DEF Wake, Goto, Call, Kernel
    <3>2. \A t \in Thread : Deleting(pc, arg, t) => Deleting(pc', arg', t)
      BY <1>0, <3>1 DEF Deleting, DeleteLabel
    <3>. QED BY <3>1, <3>2, StaysTop DEF OwedLabel
  <2>5. CASE EnterCritical
    BY <1>0, <2>5 DEF EnterCritical, rt_enter_critical, Kernel
  <2>6. CASE \/ \E queued, timed \in BOOLEAN : Block(queued, timed)
             \/ Insert \/ Post \/ Exit
    <3>1. k'.cur = k.cur
      BY <2>6, KeepsCpu
    <3>2. pc'[k.cur] \in OwedLabel
      <4>1. CASE \E queued, timed \in BOOLEAN : Block(queued, timed)
        BY <1>0, <4>1 DEF Block, Goto, Call, OwedLabel
      <4>2. CASE Insert
        BY <1>0, <4>2 DEF Insert, Goto, Call, OwedLabel
      <4>3. CASE Post \/ Exit
        BY <1>0, <4>3 DEF Post, Exit, Goto, Call, OwedLabel
      <4>. QED BY <2>6, <4>1, <4>2, <4>3
    <3>. QED BY <3>1, <3>2
  <2>. QED BY <1>2, <2>2, <2>3, <2>4, <2>5, <2>6 DEF Next, ThreadStep
<1>. QED BY <1>1, <1>2

\* Strict and its inductive form are the same.
LEMMA StrictAhead == IInv => (Strict <=> Ahead(k, pc, arg))
<1>. SUFFICES ASSUME IInv PROVE Strict <=> Ahead(k, pc, arg)
  OBVIOUS
<1>1. k.lock = 0 <=> ~(k.lock > 0)
  <2>1. k.lock \in Nat
    BY Basics DEF Kernel
  <2>. QED BY <2>1
<1>2. \A t \in Thread : BeingDeleted(t) <=> Deleting(pc, arg, t)
  BY DEF BeingDeleted, Deleting, DeleteLabel
<1>. QED BY <1>1, <1>2 DEF Strict, Ahead, Top, OwedLabel

\* Strict preemption for any number of threads and priorities: no step but the
\* two that ready a thread or change a priority without rescheduling leaves the
\* current thread running, unlocked and past its call of rt_schedule, while a
\* thread of higher priority is ready.
THEOREM Preemption == ASSUME ~TimedTargets PROVE Spec => StrictPreemption
<1>1. (IInv => (Strict <=> Ahead(k, pc, arg)))'
  BY StrictAhead, PTL
<1>2. ASSUME IInv, [Next]_vars, Strict, pc[k.cur] # "insert",
             ~ \E u \in Thread, p \in Prio : Control(u, p)
      PROVE  Strict'
  <2>1. IInv'
    BY <1>2, NextStep
  <2>2. Ahead(k', pc', arg')
    BY <1>2, StrictAhead, AheadStep
  <2>. QED BY <1>1, <2>1, <2>2
<1>3. IInv /\ [Next]_vars => [Strict => \/ Strict'
                                       \/ pc[k.cur] = "insert"
                                       \/ \E u \in Thread, p \in Prio : Control(u, p)]_vars
  BY <1>2
<1>4. Init => Strict
  <2>. SUFFICES ASSUME Init PROVE Strict
    OBVIOUS
  <2>1. /\ k.cur = Main /\ k.prio = InitPrio
        /\ \A t \in Thread : k.stat[t] = "READY" => t = Idle
    BY DEF Init
  <2>. QED BY <2>1, ThreadAssumption, InitPrioAssumption, PrioAssumption DEF Strict, Prio
<1>. QED BY <1>3, <1>4, Invariance, PTL DEF Spec, StrictPreemption

=============================================================================
