---------------------------- MODULE SchedulerInv ----------------------------
(***************************************************************************)
(* The inductive invariant of Scheduler, how the parts of it are kept when *)
(* a step touches one thread, the steps of the calls one thread makes      *)
(* about another (create, startup, resume, delete and free), and those of  *)
(* the interrupts and the calls that wake a thread or give up the CPU.     *)
(***************************************************************************)
EXTENDS Scheduler, KernelLemmas

\* The labels of a thread that is in the middle of a call about another one.
TargetLabel == {"resume", "insert", "insert_sched", "del_timer", "del_close", "del_defunct", "free"}

DeleteLabel == {"del_timer", "del_close", "del_defunct", "free"}

\* The states the target of such a call may be in.
TargetStat(label) ==
  IF label \in {"resume", "insert", "insert_sched"} THEN {"SUSPEND"}
  ELSE IF label \in {"del_timer", "del_close"} THEN {"INIT", "READY", "SUSPEND"}
  ELSE {"CLOSE"}

Deleting(c, a, t) == \E u \in Thread : c[u] \in DeleteLabel /\ a[u] = t

\* The current thread runs, or is on its way to rt_schedule.
CurOK(x, c) ==
  \/ x.stat[x.cur] = "RUNNING"
  \/ /\ x.lock = 0
     /\ \/ x.stat[x.cur] = "SUSPEND" /\ c[x.cur] = "blocked"
        \/ x.stat[x.cur] = "CLOSE" /\ c[x.cur] = "sched"

\* The idle thread can always run.
IdleOK(x, c) == x.stat[Idle] \in {"READY", "RUNNING"} /\ c[Idle] \in {"run", "free"}

\* The target of a call is out of everybody's reach until the call ends.
TargetOK(x, label, u) ==
  /\ u # x.cur /\ u # Idle
  /\ Unlinked(x, u)
  /\ x.timer[u] = FALSE
  /\ x.stat[u] \in TargetStat(label)

TargetsOK(x, c, a) ==
  \A t \in Thread : c[t] \in TargetLabel => TargetOK(x, c[t], a[t]) /\ c[a[t]] \notin TargetLabel

\* A thread in the middle of such a call runs or is ready to go on.
CallersOK(x, c) ==
  \A t \in Thread : c[t] \in TargetLabel => x.stat[t] \in {"READY", "RUNNING"}

\* No two calls have the same target.
TargetsDistinct(c, a) ==
  \A t, u \in Thread : c[t] \in TargetLabel /\ c[u] \in TargetLabel /\ a[t] = a[u] => t = u

\* No ready thread is lost.
ReadyOK(x, c, a) ==
  \A t \in Thread : x.stat[t] = "READY" /\ ~Deleting(c, a, t)
                    => Contains(x.ready[x.prio[t]], t)

\* The defunct list holds every closed dynamic thread, and no static one.
DefunctOK(x, c, a) ==
  \A t \in Thread :
    /\ Contains(x.wait["defunct"], t) => t \notin Static
    /\ x.stat[t] = "CLOSE" /\ t \notin Static /\ ~Deleting(c, a, t)
       => Contains(x.wait["defunct"], t)

\* The inductive invariant, as a predicate on a kernel and the threads' places.
Sound(x, c, a) ==
  /\ KernelSound(x)
  /\ c \in [Thread -> Label] /\ a \in [Thread -> Thread]
  /\ CurOK(x, c)
  /\ IdleOK(x, c)
  /\ TargetsOK(x, c, a)
  /\ CallersOK(x, c)
  /\ TargetsDistinct(c, a)
  /\ ReadyOK(x, c, a)
  /\ DefunctOK(x, c, a)

IInv == Sound(k, pc, arg)

-----------------------------------------------------------------------------
(* Steps that concern one thread *)

\* The kernel differs at most in what it knows of u.
Untouched(x, y, u) ==
  /\ y.cur = x.cur
  /\ \A z \in Thread \ {u} :
       /\ y.stat[z] = x.stat[z] /\ y.prio[z] = x.prio[z] /\ y.timer[z] = x.timer[z]
       /\ \A p \in Prio : Contains(y.ready[p], z) <=> Contains(x.ready[p], z)
       /\ \A q \in Queue : Contains(y.wait[q], z) <=> Contains(x.wait[q], z)

\* Calls about other threads than u go on where they are.
CallsKept(c, a, c2, a2, u) ==
  \A v \in Thread : (c[v] \in TargetLabel /\ a[v] # u) \/ (c2[v] \in TargetLabel /\ a2[v] # u)
                    => c2[v] = c[v] /\ a2[v] = a[v]

\* Every call about u finds it as it should be.
CallsAbout(x, y, c, c2, a2, u) ==
  /\ \A v \in Thread : c2[v] \in TargetLabel /\ a2[v] = u =>
       /\ TargetOK(y, c2[v], u) /\ c2[u] \notin TargetLabel
       /\ y.stat[v] \in {"READY", "RUNNING"}
       /\ v = x.cur \/ c[v] \in TargetLabel
  /\ \A v, w \in Thread :
       c2[v] \in TargetLabel /\ a2[v] = u /\ c2[w] \in TargetLabel /\ a2[w] = u => v = w
  /\ c2[u] \in TargetLabel => y.stat[u] \in {"READY", "RUNNING"}

\* If u is ready or closed, it is in the list that belongs to its state.
Placed(y, c2, a2, u) ==
  /\ y.stat[u] = "READY" /\ ~Deleting(c2, a2, u) => Contains(y.ready[y.prio[u]], u)
  /\ Contains(y.wait["defunct"], u) => u \notin Static
  /\ y.stat[u] = "CLOSE" /\ u \notin Static /\ ~Deleting(c2, a2, u)
     => Contains(y.wait["defunct"], u)

\* A step that concerns u alone keeps the invariant if u ends up well.
LEMMA LocalStep ==
  ASSUME NEW x, NEW c, NEW a, Sound(x, c, a), NEW u \in Thread,
         NEW y, KernelSound(y), Untouched(x, y, u),
         NEW c2 \in [Thread -> Label], NEW a2 \in [Thread -> Thread],
         CallsKept(c, a, c2, a2, u), CallsAbout(x, y, c, c2, a2, u), Placed(y, c2, a2, u),
         CurOK(y, c2), IdleOK(y, c2)
  PROVE  Sound(y, c2, a2)
<1>1. /\ x.cur \in Thread /\ y.prio \in [Thread -> Prio] /\ x.prio \in [Thread -> Prio]
      /\ c \in [Thread -> Label] /\ a \in [Thread -> Thread]
  BY DEF Sound, KernelSound, Kernel
<1>2. ASSUME NEW v \in Thread, c2[v] \in TargetLabel, a2[v] # u
      PROVE  /\ c2[v] = c[v] /\ a2[v] = a[v]
             /\ TargetOK(x, c[v], a[v]) /\ c[a[v]] \notin TargetLabel
             /\ x.stat[v] \in {"READY", "RUNNING"}
  BY <1>2 DEF CallsKept, Sound, TargetsOK, CallersOK
<1>3. ASSUME NEW z \in Thread, z # u
      PROVE  Deleting(c2, a2, z) <=> Deleting(c, a, z)
  BY <1>3 DEF Deleting, DeleteLabel, TargetLabel, CallsKept
<1>4. TargetsOK(y, c2, a2)
  <2>. SUFFICES ASSUME NEW v \in Thread, c2[v] \in TargetLabel
                PROVE  TargetOK(y, c2[v], a2[v]) /\ c2[a2[v]] \notin TargetLabel
    BY DEF TargetsOK
  <2>1. CASE a2[v] = u
    BY <2>1 DEF CallsAbout
  <2>2. CASE a2[v] # u
    <3> DEFINE z == a2[v]
    <3>1. z \in Thread /\ z # u /\ c2[v] = c[v] /\ TargetOK(x, c[v], z) /\ c[z] \notin TargetLabel
      BY <1>2, <2>2
    <3> HIDE DEF z
    <3>2. TargetOK(y, c2[v], z)
      BY <3>1 DEF TargetOK, Untouched, Unlinked
    <3>3. c2[z] \notin TargetLabel
      <4>. SUFFICES ASSUME c2[z] \in TargetLabel PROVE FALSE
        OBVIOUS
      <4>1. a2[z] = u
        BY <3>1 DEF CallsKept
      <4>2. z = x.cur
        BY <3>1, <4>1 DEF CallsAbout
      <4>. QED BY <3>1, <4>2 DEF TargetOK
    <3>. QED BY <3>2, <3>3 DEF z
  <2>. QED BY <2>1, <2>2
<1>5. CallersOK(y, c2)
  <2>. SUFFICES ASSUME NEW v \in Thread, c2[v] \in TargetLabel
                PROVE  y.stat[v] \in {"READY", "RUNNING"}
    BY DEF CallersOK
  <2>1. CASE v = u \/ a2[v] = u
    BY <2>1 DEF CallsAbout
  <2>2. CASE v # u /\ a2[v] # u
    BY <1>2, <2>2 DEF Untouched
  <2>. QED BY <2>1, <2>2
<1>6. TargetsDistinct(c2, a2)
  <2>. SUFFICES ASSUME NEW v \in Thread, NEW w \in Thread, c2[v] \in TargetLabel,
                       c2[w] \in TargetLabel, a2[v] = a2[w]
                PROVE  v = w
    BY DEF TargetsDistinct
  <2>1. CASE a2[v] = u
    BY <2>1 DEF CallsAbout
  <2>2. CASE a2[v] # u
    BY <1>2, <2>2 DEF Sound, TargetsDistinct
  <2>. QED BY <2>1, <2>2
<1>7. ReadyOK(y, c2, a2)
  <2>. SUFFICES ASSUME NEW z \in Thread, y.stat[z] = "READY", ~Deleting(c2, a2, z)
                PROVE  Contains(y.ready[y.prio[z]], z)
    BY DEF ReadyOK
  <2>1. CASE z = u
    BY <2>1 DEF Placed
  <2>2. CASE z # u
    BY <1>1, <1>3, <2>2 DEF Untouched, Sound, ReadyOK
  <2>. QED BY <2>1, <2>2
<1>8. DefunctOK(y, c2, a2)
  <2>. SUFFICES ASSUME NEW z \in Thread
                PROVE  /\ Contains(y.wait["defunct"], z) => z \notin Static
                       /\ y.stat[z] = "CLOSE" /\ z \notin Static /\ ~Deleting(c2, a2, z)
                          => Contains(y.wait["defunct"], z)
    BY DEF DefunctOK
  <2>1. CASE z = u
    BY <2>1 DEF Placed
  <2>2. CASE z # u
    <3>1. "defunct" \in Queue
      BY ThreadAssumption
    <3>. QED BY <1>3, <2>2, <3>1 DEF Untouched, Sound, DefunctOK
  <2>. QED BY <2>1, <2>2
<1>. QED BY <1>4, <1>5, <1>6, <1>7, <1>8 DEF Sound

\* The current thread moves on between places outside such calls.
LEMMA PlaceStep ==
  ASSUME NEW x, NEW c, NEW a, Sound(x, c, a), NEW t \in Thread, c[t] \notin TargetLabel,
         NEW l \in Label \ TargetLabel, NEW u \in Thread,
         NEW c2, c2 = [c EXCEPT ![t] = l], NEW a2, a2 = [a EXCEPT ![t] = u],
         CurOK(x, c2), IdleOK(x, c2)
  PROVE  Sound(x, c2, a2)
<1>1. /\ c \in [Thread -> Label] /\ a \in [Thread -> Thread] /\ KernelSound(x)
      /\ c2 \in [Thread -> Label] /\ a2 \in [Thread -> Thread]
      /\ c2[t] = l /\ \A v \in Thread : v # t => c2[v] = c[v] /\ a2[v] = a[v]
  BY DEF Sound
<1>2. Untouched(x, x, t)
  BY DEF Untouched
<1>3. CallsKept(c, a, c2, a2, t)
  BY <1>1 DEF CallsKept
<1>4. ASSUME NEW v \in Thread, c2[v] \in TargetLabel
      PROVE  v # t /\ c2[v] = c[v] /\ a2[v] = a[v] /\ c[v] \in TargetLabel
  BY <1>1, <1>4
<1>5. CallsAbout(x, x, c, c2, a2, t)
  <2>1. ASSUME NEW v \in Thread, c2[v] \in TargetLabel, a2[v] = t
        PROVE  /\ TargetOK(x, c2[v], t) /\ c2[t] \notin TargetLabel
               /\ x.stat[v] \in {"READY", "RUNNING"} /\ c[v] \in TargetLabel
    BY <2>1, <1>1, <1>4 DEF Sound, TargetsOK, CallersOK
  <2>2. ASSUME NEW v \in Thread, NEW w \in Thread, c2[v] \in TargetLabel, a2[v] = t,
               c2[w] \in TargetLabel, a2[w] = t
        PROVE  v = w
    BY <2>2, <1>4 DEF Sound, TargetsDistinct
  <2>3. c2[t] \notin TargetLabel
    BY <1>1
  <2>. QED BY ONLY <2>1, <2>2, <2>3 DEF CallsAbout
<1>6. ASSUME Deleting(c, a, t) PROVE Deleting(c2, a2, t)
  BY <1>1, <1>6 DEF Deleting, DeleteLabel, TargetLabel
<1>7. Placed(x, c2, a2, t)
  BY <1>6 DEF Placed, Sound, ReadyOK, DefunctOK
<1>. QED BY <1>1, <1>2, <1>3, <1>5, <1>7, LocalStep

\* rt_schedule keeps the invariant, and a thread that cannot go on leaves the CPU.
LEMMA ScheduleStep ==
  ASSUME NEW x, NEW c, NEW a, Sound(x, c, a), NEW r, r = rt_schedule(x)
  PROVE  /\ Sound(r, c, a)
         /\ r.cur = x.cur => r = x /\ (x.stat[x.cur] = "RUNNING" \/ x.lock # 0)
<1>0. KernelSound(x)
  BY DEF Sound
<1>1. /\ KernelSound(r)
      /\ \/ r = x /\ (x.lock # 0 \/ x.group = {} \/ x.stat[x.cur] = "RUNNING")
         \/ /\ x.lock = 0 /\ Switched(x, r)
            /\ \A p \in x.group : x.prio[r.cur] <= p
  BY <1>0, ScheduleLemma
<1>2. x.stat[x.cur] # "RUNNING" => x.group # {}
  <2>. SUFFICES ASSUME x.stat[x.cur] # "RUNNING" PROVE x.group # {}
    OBVIOUS
  <2>1. Idle \in Thread
    BY ThreadAssumption
  <2>2. ~Deleting(c, a, Idle)
    BY DEF Deleting, Sound, TargetsOK, TargetOK, DeleteLabel, TargetLabel
  <2>3. x.stat[Idle] = "READY"
    BY <2>1 DEF Sound, IdleOK, KernelSound
  <2>4. Contains(x.ready[x.prio[Idle]], Idle)
    BY <2>1, <2>2, <2>3 DEF Sound, ReadyOK
  <2>5. x.prio[Idle] \in Prio /\ x.ready[x.prio[Idle]] \in Seq(Thread)
    BY <2>1 DEF Sound, KernelSound, Kernel
  <2>6. x.ready[x.prio[Idle]] # << >>
    BY <2>4, <2>5, EmptyLemma
  <2>. QED BY <2>5, <2>6 DEF Sound, KernelSound, ListsSound
<1>3. CASE r = x /\ (x.lock # 0 \/ x.group = {} \/ x.stat[x.cur] = "RUNNING")
  BY <1>1, <1>2, <1>3
<1>4. CASE Switched(x, r)
  <2>1. /\ r.wait = x.wait /\ r.prio = x.prio /\ r.timer = x.timer /\ r.lock = x.lock
        /\ r.cur \in Thread /\ r.cur # x.cur
        /\ x.stat[r.cur] = "READY" /\ Contains(x.ready[x.prio[r.cur]], r.cur)
        /\ x.cur \in Thread /\ x.prio \in [Thread -> Prio]
    BY <1>4 DEF Switched, Sound, KernelSound, Kernel
  <2>2. \A t \in Thread : r.stat[t] = IF t = r.cur THEN "RUNNING"
                                      ELSE IF t = x.cur /\ x.stat[t] = "RUNNING"
                                      THEN "READY" ELSE x.stat[t]
    BY <1>4 DEF Switched
  <2>3. \A p \in Prio : \A z : Contains(r.ready[p], z) <=>
          \/ Contains(x.ready[p], z) /\ z # r.cur
          \/ z = x.cur /\ x.stat[z] = "RUNNING" /\ p = x.prio[z]
    BY <1>4 DEF Switched
  <2>4. CurOK(r, c)
    BY <2>1, <2>2 DEF CurOK
  <2>5. IdleOK(r, c)
    BY <2>2, ThreadAssumption DEF Sound, IdleOK
  <2>6. CallersOK(r, c)
    BY <2>2 DEF Sound, CallersOK
  <2>7. TargetsOK(r, c, a)
    <3>. SUFFICES ASSUME NEW t \in Thread, c[t] \in TargetLabel
                  PROVE  TargetOK(r, c[t], a[t]) /\ c[a[t]] \notin TargetLabel
      BY DEF TargetsOK
    <3>1. TargetOK(x, c[t], a[t]) /\ c[a[t]] \notin TargetLabel /\ a[t] \in Thread
      BY DEF Sound, TargetsOK
    <3>2. a[t] # x.cur /\ a[t] # r.cur
      BY <2>1, <3>1 DEF TargetOK, Unlinked
    <3>3. Unlinked(r, a[t])
      BY <2>1, <2>3, <3>1, <3>2 DEF TargetOK, Unlinked
    <3>. QED BY <2>1, <2>2, <3>1, <3>2, <3>3 DEF TargetOK
  <2>8. ReadyOK(r, c, a)
    <3>. SUFFICES ASSUME NEW t \in Thread, r.stat[t] = "READY", ~Deleting(c, a, t)
                  PROVE  Contains(r.ready[r.prio[t]], t)
      BY DEF ReadyOK
    <3>1. t # r.cur
      BY <2>2
    <3>2. CASE t = x.cur /\ x.stat[t] = "RUNNING"
      BY <2>1, <2>3, <3>2
    <3>3. CASE ~(t = x.cur /\ x.stat[t] = "RUNNING")
      <4>1. x.stat[t] = "READY"
        BY <2>2, <3>1, <3>3
      <4>2. Contains(x.ready[x.prio[t]], t)
        BY <4>1 DEF Sound, ReadyOK
      <4>. QED BY <2>1, <2>3, <3>1, <4>2
    <3>. QED BY <3>2, <3>3
  <2>9. DefunctOK(r, c, a)
    BY <2>1, <2>2 DEF Sound, DefunctOK
  <2>10. Sound(r, c, a)
    BY <1>1, <2>4, <2>5, <2>6, <2>7, <2>8, <2>9 DEF Sound
  <2>. QED BY <2>1, <2>10
<1>. QED BY <1>1, <1>3, <1>4

\* Waking a suspended thread keeps the invariant.
LEMMA AwakenStep ==
  ASSUME NEW x, NEW c, NEW a, Sound(x, c, a), NEW t \in Thread, x.stat[t] = "SUSPEND",
         x.timer[t] \/ ~Unlinked(x, t),
         NEW r, KernelSound(r), Awakened(x, t, r)
  PROVE  Sound(r, c, a)
<1>1. /\ x \in Kernel /\ x.cur \in Thread /\ c \in [Thread -> Label] /\ a \in [Thread -> Thread]
      /\ x.stat \in [Thread -> Stat] /\ x.timer \in [Thread -> BOOLEAN] /\ x.prio \in [Thread -> Prio]
  BY DEF Sound, KernelSound, Kernel
<1>2. \A v \in Thread : c[v] \in TargetLabel => a[v] # t
  BY DEF Sound, TargetsOK, TargetOK
<1>3. c[t] \notin TargetLabel
  BY DEF Sound, CallersOK
<1>4. /\ r.cur = x.cur /\ r.prio = x.prio /\ r.lock = x.lock
      /\ \A z \in Thread : z # t => r.stat[z] = x.stat[z] /\ r.timer[z] = x.timer[z]
      /\ r.stat[t] = IF t = x.cur THEN "RUNNING" ELSE "READY"
  BY <1>1 DEF Awakened
<1>5. Untouched(x, r, t)
  BY <1>4 DEF Awakened, Untouched
<1>6. CallsKept(c, a, c, a, t)
  BY DEF CallsKept
<1>7. CallsAbout(x, r, c, c, a, t)
  BY ONLY <1>2, <1>3 DEF CallsAbout
<1>8. Placed(r, c, a, t)
  <2>1. r.stat[t] # "CLOSE" /\ "defunct" \in Queue
    BY <1>4, ThreadAssumption
  <2>2. ~Contains(r.wait["defunct"], t)
    BY <2>1 DEF Awakened
  <2>3. r.stat[t] = "READY" => Contains(r.ready[r.prio[t]], t)
    BY <1>1, <1>4 DEF Awakened
  <2>. QED BY <2>1, <2>2, <2>3 DEF Placed
<1>9. CurOK(r, c)
  BY <1>1, <1>4 DEF Sound, CurOK
<1>10. IdleOK(r, c)
  BY <1>4, ThreadAssumption DEF Sound, IdleOK
<1>. QED BY <1>1, <1>5, <1>6, <1>7, <1>8, <1>9, <1>10, LocalStep

\* The types the invariant implies.
LEMMA Basics ==
  ASSUME IInv
  PROVE  /\ KernelSound(k) /\ k \in Kernel /\ ListsSound(k)
         /\ k.cur \in Thread /\ k.stat \in [Thread -> Stat] /\ k.prio \in [Thread -> Prio]
         /\ k.timer \in [Thread -> BOOLEAN] /\ k.error \in [Thread -> Error] /\ k.lock \in Nat
         /\ pc \in [Thread -> Label] /\ arg \in [Thread -> Thread]
         /\ Idle \in Thread /\ "ipc" \in Queue /\ "defunct" \in Queue
<1>1. /\ KernelSound(k) /\ pc \in [Thread -> Label] /\ arg \in [Thread -> Thread]
  BY DEF IInv, Sound
<1>2. k \in Kernel /\ ListsSound(k)
  BY <1>1 DEF KernelSound
<1>3. /\ k.cur \in Thread /\ k.stat \in [Thread -> Stat] /\ k.prio \in [Thread -> Prio]
      /\ k.timer \in [Thread -> BOOLEAN] /\ k.error \in [Thread -> Error] /\ k.lock \in Nat
  BY <1>2 DEF Kernel
<1>. QED BY <1>1, <1>2, <1>3, ThreadAssumption

\* A thread that is not on its way to rt_schedule runs.
LEMMA CallerRuns ==
  ASSUME IInv, pc[k.cur] \notin {"blocked", "sched"}
  PROVE  k.stat[k.cur] = "RUNNING"
BY DEF IInv, Sound, CurOK

\* The current thread begins a call about u, or goes on with one.
LEMMA CallStep ==
  ASSUME IInv, k.stat[k.cur] = "RUNNING",
         NEW u \in Thread, NEW l \in TargetLabel, k.cur = Idle => l = "free",
         pc[k.cur] \in TargetLabel => arg[k.cur] = u,
         \A v \in Thread : v # k.cur /\ pc[v] \in TargetLabel => arg[v] # u,
         pc[u] \notin TargetLabel,
         NEW y, KernelSound(y), Untouched(k, y, u), TargetOK(y, l, u),
         NEW c2, c2 = [pc EXCEPT ![k.cur] = l], NEW a2, a2 = [arg EXCEPT ![k.cur] = u]
  PROVE  Sound(y, c2, a2)
<1>0. /\ k.cur \in Thread /\ pc \in [Thread -> Label] /\ arg \in [Thread -> Thread]
      /\ Idle \in Thread
  BY Basics
<1>1. /\ c2 \in [Thread -> Label] /\ a2 \in [Thread -> Thread]
      /\ c2[k.cur] = l /\ a2[k.cur] = u
      /\ \A v \in Thread : v # k.cur => c2[v] = pc[v] /\ a2[v] = arg[v]
  BY <1>0 DEF TargetLabel, Label
<1>2. y.cur = k.cur /\ u # k.cur /\ u # Idle /\ Unlinked(y, u) /\ y.stat[u] \in TargetStat(l)
  BY DEF Untouched, TargetOK
<1>3. y.stat[k.cur] = "RUNNING" /\ y.stat[Idle] = k.stat[Idle]
  BY <1>0, <1>2 DEF Untouched
<1>4. CallsKept(pc, arg, c2, a2, u)
  BY <1>0, <1>1 DEF CallsKept
<1>5. CallsAbout(k, y, pc, c2, a2, u)
  <2>1. \A v \in Thread : c2[v] \in TargetLabel /\ a2[v] = u => v = k.cur
    BY <1>1
  <2>2. c2[u] \notin TargetLabel
    BY <1>1, <1>2
  <2>. QED BY <1>1, <1>3, <2>1, <2>2 DEF CallsAbout
<1>6. Placed(y, c2, a2, u)
  <2>1. l \in DeleteLabel => Deleting(c2, a2, u)
    BY <1>0, <1>1 DEF Deleting
  <2>2. l \notin DeleteLabel => y.stat[u] = "SUSPEND"
    BY <1>2 DEF TargetStat, TargetLabel, DeleteLabel
  <2>3. ~Contains(y.wait["defunct"], u)
    BY <1>2, ThreadAssumption DEF Unlinked
  <2>. QED BY <2>1, <2>2, <2>3 DEF Placed
<1>7. CurOK(y, c2)
  BY <1>2, <1>3 DEF CurOK
<1>8. IdleOK(y, c2)
  BY <1>0, <1>1, <1>3 DEF IInv, Sound, IdleOK
<1>. QED BY <1>1, <1>4, <1>5, <1>6, <1>7, <1>8, LocalStep DEF IInv

\* The current thread ends a call about u.
LEMMA EndStep ==
  ASSUME IInv, NEW u \in Thread, pc[k.cur] \in TargetLabel, arg[k.cur] = u,
         NEW y, KernelSound(y), Untouched(k, y, u),
         y.stat[u] = "READY" => Contains(y.ready[y.prio[u]], u),
         Contains(y.wait["defunct"], u) => u \notin Static,
         y.stat[u] = "CLOSE" /\ u \notin Static => Contains(y.wait["defunct"], u),
         NEW c2 \in [Thread -> Label], NEW a2 \in [Thread -> Thread],
         \A v \in Thread : v # k.cur /\ v # u => c2[v] = pc[v],
         \A v \in Thread : v # k.cur => a2[v] = arg[v],
         c2[k.cur] \notin TargetLabel, c2[u] \notin TargetLabel, IdleOK(y, c2)
  PROVE  Sound(y, c2, a2)
<1>0. /\ k.cur \in Thread /\ pc \in [Thread -> Label] /\ arg \in [Thread -> Thread]
  BY Basics
<1>1. /\ u # k.cur /\ pc[u] \notin TargetLabel
  BY <1>0 DEF IInv, Sound, TargetsOK, TargetOK
<1>2. \A v \in Thread : v # k.cur /\ pc[v] \in TargetLabel => arg[v] # u
  BY <1>0 DEF IInv, Sound, TargetsDistinct
<1>3. \A v \in Thread : c2[v] \in TargetLabel => /\ v # k.cur /\ v # u
                                                /\ c2[v] = pc[v] /\ a2[v] = arg[v]
  BY <1>0
<1>4. \A v \in Thread : pc[v] \in TargetLabel /\ v # k.cur => c2[v] = pc[v] /\ a2[v] = arg[v]
  BY <1>1
<1>5. CallsKept(pc, arg, c2, a2, u)
  BY <1>0, <1>3, <1>4 DEF CallsKept
<1>6. CallsAbout(k, y, pc, c2, a2, u)
  <2>1. \A v \in Thread : c2[v] \in TargetLabel => a2[v] # u
    BY <1>2, <1>3
  <2>. QED BY ONLY <2>1, c2[u] \notin TargetLabel DEF CallsAbout
<1>7. Placed(y, c2, a2, u)
  BY DEF Placed
<1>8. CurOK(y, c2)
  <2>1. k.stat[k.cur] = "RUNNING"
    BY CallerRuns DEF TargetLabel
  <2>. QED BY <1>0, <1>1, <2>1 DEF Untouched, CurOK
<1>. QED BY <1>5, <1>6, <1>7, <1>8, LocalStep DEF IInv

\* A step that changes neither lists nor states nor timers.
LEMMA NeutralStep ==
  ASSUME NEW x, NEW c, NEW a, Sound(x, c, a), NEW y \in Kernel, SameLists(x, y),
         y.stat = x.stat, y.prio = x.prio, y.timer = x.timer,
         y.lock = x.lock \/ x.stat[x.cur] = "RUNNING"
  PROVE  Sound(y, c, a)
<1>1. y.ready = x.ready /\ y.group = x.group /\ y.wait = x.wait /\ y.cur = x.cur
  BY DEF SameLists
<1>2. ListsSound(y)
  <2>1. ListsSound(x)
    BY DEF Sound, KernelSound
  <2>. QED BY ONLY <1>1, <2>1, y.stat = x.stat, y.prio = x.prio DEF ListsSound
<1>3. KernelSound(y)
  BY <1>1, <1>2 DEF Sound, KernelSound
<1>4. CurOK(y, c) /\ IdleOK(y, c)
  BY <1>1 DEF Sound, CurOK, IdleOK
<1>5. TargetsOK(y, c, a) /\ CallersOK(y, c)
  BY <1>1 DEF Sound, TargetsOK, TargetOK, Unlinked, CallersOK
<1>6. ReadyOK(y, c, a) /\ DefunctOK(y, c, a)
  BY <1>1 DEF Sound, ReadyOK, DefunctOK
<1>. QED BY <1>3, <1>4, <1>5, <1>6 DEF Sound

\* A step of the current thread about itself.
LEMMA SelfStep ==
  ASSUME IInv, k.cur # Idle, pc[k.cur] \notin TargetLabel,
         NEW y, KernelSound(y), Untouched(k, y, k.cur),
         NEW l \in Label \ TargetLabel,
         NEW c2, c2 = [pc EXCEPT ![k.cur] = l],
         NEW a2, a2 = [arg EXCEPT ![k.cur] = k.cur],
         y.stat[k.cur] # "READY",
         Contains(y.wait["defunct"], k.cur) => k.cur \notin Static,
         y.stat[k.cur] = "CLOSE" /\ k.cur \notin Static => Contains(y.wait["defunct"], k.cur),
         CurOK(y, c2)
  PROVE  Sound(y, c2, a2)
<1>0. /\ k.cur \in Thread /\ pc \in [Thread -> Label] /\ arg \in [Thread -> Thread]
      /\ Idle \in Thread
  BY Basics
<1>1. /\ c2 \in [Thread -> Label] /\ a2 \in [Thread -> Thread] /\ c2[k.cur] \notin TargetLabel
      /\ \A v \in Thread : v # k.cur => c2[v] = pc[v] /\ a2[v] = arg[v]
  BY <1>0
<1>2. \A v \in Thread : c2[v] \in TargetLabel => v # k.cur /\ pc[v] \in TargetLabel /\ a2[v] # k.cur
  <2>1. \A v \in Thread : pc[v] \in TargetLabel => arg[v] # k.cur
    BY DEF IInv, Sound, TargetsOK, TargetOK
  <2>. QED BY ONLY <1>0, <1>1, <2>1
<1>3. CallsKept(pc, arg, c2, a2, k.cur)
  BY <1>1 DEF CallsKept
<1>4. CallsAbout(k, y, pc, c2, a2, k.cur)
  BY ONLY <1>1, <1>2 DEF CallsAbout
<1>5. Placed(y, c2, a2, k.cur)
  BY DEF Placed
<1>6. IdleOK(y, c2)
  BY <1>0, <1>1 DEF IInv, Sound, IdleOK, Untouched
<1>. QED BY <1>0, <1>1, <1>3, <1>4, <1>5, <1>6, LocalStep DEF IInv

\* A thread that executes its own code is RUNNING, and so is the idle thread when
\* it is the current one.
LEMMA RunsOwnCode ==
  ASSUME IInv, pc[k.cur] = "run" \/ pc[k.cur] = "slept" \/ k.cur = Idle
  PROVE  k.stat[k.cur] = "RUNNING"
<1>1. CurOK(k, pc) /\ IdleOK(k, pc)
  BY DEF IInv, Sound
<1>. QED BY <1>1 DEF CurOK, IdleOK

\* A thread no call is about.
LEMMA Untargeted ==
  ASSUME NEW u \in Thread, ~Targeted(u)
  PROVE  \A v \in Thread : pc[v] \in TargetLabel => arg[v] # u
BY DEF Targeted, TargetLabel

-----------------------------------------------------------------------------
(* The calls about another thread *)

\* The system starts in a sound state.
LEMMA InitSound == Init => IInv
<1>. SUFFICES ASSUME Init PROVE IInv
  OBVIOUS
<1>1. /\ Idle \in Thread /\ Main \in Thread /\ Main # Idle
      /\ InitPrio \in [Thread -> Prio] /\ InitPrio[Idle] \in Prio /\ InitTick \in 1 .. InitTick
  BY ThreadAssumption, InitPrioAssumption, TickAssumption
<1>2. /\ <<Idle>> \in Seq(Thread) /\ IsInjective(<<Idle>>) /\ <<Idle>> # << >>
      /\ \A x : Contains(<<Idle>>, x) <=> x = Idle
  BY <1>1 DEF IsInjective, Contains
<1>3. << >> \in Seq(Thread) /\ IsInjective(<< >>) /\ \A x : ~Contains(<< >>, x)
  BY DEF IsInjective, Contains
<1>4. /\ k.cur = Main /\ k.lock = 0 /\ k.prio = InitPrio /\ k.group = {InitPrio[Idle]}
      /\ \A p \in Prio : k.ready[p] = IF p = InitPrio[Idle] THEN <<Idle>> ELSE << >>
      /\ \A q \in Queue : k.wait[q] = << >>
      /\ \A t \in Thread : /\ k.stat[t] = IF t = Main THEN "RUNNING"
                                          ELSE IF t = Idle THEN "READY" ELSE "NONE"
                           /\ k.timer[t] = FALSE
  BY DEF Init
<1>5. k \in Kernel
  <2>1. [p \in Prio |-> IF p = InitPrio[Idle] THEN <<Idle>> ELSE << >>] \in [Prio -> Seq(Thread)]
    BY <1>2, <1>3
  <2>2. [q \in Queue |-> << >>] \in [Queue -> Seq(Thread)]
    BY <1>3
  <2>3. [t \in Thread |-> IF t = Main THEN "RUNNING"
                          ELSE IF t = Idle THEN "READY" ELSE "NONE"] \in [Thread -> Stat]
    BY DEF Stat
  <2>4. /\ [t \in Thread |-> "EOK"] \in [Thread -> Error]
        /\ [t \in Thread |-> InitTick] \in [Thread -> 1 .. InitTick]
        /\ [t \in Thread |-> FALSE] \in [Thread -> BOOLEAN]
    BY <1>1 DEF Error
  <2>. QED BY <1>1, <2>1, <2>2, <2>3, <2>4 DEF Init, Kernel
<1>6. ListsSound(k)
  <2>1. ASSUME NEW p \in Prio
        PROVE  /\ IsInjective(k.ready[p])
               /\ \A t \in Thread : Contains(k.ready[p], t) => k.stat[t] = "READY" /\ k.prio[t] = p
               /\ p \in k.group <=> k.ready[p] # << >>
    BY <1>1, <1>2, <1>3, <1>4
  <2>2. ASSUME NEW q \in Queue
        PROVE  /\ IsInjective(k.wait[q])
               /\ \A t \in Thread : Contains(k.wait[q], t) => k.stat[t] = QueueStat(q)
    BY <1>3, <1>4
  <2>. QED BY <2>1, <2>2 DEF ListsSound
<1>7. KernelSound(k)
  BY <1>1, <1>4, <1>5, <1>6 DEF KernelSound
<1>8. /\ pc \in [Thread -> Label] /\ arg \in [Thread -> Thread] /\ pc[Idle] = "run"
      /\ \A t \in Thread : pc[t] \notin TargetLabel
  BY <1>1 DEF Init, Label, TargetLabel
<1>9. ReadyOK(k, pc, arg)
  BY <1>1, <1>2, <1>4 DEF ReadyOK
<1>10. DefunctOK(k, pc, arg)
  <2>1. "defunct" \in Queue
    BY ThreadAssumption
  <2>. QED BY <1>3, <1>4, <2>1 DEF DefunctOK
<1>11. CurOK(k, pc) /\ IdleOK(k, pc)
  BY <1>1, <1>4, <1>8 DEF CurOK, IdleOK
<1>12. TargetsOK(k, pc, arg) /\ CallersOK(k, pc) /\ TargetsDistinct(pc, arg)
  BY <1>8 DEF TargetsOK, CallersOK, TargetsDistinct
<1>. QED BY <1>7, <1>8, <1>9, <1>10, <1>11, <1>12 DEF IInv, Sound

\* What _rt_thread_init and the end of an object do to the kernel.
Renewed(x, u, s, y) ==
  /\ y \in Kernel /\ SameLists(x, y) /\ y.lock = x.lock
  /\ y.stat[u] = s /\ y.timer[u] = FALSE
  /\ \A z \in Thread : z # u => /\ y.stat[z] = x.stat[z] /\ y.prio[z] = x.prio[z]
                                /\ y.timer[z] = x.timer[z]

\* They touch the object alone.
LEMMA FreshLemma ==
  ASSUME NEW x \in Kernel, NEW u \in Thread, NEW s \in Stat, NEW y, y = Fresh(x, u, s)
  PROVE  Renewed(x, u, s, y)
<1> DEFINE st == [x.stat EXCEPT ![u] = s]
           pr == [x.prio EXCEPT ![u] = InitPrio[u]]
           er == [x.error EXCEPT ![u] = "EOK"]
           sl == [x.slice EXCEPT ![u] = InitTick]
           ti == [x.timer EXCEPT ![u] = FALSE]
<1>1. y = [x EXCEPT !.stat = st, !.prio = pr, !.error = er, !.slice = sl, !.timer = ti]
  BY DEF Fresh, Kernel
<1>2. InitPrio[u] \in Prio /\ InitTick \in 1 .. InitTick
  BY InitPrioAssumption, TickAssumption
<1>3. /\ st \in [Thread -> Stat] /\ pr \in [Thread -> Prio] /\ er \in [Thread -> Error]
      /\ ti \in [Thread -> BOOLEAN]
  BY <1>2 DEF Kernel, Error
<1>4. sl \in [Thread -> 1 .. InitTick]
  BY <1>2 DEF Kernel
<1>5. /\ st[u] = s /\ ti[u] = FALSE
      /\ \A z \in Thread : z # u => st[z] = x.stat[z] /\ pr[z] = x.prio[z] /\ ti[z] = x.timer[z]
  BY DEF Kernel
<1> HIDE DEF st, pr, er, sl, ti
<1>6. /\ y \in Kernel /\ SameLists(x, y) /\ y.lock = x.lock
      /\ y.stat = st /\ y.prio = pr /\ y.timer = ti
  BY <1>1, <1>3, <1>4 DEF Kernel, SameLists
<1>. QED BY <1>5, <1>6 DEF Renewed

\* rt_thread_create, rt_thread_init.
LEMMA CreateStep ==
  ASSUME IInv, NEW u \in Thread, Create(u) PROVE IInv'
<1>0. /\ KernelSound(k) /\ k \in Kernel /\ ListsSound(k) /\ k.cur \in Thread
      /\ k.stat \in [Thread -> Stat] /\ pc \in [Thread -> Label] /\ arg \in [Thread -> Thread]
      /\ Idle \in Thread /\ "defunct" \in Queue /\ "ipc" \in Queue
  BY Basics
<1>1. /\ k.stat[u] = "NONE" \/ (u \in Static /\ k.stat[u] = "CLOSE" /\ u # k.cur /\ ~Targeted(u))
      /\ k' = Fresh(k, u, "INIT") /\ pc' = [pc EXCEPT ![u] = "run"] /\ arg' = arg
      /\ pc[k.cur] = "run"
  BY DEF Create, Calls
<1>2. k.stat[k.cur] = "RUNNING" /\ u # k.cur /\ u # Idle /\ pc[u] \notin TargetLabel
  <2>1. k.stat[k.cur] = "RUNNING"
    BY <1>1, CallerRuns
  <2>. QED BY <1>1, <2>1 DEF IInv, Sound, IdleOK, CallersOK
<1>3. \A v \in Thread : pc[v] \in TargetLabel => arg[v] # u
  BY <1>1 DEF IInv, Sound, TargetsOK, TargetOK, TargetStat, Targeted, TargetLabel
<1>4. Unlinked(k, u)
  <2>1. CASE k.stat[u] = "NONE"
    BY <1>0, <2>1, StatUnlinked
  <2>2. CASE u \in Static /\ k.stat[u] = "CLOSE"
    <3>1. ~Contains(k.wait["defunct"], u)
      BY <2>2 DEF IInv, Sound, DefunctOK
    <3>2. \A p \in Prio : ~Contains(k.ready[p], u)
      BY <1>0, <2>2 DEF ListsSound
    <3>3. \A q \in Queue : q # "defunct" => ~Contains(k.wait[q], u)
      BY <1>0, <2>2 DEF ListsSound, QueueStat
    <3>. QED BY <3>1, <3>2, <3>3 DEF Unlinked
  <2>. QED BY <1>1, <2>1, <2>2
<1>5. /\ k' \in Kernel /\ SameLists(k, k') /\ k'.lock = k.lock
      /\ k'.stat[u] = "INIT" /\ k'.timer[u] = FALSE
      /\ \A z \in Thread : z # u => /\ k'.stat[z] = k.stat[z] /\ k'.prio[z] = k.prio[z]
                                    /\ k'.timer[z] = k.timer[z]
  <2>1. k \in Kernel /\ u \in Thread /\ "INIT" \in Stat /\ k' = Fresh(k, u, "INIT")
    BY <1>0, <1>1 DEF Stat
  <2>2. Renewed(k, u, "INIT", k')
    BY ONLY <2>1, FreshLemma
  <2>. QED BY <2>2 DEF Renewed
<1>6. KernelSound(k') /\ Unlinked(k', u)
  BY <1>0, <1>2, <1>4, <1>5, StateChange
<1>7. Untouched(k, k', u)
  BY <1>5 DEF Untouched, SameLists
<1>8. /\ pc' \in [Thread -> Label] /\ arg' \in [Thread -> Thread] /\ pc'[u] \notin TargetLabel
      /\ \A v \in Thread : v # u => pc'[v] = pc[v]
  BY <1>0, <1>1 DEF Label, TargetLabel
<1>9. CallsKept(pc, arg, pc', arg', u)
  BY <1>1, <1>2, <1>8 DEF CallsKept
<1>10. CallsAbout(k, k', pc, pc', arg', u)
  BY <1>1, <1>3, <1>8 DEF CallsAbout
<1>11. Placed(k', pc', arg', u)
  BY <1>0, <1>5, <1>6 DEF Placed, Unlinked
<1>12. CurOK(k', pc') /\ IdleOK(k', pc')
  <2>1. k'.cur = k.cur
    BY <1>5 DEF SameLists
  <2>. QED BY <1>0, <1>2, <1>5, <1>8, <2>1 DEF IInv, Sound, CurOK, IdleOK
<1>. QED BY <1>6, <1>7, <1>8, <1>9, <1>10, <1>11, <1>12, LocalStep DEF IInv

\* rt_thread_startup, up to the end of rt_thread_resume's critical section.
LEMMA StartupStep ==
  ASSUME IInv, NEW u \in Thread, Startup(u) PROVE IInv'
<1>0. /\ KernelSound(k) /\ k \in Kernel /\ ListsSound(k) /\ k.cur \in Thread
      /\ k.stat \in [Thread -> Stat] /\ k.prio \in [Thread -> Prio]
      /\ k.timer \in [Thread -> BOOLEAN] /\ InitPrio[u] \in Prio
  BY Basics, InitPrioAssumption
<1>1. /\ k.stat[u] = "INIT" /\ ~Targeted(u) /\ pc[k.cur] = "run" /\ k.cur # Idle
      /\ k' = [rt_list_remove(k, u) EXCEPT !.prio[u] = InitPrio[u],
                                           !.stat[u] = "SUSPEND", !.timer[u] = FALSE]
      /\ pc' = [pc EXCEPT ![k.cur] = "insert_sched"] /\ arg' = [arg EXCEPT ![k.cur] = u]
  BY DEF Startup, Calls, Call
<1>2. k.stat[k.cur] = "RUNNING" /\ u # k.cur /\ u # Idle /\ pc[u] \notin TargetLabel
  <2>1. k.stat[k.cur] = "RUNNING"
    BY <1>1, CallerRuns
  <2>. QED BY <1>1, <2>1 DEF IInv, Sound, IdleOK, CallersOK
<1>3. Unlinked(k, u)
  BY <1>0, <1>1, StatUnlinked
<1>4. rt_list_remove(k, u) = k
  BY <1>0, <1>3, RemoveUnlinked
<1>5. /\ k' \in Kernel /\ SameLists(k, k') /\ k'.stat[u] = "SUSPEND" /\ k'.timer[u] = FALSE
      /\ \A z \in Thread : z # u => /\ k'.stat[z] = k.stat[z] /\ k'.prio[z] = k.prio[z]
                                    /\ k'.timer[z] = k.timer[z]
  <2> DEFINE st == [k.stat EXCEPT ![u] = "SUSPEND"]
             pr == [k.prio EXCEPT ![u] = InitPrio[u]]
             ti == [k.timer EXCEPT ![u] = FALSE]
  <2>1. k' = [k EXCEPT !.prio = pr, !.stat = st, !.timer = ti]
    BY <1>0, <1>1, <1>4 DEF Kernel
  <2>2. st \in [Thread -> Stat] /\ pr \in [Thread -> Prio] /\ ti \in [Thread -> BOOLEAN]
    BY <1>0 DEF Stat
  <2>3. /\ st[u] = "SUSPEND" /\ ti[u] = FALSE
        /\ \A z \in Thread : z # u => st[z] = k.stat[z] /\ pr[z] = k.prio[z] /\ ti[z] = k.timer[z]
    BY <1>0
  <2> HIDE DEF st, pr, ti
  <2>4. k' \in Kernel /\ SameLists(k, k') /\ k'.stat = st /\ k'.prio = pr /\ k'.timer = ti
    BY ONLY <1>0, <2>1, <2>2 DEF Kernel, SameLists
  <2>. QED BY <2>3, <2>4
<1>6. KernelSound(k') /\ Unlinked(k', u)
  <2>1. KernelSound(k) /\ u \in Thread /\ u # k.cur
    BY <1>0, <1>2
  <2>. QED BY ONLY <1>3, <1>5, <2>1, StateChange
<1>7. Untouched(k, k', u)
  BY <1>5 DEF Untouched, SameLists
<1>8. "insert_sched" \in TargetLabel /\ pc[k.cur] \notin TargetLabel
  BY <1>1 DEF TargetLabel
<1>9. TargetOK(k', "insert_sched", u)
  BY <1>2, <1>5, <1>6 DEF TargetOK, TargetStat, SameLists
<1>10. \A v \in Thread : v # k.cur /\ pc[v] \in TargetLabel => arg[v] # u
  BY <1>1, Untargeted
<1>. QED BY <1>1, <1>2, <1>6, <1>7, <1>8, <1>9, <1>10, CallStep DEF IInv

\* rt_thread_resume by a thread: the test of the target.
LEMMA ResumeStep ==
  ASSUME IInv, ~TimedTargets, NEW u \in Thread, Resume(u) PROVE IInv'
<1>0. /\ KernelSound(k) /\ k \in Kernel /\ ListsSound(k) /\ k.cur \in Thread
      /\ k.timer \in [Thread -> BOOLEAN]
  BY Basics
<1>1. /\ k.stat[u] = "SUSPEND" /\ u # k.cur /\ ~Targeted(u) /\ pc[k.cur] = "run" /\ k.cur # Idle
      /\ ~k.timer[u] /\ ~Contains(k.wait["ipc"], u) /\ k' = k
      /\ pc' = [pc EXCEPT ![k.cur] = "resume"] /\ arg' = [arg EXCEPT ![k.cur] = u]
  BY DEF Resume, Calls, Call
<1>2. k.stat[k.cur] = "RUNNING" /\ u # Idle /\ pc[u] \notin TargetLabel
  <2>1. k.stat[k.cur] = "RUNNING"
    BY <1>1, CallerRuns
  <2>. QED BY <1>1, <2>1 DEF IInv, Sound, IdleOK, CallersOK
<1>3. Unlinked(k, u)
  <2>1. \A p \in Prio : ~Contains(k.ready[p], u)
    BY <1>0, <1>1 DEF ListsSound
  <2>2. \A q \in Queue : ~Contains(k.wait[q], u)
    <3>1. Queue = {"ipc", "defunct"}
      BY ThreadAssumption
    <3>2. ~Contains(k.wait["defunct"], u)
      BY <1>0, <1>1, <3>1 DEF ListsSound, QueueStat
    <3>. QED BY <1>1, <3>1, <3>2
  <2>. QED BY <2>1, <2>2 DEF Unlinked
<1>4. Untouched(k, k', u)
  BY <1>1 DEF Untouched
<1>5. "resume" \in TargetLabel /\ pc[k.cur] \notin TargetLabel
  BY <1>1 DEF TargetLabel
<1>6. TargetOK(k', "resume", u)
  BY <1>0, <1>1, <1>2, <1>3 DEF TargetOK, TargetStat
<1>7. \A v \in Thread : v # k.cur /\ pc[v] \in TargetLabel => arg[v] # u
  BY <1>1, Untargeted
<1>. QED BY <1>0, <1>1, <1>2, <1>4, <1>5, <1>6, <1>7, CallStep DEF IInv

\* The insertion of the target into the ready list.
LEMMA InsertStep ==
  ASSUME IInv, Insert PROVE IInv'
<1> DEFINE u == arg[k.cur]
<1>0. /\ KernelSound(k) /\ k \in Kernel /\ k.cur \in Thread /\ Idle \in Thread
      /\ k.stat \in [Thread -> Stat] /\ k.prio \in [Thread -> Prio]
      /\ pc \in [Thread -> Label] /\ arg \in [Thread -> Thread]
      /\ "defunct" \in Queue
  BY Basics
<1>1. /\ pc[k.cur] \in {"insert", "insert_sched"}
      /\ k' = rt_schedule_insert_thread(k, u)
      /\ pc' = [pc EXCEPT ![k.cur] = IF pc[k.cur] = "insert" THEN "run" ELSE "sched"]
      /\ arg' = [arg EXCEPT ![k.cur] = k.cur]
  BY DEF Insert, Goto, Call
<1>2. u \in Thread /\ pc[k.cur] \in TargetLabel /\ k.cur # Idle
  BY <1>0, <1>1 DEF TargetLabel, IInv, Sound, IdleOK
<1>3. /\ u # k.cur /\ u # Idle /\ Unlinked(k, u) /\ ~k.timer[u] /\ k.stat[u] = "SUSPEND"
      /\ pc[u] \notin TargetLabel
  BY <1>0, <1>1, <1>2 DEF IInv, Sound, TargetsOK, TargetOK, TargetStat
<1> HIDE DEF u
<1>4. /\ KernelSound(k')
      /\ k'.wait = k.wait /\ k'.cur = k.cur /\ k'.prio = k.prio /\ k'.error = k.error
      /\ k'.slice = k.slice /\ k'.timer = k.timer /\ k'.lock = k.lock
      /\ k'.stat = [k.stat EXCEPT ![u] = "READY"]
      /\ \A p \in Prio : \A x : Contains(k'.ready[p], x)
                                  <=> Contains(k.ready[p], x) \/ (x = u /\ p = k.prio[u])
  <2>1. /\ KernelSound(k) /\ u \in Thread /\ Unlinked(k, u) /\ u # k.cur /\ ~k.timer[u]
        /\ k' = rt_schedule_insert_thread(k, u)
    BY <1>0, <1>1, <1>2, <1>3
  <2>2. KernelSound(k') /\ Inserted(k, u, k')
    BY ONLY <2>1, InsertSound
  <2>. QED BY ONLY <2>2 DEF Inserted
<1>5. k'.stat[u] = "READY" /\ \A z \in Thread : z # u => k'.stat[z] = k.stat[z]
  BY <1>0, <1>2, <1>4
<1>6. Untouched(k, k', u)
  BY <1>4, <1>5 DEF Untouched
<1>7. Contains(k'.ready[k'.prio[u]], u) /\ ~Contains(k'.wait["defunct"], u)
  BY <1>0, <1>2, <1>3, <1>4 DEF Unlinked
<1>8. /\ pc' \in [Thread -> Label] /\ arg' \in [Thread -> Thread]
      /\ \A v \in Thread : v # k.cur => pc'[v] = pc[v] /\ arg'[v] = arg[v]
      /\ pc'[k.cur] \notin TargetLabel /\ pc'[u] \notin TargetLabel
  BY <1>0, <1>1, <1>2, <1>3 DEF Label, TargetLabel
<1>9. IdleOK(k', pc')
  BY <1>0, <1>2, <1>3, <1>5, <1>8 DEF IInv, Sound, IdleOK
<1>10. arg[k.cur] = u
  BY DEF u
<1>11. Sound(k', pc', arg')
  <2>1. k'.stat[u] # "CLOSE" /\ KernelSound(k')
    BY <1>4, <1>5
  <2>. QED BY <2>1, <1>2, <1>6, <1>7, <1>8, <1>9, <1>10, EndStep
<1>. QED BY <1>11 DEF IInv

\* rt_thread_delete: the target leaves its list.
LEMMA DeleteStep ==
  ASSUME IInv, ~TimedTargets, NEW u \in Thread, Delete(u) PROVE IInv'
<1>0. /\ KernelSound(k) /\ k \in Kernel /\ ListsSound(k) /\ k.cur \in Thread
      /\ k.timer \in [Thread -> BOOLEAN]
  BY Basics
<1>1. /\ u # k.cur /\ u # Idle /\ ~Targeted(u) /\ pc[k.cur] = "run" /\ k.cur # Idle
      /\ k.stat[u] \in {"INIT", "READY", "SUSPEND"} /\ k.timer[u] = FALSE
      /\ pc[u] \in {"run", "sched", "blocked", "slept"}
      /\ k' = IF k.stat[u] = "INIT" THEN k ELSE rt_schedule_remove_thread(k, u)
      /\ pc' = [pc EXCEPT ![k.cur] = "del_timer"] /\ arg' = [arg EXCEPT ![k.cur] = u]
  BY <1>0 DEF Delete, Calls, Call
<1>2. /\ k.stat[k.cur] = "RUNNING" /\ pc[u] \notin TargetLabel /\ pc[k.cur] \notin TargetLabel
      /\ "del_timer" \in TargetLabel
  BY <1>1, CallerRuns DEF TargetLabel
<1>3. /\ KernelSound(k') /\ Unlinked(k', u) /\ Untouched(k, k', u)
      /\ k'.cur = k.cur /\ k'.stat = k.stat /\ k'.timer = k.timer
  <2>1. CASE k.stat[u] = "INIT"
    <3>1. k' = k /\ Unlinked(k, u)
      BY <1>0, <1>1, <2>1, StatUnlinked
    <3>. QED BY <1>0, <3>1 DEF Untouched
  <2>2. CASE k.stat[u] # "INIT"
    <3>1. KernelSound(k') /\ Unlinked(k', u) /\ Removed(k, u, k')
      BY <1>0, <1>1, <2>2, RemoveSound
    <3>2. Untouched(k, k', u)
      BY <3>1 DEF Removed, Untouched
    <3>. QED BY <3>1, <3>2 DEF Removed
  <2>. QED BY <2>1, <2>2
<1>4. TargetOK(k', "del_timer", u)
  BY <1>1, <1>3 DEF TargetOK, TargetStat
<1>5. \A v \in Thread : v # k.cur /\ pc[v] \in TargetLabel => arg[v] # u
  BY <1>1, Untargeted
<1>. QED BY <1>1, <1>2, <1>3, <1>4, <1>5, CallStep DEF IInv

\* What a thread in the middle of a call knows of its target.
LEMMA TargetFacts ==
  ASSUME IInv, pc[k.cur] \in TargetLabel
  PROVE  /\ arg[k.cur] \in Thread /\ k.stat[k.cur] = "RUNNING"
         /\ TargetOK(k, pc[k.cur], arg[k.cur]) /\ pc[arg[k.cur]] \notin TargetLabel
         /\ \A v \in Thread : v # k.cur /\ pc[v] \in TargetLabel => arg[v] # arg[k.cur]
<1>1. k.cur \in Thread /\ arg \in [Thread -> Thread]
  BY Basics
<1>2. k.stat[k.cur] = "RUNNING"
  BY CallerRuns DEF TargetLabel
<1>. QED BY <1>1, <1>2 DEF IInv, Sound, TargetsOK, TargetsDistinct

\* A change of the target's state alone.
LEMMA TargetChange ==
  ASSUME IInv, pc[k.cur] \in TargetLabel, NEW u, u = arg[k.cur],
         NEW y \in Kernel, SameLists(k, y),
         \A z \in Thread : z # u => /\ y.stat[z] = k.stat[z] /\ y.prio[z] = k.prio[z]
                                    /\ y.timer[z] = k.timer[z],
         y.timer[u] = FALSE, y.stat[u] # "RUNNING"
  PROVE  KernelSound(y) /\ Unlinked(y, u) /\ Untouched(k, y, u) /\ y.cur = k.cur
<1>1. /\ u \in Thread /\ u # k.cur /\ Unlinked(k, u) /\ KernelSound(k)
  BY TargetFacts, Basics DEF TargetOK
<1>2. KernelSound(y) /\ Unlinked(y, u)
  <2>1. /\ y \in Kernel /\ SameLists(k, y) /\ y.timer[u] = FALSE /\ y.stat[u] # "RUNNING"
        /\ \A z \in Thread : z # u => /\ y.stat[z] = k.stat[z] /\ y.prio[z] = k.prio[z]
                                      /\ y.timer[z] = k.timer[z]
    OBVIOUS
  <2>. QED BY ONLY <1>1, <2>1, StateChange
<1>3. Untouched(k, y, u) /\ y.cur = k.cur
  BY DEF Untouched, SameLists
<1>. QED BY <1>2, <1>3

\* rt_thread_resume by a thread finds the target as the test left it.
LEMMA ResumeUnlinkStep ==
  ASSUME IInv, ResumeUnlink PROVE IInv'
<1> DEFINE u == arg[k.cur]
<1>0. /\ KernelSound(k) /\ k \in Kernel /\ k.cur \in Thread /\ k.timer \in [Thread -> BOOLEAN]
  BY Basics
<1>1. /\ pc[k.cur] = "resume" /\ pc[k.cur] \in TargetLabel /\ "insert" \in TargetLabel
      /\ k' = [rt_list_remove(k, u) EXCEPT !.timer[u] = FALSE]
      /\ pc' = [pc EXCEPT ![k.cur] = "insert"] /\ arg' = [arg EXCEPT ![k.cur] = u]
  BY DEF ResumeUnlink, Call, TargetLabel
<1>2. /\ u \in Thread /\ k.stat[k.cur] = "RUNNING" /\ TargetOK(k, "resume", u)
      /\ pc[u] \notin TargetLabel
      /\ \A v \in Thread : v # k.cur /\ pc[v] \in TargetLabel => arg[v] # u
  BY <1>1, TargetFacts
<1>3. k.cur # Idle /\ arg[k.cur] = u
  BY <1>1 DEF IInv, Sound, IdleOK
<1> HIDE DEF u
<1>4. k' = k
  <2>1. k.timer = [k.timer EXCEPT ![u] = FALSE]
    BY <1>0, <1>2 DEF TargetOK
  <2>2. rt_list_remove(k, u) = k
    BY <1>0, <1>2, RemoveUnlinked DEF TargetOK, KernelSound
  <2>3. k' = [k EXCEPT !.timer = k.timer]
    BY <1>1, <2>1, <2>2
  <2>. QED BY <1>0, <2>3 DEF Kernel
<1>5. TargetOK(k', "insert", u)
  BY <1>2, <1>4 DEF TargetOK, TargetStat
<1>6. Untouched(k, k', u)
  BY <1>4 DEF Untouched
<1>7. Sound(k', pc', arg')
  BY <1>0, <1>1, <1>2, <1>3, <1>4, <1>5, <1>6, CallStep
<1>. QED BY <1>7 DEF IInv

\* rt_thread_delete stops the timer.
LEMMA DeleteTimerStep ==
  ASSUME IInv, DeleteTimer PROVE IInv'
<1> DEFINE u == arg[k.cur]
<1>0. /\ KernelSound(k) /\ k \in Kernel /\ k.cur \in Thread /\ k.timer \in [Thread -> BOOLEAN]
  BY Basics
<1>1. /\ pc[k.cur] = "del_timer" /\ pc[k.cur] \in TargetLabel /\ "del_close" \in TargetLabel
      /\ k' = [k EXCEPT !.timer[u] = FALSE]
      /\ pc' = [pc EXCEPT ![k.cur] = "del_close"] /\ arg' = [arg EXCEPT ![k.cur] = u]
  BY DEF DeleteTimer, Call, TargetLabel
<1>2. /\ u \in Thread /\ k.stat[k.cur] = "RUNNING" /\ TargetOK(k, "del_timer", u)
      /\ pc[u] \notin TargetLabel
      /\ \A v \in Thread : v # k.cur /\ pc[v] \in TargetLabel => arg[v] # u
  BY <1>1, TargetFacts
<1>3. k.cur # Idle /\ arg[k.cur] = u
  BY <1>1 DEF IInv, Sound, IdleOK
<1> HIDE DEF u
<1>4. k' = k
  <2>1. k.timer = [k.timer EXCEPT ![u] = FALSE]
    BY <1>0, <1>2 DEF TargetOK
  <2>2. k' = [k EXCEPT !.timer = k.timer]
    BY <1>1, <2>1
  <2>. QED BY <1>0, <2>2 DEF Kernel
<1>5. TargetOK(k', "del_close", u)
  BY <1>2, <1>4 DEF TargetOK, TargetStat
<1>6. Untouched(k, k', u)
  BY <1>4 DEF Untouched
<1>7. Sound(k', pc', arg')
  BY <1>0, <1>1, <1>2, <1>3, <1>4, <1>5, <1>6, CallStep
<1>. QED BY <1>7 DEF IInv

\* rt_thread_delete closes the object.
LEMMA DeleteCloseStep ==
  ASSUME IInv, DeleteClose PROVE IInv'
<1> DEFINE u == arg[k.cur]
<1>0. /\ KernelSound(k) /\ k \in Kernel /\ k.cur \in Thread /\ k.stat \in [Thread -> Stat]
  BY Basics
<1>1. /\ pc[k.cur] = "del_close" /\ pc[k.cur] \in TargetLabel /\ "del_defunct" \in TargetLabel
      /\ k' = [k EXCEPT !.stat[u] = "CLOSE"]
      /\ pc' = [pc EXCEPT ![k.cur] = "del_defunct"] /\ arg' = [arg EXCEPT ![k.cur] = u]
  BY DEF DeleteClose, Call, TargetLabel
<1>2. /\ u \in Thread /\ k.stat[k.cur] = "RUNNING" /\ TargetOK(k, "del_close", u)
      /\ pc[u] \notin TargetLabel
      /\ \A v \in Thread : v # k.cur /\ pc[v] \in TargetLabel => arg[v] # u
  BY <1>1, TargetFacts
<1>3. k.cur # Idle /\ arg[k.cur] = u
  BY <1>1 DEF IInv, Sound, IdleOK
<1> HIDE DEF u
<1>4. /\ k' \in Kernel /\ SameLists(k, k') /\ k'.stat[u] = "CLOSE" /\ k'.timer = k.timer
      /\ k'.prio = k.prio /\ \A z \in Thread : z # u => k'.stat[z] = k.stat[z]
  <2> DEFINE st == [k.stat EXCEPT ![u] = "CLOSE"]
  <2>1. k' = [k EXCEPT !.stat = st] /\ st \in [Thread -> Stat]
    BY <1>0, <1>1 DEF Stat
  <2>2. st[u] = "CLOSE" /\ \A z \in Thread : z # u => st[z] = k.stat[z]
    BY <1>0, <1>2
  <2> HIDE DEF st
  <2>3. k' \in Kernel /\ SameLists(k, k') /\ k'.stat = st /\ k'.timer = k.timer /\ k'.prio = k.prio
    BY <1>0, <2>1 DEF Kernel, SameLists
  <2>. QED BY <2>2, <2>3
<1>5. k'.timer[u] = FALSE /\ k'.stat[u] # "RUNNING"
  BY <1>2, <1>4 DEF TargetOK
<1>6. KernelSound(k') /\ Unlinked(k', u) /\ Untouched(k, k', u) /\ k'.cur = k.cur
  <2>1. \A z \in Thread : z # u => /\ k'.stat[z] = k.stat[z] /\ k'.prio[z] = k.prio[z]
                                   /\ k'.timer[z] = k.timer[z]
    BY <1>4
  <2>2. /\ IInv /\ pc[k.cur] \in TargetLabel /\ u = arg[k.cur] /\ k' \in Kernel /\ SameLists(k, k')
        /\ k'.timer[u] = FALSE /\ k'.stat[u] # "RUNNING"
    BY <1>1, <1>3, <1>4, <1>5
  <2>. QED BY ONLY <2>1, <2>2, TargetChange
<1>7. TargetOK(k', "del_defunct", u)
  BY <1>2, <1>4, <1>5, <1>6 DEF TargetOK, TargetStat
<1>8. Sound(k', pc', arg')
  BY <1>1, <1>2, <1>3, <1>6, <1>7, CallStep
<1>. QED BY <1>8 DEF IInv

\* rt_thread_delete ends: the target is on the defunct list, or detached.
LEMMA DeleteDefunctStep ==
  ASSUME IInv, DeleteDefunct PROVE IInv'
<1> DEFINE u == arg[k.cur]
<1>0. /\ KernelSound(k) /\ k \in Kernel /\ k.cur \in Thread /\ Idle \in Thread
      /\ pc \in [Thread -> Label] /\ arg \in [Thread -> Thread] /\ "defunct" \in Queue
  BY Basics
<1>1. /\ pc[k.cur] = "del_defunct" /\ pc[k.cur] \in TargetLabel
      /\ k' = IF u \in Static THEN k ELSE Push(k, "defunct", u)
      /\ pc' = [pc EXCEPT ![k.cur] = "run", ![u] = "dead"]
      /\ arg' = [arg EXCEPT ![k.cur] = k.cur]
  BY DEF DeleteDefunct, TargetLabel
<1>2. /\ u \in Thread /\ TargetOK(k, "del_defunct", u)
  BY <1>1, TargetFacts
<1>3. k.cur # Idle /\ arg[k.cur] = u
  BY <1>1 DEF IInv, Sound, IdleOK
<1> HIDE DEF u
<1>4. u # k.cur /\ u # Idle /\ Unlinked(k, u) /\ k.stat[u] = "CLOSE"
  BY <1>2 DEF TargetOK, TargetStat
<1>5. /\ KernelSound(k') /\ Untouched(k, k', u) /\ k'.stat = k.stat
      /\ Contains(k'.wait["defunct"], u) <=> u \notin Static
  <2>1. CASE u \in Static
    BY <1>0, <1>1, <1>4, <2>1 DEF Untouched, Unlinked
  <2>2. CASE u \notin Static
    <3>1. /\ KernelSound(k) /\ u \in Thread /\ Unlinked(k, u) /\ "defunct" \in Queue
          /\ k.stat[u] = QueueStat("defunct") /\ k' = Push(k, "defunct", u)
      BY <1>0, <1>1, <1>2, <1>4, <2>2 DEF QueueStat
    <3>2. KernelSound(k') /\ Linked(k, "defunct", u, k')
      BY ONLY <3>1, LinkLemma
    <3>3. Untouched(k, k', u)
      BY <3>2 DEF Linked, Untouched
    <3>. QED BY <1>0, <2>2, <3>2, <3>3 DEF Linked
  <2>. QED BY <2>1, <2>2
<1>6. /\ pc' \in [Thread -> Label] /\ arg' \in [Thread -> Thread]
      /\ \A v \in Thread : v # k.cur /\ v # u => pc'[v] = pc[v]
      /\ \A v \in Thread : v # k.cur => arg'[v] = arg[v]
      /\ pc'[k.cur] \notin TargetLabel /\ pc'[u] \notin TargetLabel
  BY <1>0, <1>1, <1>2, <1>4 DEF Label, TargetLabel
<1>7. IdleOK(k', pc')
  BY <1>0, <1>3, <1>4, <1>5, <1>6 DEF IInv, Sound, IdleOK
<1>8. k'.stat[u] # "READY"
  BY <1>4, <1>5
<1>9. /\ IInv /\ u \in Thread /\ pc[k.cur] \in TargetLabel /\ arg[k.cur] = u
      /\ KernelSound(k') /\ Untouched(k, k', u)
      /\ k'.stat[u] = "READY" => Contains(k'.ready[k'.prio[u]], u)
      /\ Contains(k'.wait["defunct"], u) => u \notin Static
      /\ k'.stat[u] = "CLOSE" /\ u \notin Static => Contains(k'.wait["defunct"], u)
  BY <1>1, <1>2, <1>3, <1>5, <1>8
<1>10. Sound(k', pc', arg')
  BY ONLY <1>6, <1>7, <1>9, EndStep
<1>. QED BY <1>10 DEF IInv

\* The idle thread frees the object.
LEMMA FreeStep ==
  ASSUME IInv, Free PROVE IInv'
<1>0. /\ KernelSound(k) /\ k \in Kernel /\ k.cur \in Thread /\ Idle \in Thread
      /\ pc \in [Thread -> Label] /\ arg \in [Thread -> Thread] /\ "defunct" \in Queue
  BY Basics
<1> PICK u \in Thread : u = arg[k.cur]
  BY <1>0
<1>1. /\ k.cur = Idle /\ pc[k.cur] = "free" /\ pc[k.cur] \in TargetLabel
      /\ k' = Fresh(k, u, "NONE")
      /\ pc' = [pc EXCEPT ![k.cur] = "run", ![u] = "dead"]
      /\ arg' = [arg EXCEPT ![k.cur] = k.cur]
  BY DEF Free, TargetLabel
<1>2. u \in Thread /\ TargetOK(k, "free", u) /\ arg[k.cur] = u
  BY <1>1, TargetFacts
<1>3. u # k.cur
  BY <1>2 DEF TargetOK
<1>4. /\ k' \in Kernel /\ SameLists(k, k') /\ k'.lock = k.lock
      /\ k'.stat[u] = "NONE" /\ k'.timer[u] = FALSE
      /\ \A z \in Thread : z # u => /\ k'.stat[z] = k.stat[z] /\ k'.prio[z] = k.prio[z]
                                    /\ k'.timer[z] = k.timer[z]
  <2>1. k \in Kernel /\ u \in Thread /\ "NONE" \in Stat /\ k' = Fresh(k, u, "NONE")
    BY <1>0, <1>1, <1>2 DEF Stat
  <2>2. Renewed(k, u, "NONE", k')
    BY ONLY <2>1, FreshLemma
  <2>. QED BY <2>2 DEF Renewed
<1>5. KernelSound(k') /\ Unlinked(k', u) /\ Untouched(k, k', u) /\ k'.cur = k.cur
  BY <1>1, <1>2, <1>4, TargetChange
<1>6. /\ pc' \in [Thread -> Label] /\ arg' \in [Thread -> Thread]
      /\ \A v \in Thread : v # k.cur /\ v # u => pc'[v] = pc[v]
      /\ \A v \in Thread : v # k.cur => arg'[v] = arg[v]
      /\ pc'[k.cur] = "run" /\ pc'[k.cur] \notin TargetLabel /\ pc'[u] \notin TargetLabel
  BY <1>0, <1>1, <1>2, <1>3 DEF Label, TargetLabel
<1>7. IdleOK(k', pc')
  BY <1>0, <1>1, <1>3, <1>4, <1>6 DEF IInv, Sound, IdleOK
<1>8. ~Contains(k'.wait["defunct"], u)
  BY <1>0, <1>5 DEF Unlinked
<1>9. /\ IInv /\ u \in Thread /\ pc[k.cur] \in TargetLabel /\ arg[k.cur] = u
      /\ KernelSound(k') /\ Untouched(k, k', u)
      /\ k'.stat[u] = "READY" => Contains(k'.ready[k'.prio[u]], u)
      /\ Contains(k'.wait["defunct"], u) => u \notin Static
      /\ k'.stat[u] = "CLOSE" /\ u \notin Static => Contains(k'.wait["defunct"], u)
  BY <1>1, <1>2, <1>4, <1>5, <1>8
<1>10. Sound(k', pc', arg')
  BY ONLY <1>6, <1>7, <1>9, EndStep
<1>. QED BY <1>10 DEF IInv

-----------------------------------------------------------------------------
(* Scheduling points, wake-ups and interrupts *)

\* rt_thread_yield is a call of rt_schedule.
LEMMA YieldStep ==
  ASSUME IInv, Yield PROVE IInv'
<1>1. Sound(k, pc, arg) /\ k' = rt_schedule(k) /\ pc' = pc /\ arg' = arg
  BY DEF IInv, Yield, rt_thread_yield
<1>2. Sound(k', pc, arg)
  BY <1>1, ScheduleStep
<1>. QED BY <1>1, <1>2 DEF IInv

\* A running thread may change the nesting of the scheduler lock.
LEMMA LockStep ==
  ASSUME IInv, k.stat[k.cur] = "RUNNING", NEW n \in Nat
  PROVE  Sound([k EXCEPT !.lock = n], pc, arg)
<1> DEFINE y == [k EXCEPT !.lock = n]
<1>1. k \in Kernel /\ Sound(k, pc, arg)
  BY Basics DEF IInv
<1>2. /\ y \in Kernel /\ SameLists(k, y)
      /\ y.stat = k.stat /\ y.prio = k.prio /\ y.timer = k.timer
  BY <1>1 DEF Kernel, SameLists
<1> HIDE DEF y
<1>3. Sound(y, pc, arg)
  BY <1>1, <1>2, NeutralStep
<1>. QED BY <1>3 DEF y

\* rt_enter_critical deepens the nesting.
LEMMA EnterCriticalStep ==
  ASSUME IInv, EnterCritical PROVE IInv'
<1>1. /\ k' = [k EXCEPT !.lock = k.lock + 1] /\ pc' = pc /\ arg' = arg
      /\ pc[k.cur] = "run" /\ k.lock \in Nat /\ k.lock + 1 \in Nat
  BY Basics DEF EnterCritical, Calls, rt_enter_critical
<1>2. k.stat[k.cur] = "RUNNING"
  BY <1>1, RunsOwnCode
<1>3. Sound(k', pc, arg)
  BY <1>1, <1>2, LockStep
<1>. QED BY <1>1, <1>3 DEF IInv

\* rt_exit_critical leaves one level, and reschedules when it was the last.
LEMMA ExitCriticalStep ==
  ASSUME IInv, ExitCritical PROVE IInv'
<1>1. /\ pc' = pc /\ arg' = arg
      /\ pc[k.cur] = "run" /\ k.lock \in Nat /\ k.lock > 0
      /\ k' = IF k.lock <= 1 THEN rt_schedule([k EXCEPT !.lock = 0])
                             ELSE [k EXCEPT !.lock = k.lock - 1]
  BY Basics DEF ExitCritical, Calls, rt_exit_critical
<1>2. k.stat[k.cur] = "RUNNING"
  BY <1>1, RunsOwnCode
<1>3. \A n \in Nat : Sound([k EXCEPT !.lock = n], pc, arg)
  BY <1>2, LockStep
<1>4. CASE k.lock <= 1
  <2>1. Sound([k EXCEPT !.lock = 0], pc, arg)
    BY <1>3
  <2>2. k' = rt_schedule([k EXCEPT !.lock = 0])
    BY <1>1, <1>4
  <2>3. Sound(k', pc, arg)
    BY ONLY <2>1, <2>2, ScheduleStep
  <2>. QED BY <1>1, <2>3 DEF IInv
<1>5. CASE ~(k.lock <= 1)
  <2>1. k.lock - 1 \in Nat /\ k' = [k EXCEPT !.lock = k.lock - 1]
    BY <1>1, <1>5
  <2>2. Sound(k', pc, arg)
    BY <1>3, <2>1
  <2>. QED BY <1>1, <2>2 DEF IInv
<1>. QED BY <1>4, <1>5

\* The tick takes one from the slice of the current thread, and at its end
\* renews it and yields.
LEMMA TickStep ==
  ASSUME IInv, Tick PROVE IInv'
<1>0. k \in Kernel /\ k.cur \in Thread /\ k.slice \in [Thread -> 1 .. InitTick] /\ Sound(k, pc, arg)
  BY Basics DEF IInv, Kernel
<1>1. ASSUME NEW n \in 1 .. InitTick PROVE Sound([k EXCEPT !.slice[k.cur] = n], pc, arg)
  <2> DEFINE sl == [k.slice EXCEPT ![k.cur] = n]
             y == [k EXCEPT !.slice = sl]
  <2>1. y = [k EXCEPT !.slice[k.cur] = n] /\ sl \in [Thread -> 1 .. InitTick]
    BY <1>0
  <2> HIDE DEF sl
  <2>2. /\ y \in Kernel /\ SameLists(k, y)
        /\ y.stat = k.stat /\ y.prio = k.prio /\ y.timer = k.timer /\ y.lock = k.lock
    BY <1>0, <2>1 DEF Kernel, SameLists
  <2> HIDE DEF y
  <2>3. Sound(y, pc, arg)
    BY <1>0, <2>2, NeutralStep
  <2>. QED BY <2>1, <2>3
<1>2. pc' = pc /\ arg' = arg /\ k' = rt_tick_increase(k)
  BY DEF Tick
<1>3. CASE k.slice[k.cur] = 1
  <2>1. InitTick \in 1 .. InitTick
    BY TickAssumption
  <2>2. Sound([k EXCEPT !.slice[k.cur] = InitTick], pc, arg)
    BY <1>1, <2>1
  <2>3. k' = rt_schedule([k EXCEPT !.slice[k.cur] = InitTick])
    BY <1>2, <1>3 DEF rt_tick_increase, rt_thread_yield
  <2>4. Sound(k', pc, arg)
    BY ONLY <2>2, <2>3, ScheduleStep
  <2>. QED BY <1>2, <2>4 DEF IInv
<1>4. CASE k.slice[k.cur] # 1
  <2>1. k.slice[k.cur] - 1 \in 1 .. InitTick
    BY <1>0, <1>4, TickAssumption
  <2>2. k' = [k EXCEPT !.slice[k.cur] = k.slice[k.cur] - 1]
    BY <1>0, <1>2, <1>4 DEF rt_tick_increase, Kernel
  <2>3. Sound(k', pc, arg)
    BY <1>1, <2>1, <2>2
  <2>. QED BY <1>2, <2>3 DEF IInv
<1>. QED BY <1>3, <1>4

\* Releasing an IPC object: what a thread and an interrupt handler share.
LEMMA ResumeFirst ==
  ASSUME IInv, k.wait["ipc"] # << >>,
         NEW y, y = rt_thread_resume(k, Head(k.wait["ipc"]))
  PROVE  Sound(y, pc, arg) /\ y.cur = k.cur
<1>0. /\ KernelSound(k) /\ ListsSound(k) /\ k \in Kernel /\ "ipc" \in Queue
      /\ k.wait["ipc"] \in Seq(Thread) /\ Sound(k, pc, arg)
  BY Basics DEF Kernel, IInv
<1>1. PICK t \in Thread : t = Head(k.wait["ipc"])
  BY <1>0
<1>2. Contains(k.wait["ipc"], t)
  BY <1>0, <1>1 DEF Contains
<1>3. k.stat[t] = "SUSPEND" /\ ~Unlinked(k, t)
  BY <1>0, <1>2 DEF ListsSound, QueueStat, Unlinked
<1>4. KernelSound(y) /\ Awakened(k, t, y)
  BY <1>0, <1>1, <1>3, ResumeLemma
<1>5. Sound(y, pc, arg)
  BY ONLY <1>0, <1>3, <1>4, AwakenStep
<1>. QED BY <1>4, <1>5 DEF Awakened

\* An interrupt handler wakes the first waiter and reschedules.
LEMMA PostFromISRStep ==
  ASSUME IInv, PostFromISR PROVE IInv'
<1> DEFINE y == rt_thread_resume(k, Head(k.wait["ipc"]))
<1>1. k' = rt_schedule(y) /\ pc' = pc /\ arg' = arg /\ k.wait["ipc"] # << >>
  BY DEF PostFromISR
<1>2. Sound(y, pc, arg)
  BY <1>1, ResumeFirst
<1> HIDE DEF y
<1>3. Sound(k', pc, arg)
  BY ONLY <1>1, <1>2, ScheduleStep
<1>. QED BY <1>1, <1>3 DEF IInv

\* The timeout function of a thread's timer wakes it and reschedules.
LEMMA TimeoutStep ==
  ASSUME IInv, NEW u \in Thread, Timeout(u) PROVE IInv'
<1>0. KernelSound(k) /\ Sound(k, pc, arg) /\ u \in Thread
  BY Basics DEF IInv
<1>1. k' = rt_thread_timeout(k, u) /\ pc' = pc /\ arg' = arg /\ k.timer[u]
  BY DEF Timeout
<1>2. k.stat[u] = "SUSPEND"
  BY <1>0, <1>1 DEF KernelSound
<1>3. PICK x : KernelSound(x) /\ Awakened(k, u, x) /\ rt_thread_timeout(k, u) = rt_schedule(x)
  BY ONLY <1>0, <1>2, TimeoutLemma
<1>4. Sound(x, pc, arg)
  BY ONLY <1>0, <1>1, <1>2, <1>3, AwakenStep
<1>5. Sound(k', pc, arg)
  BY <1>1, <1>3, <1>4, ScheduleStep
<1>. QED BY <1>1, <1>5 DEF IInv

\* A thread that wakes the first waiter goes on to its call of rt_schedule.
LEMMA PostStep ==
  ASSUME IInv, Post PROVE IInv'
<1>0. k.cur \in Thread /\ Idle \in Thread /\ pc \in [Thread -> Label] /\ arg \in [Thread -> Thread]
  BY Basics
<1>1. /\ k.wait["ipc"] # << >> /\ pc[k.cur] = "run" /\ k.cur # Idle
      /\ k' = rt_thread_resume(k, Head(k.wait["ipc"]))
      /\ pc' = [pc EXCEPT ![k.cur] = "sched"] /\ arg' = [arg EXCEPT ![k.cur] = k.cur]
  BY DEF Post, Calls, Goto, Call
<1>2. Sound(k', pc, arg) /\ k'.cur = k.cur
  BY <1>1, ResumeFirst
<1>3. k'.stat[k'.cur] = "RUNNING"
  BY <1>1, <1>2 DEF Sound, CurOK
<1>4. pc[k.cur] \notin TargetLabel /\ "sched" \in Label \ TargetLabel
  BY <1>1 DEF TargetLabel, Label
<1>5. CurOK(k', pc') /\ IdleOK(k', pc')
  BY <1>0, <1>1, <1>2, <1>3 DEF CurOK, IdleOK, Sound
<1>6. Sound(k', pc', arg')
  BY <1>0, <1>1, <1>2, <1>4, <1>5, PlaceStep
<1>. QED BY <1>6 DEF IInv

\* The call of rt_schedule that ends a blocking or waking call.
LEMMA SchedStep ==
  ASSUME IInv, Sched PROVE IInv'
<1> DEFINE l == IF k.stat[k.cur] = "CLOSE" THEN "dead"
                ELSE IF pc[k.cur] = "sched" THEN "run" ELSE "slept"
<1>0. /\ k.cur \in Thread /\ Idle \in Thread /\ pc \in [Thread -> Label]
      /\ arg \in [Thread -> Thread] /\ Sound(k, pc, arg)
  BY Basics DEF IInv
<1>1. /\ pc[k.cur] \in {"sched", "blocked"} /\ k' = rt_schedule(k)
      /\ pc' = [pc EXCEPT ![k.cur] = l] /\ arg' = [arg EXCEPT ![k.cur] = k.cur]
  BY DEF Sched, Goto, Call
<1>2. l \in {"dead", "run", "slept"}
  OBVIOUS
<1> HIDE DEF l
<1>3. /\ Sound(k', pc, arg)
      /\ k'.cur = k.cur => k' = k /\ (k.stat[k.cur] = "RUNNING" \/ k.lock # 0)
  BY ONLY <1>0, <1>1, ScheduleStep
<1>4. k.cur # Idle
  BY <1>1 DEF IInv, Sound, IdleOK
<1>5. CurOK(k', pc')
  <2>1. CASE k'.cur = k.cur
    BY <1>0, <1>3, <2>1 DEF Sound, CurOK
  <2>2. CASE k'.cur # k.cur
    <3>1. k'.cur \in Thread
      BY <1>3 DEF Sound, KernelSound, Kernel
    <3>2. pc'[k'.cur] = pc[k'.cur]
      BY <1>0, <1>1, <2>2, <3>1
    <3>3. CurOK(k', pc)
      BY <1>3 DEF Sound
    <3>. QED BY <3>2, <3>3 DEF CurOK
  <2>. QED BY <2>1, <2>2
<1>6. IdleOK(k', pc')
  BY <1>0, <1>1, <1>3, <1>4 DEF Sound, IdleOK
<1>7. pc[k.cur] \notin TargetLabel /\ l \in Label \ TargetLabel
  BY <1>1, <1>2 DEF TargetLabel, Label
<1>8. Sound(k', pc', arg')
  BY ONLY <1>0, <1>1, <1>3, <1>5, <1>6, <1>7, PlaceStep
<1>. QED BY <1>8 DEF IInv

\* A thread that has been suspended runs again and returns from its call.
LEMMA WakeStep ==
  ASSUME IInv, Wake PROVE IInv'
<1>0. /\ k.cur \in Thread /\ Idle \in Thread /\ pc \in [Thread -> Label] /\ k \in Kernel
      /\ k.error \in [Thread -> Error] /\ arg \in [Thread -> Thread] /\ Sound(k, pc, arg)
  BY Basics DEF IInv
<1> DEFINE er == [k.error EXCEPT ![k.cur] = IF @ = "ETIMEOUT" THEN "EOK" ELSE @]
<1>1. /\ pc[k.cur] = "slept" /\ k' = [k EXCEPT !.error = er]
      /\ pc' = [pc EXCEPT ![k.cur] = "run"] /\ arg' = [arg EXCEPT ![k.cur] = k.cur]
  BY DEF Wake, Goto, Call
<1>2. er \in [Thread -> Error]
  BY <1>0 DEF Error
<1> HIDE DEF er
<1>3. /\ k' \in Kernel /\ SameLists(k, k') /\ k'.cur = k.cur
      /\ k'.stat = k.stat /\ k'.prio = k.prio /\ k'.timer = k.timer /\ k'.lock = k.lock
  BY <1>0, <1>1, <1>2 DEF Kernel, SameLists
<1>4. Sound(k', pc, arg)
  BY ONLY <1>0, <1>3, NeutralStep
<1>5. k'.stat[k'.cur] = "RUNNING"
  BY <1>1, <1>3, RunsOwnCode
<1>6. CurOK(k', pc') /\ IdleOK(k', pc')
  BY <1>0, <1>1, <1>4, <1>5 DEF CurOK, IdleOK, Sound
<1>7. pc[k.cur] \notin TargetLabel /\ "run" \in Label \ TargetLabel
  BY <1>1 DEF TargetLabel, Label
<1>8. Sound(k', pc', arg')
  BY ONLY <1>0, <1>1, <1>4, <1>6, <1>7, PlaceStep
<1>. QED BY <1>8 DEF IInv

=============================================================================
