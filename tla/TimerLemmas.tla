---------------------------- MODULE TimerLemmas -----------------------------
(***************************************************************************)
(* What the operations of Timer do to the timer list, what a step of       *)
(* Scheduler does to the timers of the threads, and the steps of           *)
(* rt_timer_start, rt_timer_stop and rt_timer_control in Clock.            *)
(***************************************************************************)
EXTENDS Clock, SchedulerInv

-----------------------------------------------------------------------------
(* The timer list *)

\* Inserting a timer at a place of the list adds it and keeps the others.
LEMMA InsertAtLemma ==
  ASSUME NEW S, NEW s \in Seq(S), NEW e \in S, IsInjective(s), ~Contains(s, e),
         NEW n \in 1 .. Len(s) + 1
  PROVE  /\ InsertAt(s, n, e) \in Seq(S)
         /\ IsInjective(InsertAt(s, n, e))
         /\ \A x : Contains(InsertAt(s, n, e), x) <=> Contains(s, x) \/ x = e
<1> DEFINE a == SubSeq(s, 1, n - 1)
           b == SubSeq(s, n, Len(s))
           r == InsertAt(s, n, e)
<1>0. Len(s) \in Nat /\ DOMAIN s = 1 .. Len(s) /\ \A i \in 1 .. Len(s) : s[i] \in S
  BY LenProperties, ElementOfSeq
<1>1. /\ a \in Seq(S) /\ Len(a) = n - 1
      /\ \A i \in 1 .. n - 1 : a[i] = s[i]
  <2>1. \A i \in 1 .. n - 1 : s[i] \in S
    BY <1>0
  <2>. QED BY <1>0, <2>1, SubSeqProperties
<1>2. /\ b \in Seq(S) /\ Len(b) = Len(s) - n + 1
      /\ \A i \in 1 .. Len(s) - n + 1 : b[i] = s[n + i - 1]
  <2>1. \A i \in n .. Len(s) : s[i] \in S
    BY <1>0
  <2>. QED BY <1>0, <2>1, SubSeqProperties
<1>3. <<e>> \in Seq(S) /\ Len(<<e>>) = 1 /\ <<e>>[1] = e
  OBVIOUS
<1>4. r = (a \o <<e>>) \o b
  BY DEF InsertAt
<1> HIDE DEF a, b, r
<1>5. /\ a \o <<e>> \in Seq(S) /\ Len(a \o <<e>>) = n
      /\ \A i \in 1 .. n - 1 : (a \o <<e>>)[i] = s[i]
      /\ (a \o <<e>>)[n] = e
  <2>1. /\ a \o <<e>> \in Seq(S) /\ Len(a \o <<e>>) = Len(a) + 1
        /\ \A i \in 1 .. Len(a) + 1 :
             (a \o <<e>>)[i] = IF i <= Len(a) THEN a[i] ELSE <<e>>[i - Len(a)]
    BY <1>1, <1>3, ConcatProperties
  <2> DEFINE h == a \o <<e>>
  <2>2. /\ h \in Seq(S) /\ Len(h) = n
        /\ \A i \in 1 .. n : h[i] = IF i <= n - 1 THEN a[i] ELSE <<e>>[i - (n - 1)]
    BY <1>1, <2>1
  <2>3. <<e>>[n - (n - 1)] = e
    BY <1>3
  <2> HIDE DEF h
  <2>4. \A i \in 1 .. n - 1 : h[i] = s[i]
    BY <1>1, <2>2
  <2>5. h[n] = e
    BY <2>2, <2>3
  <2>. QED BY <2>2, <2>4, <2>5 DEF h
<1>6. /\ r \in Seq(S) /\ Len(r) = Len(s) + 1 /\ DOMAIN r = 1 .. Len(s) + 1
      /\ \A i \in 1 .. n - 1 : r[i] = s[i]
      /\ r[n] = e
      /\ \A i \in n + 1 .. Len(s) + 1 : r[i] = s[i - 1]
  <2> DEFINE h == a \o <<e>>
  <2>0. h \in Seq(S) /\ Len(h) = n /\ r = h \o b
    BY <1>4, <1>5
  <2>1. \A i \in 1 .. n - 1 : h[i] = s[i]
    BY <1>5
  <2>2. h[n] = e
    BY <1>5
  <2> HIDE DEF h
  <2>3. /\ r \in Seq(S) /\ Len(r) = Len(h) + Len(b)
        /\ \A i \in 1 .. Len(h) + Len(b) : r[i] = IF i <= Len(h) THEN h[i] ELSE b[i - Len(h)]
    BY <2>0, <1>2, ConcatProperties
  <2>4. Len(r) = Len(s) + 1
    BY <2>0, <2>3, <1>0, <1>2
  <2>5. DOMAIN r = 1 .. Len(s) + 1
    BY <2>3, <2>4, LenProperties
  <2>6. \A i \in 1 .. Len(s) + 1 : r[i] = IF i <= n THEN h[i] ELSE b[i - n]
    BY <2>0, <2>3, <2>4
  <2>7. \A i \in n + 1 .. Len(s) + 1 : r[i] = s[i - 1]
    <3>. SUFFICES ASSUME NEW i \in n + 1 .. Len(s) + 1 PROVE r[i] = s[i - 1]
      OBVIOUS
    <3>1. r[i] = b[i - n]
      BY <2>6, <1>0
    <3>2. i - n \in 1 .. Len(s) - n + 1
      BY <1>0
    <3>3. b[i - n] = s[n + (i - n) - 1]
      BY <1>2, <3>2
    <3>4. n + (i - n) - 1 = i - 1
      BY <1>0
    <3>. QED BY <3>1, <3>3, <3>4
  <2>8. \A i \in 1 .. n - 1 : r[i] = s[i]
    BY <2>1, <2>6, <1>0
  <2>9. r[n] = e
    BY <2>2, <2>6, <1>0
  <2>. QED BY <2>3, <2>4, <2>5, <2>7, <2>8, <2>9
<1>7. IsInjective(r)
  <2>. SUFFICES ASSUME NEW i \in 1 .. Len(s) + 1, NEW j \in 1 .. Len(s) + 1, r[i] = r[j]
                PROVE  i = j
    BY <1>6 DEF IsInjective
  <2>1. \A m \in 1 .. Len(s) + 1 : \/ m = n
                                   \/ m \in 1 .. n - 1 /\ r[m] = s[m] /\ m \in 1 .. Len(s)
                                   \/ m \in n + 1 .. Len(s) + 1 /\ r[m] = s[m - 1] /\ m - 1 \in n .. Len(s)
    BY <1>0, <1>6
  <2>2. \A m \in 1 .. Len(s) + 1 : r[m] = e => m = n
    BY <1>0, <2>1 DEF Contains
  <2>3. \A v, w \in 1 .. Len(s) : s[v] = s[w] => v = w
    BY <1>0 DEF IsInjective
  <2>4. CASE i = n \/ j = n
    BY ONLY <1>6, <2>2, <2>4, r[i] = r[j], i \in 1 .. Len(s) + 1, j \in 1 .. Len(s) + 1
  <2>5. CASE i \in 1 .. n - 1 /\ r[i] = s[i] /\ i \in 1 .. Len(s)
    BY ONLY <1>0, <2>1, <2>3, <2>4, <2>5, r[i] = r[j], j \in 1 .. Len(s) + 1
  <2>6. CASE i \in n + 1 .. Len(s) + 1 /\ r[i] = s[i - 1] /\ i - 1 \in n .. Len(s)
    BY ONLY <1>0, <2>1, <2>3, <2>4, <2>6, r[i] = r[j], j \in 1 .. Len(s) + 1
  <2>. QED BY <2>1, <2>4, <2>5, <2>6
<1>8. ASSUME NEW x PROVE Contains(r, x) <=> Contains(s, x) \/ x = e
  <2>1. ASSUME Contains(r, x), x # e PROVE Contains(s, x)
    <3>1. PICK i \in 1 .. Len(s) + 1 : r[i] = x
      BY <2>1, <1>6 DEF Contains
    <3>. QED BY <2>1, <3>1, <1>0, <1>6 DEF Contains
  <2>2. ASSUME Contains(s, x) PROVE Contains(r, x)
    <3>1. PICK i \in 1 .. Len(s) : s[i] = x
      BY <2>2 DEF Contains
    <3>2. CASE i < n
      BY <3>1, <3>2, <1>0, <1>6 DEF Contains
    <3>3. CASE i >= n
      <4>1. i + 1 \in n + 1 .. Len(s) + 1 /\ r[i + 1] = x
        BY <3>1, <3>3, <1>0, <1>6
      <4>. QED BY <4>1, <1>0, <1>6 DEF Contains
    <3>. QED BY <3>2, <3>3, <1>0
  <2>3. Contains(r, e)
    BY <1>0, <1>6 DEF Contains
  <2>. QED BY <2>1, <2>2, <2>3
<1>. QED BY <1>6, <1>7, <1>8 DEF r

\* A record whose list holds each timer at most once.
TimersOK(m) == m \in TimerRecord /\ IsInjective(m.list)

\* n is m but for timer x, which is linked and activated if b and neither if not.
Changed(m, x, b, n) ==
  /\ TimersOK(n)
  /\ n.tick = m.tick /\ n.init = m.init /\ n.periodic = m.periodic
  /\ n.active = [m.active EXCEPT ![x] = b]
  /\ \A y : Contains(n.list, y) <=> IF y = x THEN b ELSE Contains(m.list, y)

\* Taking a timer out of the list.
LEMMA TimerRemoveLemma ==
  ASSUME NEW m, TimersOK(m), NEW x \in Timers, NEW n, n = _rt_timer_remove(m, x)
  PROVE  /\ TimersOK(n)
         /\ n.tick = m.tick /\ n.init = m.init /\ n.periodic = m.periodic /\ n.active = m.active
         /\ \A y : Contains(n.list, y) <=> Contains(m.list, y) /\ y # x
<1> DEFINE l == RemoveFirst(m.list, x)
<1>1. m \in TimerRecord /\ IsInjective(m.list) /\ m.list \in Seq(Timers)
  BY DEF TimersOK, TimerRecord
<1>2. l \in Seq(Timers) /\ IsInjective(l) /\ \A y : Contains(l, y) <=> Contains(m.list, y) /\ y # x
  BY <1>1, RemoveFirstLemma
<1>3. n = [m EXCEPT !.list = l]
  BY DEF _rt_timer_remove
<1> HIDE DEF l
<1>4. /\ n \in TimerRecord /\ n.list = l
      /\ n.tick = m.tick /\ n.init = m.init /\ n.periodic = m.periodic /\ n.active = m.active
  BY <1>1, <1>2, <1>3 DEF TimerRecord
<1>. QED BY <1>2, <1>4 DEF TimersOK

\* ... and clearing its flag.
LEMMA UnlinkLemma ==
  ASSUME NEW m, TimersOK(m), NEW x \in Timers
  PROVE  Changed(m, x, FALSE, Unlink(m, x))
<1> DEFINE r == _rt_timer_remove(m, x)
           f == [m.active EXCEPT ![x] = FALSE]
           n == Unlink(m, x)
<1>1. /\ TimersOK(r)
      /\ r.tick = m.tick /\ r.init = m.init /\ r.periodic = m.periodic /\ r.active = m.active
      /\ \A y : Contains(r.list, y) <=> Contains(m.list, y) /\ y # x
  BY TimerRemoveLemma
<1>2. f \in [Timers -> BOOLEAN]
  BY DEF TimersOK, TimerRecord
<1> HIDE DEF r
<1>3. n = [r EXCEPT !.active = f]
  BY <1>1 DEF Unlink, r, TimersOK, TimerRecord
<1> HIDE DEF f, n
<1>4. /\ n \in TimerRecord /\ n.list = r.list /\ n.active = f
      /\ n.tick = r.tick /\ n.init = r.init /\ n.periodic = r.periodic
  BY <1>1, <1>2, <1>3 DEF TimersOK, TimerRecord
<1>5. n.active = [m.active EXCEPT ![x] = FALSE]
  BY <1>4 DEF f
<1>6. TimersOK(n)
  BY <1>1, <1>4 DEF TimersOK
<1>. QED BY <1>1, <1>4, <1>5, <1>6 DEF Changed, n

\* Linking a timer that is in no list.
LEMMA LinkTimerLemma ==
  ASSUME NEW m, TimersOK(m), NEW x \in Timers, ~Contains(m.list, x)
  PROVE  Changed(m, x, TRUE, Link(m, x))
<1> DEFINE later == {i \in DOMAIN m.list : Later(m, m.list[i], x)}
           pos == IF later = {} THEN Len(m.list) + 1 ELSE Min(later)
           l == InsertAt(m.list, pos, x)
           f == [m.active EXCEPT ![x] = TRUE]
           n == Link(m, x)
<1>1. m \in TimerRecord /\ IsInjective(m.list) /\ m.list \in Seq(Timers)
  BY DEF TimersOK, TimerRecord
<1>2. pos \in 1 .. Len(m.list) + 1
  <2>1. Len(m.list) \in Nat /\ DOMAIN m.list = 1 .. Len(m.list)
    BY <1>1, LenProperties
  <2>2. later \in SUBSET (1 .. Len(m.list))
    BY <2>1
  <2> HIDE DEF later
  <2>3. CASE later # {}
    <3>1. later \in SUBSET Nat
      BY <2>1, <2>2
    <3>2. Min(later) \in later
      BY <2>3, <3>1, MinLemma
    <3>3. Min(later) \in 1 .. Len(m.list)
      BY <2>2, <3>2
    <3> HIDE DEF pos
    <3>4. pos = Min(later)
      BY <2>3 DEF pos
    <3>. QED BY <2>1, <3>3, <3>4
  <2>4. CASE later = {}
    <3>1. pos = Len(m.list) + 1
      BY <2>4
    <3> HIDE DEF pos
    <3>. QED BY <2>1, <3>1
  <2>. QED BY <2>3, <2>4
<1> HIDE DEF later
<1>3. l \in Seq(Timers) /\ IsInjective(l) /\ \A y : Contains(l, y) <=> Contains(m.list, y) \/ y = x
  <2> HIDE DEF pos
  <2>. QED BY <1>1, <1>2, InsertAtLemma
<1>4. f \in [Timers -> BOOLEAN]
  BY <1>1 DEF TimerRecord
<1>5. n = [m EXCEPT !.list = l, !.active = f]
  BY <1>1 DEF Link, later, TimerRecord
<1> HIDE DEF l, f, n
<1>6. /\ n \in TimerRecord /\ n.list = l /\ n.active = f
      /\ n.tick = m.tick /\ n.init = m.init /\ n.periodic = m.periodic
  BY <1>1, <1>3, <1>4, <1>5 DEF TimerRecord
<1>7. n.active = [m.active EXCEPT ![x] = TRUE]
  BY <1>6 DEF f
<1>8. TimersOK(n)
  BY <1>3, <1>6 DEF TimersOK
<1>. QED BY <1>3, <1>6, <1>7, <1>8 DEF Changed, n

\* Setting the timeout of a timer.
LEMMA SetTimeoutLemma ==
  ASSUME NEW m, TimersOK(m), NEW x \in Timers, NEW n, n = SetTimeout(m, x)
  PROVE  /\ TimersOK(n) /\ n.list = m.list /\ n.active = m.active
         /\ n.tick = m.tick /\ n.init = m.init /\ n.periodic = m.periodic
<1>0. m \in TimerRecord /\ TickMod \in Nat \ {0} /\ Delay \subseteq Nat
  BY TimerAssumption DEF TimersOK
<1>1. m.tick \in Nat /\ m.init[x] \in Nat
  <2>1. m.tick \in 0 .. TickMod - 1 /\ m.init \in [Timers -> Delay]
    BY <1>0 DEF TimerRecord
  <2>2. m.init[x] \in Delay
    BY <2>1
  <2>3. m.tick \in Nat
    BY <1>0, <2>1
  <2>. QED BY <1>0, <2>2, <2>3
<1>2. (m.tick + m.init[x]) % TickMod \in 0 .. TickMod - 1
  BY <1>0, <1>1
<1> DEFINE v == (m.tick + m.init[x]) % TickMod
           f == [m.at EXCEPT ![x] = v]
<1> HIDE DEF v
<1>3. f \in [Timers -> 0 .. TickMod - 1]
  BY <1>0, <1>2 DEF TimerRecord, v
<1>4. n = [m EXCEPT !.at = f]
  BY <1>0 DEF SetTimeout, v, TimerRecord
<1> HIDE DEF f
<1>5. /\ n \in TimerRecord /\ n.list = m.list /\ n.active = m.active
      /\ n.tick = m.tick /\ n.init = m.init /\ n.periodic = m.periodic
  BY <1>0, <1>3, <1>4 DEF TimerRecord
<1>. QED BY <1>5 DEF TimersOK

\* rt_timer_start, whatever the timer was before.
LEMMA StartLemma ==
  ASSUME NEW m, TimersOK(m), NEW x \in Timers
  PROVE  Changed(m, x, TRUE, rt_timer_start(m, x))
<1> DEFINE u == Unlink(m, x)
           s == SetTimeout(u, x)
           n == Link(s, x)
<1>1. Changed(m, x, FALSE, u)
  BY UnlinkLemma
<1> HIDE DEF u
<1>2. /\ TimersOK(s) /\ s.list = u.list /\ s.active = u.active
      /\ s.tick = u.tick /\ s.init = u.init /\ s.periodic = u.periodic
  BY <1>1, SetTimeoutLemma DEF Changed
<1> HIDE DEF s
<1>3. ~Contains(s.list, x)
  BY <1>1, <1>2 DEF Changed
<1>4. Changed(s, x, TRUE, n)
  BY <1>2, <1>3, LinkTimerLemma
<1>5. rt_timer_start(m, x) = n
  BY DEF rt_timer_start, n, s, u
<1> HIDE DEF n
<1>6. n.active = [m.active EXCEPT ![x] = TRUE]
  BY <1>1, <1>2, <1>4 DEF Changed, TimersOK, TimerRecord
<1>. QED BY <1>1, <1>2, <1>4, <1>5, <1>6 DEF Changed

\* rt_timer_stop of a timer whose flag tells whether it is linked.
LEMMA StopLemma ==
  ASSUME NEW m, TimersOK(m), NEW x \in Timers, Contains(m.list, x) <=> m.active[x]
  PROVE  Changed(m, x, FALSE, rt_timer_stop(m, x))
<1>1. CASE m.active[x]
  BY <1>1, UnlinkLemma DEF rt_timer_stop
<1>2. CASE ~m.active[x]
  <2>1. rt_timer_stop(m, x) = m
    BY <1>2 DEF rt_timer_stop
  <2>2. m.active = [m.active EXCEPT ![x] = FALSE]
    BY <1>2 DEF TimersOK, TimerRecord
  <2>. QED BY <1>2, <2>1, <2>2 DEF Changed
<1>. QED BY <1>1, <1>2

\* What rt_timer_check makes of a timer after its callback: it is linked if and
\* only if it is activated.
LEMMA AfterCallbackLemma ==
  ASSUME NEW m, TimersOK(m), NEW x \in Timers,
         ~Contains(m.list, x) \/ (m.periodic[x] /\ m.active[x])
  PROVE  \E b \in BOOLEAN : /\ Changed(m, x, b, AfterCallback(m, x))
                            /\ b => m.periodic[x]
<1>1. CASE m.periodic[x] /\ m.active[x]
  BY <1>1, StartLemma DEF AfterCallback
<1>2. CASE ~(m.periodic[x] /\ m.active[x])
  <2> DEFINE f == [m.active EXCEPT ![x] = FALSE]
             n == AfterCallback(m, x)
  <2>1. f \in [Timers -> BOOLEAN] /\ m \in TimerRecord
    BY DEF TimersOK, TimerRecord
  <2>2. n = [m EXCEPT !.active = f]
    BY <1>2, <2>1 DEF AfterCallback, TimerRecord
  <2> HIDE DEF f, n
  <2>3. /\ n \in TimerRecord /\ n.list = m.list /\ n.active = f
        /\ n.tick = m.tick /\ n.init = m.init /\ n.periodic = m.periodic
    BY <2>1, <2>2 DEF TimerRecord
  <2>4. TimersOK(n)
    BY <2>3 DEF TimersOK
  <2>5. n.active = [m.active EXCEPT ![x] = FALSE]
    BY <2>3 DEF f
  <2>6. Changed(m, x, FALSE, n)
    BY <1>2, <2>3, <2>4, <2>5 DEF Changed
  <2>. QED BY <2>6 DEF n
<1>. QED BY <1>1, <1>2

\* n is m but for timer x.
Moved(m, x, n) ==
  /\ TimersOK(n) /\ n.init = m.init /\ n.periodic = m.periodic
  /\ \A y \in Timers \ {x} : /\ Contains(n.list, y) <=> Contains(m.list, y)
                             /\ n.active[y] <=> m.active[y]

\* Starting or stopping x leaves the other timers alone.
LEMMA ChangedMoved ==
  ASSUME NEW m, TimersOK(m), NEW x \in Timers, NEW b, NEW n, Changed(m, x, b, n)
  PROVE  Moved(m, x, n)
<1>1. m.active \in [Timers -> BOOLEAN]
  BY DEF TimersOK, TimerRecord
<1>2. \A y \in Timers \ {x} : n.active[y] = m.active[y]
  BY <1>1 DEF Changed
<1>. QED BY <1>2 DEF Changed, Moved

\* So does the clearing of its flag alone.
LEMMA FlagLemma ==
  ASSUME NEW m, TimersOK(m), NEW x \in Timers, NEW n, n = [m EXCEPT !.active[x] = FALSE]
  PROVE  Moved(m, x, n) /\ n.list = m.list /\ n.active[x] = FALSE
<1> DEFINE f == [m.active EXCEPT ![x] = FALSE]
<1>1. /\ f \in [Timers -> BOOLEAN] /\ m \in TimerRecord /\ f[x] = FALSE
      /\ \A y \in Timers \ {x} : f[y] = m.active[y]
  BY DEF TimersOK, TimerRecord
<1>2. n = [m EXCEPT !.active = f]
  BY <1>1 DEF TimerRecord
<1> HIDE DEF f
<1>3. /\ n \in TimerRecord /\ n.list = m.list /\ n.active = f
      /\ n.init = m.init /\ n.periodic = m.periodic
  BY <1>1, <1>2 DEF TimerRecord
<1>. QED BY <1>1, <1>3 DEF Moved, TimersOK

\* What rt_timer_check does with a timer after its callback concerns no other.
LEMMA AfterCallbackMoves ==
  ASSUME NEW m, TimersOK(m), NEW x \in Timers
  PROVE  Moved(m, x, AfterCallback(m, x))
<1>1. CASE m.periodic[x] /\ m.active[x]
  <2>1. AfterCallback(m, x) = rt_timer_start(m, x)
    BY <1>1 DEF AfterCallback
  <2>. QED BY <2>1, StartLemma, ChangedMoved
<1>2. CASE ~(m.periodic[x] /\ m.active[x])
  <2>1. AfterCallback(m, x) = [m EXCEPT !.active[x] = FALSE]
    BY <1>2 DEF AfterCallback
  <2>. QED BY <2>1, FlagLemma
<1>. QED BY <1>1, <1>2

\* A timer's time is a number.
LEMMA DelayInt ==
  ASSUME NEW m, TimersOK(m), NEW x \in Timers PROVE m.init[x] \in Int
<1>1. m.init \in [Timers -> Delay]
  BY DEF TimersOK, TimerRecord
<1>2. m.init[x] \in Delay
  BY <1>1
<1>3. \A n \in Delay : n \in Int
  BY TimerAssumption
<1>. QED BY <1>2, <1>3, Zenon

-----------------------------------------------------------------------------
(* The timers of threads *)

\* y is a kernel with x's timers.
SameTimers(x, y) == "timer" \in DOMAIN y /\ y.timer = x.timer

\* Neither the list operations nor the scheduler touch a timer.
LEMMA KeepTimers ==
  ASSUME NEW x, "timer" \in DOMAIN x, NEW u, NEW q
  PROVE  /\ SameTimers(x, rt_list_remove(x, u)) /\ SameTimers(x, rt_schedule_remove_thread(x, u))
         /\ SameTimers(x, rt_schedule_insert_thread(x, u))
         /\ SameTimers(x, Enqueue(x, q, u)) /\ SameTimers(x, Push(x, q, u))
<1>1. SameTimers(x, rt_list_remove(x, u))
  BY DEF SameTimers, rt_list_remove
<1>2. SameTimers(x, rt_schedule_remove_thread(x, u))
  BY <1>1 DEF SameTimers, rt_schedule_remove_thread
<1>3. SameTimers(x, rt_schedule_insert_thread(x, u))
  BY DEF SameTimers, rt_schedule_insert_thread
<1>4. SameTimers(x, Enqueue(x, q, u)) /\ SameTimers(x, Push(x, q, u))
  BY DEF SameTimers, Enqueue, Push
<1>. QED BY <1>1, <1>2, <1>3, <1>4

\* Nor does rt_schedule.
LEMMA ScheduleKeepsTimers ==
  ASSUME NEW x, "timer" \in DOMAIN x
  PROVE  SameTimers(x, rt_schedule(x))
<1>1. ASSUME NEW to PROVE SameTimers(x, SwitchTo(x, to))
  <2> DEFINE moved == [x EXCEPT !.cur = to]
             kept == IF x.stat[x.cur] = "RUNNING"
                     THEN rt_schedule_insert_thread(moved, x.cur) ELSE moved
             r == rt_schedule_remove_thread(kept, to)
  <2>1. SameTimers(x, moved)
    BY DEF SameTimers
  <2> HIDE DEF moved
  <2>2. SameTimers(x, kept)
    BY <2>1, KeepTimers DEF SameTimers
  <2> HIDE DEF kept
  <2>3. SameTimers(x, r)
    BY <2>2, KeepTimers DEF SameTimers
  <2>4. SwitchTo(x, to) = [r EXCEPT !.stat[to] = "RUNNING"]
    BY DEF SwitchTo, r, kept, moved
  <2> HIDE DEF r
  <2>. QED BY <2>3, <2>4 DEF SameTimers
<1>2. SameTimers(x, rt_schedule_remove_thread(x, x.cur)) /\ SameTimers(x, x)
  BY KeepTimers DEF SameTimers
<1>. QED BY <1>1, <1>2 DEF rt_schedule

-----------------------------------------------------------------------------
(* The timers of threads *)

\* At most one timer, u's, is started or stopped on the way from f to g, and
\* only the current thread's is started.
OneTimer(f, g, cur) ==
  \E u \in Thread, b \in BOOLEAN : g = [f EXCEPT ![u] = b] /\ (b => u = cur)

\* A step that leaves the timers alone changes at most one of them.
LEMMA NoTimer ==
  ASSUME NEW f \in [Thread -> BOOLEAN], NEW g, g = f, NEW c \in Thread
  PROVE  OneTimer(f, g, c)
<1>1. CASE f[c]
  <2>1. g = [f EXCEPT ![c] = TRUE]
    BY <1>1
  <2>. QED BY <2>1 DEF OneTimer
<1>2. CASE ~f[c]
  <2>1. g = [f EXCEPT ![c] = FALSE]
    BY <1>2
  <2>. QED BY <2>1 DEF OneTimer
<1>. QED BY <1>1, <1>2

\* The wake-up of the first waiter stops its timer.
LEMMA PostTimer ==
  ASSUME IInv, k.wait["ipc"] # << >>
  PROVE  /\ \E u \in Thread : rt_thread_resume(k, Head(k.wait["ipc"])).timer
                                = [k.timer EXCEPT ![u] = FALSE]
         /\ "timer" \in DOMAIN rt_thread_resume(k, Head(k.wait["ipc"]))
<1> DEFINE t == Head(k.wait["ipc"])
           r == rt_thread_resume(k, t)
<1>1. /\ KernelSound(k) /\ ListsSound(k) /\ k \in Kernel /\ "ipc" \in Queue
  BY Basics
<1>2. k.wait["ipc"] \in Seq(Thread)
  BY <1>1 DEF Kernel
<1>3. t \in Thread /\ Contains(k.wait["ipc"], t)
  BY <1>2, EmptyLemma
<1>4. k.stat[t] = "SUSPEND"
  BY <1>1, <1>3 DEF ListsSound, QueueStat
<1> HIDE DEF t
<1>5. KernelSound(r) /\ Awakened(k, t, r)
  BY <1>1, <1>3, <1>4, ResumeLemma
<1> HIDE DEF r
<1>6. r.timer = [k.timer EXCEPT ![t] = FALSE] /\ "timer" \in DOMAIN r
  BY <1>5 DEF Awakened, KernelSound, Kernel
<1>. QED BY <1>3, <1>6 DEF r, t

\* So does a release from an interrupt.
LEMMA PostStops ==
  ASSUME IInv, PostFromISR
  PROVE  \E u \in Thread : k'.timer = [k.timer EXCEPT ![u] = FALSE]
<1> DEFINE r == rt_thread_resume(k, Head(k.wait["ipc"]))
<1>1. PICK u \in Thread : r.timer = [k.timer EXCEPT ![u] = FALSE] /\ "timer" \in DOMAIN r
  BY PostTimer DEF PostFromISR
<1>2. k' = rt_schedule(r)
  BY DEF PostFromISR
<1> HIDE DEF r
<1>. QED BY <1>1, <1>2, ScheduleKeepsTimers DEF SameTimers

\* A step of a thread starts or stops at most one thread's timer.
LEMMA StepTimer ==
  ASSUME IInv, ThreadStep
  PROVE  OneTimer(k.timer, k'.timer, k.cur)
<1>0. /\ KernelSound(k) /\ k \in Kernel /\ "timer" \in DOMAIN k /\ k.cur \in Thread
      /\ k.timer \in [Thread -> BOOLEAN] /\ arg \in [Thread -> Thread] /\ Idle \in Thread
  BY Basics DEF Kernel
<1>a. SUFFICES ASSUME k'.timer # k.timer PROVE OneTimer(k.timer, k'.timer, k.cur)
  BY <1>0, NoTimer
<1>1. ASSUME NEW u \in Thread, Create(u) PROVE k'.timer = [k.timer EXCEPT ![u] = FALSE]
  BY <1>0, <1>1 DEF Create, Fresh
<1>2. ASSUME NEW u \in Thread, Startup(u) PROVE k'.timer = [k.timer EXCEPT ![u] = FALSE]
  BY <1>0, <1>2, KeepTimers DEF Startup, SameTimers
<1>3. ASSUME NEW u \in Thread, Resume(u) PROVE k'.timer = k.timer
  BY <1>3 DEF Resume
<1>4. ASSUME NEW u \in Thread, Delete(u) PROVE k'.timer = k.timer
  BY <1>0, <1>4, KeepTimers DEF Delete, SameTimers
<1>5. ASSUME NEW u \in Thread, NEW p \in Prio, Control(u, p) PROVE k'.timer = k.timer
  <2>1. k' = ChangePriority(k, u, p) /\ KernelSound(k)
    BY <1>0, <1>5 DEF Control
  <2>2. Reprioritised(k, u, p, k')
    BY ONLY <2>1, u \in Thread, p \in Prio, PriorityLemma
  <2>. QED BY <2>2 DEF Reprioritised
<1>6. ASSUME NEW queued \in BOOLEAN, NEW timed \in BOOLEAN, Block(queued, timed)
      PROVE  k'.timer = [k.timer EXCEPT ![k.cur] = timed]
  <2> DEFINE n == IF queued THEN [k EXCEPT !.error[k.cur] = "EOK"] ELSE k
             s == rt_thread_suspend(n, k.cur)
             e == IF queued THEN Enqueue(s, "ipc", k.cur) ELSE s
  <2>1. SameTimers(k, n)
    BY <1>0 DEF SameTimers
  <2> HIDE DEF n
  <2>2. "timer" \in DOMAIN s /\ (s.timer = k.timer \/ s.timer = [k.timer EXCEPT ![k.cur] = FALSE])
    <3> DEFINE w == rt_schedule_remove_thread(n, k.cur)
    <3>1. SameTimers(k, w)
      BY <2>1, KeepTimers DEF SameTimers
    <3>2. s = [w EXCEPT !.stat[k.cur] = "SUSPEND", !.timer[k.cur] = FALSE] \/ s = n
      BY DEF rt_thread_suspend
    <3> HIDE DEF w, s
    <3>. QED BY <2>1, <3>1, <3>2 DEF SameTimers
  <2> HIDE DEF s
  <2>3. SameTimers(s, e)
    BY <2>2, KeepTimers DEF SameTimers
  <2>4. k' = [e EXCEPT !.timer[k.cur] = timed]
    BY <1>6 DEF Block, e, s, n
  <2> HIDE DEF e
  <2>5. k'.timer = [s.timer EXCEPT ![k.cur] = timed]
    BY <2>3, <2>4 DEF SameTimers
  <2>. QED BY <1>0, <2>2, <2>5
<1>7. CASE Insert
  BY <1>0, <1>7, <1>a, KeepTimers DEF Insert, SameTimers
<1>8. CASE Sched \/ Yield
  BY <1>0, <1>8, <1>a, ScheduleKeepsTimers DEF Sched, Yield, rt_thread_yield, SameTimers
<1>9. CASE Wake
  BY <1>0, <1>9, <1>a DEF Wake
<1>10. CASE Post
  <2>1. PICK u \in Thread : k'.timer = [k.timer EXCEPT ![u] = FALSE]
    BY <1>10, PostTimer DEF Post
  <2>. QED BY <2>1 DEF OneTimer
<1>11. CASE Exit
  <2> DEFINE n == rt_schedule_remove_thread(k, k.cur)
             r == [n EXCEPT !.stat[k.cur] = "CLOSE", !.timer[k.cur] = FALSE]
  <2>1. SameTimers(k, n)
    BY <1>0, KeepTimers
  <2>2. k' = IF k.cur \in Static THEN r ELSE Push(r, "defunct", k.cur)
    BY <1>11 DEF Exit
  <2> HIDE DEF n
  <2>3. "timer" \in DOMAIN r /\ r.timer = [k.timer EXCEPT ![k.cur] = FALSE]
    BY <2>1 DEF SameTimers
  <2> HIDE DEF r
  <2>4. k'.timer = [k.timer EXCEPT ![k.cur] = FALSE]
    <3>1. SameTimers(r, Push(r, "defunct", k.cur))
      BY <2>3, KeepTimers
    <3>. QED BY <2>2, <2>3, <3>1 DEF SameTimers
  <2>. QED BY <1>0, <2>4 DEF OneTimer
<1>12. CASE DeleteTimer
  <2>1. arg[k.cur] \in Thread /\ k'.timer = [k.timer EXCEPT ![arg[k.cur]] = FALSE]
    BY <1>0, <1>12 DEF DeleteTimer
  <2>. QED BY <2>1 DEF OneTimer
<1>13. CASE DeleteClose
  BY <1>0, <1>13, <1>a DEF DeleteClose
<1>14. CASE DeleteDefunct
  BY <1>0, <1>14, <1>a, KeepTimers DEF DeleteDefunct, SameTimers
<1>15. CASE EnterCritical
  BY <1>0, <1>15, <1>a DEF EnterCritical, rt_enter_critical
<1>16. CASE ExitCritical
  <2> DEFINE y == [k EXCEPT !.lock = 0]
  <2>1. SameTimers(k, y) /\ SameTimers(k, [k EXCEPT !.lock = @ - 1])
    BY <1>0 DEF SameTimers
  <2>2. SameTimers(y, rt_schedule(y))
    BY <2>1, ScheduleKeepsTimers DEF SameTimers
  <2>3. k' = rt_schedule(y) \/ k' = [k EXCEPT !.lock = @ - 1]
    BY <1>16 DEF ExitCritical, rt_exit_critical
  <2>. QED BY <1>a, <2>1, <2>2, <2>3 DEF SameTimers
<1>17. CASE Reap
  <2> DEFINE d == Head(k.wait["defunct"])
             n == rt_enter_critical(rt_list_remove(k, d))
  <2>1. SameTimers(k, n)
    BY <1>0, KeepTimers DEF SameTimers, rt_enter_critical
  <2>2. k' = rt_exit_critical(n)
    BY <1>17 DEF Reap
  <2> HIDE DEF n
  <2>3. SameTimers(k, [n EXCEPT !.lock = 0]) /\ SameTimers(k, [n EXCEPT !.lock = @ - 1])
    BY <2>1 DEF SameTimers
  <2>4. SameTimers(k, rt_schedule([n EXCEPT !.lock = 0]))
    BY <2>3, ScheduleKeepsTimers DEF SameTimers
  <2>. QED BY <1>a, <2>2, <2>3, <2>4 DEF SameTimers, rt_exit_critical
<1>18. CASE Free
  <2>1. arg[Idle] \in Thread /\ k'.timer = [k.timer EXCEPT ![arg[Idle]] = FALSE]
    BY <1>0, <1>18 DEF Free, Fresh
  <2>. QED BY <2>1 DEF OneTimer
<1>19. CASE ResumeUnlink
  <2>1. arg[k.cur] \in Thread /\ k'.timer = [k.timer EXCEPT ![arg[k.cur]] = FALSE]
    BY <1>0, <1>19, KeepTimers DEF ResumeUnlink, SameTimers
  <2>. QED BY <2>1 DEF OneTimer
<1>20. ASSUME NEW u \in Thread, Create(u) \/ Startup(u) \/ Resume(u) \/ Delete(u)
       PROVE  OneTimer(k.timer, k'.timer, k.cur)
  BY <1>a, <1>1, <1>2, <1>3, <1>4, <1>20 DEF OneTimer
<1>21. ASSUME NEW queued \in BOOLEAN, NEW timed \in BOOLEAN, Block(queued, timed)
       PROVE  OneTimer(k.timer, k'.timer, k.cur)
  BY <1>0, <1>6, <1>21 DEF OneTimer
<1>. QED BY <1>a, <1>5, <1>7, <1>8, <1>9, <1>10, <1>11, <1>12, <1>13, <1>14, <1>15, <1>16,
            <1>17, <1>18, <1>19, <1>20, <1>21 DEF ThreadStep

-----------------------------------------------------------------------------
(* The invariant *)

Loaded == {"oneshot_on", "oneshot_off", "periodic_on", "periodic_off"}

TimerCall == {NoCall} \cup [at : {"read", "link", "remove", "clear"} \cup Loaded, on : AppTimer]

\* The flag of a timer and its place in the list agree: for a thread also with
\* the thread's wait, for a timer of the application unless it is one of the stray
\* ones s or a thread is about to clear the flag.  A thread that has taken a timer
\* out finds it out.
TimerInv(f, m, c, s) ==
  /\ TimersOK(m)
  /\ c \in [Thread -> TimerCall]
  /\ \A t, u \in Thread : c[t].at # "none" /\ c[u].at # "none" /\ c[t].on = c[u].on => t = u
  /\ \A u \in Thread : /\ Contains(m.list, u) <=> f[u]
                       /\ m.active[u] <=> f[u]
                       /\ ~m.periodic[u]
  /\ \A x \in AppTimer : \/ x \in s
                         \/ Contains(m.list, x) <=> m.active[x]
                         \/ \E t \in Thread : c[t] = [at |-> "clear", on |-> x]
  /\ \A t \in Thread : c[t].at \in {"read", "link", "clear"} => ~Contains(m.list, c[t].on)

ClockInv == /\ IInv /\ TimerInv(k.timer, tm, call, stray)
            /\ isr \in BOOLEAN /\ due \in [Timers -> Int] /\ stray \subseteq AppTimer

\* A thread is in no call, or in one about a timer of the application.
LEMMA CallFacts ==
  /\ NoCall.at = "none"
  /\ \A c \in TimerCall : c.at # "none" => c.on \in AppTimer /\ c = [at |-> c.at, on |-> c.on]
  /\ \A c \in TimerCall : c.at = "none" => c = NoCall
BY DEF TimerCall, Loaded, NoCall

\* What rt_timer_check, or a step of a thread outside calls about timers, may do.
LEMMA CheckKeeps ==
  ASSUME NEW f, NEW m, NEW c, NEW s, TimerInv(f, m, c, s), NEW n, TimersOK(n), NEW g, NEW z,
         \A u \in Thread : /\ Contains(n.list, u) <=> g[u]
                           /\ n.active[u] <=> g[u]
                           /\ ~n.periodic[u],
         \A x \in AppTimer :
           \/ /\ Contains(n.list, x) <=> Contains(m.list, x)
              /\ n.active[x] <=> m.active[x]
              /\ x \in s => x \in z
           \/ /\ Contains(m.list, x)
              /\ x \in z \/ (Contains(n.list, x) <=> n.active[x])
  PROVE  TimerInv(g, n, c, z)
<1>1. c \in [Thread -> TimerCall]
  BY DEF TimerInv
<1>2. ASSUME NEW t \in Thread, c[t].at \in {"read", "link", "clear"}
      PROVE  ~Contains(n.list, c[t].on)
  <2>1. c[t].on \in AppTimer /\ ~Contains(m.list, c[t].on)
    BY <1>1, <1>2, CallFacts DEF TimerInv
  <2>. QED BY <2>1
<1>3. ASSUME NEW x \in AppTimer
      PROVE  \/ x \in z
             \/ Contains(n.list, x) <=> n.active[x]
             \/ \E t \in Thread : c[t] = [at |-> "clear", on |-> x]
  BY DEF TimerInv
<1>. QED BY <1>1, <1>2, <1>3 DEF TimerInv

\* A thread's timer changes together with the thread's wait.
LEMMA ThreadChanged ==
  ASSUME NEW f \in [Thread -> BOOLEAN], NEW m, NEW c, NEW s, TimerInv(f, m, c, s),
         NEW u \in Thread, NEW b \in BOOLEAN, NEW n, Changed(m, u, b, n)
  PROVE  TimerInv([f EXCEPT ![u] = b], n, c, s)
<1> DEFINE g == [f EXCEPT ![u] = b]
<1>0. u \in Timers /\ Thread \subseteq Timers /\ AppTimer \subseteq Timers \ {u}
  BY ClockAssumption
<1>1. m.active \in [Timers -> BOOLEAN] /\ TimersOK(n)
  BY DEF TimerInv, TimersOK, TimerRecord, Changed
<1>2. n.active[u] = b /\ \A y \in Timers \ {u} : n.active[y] = m.active[y]
  BY <1>0, <1>1 DEF Changed
<1>3. g[u] = b /\ \A v \in Thread \ {u} : g[v] = f[v]
  OBVIOUS
<1> HIDE DEF g
<1>4. \A v \in Thread : /\ Contains(n.list, v) <=> g[v]
                        /\ n.active[v] <=> g[v]
                        /\ ~n.periodic[v]
  BY <1>0, <1>2, <1>3 DEF TimerInv, Changed
<1>5. \A x \in AppTimer :
        (Contains(n.list, x) <=> Contains(m.list, x)) /\ (n.active[x] <=> m.active[x])
  BY <1>0, <1>2 DEF Changed
<1>6. TimerInv(g, n, c, s)
  BY <1>1, <1>4, <1>5, CheckKeeps
<1>. QED BY <1>6 DEF g

\* What a thread may do in a call about timer x that goes on with d; s are the
\* stray timers before, z after.
MyCall(m, c, s, n, z, x, t, d) ==
  /\ c[t] = NoCall \/ c[t].on = x
  /\ d = NoCall \/ d.on = x
  /\ \A u \in Thread \ {t} : c[u].at # "none" => c[u].on # x
  /\ \A y \in Timers \ {x} : /\ Contains(n.list, y) <=> Contains(m.list, y)
                             /\ n.active[y] <=> m.active[y]
                             /\ n.periodic[y] <=> m.periodic[y]
  /\ d.at \in {"read", "link", "clear"} => ~Contains(n.list, x)
  /\ \A y \in AppTimer \ {x} : y \in s => y \in z
  /\ x \in z \/ d = [at |-> "clear", on |-> x] \/ (Contains(n.list, x) <=> n.active[x])

\* ... keeps the invariant.
LEMMA CallKeeps ==
  ASSUME NEW f, NEW m, NEW c, NEW s, TimerInv(f, m, c, s), NEW n, TimersOK(n), NEW z,
         NEW x \in AppTimer, NEW t \in Thread, NEW d \in TimerCall,
         MyCall(m, c, s, n, z, x, t, d)
  PROVE  TimerInv(f, n, [c EXCEPT ![t] = d], z)
<1> DEFINE e == [c EXCEPT ![t] = d]
<1>0. AppTimer \subseteq Timers /\ Thread \subseteq Timers \ {x}
  BY ClockAssumption
<1>1. c \in [Thread -> TimerCall]
  BY DEF TimerInv
<1>2. e \in [Thread -> TimerCall] /\ e[t] = d /\ \A u \in Thread \ {t} : e[u] = c[u]
  BY <1>1
<1> HIDE DEF e
<1>3. \A u, v \in Thread : e[u].at # "none" /\ e[v].at # "none" /\ e[u].on = e[v].on => u = v
  BY <1>1, <1>2, CallFacts DEF TimerInv, MyCall
<1>4. \A u \in Thread : /\ Contains(n.list, u) <=> f[u]
                        /\ n.active[u] <=> f[u]
                        /\ ~n.periodic[u]
  BY <1>0 DEF TimerInv, MyCall
<1>5. ASSUME NEW y \in AppTimer
      PROVE  \/ y \in z
             \/ Contains(n.list, y) <=> n.active[y]
             \/ \E u \in Thread : e[u] = [at |-> "clear", on |-> y]
  <2>1. CASE y = x
    BY <1>2, <2>1 DEF MyCall
  <2>2. CASE y # x
    <3>1. CASE y \in s \/ (Contains(m.list, y) <=> m.active[y])
      BY <1>0, <2>2, <3>1 DEF MyCall
    <3>2. CASE \E u \in Thread : c[u] = [at |-> "clear", on |-> y]
      <4>1. PICK u \in Thread : c[u] = [at |-> "clear", on |-> y]
        BY <3>2
      <4>2. u # t
        BY <2>2, <4>1, CallFacts DEF MyCall
      <4>. QED BY <1>2, <4>1, <4>2
    <3>. QED BY <3>1, <3>2 DEF TimerInv
  <2>. QED BY <2>1, <2>2
<1>6. ASSUME NEW u \in Thread, e[u].at \in {"read", "link", "clear"}
      PROVE  ~Contains(n.list, e[u].on)
  <2>1. CASE u = t
    BY <1>2, <1>6, <2>1, CallFacts DEF MyCall
  <2>2. CASE u # t
    <3>1. /\ e[u] = c[u] /\ c[u].on \in AppTimer /\ c[u].on # x
          /\ ~Contains(m.list, c[u].on)
      BY <1>1, <1>2, <1>6, <2>2, CallFacts DEF TimerInv, MyCall
    <3>. QED BY <1>0, <3>1 DEF MyCall
  <2>. QED BY <2>1, <2>2
<1>. QED BY <1>2, <1>3, <1>4, <1>5, <1>6 DEF TimerInv, e

\* rt_thread_resume's rt_timer_stop, when at most one wait ends.
LEMMA StoppedLemma ==
  ASSUME NEW m, TimersOK(m), NEW u \in Thread, NEW b \in BOOLEAN,
         k.timer \in [Thread -> BOOLEAN], k'.timer = [k.timer EXCEPT ![u] = b], b => k.timer[u],
         \A v \in Thread : (Contains(m.list, v) <=> k.timer[v]) /\ (m.active[v] <=> k.timer[v])
  PROVE  Changed(m, u, b, Stopped(m))
<1>0. u \in Timers
  BY ClockAssumption
<1>1. \A v \in Thread : Stops(v) <=> v = u /\ k.timer[u] /\ ~b
  BY DEF Stops
<1>2. CASE k.timer[u] /\ ~b
  <2>1. (CHOOSE v \in Thread : Stops(v)) = u
    BY <1>1, <1>2
  <2>2. Stopped(m) = rt_timer_stop(m, u)
    BY <1>1, <1>2, <2>1 DEF Stopped
  <2>3. b = FALSE
    BY <1>2
  <2>4. Contains(m.list, u) <=> m.active[u]
    OBVIOUS
  <2>5. Changed(m, u, FALSE, rt_timer_stop(m, u))
    BY <1>0, <2>4, StopLemma
  <2>. QED BY <2>2, <2>3, <2>5
<1>3. CASE ~(k.timer[u] /\ ~b)
  <2>1. Stopped(m) = m /\ b = k.timer[u]
    BY <1>1, <1>3 DEF Stopped
  <2>2. m.active \in [Timers -> BOOLEAN]
    BY DEF TimersOK, TimerRecord
  <2>3. m.active[u] = b
    BY <1>0, <2>1, <2>2
  <2>4. m.active = [m.active EXCEPT ![u] = b]
    BY <1>0, <2>2, <2>3
  <2>. QED BY <2>1, <2>4 DEF Changed
<1>. QED BY <1>2, <1>3

-----------------------------------------------------------------------------
(* One lemma per action *)

\* The parts of the invariant that the steps use most.
LEMMA ClockBasics ==
  ASSUME ClockInv
  PROVE  /\ IInv /\ TimerInv(k.timer, tm, call, stray) /\ TimersOK(tm)
         /\ k.cur \in Thread /\ k.timer \in [Thread -> BOOLEAN]
         /\ call \in [Thread -> TimerCall]
         /\ AppTimer \subseteq Timers /\ Thread \subseteq Timers /\ AppTimer \cap Thread = {}
BY Basics, ClockAssumption DEF ClockInv, TimerInv

\* A thread in a call about x is the only one.
LEMMA OnlyCaller ==
  ASSUME ClockInv, NEW label \in {"read", "link", "remove", "clear"} \cup Loaded, NEW x \in AppTimer,
         At(label, x)
  PROVE  /\ call[k.cur] = [at |-> label, on |-> x]
         /\ \A u \in Thread \ {k.cur} : call[u].at # "none" => call[u].on # x
<1>1. call[k.cur] = [at |-> label, on |-> x] /\ label # "none"
  BY DEF At, Loaded
<1>. QED BY <1>1, ClockBasics DEF TimerInv

\* A thread that has taken x out finds it out.
LEMMA OutOfList ==
  ASSUME ClockInv, NEW t \in Thread, NEW label \in {"read", "link", "clear"}, NEW x,
         call[t] = [at |-> label, on |-> x]
  PROVE  ~Contains(tm.list, x)
<1>1. call[t].at = label /\ call[t].on = x
  OBVIOUS
<1>2. call[t].at \in {"read", "link", "clear"} => ~Contains(tm.list, call[t].on)
  BY DEF ClockInv, TimerInv
<1>. QED BY <1>1, <1>2

\* If nobody is about to clear its flag, it says whether the timer is linked,
\* unless the timer is a stray one.
LEMMA FlagExact ==
  ASSUME ClockInv, NEW x \in AppTimer,
         \A u \in Thread : call[u].at = "clear" => call[u].on # x
  PROVE  x \in stray \/ (Contains(tm.list, x) <=> tm.active[x])
<1>1. ~\E t \in Thread : call[t] = [at |-> "clear", on |-> x]
  OBVIOUS
<1>. QED BY <1>1 DEF ClockInv, TimerInv

\* rt_timer_start takes x out and clears its flag in one critical section.
LEMMA TimerStartStep ==
  ASSUME ClockInv, NEW x \in AppTimer, TimerStart(x) PROVE ClockInv'
<1>0. x \in Timers /\ TimersOK(tm) /\ k.cur \in Thread /\ tm.active \in [Timers -> BOOLEAN]
  BY ClockBasics DEF TimersOK, TimerRecord
<1>1. /\ call[k.cur] = NoCall /\ \A t \in Thread : call[t].at # "none" => call[t].on # x
      /\ tm' = Unlink(tm, x) /\ call' = [call EXCEPT ![k.cur] = [at |-> "read", on |-> x]]
      /\ stray' = stray \ {x} /\ UNCHANGED <<k, pc, arg, isr, due>>
  BY DEF TimerStart, MayCall, Go
<1>2. Changed(tm, x, FALSE, tm')
  BY <1>0, <1>1, UnlinkLemma
<1>3. [at |-> "read", on |-> x] \in TimerCall
  BY DEF TimerCall
<1>4. MyCall(tm, call, stray, tm', stray', x, k.cur, [at |-> "read", on |-> x])
  BY <1>0, <1>1, <1>2 DEF MyCall, Changed
<1>5. TimersOK(tm')
  BY <1>2 DEF Changed
<1>6. TimerInv(k.timer, tm', call', stray')
  BY <1>0, <1>1, <1>3, <1>4, <1>5, CallKeeps, ClockBasics
<1>. QED BY <1>1, <1>6 DEF ClockInv, IInv

\* It computes the timeout with interrupts enabled; x stays out of the list.
LEMMA TimerReadStep ==
  ASSUME ClockInv, NEW x \in AppTimer, TimerRead(x) PROVE ClockInv'
<1>0. x \in Timers /\ TimersOK(tm) /\ k.cur \in Thread
  BY ClockBasics
<1>1. /\ At("read", x) /\ tm' = SetTimeout(tm, x) /\ due' = [due EXCEPT ![x] = tm.init[x]]
      /\ call' = [call EXCEPT ![k.cur] = [at |-> "link", on |-> x]]
      /\ UNCHANGED <<k, pc, arg, isr, stray>>
  BY DEF TimerRead, Go
<1>2. TimersOK(tm') /\ tm'.list = tm.list /\ tm'.active = tm.active /\ tm'.periodic = tm.periodic
  BY <1>0, <1>1, SetTimeoutLemma
<1>3. /\ call[k.cur] = [at |-> "read", on |-> x]
      /\ \A u \in Thread \ {k.cur} : call[u].at # "none" => call[u].on # x
  BY <1>1, OnlyCaller
<1>4. ~Contains(tm.list, x)
  BY <1>0, <1>3, OutOfList
<1>5. (x \in stray \/ (Contains(tm.list, x) <=> tm.active[x])) /\ stray' = stray
  BY <1>0, <1>1, <1>3, FlagExact
<1>6. [at |-> "link", on |-> x] \in TimerCall
  BY DEF TimerCall
<1>7. MyCall(tm, call, stray, tm', stray', x, k.cur, [at |-> "link", on |-> x])
  BY ONLY <1>0, <1>2, <1>3, <1>4, <1>5 DEF MyCall
<1>8. TimerInv(k.timer, tm', call', stray')
  BY <1>0, <1>1, <1>2, <1>6, <1>7, CallKeeps, ClockBasics
<1>9. due' \in [Timers -> Int]
  BY <1>0, <1>1, DelayInt DEF ClockInv
<1>. QED BY <1>1, <1>8, <1>9 DEF ClockInv, IInv

\* It links x, which nobody else has linked since, and sets the flag.
LEMMA TimerLinkStep ==
  ASSUME ClockInv, NEW x \in AppTimer, TimerLink(x) PROVE ClockInv'
<1>0. x \in Timers /\ TimersOK(tm) /\ k.cur \in Thread /\ tm.active \in [Timers -> BOOLEAN]
  BY ClockBasics DEF TimersOK, TimerRecord
<1>1. /\ At("link", x) /\ tm' = Link(tm, x)
      /\ call' = [call EXCEPT ![k.cur] = NoCall]
      /\ UNCHANGED <<k, pc, arg, isr, due, stray>>
  BY DEF TimerLink, Go
<1>2. /\ call[k.cur] = [at |-> "link", on |-> x]
      /\ \A u \in Thread \ {k.cur} : call[u].at # "none" => call[u].on # x
  BY <1>1, OnlyCaller
<1>3. ~Contains(tm.list, x)
  BY <1>0, <1>2, OutOfList
<1>4. Changed(tm, x, TRUE, tm')
  BY <1>0, <1>1, <1>3, LinkTimerLemma
<1>5. NoCall \in TimerCall
  BY DEF TimerCall
<1>6. MyCall(tm, call, stray, tm', stray', x, k.cur, NoCall)
  BY <1>0, <1>1, <1>2, <1>4, CallFacts DEF MyCall, Changed
<1>7. TimersOK(tm')
  BY <1>4 DEF Changed
<1>8. TimerInv(k.timer, tm', call', stray')
  BY <1>0, <1>1, <1>5, <1>6, <1>7, CallKeeps, ClockBasics
<1>. QED BY <1>1, <1>8 DEF ClockInv, IInv

\* rt_timer_stop finds the flag set and changes nothing yet.
LEMMA TimerStopStep ==
  ASSUME ClockInv, NEW x \in AppTimer, TimerStop(x) PROVE ClockInv'
<1>0. x \in Timers /\ TimersOK(tm) /\ k.cur \in Thread
  BY ClockBasics
<1>1. /\ call[k.cur] = NoCall /\ \A t \in Thread : call[t].at # "none" => call[t].on # x
      /\ call' = [call EXCEPT ![k.cur] = [at |-> "remove", on |-> x]]
      /\ UNCHANGED <<k, pc, arg, tm, isr, due, stray>>
  BY DEF TimerStop, MayCall, Go
<1>2. x \in stray \/ (Contains(tm.list, x) <=> tm.active[x])
  BY <1>1, FlagExact
<1>3. [at |-> "remove", on |-> x] \in TimerCall
  BY DEF TimerCall
<1>4. MyCall(tm, call, stray, tm, stray, x, k.cur, [at |-> "remove", on |-> x])
  BY <1>0, <1>1, <1>2 DEF MyCall
<1>5. TimerInv(k.timer, tm, call', stray)
  BY <1>0, <1>1, <1>3, <1>4, CallKeeps, ClockBasics
<1>. QED BY <1>1, <1>5 DEF ClockInv, IInv

\* It takes x out, unless x has expired since; the flag is stale from here on.
LEMMA TimerRemoveStep ==
  ASSUME ClockInv, NEW x \in AppTimer, TimerRemove(x) PROVE ClockInv'
<1>0. x \in Timers /\ TimersOK(tm) /\ k.cur \in Thread
  BY ClockBasics
<1>1. /\ At("remove", x) /\ tm' = _rt_timer_remove(tm, x)
      /\ call' = [call EXCEPT ![k.cur] = [at |-> "clear", on |-> x]]
      /\ stray' = stray \ {x} /\ UNCHANGED <<k, pc, arg, isr, due>>
  BY DEF TimerRemove, Go
<1>2. /\ call[k.cur] = [at |-> "remove", on |-> x]
      /\ \A u \in Thread \ {k.cur} : call[u].at # "none" => call[u].on # x
  BY <1>1, OnlyCaller
<1>3. /\ TimersOK(tm') /\ tm'.active = tm.active /\ tm'.periodic = tm.periodic
      /\ \A y : Contains(tm'.list, y) <=> Contains(tm.list, y) /\ y # x
  BY ONLY <1>0, <1>1, TimerRemoveLemma
<1>4. [at |-> "clear", on |-> x] \in TimerCall
  BY DEF TimerCall
<1>5. MyCall(tm, call, stray, tm', stray', x, k.cur, [at |-> "clear", on |-> x])
  <2>1. call[k.cur].on = x /\ [at |-> "clear", on |-> x].on = x
    BY <1>2
  <2>2. ~Contains(tm'.list, x)
    BY <1>3
  <2>3. \A y \in Timers \ {x} : /\ Contains(tm'.list, y) <=> Contains(tm.list, y)
                                /\ tm'.active[y] <=> tm.active[y]
                                /\ tm'.periodic[y] <=> tm.periodic[y]
    BY <1>3
  <2>4. \A y \in AppTimer \ {x} : y \in stray => y \in stray'
    BY <1>1
  <2>. QED BY <1>2, <2>1, <2>2, <2>3, <2>4 DEF MyCall
<1>6. TimerInv(k.timer, tm', call', stray')
  BY <1>0, <1>1, <1>3, <1>4, <1>5, CallKeeps, ClockBasics
<1>. QED BY <1>1, <1>6 DEF ClockInv, IInv

\* It clears the flag: x is still out of the list.
LEMMA TimerClearStep ==
  ASSUME ClockInv, NEW x \in AppTimer, TimerClear(x) PROVE ClockInv'
<1>0. x \in Timers /\ TimersOK(tm) /\ k.cur \in Thread
  BY ClockBasics
<1>1. /\ At("clear", x) /\ tm' = [tm EXCEPT !.active[x] = FALSE]
      /\ call' = [call EXCEPT ![k.cur] = NoCall]
      /\ UNCHANGED <<k, pc, arg, isr, due, stray>>
  BY DEF TimerClear, Go
<1>2. /\ call[k.cur] = [at |-> "clear", on |-> x]
      /\ \A u \in Thread \ {k.cur} : call[u].at # "none" => call[u].on # x
  BY <1>1, OnlyCaller
<1>3. ~Contains(tm.list, x)
  BY <1>0, <1>2, OutOfList
<1>4. /\ TimersOK(tm') /\ tm'.list = tm.list /\ tm'.periodic = tm.periodic
      /\ tm'.active = [tm.active EXCEPT ![x] = FALSE]
  BY <1>0, <1>1 DEF TimersOK, TimerRecord
<1>5. \A y \in Timers \ {x} : tm'.active[y] = tm.active[y]
  BY <1>0, <1>4 DEF TimersOK, TimerRecord
<1>6. tm'.active[x] = FALSE /\ stray' = stray
  BY <1>0, <1>1, <1>4 DEF TimersOK, TimerRecord
<1>7. NoCall \in TimerCall
  BY DEF TimerCall
<1>8. MyCall(tm, call, stray, tm', stray', x, k.cur, NoCall)
  BY ONLY <1>0, <1>2, <1>3, <1>4, <1>5, <1>6, CallFacts DEF MyCall
<1>9. TimerInv(k.timer, tm', call', stray')
  BY <1>0, <1>1, <1>4, <1>7, <1>8, CallKeeps, ClockBasics
<1>. QED BY <1>1, <1>9 DEF ClockInv, IInv

\* RT_TIMER_CTRL_SET_TIME changes neither the list nor the flags.
LEMMA TimerSetTimeStep ==
  ASSUME ClockInv, NEW x \in AppTimer, NEW n \in Delay, TimerSetTime(x, n) PROVE ClockInv'
<1>0. x \in Timers /\ TimersOK(tm)
  BY ClockBasics
<1>1. /\ tm' = [tm EXCEPT !.init[x] = n]
      /\ UNCHANGED <<k, pc, arg, isr, call, due, stray>>
  BY DEF TimerSetTime
<1>2. /\ TimersOK(tm') /\ tm'.list = tm.list /\ tm'.active = tm.active
      /\ tm'.periodic = tm.periodic
  BY <1>0, <1>1 DEF TimersOK, TimerRecord
<1>3. TimerInv(k.timer, tm', call, stray)
  BY <1>2 DEF ClockInv, TimerInv
<1>. QED BY <1>1, <1>3 DEF ClockInv, IInv

\* The other commands load the flags and change nothing yet.
LEMMA TimerLoadStep ==
  ASSUME ClockInv, NEW x \in AppTimer, TimerLoad(x) PROVE ClockInv'
<1>0. x \in Timers /\ TimersOK(tm) /\ k.cur \in Thread
  BY ClockBasics
<1>1. PICK label \in Loaded : call' = [call EXCEPT ![k.cur] = [at |-> label, on |-> x]]
  BY DEF TimerLoad, Go, Loaded
<1>2. /\ call[k.cur] = NoCall /\ \A t \in Thread : call[t].at # "none" => call[t].on # x
      /\ UNCHANGED <<k, pc, arg, tm, isr, due, stray>>
  BY DEF TimerLoad, MayCall
<1>3. x \in stray \/ (Contains(tm.list, x) <=> tm.active[x])
  BY <1>2, FlagExact
<1>4. [at |-> label, on |-> x] \in TimerCall /\ label \notin {"read", "link", "clear"}
  BY DEF TimerCall, Loaded
<1>5. MyCall(tm, call, stray, tm, stray, x, k.cur, [at |-> label, on |-> x])
  BY <1>0, <1>2, <1>3, <1>4 DEF MyCall
<1>6. TimerInv(k.timer, tm, call', stray)
  BY <1>0, <1>1, <1>4, <1>5, CallKeeps, ClockBasics
<1>. QED BY <1>2, <1>6 DEF ClockInv, IInv

\* They store the flags: x is a stray timer if its flag is another one now.
LEMMA TimerStoreStep ==
  ASSUME ClockInv, NEW x \in AppTimer, NEW label \in Loaded, TimerStore(x, label)
  PROVE  ClockInv'
<1> DEFINE on == label \in {"oneshot_on", "periodic_on"}
           re == label \in {"periodic_on", "periodic_off"}
<1>a. x \in Timers /\ TimersOK(tm) /\ k.cur \in Thread /\ call \in [Thread -> TimerCall]
  BY ClockBasics
<1>b. on \in BOOLEAN /\ re \in BOOLEAN
  OBVIOUS
<1>0. x \in Timers /\ TimersOK(tm) /\ k.cur \in Thread /\ on \in BOOLEAN /\ re \in BOOLEAN
  BY <1>a, <1>b
<1>1. /\ At(label, x) /\ tm' = [tm EXCEPT !.active[x] = on, !.periodic[x] = re]
      /\ stray' = IF tm'.active[x] = tm.active[x] THEN stray ELSE stray \cup {x}
      /\ call' = [call EXCEPT ![k.cur] = NoCall]
      /\ UNCHANGED <<k, pc, arg, isr, due>>
  BY DEF TimerStore, Go
<1> HIDE DEF on, re
<1>2. /\ call[k.cur] = [at |-> label, on |-> x]
      /\ \A u \in Thread \ {k.cur} : call[u].at # "none" => call[u].on # x
  BY <1>1, OnlyCaller
<1>3. label # "clear"
  BY DEF Loaded
<1>4. x \in stray \/ (Contains(tm.list, x) <=> tm.active[x])
  <2>1. ASSUME NEW u \in Thread, call[u].at = "clear" PROVE call[u].on # x
    <3>1. CASE u = k.cur
      BY ONLY <1>2, <1>3, <2>1, <3>1
    <3>2. CASE u # k.cur
      BY ONLY u \in Thread, <1>2, <2>1, <3>2
    <3>. QED BY <3>1, <3>2
  <2>. QED BY <2>1, FlagExact
<1>5. /\ TimersOK(tm') /\ tm'.list = tm.list
      /\ tm'.active = [tm.active EXCEPT ![x] = on] /\ tm'.periodic = [tm.periodic EXCEPT ![x] = re]
  BY <1>0, <1>1 DEF TimersOK, TimerRecord
<1>6. \A y \in Timers \ {x} : tm'.active[y] = tm.active[y] /\ tm'.periodic[y] = tm.periodic[y]
  BY <1>0, <1>5 DEF TimersOK, TimerRecord
<1>7. x \in stray' \/ (Contains(tm'.list, x) <=> tm'.active[x])
  BY <1>1, <1>4, <1>5
<1>8. stray \subseteq stray' /\ stray' \subseteq AppTimer
  BY <1>1 DEF ClockInv
<1>9. NoCall \in TimerCall
  BY DEF TimerCall
<1>10. MyCall(tm, call, stray, tm', stray', x, k.cur, NoCall)
  BY ONLY <1>0, <1>2, <1>5, <1>6, <1>7, <1>8, CallFacts DEF MyCall
<1>11. TimerInv(k.timer, tm', call', stray')
  <2>1. call' = [call EXCEPT ![k.cur] = NoCall] /\ TimersOK(tm') /\ k.cur \in Thread
    BY <1>0, <1>1, <1>5
  <2>2. TimerInv(k.timer, tm, call, stray)
    BY ClockBasics
  <2>. QED BY ONLY x \in AppTimer, <1>9, <1>10, <2>1, <2>2, CallKeeps
<1>. QED BY <1>1, <1>8, <1>11 DEF ClockInv, IInv

=============================================================================
