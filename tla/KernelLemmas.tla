---------------------------- MODULE KernelLemmas ----------------------------
(***************************************************************************)
(* What the operations of RTKernel do to the lists of the kernel, and what *)
(* rt_schedule and the calls that block or wake a thread do to a kernel    *)
(* whose lists are sound, for every number of threads and priorities.      *)
(***************************************************************************)
EXTENDS RTKernel, SequenceTheorems, WellFoundedInduction, TLAPS

-----------------------------------------------------------------------------
(* Lists *)

\* rt_list_insert_before: the node is in the list, once if it was not there.
LEMMA AppendLemma ==
  ASSUME NEW S, NEW s \in Seq(S), NEW e \in S, IsInjective(s), ~Contains(s, e)
  PROVE  /\ Append(s, e) \in Seq(S)
         /\ IsInjective(Append(s, e))
         /\ \A x : Contains(Append(s, e), x) <=> Contains(s, x) \/ x = e
         /\ Append(s, e) # << >>
<1>1. /\ Append(s, e) \in Seq(S) /\ Len(Append(s, e)) = Len(s) + 1
      /\ \A i \in 1 .. Len(s) : Append(s, e)[i] = s[i]
      /\ Append(s, e)[Len(s) + 1] = e
  BY AppendProperties
<1>2. /\ Len(s) \in Nat /\ DOMAIN s = 1 .. Len(s)
      /\ DOMAIN Append(s, e) = 1 .. Len(s) + 1
  BY <1>1, LenProperties
<1>3. IsInjective(Append(s, e))
  BY <1>1, <1>2 DEF IsInjective, Contains
<1>4. ASSUME NEW x PROVE Contains(Append(s, e), x) <=> Contains(s, x) \/ x = e
  BY <1>1, <1>2 DEF Contains
<1>5. Append(s, e) # << >>
  BY <1>1, <1>2, EmptySeq
<1>. QED BY <1>1, <1>3, <1>4, <1>5

\* rt_list_insert_after: the same at the head of the list.
LEMMA ConsLemma ==
  ASSUME NEW S, NEW s \in Seq(S), NEW e \in S, IsInjective(s), ~Contains(s, e)
  PROVE  /\ Cons(e, s) \in Seq(S)
         /\ IsInjective(Cons(e, s))
         /\ \A x : Contains(Cons(e, s), x) <=> Contains(s, x) \/ x = e
<1>0. <<e>> \in Seq(S) /\ Len(<<e>>) = 1 /\ <<e>>[1] = e
  OBVIOUS
<1>1. /\ Cons(e, s) \in Seq(S) /\ Len(Cons(e, s)) = 1 + Len(s)
      /\ \A i \in 1 .. 1 + Len(s) : Cons(e, s)[i] = IF i <= 1 THEN <<e>>[i] ELSE s[i - 1]
  BY <1>0, ConcatProperties DEF Cons
<1>2. /\ Len(s) \in Nat /\ DOMAIN s = 1 .. Len(s)
      /\ DOMAIN Cons(e, s) = 1 .. 1 + Len(s)
  BY <1>1, LenProperties
<1>3. /\ Cons(e, s)[1] = e
      /\ \A i \in 2 .. 1 + Len(s) : Cons(e, s)[i] = s[i - 1] /\ i - 1 \in 1 .. Len(s)
      /\ \A i \in 1 .. Len(s) : i + 1 \in 2 .. 1 + Len(s) /\ Cons(e, s)[i + 1] = s[i]
  BY <1>0, <1>1, <1>2
<1>4. IsInjective(Cons(e, s))
  <2>. SUFFICES ASSUME NEW a \in 1 .. 1 + Len(s), NEW b \in 1 .. 1 + Len(s),
                       Cons(e, s)[a] = Cons(e, s)[b]
                PROVE  a = b
    BY <1>2 DEF IsInjective
  <2>1. CASE a = 1 /\ b # 1
    BY <2>1, <1>2, <1>3 DEF Contains
  <2>2. CASE a # 1 /\ b = 1
    BY <2>2, <1>2, <1>3 DEF Contains
  <2>3. CASE a # 1 /\ b # 1
    BY <2>3, <1>2, <1>3 DEF IsInjective
  <2>. QED BY <2>1, <2>2, <2>3
<1>5. ASSUME NEW x PROVE Contains(Cons(e, s), x) <=> Contains(s, x) \/ x = e
  <2>1. ASSUME Contains(s, x) \/ x = e PROVE Contains(Cons(e, s), x)
    <3>1. CASE x = e
      BY <3>1, <1>1, <1>2, <1>3 DEF Contains
    <3>2. CASE Contains(s, x)
      <4>1. PICK i \in 1 .. Len(s) : s[i] = x
        BY <3>2 DEF Contains
      <4>2. i + 1 \in 1 .. 1 + Len(s) /\ Cons(e, s)[i + 1] = x
        BY <4>1, <1>2, <1>3
      <4>. QED BY <4>2, <1>1 DEF Contains
    <3>. QED BY <2>1, <3>1, <3>2
  <2>2. ASSUME Contains(Cons(e, s), x) PROVE Contains(s, x) \/ x = e
    <3>1. PICK i \in 1 .. 1 + Len(s) : Cons(e, s)[i] = x
      BY <2>2, <1>1 DEF Contains
    <3>. QED BY <3>1, <1>2, <1>3 DEF Contains
  <2>. QED BY <2>1, <2>2
<1>. QED BY <1>1, <1>4, <1>5

\* rt_list_remove: the node is in the list no more, the others stay.
LEMMA RemoveFirstLemma ==
  ASSUME NEW S, NEW s \in Seq(S), NEW e, IsInjective(s)
  PROVE  /\ RemoveFirst(s, e) \in Seq(S)
         /\ IsInjective(RemoveFirst(s, e))
         /\ \A x : Contains(RemoveFirst(s, e), x) <=> Contains(s, x) /\ x # e
         /\ ~Contains(s, e) => RemoveFirst(s, e) = s
<1>1. CASE ~Contains(s, e)
  <2>1. RemoveFirst(s, e) = s
    BY <1>1 DEF RemoveFirst, Contains
  <2>. QED BY <2>1, <1>1 DEF Contains
<1>2. CASE Contains(s, e)
  <2>0. Len(s) \in Nat /\ DOMAIN s = 1 .. Len(s)
    BY LenProperties
  <2>1. PICK n \in 1 .. Len(s) : s[n] = e
    BY <1>2 DEF Contains
  <2>2. {i \in 1 .. Len(s) : s[i] = e} = {n}
    BY <2>0, <2>1 DEF IsInjective
  <2>3. Min({n}) = n
    BY <2>0 DEF Min
  <2> DEFINE a == SubSeq(s, 1, n - 1)
             b == SubSeq(s, n + 1, Len(s))
             r == a \o b
  <2>4. RemoveFirst(s, e) = r
    BY <2>2, <2>3 DEF RemoveFirst
  <2> HIDE DEF a, b, r
  <2>5. /\ a \in Seq(S) /\ Len(a) = n - 1
        /\ \A i \in 1 .. n - 1 : a[i] = s[i]
    <3>1. \A i \in 1 .. n - 1 : s[i] \in S
      BY <2>0, ElementOfSeq
    <3>2. /\ a \in Seq(S)
          /\ Len(a) = IF 1 <= n - 1 THEN n - 1 - 1 + 1 ELSE 0
          /\ \A i \in 1 .. n - 1 - 1 + 1 : a[i] = s[1 + i - 1]
      BY <3>1, <2>0, SubSeqProperties DEF a
    <3>. QED BY <3>2, <2>0
  <2>6. /\ b \in Seq(S) /\ Len(b) = Len(s) - n
        /\ \A i \in 1 .. Len(s) - n : b[i] = s[n + i]
    <3>1. \A i \in n + 1 .. Len(s) : s[i] \in S
      BY <2>0, ElementOfSeq
    <3>2. /\ b \in Seq(S)
          /\ Len(b) = IF n + 1 <= Len(s) THEN Len(s) - (n + 1) + 1 ELSE 0
          /\ \A i \in 1 .. Len(s) - (n + 1) + 1 : b[i] = s[n + 1 + i - 1]
      BY <3>1, <2>0, SubSeqProperties DEF b
    <3>3. ASSUME NEW i \in 1 .. Len(s) - n PROVE b[i] = s[n + i]
      <4>1. i \in 1 .. Len(s) - (n + 1) + 1 /\ n + 1 + i - 1 = n + i
        BY <2>0
      <4>. QED BY <4>1, <3>2
    <3>4. Len(b) = Len(s) - n
      <4>1. (IF n + 1 <= Len(s) THEN Len(s) - (n + 1) + 1 ELSE 0) = Len(s) - n
        BY ONLY n \in 1 .. Len(s), Len(s) \in Nat
      <4>. QED BY ONLY <4>1, <3>2
    <3>. QED BY <3>2, <3>3, <3>4
  <2>7. /\ r \in Seq(S) /\ Len(r) = Len(s) - 1
        /\ \A i \in 1 .. Len(s) - 1 : r[i] = IF i < n THEN s[i] ELSE s[i + 1]
    <3>1. /\ a \o b \in Seq(S) /\ Len(a \o b) = Len(a) + Len(b)
          /\ \A i \in 1 .. Len(a) + Len(b) : (a \o b)[i] = IF i <= Len(a) THEN a[i] ELSE b[i - Len(a)]
      BY <2>5, <2>6, ConcatProperties
    <3>2. r = a \o b
      BY DEF r, a, b
    <3>3. Len(r) = Len(s) - 1
      <4>1. Len(r) = Len(a) + Len(b)
        BY <3>1, <3>2
      <4>2. Len(a) + Len(b) = Len(s) - 1
        BY <2>0, <2>5, <2>6
      <4>. QED BY <4>1, <4>2
    <3>4. ASSUME NEW i \in 1 .. Len(s) - 1, i < n PROVE r[i] = s[i]
      BY <3>1, <3>2, <3>4, <2>0, <2>5, <2>6
    <3>5. ASSUME NEW i \in 1 .. Len(s) - 1, ~(i < n) PROVE r[i] = s[i + 1]
      <4>1. /\ i \in 1 .. Len(a) + Len(b) /\ ~(i <= Len(a))
            /\ i - Len(a) \in 1 .. Len(s) - n /\ n + (i - Len(a)) = i + 1
        BY <3>5, <2>0, <2>5, <2>6
      <4>. QED BY <4>1, <3>1, <3>2, <2>6
    <3>. QED BY <3>1, <3>2, <3>3, <3>4, <3>5
  <2>8. DOMAIN r = 1 .. Len(s) - 1
    BY <2>0, <2>7, LenProperties
  <2>9. IsInjective(r)
    <3>. SUFFICES ASSUME NEW i \in 1 .. Len(s) - 1, NEW j \in 1 .. Len(s) - 1, r[i] = r[j]
                  PROVE  i = j
      BY <2>8 DEF IsInjective
    <3> DEFINE f(m) == IF m < n THEN m ELSE m + 1
    <3>1. /\ f(i) \in 1 .. Len(s) /\ f(j) \in 1 .. Len(s)
          /\ r[i] = s[f(i)] /\ r[j] = s[f(j)]
      BY <2>0, <2>7
    <3>2. f(i) = f(j)
      BY <3>1, <2>0 DEF IsInjective
    <3>. QED BY <3>2, <2>0
  <2>10. ASSUME NEW x PROVE Contains(r, x) <=> Contains(s, x) /\ x # e
    <3>1. ASSUME Contains(r, x) PROVE Contains(s, x) /\ x # e
      <4>1. PICK i \in 1 .. Len(s) - 1 : r[i] = x
        BY <3>1, <2>7 DEF Contains
      <4>2. PICK j \in 1 .. Len(s) : j # n /\ r[i] = s[j]
        <5>1. i \in 1 .. Len(s) /\ i + 1 \in 1 .. Len(s) /\ n \in 1 .. Len(s)
          BY <2>0
        <5>2. r[i] = IF i < n THEN s[i] ELSE s[i + 1]
          BY <2>7
        <5>. QED BY ONLY <5>1, <5>2
      <4>3. s[j] # e
        BY ONLY <4>2, <2>2
      <4>. QED BY ONLY <4>1, <4>2, <4>3, <2>0 DEF Contains
    <3>2. ASSUME Contains(s, x), x # e PROVE Contains(r, x)
      <4>1. PICK i \in 1 .. Len(s) : s[i] = x
        BY <3>2 DEF Contains
      <4>2. CASE i < n
        BY <4>1, <4>2, <2>0, <2>7 DEF Contains
      <4>3. CASE i > n
        <5>1. i - 1 \in 1 .. Len(s) - 1 /\ r[i - 1] = s[i]
          BY <4>3, <2>0, <2>7
        <5>. QED BY <5>1, <4>1, <2>7 DEF Contains
      <4>. QED BY <4>1, <4>2, <4>3, <2>0, <2>1, <3>2
    <3>. QED BY <3>1, <3>2
  <2>. QED BY <2>4, <2>7, <2>9, <2>10, <1>2 DEF r
<1>. QED BY <1>1, <1>2

\* rt_list_isempty: an empty list has no node, the first node is in the list.
LEMMA EmptyLemma ==
  ASSUME NEW S, NEW s \in Seq(S)
  PROVE  /\ s = << >> => \A x : ~Contains(s, x)
         /\ s # << >> => Head(s) \in S /\ Contains(s, Head(s))
         /\ \A x : Contains(s, x) => x \in S
         /\ (\A x \in S : ~Contains(s, x)) => s = << >>
<1>1. Len(s) \in Nat /\ DOMAIN s = 1 .. Len(s)
  BY LenProperties
<1>2. s = << >> => \A x : ~Contains(s, x)
  BY EmptySeq DEF Contains
<1>3. ASSUME s # << >> PROVE Head(s) \in S /\ Contains(s, Head(s))
  <2>1. Len(s) \in Nat \ {0}
    BY <1>3, EmptySeq
  <2>2. Head(s) = s[1] /\ Head(s) \in S
    BY <1>3, HeadTailProperties 
  <2>. QED BY <2>1, <2>2, <1>1 DEF Contains
<1>4. \A x : Contains(s, x) => x \in S
  BY ElementOfSeq DEF Contains
<1>. QED BY <1>2, <1>3, <1>4

-----------------------------------------------------------------------------
(* The kernel record *)

\* The state of a thread that waits in list q.
QueueStat(q) == IF q = "defunct" THEN "CLOSE" ELSE "SUSPEND"

\* Each list holds a thread once, and only threads in the state that belongs to
\* the list; a ready list only threads of its priority; the bitmap is exact.
ListsSound(k) ==
  /\ \A p \in Prio :
       /\ IsInjective(k.ready[p])
       /\ \A t \in Thread : Contains(k.ready[p], t) => k.stat[t] = "READY" /\ k.prio[t] = p
       /\ p \in k.group <=> k.ready[p] # << >>
  /\ \A q \in Queue :
       /\ IsInjective(k.wait[q])
       /\ \A t \in Thread : Contains(k.wait[q], t) => k.stat[t] = QueueStat(q)

\* Kernel r is k with thread t in none of its lists.
Delisted(k, t, r) ==
  /\ r \in Kernel
  /\ r = [k EXCEPT !.ready = r.ready, !.wait = r.wait]
  /\ \A p \in Prio : /\ IsInjective(r.ready[p])
                     /\ \A x : Contains(r.ready[p], x) <=> Contains(k.ready[p], x) /\ x # t
                     /\ ~Contains(k.ready[p], t) => r.ready[p] = k.ready[p]
  /\ \A q \in Queue : /\ IsInjective(r.wait[q])
                      /\ \A x : Contains(r.wait[q], x) <=> Contains(k.wait[q], x) /\ x # t
  /\ k.stat[t] # "READY" => r.ready = k.ready
  /\ (\A q \in Queue : ~Contains(k.wait[q], t)) => r.wait = k.wait

\* rt_list_remove unlinks the thread from every list, and does nothing else.
LEMMA ListRemove ==
  ASSUME NEW k \in Kernel, ListsSound(k), NEW t \in Thread
  PROVE  Delisted(k, t, rt_list_remove(k, t))
<1> DEFINE r == rt_list_remove(k, t)
<1>1. /\ \A p \in Prio : k.ready[p] \in Seq(Thread) /\ IsInjective(k.ready[p])
      /\ \A q \in Queue : k.wait[q] \in Seq(Thread) /\ IsInjective(k.wait[q])
  BY DEF Kernel, ListsSound
<1>2. /\ r.ready = [p \in Prio |-> RemoveFirst(k.ready[p], t)]
      /\ r.wait = [q \in Queue |-> RemoveFirst(k.wait[q], t)]
      /\ r = [k EXCEPT !.ready = r.ready, !.wait = r.wait]
  BY DEF rt_list_remove, Kernel
<1> HIDE DEF r
<1>3. ASSUME NEW p \in Prio
      PROVE  /\ r.ready[p] \in Seq(Thread) /\ IsInjective(r.ready[p])
             /\ \A x : Contains(r.ready[p], x) <=> Contains(k.ready[p], x) /\ x # t
             /\ ~Contains(k.ready[p], t) => r.ready[p] = k.ready[p]
  <2>1. r.ready[p] = RemoveFirst(k.ready[p], t)
    BY <1>2
  <2>. QED BY <2>1, <1>1, RemoveFirstLemma
<1>4. ASSUME NEW q \in Queue
      PROVE  /\ r.wait[q] \in Seq(Thread) /\ IsInjective(r.wait[q])
             /\ \A x : Contains(r.wait[q], x) <=> Contains(k.wait[q], x) /\ x # t
             /\ ~Contains(k.wait[q], t) => r.wait[q] = k.wait[q]
  <2>1. r.wait[q] = RemoveFirst(k.wait[q], t)
    BY <1>2
  <2>. QED BY <2>1, <1>1, RemoveFirstLemma
<1>5. r \in Kernel
  <2>1. r.ready \in [Prio -> Seq(Thread)] /\ r.wait \in [Queue -> Seq(Thread)]
    BY <1>2, <1>3, <1>4
  <2>. QED BY <2>1, <1>2 DEF Kernel
<1>6. ASSUME k.stat[t] # "READY" PROVE r.ready = k.ready
  <2>1. \A p \in Prio : r.ready[p] = k.ready[p]
    BY <1>3, <1>6 DEF ListsSound
  <2>2. k.ready = [p \in Prio |-> k.ready[p]]
    BY DEF Kernel
  <2>. QED BY <2>1, <2>2, <1>2
<1>7. ASSUME \A q \in Queue : ~Contains(k.wait[q], t) PROVE r.wait = k.wait
  <2>1. \A q \in Queue : r.wait[q] = k.wait[q]
    BY <1>4, <1>7
  <2>2. k.wait = [q \in Queue |-> k.wait[q]]
    BY DEF Kernel
  <2>. QED BY <2>1, <2>2, <1>2
<1>8. Delisted(k, t, r)
  BY <1>2, <1>3, <1>4, <1>5, <1>6, <1>7 DEF Delisted
<1>. QED BY <1>8 DEF r

\* The same about the fields that are not lists.
LEMMA ListRemoveFrame ==
  ASSUME NEW k \in Kernel, ListsSound(k), NEW t \in Thread
  PROVE  /\ rt_list_remove(k, t) \in Kernel
         /\ rt_list_remove(k, t).error = k.error /\ rt_list_remove(k, t).timer = k.timer
<1> DEFINE r == rt_list_remove(k, t)
<1>1. /\ r \in Kernel
      /\ r = [k EXCEPT !.ready = r.ready, !.wait = r.wait]
      /\ \A p \in Prio : /\ IsInjective(r.ready[p])
                         /\ \A x : Contains(r.ready[p], x) <=> Contains(k.ready[p], x) /\ x # t
                         /\ ~Contains(k.ready[p], t) => r.ready[p] = k.ready[p]
      /\ \A q \in Queue : /\ IsInjective(r.wait[q])
                          /\ \A x : Contains(r.wait[q], x) <=> Contains(k.wait[q], x) /\ x # t
      /\ k.stat[t] # "READY" => r.ready = k.ready
      /\ (\A q \in Queue : ~Contains(k.wait[q], t)) => r.wait = k.wait
  <2>1. Delisted(k, t, r)
    BY ListRemove
  <2>. QED BY ONLY <2>1 DEF Delisted
<1> HIDE DEF r
<1>2. r \in Kernel /\ r = [k EXCEPT !.ready = r.ready, !.wait = r.wait]
  BY <1>1
<1>3. r.error = k.error /\ r.timer = k.timer
  BY ONLY <1>2, k \in Kernel DEF Kernel
<1>. QED BY <1>2, <1>3 DEF r

\* The node of thread t is in no list.
Unlinked(k, t) ==
  /\ \A p \in Prio : ~Contains(k.ready[p], t)
  /\ \A q \in Queue : ~Contains(k.wait[q], t)

\* The fields of an unlinked thread may change at will.
LEMMA UnlinkedChange ==
  ASSUME NEW k \in Kernel, ListsSound(k), NEW t \in Thread, Unlinked(k, t),
         NEW r, r.ready = k.ready, r.group = k.group, r.wait = k.wait,
         \A x \in Thread : x # t => r.stat[x] = k.stat[x] /\ r.prio[x] = k.prio[x]
  PROVE  ListsSound(r) /\ Unlinked(r, t)
BY DEF ListsSound, Unlinked

\* rt_schedule_remove_thread unlinks the thread and keeps the bitmap exact.
LEMMA SchedRemove ==
  ASSUME NEW k \in Kernel, ListsSound(k), NEW t \in Thread,
         NEW r, r = rt_schedule_remove_thread(k, t)
  PROVE  /\ r \in Kernel
         /\ r = [k EXCEPT !.ready = r.ready, !.wait = r.wait, !.group = r.group]
         /\ ListsSound(r)
         /\ Unlinked(r, t)
         /\ \A p \in Prio : \A x : Contains(r.ready[p], x) <=> Contains(k.ready[p], x) /\ x # t
         /\ \A q \in Queue : \A x : Contains(r.wait[q], x) <=> Contains(k.wait[q], x) /\ x # t
         /\ (\A q \in Queue : ~Contains(k.wait[q], t)) => r.wait = k.wait
<1> DEFINE m == rt_list_remove(k, t)
           pt == k.prio[t]
<1>1. /\ m \in Kernel
      /\ m = [k EXCEPT !.ready = m.ready, !.wait = m.wait]
      /\ \A p \in Prio : /\ IsInjective(m.ready[p])
                         /\ \A x : Contains(m.ready[p], x) <=> Contains(k.ready[p], x) /\ x # t
                         /\ ~Contains(k.ready[p], t) => m.ready[p] = k.ready[p]
      /\ \A q \in Queue : /\ IsInjective(m.wait[q])
                          /\ \A x : Contains(m.wait[q], x) <=> Contains(k.wait[q], x) /\ x # t
      /\ k.stat[t] # "READY" => m.ready = k.ready
      /\ (\A q \in Queue : ~Contains(k.wait[q], t)) => m.wait = k.wait
  <2>1. Delisted(k, t, m)
    BY ListRemove
  <2>. QED BY ONLY <2>1 DEF Delisted
<1> HIDE DEF m
<1> DEFINE g == IF m.ready[pt] = << >> THEN m.group \ {pt} ELSE m.group
<1>2. r = [m EXCEPT !.group = g]
  BY DEF rt_schedule_remove_thread, m
<1>a. m.group = k.group /\ m.stat = k.stat /\ m.prio = k.prio
  BY <1>1 DEF Kernel
<1>b. g \in SUBSET Prio
  BY <1>1 DEF Kernel
<1>c. g = IF m.ready[pt] = << >> THEN k.group \ {pt} ELSE k.group
  BY <1>a
<1> HIDE DEF g
<1>d. /\ r \in Kernel /\ r.ready = m.ready /\ r.wait = m.wait /\ r.group = g
      /\ r.stat = m.stat /\ r.prio = m.prio
  BY <1>1, <1>2, <1>b DEF Kernel
<1>e. r = [k EXCEPT !.ready = r.ready, !.wait = r.wait, !.group = r.group]
  BY <1>1, <1>2, <1>d DEF Kernel
<1>3. /\ r \in Kernel /\ r.ready = m.ready /\ r.wait = m.wait
      /\ r.group = IF m.ready[pt] = << >> THEN k.group \ {pt} ELSE k.group
      /\ r.stat = k.stat /\ r.prio = k.prio
  BY <1>a, <1>c, <1>d
<1>4. \A p \in Prio : p \in r.group <=> r.ready[p] # << >>
  <2>. SUFFICES ASSUME NEW p \in Prio PROVE p \in r.group <=> m.ready[p] # << >>
    BY <1>3
  <2>1. CASE p # pt
    BY <2>1, <1>1, <1>3 DEF ListsSound
  <2>2. CASE p = pt /\ m.ready[p] = << >>
    BY <2>2, <1>3
  <2>3. CASE p = pt /\ m.ready[p] # << >>
    <3>1. m.ready[p] \in Seq(Thread) /\ k.ready[p] \in Seq(Thread)
      BY <1>1 DEF Kernel
    <3>2. Contains(m.ready[p], Head(m.ready[p]))
      BY <2>3, <3>1, EmptyLemma
    <3>3. k.ready[p] # << >>
      BY <3>1, <3>2, <1>1, EmptyLemma
    <3>. QED BY <2>3, <3>3, <1>3 DEF ListsSound
  <2>. QED BY <2>1, <2>2, <2>3
<1>5. ListsSound(r)
  <2>1. ASSUME NEW p \in Prio
        PROVE  /\ IsInjective(r.ready[p])
               /\ \A x \in Thread : Contains(r.ready[p], x) => r.stat[x] = "READY" /\ r.prio[x] = p
    BY <1>1, <1>3 DEF ListsSound
  <2>2. ASSUME NEW q \in Queue
        PROVE  /\ IsInjective(r.wait[q])
               /\ \A x \in Thread : Contains(r.wait[q], x) => r.stat[x] = QueueStat(q)
    BY <1>1, <1>3 DEF ListsSound
  <2>. QED BY <1>4, <2>1, <2>2 DEF ListsSound
<1>6. Unlinked(r, t)
  BY <1>1, <1>3 DEF Unlinked
<1>. QED BY <1>1, <1>3, <1>e, <1>5, <1>6

\* rt_schedule_insert_thread of an unlinked thread other than the current one.
LEMMA InsertThread ==
  ASSUME NEW k \in Kernel, ListsSound(k), NEW t \in Thread, Unlinked(k, t), t # k.cur,
         NEW r, r = rt_schedule_insert_thread(k, t)
  PROVE  /\ r \in Kernel
         /\ r = [k EXCEPT !.ready = r.ready, !.group = r.group, !.stat = r.stat]
         /\ r.stat = [k.stat EXCEPT ![t] = "READY"]
         /\ ListsSound(r)
         /\ \A p \in Prio : \A x : Contains(r.ready[p], x)
                                     <=> Contains(k.ready[p], x) \/ (x = t /\ p = k.prio[t])
<1> DEFINE pt == k.prio[t]
<1>1. /\ pt \in Prio /\ k.ready[pt] \in Seq(Thread) /\ IsInjective(k.ready[pt])
      /\ ~Contains(k.ready[pt], t)
  BY DEF Kernel, ListsSound, Unlinked
<1>2. /\ Append(k.ready[pt], t) \in Seq(Thread)
      /\ IsInjective(Append(k.ready[pt], t))
      /\ \A x : Contains(Append(k.ready[pt], t), x) <=> Contains(k.ready[pt], x) \/ x = t
      /\ Append(k.ready[pt], t) # << >>
  BY <1>1, AppendLemma
<1>3. /\ r.ready = [k.ready EXCEPT ![pt] = Append(k.ready[pt], t)]
      /\ r.group = k.group \cup {pt}
      /\ r.stat = [k.stat EXCEPT ![t] = "READY"]
      /\ r.wait = k.wait /\ r.prio = k.prio
      /\ r = [k EXCEPT !.ready = r.ready, !.group = r.group, !.stat = r.stat]
  BY DEF rt_schedule_insert_thread, Kernel
<1>a. r.ready \in [Prio -> Seq(Thread)]
  <2>1. k.ready \in [Prio -> Seq(Thread)]
    BY DEF Kernel
  <2> DEFINE new == Append(k.ready[pt], t)
  <2>2. new \in Seq(Thread) /\ pt \in Prio /\ r.ready = [k.ready EXCEPT ![pt] = new]
    BY <1>1, <1>2, <1>3
  <2> HIDE DEF new
  <2>. QED BY ONLY <2>1, <2>2
<1>b. r.group \in SUBSET Prio /\ r.stat \in [Thread -> Stat]
  BY <1>1, <1>3 DEF Kernel, Stat
<1>4. r \in Kernel
  BY <1>3, <1>a, <1>b DEF Kernel
<1>5. ASSUME NEW p \in Prio
      PROVE  /\ p = pt => r.ready[p] = Append(k.ready[pt], t)
             /\ p # pt => r.ready[p] = k.ready[p]
  BY <1>3, ZenonT(40) DEF Kernel
<1>6. \A p \in Prio : \A x : Contains(r.ready[p], x)
                               <=> Contains(k.ready[p], x) \/ (x = t /\ p = pt)
  BY <1>2, <1>5
<1>7. ListsSound(r)
  <2>1. ASSUME NEW p \in Prio
        PROVE  /\ IsInjective(r.ready[p])
               /\ p \in r.group <=> r.ready[p] # << >>
    BY <1>2, <1>3, <1>5 DEF ListsSound
  <2>2. ASSUME NEW p \in Prio, NEW x \in Thread, Contains(r.ready[p], x)
        PROVE  r.stat[x] = "READY" /\ r.prio[x] = p
    <3>1. r.stat[t] = "READY" /\ (x # t => r.stat[x] = k.stat[x]) /\ r.prio[x] = k.prio[x]
      BY <1>3 DEF Kernel
    <3>2. Contains(k.ready[p], x) \/ (x = t /\ p = pt)
      BY <2>2, <1>6
    <3>. QED BY <3>1, <3>2 DEF ListsSound
  <2>3. ASSUME NEW q \in Queue
        PROVE  /\ IsInjective(r.wait[q])
               /\ \A x \in Thread : Contains(r.wait[q], x) => r.stat[x] = QueueStat(q)
    BY <1>3 DEF ListsSound, Unlinked, Kernel
  <2>. QED BY <2>1, <2>2, <2>3 DEF ListsSound
<1>. QED BY <1>3, <1>4, <1>6, <1>7

-----------------------------------------------------------------------------
(* Scheduling *)

\* __rt_ffs finds the lowest set bit of a bitmap that is not empty.
LEMMA MinLemma ==
  ASSUME NEW S \in SUBSET Nat, S # {}
  PROVE  Min(S) \in S /\ \A y \in S : Min(S) <= y
<1> DEFINE R == OpToRel(<, Nat)
<1>1. IsWellFoundedOn(R, Nat)
  BY NatLessThanWellFounded
<1>2. \A x, y \in Nat : x < y => <<x, y>> \in R
  BY DEF OpToRel
<1> HIDE DEF R
<1>3. \E x \in S : \A y \in S : ~(<<y, x>> \in R)
  BY <1>1, WFMin
<1>4. \E x \in S : \A y \in S : x <= y
  <2>1. PICK x \in S : \A y \in S : ~(<<y, x>> \in R)
    BY <1>3
  <2>2. ASSUME NEW y \in S PROVE x <= y
    <3>1. x \in Nat /\ y \in Nat /\ ~(y < x)
      BY <1>2, <2>1
    <3>. QED BY <3>1
  <2>. QED BY <2>2
<1>. QED BY <1>4 DEF Min

\* A kernel between two critical sections: the current thread is in no ready
\* list, nobody else is RUNNING, and timers run for suspended threads only.
KernelSound(k) ==
  /\ k \in Kernel
  /\ ListsSound(k)
  /\ k.stat[k.cur] # "READY"
  /\ \A t \in Thread : k.stat[t] = "RUNNING" => t = k.cur
  /\ \A t \in Thread : k.timer[t] => k.stat[t] = "SUSPEND"

\* A thread in a state that belongs to no list is unlinked.
LEMMA StatUnlinked ==
  ASSUME NEW k \in Kernel, ListsSound(k), NEW t \in Thread,
         k.stat[t] \in {"NONE", "INIT", "RUNNING"}
  PROVE  Unlinked(k, t)
BY DEF ListsSound, Unlinked, QueueStat

\* Removing an unlinked thread changes nothing.
LEMMA RemoveUnlinked ==
  ASSUME NEW k \in Kernel, ListsSound(k), NEW t \in Thread, Unlinked(k, t)
  PROVE  rt_list_remove(k, t) = k /\ rt_schedule_remove_thread(k, t) = k
<1> DEFINE m == rt_list_remove(k, t)
<1>1. /\ m \in Kernel
      /\ m = [k EXCEPT !.ready = m.ready, !.wait = m.wait]
      /\ \A p \in Prio : /\ IsInjective(m.ready[p])
                         /\ \A x : Contains(m.ready[p], x) <=> Contains(k.ready[p], x) /\ x # t
                         /\ ~Contains(k.ready[p], t) => m.ready[p] = k.ready[p]
      /\ \A q \in Queue : /\ IsInjective(m.wait[q])
                          /\ \A x : Contains(m.wait[q], x) <=> Contains(k.wait[q], x) /\ x # t
      /\ k.stat[t] # "READY" => m.ready = k.ready
      /\ (\A q \in Queue : ~Contains(k.wait[q], t)) => m.wait = k.wait
  <2>1. Delisted(k, t, m)
    BY ListRemove
  <2>. QED BY ONLY <2>1 DEF Delisted
<1> DEFINE g == IF m.ready[k.prio[t]] = << >> THEN m.group \ {k.prio[t]} ELSE m.group
<1>2. rt_schedule_remove_thread(k, t) = [m EXCEPT !.group = g]
  BY DEF rt_schedule_remove_thread
<1> HIDE DEF m
<1>3. m.ready = k.ready /\ m.wait = k.wait
  <2>1. m.ready = [p \in Prio |-> m.ready[p]] /\ k.ready = [p \in Prio |-> k.ready[p]]
    BY <1>1 DEF Kernel
  <2>2. \A p \in Prio : m.ready[p] = k.ready[p]
    BY <1>1 DEF Unlinked
  <2>. QED BY <1>1, <2>1, <2>2 DEF Unlinked
<1>4. m = k
  <2>1. k = [k EXCEPT !.ready = k.ready, !.wait = k.wait]
    BY DEF Kernel
  <2>. QED BY <1>1, <1>3, <2>1
<1>5. g = k.group
  <2>1. k.prio[t] \in Prio
    BY DEF Kernel
  <2>2. k.ready[k.prio[t]] = << >> => k.prio[t] \notin k.group
    BY <2>1 DEF ListsSound
  <2>3. k.ready[k.prio[t]] = << >> => k.group \ {k.prio[t]} = k.group
    BY <2>2
  <2>. QED BY <1>4, <2>3
<1> HIDE DEF g
<1>6. [k EXCEPT !.group = k.group] = k
  BY DEF Kernel
<1>. QED BY <1>2, <1>4, <1>5, <1>6 DEF m

\* The CPU has changed hands: what SwitchTo does.
Switched(k, r) ==
  /\ r.wait = k.wait /\ r.prio = k.prio /\ r.error = k.error /\ r.slice = k.slice
  /\ r.timer = k.timer /\ r.lock = k.lock
  /\ r.cur \in Thread /\ r.cur # k.cur
  /\ k.stat[r.cur] = "READY" /\ Contains(k.ready[k.prio[r.cur]], r.cur)
  /\ r.stat = [t \in Thread |->
                 IF t = r.cur THEN "RUNNING"
                 ELSE IF t = k.cur /\ k.stat[t] = "RUNNING" THEN "READY" ELSE k.stat[t]]
  /\ \A p \in Prio : \A x : Contains(r.ready[p], x) <=>
       \/ Contains(k.ready[p], x) /\ x # r.cur
       \/ x = k.cur /\ k.stat[x] = "RUNNING" /\ p = k.prio[x]

\* The switch keeps the kernel sound.
LEMMA SwitchLemma ==
  ASSUME NEW k, KernelSound(k), NEW p \in Prio, NEW to \in Thread, Contains(k.ready[p], to),
         NEW r, r = SwitchTo(k, to)
  PROVE  Switched(k, r) /\ KernelSound(r) /\ r.cur = to
<1> DEFINE c == k.cur
           moved == [k EXCEPT !.cur = to]
           kept == IF k.stat[c] = "RUNNING"
                   THEN rt_schedule_insert_thread(moved, c) ELSE moved
           m == rt_schedule_remove_thread(kept, to)
<1>1. k \in Kernel /\ c \in Thread /\ k.stat[to] = "READY" /\ k.prio[to] = p /\ to # c
  BY DEF KernelSound, ListsSound, Kernel
<1>2. /\ moved \in Kernel /\ ListsSound(moved) /\ moved.cur = to
      /\ moved.stat = k.stat /\ moved.prio = k.prio /\ moved.ready = k.ready
      /\ moved.wait = k.wait /\ moved.timer = k.timer
  BY <1>1 DEF Kernel, KernelSound, ListsSound
<1> DEFINE Frame(x) == /\ x.wait = k.wait /\ x.prio = k.prio /\ x.error = k.error
                       /\ x.slice = k.slice /\ x.timer = k.timer /\ x.lock = k.lock
<1>m. moved \in Kernel /\ ListsSound(moved) /\ c # moved.cur
  BY <1>1, <1>2
<1>n. Frame(moved)
  BY <1>1 DEF Kernel
<1>3. /\ kept \in Kernel /\ ListsSound(kept) /\ kept.cur = to /\ Frame(kept)
      /\ kept.stat = [t \in Thread |-> IF t = c /\ k.stat[t] = "RUNNING"
                                       THEN "READY" ELSE k.stat[t]]
      /\ \A pp \in Prio : \A x : Contains(kept.ready[pp], x) <=>
           Contains(k.ready[pp], x) \/ (x = c /\ k.stat[x] = "RUNNING" /\ pp = k.prio[x])
  <2>1. CASE k.stat[c] = "RUNNING"
    <3> DEFINE n == rt_schedule_insert_thread(moved, c)
    <3>1. Unlinked(moved, c)
      BY <2>1, <1>1, <1>2, StatUnlinked
    <3>3. kept = n
      BY <2>1
    <3>t. c \in Thread
      BY <1>1
    <3> HIDE DEF moved, c
    <3>2. /\ n \in Kernel
          /\ n = [moved EXCEPT !.ready = n.ready, !.group = n.group, !.stat = n.stat]
          /\ n.stat = [moved.stat EXCEPT ![c] = "READY"]
          /\ ListsSound(n)
          /\ \A pp \in Prio : \A x : Contains(n.ready[pp], x)
                <=> Contains(moved.ready[pp], x) \/ (x = c /\ pp = moved.prio[c])
      BY <1>m, <3>1, <3>t, InsertThread
    <3> HIDE DEF n, kept
    <3>r. n = [moved EXCEPT !.ready = n.ready, !.group = n.group, !.stat = n.stat]
      BY <3>2
    <3>4. n.cur = moved.cur /\ Frame(n)
      BY <3>r, <1>m, <1>n DEF Kernel
    <3>5. n.stat = [t \in Thread |-> IF t = c /\ k.stat[t] = "RUNNING"
                                     THEN "READY" ELSE k.stat[t]]
      BY <3>2, <3>t, <1>1, <1>2, <2>1, ZenonT(40) DEF Kernel
    <3>6. \A pp \in Prio : \A x : Contains(n.ready[pp], x) <=>
            Contains(k.ready[pp], x) \/ (x = c /\ k.stat[x] = "RUNNING" /\ pp = k.prio[x])
      BY <3>2, <1>2, <2>1
    <3> HIDE DEF Frame
    <3>. QED BY <3>2, <3>3, <3>4, <3>5, <3>6, <1>2
  <2>2. CASE k.stat[c] # "RUNNING"
    <3>1. kept = moved
      BY <2>2
    <3>3. moved.stat = [t \in Thread |-> IF t = c /\ k.stat[t] = "RUNNING"
                                         THEN "READY" ELSE k.stat[t]]
      BY <1>1, <1>2, <2>2 DEF Kernel
    <3> HIDE DEF moved, kept, Frame
    <3>. QED BY <3>1, <3>3, <1>n, <1>2, <2>2
  <2>. QED BY <2>1, <2>2
<1>4. r = [m EXCEPT !.stat[to] = "RUNNING"]
  BY DEF SwitchTo
<1> HIDE DEF moved, kept
<1>k. kept \in Kernel /\ ListsSound(kept)
  BY <1>3
<1>5. /\ m \in Kernel
      /\ m = [kept EXCEPT !.ready = m.ready, !.wait = m.wait, !.group = m.group]
      /\ ListsSound(m)
      /\ Unlinked(m, to)
      /\ \A pp \in Prio : \A x : Contains(m.ready[pp], x) <=> Contains(kept.ready[pp], x) /\ x # to
      /\ \A q \in Queue : \A x : Contains(m.wait[q], x) <=> Contains(kept.wait[q], x) /\ x # to
      /\ (\A q \in Queue : ~Contains(kept.wait[q], to)) => m.wait = kept.wait
  BY <1>k, SchedRemove
<1> HIDE DEF m
<1>6. m.wait = kept.wait
  <2>1. kept.stat[to] = "READY"
    BY <1>1, <1>3
  <2>2. \A q \in Queue : ~Contains(kept.wait[q], to)
    BY <2>1, <1>3 DEF ListsSound, QueueStat
  <2>. QED BY <2>2, <1>5
<1>e. m \in Kernel /\ m = [kept EXCEPT !.ready = m.ready, !.wait = m.wait, !.group = m.group]
  BY <1>5
<1>f. Frame(kept) /\ kept.cur = to
  BY <1>3
<1>7. m.stat = kept.stat /\ m.cur = to /\ Frame(m)
  BY <1>k, <1>e, <1>f, <1>6 DEF Kernel
<1>8. /\ r \in Kernel /\ r.ready = m.ready /\ r.group = m.group
      /\ r.cur = to /\ Frame(r)
      /\ r.stat = [m.stat EXCEPT ![to] = "RUNNING"]
  <2>1. m \in Kernel
    BY <1>5
  <2> DEFINE ss == [m.stat EXCEPT ![to] = "RUNNING"]
  <2>2. ss \in [Thread -> Stat]
    BY <2>1 DEF Kernel, Stat
  <2>3. r = [m EXCEPT !.stat = ss]
    BY <1>4
  <2> HIDE DEF ss
  <2>4. r \in Kernel /\ r.ready = m.ready /\ r.group = m.group /\ r.cur = m.cur /\ r.stat = ss
    BY <2>1, <2>2, <2>3 DEF Kernel
  <2>5. Frame(r)
    BY <2>1, <2>3, <1>7 DEF Kernel
  <2>. QED BY <2>4, <2>5, <1>7 DEF ss
<1>9. r.stat = [t \in Thread |->
                  IF t = to THEN "RUNNING"
                  ELSE IF t = c /\ k.stat[t] = "RUNNING" THEN "READY" ELSE k.stat[t]]
  BY <1>3, <1>7, <1>8
<1>10. ListsSound(r)
  <2>1. \A x \in Thread : x # to => r.stat[x] = m.stat[x] /\ r.prio[x] = m.prio[x]
    BY <1>3, <1>7, <1>8
  <2>2. m \in Kernel /\ ListsSound(m) /\ Unlinked(m, to)
    BY <1>5
  <2>3. r.ready = m.ready /\ r.group = m.group /\ r.wait = m.wait
    BY <1>7, <1>8
  <2>. QED BY <2>1, <2>2, <2>3, UnlinkedChange
<1>11. Switched(k, r)
  <2>1. \A pp \in Prio : \A x : Contains(r.ready[pp], x) <=>
          \/ Contains(k.ready[pp], x) /\ x # to
          \/ x = c /\ k.stat[x] = "RUNNING" /\ pp = k.prio[x]
    BY <1>1, <1>3, <1>5, <1>8
  <2>. QED BY <2>1, <1>1, <1>8, <1>9 DEF Switched
<1>12. KernelSound(r)
  <2>1. \A t \in Thread : r.stat[t] = "RUNNING" => t = r.cur
    BY <1>1, <1>8, <1>9 DEF KernelSound
  <2>2. \A t \in Thread : r.timer[t] => r.stat[t] = "SUSPEND"
    BY <1>1, <1>8, <1>9 DEF KernelSound
  <2>3. r.stat[r.cur] # "READY"
    BY <1>8, <1>9
  <2>. QED BY <2>1, <2>2, <2>3, <1>8, <1>10 DEF KernelSound
<1>. QED BY <1>8, <1>11, <1>12

\* rt_schedule either leaves everything as it is, or switches to a thread of the
\* highest ready priority; a thread that is not RUNNING gives the CPU away when
\* the scheduler is unlocked and somebody is ready.  With the scheduler unlocked
\* nobody ready has a higher priority afterwards.
LEMMA ScheduleLemma ==
  ASSUME NEW k, KernelSound(k), NEW r, r = rt_schedule(k)
  PROVE  /\ KernelSound(r)
         /\ \/ r = k /\ (k.lock # 0 \/ k.group = {} \/ k.stat[k.cur] = "RUNNING")
            \/ /\ k.lock = 0 /\ Switched(k, r)
               /\ \A p \in k.group : k.prio[r.cur] <= p
               /\ k.stat[k.cur] = "RUNNING" => k.prio[r.cur] <= k.prio[k.cur]
         /\ k.lock = 0 => \A p \in k.group : r.prio[r.cur] <= p
<1> DEFINE hp == HighestReady(k)
           to == Head(k.ready[hp])
<1>0. k \in Kernel /\ ListsSound(k) /\ k.cur \in Thread
  BY DEF KernelSound, Kernel
<1>1. CASE k.lock # 0 \/ k.group = {}
  BY <1>1 DEF rt_schedule
<1>2. CASE k.lock = 0 /\ k.group # {} /\ k.stat[k.cur] = "RUNNING" /\ k.prio[k.cur] < hp
  <2>1. r = rt_schedule_remove_thread(k, k.cur)
    BY <1>2 DEF rt_schedule
  <2>2. Unlinked(k, k.cur)
    BY <1>0, <1>2, StatUnlinked
  <2>3. r = k
    BY <1>0, <2>1, <2>2, RemoveUnlinked
  <2>4. k.group \in SUBSET Nat /\ k.prio[k.cur] \in Nat
    BY <1>0, PrioAssumption DEF Kernel, Prio
  <2>5. \A p \in k.group : hp <= p /\ hp \in Nat
    BY <1>2, <2>4, MinLemma DEF HighestReady
  <2> HIDE DEF hp
  <2>6. \A p \in k.group : k.prio[k.cur] <= p
    BY <1>2, <2>4, <2>5
  <2>. QED BY <1>2, <2>3, <2>6
<1>3. CASE /\ k.lock = 0 /\ k.group # {}
           /\ ~(k.stat[k.cur] = "RUNNING" /\ k.prio[k.cur] < hp)
  <2>1. r = SwitchTo(k, to)
    BY <1>3 DEF rt_schedule
  <2>2. k.group \in SUBSET Nat
    BY <1>0, PrioAssumption DEF Kernel, Prio
  <2>3. hp \in k.group /\ \A p \in k.group : hp <= p
    BY <1>3, <2>2, MinLemma DEF HighestReady
  <2> HIDE DEF hp
  <2>4. hp \in Prio /\ k.ready[hp] \in Seq(Thread) /\ k.ready[hp] # << >>
    BY <1>0, <2>3 DEF Kernel, ListsSound
  <2>5. to \in Thread /\ Contains(k.ready[hp], to)
    BY <2>4, EmptyLemma, HeadTailProperties
  <2> HIDE DEF to
  <2>6. Switched(k, r) /\ KernelSound(r) /\ r.cur = to
    BY <2>1, <2>4, <2>5, SwitchLemma
  <2>7. k.prio[to] = hp
    BY <1>0, <2>4, <2>5 DEF ListsSound
  <2>8. k.stat[k.cur] = "RUNNING" => hp <= k.prio[k.cur]
    BY <1>0, <1>3, <2>4, PrioAssumption DEF Kernel, Prio, hp
  <2>9. r.prio[r.cur] = hp
    BY <2>6, <2>7 DEF Switched
  <2>. QED BY <1>3, <2>3, <2>6, <2>7, <2>8, <2>9
<1>. QED BY <1>1, <1>2, <1>3

\* The insertion of t into the ready list of its priority.
Inserted(k, t, r) ==
  /\ r.wait = k.wait /\ r.cur = k.cur /\ r.prio = k.prio /\ r.error = k.error
  /\ r.slice = k.slice /\ r.timer = k.timer /\ r.lock = k.lock
  /\ r.stat = [k.stat EXCEPT ![t] = "READY"]
  /\ \A p \in Prio : \A x : Contains(r.ready[p], x)
                              <=> Contains(k.ready[p], x) \/ (x = t /\ p = k.prio[t])

\* It keeps the kernel sound when t was in no list.
LEMMA InsertSound ==
  ASSUME NEW k, KernelSound(k), NEW t \in Thread, Unlinked(k, t), t # k.cur, ~k.timer[t],
         NEW r, r = rt_schedule_insert_thread(k, t)
  PROVE  KernelSound(r) /\ Inserted(k, t, r)
<1>0. k \in Kernel /\ ListsSound(k)
  BY DEF KernelSound
<1> DEFINE n == rt_schedule_insert_thread(k, t)
<1>a. /\ n \in Kernel
      /\ n = [k EXCEPT !.ready = n.ready, !.group = n.group, !.stat = n.stat]
      /\ n.stat = [k.stat EXCEPT ![t] = "READY"]
      /\ ListsSound(n)
      /\ \A p \in Prio : \A x : Contains(n.ready[p], x)
                                  <=> Contains(k.ready[p], x) \/ (x = t /\ p = k.prio[t])
  <2>1. k \in Kernel /\ ListsSound(k) /\ t \in Thread /\ Unlinked(k, t) /\ t # k.cur
    BY <1>0
  <2>. QED BY ONLY <2>1, InsertThread
<1>b. r = n
  OBVIOUS
<1> HIDE DEF n
<1>1. /\ r \in Kernel
      /\ r = [k EXCEPT !.ready = r.ready, !.group = r.group, !.stat = r.stat]
      /\ r.stat = [k.stat EXCEPT ![t] = "READY"]
      /\ ListsSound(r)
      /\ \A p \in Prio : \A x : Contains(r.ready[p], x)
                                  <=> Contains(k.ready[p], x) \/ (x = t /\ p = k.prio[t])
  BY ONLY <1>a, <1>b
<1>2. r = [k EXCEPT !.ready = r.ready, !.group = r.group, !.stat = r.stat]
  BY <1>1
<1>3. /\ r.wait = k.wait /\ r.cur = k.cur /\ r.prio = k.prio /\ r.error = k.error
      /\ r.slice = k.slice /\ r.timer = k.timer /\ r.lock = k.lock
  BY <1>0, <1>2 DEF Kernel
<1>4. r.stat[t] = "READY" /\ \A x \in Thread : x # t => r.stat[x] = k.stat[x]
  BY <1>0, <1>1 DEF Kernel
<1>5. KernelSound(r)
  BY <1>0, <1>1, <1>3, <1>4 DEF KernelSound, Kernel
<1>. QED BY <1>1, <1>3, <1>5 DEF Inserted

\* A thread leaves the list it is in, its timer stopped: the critical section
\* that rt_thread_resume and rt_thread_timeout begin with.
Detach(k, t, e) ==
  [rt_list_remove(k, t) EXCEPT !.error = e, !.timer = [k.timer EXCEPT ![t] = FALSE]]

\* What that does to a thread that is not ready.
Detached(k, t, e, m) ==
  /\ m.ready = k.ready /\ m.group = k.group /\ m.cur = k.cur /\ m.stat = k.stat
  /\ m.prio = k.prio /\ m.slice = k.slice /\ m.lock = k.lock /\ m.error = e
  /\ m.timer = [k.timer EXCEPT ![t] = FALSE]
  /\ \A q \in Queue : \A x : Contains(m.wait[q], x) <=> Contains(k.wait[q], x) /\ x # t

\* Detaching keeps the kernel sound.
LEMMA DetachSound ==
  ASSUME NEW k, KernelSound(k), NEW t \in Thread, k.stat[t] # "READY",
         NEW e \in [Thread -> Error], NEW m, m = Detach(k, t, e)
  PROVE  KernelSound(m) /\ Unlinked(m, t) /\ Detached(k, t, e, m)
<1> DEFINE n == rt_list_remove(k, t)
           tm == [k.timer EXCEPT ![t] = FALSE]
<1>0. k \in Kernel /\ ListsSound(k) /\ t \in Thread
  BY DEF KernelSound
<1>1. /\ n \in Kernel
      /\ n = [k EXCEPT !.ready = n.ready, !.wait = n.wait]
      /\ \A p \in Prio : /\ IsInjective(n.ready[p])
                         /\ \A x : Contains(n.ready[p], x) <=> Contains(k.ready[p], x) /\ x # t
                         /\ ~Contains(k.ready[p], t) => n.ready[p] = k.ready[p]
      /\ \A q \in Queue : /\ IsInjective(n.wait[q])
                          /\ \A x : Contains(n.wait[q], x) <=> Contains(k.wait[q], x) /\ x # t
      /\ k.stat[t] # "READY" => n.ready = k.ready
      /\ (\A q \in Queue : ~Contains(k.wait[q], t)) => n.wait = k.wait
  <2>1. Delisted(k, t, n)
    BY <1>0, ListRemove
  <2>. QED BY ONLY <2>1 DEF Delisted
<1>2. m = [n EXCEPT !.error = e, !.timer = tm]
  BY DEF Detach
<1>3. n \in Kernel /\ n = [k EXCEPT !.ready = n.ready, !.wait = n.wait] /\ n.ready = k.ready
  BY <1>1
<1>4. tm \in [Thread -> BOOLEAN]
  BY <1>0 DEF Kernel
<1> HIDE DEF n, tm
<1>5. /\ n.group = k.group /\ n.cur = k.cur /\ n.stat = k.stat /\ n.prio = k.prio
      /\ n.slice = k.slice /\ n.lock = k.lock
  BY ONLY <1>0, <1>3 DEF Kernel
<1>6. /\ m \in Kernel /\ m.ready = n.ready /\ m.wait = n.wait /\ m.group = n.group
      /\ m.cur = n.cur /\ m.stat = n.stat /\ m.prio = n.prio /\ m.slice = n.slice
      /\ m.lock = n.lock /\ m.error = e /\ m.timer = tm
  BY ONLY <1>2, <1>3, <1>4, e \in [Thread -> Error] DEF Kernel
<1>7. /\ m.ready = k.ready /\ m.group = k.group /\ m.cur = k.cur /\ m.stat = k.stat
      /\ m.prio = k.prio /\ m.slice = k.slice /\ m.lock = k.lock /\ m.error = e
      /\ m.timer = tm
  BY <1>3, <1>5, <1>6
<1>8. \A q \in Queue : /\ IsInjective(m.wait[q])
                       /\ \A x : Contains(m.wait[q], x) <=> Contains(k.wait[q], x) /\ x # t
  BY <1>1, <1>6
<1>9. ListsSound(m)
  <2>1. \A p \in Prio :
          /\ IsInjective(m.ready[p])
          /\ \A x \in Thread : Contains(m.ready[p], x) => m.stat[x] = "READY" /\ m.prio[x] = p
          /\ p \in m.group <=> m.ready[p] # << >>
    BY <1>0, <1>7 DEF ListsSound
  <2>2. \A q \in Queue :
          /\ IsInjective(m.wait[q])
          /\ \A x \in Thread : Contains(m.wait[q], x) => m.stat[x] = QueueStat(q)
    BY <1>0, <1>7, <1>8 DEF ListsSound
  <2>. QED BY <2>1, <2>2 DEF ListsSound
<1>10. Unlinked(m, t)
  BY <1>0, <1>7, <1>8 DEF ListsSound, Unlinked
<1>11. \A x \in Thread : m.timer[x] => k.timer[x]
  BY <1>0, <1>7 DEF tm, Kernel
<1>12. KernelSound(m)
  BY <1>6, <1>7, <1>9, <1>11 DEF KernelSound
<1>. QED BY <1>7, <1>8, <1>10, <1>12 DEF tm, Detached

\* What the idle thread does to the list: a closed thread has no timer to stop.
LEMMA RemoveClosed ==
  ASSUME NEW k, KernelSound(k), NEW t \in Thread, k.stat[t] = "CLOSE"
  PROVE  LET n == rt_list_remove(k, t)
         IN  KernelSound(n) /\ Unlinked(n, t) /\ Detached(k, t, k.error, n)
<1> DEFINE n == rt_list_remove(k, t)
           tm == [k.timer EXCEPT ![t] = FALSE]
<1>0. k \in Kernel /\ ListsSound(k) /\ t \in Thread
  BY DEF KernelSound
<1>1. /\ n \in Kernel
      /\ n = [k EXCEPT !.ready = n.ready, !.wait = n.wait]
      /\ \A p \in Prio : /\ IsInjective(n.ready[p])
                         /\ \A x : Contains(n.ready[p], x) <=> Contains(k.ready[p], x) /\ x # t
                         /\ ~Contains(k.ready[p], t) => n.ready[p] = k.ready[p]
      /\ \A q \in Queue : /\ IsInjective(n.wait[q])
                          /\ \A x : Contains(n.wait[q], x) <=> Contains(k.wait[q], x) /\ x # t
      /\ k.stat[t] # "READY" => n.ready = k.ready
      /\ (\A q \in Queue : ~Contains(k.wait[q], t)) => n.wait = k.wait
  <2>1. Delisted(k, t, n)
    BY <1>0, ListRemove
  <2>. QED BY ONLY <2>1 DEF Delisted
<1>2. Detach(k, t, k.error) = [n EXCEPT !.error = k.error, !.timer = tm]
  BY DEF Detach
<1>3. n \in Kernel /\ n = [k EXCEPT !.ready = n.ready, !.wait = n.wait]
  BY <1>1
<1>4. tm = k.timer
  BY <1>0 DEF KernelSound, Kernel
<1> HIDE DEF n, tm
<1>5. n.error = k.error /\ n.timer = k.timer
  BY ONLY <1>0, <1>3 DEF Kernel
<1>6. n = Detach(k, t, k.error)
  BY ONLY <1>2, <1>3, <1>4, <1>5 DEF Kernel
<1>7. k.error \in [Thread -> Error] /\ k.stat[t] # "READY"
  BY <1>0 DEF Kernel
<1>8. KernelSound(n) /\ Unlinked(n, t) /\ Detached(k, t, k.error, n)
  BY <1>6, <1>7, DetachSound
<1>. QED BY <1>8 DEF n

\* A suspended thread has been made ready, or runs on if it is still current.
Awakened(k, t, r) ==
  /\ r.cur = k.cur /\ r.prio = k.prio /\ r.slice = k.slice /\ r.lock = k.lock
  /\ r.timer = [k.timer EXCEPT ![t] = FALSE]
  /\ r.stat = [k.stat EXCEPT ![t] = IF t = k.cur THEN "RUNNING" ELSE "READY"]
  /\ \A p \in Prio : \A x : Contains(r.ready[p], x) <=>
       Contains(k.ready[p], x) \/ (x = t /\ t # k.cur /\ p = k.prio[t])
  /\ \A q \in Queue : \A x : Contains(r.wait[q], x) <=> Contains(k.wait[q], x) /\ x # t

\* The common part of rt_thread_resume and rt_thread_timeout.
LEMMA AwakenLemma ==
  ASSUME NEW k, KernelSound(k), NEW t \in Thread, k.stat[t] = "SUSPEND",
         NEW e \in [Thread -> Error],
         NEW m, m = Detach(k, t, e),
         NEW r, r = rt_schedule_insert_thread(m, t)
  PROVE  KernelSound(r) /\ Awakened(k, t, r)
<1>0. k \in Kernel /\ k.stat[t] # "READY"
  BY DEF KernelSound
<1>1. /\ KernelSound(m) /\ Unlinked(m, t)
      /\ m.ready = k.ready /\ m.group = k.group /\ m.cur = k.cur /\ m.stat = k.stat
      /\ m.prio = k.prio /\ m.slice = k.slice /\ m.lock = k.lock /\ m.error = e
      /\ m.timer = [k.timer EXCEPT ![t] = FALSE]
      /\ \A q \in Queue : \A x : Contains(m.wait[q], x) <=> Contains(k.wait[q], x) /\ x # t
  <2>1. /\ KernelSound(k) /\ t \in Thread /\ k.stat[t] # "READY" /\ e \in [Thread -> Error]
        /\ m = Detach(k, t, e)
    BY <1>0
  <2>2. KernelSound(m) /\ Unlinked(m, t) /\ Detached(k, t, e, m)
    BY ONLY <2>1, DetachSound
  <2>. QED BY ONLY <2>2 DEF Detached
<1>2. m \in Kernel /\ ListsSound(m) /\ m.timer[t] = FALSE
  <2>1. m \in Kernel /\ ListsSound(m)
    BY ONLY <1>1 DEF KernelSound
  <2>2. k.timer \in [Thread -> BOOLEAN]
    BY ONLY <1>0 DEF Kernel
  <2>3. m.timer[t] = FALSE
    BY ONLY <1>1, <2>2, t \in Thread
  <2>. QED BY ONLY <2>1, <2>3
<1>3. CASE t # k.cur
  <2>1. /\ KernelSound(r)
        /\ r.wait = m.wait /\ r.cur = m.cur /\ r.prio = m.prio /\ r.error = m.error
        /\ r.slice = m.slice /\ r.timer = m.timer /\ r.lock = m.lock
        /\ r.stat = [m.stat EXCEPT ![t] = "READY"]
        /\ \A p \in Prio : \A x : Contains(r.ready[p], x)
                                    <=> Contains(m.ready[p], x) \/ (x = t /\ p = m.prio[t])
    <3>1. /\ KernelSound(m) /\ t \in Thread /\ Unlinked(m, t) /\ t # m.cur /\ ~m.timer[t]
          /\ r = rt_schedule_insert_thread(m, t)
      BY <1>1, <1>2, <1>3
    <3>2. KernelSound(r) /\ Inserted(m, t, r)
      BY ONLY <3>1, InsertSound
    <3>. QED BY ONLY <3>2 DEF Inserted
  <2>. QED BY ONLY <1>1, <1>3, <2>1, SMTT(30) DEF Awakened
<1>4. CASE t = k.cur
  <2> DEFINE s == [m.stat EXCEPT ![t] = "RUNNING"]
  <2>1. r = [m EXCEPT !.stat = s]
    BY <1>1, <1>4 DEF rt_schedule_insert_thread
  <2>2. s \in [Thread -> Stat] /\ s[t] = "RUNNING" /\ \A x \in Thread : x # t => s[x] = m.stat[x]
    BY <1>2 DEF Kernel, Stat
  <2>3. s = [k.stat EXCEPT ![t] = IF t = k.cur THEN "RUNNING" ELSE "READY"]
    BY <1>1, <1>4
  <2> HIDE DEF s
  <2>4. /\ r \in Kernel /\ r.ready = m.ready /\ r.group = m.group /\ r.wait = m.wait
        /\ r.cur = m.cur /\ r.stat = s /\ r.prio = m.prio /\ r.slice = m.slice
        /\ r.timer = m.timer /\ r.lock = m.lock
    BY ONLY <1>2, <2>1, <2>2 DEF Kernel
  <2>5. ListsSound(r)
    <3>1. /\ m \in Kernel /\ ListsSound(m) /\ t \in Thread /\ Unlinked(m, t)
          /\ r.ready = m.ready /\ r.group = m.group /\ r.wait = m.wait
          /\ \A x \in Thread : x # t => r.stat[x] = m.stat[x] /\ r.prio[x] = m.prio[x]
      BY <1>1, <1>2, <2>2, <2>4
    <3>. QED BY ONLY <3>1, UnlinkedChange
  <2>6. KernelSound(r)
    <3>1. r.cur = t /\ r.stat[t] = "RUNNING" /\ r.timer[t] = FALSE
      BY <1>1, <1>2, <1>4, <2>2, <2>4, ZenonT(40)
    <3>2. \A x \in Thread : x # t => r.stat[x] = m.stat[x] /\ r.timer[x] = m.timer[x]
      BY <2>2, <2>4
    <3>3. m.cur = t
      BY <1>1, <1>4
    <3>. QED BY <1>1, <2>4, <2>5, <3>1, <3>2, <3>3 DEF KernelSound
  <2>7. Awakened(k, t, r)
    BY ONLY <1>1, <1>4, <2>3, <2>4 DEF Awakened
  <2>. QED BY <2>6, <2>7
<1>. QED BY <1>3, <1>4

\* rt_thread_resume of a suspended thread.
LEMMA ResumeLemma ==
  ASSUME NEW k, KernelSound(k), NEW t \in Thread, k.stat[t] = "SUSPEND"
  PROVE  KernelSound(rt_thread_resume(k, t)) /\ Awakened(k, t, rt_thread_resume(k, t))
<1> DEFINE n == rt_list_remove(k, t)
           m == Detach(k, t, k.error)
<1>1. k \in Kernel /\ ListsSound(k) /\ t \in Thread
  BY DEF KernelSound
<1>2. n \in Kernel /\ n.error = k.error /\ n.timer = k.timer
  BY ONLY <1>1, ListRemoveFrame
<1>3. m = [n EXCEPT !.error = k.error, !.timer = [k.timer EXCEPT ![t] = FALSE]]
  BY DEF Detach
<1> HIDE DEF n, m
<1>5. m = [n EXCEPT !.timer[t] = FALSE]
  BY ONLY <1>2, <1>3 DEF Kernel
<1>6. rt_thread_resume(k, t) = rt_schedule_insert_thread(m, t)
  BY <1>5 DEF rt_thread_resume, n
<1>7. k.error \in [Thread -> Error]
  BY <1>1 DEF Kernel
<1>. QED BY <1>1, <1>6, <1>7, AwakenLemma DEF m

\* rt_thread_timeout: the thread is awakened, then rt_schedule is called.
LEMMA TimeoutLemma ==
  ASSUME NEW k, KernelSound(k), NEW t \in Thread, k.stat[t] = "SUSPEND"
  PROVE  \E x : /\ KernelSound(x) /\ Awakened(k, t, x)
                /\ rt_thread_timeout(k, t) = rt_schedule(x)
<1> DEFINE n == rt_list_remove(k, t)
           e == [k.error EXCEPT ![t] = "ETIMEOUT"]
           m == Detach(k, t, e)
           x == rt_schedule_insert_thread(m, t)
<1>1. k \in Kernel /\ ListsSound(k) /\ t \in Thread
  BY DEF KernelSound
<1>2. n \in Kernel /\ n.error = k.error /\ n.timer = k.timer
  BY ONLY <1>1, ListRemoveFrame
<1>3. m = [n EXCEPT !.error = e, !.timer = [k.timer EXCEPT ![t] = FALSE]]
  BY DEF Detach
<1>7. e \in [Thread -> Error]
  BY <1>1 DEF Kernel, Error
<1> HIDE DEF n, m
<1>5. m = [n EXCEPT !.error[t] = "ETIMEOUT", !.timer[t] = FALSE]
  BY ONLY <1>2, <1>3 DEF Kernel
<1> HIDE DEF e
<1>6. rt_thread_timeout(k, t) = rt_schedule(x)
  BY <1>5 DEF rt_thread_timeout, n
<1>8. KernelSound(x) /\ Awakened(k, t, x)
  BY <1>1, <1>7, AwakenLemma DEF m
<1>. QED BY <1>6, <1>8

\* The lists and the current thread are as they were.
SameLists(k, r) ==
  r.ready = k.ready /\ r.group = k.group /\ r.wait = k.wait /\ r.cur = k.cur

\* A thread that is in no list changes its state.
LEMMA StateChange ==
  ASSUME NEW k, KernelSound(k), NEW t \in Thread, Unlinked(k, t),
         NEW r \in Kernel, SameLists(k, r),
         \A x \in Thread : x # t => /\ r.stat[x] = k.stat[x] /\ r.prio[x] = k.prio[x]
                                    /\ r.timer[x] = k.timer[x],
         t = k.cur => r.stat[t] # "READY",
         r.stat[t] = "RUNNING" => t = k.cur,
         r.timer[t] => r.stat[t] = "SUSPEND"
  PROVE  KernelSound(r) /\ Unlinked(r, t)
<1>1. k \in Kernel /\ ListsSound(k) /\ k.cur \in Thread
  BY DEF KernelSound, Kernel
<1>2. /\ r.ready = k.ready /\ r.group = k.group /\ r.wait = k.wait /\ r.cur = k.cur
      /\ \A x \in Thread : x # t => r.stat[x] = k.stat[x] /\ r.prio[x] = k.prio[x]
  BY DEF SameLists
<1>3. k \in Kernel /\ ListsSound(k) /\ t \in Thread /\ Unlinked(k, t)
  BY <1>1
<1>4. ListsSound(r) /\ Unlinked(r, t)
  BY ONLY <1>2, <1>3, UnlinkedChange
<1>5. r.stat[r.cur] # "READY"
  BY <1>1, <1>2 DEF KernelSound
<1>6. \A x \in Thread : r.stat[x] = "RUNNING" => x = r.cur
  BY <1>1, <1>2 DEF KernelSound
<1>7. \A x \in Thread : r.timer[x] => r.stat[x] = "SUSPEND"
  BY <1>1, <1>2 DEF KernelSound
<1>. QED BY <1>4, <1>5, <1>6, <1>7 DEF KernelSound

\* What rt_schedule_remove_thread leaves of the kernel.
Removed(k, t, r) ==
  /\ r.cur = k.cur /\ r.stat = k.stat /\ r.prio = k.prio /\ r.slice = k.slice
  /\ r.timer = k.timer /\ r.lock = k.lock
  /\ \A p \in Prio : \A x : Contains(r.ready[p], x) <=> Contains(k.ready[p], x) /\ x # t
  /\ \A q \in Queue : \A x : Contains(r.wait[q], x) <=> Contains(k.wait[q], x) /\ x # t

\* Removing a thread keeps the kernel sound.
LEMMA RemoveSound ==
  ASSUME NEW k, KernelSound(k), NEW t \in Thread,
         NEW r, r = rt_schedule_remove_thread(k, t)
  PROVE  KernelSound(r) /\ Unlinked(r, t) /\ Removed(k, t, r)
<1> DEFINE n == rt_schedule_remove_thread(k, t)
<1>1. k \in Kernel /\ ListsSound(k) /\ t \in Thread
  BY DEF KernelSound
<1>2. /\ n \in Kernel
      /\ n = [k EXCEPT !.ready = n.ready, !.wait = n.wait, !.group = n.group]
      /\ ListsSound(n)
      /\ Unlinked(n, t)
      /\ \A p \in Prio : \A x : Contains(n.ready[p], x) <=> Contains(k.ready[p], x) /\ x # t
      /\ \A q \in Queue : \A x : Contains(n.wait[q], x) <=> Contains(k.wait[q], x) /\ x # t
      /\ (\A q \in Queue : ~Contains(k.wait[q], t)) => n.wait = k.wait
  BY ONLY <1>1, SchedRemove
<1>3. r = n
  OBVIOUS
<1> HIDE DEF n
<1>4. n \in Kernel /\ n = [k EXCEPT !.ready = n.ready, !.wait = n.wait, !.group = n.group]
  BY <1>2
<1>5. /\ n.cur = k.cur /\ n.stat = k.stat /\ n.prio = k.prio /\ n.slice = k.slice
      /\ n.timer = k.timer /\ n.lock = k.lock
  BY ONLY <1>1, <1>4 DEF Kernel
<1>6. KernelSound(n)
  BY <1>2, <1>5 DEF KernelSound
<1>7. Removed(k, t, n)
  BY <1>2, <1>5 DEF Removed
<1>. QED BY <1>2, <1>3, <1>6, <1>7

\* What a thread's entry into wait list q changes.
Linked(k, q, t, r) ==
  /\ r.ready = k.ready /\ r.group = k.group /\ r.cur = k.cur /\ r.stat = k.stat
  /\ r.prio = k.prio /\ r.slice = k.slice /\ r.timer = k.timer /\ r.lock = k.lock
  /\ \A qq \in Queue : \A x : Contains(r.wait[qq], x) <=>
       Contains(k.wait[qq], x) \/ (x = t /\ qq = q)

\* An unlinked thread enters a wait list, at either end.
LEMMA LinkLemma ==
  ASSUME NEW k, KernelSound(k), NEW t \in Thread, Unlinked(k, t),
         NEW q \in Queue, k.stat[t] = QueueStat(q),
         NEW r, r = Enqueue(k, q, t) \/ r = Push(k, q, t)
  PROVE  KernelSound(r) /\ Linked(k, q, t, r)
<1>1. k \in Kernel /\ ListsSound(k)
  BY DEF KernelSound
<1>2. /\ k.wait[q] \in Seq(Thread) /\ IsInjective(k.wait[q]) /\ ~Contains(k.wait[q], t)
      /\ t \in Thread
  BY <1>1 DEF Kernel, ListsSound, Unlinked
<1>3. PICK s \in Seq(Thread) :
        /\ r = [k EXCEPT !.wait[q] = s]
        /\ IsInjective(s)
        /\ \A x : Contains(s, x) <=> Contains(k.wait[q], x) \/ x = t
  <2>1. CASE r = Enqueue(k, q, t)
    <3>1. r = [k EXCEPT !.wait[q] = Append(k.wait[q], t)]
      BY <2>1 DEF Enqueue
    <3>2. /\ Append(k.wait[q], t) \in Seq(Thread) /\ IsInjective(Append(k.wait[q], t))
          /\ \A x : Contains(Append(k.wait[q], t), x) <=> Contains(k.wait[q], x) \/ x = t
      BY ONLY <1>2, AppendLemma
    <3>. QED BY <3>1, <3>2
  <2>2. CASE r = Push(k, q, t)
    <3>1. r = [k EXCEPT !.wait[q] = Cons(t, k.wait[q])]
      BY <2>2 DEF Push
    <3>2. /\ Cons(t, k.wait[q]) \in Seq(Thread) /\ IsInjective(Cons(t, k.wait[q]))
          /\ \A x : Contains(Cons(t, k.wait[q]), x) <=> Contains(k.wait[q], x) \/ x = t
      BY ONLY <1>2, ConsLemma
    <3>. QED BY <3>1, <3>2
  <2>. QED BY <2>1, <2>2
<1>4. /\ r \in Kernel
      /\ r.ready = k.ready /\ r.group = k.group /\ r.cur = k.cur /\ r.stat = k.stat
      /\ r.prio = k.prio /\ r.slice = k.slice /\ r.timer = k.timer /\ r.lock = k.lock
      /\ r.wait = [k.wait EXCEPT ![q] = s]
  BY <1>1, <1>3 DEF Kernel
<1>5. r.wait[q] = s /\ \A qq \in Queue : qq # q => r.wait[qq] = k.wait[qq]
  BY <1>1, <1>4 DEF Kernel
<1>6. ASSUME NEW qq \in Queue
      PROVE  /\ IsInjective(r.wait[qq])
             /\ \A x : Contains(r.wait[qq], x) <=> Contains(k.wait[qq], x) \/ (x = t /\ qq = q)
  BY <1>1, <1>3, <1>5 DEF ListsSound
<1>7. Linked(k, q, t, r)
  BY <1>4, <1>6 DEF Linked
<1>8. ListsSound(r)
  <2>1. \A p \in Prio :
          /\ IsInjective(r.ready[p])
          /\ \A x \in Thread : Contains(r.ready[p], x) => r.stat[x] = "READY" /\ r.prio[x] = p
          /\ p \in r.group <=> r.ready[p] # << >>
    BY <1>1, <1>4 DEF ListsSound
  <2>2. ASSUME NEW qq \in Queue
        PROVE  /\ IsInjective(r.wait[qq])
               /\ \A x \in Thread : Contains(r.wait[qq], x) => r.stat[x] = QueueStat(qq)
    <3>1. \A x \in Thread : Contains(k.wait[qq], x) => k.stat[x] = QueueStat(qq)
      BY <1>1 DEF ListsSound
    <3>2. r.stat = k.stat
      BY <1>4
    <3>. QED BY <1>6, <3>1, <3>2
  <2>. QED BY <2>1, <2>2 DEF ListsSound
<1>9. KernelSound(r)
  BY <1>4, <1>8 DEF KernelSound
<1>. QED BY <1>7, <1>9

\* A thread of changed priority: in the list of the new one if it is ready.
Reprioritised(k, t, p, r) ==
  /\ r.cur = k.cur /\ r.stat = k.stat /\ r.timer = k.timer /\ r.lock = k.lock
  /\ \A q \in Queue : \A x : Contains(r.wait[q], x) <=> Contains(k.wait[q], x)
  /\ r.prio = [k.prio EXCEPT ![t] = p]
  /\ \A pp \in Prio : \A x : Contains(r.ready[pp], x) <=>
       \/ Contains(k.ready[pp], x) /\ x # t
       \/ x = t /\ k.stat[t] = "READY" /\ pp = p

\* rt_thread_control keeps the kernel sound.
LEMMA PriorityLemma ==
  ASSUME NEW k, KernelSound(k), NEW t \in Thread, NEW p \in Prio,
         NEW r, r = ChangePriority(k, t, p)
  PROVE  KernelSound(r) /\ Reprioritised(k, t, p, r)
<1>1. k \in Kernel /\ ListsSound(k)
  BY DEF KernelSound
<1>2. CASE k.stat[t] # "READY"
  <2> DEFINE pp == [k.prio EXCEPT ![t] = p]
  <2>1. r = [k EXCEPT !.prio = pp]
    BY <1>2 DEF ChangePriority
  <2>2. pp \in [Thread -> Prio] /\ \A x \in Thread : x # t => pp[x] = k.prio[x]
    BY <1>1 DEF Kernel
  <2> HIDE DEF pp
  <2>3. /\ r \in Kernel /\ r.ready = k.ready /\ r.group = k.group /\ r.wait = k.wait
        /\ r.cur = k.cur /\ r.stat = k.stat /\ r.prio = pp /\ r.timer = k.timer
        /\ r.lock = k.lock
    BY ONLY <1>1, <2>1, <2>2 DEF Kernel
  <2>4. \A qq \in Prio : ~Contains(k.ready[qq], t)
    BY <1>1, <1>2 DEF ListsSound
  <2>5. ListsSound(r)
    <3>1. \A qq \in Prio :
            /\ IsInjective(r.ready[qq])
            /\ \A x \in Thread : Contains(r.ready[qq], x) => r.stat[x] = "READY" /\ r.prio[x] = qq
            /\ qq \in r.group <=> r.ready[qq] # << >>
      BY <1>1, <2>2, <2>3, <2>4 DEF ListsSound
    <3>2. \A q \in Queue :
            /\ IsInjective(r.wait[q])
            /\ \A x \in Thread : Contains(r.wait[q], x) => r.stat[x] = QueueStat(q)
      BY <1>1, <2>3 DEF ListsSound
    <3>. QED BY <3>1, <3>2 DEF ListsSound
  <2>6. KernelSound(r)
    BY <2>3, <2>5 DEF KernelSound
  <2>7. Reprioritised(k, t, p, r)
    BY <1>2, <2>3, <2>4 DEF Reprioritised, pp
  <2>. QED BY <2>6, <2>7
<1>3. CASE k.stat[t] = "READY"
  <2> DEFINE n == rt_schedule_remove_thread(k, t)
             m == [n EXCEPT !.prio[t] = p]
  <2>1. r = rt_schedule_insert_thread(m, t)
    BY <1>3 DEF ChangePriority
  <2>2. KernelSound(n) /\ Unlinked(n, t) /\ Removed(k, t, n)
    BY RemoveSound
  <2> HIDE DEF n
  <2>3. /\ n \in Kernel /\ n.cur = k.cur /\ n.stat = k.stat /\ n.timer = k.timer
        /\ n.prio = k.prio /\ n.lock = k.lock
    BY <2>2 DEF KernelSound, Removed
  <2>4. /\ m \in Kernel /\ m.ready = n.ready /\ m.group = n.group /\ m.wait = n.wait
        /\ m.cur = n.cur /\ m.stat = n.stat /\ m.timer = n.timer /\ m.lock = n.lock
        /\ m.prio = [n.prio EXCEPT ![t] = p]
    BY ONLY <2>3, t \in Thread, p \in Prio DEF Kernel
  <2> HIDE DEF m
  <2>5. t # k.cur /\ ~k.timer[t]
    BY <1>3 DEF KernelSound
  <2>6. m.prio[t] = p /\ \A x \in Thread : x # t => m.prio[x] = n.prio[x]
    BY <2>3, <2>4 DEF Kernel
  <2>7. KernelSound(m) /\ Unlinked(m, t)
    <3>1. /\ KernelSound(n) /\ t \in Thread /\ Unlinked(n, t) /\ m \in Kernel
          /\ SameLists(n, m)
          /\ \A x \in Thread : x # t => /\ m.stat[x] = n.stat[x] /\ m.prio[x] = n.prio[x]
                                        /\ m.timer[x] = n.timer[x]
          /\ (t = n.cur => m.stat[t] # "READY") /\ (m.stat[t] = "RUNNING" => t = n.cur)
          /\ (m.timer[t] => m.stat[t] = "SUSPEND")
      BY <1>3, <2>2, <2>3, <2>4, <2>5, <2>6 DEF SameLists
    <3>. QED BY ONLY <3>1, StateChange
  <2>8. /\ KernelSound(r)
        /\ r.wait = m.wait /\ r.cur = m.cur /\ r.prio = m.prio /\ r.error = m.error
        /\ r.slice = m.slice /\ r.timer = m.timer /\ r.lock = m.lock
        /\ r.stat = [m.stat EXCEPT ![t] = "READY"]
        /\ \A qq \in Prio : \A x : Contains(r.ready[qq], x)
                                     <=> Contains(m.ready[qq], x) \/ (x = t /\ qq = m.prio[t])
    <3>1. /\ KernelSound(m) /\ t \in Thread /\ Unlinked(m, t) /\ t # m.cur /\ ~m.timer[t]
          /\ r = rt_schedule_insert_thread(m, t)
      BY <2>1, <2>3, <2>4, <2>5, <2>7
    <3>2. KernelSound(r) /\ Inserted(m, t, r)
      BY ONLY <3>1, InsertSound
    <3>. QED BY ONLY <3>2 DEF Inserted
  <2>9. r.stat = k.stat
    <3>1. k.stat = [k.stat EXCEPT ![t] = "READY"]
      BY <1>1, <1>3 DEF Kernel
    <3>. QED BY <3>1, <2>3, <2>4, <2>8
  <2>10. \A qq \in Prio : \A x : Contains(r.ready[qq], x) <=>
           (Contains(k.ready[qq], x) /\ x # t) \/ (x = t /\ qq = p)
    <3>1. \A qq \in Prio : \A x : Contains(n.ready[qq], x) <=> Contains(k.ready[qq], x) /\ x # t
      BY ONLY <2>2 DEF Removed
    <3>. QED BY ONLY <2>4, <2>6, <2>8, <3>1
  <2>11. \A q \in Queue : \A x : Contains(r.wait[q], x) <=> Contains(k.wait[q], x)
    <3>1. \A q \in Queue : ~Contains(k.wait[q], t)
      BY <1>1, <1>3 DEF ListsSound, QueueStat
    <3>2. \A q \in Queue : \A x : Contains(n.wait[q], x) <=> Contains(k.wait[q], x) /\ x # t
      BY ONLY <2>2 DEF Removed
    <3>. QED BY ONLY <2>4, <2>8, <3>1, <3>2
  <2>12. r.cur = k.cur /\ r.timer = k.timer /\ r.lock = k.lock /\ r.prio = [k.prio EXCEPT ![t] = p]
    BY <2>3, <2>4, <2>8
  <2>. QED BY <1>3, <2>8, <2>9, <2>10, <2>11, <2>12 DEF Reprioritised
<1>. QED BY <1>2, <1>3

=============================================================================
