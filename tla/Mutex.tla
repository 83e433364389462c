-------------------------------- MODULE Mutex --------------------------------
(***************************************************************************)
(* The recursive mutex with priority inheritance of src/src/ipc.c under    *)
(* the real scheduler.  Clients take and release any mutex of a set, so    *)
(* that nested and recursive holding, timeouts of waiters and hand-over to *)
(* the first waiter all interleave; a client may delete one.  While the    *)
(* mutex is free its original_priority is 0xff; the model keeps PrioMax.   *)
(*                                                                         *)
(*   obj[m]       value, hold, owner and original_priority of mutex m      *)
(*   own[t].want  the mutexes the pending rt_mutex_take is about           *)
(*   own[t].cnt   history: takes minus releases that returned RT_EOK       *)
(***************************************************************************)
EXTENDS Client

CONSTANTS Mutexes,    \* one wait list per mutex
          NoThread,   \* RT_NULL as mutex->owner
          MutexFlag,  \* RT_IPC_FLAG_FIFO or RT_IPC_FLAG_PRIO
          MaxHold     \* bound on mutex->hold, an rt_uint8_t

Free == [value |-> 1, hold |-> 0, owner |-> NoThread, original |-> PrioMax]

Init ==
  /\ InitClients
  /\ obj = [m \in Mutexes |-> Free]
  /\ own = [t \in Thread |-> [want |-> {}, cnt |-> [m \in Mutexes |-> 0]]]

-----------------------------------------------------------------------------

\* rt_mutex_take by the owner: one more hold.
TakeAgain(m) ==
  /\ Calls("recv") /\ obj[m].owner = k.cur /\ obj[m].hold < MaxHold
  /\ k' = [k EXCEPT !.error[k.cur] = "EOK"]
  /\ obj' = [obj EXCEPT ![m].hold = @ + 1]
  /\ own' = [own EXCEPT ![k.cur].cnt[m] = @ + 1]
  /\ UNCHANGED <<pc, timed, alive>>

TakeFree(m) ==
  /\ Calls("recv") /\ obj[m].owner # k.cur /\ obj[m].value > 0
  /\ k' = [k EXCEPT !.error[k.cur] = "EOK"]
  /\ obj' = [obj EXCEPT ![m] = [value |-> @.value - 1, hold |-> @.hold + 1,
                                owner |-> k.cur, original |-> k.prio[k.cur]]]
  /\ own' = [own EXCEPT ![k.cur].cnt[m] = @ + 1]
  /\ UNCHANGED <<pc, timed, alive>>

\* Mutant: no inheritance.
Inherit_Not(r, m, t) == r

\* The kernel after the owner of m has inherited t's priority.
Inherit(r, m, t) ==
  IF r.prio[t] < r.prio[obj[m].owner]
  THEN ChangePriority(r, obj[m].owner, r.prio[t]) ELSE r

\* rt_mutex_take of a mutex somebody else owns: boost the owner, queue up,
\* start the timer if the wait is bounded.
TakeBlock(m, bounded) ==
  /\ Calls("recv") /\ obj[m].owner # k.cur /\ obj[m].value = 0
  /\ LET b == Inherit([k EXCEPT !.error[k.cur] = "EOK"], m, k.cur)
     IN  Park(rt_ipc_list_suspend(b, m, k.cur, MutexFlag), "blocked", bounded)
  /\ own' = [own EXCEPT ![k.cur].want = {m}]
  /\ UNCHANGED <<alive, obj>>

\* The return from rt_schedule: with RT_EOK the mutex is already ours.
TakeReturn ==
  /\ pc[k.cur] = "woken"
  /\ own' = [own EXCEPT ![k.cur] =
       [want |-> {},
        cnt  |-> [m \in Mutexes |-> IF k.error[k.cur] = "EOK" /\ m \in @.want
                                    THEN @.cnt[m] + 1 ELSE @.cnt[m]]]]
  /\ Return("run")
  /\ UNCHANGED <<k, alive, obj>>

\* rt_mutex_release by somebody else is refused.
ReleaseRefused(m) ==
  /\ Calls("send") /\ obj[m].owner # k.cur
  /\ k' = [k EXCEPT !.error[k.cur] = "ERROR"]
  /\ UNCHANGED <<pc, timed, alive, obj, own>>

\* rt_mutex_release of an inner hold.
ReleaseInner(m) ==
  /\ Calls("send") /\ obj[m].owner = k.cur /\ obj[m].hold > 1
  /\ obj' = [obj EXCEPT ![m].hold = @ - 1]
  /\ own' = [own EXCEPT ![k.cur].cnt[m] = @ - 1]
  /\ UNCHANGED <<k, pc, timed, alive>>

\* Mutant: the owner keeps the priority it inherited.
Restore_Not(m) == k

\* The priority the releasing owner goes back to.
Restore(m) ==
  IF obj[m].original # k.prio[k.cur]
  THEN ChangePriority(k, k.cur, obj[m].original) ELSE k

\* Mutant: the mutex is freed whatever the recursion count is.
ReleaseLast_IgnoresHold(m) ==
  /\ Calls("send") /\ obj[m].owner = k.cur
  /\ obj' = [obj EXCEPT ![m] = Free]
  /\ k' = Restore(m)
  /\ own' = [own EXCEPT ![k.cur].cnt[m] = @ - 1]
  /\ UNCHANGED <<pc, timed, alive>>

\* rt_mutex_release of the last hold: restore the priority, then hand the
\* mutex to the first waiter or free it.
ReleaseLast(m) ==
  /\ Calls("send") /\ obj[m].owner = k.cur /\ obj[m].hold = 1
  /\ IF k.wait[m] # << >>
     THEN LET w == Head(k.wait[m])
          IN  /\ obj' = [obj EXCEPT ![m] = [value |-> @.value, hold |-> 1,
                                            owner |-> w, original |-> k.prio[w]]]
              /\ k' = rt_ipc_list_resume(Restore(m), m)
              /\ Goto("sched")
     ELSE /\ obj' = [obj EXCEPT ![m] = [Free EXCEPT !.value = obj[m].value + 1]]
          /\ k' = Restore(m)
          /\ UNCHANGED pc
  /\ own' = [own EXCEPT ![k.cur].cnt[m] = @ - 1]
  /\ UNCHANGED <<timed, alive>>

\* rt_mutex_delete or rt_mutex_detach, in instances with one mutex.
DeleteMutex == Cardinality(Mutexes) = 1 /\ Delete

Next ==
  \/ \E m \in Mutexes : \/ TakeAgain(m) \/ TakeFree(m) \/ ReleaseRefused(m)
                        \/ ReleaseInner(m) \/ ReleaseLast(m)
                        \/ \E bounded \in Bounded : TakeBlock(m, bounded)
                        \/ DeleteTest(<<m>>, "del_free") \/ DeleteWake(<<m>>)
  \/ TakeReturn \/ DeleteMutex \/ DeleteEnd \/ Common

Spec == Init /\ [][Next]_vars

-----------------------------------------------------------------------------
(* Properties *)

\* The type of the object.
TypeOK ==
  /\ obj \in [Mutexes -> [value : 0 .. 1, hold : 0 .. MaxHold,
                          owner : Thread \cup {NoThread}, original : 0 .. PrioMax]]
  /\ own \in [Thread -> [want : SUBSET Mutexes, cnt : [Mutexes -> 0 .. MaxHold]]]

\* Mutual exclusion as the clients see it: whoever has been told RT_EOK more
\* often than it has released is the owner, and the recursion count agrees.
MutualExclusion ==
  \A t \in Thread, m \in Mutexes :
    own[t].cnt[m] > 0 => obj[m].owner = t /\ obj[m].hold = own[t].cnt[m]

\* No orphaned mutex: an owner that does not know yet is a waiter about to
\* return RT_EOK.  A timeout and a hand-over that race never leave the mutex
\* with a thread that was told -RT_ETIMEOUT.
NoOrphan ==
  \A t \in Thread, m \in Mutexes :
    obj[m].owner = t /\ own[t].cnt[m] = 0 =>
      /\ pc[t] \in {"blocked", "woken"} /\ own[t].want = {m}
      /\ k.error[t] = "EOK" /\ ~Contains(k.wait[m], t) /\ obj[m].hold = 1

\* A free mutex has no waiters (rt_mutex_release hands it over).
NoLostWakeup == \A m \in Mutexes : obj[m].value > 0 => k.wait[m] = << >>

\* "change the owner thread to original priority" (ipc.c:832): a thread that
\* owns no mutex runs at the priority it was created with.
PriorityRestored ==
  \A t \in Thread :
    (\A m \in Mutexes : obj[m].owner # t) => k.prio[t] = InitPrio[t]

\* No priority inversion, for a mutex made with RT_IPC_FLAG_PRIO: its owner is
\* at least as urgent as every waiter, and while it is ready to run, no thread
\* less urgent than a waiter executes its own code (rt_mutex_take's inheritance,
\* and rt_mutex_release's hand-over to the most urgent waiter).
NoInversion ==
  \A m \in Mutexes : \A w \in ToSet(k.wait[m]) :
    /\ k.prio[obj[m].owner] <= k.prio[w]
    /\ k.stat[obj[m].owner] = "READY" /\ pc[k.cur] = "run"
       => k.prio[k.cur] <= k.prio[w]

=============================================================================
