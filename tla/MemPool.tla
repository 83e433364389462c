------------------------------- MODULE MemPool -------------------------------
(***************************************************************************)
(* The fixed-size block pool of src/src/mempool.c under the real           *)
(* scheduler.  rt_mp_alloc is a loop: a waiter that rt_mp_free has woken   *)
(* looks at the free count again, because any thread that ran in between   *)
(* may have taken the block.  The list of waiters is last-in first-out     *)
(* (rt_list_insert_after), and its length is also kept in a counter.       *)
(*                                                                         *)
(*   obj.list, obj.free, obj.suspended   block_list, block_free_count,     *)
(*                                       suspend_thread_count              *)
(*   own[t]                              the blocks client t has           *)
(***************************************************************************)
EXTENDS Client

CONSTANTS Block,    \* the blocks of the pool
          MaxHeld,  \* bound on the blocks one client keeps
          MaxCount  \* bound on mp->suspend_thread_count

\* rt_mp_init and rt_mp_create chain all blocks.
Init ==
  /\ InitClients
  /\ obj = [list |-> Seqs!SetToSeq(Block), free |-> Cardinality(Block), suspended |-> 0]
  /\ own = [t \in Thread |-> {}]

-----------------------------------------------------------------------------

\* The way out of rt_mp_alloc's loop: unlink the first block.
Grab ==
  /\ obj.free # 0
  /\ obj' = [obj EXCEPT !.free = @ - 1, !.list = Tail(@)]
  /\ own' = [own EXCEPT ![k.cur] = @ \cup {Head(obj.list)}]
  /\ Return("run")
  /\ UNCHANGED <<k, alive>>

\* One pass through its body: suspend, count, start the timer.
Wait(bounded) ==
  /\ obj.free = 0 /\ obj.suspended < MaxCount
  /\ LET s == rt_thread_suspend([k EXCEPT !.error[k.cur] = "EOK"], k.cur)
     IN  Park(Push(s, "recv", k.cur), "blocked", bounded)
  /\ obj' = [obj EXCEPT !.suspended = @ + 1]
  /\ UNCHANGED <<own, alive>>

\* rt_mp_alloc with time # 0.  (With time = 0 and no free block it returns
\* RT_NULL and changes nothing.)
Alloc(bounded) ==
  /\ Calls("recv")
  /\ Cardinality(own[k.cur]) < MaxHeld
  /\ Grab \/ Wait(bounded)

\* Woken by rt_mp_free: back to the loop condition.
Retry ==
  /\ pc[k.cur] = "woken" /\ k.error[k.cur] = "EOK" /\ ~Gone
  /\ Grab \/ Wait(timed[k.cur])

\* The ways to return RT_NULL after waiting: an error, or no time left.
GiveUp ==
  /\ pc[k.cur] = "woken"
  /\ \/ k.error[k.cur] # "EOK" /\ k' = k
     \/ /\ k.error[k.cur] = "EOK" /\ ~Gone /\ obj.free = 0 /\ timed[k.cur]
        /\ k' = [k EXCEPT !.error[k.cur] = "ETIMEOUT"]
  /\ Return("run")
  /\ UNCHANGED <<obj, own, alive>>

\* rt_mp_free: it trusts the counter and takes the list's first entry for a
\* thread.
Free(b) ==
  /\ Calls("send") /\ b \in own[k.cur]
  /\ own' = [own EXCEPT ![k.cur] = @ \ {b}]
  /\ LET wake == obj.suspended > 0
     IN  /\ obj' = [list |-> Cons(b, obj.list), free |-> obj.free + 1,
                    suspended |-> obj.suspended - (IF wake THEN 1 ELSE 0)]
         /\ CASE ~wake -> k' = k /\ UNCHANGED pc
              [] wake /\ k.wait["recv"] = << >> -> k' = k /\ Goto("corrupt")
              [] OTHER -> /\ k' = rt_thread_resume(
                               [k EXCEPT !.error[Head(k.wait["recv"])] = "EOK"],
                               Head(k.wait["recv"]))
                          /\ Goto("sched")
  /\ UNCHANGED <<timed, alive>>

\* rt_mp_delete or rt_mp_detach: a loop like rt_ipc_list_resume_all's, with
\* the same window between its test and its body, that also counts.
Wake ==
  /\ pc[k.cur] = "del_wake"
  /\ IF k.wait["recv"] = << >>
     THEN k' = k /\ Goto("corrupt")
     ELSE k' = ResumeOne(k, Head(k.wait["recv"])) /\ Goto("del_test")
  /\ obj' = [obj EXCEPT !.suspended = @ - 1]
  /\ UNCHANGED <<own, timed, alive>>

Next ==
  \/ \E bounded \in Bounded : Alloc(bounded)
  \/ \E b \in Block : Free(b)
  \/ Retry \/ GiveUp \/ Common
  \/ Delete \/ DeleteTest(<<"recv">>, "del_free") \/ Wake \/ DeleteEnd
  \/ UseAfterDelete

Spec == Init /\ [][Next]_vars

-----------------------------------------------------------------------------
(* Properties *)

\* The type of the object.
TypeOK ==
  /\ obj \in [list : Seq(Block), free : 0 .. Cardinality(Block), suspended : Nat]
  /\ own \in [Thread -> SUBSET Block]

\* Every block is in the free chain exactly once or with exactly one client,
\* and the free count is the length of the chain, so that no block is handed
\* out twice or leaks when a wake-up is stolen (rt_mp_alloc, rt_mp_free).
BlocksConserved ==
  /\ IsInjective(obj.list) /\ obj.free = Len(obj.list)
  /\ \A b \in Block : b \in ToSet(obj.list) <=> \A t \in Thread : b \notin own[t]
  /\ \A t, u \in Thread : t # u => own[t] \cap own[u] = {}

\* No lost wake-up: while clients are suspended on the pool, every free block
\* has a woken client on its way to it.
NoLostWakeup == alive /\ k.wait["recv"] # << >> => obj.free <= Cardinality(InFlight("recv"))

\* The counter is what its comment says, "numbers of thread pended on this
\* resource" (rtdef.h:814): the length of the list of suspended threads.
CountMatches == obj.suspended = Len(k.wait["recv"])

=============================================================================
