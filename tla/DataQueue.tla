------------------------------ MODULE DataQueue ------------------------------
(***************************************************************************)
(* The data queue of components/drivers/src/dataqueue.c under the real     *)
(* scheduler: a ring with free-running 16-bit indices.  A producer that    *)
(* finds the ring full waits until consumers have drained it to the low    *)
(* water mark.  Both sides loop, and start a bounded wait anew each time.  *)
(*                                                                         *)
(*   obj.ring, obj.put, obj.get   queue, put_index, get_index              *)
(*   own[t].msg, own[t].got       as in Mailbox                            *)
(***************************************************************************)
EXTENDS Client, Integers

CONSTANTS Msg,       \* the data
          NoMsg,     \* an unset pointer
          Cap,       \* queue->size
          Lwm,       \* queue->lwm
          IndexMod,  \* 2^16 in the code: the indices are rt_uint16_t
          MaxPut     \* bound on put_index

Init == /\ InitClients
        /\ obj = [ring |-> [i \in 0 .. Cap - 1 |-> NoMsg], put |-> 0, get |-> 0]
        /\ own = [t \in Thread |-> [msg |-> NoMsg, got |-> NoMsg]]

-----------------------------------------------------------------------------

\* put_index - get_index: the operands are promoted to int, so that the
\* difference is negative once put_index has wrapped and get_index has not.
Difference(o) == o.put - o.get

Stored(m) == [obj EXCEPT !.ring[obj.put % Cap] = m, !.put = (@ + 1) % IndexMod]

\* The way out of rt_data_queue_push's loop: store, wake a consumer.
Put(m) ==
  /\ Difference(obj) # Cap /\ obj.put < MaxPut
  /\ obj' = Stored(m)
  /\ WakeFirst("recv")
  /\ own' = [own EXCEPT ![k.cur].msg = NoMsg]
  /\ UNCHANGED alive

\* One pass through its body.
PutWait(m, bounded) ==
  /\ Difference(obj) = Cap
  /\ LET s == rt_thread_suspend([k EXCEPT !.error[k.cur] = "EOK"], k.cur)
     IN  Park(Enqueue(s, "send", k.cur), "tx_blocked", bounded)
  /\ own' = [own EXCEPT ![k.cur].msg = m]
  /\ UNCHANGED <<alive, obj>>

\* rt_data_queue_push.  With timeout = 0 a full queue changes nothing.
PushData(m, bounded) ==
  /\ Calls("send")
  /\ Put(m) \/ PutWait(m, bounded)

PushRetry ==
  /\ pc[k.cur] = "tx_woken" /\ k.error[k.cur] = "EOK"
  /\ Put(own[k.cur].msg) \/ PutWait(own[k.cur].msg, timed[k.cur])

\* rt_data_queue_push with timeout = 0 in an interrupt handler.
PushFromISR(m) ==
  /\ "isr" \in Api /\ Difference(obj) # Cap /\ obj.put < MaxPut
  /\ obj' = Stored(m)
  /\ k' = WokenByISR("recv")
  /\ UNCHANGED <<pc, timed, alive, own>>

\* Mutant: a producer is woken only below the low water mark.
Fetch_BelowMark ==
  /\ obj.get # obj.put
  /\ own' = [own EXCEPT ![k.cur].got = obj.ring[obj.get % Cap]]
  /\ obj' = [obj EXCEPT !.get = (@ + 1) % IndexMod]
  /\ IF Difference(obj') < Lwm THEN WakeFirstAndUse("send") ELSE k' = k /\ Return("using")
  /\ UNCHANGED alive

\* The way out of rt_data_queue_pop's loop: fetch, wake a producer if the
\* queue has been drained far enough.
Fetch ==
  /\ obj.get # obj.put
  /\ own' = [own EXCEPT ![k.cur].got = obj.ring[obj.get % Cap]]
  /\ obj' = [obj EXCEPT !.get = (@ + 1) % IndexMod]
  /\ IF Difference(obj') <= Lwm THEN WakeFirstAndUse("send") ELSE k' = k /\ Return("using")
  /\ UNCHANGED alive

FetchWait(bounded) ==
  /\ obj.get = obj.put
  /\ LET s == rt_thread_suspend([k EXCEPT !.error[k.cur] = "EOK"], k.cur)
     IN  Park(Enqueue(s, "recv", k.cur), "blocked", bounded)
  /\ UNCHANGED <<alive, obj, own>>

\* rt_data_queue_pop.  With timeout = 0 an empty queue changes nothing.
Pop(bounded) ==
  /\ Calls("recv")
  /\ Fetch \/ FetchWait(bounded)

PopRetry ==
  /\ pc[k.cur] = "woken" /\ k.error[k.cur] = "EOK"
  /\ Fetch \/ FetchWait(timed[k.cur])

\* A timeout or a reset ends the wait.
GiveUp ==
  /\ pc[k.cur] \in {"woken", "tx_woken"} /\ k.error[k.cur] # "EOK"
  /\ own' = [own EXCEPT ![k.cur].msg = NoMsg]
  /\ Return("run")
  /\ UNCHANGED <<k, alive, obj>>

\* The consumer is done with its data.
Use ==
  /\ pc[k.cur] = "using"
  /\ own' = [own EXCEPT ![k.cur].got = NoMsg]
  /\ Goto("run")
  /\ UNCHANGED <<k, timed, alive, obj>>

\* rt_data_queue_reset wakes all waiters with the scheduler locked; it leaves
\* the data in the queue.
Reset ==
  /\ Calls("reset")
  /\ k' = rt_enter_critical(k)
  /\ Goto("del_test")
  /\ UNCHANGED <<timed, alive, obj, own>>

ResetEnd ==
  /\ pc[k.cur] = "unlock"
  /\ k' = rt_exit_critical(k)
  /\ Goto("sched")
  /\ UNCHANGED <<timed, alive, obj, own>>

Next ==
  \/ \E m \in Msg : PushFromISR(m) \/ \E bounded \in Bounded : PushData(m, bounded)
  \/ \E bounded \in Bounded : Pop(bounded)
  \/ PushRetry \/ PopRetry \/ GiveUp \/ Use \/ Common
  \/ Reset \/ DeleteTest(<<"recv", "send">>, "unlock") \/ DeleteWake(<<"recv", "send">>)
  \/ ResetEnd

Spec == Init /\ [][Next]_vars

-----------------------------------------------------------------------------
(* Properties *)

\* The type of the object.
TypeOK ==
  /\ obj \in [ring : [0 .. Cap - 1 -> Msg \cup {NoMsg}], put : 0 .. IndexMod - 1,
              get : 0 .. IndexMod - 1]
  /\ own \in [Thread -> [msg : Msg \cup {NoMsg}, got : Msg \cup {NoMsg}]]

\* How many data there really are.
Size == (obj.put - obj.get + IndexMod) % IndexMod

\* The data in the order in which they came.
Contents == [i \in 1 .. Size |-> obj.ring[((obj.get + i - 1) % IndexMod) % Cap]]

Got == [t \in Thread |-> own[t].got]

\* As in Mailbox.
Sends(m) == Put(m) \/ PushFromISR(m)
Receives == Fetch
Ends == Use

\* While consumers wait, all data in the ring have woken consumers on their
\* way; while producers wait, so has the room below the low water mark
\* (rt_data_queue_push, rt_data_queue_pop).
NoLostWakeup ==
  /\ k.wait["recv"] # << >> => Size <= Cardinality(InFlight("recv"))
  /\ k.wait["send"] # << >> => Lwm + 1 - Size <= Cardinality(InFlight("send"))

\* The comment "queue is full" (dataqueue.c:68) says what the loop of
\* rt_data_queue_push waits for: the ring never holds more than it has room for.
NeverOverfull == Size <= Cap

=============================================================================
