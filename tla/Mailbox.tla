------------------------------- MODULE Mailbox -------------------------------
(***************************************************************************)
(* The mailbox of src/src/ipc.c under the real scheduler.  Receivers wait  *)
(* on one list while the ring is empty, senders on another while it is     *)
(* full.  Both sides loop: a client that has been woken looks at the ring  *)
(* again, because any thread that ran in between may have been faster.     *)
(*                                                                         *)
(*   obj.pool, obj.in, obj.out, obj.entry   msg_pool, in_offset,           *)
(*                out_offset, entry                                        *)
(*   own[t].msg   the mail its pending rt_mb_send_wait is about            *)
(*   own[t].got   the mail it has received and not yet used                *)
(***************************************************************************)
EXTENDS Client

CONSTANTS IpcFlag,  \* RT_IPC_FLAG_FIFO or RT_IPC_FLAG_PRIO
          Msg,      \* the mails
          NoMsg,    \* an unset value
          Cap       \* mb->size

Empty == [pool |-> [i \in 0 .. Cap - 1 |-> NoMsg], in |-> 0, out |-> 0, entry |-> 0]

Init == /\ InitClients
        /\ obj = Empty
        /\ own = [t \in Thread |-> [msg |-> NoMsg, got |-> NoMsg]]

\* Mutant: an offset wraps one place late.
NextOffset_Late(i) == IF i + 1 > Cap THEN 0 ELSE i + 1

\* in_offset or out_offset after an increment.
NextOffset(i) == IF i + 1 >= Cap THEN 0 ELSE i + 1

-----------------------------------------------------------------------------

\* The ring after a mail has been put into it.
Filled(m) == [obj EXCEPT !.pool[obj.in] = m, !.in = NextOffset(@), !.entry = @ + 1]

\* The way out of rt_mb_send_wait's loop: store the mail, wake a receiver.
Put(m) ==
  /\ obj.entry < Cap
  /\ obj' = Filled(m)
  /\ WakeFirst("recv")
  /\ own' = [own EXCEPT ![k.cur].msg = NoMsg]
  /\ UNCHANGED alive

\* One pass through its body.
PutWait(m, bounded) ==
  /\ obj.entry = Cap
  /\ Park(rt_ipc_list_suspend([k EXCEPT !.error[k.cur] = "EOK"], "send", k.cur, IpcFlag),
          "tx_blocked", bounded)
  /\ own' = [own EXCEPT ![k.cur].msg = m]
  /\ UNCHANGED <<alive, obj>>

\* rt_mb_send_wait.  With timeout = 0 a full mailbox changes nothing.
Send(m, bounded) ==
  /\ Calls("send")
  /\ Put(m) \/ PutWait(m, bounded)

\* Woken by a receiver: back to the loop condition with the time that is left.
SendRetry ==
  /\ pc[k.cur] = "tx_woken" /\ k.error[k.cur] = "EOK" /\ ~Gone
  /\ Put(own[k.cur].msg) \/ PutWait(own[k.cur].msg, timed[k.cur])

\* rt_mb_send in an interrupt handler.
SendFromISR(m) ==
  /\ "isr" \in Api /\ alive /\ obj.entry < Cap
  /\ k' = WokenByISR("recv")
  /\ obj' = Filled(m)
  /\ UNCHANGED <<pc, timed, alive, own>>

\* The way out of rt_mb_recv's loop: fetch the mail, wake a sender.
Fetch ==
  /\ obj.entry > 0
  /\ own' = [own EXCEPT ![k.cur].got = obj.pool[obj.out]]
  /\ obj' = [obj EXCEPT !.out = NextOffset(@), !.entry = @ - 1]
  /\ WakeFirstAndUse("send")
  /\ UNCHANGED alive

FetchWait(bounded) ==
  /\ obj.entry = 0
  /\ Park(rt_ipc_list_suspend([k EXCEPT !.error[k.cur] = "EOK"], "recv", k.cur, IpcFlag),
          "blocked", bounded)
  /\ UNCHANGED <<alive, obj, own>>

\* rt_mb_recv.  With timeout = 0 an empty mailbox changes nothing.
Recv(bounded) ==
  /\ Calls("recv")
  /\ Fetch \/ FetchWait(bounded)

RecvRetry ==
  /\ pc[k.cur] = "woken" /\ k.error[k.cur] = "EOK" /\ ~Gone
  /\ Fetch \/ FetchWait(timed[k.cur])

\* Waiting ends without success: an error, or no time left although woken.
GiveUp ==
  /\ pc[k.cur] \in {"woken", "tx_woken"}
  /\ \/ k.error[k.cur] # "EOK" /\ k' = k
     \/ /\ k.error[k.cur] = "EOK" /\ timed[k.cur] /\ ~Gone
        /\ obj.entry = IF pc[k.cur] = "woken" THEN 0 ELSE Cap
        /\ k' = IF pc[k.cur] = "woken" THEN [k EXCEPT !.error[k.cur] = "ETIMEOUT"] ELSE k
  /\ own' = [own EXCEPT ![k.cur].msg = NoMsg]
  /\ Return("run")
  /\ UNCHANGED <<alive, obj>>

\* The receiver is done with its mail.
Use ==
  /\ pc[k.cur] = "using"
  /\ own' = [own EXCEPT ![k.cur].got = NoMsg]
  /\ Goto("run")
  /\ UNCHANGED <<k, timed, alive, obj>>

\* rt_mb_control(RT_IPC_CMD_RESET): both lists are woken with an error.
Reset ==
  /\ Calls("reset")
  /\ k' = rt_ipc_list_resume_all(rt_ipc_list_resume_all(k, "recv"), "send")
  /\ obj' = [Empty EXCEPT !.pool = obj.pool]
  /\ Goto("sched")
  /\ UNCHANGED <<timed, alive, own>>

Next ==
  \/ \E m \in Msg : SendFromISR(m) \/ \E bounded \in Bounded : Send(m, bounded)
  \/ \E bounded \in Bounded : Recv(bounded)
  \/ SendRetry \/ RecvRetry \/ GiveUp \/ Use \/ Reset \/ Common
  \/ Delete \/ DeleteTest(<<"recv", "send">>, "del_free") \/ DeleteWake(<<"recv", "send">>)
  \/ DeleteEnd \/ UseAfterDelete

Spec == Init /\ [][Next]_vars

-----------------------------------------------------------------------------
(* Properties *)

\* The type of the object.
TypeOK ==
  /\ obj \in [pool : [0 .. Cap - 1 -> Msg \cup {NoMsg}], in : 0 .. Cap - 1,
              out : 0 .. Cap - 1, entry : 0 .. Cap]
  /\ own \in [Thread -> [msg : Msg \cup {NoMsg}, got : Msg \cup {NoMsg}]]

\* The mails in the order in which they came.
Contents == [i \in 1 .. obj.entry |-> obj.pool[(obj.out + i - 1) % Cap]]

Got == [t \in Thread |-> own[t].got]

\* The steps that put a mail into the ring, that take one out, and that end the
\* receiver's use of it.
Sends(m) == Put(m) \/ SendFromISR(m)
Receives == Fetch
Ends == Use

\* While clients wait for a mail, every mail in the ring has a woken receiver
\* on its way to it; while clients wait for room, every free place has a woken
\* sender on its way (rt_mb_send_wait, rt_mb_recv).
NoLostWakeup ==
  alive => /\ k.wait["recv"] # << >> => obj.entry <= Cardinality(InFlight("recv"))
           /\ k.wait["send"] # << >> => Cap - obj.entry <= Cardinality(InFlight("send"))

=============================================================================
