----------------------------- MODULE MessageQueue -----------------------------
(***************************************************************************)
(* The message queue of src/src/ipc.c under the real scheduler: blocks in  *)
(* a free list and in a singly linked line with a head and a tail.  The    *)
(* block of a message is taken, filled and linked in three separate steps, *)
(* and fetched, read and given back in three others, with interrupts       *)
(* enabled while the message is copied.                                    *)
(*                                                                         *)
(*   obj.free   msg_queue_free                                             *)
(*   obj.next, obj.text   the link and the contents of each block          *)
(*   obj.head, obj.tail, obj.entry                                         *)
(*   own[t].block   the block client t is working on                       *)
(*   own[t].msg     the message it sends, or has received                  *)
(*   own[t].urgent  it is in rt_mq_urgent                                  *)
(***************************************************************************)
EXTENDS Client

CONSTANTS IpcFlag,  \* RT_IPC_FLAG_FIFO or RT_IPC_FLAG_PRIO
          Msg,      \* the messages
          NoMsg,    \* an unset buffer
          Block,    \* the blocks of msg_pool
          Null      \* RT_NULL

Nothing == [block |-> Null, msg |-> NoMsg, urgent |-> FALSE]

\* rt_mq_init and rt_mq_create chain all blocks.
Init == /\ InitClients
        /\ obj = [free |-> Seqs!SetToSeq(Block), next |-> [b \in Block |-> Null],
                  text |-> [b \in Block |-> NoMsg],
                  head |-> Null, tail |-> Null, entry |-> 0]
        /\ own = [t \in Thread |-> Nothing]

-----------------------------------------------------------------------------

\* rt_mq_send or rt_mq_urgent takes a block.  (With none it returns -RT_EFULL
\* and changes nothing.)
Send(m, urgent) ==
  /\ Calls(IF urgent THEN "urgent" ELSE "send") /\ obj.free # << >>
  /\ obj' = [obj EXCEPT !.free = Tail(@)]
  /\ own' = [own EXCEPT ![k.cur] = [block |-> Head(obj.free), msg |-> m, urgent |-> urgent]]
  /\ Goto("copy_in")
  /\ UNCHANGED <<k, timed, alive>>

\* It fills the block ...
Written(o, b, m) == [o EXCEPT !.text[b] = m]

CopyIn ==
  /\ pc[k.cur] = "copy_in" /\ ~Gone
  /\ obj' = Written(obj, own[k.cur].block, own[k.cur].msg)
  /\ Goto("link")
  /\ UNCHANGED <<k, timed, alive, own>>

\* Mutant: an ordinary message goes to the front like an urgent one.
Linked_Front(o, b, urgent) ==
  [o EXCEPT !.next = [@ EXCEPT ![b] = o.head], !.head = b,
            !.tail = IF @ # Null THEN @ ELSE b, !.entry = @ + 1]

\* ... and links it: at the tail, or at the head when it is urgent.
Linked(o, b, urgent) ==
  [o EXCEPT !.next = IF urgent THEN [@ EXCEPT ![b] = o.head]
                     ELSE [x \in Block |-> IF x = o.tail THEN b
                                           ELSE IF x = b THEN Null ELSE @[x]],
            !.head = IF urgent \/ @ = Null THEN b ELSE @,
            !.tail = IF urgent /\ @ # Null THEN @ ELSE b,
            !.entry = @ + 1]

Link ==
  /\ pc[k.cur] = "link" /\ ~Gone
  /\ obj' = Linked(obj, own[k.cur].block, own[k.cur].urgent)
  /\ own' = [own EXCEPT ![k.cur] = Nothing]
  /\ WakeFirst("recv")
  /\ UNCHANGED alive

\* rt_mq_send in an interrupt handler: no thread runs between its steps.
SendFromISR(m) ==
  /\ "isr" \in Api /\ alive /\ obj.free # << >>
  /\ LET b == Head(obj.free)
     IN  obj' = Linked(Written([obj EXCEPT !.free = Tail(@)], b, m), b, FALSE)
  /\ k' = WokenByISR("recv")
  /\ UNCHANGED <<pc, timed, alive, own>>

\* The line without its first block.
Unlinked(o) ==
  [o EXCEPT !.head = o.next[o.head], !.tail = IF @ = o.head THEN Null ELSE @,
            !.entry = @ - 1]

\* Mutant: the block is free again before its contents have been copied.
Fetch_FreesFirst ==
  /\ obj.entry > 0
  /\ obj' = [Unlinked(obj) EXCEPT !.free = Cons(obj.head, @)]
  /\ own' = [own EXCEPT ![k.cur].block = obj.head]
  /\ Return("copy_out")
  /\ UNCHANGED <<k, alive>>

\* The way out of rt_mq_recv's loop: take the first block out of the line ...
Fetch ==
  /\ obj.entry > 0
  /\ obj' = Unlinked(obj)
  /\ own' = [own EXCEPT ![k.cur].block = obj.head]
  /\ Return("copy_out")
  /\ UNCHANGED <<k, alive>>

FetchWait(bounded) ==
  /\ obj.entry = 0
  /\ Park(rt_ipc_list_suspend([k EXCEPT !.error[k.cur] = "EOK"], "recv", k.cur, IpcFlag),
          "blocked", bounded)
  /\ UNCHANGED <<alive, obj, own>>

\* rt_mq_recv.  With timeout = 0 an empty queue changes nothing.
Recv(bounded) ==
  /\ Calls("recv")
  /\ Fetch \/ FetchWait(bounded)

\* Woken by a sender: back to the loop condition with the time that is left.
RecvRetry ==
  /\ pc[k.cur] = "woken" /\ k.error[k.cur] = "EOK" /\ ~Gone
  /\ Fetch \/ FetchWait(timed[k.cur])

\* Waiting ends without success: an error, or no time left although woken.
GiveUp ==
  /\ pc[k.cur] = "woken"
  /\ \/ k.error[k.cur] # "EOK" /\ k' = k
     \/ /\ k.error[k.cur] = "EOK" /\ timed[k.cur] /\ ~Gone /\ obj.entry = 0
        /\ k' = [k EXCEPT !.error[k.cur] = "ETIMEOUT"]
  /\ Return("run")
  /\ UNCHANGED <<alive, obj, own>>

\* ... read it ...
CopyOut ==
  /\ pc[k.cur] = "copy_out" /\ ~Gone
  /\ own' = [own EXCEPT ![k.cur].msg = obj.text[own[k.cur].block]]
  /\ Goto("give_back")
  /\ UNCHANGED <<k, timed, alive, obj>>

\* ... and put it into the free list.
GiveBack ==
  /\ pc[k.cur] = "give_back" /\ ~Gone
  /\ obj' = [obj EXCEPT !.free = Cons(own[k.cur].block, @)]
  /\ own' = [own EXCEPT ![k.cur].block = Null]
  /\ Goto("using")
  /\ UNCHANGED <<k, timed, alive>>

\* The receiver is done with its message.
Use ==
  /\ pc[k.cur] = "using"
  /\ own' = [own EXCEPT ![k.cur] = Nothing]
  /\ Goto("run")
  /\ UNCHANGED <<k, timed, alive, obj>>

\* The blocks of the line, first to last.
Chain ==
  LET at[i \in 1 .. obj.entry] == IF i = 1 THEN obj.head ELSE obj.next[at[i - 1]]
  IN  at

\* rt_mq_control(RT_IPC_CMD_RESET): the line goes block by block into the free
\* list.
Reset ==
  /\ Calls("reset")
  /\ k' = rt_ipc_list_resume_all(k, "recv")
  /\ obj' = [obj EXCEPT !.free = Seqs!Reverse(Chain) \o @, !.head = Null, !.tail = Null,
                        !.entry = 0]
  /\ Goto("sched")
  /\ UNCHANGED <<timed, alive, own>>

\* A client in the middle of a call works on a block of a deleted queue.
UseFreed ==
  /\ Gone /\ pc[k.cur] \in {"copy_in", "link", "copy_out", "give_back"}
  /\ Goto("corrupt")
  /\ UNCHANGED <<k, timed, alive, obj, own>>

Next ==
  \/ \E m \in Msg : SendFromISR(m) \/ \E urgent \in BOOLEAN : Send(m, urgent)
  \/ \E bounded \in Bounded : Recv(bounded)
  \/ CopyIn \/ Link \/ RecvRetry \/ GiveUp \/ CopyOut \/ GiveBack \/ Use \/ Reset \/ Common
  \/ Delete \/ DeleteTest(<<"recv">>, "del_free") \/ DeleteWake(<<"recv">>)
  \/ DeleteEnd \/ UseAfterDelete \/ UseFreed

Spec == Init /\ [][Next]_vars

-----------------------------------------------------------------------------
(* Properties *)

\* The type of the object.
TypeOK ==
  /\ obj \in [free : Seq(Block), next : [Block -> Block \cup {Null}],
              text : [Block -> Msg \cup {NoMsg}], head : Block \cup {Null},
              tail : Block \cup {Null}, entry : 0 .. Cardinality(Block)]
  /\ own \in [Thread -> [block : Block \cup {Null}, msg : Msg \cup {NoMsg}, urgent : BOOLEAN]]

\* The messages in the order in which they will be received.
Contents == [i \in 1 .. obj.entry |-> obj.text[Chain[i]]]

\* A receiver has its message from the moment it takes the block.
Got == [t \in Thread |-> CASE pc[t] = "copy_out" -> obj.text[own[t].block]
                           [] pc[t] \in {"give_back", "using"} -> own[t].msg
                           [] OTHER -> NoMsg]

\* The steps that link a message, an ordinary or an urgent one, that take one
\* out, and that end the receiver's use of it.
Sends(m) == \/ Link /\ own[k.cur].msg = m /\ ~own[k.cur].urgent
            \/ SendFromISR(m)
SendsUrgent(m) == Link /\ own[k.cur].msg = m /\ own[k.cur].urgent
Receives == Fetch
Ends == Use

\* Every block is in the free list, in the line or with one client, once.
BlocksConserved ==
  LET held == {own[t].block : t \in Thread} \ {Null}
  IN  /\ IsInjective(obj.free \o Chain)
      /\ \A t, u \in Thread : t # u /\ own[t].block # Null => own[t].block # own[u].block
      /\ \A b \in Block : b \in held <=> ~Contains(obj.free \o Chain, b)

\* While clients wait for a message, every message in the line has a woken
\* receiver on its way to it (rt_mq_send, rt_mq_recv).
NoLostWakeup ==
  alive /\ k.wait["recv"] # << >> => obj.entry <= Cardinality(InFlight("recv"))

=============================================================================
