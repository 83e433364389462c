-------------------------------- MODULE Event --------------------------------
(***************************************************************************)
(* The event of src/src/ipc.c under the real scheduler: clients wait for   *)
(* all (RT_EVENT_FLAG_AND) or some (RT_EVENT_FLAG_OR) bits of a set and    *)
(* may clear what they receive; threads and interrupts send bits.          *)
(*                                                                         *)
(*   obj          event->set                                               *)
(*   own[t].want  history: the bits the pending rt_event_recv is about     *)
(*   own[t].set   thread->event_set                                        *)
(*   own[t].all, own[t].clear  thread->event_info                          *)
(***************************************************************************)
EXTENDS Client

CONSTANTS IpcFlag,  \* RT_IPC_FLAG_FIFO or RT_IPC_FLAG_PRIO
          Bit,      \* the bits in use
          Request   \* what clients receive: bits, all or some, cleared or not

NoInfo == [want |-> {}, set |-> {}, all |-> FALSE, clear |-> FALSE]

Init == InitClients /\ obj = {} /\ own = [t \in Thread |-> NoInfo]

-----------------------------------------------------------------------------

\* The condition of a receiver of the bits s, all of them or any.
Satisfied(set, s, all) == IF all THEN s \subseteq set ELSE s \cap set # {}

\* rt_event_recv when the bits are there.
RecvAvailable(r) ==
  /\ Calls("recv") /\ Satisfied(obj, r.set, r.all)
  /\ k' = [k EXCEPT !.error[k.cur] = "EOK"]
  /\ obj' = IF r.clear THEN obj \ r.set ELSE obj
  /\ UNCHANGED <<pc, timed, alive, own>>

\* rt_event_recv with timeout # 0 when they are not.
RecvBlock(r, bounded) ==
  /\ Calls("recv") /\ ~Satisfied(obj, r.set, r.all)
  /\ own' = [own EXCEPT ![k.cur] = [want |-> r.set, set |-> r.set, all |-> r.all,
                                    clear |-> r.clear]]
  /\ Park(rt_ipc_list_suspend([k EXCEPT !.error[k.cur] = "EOK"], "recv", k.cur, IpcFlag),
          "blocked", bounded)
  /\ UNCHANGED <<alive, obj>>

\* The return from rt_schedule, with an error or with thread->event_set.
RecvReturn ==
  /\ pc[k.cur] = "woken"
  /\ own' = [own EXCEPT ![k.cur] = NoInfo]
  /\ Return("run")
  /\ UNCHANGED <<k, alive, obj>>

\* Mutant: the bits seen so far are kept in event_set before they suffice.
Serve_Narrows(s, t) ==
  LET i   == s.own[t]
      got == IF i.all THEN i.set ELSE i.set \cap s.set
  IN  IF Satisfied(s.set, i.set, i.all)
      THEN [k   |-> rt_thread_resume(s.k, t),
            set |-> IF i.clear THEN s.set \ got ELSE s.set,
            own |-> [s.own EXCEPT ![t].set = got]]
      ELSE [s EXCEPT !.own[t].set = IF i.all THEN @ \ s.set ELSE @]

\* One turn of rt_event_send's loop over the waiters.
Serve(s, t) ==
  LET i   == s.own[t]
      got == IF i.all THEN i.set ELSE i.set \cap s.set
  IN  IF Satisfied(s.set, i.set, i.all)
      THEN [k   |-> rt_thread_resume(s.k, t),
            set |-> IF i.clear THEN s.set \ got ELSE s.set,
            own |-> [s.own EXCEPT ![t].set = got]]
      ELSE s

\* rt_event_send's critical section: every waiter is looked at, in the order
\* of the list, with what those before it have left.
Served(bits) ==
  Seqs!FoldLeft(Serve, [k |-> k, set |-> obj \cup bits, own |-> own], k.wait["recv"])

Send(bits) ==
  /\ Calls("send")
  /\ LET s == Served(bits)
     IN  /\ k' = s.k /\ obj' = s.set /\ own' = s.own
         /\ IF s.k = k THEN UNCHANGED pc ELSE Goto("sched")
  /\ UNCHANGED <<timed, alive>>

SendFromISR(bits) ==
  /\ "isr" \in Api /\ alive
  /\ LET s == Served(bits)
     IN  /\ k' = IF s.k = k THEN k ELSE rt_schedule(s.k)
         /\ obj' = s.set /\ own' = s.own
  /\ UNCHANGED <<pc, timed, alive>>

\* rt_event_control(RT_IPC_CMD_RESET).
Reset ==
  /\ Calls("reset")
  /\ k' = rt_ipc_list_resume_all(k, "recv")
  /\ obj' = {}
  /\ Goto("sched")
  /\ UNCHANGED <<timed, alive, own>>

Next ==
  \/ \E s \in SUBSET Bit \ {{}} : Send(s) \/ SendFromISR(s)
  \/ \E r \in Request : RecvAvailable(r) \/ \E bounded \in Bounded : RecvBlock(r, bounded)
  \/ RecvReturn \/ Reset \/ Common
  \/ Delete \/ DeleteTest(<<"recv">>, "del_free") \/ DeleteWake(<<"recv">>)
  \/ DeleteEnd

Spec == Init /\ [][Next]_vars

-----------------------------------------------------------------------------
(* Properties *)

\* The type of the object.
TypeOK ==
  /\ obj \subseteq Bit
  /\ own \in [Thread -> [want : SUBSET Bit, set : SUBSET Bit, all : BOOLEAN, clear : BOOLEAN]]

\* No suspended client's condition holds: a client cannot be skipped because
\* an earlier one in the list was served and cleared bits (rt_event_send).
NoLostWakeup ==
  \A t \in Waiting("recv") : ~Satisfied(obj, own[t].set, own[t].all)

\* A client that rt_event_send has woken returns all the bits it asked for, or
\* at least one of them and no other, whatever was sent before and after and
\* whoever cleared bits in between (thread->event_set, rt_event_recv's recved).
ReceivesWhatItWants ==
  \A t \in InFlight("recv") :
    IF own[t].all THEN own[t].set = own[t].want
                  ELSE own[t].set # {} /\ own[t].set \subseteq own[t].want

=============================================================================
