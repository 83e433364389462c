------------------------------ MODULE MCObjects ------------------------------
(* Instances of Objects: idle and three clients, two of one priority; the  *)
(* clients of the mutex have three different ones.                         *)
EXTENDS Objects, TLC

CONSTANTS idle, hi, t1, t2, lo, e1, e2

MCThread == {idle, hi, t1, t2, lo}
MCPrio == [t \in MCThread |-> IF t = hi THEN 0 ELSE IF t = idle THEN 3
                              ELSE IF t = lo THEN 2 ELSE 1]

\* All and some of two bits, and a receiver of one of them that clears it.
MCRequest == {[set |-> {e1, e2}, all |-> TRUE, clear |-> TRUE],
              [set |-> {e1, e2}, all |-> FALSE, clear |-> FALSE],
              [set |-> {e1}, all |-> TRUE, clear |-> TRUE]}

\* The clients of one priority and the messages are alike.
MCSymmetry == Permutations({t1, t2}) \cup Permutations(Msg)

\* What is left in the places of a ring, in free blocks and in thread->error
\* by operations that are over is never read: error is set before every wait.
Live ==
  CASE kind = "mailbox" -> MB!Contents
    [] kind = "dataqueue" -> <<DQ!Contents, obj.put>>
    [] kind = "messagequeue" ->
         [obj EXCEPT !.text = [b \in Block |-> IF Contains(obj.free, b) THEN NoMsg ELSE @[b]],
                     !.next = [b \in Block |-> IF Contains(MQ!Chain, b) THEN @[b] ELSE Null]]
    [] OTHER -> obj

MCView ==
  <<[k EXCEPT !.error = [t \in Thread |->
       IF pc[t] \in {"blocked", "woken", "tx_blocked", "tx_woken"} THEN @[t] ELSE "EOK"]],
    pc, timed, alive, Live, own, kind>>

=============================================================================
