----------------------------- MODULE BoundedQueue -----------------------------
(***************************************************************************)
(* What a mailbox, a message queue and a data queue promise: messages wait *)
(* in one line of bounded length, a receiver gets the first of them, and   *)
(* what it has got is its own until it is done with it.  Which operation a *)
(* step of the code has to be is said where the queue is implemented.      *)
(***************************************************************************)
EXTENDS Naturals, Sequences

CONSTANTS Receiver,  \* who may receive
          Msg,       \* the messages
          NoMsg,     \* no message
          Cap        \* the length of the line

VARIABLES q,    \* the messages sent and not yet received, oldest first
          got   \* the message each receiver has

Init == q = << >> /\ got = [r \in Receiver |-> NoMsg]

Put(m) == Len(q) < Cap /\ q' = Append(q, m) /\ UNCHANGED got

\* An urgent message goes to the front.
PutFirst(m) == Len(q) < Cap /\ q' = <<m>> \o q /\ UNCHANGED got

Take(r) ==
  /\ q # << >>
  /\ got' = [got EXCEPT ![r] = Head(q)]
  /\ q' = Tail(q)

Use(r) == got' = [got EXCEPT ![r] = NoMsg] /\ UNCHANGED q

\* The queue is reset.
Clear == q' = << >> /\ UNCHANGED got

\* Everything else leaves the messages where they are.
Keep == UNCHANGED <<q, got>>

=============================================================================
