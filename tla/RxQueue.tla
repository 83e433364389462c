-------------------------------- MODULE RxQueue --------------------------------
(***************************************************************************)
(* What the receive side of a serial port promises its reader: the bytes   *)
(* in the order they came, and, when the reader is late, the most recent   *)
(* Cap of them.                                                            *)
(***************************************************************************)
EXTENDS Naturals, Sequences

CONSTANTS Byte, Cap

VARIABLES q,    \* the bytes received and not yet read, oldest first
          got   \* the byte the last read returned

Init == q = <<>> /\ got \in Byte

\* A byte is received; a full queue forgets its oldest byte.
Put(ch) ==
  /\ q' = Append(IF Len(q) = Cap THEN Tail(q) ELSE q, ch)
  /\ UNCHANGED got

\* The reader gets the oldest byte.
Get == q # <<>> /\ got' = Head(q) /\ q' = Tail(q)

Next == Get \/ \E ch \in Byte : Put(ch)

Spec == Init /\ [][Next]_<<q, got>>

=============================================================================
