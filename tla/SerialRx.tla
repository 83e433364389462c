------------------------------- MODULE SerialRx -------------------------------
(***************************************************************************)
(* Interrupt-driven receive of a serial port: the software FIFO and ISR of *)
(* src/components/drivers/serial/serial.c, the UART of                     *)
(* src/bsp/stm32f4xx-HAL/drivers/drv_usart.c below them, and above them    *)
(* the loop of my_usart1_thread_entry that reads one character at a time   *)
(* and waits on rx_sem_uart1_self when there is none.  There is one CPU:   *)
(* the thread does not run while the ISR does.  The port is not closed.    *)
(***************************************************************************)
EXTENDS Naturals, Sequences

CONSTANTS Byte,      \* the characters
          NoByte,    \* RXNE is clear
          BufSz,     \* serial->config.bufsz
          ValueMod,  \* 2^16: the semaphore's value is a rt_uint16_t
          MaxBytes   \* bound on the characters that arrive

ASSUME RxAssumption ==
  /\ BufSz \in Nat \ {0, 1} /\ ValueMod \in Nat \ {0, 1} /\ MaxBytes \in Nat
  /\ Byte # {} /\ NoByte \notin Byte

VARIABLES fifo,     \* serial->serial_rx: [buffer, put, get, is_full]
          dr,       \* the UART's data register
          isr,      \* where USART1_IRQHandler is
          indicate, \* is rx_indicate set?
          sem,      \* the value of rx_sem_uart1_self
          pc,       \* where the reading thread is
          ch,       \* its last character
          sent      \* how many characters have arrived

vars == <<fifo, dr, isr, indicate, sem, pc, ch, sent>>

Init ==
  /\ fifo = [buffer |-> [i \in 0 .. BufSz - 1 |-> CHOOSE b \in Byte : TRUE],
             put |-> 0, get |-> 0, is_full |-> FALSE]
  /\ dr = NoByte /\ isr = "idle" /\ indicate = FALSE
  /\ sem = 0 /\ pc = "open" /\ ch \in Byte /\ sent = 0

-----------------------------------------------------------------------------
(* The UART and the ISR *)

\* A character arrives; it is lost if the last one is still in the register.
Arrive(b) ==
  /\ sent < MaxBytes /\ sent' = sent + 1
  /\ dr' = IF dr = NoByte THEN b ELSE dr
  /\ UNCHANGED <<fifo, isr, indicate, sem, pc, ch>>

\* USART1_IRQHandler is entered: the port's interrupt is enabled by rt_serial_open.
Interrupt ==
  /\ isr = "idle" /\ dr # NoByte /\ pc # "open"
  /\ isr' = "drain"
  /\ UNCHANGED <<fifo, dr, indicate, sem, pc, ch, sent>>

\* Mutant: the index runs one past the end before it wraps.
Advance_Late(i) == IF i + 1 > BufSz THEN 0 ELSE i + 1

\* An index of the buffer, advanced by one.
Advance(i) == IF i + 1 >= BufSz THEN 0 ELSE i + 1

\* Mutant: a full buffer is not noticed; its get index stays.
Store_NoDiscard(f, b) ==
  [f EXCEPT !.buffer[f.put] = b, !.put = Advance(@)]

\* A character goes into the FIFO: if that fills it, the oldest goes out.
Store(f, b) ==
  LET g == [f EXCEPT !.buffer[f.put] = b, !.put = Advance(@)]
  IN  IF g.put = g.get THEN [g EXCEPT !.get = Advance(@), !.is_full = TRUE] ELSE g

\* One turn of the loop in rt_hw_serial_isr: getc gave a character.
IsrGetc ==
  /\ isr = "drain" /\ dr # NoByte
  /\ fifo' = Store(fifo, dr)
  /\ dr' = NoByte
  /\ UNCHANGED <<isr, indicate, sem, pc, ch, sent>>

RxLength == IF fifo.put >= fifo.get THEN fifo.put - fifo.get
                                    ELSE BufSz - (fifo.get - fifo.put)

\* getc gave none: the loop ends.
IsrDrained ==
  /\ isr = "drain" /\ dr = NoByte
  /\ isr' = "indicate"
  /\ UNCHANGED <<fifo, dr, indicate, sem, pc, ch, sent>>

\* Mutant: the waiting thread is not resumed.
IsrIndicate_NoResume ==
  /\ isr = "indicate" /\ isr' = "clear"
  /\ sem' = IF indicate /\ RxLength > 0 /\ pc # "wait" THEN (sem + 1) % ValueMod ELSE sem
  /\ UNCHANGED <<fifo, dr, indicate, pc, ch, sent>>

\* rt_hw_serial_isr calls rx_indicate, uart1_input, which releases the
\* semaphore: the waiting thread is resumed, or the value goes up.
IsrIndicate ==
  /\ isr = "indicate" /\ isr' = "clear"
  /\ LET release == indicate /\ RxLength > 0
     IN  /\ pc' = IF release /\ pc = "wait" THEN "read" ELSE pc
         /\ sem' = IF release /\ pc # "wait" THEN (sem + 1) % ValueMod ELSE sem
  /\ UNCHANGED <<fifo, dr, indicate, ch, sent>>

\* USART1_IRQHandler clears RXNE before it returns: a character that has come
\* since the last getc is lost.
IsrClear ==
  /\ isr = "clear"
  /\ isr' = "idle" /\ dr' = NoByte
  /\ UNCHANGED <<fifo, indicate, sem, pc, ch, sent>>

-----------------------------------------------------------------------------
(* The thread *)

\* rt_device_open, with RT_DEVICE_FLAG_INT_RX.
Open ==
  /\ isr = "idle" /\ pc = "open"
  /\ pc' = "set_rx_indicate"
  /\ UNCHANGED <<fifo, dr, isr, indicate, sem, ch, sent>>

\* Mutant: the callback is never installed.
SetRxIndicate_Not ==
  /\ isr = "idle" /\ pc = "set_rx_indicate"
  /\ pc' = "read"
  /\ UNCHANGED <<fifo, dr, isr, indicate, sem, ch, sent>>

SetRxIndicate ==
  /\ isr = "idle" /\ pc = "set_rx_indicate"
  /\ indicate' = TRUE /\ pc' = "read"
  /\ UNCHANGED <<fifo, dr, isr, sem, ch, sent>>

Empty == fifo.get = fifo.put /\ ~fifo.is_full

\* rt_device_read of one character: there is one.
ReadOne ==
  /\ isr = "idle" /\ pc = "read" /\ ~Empty
  /\ ch' = fifo.buffer[fifo.get]
  /\ fifo' = [fifo EXCEPT !.get = Advance(@), !.is_full = FALSE]
  /\ UNCHANGED <<dr, isr, indicate, sem, pc, sent>>

\* rt_device_read finds none.
ReadNone ==
  /\ isr = "idle" /\ pc = "read" /\ Empty
  /\ pc' = "take"
  /\ UNCHANGED <<fifo, dr, isr, indicate, sem, ch, sent>>

\* rt_sem_take of rx_sem_uart1_self, forever.
Take ==
  /\ isr = "idle" /\ pc = "take"
  /\ IF sem > 0 THEN sem' = sem - 1 /\ pc' = "read"
                ELSE sem' = sem /\ pc' = "wait"
  /\ UNCHANGED <<fifo, dr, isr, indicate, ch, sent>>

Isr == Interrupt \/ IsrGetc \/ IsrDrained \/ IsrIndicate \/ IsrClear

Thread == Open \/ SetRxIndicate \/ ReadOne \/ ReadNone \/ Take

Next == (\E b \in Byte : Arrive(b)) \/ Isr \/ Thread

Spec == Init /\ [][Next]_vars

\* The CPU takes a pending interrupt, and runs the thread when there is none:
\* my_usart1 has the highest priority of the application's threads.
FairSpec == Spec /\ WF_vars(Isr) /\ WF_vars(Thread)

-----------------------------------------------------------------------------
(* Properties *)

\* The type of the state: the indices stay within the buffer.
TypeOK ==
  /\ fifo \in [buffer : [0 .. BufSz - 1 -> Byte], put : 0 .. BufSz - 1,
               get : 0 .. BufSz - 1, is_full : BOOLEAN]
  /\ dr \in Byte \cup {NoByte} /\ indicate \in BOOLEAN
  /\ isr \in {"idle", "drain", "indicate", "clear"}
  /\ sem \in 0 .. ValueMod - 1 /\ ch \in Byte /\ sent \in 0 .. MaxBytes
  /\ pc \in {"open", "set_rx_indicate", "read", "take", "wait"}

\* The contents of the FIFO, oldest first.
Contents ==
  [i \in 1 .. RxLength |-> fifo.buffer[(fifo.get + i - 1) % BufSz]]

Queue == INSTANCE RxQueue WITH Cap <- BufSz - 1, q <- Contents, got <- ch

\* The ring of buffer, put_index, get_index and is_full implements a queue that
\* keeps the last bufsz - 1 characters, across any mix of ISRs and reads.
ImplementsQueue == Queue!Spec

\* No wake-up is lost between the read that finds nothing and the rt_sem_take:
\* a thread that waits has read all that was announced, and what it has not
\* read, an ISR is about to announce.  It needs MaxBytes < ValueMod: the value
\* must not wrap to 0 in that window.
NoLostWakeup == pc = "wait" => Empty \/ isr \in {"drain", "indicate"}

\* Characters that arrive are eventually taken out of the FIFO.
Drained == []<>(Contents = <<>>)

=============================================================================
