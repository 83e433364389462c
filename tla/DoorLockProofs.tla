--------------------------- MODULE DoorLockProofs ---------------------------
(***************************************************************************)
(* The safety properties of DoorLock, for every set of shell commands and  *)
(* any number of lines received and not yet read.                          *)
(***************************************************************************)
EXTENDS DoorLock, TLAPS

\* The variables of the application.
Text == Line \cup {"none"}
Led == {"disconnected", "connecting", "connected"}
Steps == 0 .. 8

DataOK ==
  d \in [ptr : BOOLEAN, step : Steps, line : Text, slot : Text, tokens : Nat, ready : Nat,
         first : BOOLEAN, pend : Seq(Line), inited : BOOLEAN, pin : BOOLEAN, relay : BOOLEAN,
         led : Led]

\* What the shell has promised in the middle of connect_aliyun and
\* disConnect_aliyun: the thread it has created has not started, the one it has
\* deleted is gone and no other is there.
ShellOK ==
  /\ sh \in {"conn_lock", "conn_locked"} => c = "created"
  /\ sh \in {"disc_null", "disc_lock", "disc_locked"} => c = "none"

\* Which command the connecting thread is at, and what the LED shows there.
Opening == {"init_lock", "init_locked", "halted", "ready", "hello_lock", "hello_locked"}
Sending == {"send_lock", "send_locked"}
Waiting == {"wait", "show_lock", "show_locked", "decide", "clear"}
Leaving == {"fail_lock", "fail_locked", "pub_lock", "pub_locked", "leave"}

ConnectOK ==
  /\ c \in {"none", "created", "start"} \cup Opening \cup Sending \cup Waiting \cup Leaving
  /\ c \in Opening => d.step = 0 /\ d.led = "connecting"
  /\ c \in Sending => d.step \in 1 .. 7 /\ d.led = IF d.step < 6 THEN "connecting" ELSE "connected"
  /\ c \in Waiting => d.step \in 2 .. 8 /\ d.led = IF d.step < 7 THEN "connecting" ELSE "connected"
  /\ c \in {"pub_lock", "pub_locked"} => d.step = 8
  /\ c \in Leaving => d.led # "connecting"

DoorInv ==
  /\ DataOK /\ ShellOK /\ ConnectOK
  /\ MutexNotOrphaned /\ PointerExact /\ LedTruthful /\ ReportTruthful

\* A step of my_usart1, or the arrival of a line: nothing the connecting thread
\* and the shell rely on changes.
Frame == /\ c' = c /\ sh' = sh /\ d'.ptr = d.ptr /\ d'.step = d.step /\ d'.led = d.led

-----------------------------------------------------------------------------
(* The steps *)

\* main leaves the application in a sound state.
LEMMA DoorInit == Init => DoorInv
<1> SUFFICES ASSUME Init PROVE DoorInv
  OBVIOUS
<1>1. DataOK /\ d.step = 0 /\ d.led = "disconnected" /\ d.ptr = FALSE
  BY DEF Init, DataOK, Text, Led, Steps
<1>. QED BY <1>1 DEF Init, DoorInv, ShellOK, ConnectOK, Opening, Sending, Waiting, Leaving,
            MutexNotOrphaned, PointerExact, LedTruthful, ReportTruthful, Locked

\* The properties that do not concern my_usart1.
LEMMA FrameLemma ==
  ASSUME DoorInv, Frame
  PROVE  ShellOK' /\ ConnectOK' /\ PointerExact' /\ LedTruthful'
BY DEF DoorInv, Frame, ShellOK, ConnectOK, PointerExact, LedTruthful

\* my_usart1_thread_entry: it takes and releases the mutex in turn, and reports
\* the door state it has set.
LEMMA UStep ==
  ASSUME DoorInv, UThread PROVE DoorInv'
<1>0. DataOK /\ MutexNotOrphaned /\ ReportTruthful
  BY DEF DoorInv
<1> SUFFICES Frame /\ DataOK' /\ MutexNotOrphaned' /\ ReportTruthful'
  BY FrameLemma DEF DoorInv
<1>1. ASSUME NEW from, NEW to, ULock(from, to), to \in {"hello_locked", "ios_locked", "echo_locked"},
             from \in {"hello_lock", "ios_lock", "echo_lock"}
      PROVE  Frame /\ DataOK' /\ MutexNotOrphaned' /\ ReportTruthful'
  BY <1>0, <1>1 DEF ULock, U, Lock, Frame, DataOK, MutexNotOrphaned, ReportTruthful, Locked
<1>2. CASE UReady
  <2>1. u = "hello_locked" /\ u' = "read" /\ owner = "u" /\ owner' = "none" /\ c' = c /\ sh' = sh
        /\ d' = [d EXCEPT !.ready = @ + 1]
    BY <1>2 DEF UReady, U, Unlock
  <2>2. Frame /\ DataOK'
    BY <1>0, <2>1 DEF Frame, DataOK
  <2>. QED BY <1>0, <2>1, <2>2 DEF MutexNotOrphaned, ReportTruthful, Locked
<1>3. CASE URead
  <2>1. u = "read" /\ u' = "dispatch" /\ owner' = owner /\ c' = c /\ sh' = sh
        /\ d.pend # <<>> /\ d' = [d EXCEPT !.line = Head(d.pend), !.pend = Tail(@)]
    BY <1>3 DEF URead, U
  <2>2. d.pend \in Seq(Line)
    BY <1>0 DEF DataOK
  <2>3. Head(d.pend) \in Text /\ Tail(d.pend) \in Seq(Line)
    BY <2>1, <2>2 DEF Text
  <2>4. Frame /\ DataOK'
    BY <1>0, <2>1, <2>3 DEF Frame, DataOK
  <2>. QED BY <1>0, <2>1, <2>4 DEF MutexNotOrphaned, ReportTruthful, Locked
<1>4. CASE UDispatch
  <2>1. u = "dispatch" /\ u' \in {"copy", "door", "ios_lock", "echo_lock"} /\ owner' = owner
        /\ c' = c /\ sh' = sh /\ d' = d
    BY <1>4 DEF UDispatch, U
  <2>. QED BY <1>0, <2>1 DEF Frame, DataOK, MutexNotOrphaned, ReportTruthful, Locked
<1>5. CASE UCopy
  <2>1. u = "copy" /\ u' = "signal" /\ owner' = owner /\ c' = c /\ sh' = sh
        /\ d' = [d EXCEPT !.slot = d.line]
    BY <1>5 DEF UCopy, U
  <2>2. d.line \in Text
    BY <1>0 DEF DataOK
  <2>3. Frame /\ DataOK'
    BY <1>0, <2>1, <2>2 DEF Frame, DataOK
  <2>. QED BY <1>0, <2>1, <2>3 DEF MutexNotOrphaned, ReportTruthful, Locked
<1>6. CASE USignal
  <2>1. u = "signal" /\ u' = "read" /\ owner' = owner /\ c' = c /\ sh' = sh
        /\ d' = [d EXCEPT !.tokens = @ + 1, !.line = "none"]
    BY <1>6 DEF USignal, U
  <2>2. "none" \in Text /\ d.tokens + 1 \in Nat
    BY <1>0 DEF Text, DataOK
  <2>3. Frame /\ DataOK'
    BY <1>0, <2>1, <2>2 DEF Frame, DataOK
  <2>. QED BY <1>0, <2>1, <2>3 DEF MutexNotOrphaned, ReportTruthful, Locked
<1>7. CASE UDoor
  <2>1. u = "door" /\ u' = "self_post" /\ owner' = owner /\ c' = c /\ sh' = sh
        /\ d' = [d EXCEPT !.pin = (d.line = "door1"), !.relay = (d.line = "door1")]
    BY <1>7 DEF UDoor, U
  <2>2. (d.line = "door1") \in BOOLEAN
    OBVIOUS
  <2>3. Frame /\ DataOK' /\ d'.pin = (d'.line = "door1") /\ d'.relay = (d'.line = "door1")
    BY <1>0, <2>1, <2>2 DEF Frame, DataOK
  <2>. QED BY <1>0, <2>1, <2>3 DEF MutexNotOrphaned, ReportTruthful, Locked
<1>8. CASE USelfPost
  <2>1. u \in {"self_post", "self_post_end"} /\ u' \in {"self_post_end", "echo_lock"}
        /\ owner' = owner /\ c' = c /\ sh' = sh /\ d' = d
    BY <1>8 DEF USelfPost, U
  <2>. QED BY <1>0, <2>1 DEF Frame, DataOK, MutexNotOrphaned, ReportTruthful, Locked
<1>9. CASE UIos
  <2>1. u = "ios_locked" /\ u' = "echo_lock" /\ owner = "u" /\ owner' = "none"
        /\ c' = c /\ sh' = sh /\ d' = d
    BY <1>9 DEF UIos, U, Unlock
  <2>. QED BY <1>0, <2>1 DEF Frame, DataOK, MutexNotOrphaned, ReportTruthful, Locked
<1>10. CASE UEcho
  <2>1. u = "echo_locked" /\ u' = "read" /\ owner = "u" /\ owner' = "none"
        /\ c' = c /\ sh' = sh /\ d' = [d EXCEPT !.line = "none"]
    BY <1>10 DEF UEcho, U, Unlock
  <2>2. Frame /\ DataOK'
    BY <1>0, <2>1 DEF Frame, DataOK, Text
  <2>. QED BY <1>0, <2>1, <2>2 DEF MutexNotOrphaned, ReportTruthful, Locked
<1>. QED BY <1>1, <1>2, <1>3, <1>4, <1>5, <1>6, <1>7, <1>8, <1>9, <1>10 DEF UThread

\* The FIFO of the serial port takes a line.
LEMMA ArriveStep ==
  ASSUME DoorInv, NEW l \in Line, Arrive(l) PROVE DoorInv'
<1>1. /\ d' = [d EXCEPT !.pend = Append(@, l)]
      /\ u' = u /\ c' = c /\ sh' = sh /\ owner' = owner /\ DataOK
  BY DEF Arrive, DoorInv
<1>2. Append(d.pend, l) \in Seq(Line)
  BY <1>1 DEF DataOK
<1>3. Frame /\ DataOK' /\ d'.pin = d.pin /\ d'.relay = d.relay /\ d'.line = d.line
  BY <1>1, <1>2 DEF Frame, DataOK
<1>4. MutexNotOrphaned' /\ ReportTruthful'
  BY <1>1, <1>3 DEF DoorInv, MutexNotOrphaned, ReportTruthful
<1>. QED BY <1>3, <1>4, FrameLemma DEF DoorInv

\* A step of the connecting thread does not concern the shell and my_usart1,
\* unless it starts it.
LEMMA CFrame ==
  ASSUME DoorInv, sh' = sh, c # "none", c' # "none", c # "created", d'.ptr = d.ptr,
         u' = u \/ u' \in {"created", "hello_lock"}, d'.pin = d.pin, d'.relay = d.relay, d'.line = d.line
  PROVE  ShellOK' /\ PointerExact' /\ ReportTruthful'
BY DEF DoorInv, ShellOK, PointerExact, ReportTruthful

\* The LED properties follow from where the connecting thread is.
LEMMA LedLemma ==
  ASSUME DataOK', ConnectOK',
         (d.led = "connecting" => c # "none" \/ sh \in {"disc_null", "disc_lock", "disc_locked"})'
  PROVE  LedTruthful'
<1>1. d'.step \in 0 .. 8
  BY DEF DataOK, Steps
<1>2. ASSUME d'.step \in 1 .. 6,
             c' \notin {"none", "created", "start", "fail_lock", "fail_locked", "leave"}
      PROVE  d'.led = "connecting" \/ (d'.step = 6 /\ c' \in {"send_lock", "send_locked"})
  <2>1. c' \notin Opening
    BY <1>2 DEF ConnectOK
  <2>2. CASE c' \in Sending
    BY <1>1, <1>2, <2>2 DEF ConnectOK, Sending
  <2>3. CASE c' \in Waiting
    BY <1>1, <1>2, <2>3 DEF ConnectOK
  <2>4. c' \notin {"pub_lock", "pub_locked"}
    BY <1>2 DEF ConnectOK
  <2>. QED BY <1>2, <2>1, <2>2, <2>3, <2>4 DEF ConnectOK, Leaving
<1>. QED BY <1>2 DEF LedTruthful

\* my_nb101_connect_thread_entry, up to the assignment of NULL.
LEMMA CStep ==
  ASSUME DoorInv, CThread, ~CLeave
  PROVE  DoorInv'
<1>0. DataOK /\ MutexNotOrphaned /\ ConnectOK /\ ShellOK /\ d.step \in 0 .. 8
  BY DEF DoorInv, DataOK, Steps
<1> DEFINE Kept == /\ sh' = sh /\ c # "none" /\ c # "created" /\ c' # "none"
                   /\ u' = u \/ u' \in {"created", "hello_lock"}
                   /\ d'.ptr = d.ptr /\ d'.pin = d.pin /\ d'.relay = d.relay /\ d'.line = d.line
<1> SUFFICES Kept /\ DataOK' /\ MutexNotOrphaned' /\ ConnectOK'
  <2>1. ShellOK' /\ PointerExact' /\ ReportTruthful'
    BY CFrame
  <2>2. LedTruthful'
    BY LedLemma
  <2>. QED BY <2>1, <2>2 DEF DoorInv
<1> USE DEF Opening, Sending, Waiting, Leaving
<1>1. ASSUME NEW x, NEW y, CLock(x, y),
             <<x, y>> \in {<<"init_lock", "init_locked">>, <<"hello_lock", "hello_locked">>,
                           <<"send_lock", "send_locked">>, <<"show_lock", "show_locked">>,
                           <<"fail_lock", "fail_locked">>, <<"pub_lock", "pub_locked">>}
      PROVE  Kept /\ DataOK' /\ MutexNotOrphaned' /\ ConnectOK'
  <2>1. c = x /\ c' = y /\ u' = u /\ sh' = sh /\ d' = d /\ owner = "none" /\ owner' = "c"
    BY <1>1 DEF CLock, C, Lock
  <2>2. Kept /\ DataOK'
    BY <1>0, <1>1, <2>1 DEF DataOK
  <2>3. MutexNotOrphaned'
    BY <1>0, <1>1, <2>1 DEF MutexNotOrphaned, Locked
  <2>4. ConnectOK'
    BY <1>0, <1>1, <2>1 DEF ConnectOK
  <2>. QED BY <2>2, <2>3, <2>4
<1>2. CASE CStart
  <2>1. c = "start" /\ c' \in {"init_lock", "halted", "ready"} /\ sh' = sh /\ owner' = owner
        /\ (u' = u \/ (u = "none" /\ u' = "created"))
        /\ d' = [d EXCEPT !.led = "connecting", !.step = 0, !.inited = TRUE]
    BY <1>2 DEF CStart, Uart1
  <2>2. "connecting" \in Led /\ 0 \in Steps
    BY DEF Led, Steps
  <2>5. Kept /\ DataOK' /\ d'.led = "connecting" /\ d'.step = 0
    BY <1>0, <2>1, <2>2 DEF DataOK
  <2>3. MutexNotOrphaned'
    BY <1>0, <2>1 DEF MutexNotOrphaned, Locked
  <2>4. ConnectOK'
    BY <2>1, <2>5 DEF ConnectOK
  <2>. QED BY <2>3, <2>4, <2>5
<1>3. CASE CInit
  <2>1. c = "init_locked" /\ c' = "ready" /\ u' = "hello_lock" /\ sh' = sh
        /\ owner = "c" /\ owner' = "none" /\ d' = d
    BY <1>3 DEF CInit, Unlock
  <2>2. Kept /\ DataOK'
    BY <1>0, <2>1 DEF DataOK
  <2>3. MutexNotOrphaned'
    BY <1>0, <2>1 DEF MutexNotOrphaned, Locked
  <2>4. ConnectOK'
    BY <1>0, <2>1 DEF ConnectOK
  <2>. QED BY <2>2, <2>3, <2>4
<1>4. CASE CReady
  <2>1. c = "ready" /\ c' = "hello_lock" /\ u' = u /\ sh' = sh /\ owner' = owner
        /\ (d.first => d.ready > 0)
        /\ d' = [d EXCEPT !.ready = IF d.first THEN @ - 1 ELSE @, !.first = FALSE]
    BY <1>4 DEF CReady, C
  <2>2. (IF d.first THEN d.ready - 1 ELSE d.ready) \in Nat
    BY <1>0, <2>1 DEF DataOK
  <2>3. Kept /\ DataOK' /\ d'.led = d.led /\ d'.step = d.step
    BY <1>0, <2>1, <2>2 DEF DataOK
  <2>4. MutexNotOrphaned'
    BY <1>0, <2>1 DEF MutexNotOrphaned, Locked
  <2>5. ConnectOK'
    BY <1>0, <2>1, <2>3 DEF ConnectOK
  <2>. QED BY <2>3, <2>4, <2>5
<1>5. CASE CHello
  <2>1. c = "hello_locked" /\ c' = "send_lock" /\ u' = u /\ sh' = sh
        /\ owner = "c" /\ owner' = "none" /\ d' = [d EXCEPT !.step = 1]
    BY <1>5 DEF CHello, C, Unlock
  <2>2. Kept /\ DataOK' /\ d'.led = d.led /\ d'.step = 1
    BY <1>0, <2>1 DEF DataOK, Steps
  <2>3. MutexNotOrphaned'
    BY <1>0, <2>1 DEF MutexNotOrphaned, Locked
  <2>4. ConnectOK'
    BY <1>0, <2>1, <2>2 DEF ConnectOK
  <2>. QED BY <2>2, <2>3, <2>4
<1>6. CASE CSend
  <2>1. c = "send_locked" /\ c' \in {"wait", "clear"} /\ u' = u /\ sh' = sh
        /\ owner = "c" /\ owner' = "none" /\ d' = [d EXCEPT !.step = @ + 1]
    BY <1>6 DEF CSend, C, Unlock
  <2>2. d.step \in 1 .. 7 /\ d.led = IF d.step < 6 THEN "connecting" ELSE "connected"
    BY <1>0, <2>1 DEF ConnectOK
  <2>7. d.step + 1 \in Steps
    BY <2>2 DEF Steps
  <2>3. Kept /\ DataOK' /\ d'.led = d.led /\ d'.step = d.step + 1
    BY <1>0, <2>1, <2>7 DEF DataOK
  <2>4. MutexNotOrphaned'
    BY <1>0, <2>1 DEF MutexNotOrphaned, Locked
  <2>5. d'.step \in 2 .. 8 /\ d'.led = IF d'.step < 7 THEN "connecting" ELSE "connected"
    BY <2>2, <2>3
  <2>6. ConnectOK'
    BY <2>1, <2>5 DEF ConnectOK
  <2>. QED BY <2>3, <2>4, <2>6
<1>7. CASE CTake
  <2>1. c = "wait" /\ c' = "show_lock" /\ u' = u /\ sh' = sh /\ owner' = owner
        /\ d.tokens > 0 /\ d' = [d EXCEPT !.tokens = @ - 1]
    BY <1>7 DEF CTake, C
  <2>2. Kept /\ DataOK' /\ d'.led = d.led /\ d'.step = d.step
    BY <1>0, <2>1 DEF DataOK
  <2>3. MutexNotOrphaned'
    BY <1>0, <2>1 DEF MutexNotOrphaned, Locked
  <2>4. ConnectOK'
    BY <1>0, <2>1, <2>2 DEF ConnectOK
  <2>. QED BY <2>2, <2>3, <2>4
<1>8. CASE CShow
  <2>1. c = "show_locked" /\ c' = "decide" /\ u' = u /\ sh' = sh
        /\ owner = "c" /\ owner' = "none" /\ d' = d
    BY <1>8 DEF CShow, C, Unlock
  <2>2. Kept /\ DataOK'
    BY <1>0, <2>1 DEF DataOK
  <2>3. MutexNotOrphaned'
    BY <1>0, <2>1 DEF MutexNotOrphaned, Locked
  <2>4. ConnectOK'
    BY <1>0, <2>1 DEF ConnectOK
  <2>. QED BY <2>2, <2>3, <2>4
<1>9. CASE CDecide
  <2> DEFINE led == CASE Verdict = "fail_lock" -> "disconnected"
                      [] Verdict = "send_lock" /\ d.step = 6 -> "connected"
                      [] OTHER -> d.led
  <2>1. c = "decide" /\ c' = Verdict /\ u' = u /\ sh' = sh /\ owner' = owner
        /\ d' = [d EXCEPT !.led = led]
    BY <1>9 DEF CDecide, C
  <2>2. d.step \in 2 .. 8 /\ d.led = IF d.step < 7 THEN "connecting" ELSE "connected"
    BY <1>0, <2>1 DEF ConnectOK
  <2>3. /\ Verdict \in {"send_lock", "fail_lock", "pub_lock", "clear"}
        /\ Verdict = "send_lock" => d.step <= 7
        /\ Verdict = "pub_lock" => d.step = 8
    BY <2>2 DEF Verdict
  <2>4. /\ Verdict = "fail_lock" => led = "disconnected"
        /\ Verdict = "send_lock" /\ d.step = 6 => led = "connected"
        /\ Verdict # "fail_lock" /\ ~(Verdict = "send_lock" /\ d.step = 6) => led = d.led
    BY <2>3
  <2> HIDE DEF led
  <2>5. led \in Led
    BY <2>2, <2>3, <2>4 DEF Led
  <2>6. Kept /\ DataOK' /\ d'.led = led /\ d'.step = d.step
    BY <1>0, <2>1, <2>3, <2>5 DEF DataOK
  <2>7. MutexNotOrphaned'
    BY <1>0, <2>1, <2>3 DEF MutexNotOrphaned, Locked
  <2>8. ConnectOK'
    BY <2>1, <2>2, <2>3, <2>4, <2>6 DEF ConnectOK
  <2>. QED BY <2>6, <2>7, <2>8
<1>10. CASE CClear
  <2>1. c = "clear" /\ c' = "wait" /\ u' = u /\ sh' = sh /\ owner' = owner
        /\ d' = [d EXCEPT !.slot = "none"]
    BY <1>10 DEF CClear, C
  <2>2. Kept /\ DataOK' /\ d'.led = d.led /\ d'.step = d.step
    BY <1>0, <2>1 DEF DataOK, Text
  <2>3. MutexNotOrphaned'
    BY <1>0, <2>1 DEF MutexNotOrphaned, Locked
  <2>4. ConnectOK'
    BY <1>0, <2>1, <2>2 DEF ConnectOK
  <2>. QED BY <2>2, <2>3, <2>4
<1>11. CASE CLast
  <2>1. c \in {"fail_locked", "pub_locked"} /\ c' = "leave" /\ u' = u /\ sh' = sh
        /\ owner = "c" /\ owner' = "none" /\ d' = d
    BY <1>11 DEF CLast, C, Unlock
  <2>2. Kept /\ DataOK'
    BY <1>0, <2>1 DEF DataOK
  <2>3. MutexNotOrphaned'
    BY <1>0, <2>1 DEF MutexNotOrphaned, Locked
  <2>4. ConnectOK'
    BY <1>0, <2>1 DEF ConnectOK
  <2>. QED BY <2>2, <2>3, <2>4
<1> HIDE DEF Kept
<1>12. CASE \/ CLock("init_lock", "init_locked") \/ CLock("hello_lock", "hello_locked")
            \/ CLock("send_lock", "send_locked") \/ CLock("show_lock", "show_locked")
            \/ CLock("fail_lock", "fail_locked") \/ CLock("pub_lock", "pub_locked")
  BY <1>1, <1>12
<1>. QED BY <1>2, <1>3, <1>4, <1>5, <1>6, <1>7, <1>8, <1>9, <1>10, <1>11, <1>12 DEF CThread

\* my_nb101_connect_thread = NULL, and the thread returns: the LED no longer says
\* connecting, and the shell is not about to start or count on a thread.
LEMMA CLeaveStep ==
  ASSUME DoorInv, CLeave PROVE DoorInv'
<1>1. c = "leave" /\ c' = "none" /\ u' = u /\ sh' = sh /\ owner' = owner
      /\ d' = [d EXCEPT !.ptr = FALSE, !.step = 0]
  BY DEF CLeave, C
<1>2. 0 \in Steps /\ DataOK
  BY DEF Steps, DoorInv
<1>3. /\ DataOK' /\ d'.led = d.led /\ d'.step = 0 /\ d'.ptr = FALSE
      /\ d'.pin = d.pin /\ d'.relay = d.relay /\ d'.line = d.line
  BY <1>1, <1>2 DEF DataOK
<1>4. d.led # "connecting"
  BY <1>1 DEF DoorInv, ConnectOK, Leaving
<1>5. ShellOK' /\ ConnectOK' /\ PointerExact'
  BY <1>1, <1>3 DEF DoorInv, ShellOK, ConnectOK, PointerExact, Opening, Sending, Waiting, Leaving
<1>6. MutexNotOrphaned'
  BY <1>1 DEF DoorInv, MutexNotOrphaned, Locked
<1>7. ReportTruthful' /\ LedTruthful'
  BY <1>1, <1>3, <1>4 DEF DoorInv, ReportTruthful, LedTruthful
<1>. QED BY <1>3, <1>5, <1>6, <1>7 DEF DoorInv

\* The shell runs only while neither thread can, or while it has the mutex:
\* whatever it then finds of the connecting thread is outside a section, and
\* my_usart1 is not between setting the relay and reporting it.
LEMMA ShellFinds ==
  ASSUME DoorInv, ShellRuns
  PROVE  /\ owner # "sh" => c \notin Locked /\ u \notin Locked
         /\ owner # "sh" => u \notin {"self_post", "self_post_end"}
         /\ owner = "sh" <=> sh \in Locked
<1>1. owner # "sh" => UBlocked /\ CBlocked
  BY DEF ShellRuns
<1>2. UBlocked => u \notin Locked /\ u \notin {"self_post", "self_post_end"}
  BY DEF UBlocked, WantsMutex, Locked
<1>3. CBlocked => c \notin Locked
  BY DEF CBlocked, WantsMutex, Locked
<1>. QED BY <1>1, <1>2, <1>3 DEF DoorInv, MutexNotOrphaned

\* A step of the shell that leaves the connecting thread and its variables alone.
LEMMA SFrame ==
  ASSUME DoorInv, ShellRuns, c' = c, d'.ptr = d.ptr, d'.step = d.step, d'.led = d.led,
         sh # "disc_null", sh' # "disc_null",
         sh' \in {"conn_lock", "conn_locked"} => sh \in {"conn_lock", "conn_locked"},
         sh' \in {"disc_lock", "disc_locked"} => sh \in {"disc_lock", "disc_locked"} \/ c = "none",
         sh \in {"disc_lock", "disc_locked"} => sh' \in {"disc_lock", "disc_locked"}
  PROVE  ShellOK' /\ ConnectOK' /\ PointerExact' /\ LedTruthful'
BY DEF DoorInv, ShellOK, ConnectOK, PointerExact, LedTruthful

\* The shell takes the mutex.
LEMMA SLockStep ==
  ASSUME DoorInv, NEW x, NEW y, SLock(x, y),
         \/ x = "conn_lock" /\ y = "conn_locked"
         \/ x = "none_lock" /\ y = "none_locked"
         \/ x = "init_lock" /\ y = "init_locked"
         \/ x = "disc_lock" /\ y = "disc_locked"
         \/ x = "post_lock" /\ y = "post_locked"
  PROVE  DoorInv'
<1>1. sh = x /\ sh' = y /\ u' = u /\ c' = c /\ d' = d /\ owner = "none" /\ owner' = "sh" /\ ShellRuns
  BY DEF SLock, S, Lock
<1>2. ShellOK' /\ ConnectOK' /\ PointerExact' /\ LedTruthful'
  BY <1>1, SFrame
<1>3. MutexNotOrphaned'
  BY <1>1 DEF DoorInv, MutexNotOrphaned, Locked
<1>4. DataOK' /\ ReportTruthful'
  BY <1>1 DEF DoorInv, DataOK, ReportTruthful
<1>. QED BY <1>2, <1>3, <1>4 DEF DoorInv

\* The commands that move no thread: a banner, a post, a test of the pointer.
LEMMA SPlainStep ==
  ASSUME DoorInv, SDisconnect \/ SPost \/ SPostEnd \/ SNone
  PROVE  DoorInv'
<1>1. /\ ShellRuns /\ u' = u /\ c' = c /\ d' = d
      /\ \/ sh = "idle" /\ sh' \in {"post_lock", "disc_delete"} /\ owner' = owner
         \/ sh = "idle" /\ sh' = "disc_lock" /\ ~d.ptr /\ owner' = owner
         \/ sh \in {"post_locked", "none_locked"} /\ sh' = "idle" /\ owner = "sh" /\ owner' = "none"
  BY DEF SDisconnect, SPost, SPostEnd, SNone, S, Unlock
<1>2. sh = "idle" /\ ~d.ptr => c = "none"
  BY DEF DoorInv, PointerExact
<1>3. ShellOK' /\ ConnectOK' /\ PointerExact' /\ LedTruthful'
  BY <1>1, <1>2, SFrame
<1>4. MutexNotOrphaned'
  BY <1>1 DEF DoorInv, MutexNotOrphaned, Locked
<1>5. DataOK' /\ ReportTruthful'
  BY <1>1 DEF DoorInv, DataOK, ReportTruthful
<1>. QED BY <1>3, <1>4, <1>5 DEF DoorInv

\* open_switch and close_switch, up to the pin and from there on, do not come
\* between the report and what it reports.
LEMMA SSwitchStep ==
  ASSUME DoorInv, SSwitched \/ \E on \in BOOLEAN : SSwitch(on) PROVE DoorInv'
<1>1. /\ ShellRuns /\ u' = u /\ c' = c /\ owner' = owner /\ DataOK
      /\ sh \in {"idle", "switch_on", "switch_off"} /\ sh' \in {"idle", "switch_on", "switch_off"}
  BY DEF SSwitch, SSwitched, S, DoorInv
<1>2. \E b \in BOOLEAN : d' = [d EXCEPT !.pin = b] \/ d' = [d EXCEPT !.relay = b]
  BY DEF SSwitch, SSwitched
<1>3. DataOK' /\ d'.ptr = d.ptr /\ d'.step = d.step /\ d'.led = d.led
  BY <1>1, <1>2 DEF DataOK
<1>4. ShellOK' /\ ConnectOK' /\ PointerExact' /\ LedTruthful'
  BY <1>1, <1>3, SFrame
<1>5. u \notin {"self_post", "self_post_end"}
  BY <1>1, ShellFinds DEF Locked
<1>6. MutexNotOrphaned' /\ ReportTruthful'
  BY <1>1, <1>5 DEF DoorInv, MutexNotOrphaned, ReportTruthful, Locked
<1>. QED BY <1>3, <1>4, <1>6 DEF DoorInv

\* nb101_uart1 from the shell, up to its mutex: a thread that is not there yet is
\* in no section.
LEMMA SUart1Step ==
  ASSUME DoorInv, SUart1 PROVE DoorInv'
<1>1. /\ ShellRuns /\ c' = c /\ owner' = owner /\ DataOK
      /\ sh = "idle" /\ sh' \in {"idle", "init_lock", "halted"}
      /\ u' = u \/ (u = "none" /\ u' = "created")
      /\ d' = [d EXCEPT !.inited = TRUE]
  BY DEF SUart1, Uart1, S, DoorInv
<1>2. /\ DataOK' /\ d'.ptr = d.ptr /\ d'.step = d.step /\ d'.led = d.led
      /\ d'.pin = d.pin /\ d'.relay = d.relay /\ d'.line = d.line
  BY <1>1 DEF DataOK
<1>3. ShellOK' /\ ConnectOK' /\ PointerExact' /\ LedTruthful'
  BY <1>1, <1>2, SFrame
<1>4. MutexNotOrphaned' /\ ReportTruthful'
  BY <1>1, <1>2 DEF DoorInv, MutexNotOrphaned, ReportTruthful, Locked
<1>. QED BY <1>2, <1>3, <1>4 DEF DoorInv

\* nb101_uart1 from the shell starts my_usart1: the thread is in no section.
LEMMA SInitStep ==
  ASSUME DoorInv, SInit PROVE DoorInv'
<1>1. /\ ShellRuns /\ u' = "hello_lock" /\ c' = c /\ d' = d
      /\ sh = "init_locked" /\ sh' = "idle" /\ owner = "sh" /\ owner' = "none"
  BY DEF SInit, S, Unlock
<1>2. ShellOK' /\ ConnectOK' /\ PointerExact' /\ LedTruthful'
  BY <1>1, SFrame
<1>3. MutexNotOrphaned'
  BY <1>1 DEF DoorInv, MutexNotOrphaned, Locked
<1>4. DataOK' /\ ReportTruthful'
  BY <1>1 DEF DoorInv, DataOK, ReportTruthful
<1>. QED BY <1>2, <1>3, <1>4 DEF DoorInv

\* connect_aliyun: the pointer is NULL, so there is no connecting thread to lose.
LEMMA SConnectStep ==
  ASSUME DoorInv, SConnect \/ SStartup PROVE DoorInv'
<1>0. DataOK /\ ConnectOK /\ MutexNotOrphaned /\ ReportTruthful
  BY DEF DoorInv
<1> USE DEF Opening, Sending, Waiting, Leaving
<1>1. ASSUME S("idle", "conn_lock"), ~d.ptr, c' = "created", d' = [d EXCEPT !.ptr = TRUE],
             u' = u, owner' = owner
      PROVE  DoorInv'
  <2>1. sh = "idle" /\ sh' = "conn_lock" /\ c = "none"
    BY <1>1 DEF S, DoorInv, PointerExact
  <2>2. /\ DataOK' /\ d'.ptr = TRUE /\ d'.step = d.step /\ d'.led = d.led
        /\ d'.pin = d.pin /\ d'.relay = d.relay /\ d'.line = d.line
    BY <1>0, <1>1 DEF DataOK
  <2>3. ShellOK' /\ ConnectOK' /\ PointerExact'
    BY <1>1, <2>1, <2>2 DEF ShellOK, ConnectOK, PointerExact
  <2>4. MutexNotOrphaned' /\ ReportTruthful'
    BY <1>0, <1>1, <2>1, <2>2 DEF MutexNotOrphaned, ReportTruthful, Locked
  <2>5. LedTruthful'
    BY <1>1, <2>2, <2>3, LedLemma
  <2>. QED BY <2>2, <2>3, <2>4, <2>5 DEF DoorInv
<1>2. ASSUME S("idle", "none_lock"), UNCHANGED <<c, d, u, owner>> PROVE DoorInv'
  <2>1. sh = "idle" /\ sh' = "none_lock" /\ ShellRuns
    BY <1>2 DEF S
  <2>2. ShellOK' /\ ConnectOK' /\ PointerExact' /\ LedTruthful'
    BY <1>2, <2>1, SFrame
  <2>3. MutexNotOrphaned' /\ ReportTruthful' /\ DataOK'
    BY <1>0, <1>2, <2>1 DEF MutexNotOrphaned, ReportTruthful, DataOK, Locked
  <2>. QED BY <2>2, <2>3 DEF DoorInv
<1>3. CASE SStartup
  <2>1. sh = "conn_locked" /\ sh' = "idle" /\ owner = "sh" /\ owner' = "none" /\ c' = "start"
        /\ u' = u /\ d' = d
    BY <1>3 DEF SStartup, S, Unlock
  <2>2. c = "created"
    BY <2>1 DEF DoorInv, ShellOK
  <2>3. ShellOK' /\ ConnectOK' /\ PointerExact'
    BY <2>1, <2>2 DEF DoorInv, ShellOK, ConnectOK, PointerExact
  <2>4. MutexNotOrphaned' /\ ReportTruthful' /\ DataOK'
    BY <1>0, <2>1, <2>2 DEF MutexNotOrphaned, ReportTruthful, DataOK, Locked
  <2>5. LedTruthful'
    BY <2>1, <2>3, <2>4, LedLemma
  <2>. QED BY <2>3, <2>4, <2>5 DEF DoorInv
<1>. QED BY <1>1, <1>2, <1>3 DEF SConnect

\* disConnect_aliyun from rt_thread_delete on.
LEMMA SDeleteStep ==
  ASSUME DoorInv, SDelete \/ SNull \/ SDisconnected PROVE DoorInv'
<1>0. DataOK /\ ConnectOK /\ MutexNotOrphaned /\ ReportTruthful
  BY DEF DoorInv
<1> USE DEF Opening, Sending, Waiting, Leaving
<1>1. ASSUME S("disc_delete", "disc_null"), c' = "none", d' = [d EXCEPT !.step = 0],
             u' = u, owner' = owner
      PROVE  DoorInv'
  <2>1. sh = "disc_delete" /\ sh' = "disc_null" /\ ShellRuns
    BY <1>1 DEF S
  <2>2. c \notin Locked
    BY <2>1, ShellFinds DEF Locked
  <2>3. 0 \in Steps
    BY DEF Steps
  <2>4. /\ DataOK' /\ d'.ptr = d.ptr /\ d'.step = 0 /\ d'.led = d.led
        /\ d'.pin = d.pin /\ d'.relay = d.relay /\ d'.line = d.line
    BY <1>0, <1>1, <2>3 DEF DataOK
  <2>5. ShellOK' /\ ConnectOK' /\ PointerExact'
    BY <1>1, <2>1, <2>4 DEF ShellOK, ConnectOK, PointerExact
  <2>6. MutexNotOrphaned' /\ ReportTruthful'
    BY <1>0, <1>1, <2>1, <2>2, <2>4 DEF MutexNotOrphaned, ReportTruthful, Locked
  <2>7. LedTruthful'
    BY <1>1, <2>1, <2>4, <2>5, LedLemma
  <2>. QED BY <2>4, <2>5, <2>6, <2>7 DEF DoorInv
<1>2. ASSUME S("disc_delete", "asserted"), UNCHANGED <<c, d, u, owner>> PROVE DoorInv'
  <2>1. sh = "disc_delete" /\ sh' = "asserted" /\ ShellRuns
    BY <1>2 DEF S
  <2>2. ShellOK' /\ ConnectOK' /\ PointerExact' /\ LedTruthful'
    BY <1>2, <2>1, SFrame
  <2>3. MutexNotOrphaned' /\ ReportTruthful' /\ DataOK'
    BY <1>0, <1>2, <2>1 DEF MutexNotOrphaned, ReportTruthful, DataOK, Locked
  <2>. QED BY <2>2, <2>3 DEF DoorInv
<1>3. CASE SNull
  <2>1. sh = "disc_null" /\ sh' = "disc_lock" /\ u' = u /\ c' = c /\ owner' = owner
        /\ d' = [d EXCEPT !.ptr = FALSE]
    BY <1>3 DEF SNull, S
  <2>2. c = "none"
    BY <2>1 DEF DoorInv, ShellOK
  <2>3. /\ DataOK' /\ d'.ptr = FALSE /\ d'.step = d.step /\ d'.led = d.led
        /\ d'.pin = d.pin /\ d'.relay = d.relay /\ d'.line = d.line
    BY <1>0, <2>1 DEF DataOK
  <2>4. ShellOK' /\ ConnectOK' /\ PointerExact'
    BY <2>1, <2>2, <2>3 DEF ShellOK, ConnectOK, PointerExact
  <2>5. MutexNotOrphaned' /\ ReportTruthful'
    BY <1>0, <2>1, <2>3 DEF MutexNotOrphaned, ReportTruthful, Locked
  <2>6. LedTruthful'
    BY <2>1, <2>3, <2>4, LedLemma
  <2>. QED BY <2>3, <2>4, <2>5, <2>6 DEF DoorInv
<1>4. CASE SDisconnected
  <2>1. sh = "disc_locked" /\ sh' = "idle" /\ owner = "sh" /\ owner' = "none" /\ u' = u /\ c' = c
        /\ d' = [d EXCEPT !.led = "disconnected"]
    BY <1>4 DEF SDisconnected, S, Unlock
  <2>2. c = "none" /\ "disconnected" \in Led /\ (d.ptr <=> c # "none")
    BY <2>1 DEF DoorInv, ShellOK, Led, PointerExact
  <2>3. /\ DataOK' /\ d'.ptr = d.ptr /\ d'.led = "disconnected"
        /\ d'.pin = d.pin /\ d'.relay = d.relay /\ d'.line = d.line
    BY <1>0, <2>1, <2>2 DEF DataOK
  <2>4. ShellOK' /\ ConnectOK' /\ PointerExact'
    BY <2>1, <2>2, <2>3 DEF ShellOK, ConnectOK, PointerExact
  <2>5. MutexNotOrphaned' /\ ReportTruthful'
    BY <1>0, <2>1, <2>3 DEF MutexNotOrphaned, ReportTruthful, Locked
  <2>6. LedTruthful'
    BY <2>1, <2>3, <2>4, LedLemma
  <2>. QED BY <2>3, <2>4, <2>5, <2>6 DEF DoorInv
<1>. QED BY <1>1, <1>2, <1>3, <1>4 DEF SDelete

\* The shell's commands.
LEMMA ShellStep ==
  ASSUME DoorInv, Shell PROVE DoorInv'
<1>1. CASE \/ SLock("conn_lock", "conn_locked") \/ SLock("none_lock", "none_locked")
           \/ SLock("init_lock", "init_locked") \/ SLock("disc_lock", "disc_locked")
           \/ SLock("post_lock", "post_locked")
  BY <1>1, SLockStep
<1>2. CASE SDisconnect \/ SPost \/ SPostEnd \/ SNone
  BY <1>2, SPlainStep
<1>3. CASE SConnect \/ SStartup
  BY <1>3, SConnectStep
<1>4. CASE SDelete \/ SNull \/ SDisconnected
  BY <1>4, SDeleteStep
<1>5. CASE SInit
  BY <1>5, SInitStep
<1>6. CASE SSwitched \/ \E on \in BOOLEAN : SSwitch(on)
  BY <1>6, SSwitchStep
<1>7. CASE SUart1
  BY <1>7, SUart1Step
<1>. QED BY <1>1, <1>2, <1>3, <1>4, <1>5, <1>6, <1>7 DEF Shell

-----------------------------------------------------------------------------
(* The results *)

\* The invariant of the application: every step of my_usart1, of the connecting
\* thread, of the shell and of the modem keeps it.
THEOREM DoorInvariance == Spec => []DoorInv
<1>1. DoorInv /\ [Next]_vars => DoorInv'
  <2> SUFFICES ASSUME DoorInv, [Next]_vars PROVE DoorInv'
    OBVIOUS
  <2>1. CASE UThread
    BY <2>1, UStep
  <2>2. CASE CThread
    BY <2>2, CStep, CLeaveStep
  <2>3. CASE Shell
    BY <2>3, ShellStep
  <2>4. CASE \E l \in Line : Arrive(l)
    BY <2>4, ArriveStep
  <2>5. CASE UNCHANGED vars
    BY <2>5 DEF vars, DoorInv, DataOK, ShellOK, ConnectOK, MutexNotOrphaned, PointerExact,
                LedTruthful, ReportTruthful
  <2>. QED BY <2>1, <2>2, <2>3, <2>4, <2>5 DEF Next
<1>. QED BY <1>1, DoorInit, PTL DEF Spec

\* rt_thread_delete of disConnect_aliyun never strikes a connecting thread that
\* has print_mutex, and the mutex always belongs to the one thread in a section.
THEOREM NoOrphanedMutex == Spec => []MutexNotOrphaned
<1>1. DoorInv => MutexNotOrphaned
  BY DEF DoorInv
<1>. QED BY <1>1, DoorInvariance, PTL

\* my_nb101_connect_thread says whether there is a connecting thread: connect_aliyun
\* never starts a second one.
THEOREM PointerTold == Spec => []PointerExact
<1>1. DoorInv => PointerExact
  BY DEF DoorInv
<1>. QED BY <1>1, DoorInvariance, PTL

\* The LED shows whether a connection is under way.
THEOREM LedTold == Spec => []LedTruthful
<1>1. DoorInv => LedTruthful
  BY DEF DoorInv
<1>. QED BY <1>1, DoorInvariance, PTL

\* self_post_to_aliyun reports the door state that my_usart1 has set, whatever
\* the shell's commands: their priority keeps them out, not the mutex.
THEOREM ReportTold == Spec => []ReportTruthful
<1>1. DoorInv => ReportTruthful
  BY DEF DoorInv
<1>. QED BY <1>1, DoorInvariance, PTL

=============================================================================
