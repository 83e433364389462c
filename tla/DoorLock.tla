------------------------------- MODULE DoorLock -------------------------------
(***************************************************************************)
(* The door-lock application, src/bsp/stm32f4xx-HAL/applications and       *)
(* mypackages: the my_usart1 thread that reads lines from the NB-IoT       *)
(* modem, the thread that connects to aliyun step by step, and the shell   *)
(* whose commands start and stop them, post the state and move the relay.  *)
(*                                                                         *)
(* A line is its kind, as far as the strstr tests tell lines apart.  A     *)
(* label ending in _lock is a rt_mutex_take(print_mutex), one ending in    *)
(* _locked the section up to the release.  The mutex and the semaphores    *)
(* are taken as the modules Mutex and Semaphore show them to be.  Both     *)
(* threads have priority 5 and take turns; the shell has priority 20.      *)
(***************************************************************************)
EXTENDS Naturals, Sequences, FiniteSets

CONSTANTS MaxPend,    \* bound on the lines received and not yet read
          MaxTokens,  \* bound on the value of rx_sem_connect
          Commands    \* the shell commands of this instance

ASSUME DoorAssumption == MaxPend \in Nat \ {0} /\ MaxTokens \in Nat \ {0}

VARIABLES u,      \* my_usart1_thread: where it is; "none" while the pointer is NULL
          c,      \* the connecting thread
          sh,     \* tshell
          owner,  \* the owner of print_mutex: "u", "c", "sh" or "none"
          d       \* the other variables of the application:
                  \*   ptr     my_nb101_connect_thread # NULL
                  \*   step    the connecting thread's step
                  \*   line    uart1_receivedStrs
                  \*   slot    uart1_global_receivedStrs
                  \*   tokens  the value of rx_sem_connect
                  \*   ready   the value of rx_sem_uart1_ready
                  \*   first   isFirst
                  \*   pend    the lines in the serial port's FIFO
                  \*   inited  nb101_uart1 has initialised the semaphores
                  \*   pin     the relay's pin: the door is open
                  \*   relay   relay_switch_isOn
                  \*   led     what onTime and offTime say

vars == <<u, c, sh, owner, d>>

\* A DoorContact line with a value other than 0 and 1 moves nothing and posts
\* nothing: it is one of the "other" lines.
Line == {"ok", "open_ok", "open_fail", "conn_ok", "conn_fail", "sub_ok",
         "door0", "door1", "ios", "other"}

\* main: the relay is closed, the LED blinks, no thread has been started.
Init ==
  /\ u = "none" /\ c = "none" /\ sh = "idle" /\ owner = "none"
  /\ d = [ptr |-> FALSE, step |-> 0, line |-> "none", slot |-> "none",
          tokens |-> 0, ready |-> 0, first |-> TRUE, pend |-> <<>>,
          inited |-> FALSE, pin |-> FALSE, relay |-> FALSE, led |-> "disconnected"]

-----------------------------------------------------------------------------
(* Who can run *)

WantsMutex(pc) ==
  pc \in {"init_lock", "hello_lock", "send_lock", "show_lock", "fail_lock", "pub_lock",
          "echo_lock", "ios_lock", "post_lock", "conn_lock", "disc_lock"}

UBlocked ==
  \/ u \in {"none", "created"} \/ (u = "read" /\ d.pend = <<>>)
  \/ (WantsMutex(u) /\ owner # "none")

CBlocked ==
  \/ c \in {"none", "created"} \/ (c = "wait" /\ d.tokens = 0)
  \/ (c = "ready" /\ d.first /\ d.ready = 0)
  \/ (WantsMutex(c) /\ owner # "none")

\* Mutant: the shell has the priority of the threads.
ShellRuns_Equal == TRUE

\* The shell runs when both threads are blocked, or with their priority while
\* one of them waits for the mutex it has.
ShellRuns ==
  \/ UBlocked /\ CBlocked
  \/ owner = "sh" /\ (WantsMutex(u) \/ WantsMutex(c))

\* rt_mutex_take and rt_mutex_release of print_mutex by thread t.
Lock(t) == owner = "none" /\ owner' = t
Unlock(t) == owner = t /\ owner' = "none"

-----------------------------------------------------------------------------
(* my_usart1_thread_entry *)

U(from, to) == u = from /\ u' = to /\ UNCHANGED <<c, sh>>

ULock(from, to) == U(from, to) /\ Lock("u") /\ UNCHANGED d

\* The banner is printed; the connecting thread may go on.
UReady == U("hello_locked", "read") /\ Unlock("u") /\ d' = [d EXCEPT !.ready = @ + 1]

\* A whole line has been read, character by character.
URead ==
  /\ U("read", "dispatch") /\ d.pend # <<>>
  /\ d' = [d EXCEPT !.line = Head(d.pend), !.pend = Tail(@)]
  /\ UNCHANGED owner

\* The line is for the connecting thread if there is one.
UDispatch ==
  /\ U("dispatch", CASE d.ptr -> "copy"
                     [] ~d.ptr /\ d.line \in {"door0", "door1"} -> "door"
                     [] ~d.ptr /\ d.line = "ios" -> "ios_lock"
                     [] OTHER -> "echo_lock")
  /\ UNCHANGED <<owner, d>>

UCopy == U("copy", "signal") /\ d' = [d EXCEPT !.slot = d.line] /\ UNCHANGED owner

USignal ==
  /\ U("signal", "read")
  /\ d' = [d EXCEPT !.tokens = @ + 1, !.line = "none"]
  /\ UNCHANGED owner

\* open_switch or close_switch: no thread that uses the relay comes between the
\* pin and relay_switch_isOn, the connecting thread being gone.
UDoor ==
  /\ U("door", "self_post")
  /\ d' = [d EXCEPT !.pin = (d.line = "door1"), !.relay = (d.line = "door1")]
  /\ UNCHANGED owner

\* self_post_to_aliyun: the sentence, then its end, without the mutex.
USelfPost ==
  /\ U("self_post", "self_post_end") \/ U("self_post_end", "echo_lock")
  /\ UNCHANGED <<owner, d>>

\* The state of the door is published with the mutex.
UIos == U("ios_locked", "echo_lock") /\ Unlock("u") /\ UNCHANGED d

\* The line is printed, and the buffer emptied.
UEcho == U("echo_locked", "read") /\ Unlock("u") /\ d' = [d EXCEPT !.line = "none"]

UThread ==
  \/ ULock("hello_lock", "hello_locked") \/ ULock("ios_lock", "ios_locked")
  \/ ULock("echo_lock", "echo_locked")
  \/ UReady \/ URead \/ UDispatch \/ UCopy \/ USignal \/ UDoor \/ USelfPost
  \/ UIos \/ UEcho

-----------------------------------------------------------------------------
(* my_nb101_connect_thread_entry *)

C(from, to) == c = from /\ c' = to /\ UNCHANGED <<u, sh>>

CLock(from, to) == C(from, to) /\ Lock("c") /\ UNCHANGED d

\* nb101_uart1, up to its mutex: what my_usart1 becomes and where the caller goes
\* on.  It returns at once if the thread exists.  Else it initialises the
\* semaphores and creates the thread or, if that fails, returns.  The call after
\* such a failure would initialise them again: rt_object_init asserts, in
\* rt_enter_critical, and the caller spins for ever.  Nothing runs any more;
\* the others are blocked as it is, for want of my_usart1.
Uart1(return) ==
  CASE u # "none"             -> {<<u, return>>}
    [] u = "none" /\ d.inited  -> {<<u, "halted">>}
    [] u = "none" /\ ~d.inited -> {<<"created", "init_lock">>, <<u, return>>}

\* deviceConnecting and nb101_uart1.
CStart ==
  /\ \E r \in Uart1("ready") : c = "start" /\ u' = r[1] /\ c' = r[2]
  /\ d' = [d EXCEPT !.led = "connecting", !.step = 0, !.inited = TRUE]
  /\ UNCHANGED <<sh, owner>>

\* nb101_uart1 prints its banner and, the mutex released, starts my_usart1.
CInit ==
  /\ c = "init_locked" /\ c' = "ready" /\ Unlock("c")
  /\ u' = "hello_lock"
  /\ UNCHANGED <<sh, d>>

\* Mutant: isFirst stays set.
CReady_StaysFirst ==
  /\ C("ready", "hello_lock") /\ (d.first => d.ready > 0)
  /\ d' = [d EXCEPT !.ready = IF d.first THEN @ - 1 ELSE @]
  /\ UNCHANGED owner

CReady ==
  /\ C("ready", "hello_lock") /\ (d.first => d.ready > 0)
  /\ d' = [d EXCEPT !.ready = IF d.first THEN @ - 1 ELSE @, !.first = FALSE]
  /\ UNCHANGED owner

CHello ==
  /\ C("hello_locked", "send_lock") /\ Unlock("c")
  /\ d' = [d EXCEPT !.step = 1]

\* The command of this step is sent.
CSend ==
  /\ C("send_locked", IF d.step = 1 THEN "wait" ELSE "clear") /\ Unlock("c")
  /\ d' = [d EXCEPT !.step = @ + 1]

CTake ==
  /\ C("wait", "show_lock") /\ d.tokens > 0
  /\ d' = [d EXCEPT !.tokens = @ - 1]
  /\ UNCHANGED owner

CShow == C("show_locked", "decide") /\ Unlock("c") /\ UNCHANGED d

\* What the line in the slot means at this step: the next command is due, the
\* connection has failed, it is complete, or nothing.
Verdict ==
  CASE d.step <= 4 /\ d.slot = "ok"        -> "send_lock"
    [] d.step = 5 /\ d.slot = "open_ok"    -> "send_lock"
    [] d.step = 5 /\ d.slot = "open_fail"  -> "fail_lock"
    [] d.step = 6 /\ d.slot = "conn_ok"    -> "send_lock"
    [] d.step = 6 /\ d.slot = "conn_fail"  -> "fail_lock"
    [] d.step = 7 /\ d.slot = "sub_ok"     -> "send_lock"
    [] d.step = 8 /\ d.slot = "sub_ok"     -> "pub_lock"
    [] OTHER                               -> "clear"

\* Mutant: a failure leaves the LED as it is.
CDecide_LedStays ==
  /\ C("decide", Verdict)
  /\ d' = [d EXCEPT !.led = IF Verdict = "send_lock" /\ d.step = 6 THEN "connected" ELSE @]
  /\ UNCHANGED owner

CDecide ==
  /\ C("decide", Verdict)
  /\ d' = [d EXCEPT !.led = CASE Verdict = "fail_lock" -> "disconnected"
                              [] Verdict = "send_lock" /\ d.step = 6 -> "connected"
                              [] OTHER -> @]
  /\ UNCHANGED owner

CClear == C("clear", "wait") /\ d' = [d EXCEPT !.slot = "none"] /\ UNCHANGED owner

\* The failure is printed, or the state of the door published.
CLast ==
  /\ C("fail_locked", "leave") \/ C("pub_locked", "leave")
  /\ Unlock("c") /\ UNCHANGED d

\* Mutant: the pointer to the thread that returns is kept.
CLeave_KeepsPointer == C("leave", "none") /\ d' = [d EXCEPT !.step = 0] /\ UNCHANGED owner

\* my_nb101_connect_thread = NULL, and the thread returns.
CLeave == C("leave", "none") /\ d' = [d EXCEPT !.ptr = FALSE, !.step = 0] /\ UNCHANGED owner

CThread ==
  \/ CLock("init_lock", "init_locked") \/ CLock("hello_lock", "hello_locked")
  \/ CLock("send_lock", "send_locked") \/ CLock("show_lock", "show_locked")
  \/ CLock("fail_lock", "fail_locked") \/ CLock("pub_lock", "pub_locked")
  \/ CStart \/ CInit \/ CReady \/ CHello \/ CSend \/ CTake \/ CShow \/ CDecide
  \/ CClear \/ CLast \/ CLeave

-----------------------------------------------------------------------------
(* The shell *)

S(from, to) == ShellRuns /\ sh = from /\ sh' = to

SLock(from, to) == S(from, to) /\ Lock("sh") /\ UNCHANGED <<u, c, d>>

\* connect_aliyun: rt_thread_create succeeds, or it fails.
SConnect ==
  /\ "connect" \in Commands /\ ~d.ptr
  /\ \/ S("idle", "conn_lock") /\ c' = "created" /\ d' = [d EXCEPT !.ptr = TRUE]
     \/ S("idle", "none_lock") /\ UNCHANGED <<c, d>>
  /\ UNCHANGED <<u, owner>>

\* The banner, and rt_thread_startup once the mutex is released.  The second
\* release, after the else without braces, is refused: the shell is not the owner.
SStartup ==
  /\ S("conn_locked", "idle") /\ Unlock("sh") /\ c' = "start"
  /\ UNCHANGED <<u, d>>

\* nb101_uart1 from the shell.
SUart1 ==
  /\ "nb101_uart1" \in Commands
  /\ \E r \in Uart1("idle") : S("idle", r[2]) /\ u' = r[1]
  /\ d' = [d EXCEPT !.inited = TRUE]
  /\ UNCHANGED <<c, owner>>

SInit ==
  /\ S("init_locked", "idle") /\ Unlock("sh") /\ u' = "hello_lock"
  /\ UNCHANGED <<c, d>>

\* disConnect_aliyun: my_nb101_connect_thread is tested ...
SDisconnect ==
  /\ "disconnect" \in Commands
  /\ S("idle", IF d.ptr THEN "disc_delete" ELSE "disc_lock")
  /\ UNCHANGED <<u, c, owner, d>>

\* ... and passed to rt_thread_delete.  The thread may have returned since: an
\* assertion then stops the shell, that of rt_thread_delete if the pointer is read
\* again, that of rt_timer_detach if it was kept in a register.
SDelete ==
  /\ \/ c # "none" /\ S("disc_delete", "disc_null") /\ c' = "none" /\ d' = [d EXCEPT !.step = 0]
     \/ c = "none" /\ S("disc_delete", "asserted") /\ UNCHANGED <<c, d>>
  /\ UNCHANGED <<u, owner>>

SNull ==
  /\ S("disc_null", "disc_lock") /\ d' = [d EXCEPT !.ptr = FALSE]
  /\ UNCHANGED <<u, c, owner>>

SDisconnected ==
  /\ S("disc_locked", "idle") /\ Unlock("sh")
  /\ d' = [d EXCEPT !.led = "disconnected"]
  /\ UNCHANGED <<u, c>>

\* post_to_aliyun: the command is written, the mutex kept for a second's sleep,
\* then the rest of the sentence is written.
SPost ==
  /\ "post" \in Commands /\ S("idle", "post_lock")
  /\ UNCHANGED <<u, c, owner, d>>

\* Mutant: an early return that forgets the mutex.
SPostEnd_KeepsMutex == S("post_locked", "idle") /\ UNCHANGED <<u, c, owner, d>>

SPostEnd == S("post_locked", "idle") /\ Unlock("sh") /\ UNCHANGED <<u, c, d>>

\* open_switch and close_switch: the pin is written, and relay_switch_isOn after
\* a message, when my_usart1 may have moved the relay in between.
SSwitch(on) ==
  /\ "switch" \in Commands /\ S("idle", IF on THEN "switch_on" ELSE "switch_off")
  /\ d' = [d EXCEPT !.pin = on]
  /\ UNCHANGED <<u, c, owner>>

SSwitched ==
  /\ S("switch_on", "idle") \/ S("switch_off", "idle")
  /\ d' = [d EXCEPT !.relay = (sh = "switch_on")]
  /\ UNCHANGED <<u, c, owner>>

\* The else branch of a failed creation.
SNone == S("none_locked", "idle") /\ Unlock("sh") /\ UNCHANGED <<u, c, d>>

Shell ==
  \/ SLock("conn_lock", "conn_locked") \/ SLock("none_lock", "none_locked")
  \/ SLock("init_lock", "init_locked") \/ SLock("disc_lock", "disc_locked")
  \/ SLock("post_lock", "post_locked")
  \/ SConnect \/ SStartup \/ SUart1 \/ SInit \/ SDisconnect \/ SDelete \/ SNull
  \/ SDisconnected \/ SPost \/ SPostEnd \/ SNone \/ SSwitched
  \/ \E on \in BOOLEAN : SSwitch(on)

\* The modem sends a line.
Arrive(l) ==
  /\ u \notin {"none", "created"} /\ Len(d.pend) < MaxPend
  /\ d.tokens + Len(d.pend) + (IF d.line = "none" THEN 0 ELSE 1) < MaxTokens
  /\ d' = [d EXCEPT !.pend = Append(@, l)]
  /\ UNCHANGED <<u, c, sh, owner>>

Next == UThread \/ CThread \/ Shell \/ \E l \in Line : Arrive(l)

Spec == Init /\ [][Next]_vars

\* Each thread runs when the scheduler lets it.
FairSpec == Spec /\ WF_vars(UThread) /\ WF_vars(CThread) /\ WF_vars(Shell)

-----------------------------------------------------------------------------
(* Properties *)

Locked == {"init_locked", "hello_locked", "send_locked", "show_locked", "fail_locked",
           "pub_locked", "echo_locked", "ios_locked", "post_locked", "conn_locked",
           "disc_locked", "none_locked"}

\* disConnect_aliyun deletes the connecting thread wherever it is; print_mutex
\* is nevertheless never left with a thread that is gone, and its owner is the
\* one thread inside a section.
MutexNotOrphaned ==
  /\ owner = "u" <=> u \in Locked
  /\ owner = "c" <=> c \in Locked
  /\ owner = "sh" <=> sh \in Locked

\* my_nb101_connect_thread points to a thread that exists, except between
\* rt_thread_delete and the assignment after it; and when it is NULL no
\* connecting thread runs, so that connect_aliyun never starts a second one.
PointerExact == sh # "disc_null" => (d.ptr <=> c # "none")

\* The LED says connecting only while a connection is under way, and it says so
\* from the start of the thread until the modem has answered AT+QMTCONN.
LedTruthful ==
  /\ d.led = "connecting" => c # "none" \/ sh \in {"disc_null", "disc_lock", "disc_locked"}
  /\ d.step \in 1 .. 6 /\ c \notin {"none", "created", "start", "fail_lock", "fail_locked", "leave"}
       => d.led = "connecting" \/ (d.step = 6 /\ c \in {"send_lock", "send_locked"})

\* The door state that my_usart1 reports is the one it has just set, on the pin
\* and in relay_switch_isOn: although it posts without the mutex, open_switch and
\* close_switch of the shell cannot come between, not even one cut in two.
ReportTruthful ==
  u \in {"self_post", "self_post_end"} =>
    d.pin = (d.line = "door1") /\ d.relay = (d.line = "door1")

\* print_mutex is always given back, in spite of the second that
\* post_to_aliyun sleeps with it.
MutexReleased == owner # "none" ~> owner = "none"

\* A connecting thread does not wait for ever for a my_usart1 that exists, whoever
\* created it and however often one has connected before.  (When nb101_uart1 fails
\* to create it, the wait for rx_sem_uart1_ready only ends with disConnect_aliyun.)
ConnectStarts == c = "ready" /\ u # "none" ~> c # "ready"

\* print_mutex "protects the sending and receiving of a whole sentence on the
\* serial port from being interrupted" (main.c:29, translated): no thread starts
\* a sentence on uart1 while another is in the middle of one.
WholeSentences == ~(sh = "post_locked" /\ u = "self_post_end")

=============================================================================
