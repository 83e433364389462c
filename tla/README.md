# Verification of the RT-Thread door lock

This directory holds TLA+ models of the program in `src/`: the RT-Thread 4.0.1
kernel as it is configured for an STM32F407 board
(`bsp/stm32f4xx-HAL/rtconfig.h`: one core, 32 priorities, no signals, no soft
timers, no modules) and the application on top of it, a door lock that talks to
the Aliyun cloud through an NB-IoT modem on uart1 and takes commands from a
shell. TLC checks the models on small instances; TLAPS proves the safety
properties of the scheduler, the timers, the heap, serial receive and the
application for every value of their constants.

## 1. Inventory

| part | source | state | operations | what is hard |
|---|---|---|---|---|
| scheduler | `src/scheduler.c` | ready lists, bitmap, current thread, lock nesting | insert, remove, schedule, enter and exit critical | updated by threads and interrupts between any two critical sections |
| threads | `src/thread.c` | state, priority, error, slice, timer of each thread | create, startup, sleep, suspend, resume, yield, exit, delete, control, timeout | calls made of several critical sections; timeouts in the windows between them |
| idle thread | `src/idle.c` | the defunct list | reap, free | races exit and delete |
| tick, timers | `src/clock.c`, `src/timer.c` | tick counter, slices, sorted timer list | tick, check, start, stop, control | tick wrap; starts and stops made of several critical sections; timers stopped and restarted in callbacks |
| IPC lists | `src/ipc.c` | list of suspended threads | suspend, resume, resume all | order; a loop tested outside its critical section |
| semaphore | `src/ipc.c` | value | take, release, reset, delete | hand-over against timeout, interrupt, deletion |
| mutex | `src/ipc.c` | owner, hold, original priority | take, release, delete | recursion, inheritance, nesting, hand-over |
| event | `src/ipc.c` | set of bits, what each waiter asked for | send, receive, reset, delete | bits cleared while the list of waiters is walked |
| mailbox | `src/ipc.c` | ring, two wait lists | send, receive, reset, delete | retry loops on both sides |
| message queue | `src/ipc.c` | chain of full and of free blocks | send, urgent, receive, reset, delete | blocks copied outside the critical sections |
| memory pool | `src/mempool.c` | free chain, counters | alloc, free, delete | a woken waiter must retry |
| heap | `src/mem.c` | chain of blocks, `lfree` | malloc, realloc, free | splits and merges |
| serial receive | `components/drivers/serial/serial.c`, `drv_usart.c` | ring with `is_full`, callback | ISR, read, open | ISR against reader; overwriting when full |
| completion | `components/drivers/src/completion.c` | flag, wait list | wait, done | a flag tested outside the critical section |
| data queue | `components/drivers/src/dataqueue.c` | ring with running indices, two wait lists | push, pop, reset | low-water mark, 16-bit indices |
| door lock | `applications`, `mypackages` | thread pointer, two line buffers, three semaphores, `print_mutex`, relay, LED | modem reader, connecting thread, shell commands | threads deleted in mid-work, one-slot hand-over, a second's sleep with the mutex |

The parts interact as follows. Every blocking call goes through the scheduler
and the thread timers. IPC objects keep lists of suspended threads that
timeouts and deletion also change. The serial ISR releases a semaphore that the
modem reader waits on; the reader passes lines to the connecting thread through
one buffer and a semaphore; all three threads of the application write under
`print_mutex`.

## 2. Modules

Everything that blocks runs on the scheduler of RTKernel itself, not on a
simplified one.

* **RTList** – `rt_list_t` of `rtservice.h` as sequences: linking before or after
  an entry, unlinking, searching. Everything below that has a list uses it.
* **RTKernel** – the kernel as operators on one record `k` (lists, bitmap,
  current thread, per-thread fields). One operator is one C function run with
  interrupts disabled, so a call sequence in C is operator composition here.
  `rt_list_remove` unlinks a thread from whichever list it is in, like the
  intrusive node does. Mutants of these operators, which the mutation runs put
  in their places, stand before them and are not used otherwise.
* **Scheduler** – the calls of `thread.c`, the idle thread, the tick, timeouts
  and wake-ups from interrupts over `k`. A call that the code splits over
  several critical sections is split at the same places; `pc[t]` says where
  thread `t` is and `arg[t]` which thread its call is about.
* **IPC** – the wait lists shared by all objects of `ipc.c`.
* **Timer**, **Clock** – the timer list as operators on a record `tm`, and
  Scheduler with it: `rt_tick` and its wrap, the thread timers as entries of the
  list, application timers that threads start and stop in the steps of the code
  (`call[t]` says where thread `t` is), the tick interrupt that runs one timeout
  function at a time, and callbacks that release an object, stop their timer or
  restart it. Clock implements Scheduler, in which an active timer may expire at
  any moment.
* **Client** – what the users of every object share: the split of a blocking call
  where interrupts are enabled again (critical section, `rt_schedule`, return),
  sleep, tick, timeouts, and the loops of deletion.
* **Semaphore**, **Mutex**, **Event**, **Completion**, **MemPool**, **Mailbox**,
  **MessageQueue**, **DataQueue** – one object each (Mutex: any number), over
  Client: `obj` is the object, `own` what each client has of it.
* **BoundedQueue** – what the three queues promise: messages go in at the tail or,
  if urgent, at the head while there is room, come out at the head to one
  receiver, and a reset empties the queue.
* **Objects** – the eight objects under one specification (`kind` is the one a
  behaviour is about), with the properties that all of them owe their clients
  stated once, and the mapping of the three queues to BoundedQueue.
* **SmallMem** – the first-fit heap with its block headers as a function from
  offsets. `heap_sem` makes a call one step; a moving `rt_realloc` is two.
* **RxQueue**, **SerialRx** – what the receive side promises, and the ring of
  `serial.c` with the UART's data register, the interrupt handler (drain,
  callback, clearing of RXNE as separate steps) and the reader's loop. SerialRx
  implements RxQueue by the mapping `q <- Contents`.
* **DoorLock** – the application. A line is its kind, as far as the `strstr`
  tests tell lines apart. The shell (priority 20) runs only when the two threads
  of priority 5 are blocked, or with an inherited priority.
* **KernelLemmas**, **SchedulerInv**, **SchedulerProofs** – the proofs about
  Scheduler; **TimerLemmas**, **ClockProofs** – those about Clock;
  **SmallMemProofs**, **SerialRxProofs**, **DoorLockProofs** – those about these
  modules.
* **MC...** – the constants of the instances.

`PROJECT.json` maps every definition to the lines it stands for.

## 3. Runs

| run | instance | checks |
|---|---|---|
| scheduler | idle, main and a thread that is created and deleted, 3 priorities, slices of 2 ticks, all calls | type; bitmap, ready, wait and defunct lists exact; one RUNNING thread; the assertion in `rt_thread_timeout`; every switch goes to the highest ready priority; strict preemption, but for the two calls that do not reschedule; round robin |
| delete_timed | deletion of a thread whose timer runs | *finding*: the thread ends up closed and in a ready list |
| clock | idle, main and one more thread, an application timer, delays of 1 to 3, `rt_tick` modulo 14 | every step is one of Scheduler; a thread's timer is in the list exactly while it is activated, an application timer too but for two exceptions (section 6); none expires early or is missed |
| objects | each object with three clients, two of them of one priority (mutex: three priorities, both flags), an interrupt that sends, timeouts, reset, deletion | lists exact and sorted; no lost wake-up; deletion of a semaphore, a mutex or an event leaves nobody suspended (for a mailbox see mailbox_delete); tokens, blocks and messages conserved; a receiver gets the bits it wants; exclusion, no orphan, restoration, and no inversion with RT_IPC_FLAG_PRIO; every call on a queue is its operation on BoundedQueue |
| mutex_nested | two mutexes | *finding*: an inherited priority is kept for ever |
| mempool_timed | the memory pool with timeouts | *finding*: the counter of suspended threads is too high after a timeout |
| dataqueue_wrap | the data queue whose indices wrap | *finding*: a full ring takes another message |
| mailbox_delete | the mailbox with three clients and deletion | *finding*: `rt_mb_delete` returns with a receiver still suspended |
| smallmem | two clients, three sizes, the header and minimum sizes of the 32-bit build | tiling, merging, ownership, statistics |
| serial | FIFO of 4, 7 characters of 2 kinds | ring implements queue, no lost wake-up, FIFO always emptied again |
| doorlock | all commands, all kinds of lines, one line in flight | mutex never orphaned and always released, pointer and LED truthful, report truthful, a connecting thread does not wait for ever for a reader that exists |
| door_sentence | the same | *finding*: a sentence is written into the middle of another |

Every property of a passing run has a mutant: a plausible slip in one mapped
definition (a dropped reset, a missing test, a lost wake-up) under which TLC
finds the property violated.

### Bounds

* Scheduler: three threads are a caller, its target and the idle thread, and the
  target is also the competitor: created with its own priority, it can be given
  every other by `rt_thread_control`. The proofs remove these bounds, and those
  of the other modules that section 4 names, for the properties it lists.
* `InitTick` is 1 (clock, objects) or 2 (scheduler): the slice ends at every
  tick, or it can also go on.
* `MaxNest`, `MaxHold`, `MaxHeld`, `MaxCount` and `MaxTotal` cap counters at the
  smallest values at which nesting, recursion and a full or empty resource occur.
* Objects: three clients are one that holds what two others want, or the two ends
  of a queue and a competitor at one of them. Two bits and the requests for all,
  for some and for one of them that clears it give the orders in which one send
  serves or passes over two receivers. Queues have two places, and the data queue
  puts up to `MaxPut` messages, below the wrap of its indices except in
  dataqueue_wrap. Where `Bounded` is {TRUE} every wait has a timeout, which need
  not come: for these safety properties that includes the unbounded waits.
* Clock: a range of 14 ticks has a half of 6, and delays of up to 3 with a start
  preempted for up to 2 ticks (`MaxLate`) stay below it, as the code requires.
  One application timer shares the list with the timers of the threads, so that
  entries of both kinds are linked before and after each other.
* Symmetry: clients of one priority, messages, and clients of the heap are alike,
  and no operator chooses among them. The views drop what is never read again
  (what is left in free places and blocks, errors of calls that are over, times
  of timers that are not running) and, in Clock, the tick itself, of which only
  differences are used.
* SerialRx: 7 characters overflow a FIFO of 4 and wrap both indices. They stay
  below `ValueMod`, the wrap of the semaphore's value, which `NoLostWakeup`
  needs: in the code the value wraps only after 65536 interrupts without a take.
* SmallMem: heap and requests are chosen so that exact fits, near fits, splits,
  merges on both sides and failures occur.
* DoorLock: one line in flight at a time (`MaxPend`, `MaxTokens`). With both
  bounds at 2 the same properties hold as well (2.6 million states, nine minutes,
  and therefore not one of the runs).

CHECK_DEADLOCK is off in serial, doorlock and door_sentence only: when the last
character has been read, or an assertion has stopped the shell or, inside
`rt_enter_critical`, everything, those systems do stop.

### Fairness

* Scheduler: weak fairness of the tick, nothing else: SysTick is periodic, and
  threads owe each other nothing.
* SerialRx: the ISR runs when it is pending, and the reader, the most urgent
  thread of the application, when no ISR does.
* DoorLock: each thread runs when the scheduler lets it. No line is owed by the
  modem; but `MaxTokens` and `MaxPend` throttle it, so that it cannot keep the
  threads busy for ever while the connecting thread has lines to look at.

## 4. Proofs

Every theorem holds for every value of the constants that satisfies the named
assumptions in the module that declares them. What a theorem assumes beyond
those is in the last column.

| theorem | shows | assumes |
|---|---|---|
| `SchedulerProofs`: `Invariance` | the inductive invariant `IInv` | `~TimedTargets` |
| `TypeCorrect`, `Bitmap`, `ReadyLists`, `WaitLists`, `SingleRunner`, `TimeoutAssertion` | the six invariants of the run scheduler | `~TimedTargets` |
| `HighestRuns` | its action property SwitchesToHighest | `~TimedTargets` |
| `Preemption` | its action property StrictPreemption | `~TimedTargets` |
| `ClockProofs`: `ClockInvariance` | the inductive invariant `ClockInv` | `~TimedTargets` |
| `ClockRefinement` | Clock implements Scheduler, so the theorems above hold with real timers | `~TimedTargets` |
| `ClockLinked`, `ClockTyped` | LinkedIffActive and ClockTypeOK of the run clock | `~TimedTargets` |
| `SmallMemProofs`: `HeapInvariance` | the inductive invariant `MemInv` | – |
| `Tiled`, `NoFreeNeighbours`, `DataIntact` | HeapTiled, Coalesced and PointersIntact of the run smallmem | – |
| `SerialRxProofs`: `RingInvariance`, `RxTyped` | the invariant of the ring, and TypeOK of the run serial | – |
| `NoWakeupLost` | NoLostWakeup of the run serial | `MaxBytes < ValueMod` |
| `RingRefinement` | SerialRx implements RxQueue | – |
| `DoorLockProofs`: `DoorInvariance` | the inductive invariant `DoorInv` | – |
| `NoOrphanedMutex`, `PointerTold`, `LedTold`, `ReportTold` | the four invariants of the run doorlock | – |

`~TimedTargets` says that nobody deletes a thread whose own timer runs, or
resumes one that a timer or an object may wake as well. It is needed: the run
delete_timed shows a closed thread in a ready list without it, and section 6
says what happens to `rt_thread_resume`. StrictPreemption itself excepts
`rt_thread_control` and `rt_thread_resume`: these two make a thread ready, or
less urgent, without a call of `rt_schedule`.
`MaxBytes < ValueMod` is needed because the value of a semaphore that wraps to 0
between the reader's last read and its `rt_sem_take` is a lost wake-up.

### The scheduler

The six invariants are not inductive together: they say nothing of the thread
that a half-finished call is about. `IInv` adds that such a target is in no
list, has no timer running, is neither current nor idle and is in the state its
caller's label implies (`TargetsOK`); that callers are ready or running
(`CallersOK`) and no two have the same target (`TargetsDistinct`); that the idle
thread can always run (`IdleOK`), so that `rt_schedule` never finds every list
empty when the current thread has left; that the current thread is RUNNING or,
with the scheduler unlocked, on its way to `rt_schedule` (`CurOK`); and that no
ready or closed thread is lost (`ReadyOK`, `DefunctOK`). `KernelSound` is the
part about the record alone.

`KernelLemmas` says what removing, appending and pushing do to injective
sequences, that the list operations keep the lists sound, and what each operator
of RTKernel does to a sound kernel, as named predicates (`Switched`, `Awakened`,
`Removed`, `Linked`, ...). `SchedulerInv` defines `IInv`, reduces most actions to
one lemma about steps that concern a single thread, and has one lemma for each
action about another thread and for each wake-up, interrupt and scheduling
point; `SchedulerProofs` has those of the calls that move a thread, and combines
them in `NextStep`.

`HighestRuns` and `Preemption` share one argument. `ScheduleTop` says that after
`rt_schedule`, whether or not it switches, no ready thread is more urgent than
the current one. `SchedulingStep` says which actions end in `rt_schedule`, and of
which sound state; `KeepsCpu` that all others keep the current thread. For
`Preemption` the invariant must also hold in the middle of calls: `Ahead` says
that a thread keeps the lead at every label except the two before its call of
`rt_schedule` (`StrictAhead` relates it to the property).
`QuietStep` shows that the actions that do not reschedule make nobody ready.

### Timers

The refinement needs that an expiring thread timer belongs to a thread that
waits with it, which is the second conjunct of LinkedIffActive. For that to be
inductive `TimerInv` adds that a thread's timer is never periodic, that a thread
in the middle of `rt_timer_start` or in the last step of `rt_timer_stop` finds its
timer out of the list, and that no two threads are in calls about one timer; the
timers in `stray` may be linked or not, activated or not. `TimerLemmas` says what
each operator of Timer does to one timer of the list (`Changed`, or `Moved` for a
callback that restarts its timer) and that the scheduler's list operations leave
thread timers alone. `StepTimer` shows that a step of Scheduler starts or stops at
most one thread's timer, and starts only the caller's own.
One lemma per action of Clock then gives the invariant and the step of Scheduler
that it implements, and `ClockNextStep` combines them.

### The heap

HeapTiled looks forward only, and does not say that `lfree` is a block. `MemInv`
describes the headers as a chain from offset 0 to `heap_end` in which `next` and
`prev` lead from each header to its neighbours with nothing between (`Chain`),
has `lfree` among them, and says who owns every used block, also the one that a
moving `rt_realloc` has not released yet (`Owned`). It is independent of where
`lfree` points: a pointer above the lowest free block wastes memory and breaks
nothing. `SplitLemma`, `MergeLemma` and `MarkLemma` say what the three ways of
changing a header do to a chain. Between marking a block free and the second
merge of `plug_holes` two free blocks may be neighbours; `CoalescedBut(blk, b)`
allows that beside `b` only, and `ForwardLemma` and `BackwardLemma` remove the
exception one side at a time. `TakeLemma`, `ReleaseLemma` and `ShrinkLemma` are
the three calls on the heap, and one lemma per kind of action adds the owners.

### Serial receive

`RingInv` adds to the type that `is_full` is only set while the two indices
differ, and that the reader only loops once the callback is set. It is all the refinement
needs: each step of the ring is a put, an overwriting put, a get or a stutter of
RxQueue under `q <- Contents`. `RxInv` adds for NoLostWakeup that in the window
between the read that found nothing and the `rt_sem_take` every stored character
is announced by a pending release or by a running handler (`Announced`), and that
the releases and the handler's claim to one never exceed the characters sent, so
that the value does not wrap.

### The door lock

The four invariants refer to labels of three threads and to the state the LED,
the pointer and the step of the connection are in. `DoorInv` adds to them where
the connecting thread can be while the shell is in `connect_aliyun` or
`disConnect_aliyun` (`ShellOK`), and what step and LED are at each label of the
connecting thread (`ConnectOK`). The guard `ShellRuns`, the priorities of the
three threads, is what makes it inductive.

### Only model-checked

* Liveness (RoundRobin, Drained, MutexReleased, ConnectStarts): beyond the prover.
* UsedMemExact, and TypeOK of SmallMem, which bounds `used_mem`: the sum over the
  used blocks is a fold, and what a fold does when one block is split or merged
  is an induction over data.
* OnTime of Clock: it depends on the order of the timer list and on sums of
  modular differences along it.
* The properties of Objects and the refinement of BoundedQueue: eight objects
  over the wait lists. No proof has been written.

## 5. Findings

* `thread.c:440` – a timeout between the steps of `rt_thread_delete` leaves a
  closed thread in a ready list (delete_timed).
* `ipc.c:837` – releasing two mutexes in the order in which they were taken
  leaves an inherited priority behind (mutex_nested).
* `mempool.c:357` – a timeout leaves `suspend_thread_count` too high
  (mempool_timed).
* `dataqueue.c:66` – the 16-bit indices are compared as ints: after `put_index`
  has wrapped a full ring is not recognised and unread data is overwritten
  (dataqueue_wrap).
* `ipc.c:1418` – a receiver that was woken before `rt_mb_delete` and finds no
  message suspends itself again behind the loop that wakes the receivers, and is
  left in a list of freed memory (mailbox_delete).
* `post_to_aliyun.c:59` – `self_post_to_aliyun` writes without the mutex that is
  said to protect whole sentences (door_sentence).

The hazards in `PROJECT.json` list what else can go wrong at which line, and the
properties that would show it.

## 6. Abstractions and what is not modelled

* Time: in Scheduler and Objects an active timer may expire at any moment; Clock
  justifies that, and is where ticks are counted.
* The context switch is atomic: PendSV runs before any thread does.
* No two threads call resume, startup or delete on the same target at once,
  nobody deletes a thread in the middle of such a call or of one about a timer,
  and no two threads work on one timer at once.
* Rereading an empty list head as a thread (`rt_ipc_list_resume_all`,
  `rt_mp_free`, `rt_mp_delete`) leads to the label `corrupt`, where the caller
  stops: what the C code does from there on is undefined. So does a client that
  goes back to its loop after the object has been deleted.
* An object is used in the way its functions allow: one thread deletes it, the
  caller of a delete is not one of its waiters, and a client that has started no
  call before the deletion starts none after it.
* `rt_thread_resume` of a thread tests the target's state with interrupts enabled
  (`thread.c:714`) and unlinks it in a critical section (723). Both are steps, but
  with `TimedTargets` FALSE the target has no timer running and waits on no
  object. Otherwise a timeout or a wake-up in that window makes it ready first,
  and the resume then takes it off its ready list without clearing the bit of its
  priority and links it again: BitmapExact and ReadyListsExact say nothing of that.
* An application timer may be in the list without its flag, or have the flag and
  not be in the list, in two cases that the model has and LinkedIffActive excepts
  (`stray`): a one-shot timer that its own callback restarts (`timer.c:542`), and
  one whose flag `rt_timer_control` stores back after a tick has cleared it
  (`timer.c:476`, `480`). Both end with the next start, stop or expiry.
* NoInversion is about mutexes made with RT_IPC_FLAG_PRIO. `print_mutex` is made
  with RT_IPC_FLAG_FIFO: there `rt_mutex_release` (`ipc.c:844-857`) hands the mutex
  to the first waiter, which does not inherit the priority of a more urgent one
  behind it. The other properties of a mutex are checked with both flags.
* PriorityRestored does not speak of the owner of a mutex that has been deleted.
* A client of a mailbox, a message queue or a memory pool that was woken before a
  deletion goes back to wait, and may be left waiting; mailbox_delete is the
  instance of it.
* `nb101_uart1` may fail to create its thread. The connecting thread then waits
  for `rx_sem_uart1_ready` until `disConnect_aliyun` deletes it, and the next
  `nb101_uart1` initialises the semaphores a second time: `rt_object_init` asserts
  (`object.c:265`) with the scheduler locked, and the label `halted` is the end.
* When the connecting thread returns between the test of its pointer and the call
  of `rt_thread_delete` in `disConnect_aliyun`, an assertion stops the shell (label
  `asserted`). If the pointer was kept in a register the call has first taken the
  thread off the defunct list, so that its memory is never freed; that is left out.
* Characters, AT commands and printed texts are left out.

**Not modelled.** The repository contains all of RT-Thread with its board support
packages, vendor libraries and optional components, more than a million lines.
What the configuration of this product compiles is the kernel, the serial and
pin drivers, the shell, the HAL and the application; the models cover the
kernel's objects with all their operations, the receive side of serial and the
application, and so only a small share of the lines in the tree. Left out are:
timer detach and delete and soft timers; the wait and work queues, ring buffer
and pipe, which nothing in this build uses; serial DMA, transmission and close;
the registries of devices and objects; memheap and slab; the shell's line
editor; register access in the board drivers and the HAL; the assembly of the
context switch; and file systems, network stack, libc, C++ and the other
components, which this build does not contain. Each is listed with its reason in
`PROJECT.json`.
