------------------------------- MODULE Objects -------------------------------
(***************************************************************************)
(* The objects threads wait on, each with the same clients, scheduler and  *)
(* interrupts.  A behaviour is about one object: kind says which.  What    *)
(* every object owes its clients is stated once, for all of them.          *)
(***************************************************************************)
EXTENDS Client, Integers

CONSTANTS Kind,                          \* the objects of this instance
          Mutexes, NoThread, MaxHold,    \* of the mutex
          MutexCaller,                   \* its clients
          InitValue, ValueMod, MaxTotal, \* of the semaphore
          Bit, Request,                  \* of the event
          Msg, NoMsg, Cap,               \* of the queues
          Null,                          \* of the message queue
          Lwm, IndexMod, MaxPut,         \* of the data queue
          Block, MaxHeld, MaxCount       \* of the memory pool; message queue

ASSUME ObjectAssumption ==
  /\ Mutexes \subseteq Queue /\ NoThread \notin Thread /\ MaxHold \in 1 .. 255
  /\ MutexCaller \subseteq Thread \ {Idle}
  /\ InitValue \in Nat /\ ValueMod \in Nat /\ InitValue < ValueMod
  /\ Request \subseteq [set : SUBSET Bit \ {{}}, all : BOOLEAN, clear : BOOLEAN]
  /\ NoMsg \notin Msg /\ Null \notin Block
  /\ Cap \in Nat \ {0} /\ Cardinality(Block) = Cap
  /\ Lwm \in 0 .. Cap - 1 /\ IndexMod \in Nat /\ IndexMod % Cap = 0 /\ MaxPut <= IndexMod

VARIABLE kind

allvars == <<k, pc, timed, alive, obj, own, kind>>

SE == INSTANCE Semaphore WITH IpcFlag <- "PRIO"
MX == INSTANCE Mutex WITH MutexFlag <- "PRIO", Caller <- MutexCaller,
                          Sleeper <- Thread \ {Idle}
MF == INSTANCE Mutex WITH MutexFlag <- "FIFO", Caller <- MutexCaller,
                          Sleeper <- Thread \ {Idle}
EV == INSTANCE Event WITH IpcFlag <- "FIFO", Bounded <- {TRUE}
CO == INSTANCE Completion
MP == INSTANCE MemPool WITH Bounded <- {TRUE}
MB == INSTANCE Mailbox WITH IpcFlag <- "FIFO", Bounded <- {TRUE}
MQ == INSTANCE MessageQueue WITH IpcFlag <- "PRIO"
DQ == INSTANCE DataQueue WITH Bounded <- {TRUE}

Init ==
  /\ kind \in Kind
  /\ \/ kind = "semaphore" /\ SE!Init
     \/ kind = "mutex" /\ MX!Init
     \/ kind = "mutex_fifo" /\ MF!Init
     \/ kind = "event" /\ EV!Init
     \/ kind = "completion" /\ CO!Init
     \/ kind = "mempool" /\ MP!Init
     \/ kind = "mailbox" /\ MB!Init
     \/ kind = "messagequeue" /\ MQ!Init
     \/ kind = "dataqueue" /\ DQ!Init

Next ==
  /\ \/ kind = "semaphore" /\ SE!Next
     \/ kind = "mutex" /\ MX!Next
     \/ kind = "mutex_fifo" /\ MF!Next
     \/ kind = "event" /\ EV!Next
     \/ kind = "completion" /\ CO!Next
     \/ kind = "mempool" /\ MP!Next
     \/ kind = "mailbox" /\ MB!Next
     \/ kind = "messagequeue" /\ MQ!Next
     \/ kind = "dataqueue" /\ DQ!Next
  /\ UNCHANGED kind

Spec == Init /\ [][Next]_allvars

\* A mutex with either flag; what is said of its state is the same for both.
IsMutex == kind \in {"mutex", "mutex_fifo"}

-----------------------------------------------------------------------------
(* Properties *)

\* The type of the state.
TypeOK ==
  /\ k \in Kernel /\ pc \in [Thread -> Label]
  /\ timed \in [Thread -> BOOLEAN] /\ alive \in BOOLEAN
  /\ CASE kind = "semaphore" -> SE!TypeOK
       [] IsMutex -> MX!TypeOK
       [] kind = "event" -> EV!TypeOK
       [] kind = "completion" -> CO!TypeOK
       [] kind = "mempool" -> MP!TypeOK
       [] kind = "mailbox" -> MB!TypeOK
       [] kind = "messagequeue" -> MQ!TypeOK
       [] kind = "dataqueue" -> DQ!TypeOK

\* A client is in a list of the object if and only if it is suspended in a
\* call on it, whether it was woken, timed out or left in a reset or a delete;
\* and the lists made with RT_IPC_FLAG_PRIO are in the order of priority
\* (rt_ipc_list_suspend, rt_ipc_list_resume, rt_thread_timeout).
WaitListExact ==
  /\ \A t \in Thread :
       /\ (\E q \in Queue \ {"send"} : t \in Waiting(q))
          <=> k.stat[t] = "SUSPEND" /\ pc[t] \in {"blocked", "woken"}
       /\ t \in Waiting("send") <=> k.stat[t] = "SUSPEND" /\ pc[t] \in {"tx_blocked", "tx_woken"}
  /\ kind \in {"semaphore", "messagequeue"} => Sorted("recv")
  /\ kind = "mutex" => \A m \in Mutexes : Sorted(m)

\* Nobody waits for what is there: a token, a completion, bits of an event, or
\* blocks, data or room that no woken client is on its way to.
NoLostWakeup ==
  CASE kind = "semaphore" -> SE!NoLostWakeup
    [] IsMutex -> MX!NoLostWakeup
    [] kind = "event" -> EV!NoLostWakeup
    [] kind = "completion" -> CO!NoLostWakeup
    [] kind = "mempool" -> MP!NoLostWakeup
    [] kind = "mailbox" -> MB!NoLostWakeup
    [] kind = "messagequeue" -> MQ!NoLostWakeup
    [] kind = "dataqueue" -> DQ!NoLostWakeup

\* When the delete function of a semaphore, a mutex or an event has returned
\* nobody is suspended on it, although clients time out and are woken while its
\* loop runs (rt_ipc_list_resume_all).  Their waiters wait once; those of the
\* other objects may go back to wait, see NobodyLeft.
DeleteWakesAll ==
  Gone /\ (IsMutex \/ kind \in {"semaphore", "event"}) => \A q \in Queue : Waiting(q) = {}

\* "resume all suspended thread", "also resume all mailbox private suspended
\* thread" (ipc.c:1414, 1417): when rt_mb_delete has returned nobody is
\* suspended on the mailbox.
NobodyLeft == kind = "mailbox" /\ Gone => \A q \in Queue : Waiting(q) = {}

\* No token of the semaphore is lost or duplicated, whichever of hand-over,
\* timeout, reset and release from an interrupt comes first (rt_sem_take,
\* rt_sem_release; see Semaphore).
TokensConserved == kind = "semaphore" => SE!TokensConserved

\* At most one client at a time has been told that it has the mutex, however
\* often it took it (rt_mutex_take, rt_mutex_release; see Mutex).
MutualExclusion == IsMutex => MX!MutualExclusion

\* A mutex handed over to a waiter whose timeout comes at the same time is not
\* left with a client that was told it did not get it (rt_mutex_release,
\* rt_thread_timeout; see Mutex).
NoOrphan == IsMutex => MX!NoOrphan

\* A client that owns no mutex has its own priority again (rt_mutex_release,
\* ipc.c:832; see Mutex).  A mutex that is deleted while somebody owns it keeps
\* that owner.
PriorityRestored == IsMutex => MX!PriorityRestored

\* No client of middle priority runs in place of an owner somebody urgent is
\* waiting for, if the mutex was made with RT_IPC_FLAG_PRIO (rt_mutex_take's
\* inheritance; see Mutex).  With RT_IPC_FLAG_FIFO rt_mutex_release hands the
\* mutex to the first waiter, which inherits nothing from a more urgent one
\* behind it.
NoInversion == kind = "mutex" => MX!NoInversion

\* No block of the memory pool or of the message queue is lost, or in two hands
\* at once, while clients wait, time out and copy (rt_mp_alloc, rt_mp_free,
\* rt_mq_send, rt_mq_recv; see MemPool and MessageQueue).
BlocksConserved ==
  /\ kind = "mempool" => MP!BlocksConserved
  /\ kind = "messagequeue" => MQ!BlocksConserved

\* A receiver of an event that returns RT_EOK got all the bits it asked for, or
\* some of them, although other bits were sent and cleared while it waited
\* (rt_event_send, rt_event_recv; see Event).
ReceivesWhatItWants == kind = "event" => EV!ReceivesWhatItWants

\* The bounded queue a mailbox, a message queue and a data queue are.
Q == INSTANCE BoundedQueue WITH
       Receiver <- Thread,
       q <- CASE kind = "mailbox" -> MB!Contents
              [] kind = "messagequeue" -> MQ!Contents
              [] kind = "dataqueue" -> DQ!Contents
              [] OTHER -> << >>,
       got <- CASE kind = "mailbox" -> MB!Got
                [] kind = "messagequeue" -> MQ!Got
                [] kind = "dataqueue" -> DQ!Got
                [] OTHER -> [t \in Thread |-> NoMsg]

\* The steps of each queue that are an operation of the bounded queue.
Sends(m) == CASE kind = "mailbox" -> MB!Sends(m)
              [] kind = "messagequeue" -> MQ!Sends(m)
              [] kind = "dataqueue" -> DQ!Sends(m)
              [] OTHER -> FALSE

SendsUrgent(m) == kind = "messagequeue" /\ MQ!SendsUrgent(m)

Receives == CASE kind = "mailbox" -> MB!Receives
              [] kind = "messagequeue" -> MQ!Receives
              [] kind = "dataqueue" -> DQ!Receives
              [] OTHER -> FALSE

Ends == CASE kind = "mailbox" -> MB!Ends
          [] kind = "messagequeue" -> MQ!Ends
          [] kind = "dataqueue" -> DQ!Ends
          [] OTHER -> FALSE

Resets == CASE kind = "mailbox" -> MB!Reset
            [] kind = "messagequeue" -> MQ!Reset
            [] OTHER -> FALSE

\* Until a delete has returned, every step is the operation of the bounded queue
\* that its call stands for: a send puts its message last, an urgent one first,
\* and never into a full line; a receive takes the first; a reset of a mailbox
\* or a message queue empties it; and nothing else moves, duplicates or loses a
\* message, although the message queue fills a block before it links it, and
\* reads it after it has unlinked it (rt_mb_*, rt_mq_*, rt_data_queue_*).
ImplementsQueue ==
  /\ Q!Init
  /\ [][~Gone =>
          /\ \A m \in Msg : /\ Sends(m) => Q!Put(m)
                            /\ SendsUrgent(m) => Q!PutFirst(m)
          /\ Receives => Q!Take(k.cur)
          /\ Ends => Q!Use(k.cur)
          /\ Resets => Q!Clear
          /\ \/ \E m \in Msg : Sends(m) \/ SendsUrgent(m)
             \/ Receives \/ Ends \/ Resets \/ Q!Keep]_allvars

\* suspend_thread_count is the length of the list of waiters (rt_mp_alloc,
\* rt_mp_free; see MemPool).
CountMatches == kind = "mempool" => MP!CountMatches

\* The ring of the data queue never holds more than it has room for
\* (rt_data_queue_push; see DataQueue).
NeverOverfull == kind = "dataqueue" => DQ!NeverOverfull

=============================================================================
