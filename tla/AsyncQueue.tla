----------------------------- MODULE AsyncQueue -----------------------------
(***************************************************************************)
(* The blocking FIFO of languages/cxx/taskmgr/async_queue.cpp: a           *)
(* std::queue, a mutex, the condition variable m_nonempty and the atomic   *)
(* m_blocked.  This module has the state and one operator per method, or   *)
(* per critical section of a method; QueueSystem and Worker close it with  *)
(* the threads that call it.                                               *)
(*                                                                         *)
(* The critical sections of push, block, clear and empty are one step.     *)
(* That of pop is several, because the flags stopped and extracted, which  *)
(* it reads and raises, are atomics that other threads write and read      *)
(* without the mutex: pop decides, raises extracted, takes the front.      *)
(***************************************************************************)
EXTENDS Sequences, FiniteSets

CONSTANTS
    Tasks,      \* the values a queue can hold
    Consumers   \* the threads that call pop

VARIABLES
    queue,      \* m_queue
    blocked,    \* m_blocked
    nonempty,   \* the consumers asleep on m_nonempty
    stopped,    \* the flag each consumer passes to pop as "stopped"
    extracted,  \* the flag each consumer passes to pop as "extracted"
    taking      \* the consumer that holds m_mutex and has decided to take

qvars == <<queue, blocked, nonempty, stopped, extracted, taking>>

QueueTypeOK ==
    /\ queue \in Seq(Tasks)
    /\ blocked \in BOOLEAN
    /\ nonempty \in SUBSET Consumers
    /\ stopped \in [Consumers -> BOOLEAN]
    /\ extracted \in [Consumers -> BOOLEAN]
    /\ taking \in SUBSET Consumers

QueueInit ==
    /\ queue = <<>>
    /\ blocked = FALSE
    /\ nonempty = {}
    /\ stopped = [c \in Consumers |-> FALSE]
    /\ extracted = [c \in Consumers |-> FALSE]
    /\ taking = {}

\* The mutex of the queue is free.
MutexFree == taking = {}

-----------------------------------------------------------------------------
\* m_nonempty.notify_one(): any one of the sleepers, and nothing to do when
\* nobody sleeps.
NotifyOne ==
    \/ nonempty = {} /\ nonempty' = {}
    \/ \E c \in nonempty : nonempty' = nonempty \ {c}

\* Faulty variants of push: the newest task at the front, no notification, and
\* a value already moved from.
PushFront(v, clearothers) ==
    /\ MutexFree
    /\ queue' = <<v>> \o (IF clearothers THEN <<>> ELSE queue)
    /\ NotifyOne
    /\ UNCHANGED <<blocked, stopped, extracted, taking>>

PushSilently(v, clearothers) ==
    /\ MutexFree
    /\ queue' = Append(IF clearothers THEN <<>> ELSE queue, v)
    /\ UNCHANGED <<nonempty, blocked, stopped, extracted, taking>>

PushMoved(v, clearothers) ==
    /\ MutexFree
    /\ queue' = Append(IF clearothers THEN <<>> ELSE queue, "moved from")
    /\ NotifyOne
    /\ UNCHANGED <<blocked, stopped, extracted, taking>>

\* push(value, clearothers)
Push(v, clearothers) ==
    /\ MutexFree
    /\ queue' = Append(IF clearothers THEN <<>> ELSE queue, v)
    /\ NotifyOne
    /\ UNCHANGED <<blocked, stopped, extracted, taking>>

ClearPush(v) == Push(v, TRUE)

\* block(): the store comes before the lock ...
BlockStore(b) ==
    /\ blocked' = b
    /\ UNCHANGED <<queue, nonempty, stopped, extracted, taking>>

\* Faulty variants: block() that only stores, and that notifies without the mutex.
BlockSilently == MutexFree /\ UNCHANGED qvars

BlockUnlocked ==
    /\ NotifyOne
    /\ UNCHANGED <<queue, blocked, stopped, extracted, taking>>

\* ... and the notification under it.
BlockNotify ==
    /\ MutexFree
    /\ NotifyOne
    /\ UNCHANGED <<queue, blocked, stopped, extracted, taking>>

Clear ==
    /\ MutexFree
    /\ queue' = <<>>
    /\ UNCHANGED <<blocked, nonempty, stopped, extracted, taking>>

Empty == queue = <<>>

\* The predicate pop waits for.
Ready(c) == stopped[c] \/ ~(blocked \/ Empty)

\* pop() of an awake consumer finds the predicate false and goes to sleep,
\* releasing the mutex.
PopSleep(c) ==
    /\ MutexFree
    /\ c \notin nonempty
    /\ ~Ready(c)
    /\ nonempty' = nonempty \cup {c}
    /\ UNCHANGED <<queue, blocked, stopped, extracted, taking>>

\* pop() returns "end" to a stopped consumer and leaves the queue alone.
PopEnd(c) ==
    /\ MutexFree
    /\ c \notin nonempty
    /\ stopped[c]
    /\ UNCHANGED qvars

\* The predicate holds and "stopped" is down: pop() will hand out the front.  It
\* keeps the mutex, and does not look at the flag again.
PopDecide(c) ==
    /\ MutexFree
    /\ c \notin nonempty
    /\ Ready(c)
    /\ ~stopped[c]
    /\ taking' = {c}
    /\ UNCHANGED <<queue, blocked, nonempty, stopped, extracted>>

PopExtract(c) ==
    /\ c \in taking
    /\ ~extracted[c]
    /\ extracted' = [extracted EXCEPT ![c] = TRUE]
    /\ UNCHANGED <<queue, blocked, nonempty, stopped, taking>>

\* Faulty variants of the take: the front stays in the queue, and the task leaves
\* the queue before the flag is up.
PopCopies(c) ==
    /\ c \in taking
    /\ extracted[c]
    /\ taking' = {}
    /\ UNCHANGED <<queue, blocked, nonempty, stopped, extracted>>

PopUnflagged(c) ==
    /\ c \in taking
    /\ queue' = Tail(queue)
    /\ taking' = {}
    /\ UNCHANGED <<blocked, nonempty, stopped, extracted>>

\* The front leaves the queue, and pop() returns it and the mutex.
PopTake(c) ==
    /\ c \in taking
    /\ extracted[c]
    /\ queue' = Tail(queue)
    /\ taking' = {}
    /\ UNCHANGED <<blocked, nonempty, stopped, extracted>>

\* A condition variable may wake a sleeper for no reason.
SpuriousWake(c) ==
    /\ c \in nonempty
    /\ nonempty' = nonempty \ {c}
    /\ UNCHANGED <<queue, blocked, stopped, extracted, taking>>

=============================================================================
