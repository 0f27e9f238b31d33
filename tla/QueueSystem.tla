---------------------------- MODULE QueueSystem -----------------------------
(***************************************************************************)
(* async_queue.cpp closed with the threads that use it: consumers run the  *)
(* pop loop of its main(), producers push, clear, block and stop.  Every   *)
(* task is pushed at most once, which makes "the same task" meaningful and *)
(* bounds the system.                                                      *)
(***************************************************************************)
EXTENDS AsyncQueue, Integers, Functions

CONSTANTS
    Producers,   \* the threads that call every method but pop
    Ends,        \* the tasks that are "false": the exit condition of the loop
    Stoppable    \* the consumers whose stopped flag is ever raised

ASSUME ConsumersAssumption == Stoppable \subseteq Consumers
ASSUME TasksAssumption == Ends \subseteq Tasks

VARIABLES
    at,       \* where a producer is inside block() or the caller of block()
    loop,     \* where a consumer is in its loop
    clock,    \* history: number of pushes so far
    stamp,    \* history: the number of a task's push, 0 before it
    taken,    \* history: the tasks pop has returned
    dropped   \* history: the tasks clear and clear_push threw away

vars == <<qvars, at, loop, clock, stamp, taken, dropped>>
history == <<clock, stamp, taken, dropped>>

TypeOK ==
    /\ QueueTypeOK
    /\ at \in [Producers -> {"idle", "stopping", "storing"}]
    /\ loop \in [Consumers -> {"pop", "busy", "done"}]
    /\ clock \in Nat
    /\ stamp \in [Tasks -> Nat]
    /\ taken \in SUBSET Tasks
    /\ dropped \in SUBSET Tasks

\* The default constructor; the five values that main() begins with are pushes here.
Init ==
    /\ QueueInit
    /\ at = [p \in Producers |-> "idle"]
    /\ loop = [c \in Consumers |-> "pop"]
    /\ clock = 0
    /\ stamp = [v \in Tasks |-> 0]
    /\ taken = {}
    /\ dropped = {}

-----------------------------------------------------------------------------
Pushes(p, v, clearothers) ==
    /\ at[p] = "idle"
    /\ stamp[v] = 0
    /\ Push(v, clearothers)
    /\ clock' = clock + 1
    /\ stamp' = [stamp EXCEPT ![v] = clock + 1]
    /\ dropped' = IF clearothers THEN dropped \cup Range(queue) ELSE dropped
    /\ UNCHANGED <<at, loop, taken>>

Clears(p) ==
    /\ at[p] = "idle"
    /\ Clear
    /\ dropped' = dropped \cup Range(queue)
    /\ UNCHANGED <<at, loop, clock, stamp, taken>>

Blocks(p, b) ==
    /\ at[p] = "idle" \/ (at[p] = "stopping" /\ b)
    /\ BlockStore(b)
    /\ at' = [at EXCEPT ![p] = "storing"]
    /\ UNCHANGED <<loop, history>>

Notifies(p) ==
    /\ at[p] = "storing"
    /\ BlockNotify
    /\ at' = [at EXCEPT ![p] = "idle"]
    /\ UNCHANGED <<loop, history>>

\* Raise the flag of a consumer, then block(true): how emit_shutdown of
\* worker.cpp stops the loop.
Stops(p, c) ==
    /\ at[p] = "idle"
    /\ c \in Stoppable
    /\ stopped' = [stopped EXCEPT ![c] = TRUE]
    /\ at' = [at EXCEPT ![p] = "stopping"]
    /\ UNCHANGED <<queue, blocked, nonempty, extracted, taking, loop, history>>

-----------------------------------------------------------------------------
PopSleeps(c) ==
    /\ loop[c] = "pop"
    /\ PopSleep(c)
    /\ UNCHANGED <<at, loop, history>>

PopEnds(c) ==
    /\ loop[c] = "pop"
    /\ PopEnd(c)
    /\ loop' = [loop EXCEPT ![c] = "done"]
    /\ UNCHANGED <<at, history>>

\* pop between its test of "stopped" and the take.
PopDecides(c) ==
    /\ loop[c] = "pop"
    /\ PopDecide(c)
    /\ UNCHANGED <<at, loop, history>>

PopExtracts(c) ==
    /\ PopExtract(c)
    /\ UNCHANGED <<at, loop, history>>

PopTakes(c) ==
    /\ loop[c] = "pop"
    /\ PopTake(c)
    /\ loop' = [loop EXCEPT ![c] = IF Head(queue) \in Ends THEN "done" ELSE "busy"]
    /\ taken' = taken \cup {Head(queue)}
    /\ UNCHANGED <<at, clock, stamp, dropped>>

\* The body of the loop: it may raise the consumer's own flag, as main()
\* does when it sees the value 3.
Works(c, stop) ==
    /\ loop[c] = "busy"
    /\ stop => c \in Stoppable
    /\ stopped' = [stopped EXCEPT ![c] = @ \/ stop]
    /\ extracted' = [extracted EXCEPT ![c] = FALSE]
    /\ loop' = [loop EXCEPT ![c] = "pop"]
    /\ UNCHANGED <<queue, blocked, nonempty, taking, at, history>>

Wakes(c) ==
    /\ SpuriousWake(c)
    /\ UNCHANGED <<at, loop, history>>

Produce(p) ==
    \/ \E v \in Tasks, b \in BOOLEAN : Pushes(p, v, b)
    \/ Clears(p)
    \/ \E b \in BOOLEAN : Blocks(p, b)
    \/ Notifies(p)
    \/ \E c \in Consumers : Stops(p, c)

Consume(c) ==
    \/ PopSleeps(c)
    \/ PopEnds(c)
    \/ PopDecides(c)
    \/ PopExtracts(c)
    \/ PopTakes(c)
    \/ \E stop \in BOOLEAN : Works(c, stop)

Next ==
    \/ \E p \in Producers : Produce(p)
    \/ \E c \in Consumers : Consume(c) \/ Wakes(c)

Spec == Init /\ [][Next]_vars

\* A thread that is inside a call, and a consumer that is awake, is scheduled
\* again; nobody has to start a call.
Fairness ==
    /\ \A p \in Producers :
          WF_vars(at[p] # "idle" /\ (Blocks(p, TRUE) \/ Notifies(p)))
    /\ \A c \in Consumers : WF_vars(Consume(c))

FairSpec == Spec /\ Fairness

-----------------------------------------------------------------------------
\* Every task pushed is in exactly one place, at most once: queued, handed to
\* one consumer, or thrown away by a clear (push, clear, pop of async_queue).
ExactlyOnce ==
    /\ \A v \in Tasks :
          stamp[v] # 0 <=> v \in Range(queue) \cup taken \cup dropped
    /\ Range(queue) \cap (taken \cup dropped) = {}
    /\ taken \cap dropped = {}
    /\ \A i, j \in DOMAIN queue : queue[i] = queue[j] => i = j

\* pop returns tasks in the order of their pushes, whoever pops and whatever
\* is cleared in between: what is queued is sorted by push, and everything
\* handed out was pushed before anything still queued.
Fifo ==
    /\ \A i, j \in DOMAIN queue : i < j => stamp[queue[i]] < stamp[queue[j]]
    /\ \A v \in taken : \A i \in DOMAIN queue : stamp[v] < stamp[queue[i]]

\* A caller of block() that has stored the flag and not yet notified.
NotifyPending == \E p \in Producers : at[p] # "idle"

\* A consumer that will look at the queue again without being notified.
SomeoneAwake == \E c \in Consumers : c \notin nonempty /\ loop[c] # "done"

\* No wakeup is lost: when pop's condition holds for a sleeper, a notification
\* is still to come or a consumer is awake that will see the queue
\* (async_queue.cpp:51, 60-62, 73-76).
NoLostWakeup ==
    \A c \in nonempty : Ready(c) => NotifyPending \/ SomeoneAwake

\* A task that is queued is eventually taken or cleared, unless the queue is
\* blocked or every consumer leaves.
Delivered ==
    \A v \in Tasks :
        v \in Range(queue) ~>
            \/ v \in taken \cup dropped
            \/ blocked
            \/ \A c \in Consumers : loop[c] = "done"

\* Raising a consumer's flag and calling block(true) ends its loop, even when
\* it sleeps on an empty queue (async_queue.cpp:62 "resume looping on
\* .pop_wait()").
StopEndsLoop == \A c \in Consumers : stopped[c] ~> loop[c] = "done"

=============================================================================
