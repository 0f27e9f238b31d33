---------------------------- MODULE ProxyInterrupt ----------------------------
(***************************************************************************)
(* languages/cxx/chain_proxy/00-proxy-interrupt.cpp: one thread sends      *)
(* queries through a Proxy whose database the main thread replaces.  Main  *)
(* lowers a flag that the task polls at its checkpoints, interrupts the    *)
(* query that runs, replaces the database and raises the flag again.       *)
(*                                                                         *)
(* A database is a number, in the order of construction.  Every sleep of   *)
(* the code is a wait of any length: nothing bounds how long a thread is   *)
(* kept from running.                                                      *)
(***************************************************************************)
EXTENDS Integers

CONSTANTS
    NDbs,      \* databases that main activates before the empty one (2)
    Rounds,    \* iterations of exec()'s loop (10)
    Requests   \* requests that the task dispatches (2)

ASSUME SizesAssumption == NDbs \in Nat \ {0} /\ Rounds \in Nat /\ Requests \in Nat \ {0}

Databases == 1..NDbs
None == 0    \* no database

VARIABLES
    db,        \* Proxy::m_db
    ongoing,   \* MyDB::m_ongoing of each database
    locked,    \* Proxy::m_Mutex is held by the Lockable of a query
    ready,     \* ready_to_process
    mainAt,    \* where main is
    step,      \* the number of the use() main is at; the last empties the proxy
    taskAt,    \* where the task is
    phase,     \* the first or the second exec() of a chunk
    held,      \* Lockable::m_db of the query, None outside one
    left,      \* iterations left in exec()
    requests,  \* requests the task has not finished
    seen       \* history: the databases the task's request has queried

main == <<mainAt, step>>
task == <<taskAt, phase, held, left, requests, seen>>
vars == <<db, ongoing, locked, ready, main, task>>

Init ==
    /\ db = None
    /\ ongoing = [d \in Databases |-> FALSE]
    /\ locked = FALSE
    /\ ready = FALSE
    /\ mainAt = "interrupt" /\ step = 1
    /\ taskAt = "unborn" /\ phase = 1 /\ held = None
    /\ left = 0 /\ requests = Requests /\ seen = {}

Running == taskAt # "terminated"

-----------------------------------------------------------------------------
(* Main.  Proxy::use reads m_db and interrupts it without the mutex, then   *)
(* takes the mutex and replaces it, which destroys the old database.        *)

UseInterrupt ==
    /\ Running /\ mainAt = "interrupt"
    /\ ongoing' = IF db = None THEN ongoing ELSE [ongoing EXCEPT ![db] = FALSE]
    /\ mainAt' = "replace"
    /\ UNCHANGED <<db, locked, ready, step, task>>

\* The lock_guard of use(); a faulty variant first.
Unguarded == TRUE
Free == ~locked

UseReplace ==
    /\ Running /\ mainAt = "replace"
    /\ Free
    /\ db' = IF step <= NDbs THEN step ELSE None
    /\ mainAt' = IF step <= NDbs THEN "raise" ELSE "join"
    /\ UNCHANGED <<ongoing, locked, ready, step, task>>

\* The flag goes up; the task is started when it has gone up once.
Raise ==
    /\ Running /\ mainAt = "raise"
    /\ ready' = TRUE
    /\ mainAt' = "sleep"
    /\ taskAt' = IF taskAt = "unborn" THEN "wait" ELSE taskAt
    /\ UNCHANGED <<db, ongoing, locked, step, phase, held, left, requests, seen>>

\* Main has slept: the flag goes down before the next use().
Lower ==
    /\ Running /\ mainAt = "sleep"
    /\ ready' = FALSE
    /\ mainAt' = "interrupt"
    /\ step' = step + 1
    /\ UNCHANGED <<db, ongoing, locked, task>>

Join ==
    /\ mainAt = "join" /\ taskAt = "over"
    /\ mainAt' = "done"
    /\ UNCHANGED <<db, ongoing, locked, ready, step, task>>

-----------------------------------------------------------------------------
(* The task.                                                                *)

\* A request is over, normally or by Cancelled; the next one starts to wait.
NextRequest ==
    /\ requests' = requests - 1
    /\ taskAt' = IF requests = 1 THEN "over" ELSE "wait"
    /\ phase' = 1 /\ seen' = {}

\* The loop that waits for the flag.
Wait ==
    /\ taskAt = "wait" /\ ready
    /\ taskAt' = "loop"
    /\ UNCHANGED <<db, ongoing, locked, ready, main, phase, held, left, requests, seen>>

\* The condition of processdata's loop.
Loop ==
    /\ taskAt = "loop"
    /\ IF ready
       THEN taskAt' = "enter" /\ phase' = 1 /\ UNCHANGED <<requests, seen>>
       ELSE NextRequest
    /\ UNCHANGED <<db, ongoing, locked, ready, main, held, left>>

\* "empty proxy" and "already being executed" are not Cancelled: they leave the
\* thread and std::terminate follows.
Terminate ==
    /\ taskAt' = "terminated"
    /\ UNCHANGED <<db, ongoing, locked, ready, main, phase, held, left, requests, seen>>

\* Proxy::operator-> takes the mutex and hands it to the Lockable.
Enter ==
    /\ taskAt = "enter"
    /\ ~locked
    /\ IF db = None
       THEN Terminate
       ELSE /\ locked' = TRUE
            /\ held' = db
            /\ taskAt' = "start"
            /\ UNCHANGED <<db, ongoing, ready, main, phase, left, requests, seen>>

\* The first test_and_set of exec().
Start ==
    /\ taskAt = "start"
    /\ IF ongoing[held]
       THEN Terminate
       ELSE /\ ongoing' = [ongoing EXCEPT ![held] = TRUE]
            /\ left' = Rounds
            /\ seen' = seen \cup {held}
            /\ taskAt' = "run"
            /\ UNCHANGED <<db, locked, ready, main, phase, held, requests>>

\* The loop of exec().  Faulty variant first: one iteration too many.
OneMore == left >= 0
More == left > 0

Iterate ==
    /\ taskAt = "run" /\ More /\ ongoing[held]
    /\ left' = left - 1
    /\ UNCHANGED <<db, ongoing, locked, ready, main, taskAt, phase, held, requests, seen>>

\* The end of the full expression destroys the Lockable; a faulty variant first.
KeepLocked == UNCHANGED locked
Unlock == locked' = FALSE

\* The loop finds m_ongoing cleared: it stays so, and Cancelled is thrown.
Interrupted ==
    /\ taskAt = "run" /\ More /\ ~ongoing[held]
    /\ Unlock
    /\ held' = None /\ left' = 0
    /\ NextRequest
    /\ UNCHANGED <<db, ongoing, ready, main>>

\* The loop ends: m_ongoing stays set, and a checkpoint follows.
Finish ==
    /\ taskAt = "run" /\ ~More
    /\ Unlock
    /\ held' = None
    /\ taskAt' = "checkpoint"
    /\ UNCHANGED <<db, ongoing, ready, main, phase, left, requests, seen>>

\* After each exec() the flag is read: Cancelled, the second exec(), or the next
\* chunk.
Checkpoint ==
    /\ taskAt = "checkpoint"
    /\ IF ~ready
       THEN NextRequest
       ELSE /\ taskAt' = IF phase = 1 THEN "enter" ELSE "loop"
            /\ phase' = 2
            /\ UNCHANGED <<requests, seen>>
    /\ UNCHANGED <<db, ongoing, locked, ready, main, held, left>>

-----------------------------------------------------------------------------
Use == UseInterrupt \/ UseReplace
Main == Use \/ Raise \/ Lower \/ Join
Query == Enter \/ Start \/ Iterate \/ Interrupted \/ Finish \/ Checkpoint
Task == Wait \/ Loop \/ Query
Next == Main \/ Task

Spec == Init /\ [][Next]_vars

\* A thread that can go on is scheduled again.  std::mutex promises nothing to a
\* thread that waits while another takes the mutex again and again.
Fairness == WF_vars(Task) /\ WF_vars(Use)
FairSpec == Spec /\ Fairness

-----------------------------------------------------------------------------
StateType ==
    /\ db \in Databases \cup {None}
    /\ mainAt \in {"interrupt", "replace", "raise", "sleep", "join", "done"}
    /\ step \in 1..(NDbs + 1)
    /\ taskAt \in {"unborn", "wait", "loop", "enter", "start", "run", "checkpoint",
                   "over", "terminated"}
    /\ phase \in {1, 2}
    /\ held \in Databases \cup {None}
    /\ left \in 0..Rounds
    /\ requests \in 0..Requests

FlagType ==
    /\ locked \in BOOLEAN
    /\ ready \in BOOLEAN
    /\ ongoing \in [Databases -> BOOLEAN]
    /\ seen \subseteq Databases

TypeOK == StateType /\ FlagType

\* A query is on the database of the proxy from its lock to its unlock although
\* use() reads and interrupts m_db without the mutex: use() is one step between
\* queries ("FAIL: must be under mutex, but can't be", 00-proxy-interrupt.cpp:63).
H == INSTANCE DbHandle
        WITH Clients <- {"task"}, Proxies <- {1}, Handle <- [c \in {"task"} |-> 1],
             current <- [p \in {1} |-> db],
             running <- [c \in {"task"} |-> held]
ImplementsHandle == H!Spec

\* use() returns although the mutex is not fair: the flag went down first, so the
\* task leaves the mutex alone after the query that runs (Proxy::use, main).
UseReturns == mainAt = "interrupt" ~> mainAt \notin {"interrupt", "replace"} \/ ~Running

\* The results of a chunk that ran across a switch are discarded: a request that
\* passes the last checkpoint of a chunk has queried one database ("discard
\* evaluation results of thread even in this case", 00-proxy-interrupt.cpp:98).
ResultsAreOfOneDb == taskAt = "loop" => \A d, e \in seen : d = e
=============================================================================
