-------------------------------- MODULE DbPool --------------------------------
(***************************************************************************)
(* languages/cxx/chain_proxy/12-mutex.cpp: clients send queries through    *)
(* Shared -> Proxy -> Pool -> Exclusive -> Unsafe -> MyDB while a Manager  *)
(* replaces the pool behind every proxy, interrupting what runs there.     *)
(*                                                                         *)
(* Shared, Unsafe and Lockable only forward or hold a lock, so they have   *)
(* no state of their own.  A pool is a number, given in the order of       *)
(* construction; its i-th connection (an Exclusive with its Unsafe and its *)
(* MyDB) is <<pool, i>>.                                                   *)
(***************************************************************************)
EXTENDS Integers, FiniteSets

CONSTANTS
    Clients,    \* the threads with a User
    Manager,    \* the thread with the Manager
    NProxies,   \* the Manager's proxies are 1..NProxies (2 in the code)
    Handle,     \* Handle[u]: the proxy behind client u's Shared
    Rounds,     \* iterations of exec()'s loop (20 in the code)
    NewFlags,   \* what m_ongoing of a new MyDB may hold: no initialiser
    MaxCalls,   \* bound: calls of a client
    MaxPools,   \* bound: pools made
    MaxSlots    \* bound: connections of a pool

Proxies == 1..NProxies
Pools == 1..MaxPools
Conns == Pools \X (1..MaxSlots)
Threads == Clients \cup {Manager}
None == 0     \* no pool, no thread

ASSUME ConstantsAssumption ==
    /\ Manager \notin Clients \cup {None}
    /\ None \notin Clients
    /\ NProxies \in Nat \ {0}
    /\ Handle \in [Clients -> Proxies]
    /\ Rounds \in Nat
    /\ NewFlags \subseteq BOOLEAN
    /\ MaxCalls \in Nat
    /\ MaxPools \in Nat
    /\ MaxSlots \in Nat

\* The number of threads of a program is finite.
ASSUME ClientsAssumption == IsFiniteSet(Clients)

VARIABLES
    target,      \* Proxy::m_a, the pool of each proxy
    proxyMutex,  \* Proxy::m_Mutex
    poolMutex,   \* Pool::m_Mutex
    size,        \* the length of Pool::m_as
    mutex,       \* Exclusive::m_Mutex of each connection
    prelock,     \* Exclusive::m_Lock owns that mutex
    ongoing,     \* MyDB::m_ongoing
    dead,        \* the pools that have been destroyed
    made,        \* the number of pools constructed
    pc,          \* where each thread is
    pool, slot,  \* the pool, and the index in m_as, it is working on
    left,        \* iterations left in exec()
    calls,       \* calls each client has made
    visit,       \* the proxy at which the Manager's loop is
    closing,     \* ~Manager, not activate(), runs that loop
    status       \* "terminated" by std::terminate, "undefined" after a use of
                 \* freed memory

heap == <<target, size, dead, made>>
guards == <<proxyMutex, poolMutex>>
conns == <<mutex, prelock, ongoing>>
place == <<pool, slot>>
loop == <<visit, closing>>
vars == <<heap, guards, conns, pc, place, left, calls, loop, status>>

Init ==
    /\ target = [p \in Proxies |-> None]
    /\ proxyMutex = [p \in Proxies |-> None]
    /\ poolMutex = [q \in Pools |-> None]
    /\ size = [q \in Pools |-> 0]
    /\ mutex = [c \in Conns |-> None]
    /\ prelock = [c \in Conns |-> FALSE]
    /\ ongoing = [c \in Conns |-> FALSE]
    /\ dead = {}
    /\ made = 0
    /\ pc = [t \in Threads |-> "idle"]
    /\ pool = [t \in Threads |-> None]
    /\ slot = [t \in Threads |-> 0]
    /\ left = [u \in Clients |-> 0]
    /\ calls = [u \in Clients |-> 0]
    /\ visit = 1
    /\ closing = FALSE
    /\ status = "running"

-----------------------------------------------------------------------------
\* Thread t is at a label of a program that is still running.
At(t, label) == status = "running" /\ pc[t] = label
Goto(t, label) == pc' = [pc EXCEPT ![t] = label]
\* The connection thread t works on.
Conn(t) == <<pool[t], slot[t]>>

\* The mutexes, each preceded by a faulty variant.  lock_guard of Proxy and Pool:
NoGuard(p, t) == UNCHANGED proxyMutex
Guard(p, t) == proxyMutex[p] = None /\ proxyMutex' = [proxyMutex EXCEPT ![p] = t]
GuardPool(t) ==
    /\ poolMutex[pool[t]] = None
    /\ poolMutex' = [poolMutex EXCEPT ![pool[t]] = t]
KeepGuard(t) == UNCHANGED poolMutex
UnguardPool(t) == poolMutex' = [poolMutex EXCEPT ![pool[t]] = None]
\* Exclusive::try_lock finds m_Mutex owned, or takes it and lets m_Lock own it,
NeverOwned(t) == FALSE
Owned(t) == mutex[Conn(t)] # None
TryLock(t) ==
    /\ mutex' = [mutex EXCEPT ![Conn(t)] = t]
    /\ prelock' = [prelock EXCEPT ![Conn(t)] = TRUE]
\* Exclusive::operator-> moves m_Lock out, the end of a Lockable unlocks m_Mutex.
CopyLock(t) == UNCHANGED prelock
MoveLock(t) == prelock' = [prelock EXCEPT ![Conn(t)] = FALSE]
KeepLocked(t) == UNCHANGED mutex
Unlock(t) == mutex' = [mutex EXCEPT ![Conn(t)] = None]

\* An exception that User::f does not catch, or one that leaves a destructor.
Terminate == status' = "terminated" /\ UNCHANGED <<heap, guards, conns, pc, place,
                                                   left, calls, loop>>
\* A call through a null or dangling m_a.
Undefined == status' = "undefined" /\ UNCHANGED <<heap, guards, conns, pc, place,
                                                  left, calls, loop>>

-----------------------------------------------------------------------------
(* m_db->exec() in User::f: operator-> all along the chain, then exec().    *)

BeginExec(u) ==
    /\ At(u, "idle")
    /\ calls[u] < MaxCalls
    /\ calls' = [calls EXCEPT ![u] = @ + 1]
    /\ Goto(u, "proxy")
    /\ UNCHANGED <<heap, guards, conns, place, left, loop, status>>

\* Proxy::operator-> takes its mutex and looks at m_a.
EnterProxy(u) ==
    LET p == Handle[u] IN
    /\ At(u, "proxy")
    /\ IF target[p] = None
       THEN proxyMutex[p] = None /\ Terminate
       ELSE /\ Guard(p, u)
            /\ pool' = [pool EXCEPT ![u] = target[p]]
            /\ Goto(u, "pool")
            /\ UNCHANGED <<heap, poolMutex, conns, slot, left, calls, loop, status>>

\* Pool::operator-> takes its own mutex and starts at the first connection.
EnterPool(u) ==
    /\ At(u, "pool")
    /\ IF pool[u] \in dead
       THEN Undefined
       ELSE /\ GuardPool(u)
            /\ slot' = [slot EXCEPT ![u] = 1]
            /\ Goto(u, "search")
            /\ UNCHANGED <<heap, proxyMutex, conns, pool, left, calls, loop, status>>

\* try_lock of the next connection throws if m_Lock is owned already.
TryNext(u) ==
    /\ At(u, "search")
    /\ slot[u] <= size[pool[u]]
    /\ IF prelock[Conn(u)]
       THEN Terminate
       ELSE /\ IF Owned(u)
               THEN /\ slot' = [slot EXCEPT ![u] = @ + 1]
                    /\ UNCHANGED <<mutex, prelock, pc>>
               ELSE TryLock(u) /\ Goto(u, "take") /\ UNCHANGED slot
            /\ UNCHANGED <<heap, guards, ongoing, pool, left, calls, loop, status>>

\* No connection was free: make a new one, and Exclusive::operator-> locks it.
MakeNew(u) ==
    /\ At(u, "search")
    /\ slot[u] > size[pool[u]]
    /\ size[pool[u]] < MaxSlots
    /\ size' = [size EXCEPT ![pool[u]] = @ + 1]
    /\ \E b \in NewFlags : ongoing' = [ongoing EXCEPT ![Conn(u)] = b]
    /\ TryLock(u)
    /\ Goto(u, "take")
    /\ UNCHANGED <<target, dead, made, guards, place, left, calls, loop, status>>

\* m_Lock moves into the Lockable; the guards of Pool and Proxy are released on
\* the way back.
Take(u) ==
    /\ At(u, "take")
    /\ MoveLock(u)
    /\ UnguardPool(u)
    /\ proxyMutex' = [proxyMutex EXCEPT ![Handle[u]] = None]
    /\ Goto(u, "start")
    /\ UNCHANGED <<heap, mutex, ongoing, place, left, calls, loop, status>>

\* The first test_and_set of exec().
StartExec(u) ==
    /\ At(u, "start")
    /\ IF ongoing[Conn(u)]
       THEN Terminate
       ELSE /\ ongoing' = [ongoing EXCEPT ![Conn(u)] = TRUE]
            /\ left' = [left EXCEPT ![u] = Rounds]
            /\ Goto(u, "run")
            /\ UNCHANGED <<heap, guards, mutex, prelock, place, calls, loop, status>>

\* An iteration of the loop.  Faulty variant first: one iteration too many.
OneMore(u) == left[u] >= 0
More(u) == left[u] > 0

Iterate(u) ==
    /\ At(u, "run")
    /\ More(u)
    /\ ongoing[Conn(u)]
    /\ left' = [left EXCEPT ![u] = @ - 1]
    /\ UNCHANGED <<heap, guards, conns, pc, place, calls, loop, status>>

\* exec() is over: the loop has ended, or m_ongoing was cleared and "interrupted"
\* is thrown, which User::f catches.  Either way m_ongoing stays as it is, and
\* the Lockable dies.
EndExec(u) ==
    /\ At(u, "run")
    /\ ~More(u) \/ ~ongoing[Conn(u)]
    /\ Unlock(u)
    /\ pool' = [pool EXCEPT ![u] = None]
    /\ slot' = [slot EXCEPT ![u] = 0]
    /\ left' = [left EXCEPT ![u] = 0]
    /\ Goto(u, "idle")
    /\ UNCHANGED <<heap, guards, prelock, ongoing, calls, loop, status>>

-----------------------------------------------------------------------------
(* Shared::interrupt: Proxy::interrupt reads m_a without the mutex of the   *)
(* proxy, Pool::interrupt then holds that of the pool.                      *)

BeginInterrupt(u) ==
    /\ At(u, "idle")
    /\ calls[u] < MaxCalls
    /\ IF target[Handle[u]] = None
       THEN Undefined
       ELSE /\ calls' = [calls EXCEPT ![u] = @ + 1]
            /\ pool' = [pool EXCEPT ![u] = target[Handle[u]]]
            /\ Goto(u, "interrupt")
            /\ UNCHANGED <<heap, guards, conns, slot, left, loop, status>>

LockForInterrupt(u) ==
    /\ At(u, "interrupt")
    /\ IF pool[u] \in dead
       THEN Undefined
       ELSE /\ GuardPool(u)
            /\ slot' = [slot EXCEPT ![u] = 1]
            /\ Goto(u, "interrupting")
            /\ UNCHANGED <<heap, proxyMutex, conns, pool, left, calls, loop, status>>

\* MyDB::interrupt of the next connection, whatever holds its lock.
InterruptNext(u) ==
    /\ At(u, "interrupting")
    /\ slot[u] <= size[pool[u]]
    /\ ongoing' = [ongoing EXCEPT ![Conn(u)] = FALSE]
    /\ slot' = [slot EXCEPT ![u] = @ + 1]
    /\ UNCHANGED <<heap, guards, mutex, prelock, pc, pool, left, calls, loop, status>>

EndInterrupt(u) ==
    /\ At(u, "interrupting")
    /\ slot[u] > size[pool[u]]
    /\ UnguardPool(u)
    /\ pool' = [pool EXCEPT ![u] = None]
    /\ slot' = [slot EXCEPT ![u] = 0]
    /\ Goto(u, "idle")
    /\ UNCHANGED <<heap, proxyMutex, conns, left, calls, loop, status>>

-----------------------------------------------------------------------------
(* Manager::activate and ~Manager: Proxy::use on one proxy after the other. *)

Activate ==
    /\ At(Manager, "idle")
    /\ made + NProxies <= MaxPools
    /\ Goto(Manager, "use")
    /\ visit' = 1
    /\ UNCHANGED <<heap, guards, conns, place, left, calls, closing, status>>

Close ==
    /\ At(Manager, "idle")
    /\ Goto(Manager, "use")
    /\ visit' = 1
    /\ closing' = TRUE
    /\ UNCHANGED <<heap, guards, conns, place, left, calls, status>>

NextProxy ==
    /\ Goto(Manager, IF visit < NProxies THEN "use"
                     ELSE IF closing THEN "gone" ELSE "idle")
    /\ visit' = IF visit < NProxies THEN visit + 1 ELSE 1
    /\ UNCHANGED closing

\* use() takes the mutex of the proxy and assigns m_a, which destroys the old
\* pool: its destructor clears it while the mutex is held.
Use ==
    LET old == target[visit] IN
    /\ At(Manager, "use")
    /\ target' = [target EXCEPT ![visit] = IF closing THEN None ELSE made + 1]
    /\ made' = IF closing THEN made ELSE made + 1
    /\ IF old = None
       THEN proxyMutex[visit] = None /\ NextProxy /\ UNCHANGED <<proxyMutex, pool>>
       ELSE /\ Guard(visit, Manager)
            /\ pool' = [pool EXCEPT ![Manager] = old]
            /\ Goto(Manager, "clear")
            /\ UNCHANGED loop
    /\ UNCHANGED <<size, dead, poolMutex, conns, slot, left, calls, status>>

Clear ==
    /\ At(Manager, "clear")
    /\ GuardPool(Manager)
    /\ slot' = [slot EXCEPT ![Manager] = 1]
    /\ Goto(Manager, "clearing")
    /\ UNCHANGED <<heap, proxyMutex, conns, pool, left, calls, loop, status>>

ClearInterrupts ==
    /\ At(Manager, "clearing")
    /\ slot[Manager] <= size[pool[Manager]]
    /\ ongoing' = [ongoing EXCEPT ![Conn(Manager)] = FALSE]
    /\ Goto(Manager, "sleep")
    /\ UNCHANGED <<heap, guards, mutex, prelock, place, left, calls, loop, status>>

\* 200 ms later: a query that still holds the connection makes the destructor
\* throw.  Nothing bounds how long a thread is kept from running, so what the
\* query has done by then is left open.
ClearLocks ==
    /\ At(Manager, "sleep")
    /\ IF prelock[Conn(Manager)] \/ Owned(Manager)
       THEN Terminate
       ELSE /\ TryLock(Manager)
            /\ slot' = [slot EXCEPT ![Manager] = @ + 1]
            /\ Goto(Manager, "clearing")
            /\ UNCHANGED <<heap, guards, ongoing, pool, left, calls, loop, status>>

\* m_as.clear(), then the guards of Pool and Proxy are released.
Destroy ==
    /\ At(Manager, "clearing")
    /\ slot[Manager] > size[pool[Manager]]
    /\ dead' = dead \cup {pool[Manager]}
    /\ UnguardPool(Manager)
    /\ proxyMutex' = [proxyMutex EXCEPT ![visit] = None]
    /\ pool' = [pool EXCEPT ![Manager] = None]
    /\ slot' = [slot EXCEPT ![Manager] = 0]
    /\ NextProxy
    /\ UNCHANGED <<target, size, made, conns, left, calls, status>>

-----------------------------------------------------------------------------
Query(u) ==
    \/ EnterProxy(u) \/ EnterPool(u) \/ TryNext(u) \/ MakeNew(u) \/ Take(u)
    \/ StartExec(u) \/ Iterate(u) \/ EndExec(u)
Interrupt(u) == LockForInterrupt(u) \/ InterruptNext(u) \/ EndInterrupt(u)
Switch == Use \/ Clear \/ ClearInterrupts \/ ClearLocks \/ Destroy

Next ==
    \/ \E u \in Clients :
          BeginExec(u) \/ Query(u) \/ BeginInterrupt(u) \/ Interrupt(u)
    \/ Activate \/ Close \/ Switch

Spec == Init /\ [][Next]_vars

\* Every thread inside a call is scheduled again; nobody has to start one.
Fairness ==
    /\ \A u \in Clients : WF_vars(Query(u) \/ Interrupt(u))
    /\ WF_vars(Switch)

FairSpec == Spec /\ Fairness

-----------------------------------------------------------------------------
(* Correctness, up to the end of the program or a use of freed memory.      *)

HeapType ==
    /\ target \in [Proxies -> Pools \cup {None}]
    /\ size \in [Pools -> 0..MaxSlots]
    /\ dead \subseteq Pools
    /\ made \in 0..MaxPools

LockType ==
    /\ proxyMutex \in [Proxies -> Threads \cup {None}]
    /\ poolMutex \in [Pools -> Threads \cup {None}]
    /\ mutex \in [Conns -> Threads \cup {None}]
    /\ prelock \in [Conns -> BOOLEAN]
    /\ ongoing \in [Conns -> BOOLEAN]

ClientLabels == {"idle", "proxy", "pool", "search", "take", "start", "run",
                 "interrupt", "interrupting"}
ManagerLabels == {"idle", "use", "clear", "clearing", "sleep", "gone"}

LabelType ==
    /\ pc \in [Threads -> ClientLabels \cup ManagerLabels]
    /\ \A u \in Clients : pc[u] \in ClientLabels
    /\ pc[Manager] \in ManagerLabels

ThreadType ==
    /\ pool \in [Threads -> Pools \cup {None}]
    /\ slot \in [Threads -> 0..(MaxSlots + 1)]
    /\ left \in [Clients -> 0..Rounds]
    /\ calls \in [Clients -> 0..MaxCalls]
    /\ visit \in Proxies
    /\ closing \in BOOLEAN
    /\ status \in {"running", "terminated", "undefined"}

TypeOK == HeapType /\ LockType /\ LabelType /\ ThreadType

\* A client that holds a connection, and one whose query runs on it.
Holds(u) == pc[u] \in {"take", "start", "run"}
Runs(u) == pc[u] \in {"start", "run"}

\* One query per connection: try_lock never hands the same connection to two
\* clients, whatever they, interrupts and switches interleave (Pool::operator->).
OneQueryPerConnection ==
    \A u, v \in Clients : Holds(u) /\ Holds(v) /\ Conn(u) = Conn(v) => u = v

\* From the moment it reads m_a until its query is over, a client is in a pool
\* that exists: the mutex of the proxy keeps Proxy::use out while it looks for a
\* connection, and the lock on the connection keeps Pool::clear from going on
\* while it runs (the "FAIL" of 12-mutex.cpp:138 cannot happen to a query).
NoQueryInDeadPool ==
    \A u \in Clients :
        Holds(u) \/ pc[u] \in {"pool", "search"} => pool[u] \notin dead

\* try_lock never finds m_Lock owned: "BUG: already pre-locked" is not thrown by
\* a client that searches, nor by the Manager that clears (12-mutex.cpp:106).
NeverPreLocked ==
    \A t \in Threads :
        \/ pc[t] = "search" /\ slot[t] <= size[pool[t]]
        \/ pc[t] = "sleep"
        => ~prelock[Conn(t)]

\* A pool has no more connections than its proxy has clients: although the
\* search tries them one after the other while they are being released, a new
\* one is made only when every other client holds one (Pool::operator->).
PoolIsBounded ==
    \A p \in Proxies : target[p] # None =>
        size[target[p]] <= Cardinality({u \in Clients : Handle[u] = p})

\* Queries see a switch as one step between queries: the current database of a
\* proxy is the old pool until that has been destroyed (Proxy::use).
Clearing(p) == pc[Manager] \in {"clear", "clearing", "sleep"} /\ visit = p
H == INSTANCE DbHandle
        WITH Databases <- Pools,
             current <- [p \in Proxies |->
                            IF Clearing(p) THEN pool[Manager] ELSE target[p]],
             running <- [u \in Clients |-> IF Runs(u) THEN pool[u] ELSE None]

\* No query runs on a database that is not the current one of its proxy, and
\* after a switch every query runs on the new one ("runs A until interrupted",
\* "continues with B", 12-mutex.cpp:260).
ImplementsHandle == H!Spec

\* The owner of the mutex that thread t is about to lock.
HoldsUp(t) ==
    CASE pc[t] = "proxy" -> proxyMutex[Handle[t]]
      [] pc[t] = "use" -> proxyMutex[visit]
      [] pc[t] \in {"pool", "interrupt", "clear"} -> poolMutex[pool[t]]
      [] OTHER -> None

\* Queries, interrupts and switches never wait for each other in a circle: whoever
\* waits for a mutex waits for a thread that can go on, or for one whose own wait
\* is for such a thread; the mutexes are taken in the order proxy, pool
\* (Proxy::operator->, Proxy::use, Pool::interrupt, Pool::clear).
NoCircularWait ==
    \A t \in Threads :
        \/ HoldsUp(t) = None
        \/ HoldsUp(HoldsUp(t)) = None
        \/ HoldsUp(HoldsUp(HoldsUp(t))) = None

\* Every call comes to its end: the two levels of mutexes and the connection
\* locks, taken by queries, interrupts and switches, never block each other for
\* ever (Proxy::operator->, Pool::interrupt, Pool::clear).
CallsEnd ==
    \A t \in Threads :
        pc[t] \notin {"idle", "gone"} ~>
            pc[t] \in {"idle", "gone"} \/ status # "running"

\* exec() says "BUG: already being executed" only when some other query is being
\* executed on its connection (12-mutex.cpp:28).
BusyMeansExecuting ==
    \A u \in Clients : pc[u] = "start" /\ ongoing[Conn(u)] =>
        \E v \in Clients \ {u} : pc[v] = "run" /\ Conn(v) = Conn(u)
=============================================================================
