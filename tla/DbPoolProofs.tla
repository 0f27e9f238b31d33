----------------------------- MODULE DbPoolProofs ------------------------------
(***************************************************************************)
(* Proofs about DbPool, for any number of clients, proxies, pools and      *)
(* connections.                                                            *)
(***************************************************************************)
EXTENDS DbPool, FiniteSetTheorems, TLAPS

LEMMA ThreadFacts ==
    /\ Manager \in Threads
    /\ \A u \in Clients : u \in Threads /\ u # Manager /\ u # None
    /\ Manager # None
BY ConstantsAssumption DEF Threads

LEMMA NumberFacts ==
    /\ None \notin Pools
    /\ NProxies \in Nat /\ MaxPools \in Nat /\ MaxSlots \in Nat
    /\ \A p \in Proxies : p \in Nat /\ 1 <= p /\ p <= NProxies
    /\ \A q \in Pools : q \in Nat
BY ConstantsAssumption DEF None, Pools, Proxies

LEMMA BelowFact ==
    ASSUME NEW n \in Nat, NEW i \in 1..n, i # n
    PROVE  i \in 1..(n - 1)
OBVIOUS

-----------------------------------------------------------------------------
(* Types.  A thread between the beginning and the end of its work on a pool *)
(* has one, and activate() has room for a pool per proxy still to visit.    *)

HasPool ==
    /\ \A u \in Clients : pc[u] \notin {"idle", "proxy"} => pool[u] \in Pools
    /\ pc[Manager] \in {"clear", "clearing", "sleep"} => pool[Manager] \in Pools
    /\ pc[Manager] = "sleep" => slot[Manager] <= size[pool[Manager]]
Room ==
    closing \/
        /\ pc[Manager] = "use" => made + (NProxies - visit) + 1 <= MaxPools
        /\ pc[Manager] \in {"clear", "clearing", "sleep"} =>
              made + (NProxies - visit) <= MaxPools

TypeInv == TypeOK /\ HasPool /\ Room

LEMMA TypeInit == Init => TypeInv
<1> SUFFICES ASSUME Init PROVE TypeInv
    OBVIOUS
<1> USE ConstantsAssumption, ThreadFacts DEF Init
<1>1. HeapType
    BY DEF HeapType
<1>2. LockType
    BY DEF LockType
<1>3. ThreadType
  <2>1. pool \in [Threads -> Pools \cup {None}] /\ slot \in [Threads -> 0..(MaxSlots + 1)]
    OBVIOUS
  <2>2. left \in [Clients -> 0..Rounds] /\ calls \in [Clients -> 0..MaxCalls]
    OBVIOUS
  <2>3. visit \in Proxies
    BY DEF Proxies
  <2>4. QED
    BY <2>1, <2>2, <2>3 DEF ThreadType
<1>6. LabelType
    BY DEF LabelType, ClientLabels, ManagerLabels
<1>4. HasPool /\ Room
    BY DEF HasPool, Room
<1>5. QED
    BY <1>1, <1>2, <1>3, <1>4, <1>6 DEF TypeInv, TypeOK

LEMMA HeapTypeStep == TypeInv /\ [Next]_vars => HeapType'
<1> SUFFICES ASSUME TypeInv, [Next]_vars PROVE HeapType'
    OBVIOUS
<1> USE ConstantsAssumption, ThreadFacts
    DEF TypeInv, TypeOK, HeapType, LockType, LabelType, ThreadType, HasPool, Room,
        At, Goto, heap, guards, conns, place, loop, Terminate, Undefined
<1>1. ASSUME NEW u \in Clients, BeginExec(u) PROVE HeapType'
    BY <1>1 DEF BeginExec
<1>2. ASSUME NEW u \in Clients, EnterProxy(u) PROVE HeapType'
    BY <1>2 DEF EnterProxy, Guard
<1>3. ASSUME NEW u \in Clients, EnterPool(u) PROVE HeapType'
    BY <1>3 DEF EnterPool, GuardPool
<1>4. ASSUME NEW u \in Clients, TryNext(u) PROVE HeapType'
    BY <1>4 DEF TryNext, TryLock, Owned
<1>5. ASSUME NEW u \in Clients, MakeNew(u) PROVE HeapType'
    BY <1>5 DEF MakeNew, TryLock
<1>6. ASSUME NEW u \in Clients, Take(u) PROVE HeapType'
    BY <1>6 DEF Take, MoveLock, UnguardPool
<1>7. ASSUME NEW u \in Clients, StartExec(u) PROVE HeapType'
    BY <1>7 DEF StartExec
<1>8. ASSUME NEW u \in Clients, Iterate(u) PROVE HeapType'
    BY <1>8 DEF Iterate, More
<1>9. ASSUME NEW u \in Clients, EndExec(u) PROVE HeapType'
    BY <1>9 DEF EndExec, Unlock, More
<1>10. ASSUME NEW u \in Clients, BeginInterrupt(u) PROVE HeapType'
    BY <1>10 DEF BeginInterrupt
<1>11. ASSUME NEW u \in Clients, LockForInterrupt(u) PROVE HeapType'
    BY <1>11 DEF LockForInterrupt, GuardPool
<1>12. ASSUME NEW u \in Clients, InterruptNext(u) PROVE HeapType'
    BY <1>12 DEF InterruptNext
<1>13. ASSUME NEW u \in Clients, EndInterrupt(u) PROVE HeapType'
    BY <1>13 DEF EndInterrupt, UnguardPool
<1>14. CASE Activate
    BY <1>14 DEF Activate
<1>15. CASE Close
    BY <1>15 DEF Close
<1>16. CASE Use
    BY SMTT(20), <1>16, NumberFacts DEF Use, Guard, NextProxy, LabelType, ManagerLabels, Pools, None
<1>17. CASE Clear
    BY <1>17 DEF Clear, GuardPool
<1>18. CASE ClearInterrupts
    BY <1>18 DEF ClearInterrupts
<1>19. CASE ClearLocks
    BY <1>19 DEF ClearLocks, TryLock, Owned
<1>20. CASE Destroy
    BY <1>20 DEF Destroy, UnguardPool, NextProxy
<1>21. CASE UNCHANGED vars
    BY <1>21 DEF vars
<1>22. QED
    BY <1>1, <1>2, <1>3, <1>4, <1>5, <1>6, <1>7, <1>8, <1>9, <1>10, <1>11, <1>12,
       <1>13, <1>14, <1>15, <1>16, <1>17, <1>18, <1>19, <1>20, <1>21
    DEF Next, Query, Interrupt, Switch

LEMMA LockTypeStep == TypeInv /\ [Next]_vars => LockType'
<1> SUFFICES ASSUME TypeInv, [Next]_vars PROVE LockType'
    OBVIOUS
<1> USE ConstantsAssumption, ThreadFacts
    DEF TypeInv, TypeOK, HeapType, LockType, LabelType, ThreadType,
        At, Goto, heap, guards, conns, place, loop, Terminate, Undefined
<1>1. ASSUME NEW u \in Clients, BeginExec(u) PROVE LockType'
    BY <1>1 DEF BeginExec
<1>2. ASSUME NEW u \in Clients, EnterProxy(u) PROVE LockType'
    BY <1>2 DEF EnterProxy, Guard
<1>3. ASSUME NEW u \in Clients, EnterPool(u) PROVE LockType'
    BY <1>3 DEF EnterPool, GuardPool
<1>4. ASSUME NEW u \in Clients, TryNext(u) PROVE LockType'
  <2>1. CASE prelock[Conn(u)]
    BY <1>4, <2>1 DEF TryNext
  <2>2. CASE ~prelock[Conn(u)] /\ Owned(u)
    BY <1>4, <2>2 DEF TryNext
  <2>3. CASE ~prelock[Conn(u)] /\ ~Owned(u)
    <3>1. mutex' \in [Conns -> Threads \cup {None}]
      BY <1>4, <2>3 DEF TryNext, TryLock
    <3>2. prelock' \in [Conns -> BOOLEAN]
      BY <1>4, <2>3 DEF TryNext, TryLock
    <3>3. QED
      BY <1>4, <2>3, <3>1, <3>2 DEF TryNext
  <2>4. QED
    BY <2>1, <2>2, <2>3
<1>5. ASSUME NEW u \in Clients, MakeNew(u) PROVE LockType'
    BY <1>5 DEF MakeNew, TryLock
<1>6. ASSUME NEW u \in Clients, Take(u) PROVE LockType'
    BY <1>6 DEF Take, MoveLock, UnguardPool
<1>7. ASSUME NEW u \in Clients, StartExec(u) PROVE LockType'
    BY <1>7 DEF StartExec
<1>8. ASSUME NEW u \in Clients, Iterate(u) PROVE LockType'
    BY <1>8 DEF Iterate, More
<1>9. ASSUME NEW u \in Clients, EndExec(u) PROVE LockType'
    BY <1>9 DEF EndExec, Unlock, More
<1>10. ASSUME NEW u \in Clients, BeginInterrupt(u) PROVE LockType'
    BY <1>10 DEF BeginInterrupt
<1>11. ASSUME NEW u \in Clients, LockForInterrupt(u) PROVE LockType'
    BY <1>11 DEF LockForInterrupt, GuardPool
<1>12. ASSUME NEW u \in Clients, InterruptNext(u) PROVE LockType'
    BY <1>12 DEF InterruptNext
<1>13. ASSUME NEW u \in Clients, EndInterrupt(u) PROVE LockType'
    BY <1>13 DEF EndInterrupt, UnguardPool
<1>14. CASE Activate
    BY <1>14 DEF Activate
<1>15. CASE Close
    BY <1>15 DEF Close
<1>16. CASE Use
    BY <1>16 DEF Use, Guard, NextProxy
<1>17. CASE Clear
    BY <1>17 DEF Clear, GuardPool
<1>18. CASE ClearInterrupts
    BY <1>18 DEF ClearInterrupts
<1>19. CASE ClearLocks
  <2>1. CASE prelock[Conn(Manager)] \/ Owned(Manager)
    BY <1>19, <2>1 DEF ClearLocks
  <2>2. CASE ~(prelock[Conn(Manager)] \/ Owned(Manager))
    <3>1. mutex' \in [Conns -> Threads \cup {None}]
      BY <1>19, <2>2 DEF ClearLocks, TryLock
    <3>2. prelock' \in [Conns -> BOOLEAN]
      BY <1>19, <2>2 DEF ClearLocks, TryLock
    <3>3. QED
      BY <1>19, <2>2, <3>1, <3>2 DEF ClearLocks
  <2>3. QED
    BY <2>1, <2>2
<1>20. CASE Destroy
    BY <1>20 DEF Destroy, UnguardPool, NextProxy
<1>21. CASE UNCHANGED vars
    BY <1>21 DEF vars
<1>22. QED
    BY <1>1, <1>2, <1>3, <1>4, <1>5, <1>6, <1>7, <1>8, <1>9, <1>10, <1>11, <1>12,
       <1>13, <1>14, <1>15, <1>16, <1>17, <1>18, <1>19, <1>20, <1>21
    DEF Next, Query, Interrupt, Switch

LEMMA LabelTypeStep == TypeInv /\ [Next]_vars => LabelType'
<1> SUFFICES ASSUME TypeInv, [Next]_vars PROVE LabelType'
    OBVIOUS
<1> USE ConstantsAssumption, ThreadFacts
    DEF TypeInv, TypeOK, LabelType, ClientLabels, ManagerLabels,
        At, Goto, heap, guards, conns, place, loop, Terminate, Undefined
<1>1. ASSUME NEW u \in Clients, BeginExec(u) PROVE LabelType'
    BY <1>1 DEF BeginExec
<1>2. ASSUME NEW u \in Clients, EnterProxy(u) PROVE LabelType'
    BY <1>2 DEF EnterProxy, Guard
<1>3. ASSUME NEW u \in Clients, EnterPool(u) PROVE LabelType'
    BY <1>3 DEF EnterPool, GuardPool
<1>4. ASSUME NEW u \in Clients, TryNext(u) PROVE LabelType'
    BY <1>4 DEF TryNext, TryLock, Owned
<1>5. ASSUME NEW u \in Clients, MakeNew(u) PROVE LabelType'
    BY <1>5 DEF MakeNew, TryLock
<1>6. ASSUME NEW u \in Clients, Take(u) PROVE LabelType'
    BY <1>6 DEF Take, MoveLock, UnguardPool
<1>7. ASSUME NEW u \in Clients, StartExec(u) PROVE LabelType'
    BY <1>7 DEF StartExec
<1>8. ASSUME NEW u \in Clients, Iterate(u) PROVE LabelType'
    BY <1>8 DEF Iterate, More
<1>9. ASSUME NEW u \in Clients, EndExec(u) PROVE LabelType'
    BY <1>9 DEF EndExec, Unlock, More
<1>10. ASSUME NEW u \in Clients, BeginInterrupt(u) PROVE LabelType'
    BY <1>10 DEF BeginInterrupt
<1>11. ASSUME NEW u \in Clients, LockForInterrupt(u) PROVE LabelType'
    BY <1>11 DEF LockForInterrupt, GuardPool
<1>12. ASSUME NEW u \in Clients, InterruptNext(u) PROVE LabelType'
    BY <1>12 DEF InterruptNext
<1>13. ASSUME NEW u \in Clients, EndInterrupt(u) PROVE LabelType'
    BY <1>13 DEF EndInterrupt, UnguardPool
<1>14. CASE Activate
    BY <1>14 DEF Activate
<1>15. CASE Close
    BY <1>15 DEF Close
<1>16. CASE Use
    BY <1>16 DEF Use, Guard, NextProxy
<1>17. CASE Clear
    BY <1>17 DEF Clear, GuardPool
<1>18. CASE ClearInterrupts
    BY <1>18 DEF ClearInterrupts
<1>19. CASE ClearLocks
    BY <1>19 DEF ClearLocks, TryLock, Owned
<1>20. CASE Destroy
    BY <1>20 DEF Destroy, UnguardPool, NextProxy
<1>21. CASE UNCHANGED vars
    BY <1>21 DEF vars
<1>22. QED
    BY <1>1, <1>2, <1>3, <1>4, <1>5, <1>6, <1>7, <1>8, <1>9, <1>10, <1>11, <1>12,
       <1>13, <1>14, <1>15, <1>16, <1>17, <1>18, <1>19, <1>20, <1>21
    DEF Next, Query, Interrupt, Switch

LEMMA ThreadTypeStep == TypeInv /\ [Next]_vars => ThreadType'
<1> SUFFICES ASSUME TypeInv, [Next]_vars PROVE ThreadType'
    OBVIOUS
<1> USE ConstantsAssumption, ThreadFacts
    DEF TypeInv, TypeOK, HeapType, LockType, LabelType, ThreadType, HasPool,
        At, Goto, heap, guards, conns, place, loop, Terminate, Undefined
<1>1. ASSUME NEW u \in Clients, BeginExec(u) PROVE ThreadType'
    BY <1>1 DEF BeginExec
<1>2. ASSUME NEW u \in Clients, EnterProxy(u) PROVE ThreadType'
    BY <1>2 DEF EnterProxy, Guard
<1>3. ASSUME NEW u \in Clients, EnterPool(u) PROVE ThreadType'
    BY <1>3 DEF EnterPool, GuardPool
<1>4. ASSUME NEW u \in Clients, TryNext(u) PROVE ThreadType'
    BY <1>4 DEF TryNext, TryLock, Owned
<1>5. ASSUME NEW u \in Clients, MakeNew(u) PROVE ThreadType'
    BY <1>5 DEF MakeNew, TryLock
<1>6. ASSUME NEW u \in Clients, Take(u) PROVE ThreadType'
    BY <1>6 DEF Take, MoveLock, UnguardPool
<1>7. ASSUME NEW u \in Clients, StartExec(u) PROVE ThreadType'
    BY <1>7 DEF StartExec
<1>8. ASSUME NEW u \in Clients, Iterate(u) PROVE ThreadType'
    BY <1>8 DEF Iterate, More
<1>9. ASSUME NEW u \in Clients, EndExec(u) PROVE ThreadType'
    BY <1>9 DEF EndExec, Unlock, More
<1>10. ASSUME NEW u \in Clients, BeginInterrupt(u) PROVE ThreadType'
    BY <1>10 DEF BeginInterrupt
<1>11. ASSUME NEW u \in Clients, LockForInterrupt(u) PROVE ThreadType'
    BY <1>11 DEF LockForInterrupt, GuardPool
<1>12. ASSUME NEW u \in Clients, InterruptNext(u) PROVE ThreadType'
    BY <1>12 DEF InterruptNext
<1>13. ASSUME NEW u \in Clients, EndInterrupt(u) PROVE ThreadType'
    BY <1>13 DEF EndInterrupt, UnguardPool
<1>14. CASE Activate
    BY <1>14, NumberFacts DEF Activate, Proxies
<1>15. CASE Close
    BY <1>15, NumberFacts DEF Close, Proxies
<1>16. CASE Use
  <2>1. visit' \in Proxies
    BY <1>16, NumberFacts DEF Use, NextProxy, Proxies
  <2>2. pool' \in [Threads -> Pools \cup {None}]
    BY <1>16 DEF Use
  <2>3. closing' = closing
    BY <1>16 DEF Use, NextProxy
  <2>4. QED
    BY <1>16, <2>1, <2>2, <2>3 DEF Use
<1>17. CASE Clear
    BY <1>17 DEF Clear, GuardPool
<1>18. CASE ClearInterrupts
    BY <1>18 DEF ClearInterrupts
<1>19. CASE ClearLocks
    BY <1>19, NumberFacts DEF ClearLocks, TryLock, Owned
<1>20. CASE Destroy
    BY <1>20, NumberFacts DEF Destroy, UnguardPool, NextProxy, Proxies
<1>21. CASE UNCHANGED vars
    BY <1>21 DEF vars
<1>22. QED
    BY <1>1, <1>2, <1>3, <1>4, <1>5, <1>6, <1>7, <1>8, <1>9, <1>10, <1>11, <1>12,
       <1>13, <1>14, <1>15, <1>16, <1>17, <1>18, <1>19, <1>20, <1>21
    DEF Next, Query, Interrupt, Switch

LEMMA HasPoolStep == TypeInv /\ [Next]_vars => HasPool'
<1> SUFFICES ASSUME TypeInv, [Next]_vars PROVE HasPool'
    OBVIOUS
<1> USE ConstantsAssumption, ThreadFacts
    DEF TypeInv, TypeOK, HeapType, LockType, LabelType, ThreadType,
        HasPool, ClientLabels, ManagerLabels,
        At, Goto, heap, guards, conns, place, loop, Terminate, Undefined
<1>1. ASSUME NEW u \in Clients, BeginExec(u) PROVE HasPool'
    BY <1>1 DEF BeginExec
<1>2. ASSUME NEW u \in Clients, EnterProxy(u) PROVE HasPool'
    BY <1>2 DEF EnterProxy, Guard
<1>3. ASSUME NEW u \in Clients, EnterPool(u) PROVE HasPool'
    BY <1>3 DEF EnterPool, GuardPool
<1>4. ASSUME NEW u \in Clients, TryNext(u) PROVE HasPool'
    BY <1>4 DEF TryNext, TryLock, Owned
<1>5. ASSUME NEW u \in Clients, MakeNew(u) PROVE HasPool'
    BY <1>5 DEF MakeNew, TryLock
<1>6. ASSUME NEW u \in Clients, Take(u) PROVE HasPool'
    BY <1>6 DEF Take, MoveLock, UnguardPool
<1>7. ASSUME NEW u \in Clients, StartExec(u) PROVE HasPool'
    BY <1>7 DEF StartExec
<1>8. ASSUME NEW u \in Clients, Iterate(u) PROVE HasPool'
    BY <1>8 DEF Iterate, More
<1>9. ASSUME NEW u \in Clients, EndExec(u) PROVE HasPool'
    BY <1>9 DEF EndExec, Unlock, More
<1>10. ASSUME NEW u \in Clients, BeginInterrupt(u) PROVE HasPool'
    BY <1>10 DEF BeginInterrupt
<1>11. ASSUME NEW u \in Clients, LockForInterrupt(u) PROVE HasPool'
    BY <1>11 DEF LockForInterrupt, GuardPool
<1>12. ASSUME NEW u \in Clients, InterruptNext(u) PROVE HasPool'
    BY <1>12 DEF InterruptNext
<1>13. ASSUME NEW u \in Clients, EndInterrupt(u) PROVE HasPool'
    BY <1>13 DEF EndInterrupt, UnguardPool
<1>14. CASE Activate
    BY <1>14 DEF Activate
<1>15. CASE Close
    BY <1>15 DEF Close
<1>16. CASE Use
    BY <1>16 DEF Use, Guard, NextProxy
<1>17. CASE Clear
    BY <1>17 DEF Clear, GuardPool
<1>18. CASE ClearInterrupts
    BY <1>18 DEF ClearInterrupts
<1>19. CASE ClearLocks
    BY <1>19 DEF ClearLocks, TryLock, Owned
<1>20. CASE Destroy
    BY <1>20 DEF Destroy, UnguardPool, NextProxy
<1>21. CASE UNCHANGED vars
    BY <1>21 DEF vars
<1>22. QED
    BY <1>1, <1>2, <1>3, <1>4, <1>5, <1>6, <1>7, <1>8, <1>9, <1>10, <1>11, <1>12,
       <1>13, <1>14, <1>15, <1>16, <1>17, <1>18, <1>19, <1>20, <1>21
    DEF Next, Query, Interrupt, Switch

LEMMA RoomStep == TypeInv /\ [Next]_vars => Room'
<1> SUFFICES ASSUME TypeInv, [Next]_vars PROVE Room'
    OBVIOUS
<1> USE ConstantsAssumption, ThreadFacts, NumberFacts
    DEF TypeInv, TypeOK, HeapType, LockType, LabelType, ThreadType,
        Room, ManagerLabels,
        At, Goto, heap, guards, conns, place, loop, Terminate, Undefined
<1>1. ASSUME NEW u \in Clients, BeginExec(u) PROVE Room'
    BY <1>1 DEF BeginExec
<1>2. ASSUME NEW u \in Clients, EnterProxy(u) PROVE Room'
    BY <1>2 DEF EnterProxy, Guard
<1>3. ASSUME NEW u \in Clients, EnterPool(u) PROVE Room'
    BY <1>3 DEF EnterPool, GuardPool
<1>4. ASSUME NEW u \in Clients, TryNext(u) PROVE Room'
    BY <1>4 DEF TryNext, TryLock, Owned
<1>5. ASSUME NEW u \in Clients, MakeNew(u) PROVE Room'
    BY <1>5 DEF MakeNew, TryLock
<1>6. ASSUME NEW u \in Clients, Take(u) PROVE Room'
    BY <1>6 DEF Take, MoveLock, UnguardPool
<1>7. ASSUME NEW u \in Clients, StartExec(u) PROVE Room'
    BY <1>7 DEF StartExec
<1>8. ASSUME NEW u \in Clients, Iterate(u) PROVE Room'
    BY <1>8 DEF Iterate, More
<1>9. ASSUME NEW u \in Clients, EndExec(u) PROVE Room'
    BY <1>9 DEF EndExec, Unlock, More
<1>10. ASSUME NEW u \in Clients, BeginInterrupt(u) PROVE Room'
    BY <1>10 DEF BeginInterrupt
<1>11. ASSUME NEW u \in Clients, LockForInterrupt(u) PROVE Room'
    BY <1>11 DEF LockForInterrupt, GuardPool
<1>12. ASSUME NEW u \in Clients, InterruptNext(u) PROVE Room'
    BY <1>12 DEF InterruptNext
<1>13. ASSUME NEW u \in Clients, EndInterrupt(u) PROVE Room'
    BY <1>13 DEF EndInterrupt, UnguardPool
<1>14. CASE Activate
    BY <1>14 DEF Activate
<1>15. CASE Close
    BY <1>15 DEF Close
<1>16. CASE Use
    BY <1>16 DEF Use, Guard, NextProxy
<1>17. CASE Clear
    BY <1>17 DEF Clear, GuardPool
<1>18. CASE ClearInterrupts
    BY <1>18 DEF ClearInterrupts
<1>19. CASE ClearLocks
    BY <1>19 DEF ClearLocks, TryLock, Owned
<1>20. CASE Destroy
    BY <1>20 DEF Destroy, UnguardPool, NextProxy
<1>21. CASE UNCHANGED vars
    BY <1>21 DEF vars
<1>22. QED
    BY <1>1, <1>2, <1>3, <1>4, <1>5, <1>6, <1>7, <1>8, <1>9, <1>10, <1>11, <1>12,
       <1>13, <1>14, <1>15, <1>16, <1>17, <1>18, <1>19, <1>20, <1>21
    DEF Next, Query, Interrupt, Switch

LEMMA TypeStep == TypeInv /\ [Next]_vars => TypeInv'
BY HeapTypeStep, LockTypeStep, LabelTypeStep, ThreadTypeStep, HasPoolStep, RoomStep
   DEF TypeInv, TypeOK

\* Every variable keeps its type, however many clients query and interrupt through
\* however many proxies.
THEOREM TypeCorrect == Spec => []TypeOK
<1>1. TypeInv => TypeOK
    BY DEF TypeInv
<1>2. QED
    BY TypeInit, TypeStep, <1>1, PTL DEF Spec

-----------------------------------------------------------------------------
(* The inductive invariant. *)

\* Who is between a lock_guard and its end holds the mutex, and a client between
\* those of the proxy works on the pool that is the proxy's.
GuardInv ==
    /\ \A u \in Clients :
          pc[u] \in {"pool", "search", "take"} =>
              proxyMutex[Handle[u]] = u /\ pool[u] = target[Handle[u]]
    /\ \A u \in Clients :
          pc[u] \in {"search", "take", "interrupting"} => poolMutex[pool[u]] = u
    /\ pc[Manager] \in {"clear", "clearing", "sleep"} => proxyMutex[visit] = Manager
    /\ pc[Manager] \in {"clearing", "sleep"} => poolMutex[pool[Manager]] = Manager

\* Every proxy has a pool of its own that has not been destroyed, and the pool the
\* Manager destroys is older than all of them and belongs to none.
TargetInv ==
    /\ \A q \in dead : q <= made
    /\ \A p \in Proxies :
          target[p] # None => target[p] \notin dead /\ target[p] <= made
    /\ \A p, r \in Proxies : target[p] # None /\ target[p] = target[r] => p = r
    /\ pc[Manager] \in {"clear", "clearing", "sleep"} =>
          /\ pool[Manager] \notin dead
          /\ pool[Manager] <= made
          /\ \A p \in Proxies : target[p] # pool[Manager]
          /\ target[visit] # None => pool[Manager] < target[visit]

\* A client owns the connection it holds, the Manager those it has passed.
ClientHolds ==
    \A u \in Clients : Holds(u) =>
        /\ slot[u] \in 1..size[pool[u]]
        /\ mutex[Conn(u)] = u
ClientSearches ==
    \A u \in Clients : pc[u] = "search" => slot[u] \in 1..(size[pool[u]] + 1)
ManagerHolds ==
    pc[Manager] \in {"clearing", "sleep"} =>
        /\ slot[Manager] \in 1..(size[pool[Manager]] + 1)
        /\ \A i \in 1..(slot[Manager] - 1) : mutex[<<pool[Manager], i>>] = Manager
HoldInv == ClientHolds /\ ClientSearches /\ ManagerHolds

\* A query runs on the pool of its proxy, or on the one being cleared for it.
Current(p) == IF Clearing(p) THEN pool[Manager] ELSE target[p]
RunInv == \A u \in Clients : Runs(u) => pool[u] = Current(Handle[u])

\* m_Lock is owned between a try_lock and the move out of it, and by the Manager.
PrelockInv ==
    \A q \in Pools, i \in 1..MaxSlots : prelock[<<q, i>>] =>
        \/ q \in dead
        \/ \E u \in Clients : pc[u] = "take" /\ Conn(u) = <<q, i>>
        \/ /\ pc[Manager] \in {"clearing", "sleep"}
           /\ pool[Manager] = q
           /\ i < slot[Manager]

IInv == TypeInv /\ GuardInv /\ TargetInv /\ HoldInv /\ RunInv /\ PrelockInv

LEMMA LockFacts ==
    ASSUME LockType, NEW t \in Threads, Conn(t) \in Conns, TryLock(t)
    PROVE  \A c \in Conns : mutex'[c] = IF c = Conn(t) THEN t ELSE mutex[c]
BY DEF LockType, TryLock

LEMMA GuardStep == IInv /\ [Next]_vars => GuardInv'
<1> SUFFICES ASSUME IInv, [Next]_vars PROVE GuardInv'
    OBVIOUS
<1> USE ConstantsAssumption, ThreadFacts, NumberFacts
    DEF IInv, TypeInv, TypeOK, HeapType, LockType, ThreadType,
        LabelType, ClientLabels, ManagerLabels, HasPool, GuardInv,
        At, Goto, heap, guards, conns, place, loop, Terminate, Undefined
<1>1. ASSUME NEW u \in Clients, BeginExec(u) PROVE GuardInv'
    BY <1>1 DEF BeginExec
<1>2. ASSUME NEW u \in Clients, EnterProxy(u) PROVE GuardInv'
    BY <1>2 DEF EnterProxy, Guard
<1>3. ASSUME NEW u \in Clients, EnterPool(u) PROVE GuardInv'
    BY <1>3 DEF EnterPool, GuardPool
<1>4. ASSUME NEW u \in Clients, TryNext(u) PROVE GuardInv'
    BY <1>4 DEF TryNext, TryLock, Owned
<1>5. ASSUME NEW u \in Clients, MakeNew(u) PROVE GuardInv'
    BY <1>5 DEF MakeNew, TryLock
<1>6. ASSUME NEW u \in Clients, Take(u) PROVE GuardInv'
    BY <1>6 DEF Take, MoveLock, UnguardPool
<1>7. ASSUME NEW u \in Clients, StartExec(u) PROVE GuardInv'
    BY <1>7 DEF StartExec
<1>8. ASSUME NEW u \in Clients, Iterate(u) PROVE GuardInv'
    BY <1>8 DEF Iterate, More
<1>9. ASSUME NEW u \in Clients, EndExec(u) PROVE GuardInv'
    BY <1>9 DEF EndExec, Unlock, More
<1>10. ASSUME NEW u \in Clients, BeginInterrupt(u) PROVE GuardInv'
    BY <1>10 DEF BeginInterrupt
<1>11. ASSUME NEW u \in Clients, LockForInterrupt(u) PROVE GuardInv'
    BY <1>11 DEF LockForInterrupt, GuardPool
<1>12. ASSUME NEW u \in Clients, InterruptNext(u) PROVE GuardInv'
    BY <1>12 DEF InterruptNext
<1>13. ASSUME NEW u \in Clients, EndInterrupt(u) PROVE GuardInv'
    BY <1>13 DEF EndInterrupt, UnguardPool
<1>14. CASE Activate
    BY <1>14 DEF Activate
<1>15. CASE Close
    BY <1>15 DEF Close
<1>16. CASE Use
    BY <1>16 DEF Use, Guard, NextProxy
<1>17. CASE Clear
    BY <1>17 DEF Clear, GuardPool
<1>18. CASE ClearInterrupts
    BY <1>18 DEF ClearInterrupts
<1>19. CASE ClearLocks
    BY <1>19 DEF ClearLocks, TryLock, Owned
<1>20. CASE Destroy
    BY <1>20 DEF Destroy, UnguardPool, NextProxy
<1>21. CASE UNCHANGED vars
    BY <1>21 DEF vars
<1>22. QED
    BY <1>1, <1>2, <1>3, <1>4, <1>5, <1>6, <1>7, <1>8, <1>9, <1>10, <1>11, <1>12,
       <1>13, <1>14, <1>15, <1>16, <1>17, <1>18, <1>19, <1>20, <1>21
    DEF Next, Query, Interrupt, Switch

LEMMA TargetStep == IInv /\ [Next]_vars => TargetInv'
<1> SUFFICES ASSUME IInv, [Next]_vars PROVE TargetInv'
    OBVIOUS
<1> USE ConstantsAssumption, ThreadFacts, NumberFacts
    DEF IInv, TypeInv, TypeOK, HeapType, LockType, ThreadType,
        LabelType, ClientLabels, ManagerLabels, HasPool, TargetInv,
        At, Goto, heap, guards, conns, place, loop, Terminate, Undefined
<1>1. ASSUME NEW u \in Clients, BeginExec(u) PROVE TargetInv'
    BY <1>1 DEF BeginExec
<1>2. ASSUME NEW u \in Clients, EnterProxy(u) PROVE TargetInv'
    BY <1>2 DEF EnterProxy, Guard
<1>3. ASSUME NEW u \in Clients, EnterPool(u) PROVE TargetInv'
    BY <1>3 DEF EnterPool, GuardPool
<1>4. ASSUME NEW u \in Clients, TryNext(u) PROVE TargetInv'
    BY <1>4 DEF TryNext, TryLock, Owned
<1>5. ASSUME NEW u \in Clients, MakeNew(u) PROVE TargetInv'
    BY <1>5 DEF MakeNew, TryLock
<1>6. ASSUME NEW u \in Clients, Take(u) PROVE TargetInv'
    BY <1>6 DEF Take, MoveLock, UnguardPool
<1>7. ASSUME NEW u \in Clients, StartExec(u) PROVE TargetInv'
    BY <1>7 DEF StartExec
<1>8. ASSUME NEW u \in Clients, Iterate(u) PROVE TargetInv'
    BY <1>8 DEF Iterate, More
<1>9. ASSUME NEW u \in Clients, EndExec(u) PROVE TargetInv'
    BY <1>9 DEF EndExec, Unlock, More
<1>10. ASSUME NEW u \in Clients, BeginInterrupt(u) PROVE TargetInv'
    BY <1>10 DEF BeginInterrupt
<1>11. ASSUME NEW u \in Clients, LockForInterrupt(u) PROVE TargetInv'
    BY <1>11 DEF LockForInterrupt, GuardPool
<1>12. ASSUME NEW u \in Clients, InterruptNext(u) PROVE TargetInv'
    BY <1>12 DEF InterruptNext
<1>13. ASSUME NEW u \in Clients, EndInterrupt(u) PROVE TargetInv'
    BY <1>13 DEF EndInterrupt, UnguardPool
<1>14. CASE Activate
    BY <1>14 DEF Activate
<1>15. CASE Close
    BY <1>15 DEF Close
<1>16. CASE Use
    BY <1>16 DEF Use, Guard, NextProxy
<1>17. CASE Clear
    BY <1>17 DEF Clear, GuardPool
<1>18. CASE ClearInterrupts
    BY <1>18 DEF ClearInterrupts
<1>19. CASE ClearLocks
    BY <1>19 DEF ClearLocks, TryLock, Owned
<1>20. CASE Destroy
    BY <1>20 DEF Destroy, UnguardPool, NextProxy
<1>21. CASE UNCHANGED vars
    BY <1>21 DEF vars
<1>22. QED
    BY <1>1, <1>2, <1>3, <1>4, <1>5, <1>6, <1>7, <1>8, <1>9, <1>10, <1>11, <1>12,
       <1>13, <1>14, <1>15, <1>16, <1>17, <1>18, <1>19, <1>20, <1>21
    DEF Next, Query, Interrupt, Switch

LEMMA ClientHoldsStep == IInv /\ [Next]_vars => ClientHolds'
<1> SUFFICES ASSUME IInv, [Next]_vars PROVE ClientHolds'
    OBVIOUS
<1> USE ConstantsAssumption, ThreadFacts, NumberFacts
    DEF IInv, TypeInv, TypeOK, HeapType, LockType, ThreadType,
        LabelType, ClientLabels, ManagerLabels, HasPool,
        GuardInv, HoldInv, ClientHolds, ClientSearches, Holds, Conn, Conns,
        At, Goto, heap, guards, conns, place, loop, Terminate, Undefined
<1>1. ASSUME NEW u \in Clients, BeginExec(u) PROVE ClientHolds'
    BY <1>1 DEF BeginExec
<1>2. ASSUME NEW u \in Clients, EnterProxy(u) PROVE ClientHolds'
    BY <1>2 DEF EnterProxy, Guard
<1>3. ASSUME NEW u \in Clients, EnterPool(u) PROVE ClientHolds'
    BY <1>3 DEF EnterPool, GuardPool
<1>4. ASSUME NEW u \in Clients, TryNext(u) PROVE ClientHolds'
  <2>1. CASE prelock[Conn(u)]
    BY <1>4, <2>1 DEF TryNext
  <2>2. CASE ~prelock[Conn(u)] /\ Owned(u)
    BY <1>4, <2>2 DEF TryNext
  <2>3. CASE ~prelock[Conn(u)] /\ ~Owned(u)
    <3>1. Conn(u) \in Conns
      BY SMTT(20), <1>4, <2>3 DEF TryNext
    <3>2. mutex[Conn(u)] = None
      BY <1>4, <2>3 DEF TryNext, Owned
    <3>3. \A c \in Conns : mutex'[c] = IF c = Conn(u) THEN u ELSE mutex[c]
      <4>1. TryLock(u)
        BY <1>4, <2>3 DEF TryNext
      <4>2. QED
        BY <3>1, <4>1, LockFacts
    <3>4. UNCHANGED <<size, pool>>
      BY <1>4, <2>3 DEF TryNext
    <3>5. \A w \in Clients : Holds(w) =>
             w # u /\ Conn(w) \in Conns /\ Conn(w) # Conn(u) /\ Conn(w)' = Conn(w)
      BY <1>4, <2>3, <3>2 DEF TryNext
    <3>6. \A w \in Clients : Holds(w)' => Holds(w) \/ w = u
      BY <1>4, <2>3 DEF TryNext
    <3>7. Conn(u)' = Conn(u) /\ slot'[u] \in 1..size[pool[u]]
      BY <1>4, <2>3 DEF TryNext
    <3>8. \A w \in Clients : Holds(w)' => mutex'[Conn(w)'] = w
      <4>1. SUFFICES ASSUME NEW w \in Clients, Holds(w)' PROVE mutex'[Conn(w)'] = w
        OBVIOUS
      <4>2. CASE w = u
        BY <3>1, <3>3, <3>7, <4>2
      <4>3. CASE w # u
        <5>1. Holds(w) /\ mutex[Conn(w)] = w
          BY <3>6, <4>1, <4>3
        <5>2. QED
          BY <3>3, <3>5, <5>1
      <4>4. QED
        BY <4>2, <4>3
    <3>9. \A w \in Clients : Holds(w)' => slot'[w] \in 1..size'[pool'[w]]
      BY <1>4, <2>3, <3>4, <3>6, <3>7 DEF TryNext
    <3>10. QED
      BY <3>8, <3>9
  <2>4. QED
    BY <2>1, <2>2, <2>3
<1>5. ASSUME NEW u \in Clients, MakeNew(u) PROVE ClientHolds'
    BY <1>5 DEF MakeNew, TryLock
<1>6. ASSUME NEW u \in Clients, Take(u) PROVE ClientHolds'
    BY <1>6 DEF Take, MoveLock, UnguardPool
<1>7. ASSUME NEW u \in Clients, StartExec(u) PROVE ClientHolds'
    BY <1>7 DEF StartExec
<1>8. ASSUME NEW u \in Clients, Iterate(u) PROVE ClientHolds'
    BY <1>8 DEF Iterate, More
<1>9. ASSUME NEW u \in Clients, EndExec(u) PROVE ClientHolds'
    BY <1>9 DEF EndExec, Unlock, More
<1>10. ASSUME NEW u \in Clients, BeginInterrupt(u) PROVE ClientHolds'
    BY <1>10 DEF BeginInterrupt
<1>11. ASSUME NEW u \in Clients, LockForInterrupt(u) PROVE ClientHolds'
    BY <1>11 DEF LockForInterrupt, GuardPool
<1>12. ASSUME NEW u \in Clients, InterruptNext(u) PROVE ClientHolds'
    BY <1>12 DEF InterruptNext
<1>13. ASSUME NEW u \in Clients, EndInterrupt(u) PROVE ClientHolds'
    BY <1>13 DEF EndInterrupt, UnguardPool
<1>14. CASE Activate
    BY <1>14 DEF Activate
<1>15. CASE Close
    BY <1>15 DEF Close
<1>16. CASE Use
    BY <1>16 DEF Use, Guard, NextProxy
<1>17. CASE Clear
    BY <1>17 DEF Clear, GuardPool
<1>18. CASE ClearInterrupts
    BY <1>18 DEF ClearInterrupts
<1>19. CASE ClearLocks
  <2>1. CASE prelock[Conn(Manager)] \/ Owned(Manager)
    BY <1>19, <2>1 DEF ClearLocks
  <2>2. CASE ~(prelock[Conn(Manager)] \/ Owned(Manager))
    BY SMTT(20), <1>19, <2>2 DEF ClearLocks, TryLock, Owned
  <2>3. QED
    BY <2>1, <2>2
<1>20. CASE Destroy
    BY <1>20 DEF Destroy, UnguardPool, NextProxy
<1>21. CASE UNCHANGED vars
    BY <1>21 DEF vars
<1>22. QED
    BY <1>1, <1>2, <1>3, <1>4, <1>5, <1>6, <1>7, <1>8, <1>9, <1>10, <1>11, <1>12,
       <1>13, <1>14, <1>15, <1>16, <1>17, <1>18, <1>19, <1>20, <1>21
    DEF Next, Query, Interrupt, Switch

LEMMA ClientSearchesStep == IInv /\ [Next]_vars => ClientSearches'
<1> SUFFICES ASSUME IInv, [Next]_vars PROVE ClientSearches'
    OBVIOUS
<1> USE ConstantsAssumption, ThreadFacts, NumberFacts
    DEF IInv, TypeInv, TypeOK, HeapType, LockType, ThreadType,
        LabelType, ClientLabels, ManagerLabels, HasPool,
        GuardInv, HoldInv, ClientSearches,
        At, Goto, heap, guards, conns, place, loop, Terminate, Undefined
<1>1. ASSUME NEW u \in Clients, BeginExec(u) PROVE ClientSearches'
    BY <1>1 DEF BeginExec
<1>2. ASSUME NEW u \in Clients, EnterProxy(u) PROVE ClientSearches'
    BY <1>2 DEF EnterProxy, Guard
<1>3. ASSUME NEW u \in Clients, EnterPool(u) PROVE ClientSearches'
    BY <1>3 DEF EnterPool, GuardPool
<1>4. ASSUME NEW u \in Clients, TryNext(u) PROVE ClientSearches'
    BY <1>4 DEF TryNext, TryLock, Owned
<1>5. ASSUME NEW u \in Clients, MakeNew(u) PROVE ClientSearches'
    BY <1>5 DEF MakeNew, TryLock
<1>6. ASSUME NEW u \in Clients, Take(u) PROVE ClientSearches'
    BY <1>6 DEF Take, MoveLock, UnguardPool
<1>7. ASSUME NEW u \in Clients, StartExec(u) PROVE ClientSearches'
    BY <1>7 DEF StartExec
<1>8. ASSUME NEW u \in Clients, Iterate(u) PROVE ClientSearches'
    BY <1>8 DEF Iterate, More
<1>9. ASSUME NEW u \in Clients, EndExec(u) PROVE ClientSearches'
    BY <1>9 DEF EndExec, Unlock, More
<1>10. ASSUME NEW u \in Clients, BeginInterrupt(u) PROVE ClientSearches'
    BY <1>10 DEF BeginInterrupt
<1>11. ASSUME NEW u \in Clients, LockForInterrupt(u) PROVE ClientSearches'
    BY <1>11 DEF LockForInterrupt, GuardPool
<1>12. ASSUME NEW u \in Clients, InterruptNext(u) PROVE ClientSearches'
    BY <1>12 DEF InterruptNext
<1>13. ASSUME NEW u \in Clients, EndInterrupt(u) PROVE ClientSearches'
    BY <1>13 DEF EndInterrupt, UnguardPool
<1>14. CASE Activate
    BY <1>14 DEF Activate
<1>15. CASE Close
    BY <1>15 DEF Close
<1>16. CASE Use
    BY <1>16 DEF Use, Guard, NextProxy
<1>17. CASE Clear
    BY <1>17 DEF Clear, GuardPool
<1>18. CASE ClearInterrupts
    BY <1>18 DEF ClearInterrupts
<1>19. CASE ClearLocks
    BY <1>19 DEF ClearLocks, TryLock, Owned
<1>20. CASE Destroy
    BY <1>20 DEF Destroy, UnguardPool, NextProxy
<1>21. CASE UNCHANGED vars
    BY <1>21 DEF vars
<1>22. QED
    BY <1>1, <1>2, <1>3, <1>4, <1>5, <1>6, <1>7, <1>8, <1>9, <1>10, <1>11, <1>12,
       <1>13, <1>14, <1>15, <1>16, <1>17, <1>18, <1>19, <1>20, <1>21
    DEF Next, Query, Interrupt, Switch

LEMMA ManagerHoldsStep == IInv /\ [Next]_vars => ManagerHolds'
<1> SUFFICES ASSUME IInv, [Next]_vars PROVE ManagerHolds'
    OBVIOUS
<1> USE ConstantsAssumption, ThreadFacts, NumberFacts
    DEF IInv, TypeInv, TypeOK, HeapType, LockType, ThreadType,
        LabelType, ClientLabels, ManagerLabels, HasPool,
        GuardInv, HoldInv, ClientHolds, ManagerHolds, ClientSearches, Holds, Conn, Conns,
        At, Goto, heap, guards, conns, place, loop, Terminate, Undefined
<1>1. ASSUME NEW u \in Clients, BeginExec(u) PROVE ManagerHolds'
    BY <1>1 DEF BeginExec
<1>2. ASSUME NEW u \in Clients, EnterProxy(u) PROVE ManagerHolds'
    BY <1>2 DEF EnterProxy, Guard
<1>3. ASSUME NEW u \in Clients, EnterPool(u) PROVE ManagerHolds'
    BY <1>3 DEF EnterPool, GuardPool
<1>4. ASSUME NEW u \in Clients, TryNext(u) PROVE ManagerHolds'
  <2>1. CASE prelock[Conn(u)]
    BY <1>4, <2>1 DEF TryNext
  <2>2. CASE ~prelock[Conn(u)] /\ Owned(u)
    BY <1>4, <2>2 DEF TryNext
  <2>3. CASE ~prelock[Conn(u)] /\ ~Owned(u)
    <3>1. Conn(u) \in Conns
      BY SMTT(20), <1>4, <2>3 DEF TryNext
    <3>2. mutex[Conn(u)] = None
      BY <1>4, <2>3 DEF TryNext, Owned
    <3>3. \A c \in Conns : mutex'[c] = IF c = Conn(u) THEN u ELSE mutex[c]
      <4>1. TryLock(u)
        BY <1>4, <2>3 DEF TryNext
      <4>2. QED
        BY <3>1, <4>1, LockFacts
    <3>4. UNCHANGED <<size, pool>>
      BY <1>4, <2>3 DEF TryNext
    <3>5. ASSUME pc[Manager] \in {"clearing", "sleep"}, NEW i \in 1..(slot[Manager] - 1)
          PROVE  mutex'[<<pool[Manager], i>>] = Manager
      <4>1. <<pool[Manager], i>> \in Conns /\ mutex[<<pool[Manager], i>>] = Manager
        BY <3>5
      <4>2. QED
        BY <3>2, <3>3, <4>1
    <3>6. pc'[Manager] = pc[Manager] /\ slot'[Manager] = slot[Manager]
      BY <1>4, <2>3 DEF TryNext
    <3>7. QED
      BY <3>4, <3>5, <3>6
  <2>4. QED
    BY <2>1, <2>2, <2>3
<1>5. ASSUME NEW u \in Clients, MakeNew(u) PROVE ManagerHolds'
    BY <1>5 DEF MakeNew, TryLock
<1>6. ASSUME NEW u \in Clients, Take(u) PROVE ManagerHolds'
    BY <1>6 DEF Take, MoveLock, UnguardPool
<1>7. ASSUME NEW u \in Clients, StartExec(u) PROVE ManagerHolds'
    BY <1>7 DEF StartExec
<1>8. ASSUME NEW u \in Clients, Iterate(u) PROVE ManagerHolds'
    BY <1>8 DEF Iterate, More
<1>9. ASSUME NEW u \in Clients, EndExec(u) PROVE ManagerHolds'
    BY <1>9 DEF EndExec, Unlock, More
<1>10. ASSUME NEW u \in Clients, BeginInterrupt(u) PROVE ManagerHolds'
    BY <1>10 DEF BeginInterrupt
<1>11. ASSUME NEW u \in Clients, LockForInterrupt(u) PROVE ManagerHolds'
    BY <1>11 DEF LockForInterrupt, GuardPool
<1>12. ASSUME NEW u \in Clients, InterruptNext(u) PROVE ManagerHolds'
    BY <1>12 DEF InterruptNext
<1>13. ASSUME NEW u \in Clients, EndInterrupt(u) PROVE ManagerHolds'
    BY <1>13 DEF EndInterrupt, UnguardPool
<1>14. CASE Activate
    BY <1>14 DEF Activate
<1>15. CASE Close
    BY <1>15 DEF Close
<1>16. CASE Use
    BY <1>16 DEF Use, Guard, NextProxy
<1>17. CASE Clear
    BY <1>17 DEF Clear, GuardPool
<1>18. CASE ClearInterrupts
    BY <1>18 DEF ClearInterrupts
<1>19. CASE ClearLocks
  <2>1. CASE prelock[Conn(Manager)] \/ Owned(Manager)
    BY <1>19, <2>1 DEF ClearLocks
  <2>2. CASE ~(prelock[Conn(Manager)] \/ Owned(Manager))
    <3>1. Conn(Manager) \in Conns
      BY <1>19, <2>2 DEF ClearLocks
    <3>2. mutex[Conn(Manager)] = None
      BY <1>19, <2>2 DEF ClearLocks, Owned
    <3>3. \A c \in Conns : mutex'[c] = IF c = Conn(Manager) THEN Manager ELSE mutex[c]
      <4>1. TryLock(Manager)
        BY <1>19, <2>2 DEF ClearLocks
      <4>2. QED
        BY <3>1, <4>1, LockFacts
    <3>4. UNCHANGED <<size, pool>>
      BY <1>19, <2>2 DEF ClearLocks
    <3>5. ASSUME NEW i \in 1..slot[Manager]
          PROVE  mutex'[<<pool[Manager], i>>] = Manager
      <4>1. <<pool[Manager], i>> \in Conns
        BY <1>19, <3>5 DEF ClearLocks
      <4>2. CASE i = slot[Manager]
        BY <3>3, <4>1, <4>2
      <4>3. CASE i # slot[Manager]
        <5>1. mutex[<<pool[Manager], i>>] = Manager
          <6>1. pc[Manager] = "sleep"
            BY <1>19 DEF ClearLocks
          <6>2. slot[Manager] \in Nat
            OBVIOUS
          <6>3. i \in 1..(slot[Manager] - 1)
            BY <3>5, <4>3, <6>2, BelowFact
          <6>4. QED
            BY <6>1, <6>3
        <5>2. QED
          BY <3>3, <4>1, <5>1
      <4>4. QED
        BY <4>2, <4>3
    <3>6. slot'[Manager] = slot[Manager] + 1 /\ slot[Manager] \in 1..size[pool[Manager]]
      BY <1>19, <2>2 DEF ClearLocks
    <3>7. slot'[Manager] - 1 = slot[Manager]
      BY <3>6
    <3>8. QED
      <4>1. slot'[Manager] \in 1..(size'[pool'[Manager]] + 1)
        <5>1. pc[Manager] = "sleep" /\ pool[Manager] \in Pools
          BY <1>19 DEF ClearLocks
        <5>2. size[pool[Manager]] \in Nat
          BY <5>1
        <5>3. QED
          BY <3>4, <3>6, <5>2
      <4>2. QED
        BY <3>4, <3>5, <3>7, <4>1
  <2>3. QED
    BY <2>1, <2>2
<1>20. CASE Destroy
    BY <1>20 DEF Destroy, UnguardPool, NextProxy
<1>21. CASE UNCHANGED vars
    BY <1>21 DEF vars
<1>22. QED
    BY <1>1, <1>2, <1>3, <1>4, <1>5, <1>6, <1>7, <1>8, <1>9, <1>10, <1>11, <1>12,
       <1>13, <1>14, <1>15, <1>16, <1>17, <1>18, <1>19, <1>20, <1>21
    DEF Next, Query, Interrupt, Switch

LEMMA RunStep == IInv /\ [Next]_vars => RunInv'
<1> SUFFICES ASSUME IInv, [Next]_vars PROVE RunInv'
    OBVIOUS
<1> USE ConstantsAssumption, ThreadFacts, NumberFacts
    DEF IInv, TypeInv, TypeOK, HeapType, LockType, ThreadType,
        LabelType, ClientLabels, ManagerLabels, HasPool, GuardInv, RunInv, HoldInv,
        ClientHolds, ManagerHolds, Runs, Current, Clearing,
        At, Goto, heap, guards, conns, place, loop, Terminate, Undefined
<1>1. ASSUME NEW u \in Clients, BeginExec(u) PROVE RunInv'
    BY <1>1 DEF BeginExec
<1>2. ASSUME NEW u \in Clients, EnterProxy(u) PROVE RunInv'
    BY <1>2 DEF EnterProxy, Guard
<1>3. ASSUME NEW u \in Clients, EnterPool(u) PROVE RunInv'
    BY <1>3 DEF EnterPool, GuardPool
<1>4. ASSUME NEW u \in Clients, TryNext(u) PROVE RunInv'
    BY <1>4 DEF TryNext, TryLock, Owned
<1>5. ASSUME NEW u \in Clients, MakeNew(u) PROVE RunInv'
    BY <1>5 DEF MakeNew, TryLock
<1>6. ASSUME NEW u \in Clients, Take(u) PROVE RunInv'
    BY <1>6 DEF Take, MoveLock, UnguardPool
<1>7. ASSUME NEW u \in Clients, StartExec(u) PROVE RunInv'
    BY <1>7 DEF StartExec
<1>8. ASSUME NEW u \in Clients, Iterate(u) PROVE RunInv'
    BY <1>8 DEF Iterate, More
<1>9. ASSUME NEW u \in Clients, EndExec(u) PROVE RunInv'
    BY <1>9 DEF EndExec, Unlock, More
<1>10. ASSUME NEW u \in Clients, BeginInterrupt(u) PROVE RunInv'
    BY <1>10 DEF BeginInterrupt
<1>11. ASSUME NEW u \in Clients, LockForInterrupt(u) PROVE RunInv'
    BY <1>11 DEF LockForInterrupt, GuardPool
<1>12. ASSUME NEW u \in Clients, InterruptNext(u) PROVE RunInv'
    BY <1>12 DEF InterruptNext
<1>13. ASSUME NEW u \in Clients, EndInterrupt(u) PROVE RunInv'
    BY <1>13 DEF EndInterrupt, UnguardPool
<1>14. CASE Activate
    BY <1>14 DEF Activate
<1>15. CASE Close
    BY <1>15 DEF Close
<1>16. CASE Use
    BY <1>16 DEF Use, Guard, NextProxy
<1>17. CASE Clear
    BY <1>17 DEF Clear, GuardPool
<1>18. CASE ClearInterrupts
    BY <1>18 DEF ClearInterrupts
<1>19. CASE ClearLocks
    BY <1>19 DEF ClearLocks, TryLock, Owned
<1>20. CASE Destroy
  <2>1. ASSUME NEW w \in Clients, Runs(w), Handle[w] = visit PROVE FALSE
    <3>1. pool[w] = pool[Manager] /\ Manager # w
      BY <1>20, <2>1 DEF Destroy
    <3>2. slot[w] \in 1..(slot[Manager] - 1)
      BY <1>20, <2>1, <3>1 DEF Destroy, Holds
    <3>3. mutex[<<pool[Manager], slot[w]>>] = Manager
      BY <1>20, <3>2 DEF Destroy
    <3>4. QED
      BY <2>1, <3>1, <3>3 DEF Holds, Conn
  <2>2. QED
    BY <1>20, <2>1 DEF Destroy, NextProxy
<1>21. CASE UNCHANGED vars
    BY <1>21 DEF vars
<1>22. QED
    BY <1>1, <1>2, <1>3, <1>4, <1>5, <1>6, <1>7, <1>8, <1>9, <1>10, <1>11, <1>12,
       <1>13, <1>14, <1>15, <1>16, <1>17, <1>18, <1>19, <1>20, <1>21
    DEF Next, Query, Interrupt, Switch

LEMMA PrelockStep == IInv /\ [Next]_vars => PrelockInv'
<1> SUFFICES ASSUME IInv, [Next]_vars PROVE PrelockInv'
    OBVIOUS
<1> USE ConstantsAssumption, ThreadFacts, NumberFacts
    DEF IInv, TypeInv, TypeOK, HeapType, LockType, ThreadType,
        LabelType, ClientLabels, ManagerLabels, HasPool, GuardInv, PrelockInv, Conn, Conns,
        At, Goto, heap, guards, conns, place, loop, Terminate, Undefined
<1>1. ASSUME NEW u \in Clients, BeginExec(u) PROVE PrelockInv'
    BY <1>1 DEF BeginExec
<1>2. ASSUME NEW u \in Clients, EnterProxy(u) PROVE PrelockInv'
    BY <1>2 DEF EnterProxy, Guard
<1>3. ASSUME NEW u \in Clients, EnterPool(u) PROVE PrelockInv'
  <2>1. \A w \in Clients : pc[w] = "take" => pc'[w] = "take" /\ Conn(w)' = Conn(w)
    BY <1>3 DEF EnterPool, GuardPool
  <2>2. UNCHANGED <<prelock, dead>>
    BY <1>3 DEF EnterPool, GuardPool
  <2>3. pc[Manager]' = pc[Manager] /\ pool'[Manager] = pool[Manager]
        /\ slot'[Manager] = slot[Manager]
    BY <1>3 DEF EnterPool, GuardPool
  <2>4. QED
    BY SMTT(20), <2>1, <2>2, <2>3
<1>4. ASSUME NEW u \in Clients, TryNext(u) PROVE PrelockInv'
    BY <1>4 DEF TryNext, TryLock, Owned
<1>5. ASSUME NEW u \in Clients, MakeNew(u) PROVE PrelockInv'
    BY <1>5 DEF MakeNew, TryLock
<1>6. ASSUME NEW u \in Clients, Take(u) PROVE PrelockInv'
    BY <1>6 DEF Take, MoveLock, UnguardPool
<1>7. ASSUME NEW u \in Clients, StartExec(u) PROVE PrelockInv'
    BY <1>7 DEF StartExec
<1>8. ASSUME NEW u \in Clients, Iterate(u) PROVE PrelockInv'
    BY <1>8 DEF Iterate, More
<1>9. ASSUME NEW u \in Clients, EndExec(u) PROVE PrelockInv'
    BY <1>9 DEF EndExec, Unlock, More
<1>10. ASSUME NEW u \in Clients, BeginInterrupt(u) PROVE PrelockInv'
  <2>1. \A w \in Clients : pc[w] = "take" => pc'[w] = "take" /\ Conn(w)' = Conn(w)
    BY <1>10 DEF BeginInterrupt
  <2>2. UNCHANGED <<prelock, dead>>
    BY <1>10 DEF BeginInterrupt
  <2>3. pc[Manager]' = pc[Manager] /\ pool'[Manager] = pool[Manager]
        /\ slot'[Manager] = slot[Manager]
    BY <1>10 DEF BeginInterrupt
  <2>4. QED
    BY SMTT(20), <2>1, <2>2, <2>3
<1>11. ASSUME NEW u \in Clients, LockForInterrupt(u) PROVE PrelockInv'
    BY <1>11 DEF LockForInterrupt, GuardPool
<1>12. ASSUME NEW u \in Clients, InterruptNext(u) PROVE PrelockInv'
    BY <1>12 DEF InterruptNext
<1>13. ASSUME NEW u \in Clients, EndInterrupt(u) PROVE PrelockInv'
    BY <1>13 DEF EndInterrupt, UnguardPool
<1>14. CASE Activate
    BY <1>14 DEF Activate
<1>15. CASE Close
    BY <1>15 DEF Close
<1>16. CASE Use
    BY <1>16 DEF Use, Guard, NextProxy
<1>17. CASE Clear
    BY <1>17 DEF Clear, GuardPool
<1>18. CASE ClearInterrupts
    BY <1>18 DEF ClearInterrupts
<1>19. CASE ClearLocks
    BY <1>19 DEF ClearLocks, TryLock, Owned
<1>20. CASE Destroy
    BY <1>20 DEF Destroy, UnguardPool, NextProxy
<1>21. CASE UNCHANGED vars
    BY <1>21 DEF vars
<1>22. QED
    BY <1>1, <1>2, <1>3, <1>4, <1>5, <1>6, <1>7, <1>8, <1>9, <1>10, <1>11, <1>12,
       <1>13, <1>14, <1>15, <1>16, <1>17, <1>18, <1>19, <1>20, <1>21
    DEF Next, Query, Interrupt, Switch

LEMMA IInvInit == Init => IInv
<1> SUFFICES ASSUME Init PROVE IInv
    OBVIOUS
<1> USE ConstantsAssumption, ThreadFacts DEF Init
<1>1. GuardInv /\ TargetInv
    BY DEF GuardInv, TargetInv
<1>2. HoldInv /\ RunInv
    BY DEF HoldInv, ClientHolds, ClientSearches, ManagerHolds, Holds, RunInv, Runs
<1>3. PrelockInv
    BY DEF PrelockInv, Conns
<1>4. QED
    BY TypeInit, <1>1, <1>2, <1>3 DEF IInv

LEMMA IInvStep == IInv /\ [Next]_vars => IInv'
BY TypeStep, GuardStep, TargetStep, ClientHoldsStep, ClientSearchesStep,
   ManagerHoldsStep, RunStep, PrelockStep
   DEF IInv, HoldInv

LEMMA Invariance == Spec => []IInv
BY IInvInit, IInvStep, PTL DEF Spec

-----------------------------------------------------------------------------
\* try_lock never hands the same connection to two clients.
THEOREM ExclusiveCorrect == Spec => []OneQueryPerConnection
<1>1. IInv => OneQueryPerConnection
    BY DEF IInv, HoldInv, ClientHolds, OneQueryPerConnection
<1>2. QED
    BY Invariance, <1>1, PTL

LEMMA Alive == IInv => NoQueryInDeadPool
<1> SUFFICES ASSUME IInv, NEW u \in Clients, Holds(u) \/ pc[u] \in {"pool", "search"}
             PROVE  pool[u] \notin dead
    BY DEF NoQueryInDeadPool
<1>1. Handle[u] \in Proxies /\ pool[u] \in Pools /\ pool[u] # None
  BY ConstantsAssumption, NumberFacts DEF IInv, TypeInv, HasPool, Holds
<1>2. CASE pc[u] \in {"pool", "search", "take"}
  BY <1>1, <1>2 DEF IInv, GuardInv, TargetInv
<1>3. CASE Runs(u)
  BY <1>1, <1>3 DEF IInv, RunInv, Current, Clearing, TargetInv
<1>4. QED
  BY <1>2, <1>3 DEF Holds, Runs

\* No client searches, holds a connection of, or runs a query in a destroyed pool.
THEOREM AliveCorrect == Spec => []NoQueryInDeadPool
BY Invariance, Alive, PTL

\* try_lock never finds m_Lock owned.
THEOREM PrelockCorrect == Spec => []NeverPreLocked
<1>1. IInv => NeverPreLocked
  <2> SUFFICES ASSUME IInv, NEW t \in Threads,
                      \/ pc[t] = "search" /\ slot[t] <= size[pool[t]]
                      \/ pc[t] = "sleep",
                      prelock[Conn(t)]
               PROVE  FALSE
      BY DEF NeverPreLocked
  <2> USE ConstantsAssumption, ThreadFacts, NumberFacts
      DEF IInv, TypeInv, TypeOK, LabelType, ClientLabels, ManagerLabels, HasPool
  <2>1. (t \in Clients /\ pc[t] = "search") \/ (t = Manager /\ pc[t] = "sleep")
    <3>1. CASE t \in Clients
      BY <3>1
    <3>2. CASE t = Manager
      BY <3>2
    <3>3. QED
      BY <3>1, <3>2 DEF Threads
  <2>2. pool[t] \in Pools /\ slot[t] \in 1..MaxSlots
    <3>1. pool[t] \in Pools
      BY <2>1
    <3>2. slot[t] \in 1..size[pool[t]]
      BY <2>1, <3>1 DEF HoldInv, ClientSearches, ManagerHolds, ThreadType, HeapType
    <3>3. QED
      BY <3>1, <3>2 DEF HeapType
  <2>3. pool[t] \notin dead
    BY <2>1, <2>2 DEF GuardInv, TargetInv
  <2>4. poolMutex[pool[t]] = t
    BY <2>1 DEF GuardInv
  <2>5. PICK q \in Pools, i \in 1..MaxSlots : q = pool[t] /\ i = slot[t]
    BY <2>2
  <2>6. prelock[<<q, i>>]
    BY <2>5 DEF Conn
  <2>7. CASE \E u \in Clients : pc[u] = "take" /\ Conn(u) = <<q, i>>
    <3>1. PICK u \in Clients : pc[u] = "take" /\ Conn(u) = <<q, i>>
      BY <2>7
    <3>2. poolMutex[pool[t]] = u
      BY <3>1, <2>5 DEF GuardInv, Conn
    <3>3. QED
      BY <2>1, <2>4, <3>1, <3>2
  <2>8. CASE pc[Manager] \in {"clearing", "sleep"} /\ pool[Manager] = q /\ i < slot[Manager]
    <3>1. poolMutex[pool[t]] = Manager
      BY <2>5, <2>8 DEF GuardInv
    <3>2. t = Manager
      BY <2>4, <3>1
    <3>3. QED
      BY <2>5, <2>8, <3>2
  <2>9. QED
    BY <2>3, <2>5, <2>6, <2>7, <2>8 DEF PrelockInv
<1>2. QED
    BY Invariance, <1>1, PTL


-----------------------------------------------------------------------------
(* How many connections a pool gets.  While a client searches, it holds the *)
(* mutex of its proxy, so no other client of that proxy gets a connection.  *)
(* Count the clients that hold one at or behind the place it has reached:   *)
(* each connection found owned leaves its owner out of the count from then  *)
(* on, and a release only lowers it.                                        *)

ClientsOf(p) == {u \in Clients : Handle[u] = p}
Owners(q, i) == {u \in Clients : Holds(u) /\ pool[u] = q /\ slot[u] >= i}

\* A pool that has not been constructed has no connection.
FreshInv == \A q \in Pools : q > made => size[q] = 0

\* Who owns the mutex of a connection: the client that holds it, or the Manager.
HasOwner(q, i) ==
    \/ q \in dead
    \/ \E u \in Clients : Holds(u) /\ Conn(u) = <<q, i>>
    \/ /\ pc[Manager] \in {"clearing", "sleep"}
       /\ pool[Manager] = q
       /\ i < slot[Manager]
OwnedInv ==
    \A q \in Pools, i \in 1..MaxSlots : mutex[<<q, i>>] # None => HasOwner(q, i)

\* The place a search has reached, and the clients it may still meet.
SearchInv ==
    \A u \in Clients : pc[u] = "search" =>
        slot[u] + Cardinality(Owners(pool[u], slot[u]))
            <= Cardinality(ClientsOf(Handle[u]))

BoundInv == IInv /\ FreshInv /\ OwnedInv /\ SearchInv /\ PoolIsBounded

LEMMA OwnersFinite ==
    ASSUME NEW q, NEW i
    PROVE  /\ IsFiniteSet(Owners(q, i)) /\ IsFiniteSet(Owners(q, i)')
           /\ Cardinality(Owners(q, i)) \in Nat /\ Cardinality(Owners(q, i)') \in Nat
<1>1. Owners(q, i) \subseteq Clients /\ Owners(q, i)' \subseteq Clients
    BY DEF Owners
<1>2. QED
    BY <1>1, ClientsAssumption, FS_Subset, FS_CardinalityType

LEMMA ClientsOfFinite ==
    ASSUME NEW p
    PROVE  IsFiniteSet(ClientsOf(p)) /\ Cardinality(ClientsOf(p)) \in Nat
<1>1. ClientsOf(p) \subseteq Clients
    BY DEF ClientsOf
<1>2. QED
    BY <1>1, ClientsAssumption, FS_Subset, FS_CardinalityType

LEMMA OneLess ==
    ASSUME NEW S, IsFiniteSet(S), NEW x \in S
    PROVE  /\ IsFiniteSet(S \ {x}) /\ Cardinality(S \ {x}) \in Nat
           /\ Cardinality(S) = Cardinality(S \ {x}) + 1
<1>1. IsFiniteSet(S \ {x}) /\ Cardinality(S \ {x}) = Cardinality(S) - 1
    BY FS_RemoveElement
<1>2. Cardinality(S) \in Nat /\ Cardinality(S \ {x}) \in Nat
    BY <1>1, FS_CardinalityType
<1>3. QED
    BY <1>1, <1>2

LEMMA FreshStep == IInv /\ FreshInv /\ [Next]_vars => FreshInv'
<1> SUFFICES ASSUME IInv, FreshInv, [Next]_vars PROVE FreshInv'
    OBVIOUS
<1> USE ConstantsAssumption, ThreadFacts, NumberFacts
    DEF IInv, TypeInv, TypeOK, HeapType, HasPool, FreshInv,
        At, Goto, heap, guards, conns, place, loop, Terminate, Undefined
<1>1. CASE UNCHANGED <<size, made>>
    BY <1>1
<1>2. ASSUME NEW u \in Clients, MakeNew(u) PROVE FreshInv'
  <2>1. pool[u] <= made /\ pool[u] \in Pools /\ Handle[u] \in Proxies
    BY <1>2 DEF MakeNew, GuardInv, TargetInv
  <2>2. made' = made /\ \A q \in Pools : q # pool[u] => size'[q] = size[q]
    BY <1>2 DEF MakeNew
  <2>3. QED
    BY <2>1, <2>2
<1>3. CASE Use
    BY <1>3 DEF Use
<1>4. QED
  <2>1. ASSUME NEW u \in Clients,
               BeginExec(u) \/ Query(u) \/ BeginInterrupt(u) \/ Interrupt(u), ~MakeNew(u)
        PROVE  UNCHANGED <<size, made>>
    BY <2>1 DEF Query, Interrupt, BeginExec, EnterProxy, EnterPool, TryNext, Take,
                StartExec, Iterate, EndExec, BeginInterrupt, LockForInterrupt,
                InterruptNext, EndInterrupt
  <2>2. ASSUME Activate \/ Close \/ (Switch /\ ~Use) PROVE UNCHANGED <<size, made>>
    BY <2>2 DEF Switch, Activate, Close, Clear, ClearInterrupts, ClearLocks, Destroy
  <2>3. QED
    BY <1>1, <1>2, <1>3, <2>1, <2>2 DEF Next, vars

LEMMA OwnedStep == IInv /\ OwnedInv /\ [Next]_vars => OwnedInv'
<1> SUFFICES ASSUME IInv, OwnedInv, [Next]_vars PROVE OwnedInv'
    OBVIOUS
\* A step that gives nobody a mutex and lets go of no connection.
<1> DEFINE Quiet ==
      /\ \A q \in Pools, i \in 1..MaxSlots :
            mutex'[<<q, i>>] # None => mutex[<<q, i>>] # None
      /\ dead \subseteq dead'
      /\ \A w \in Clients : Holds(w) => Holds(w)' /\ Conn(w)' = Conn(w)
      /\ pc[Manager] \in {"clearing", "sleep"} =>
            /\ pc'[Manager] \in {"clearing", "sleep"}
            /\ pool'[Manager] = pool[Manager]
            /\ slot'[Manager] = slot[Manager]
<1>a. Quiet => OwnedInv'
  <2> SUFFICES ASSUME Quiet, NEW q \in Pools, NEW i \in 1..MaxSlots, mutex'[<<q, i>>] # None
               PROVE  HasOwner(q, i)'
      BY DEF OwnedInv
  <2>1. HasOwner(q, i)
    BY DEF OwnedInv
  <2>2. QED
    BY <2>1 DEF HasOwner
\* One that takes the connection of thread t, or lets go of it.
<1> DEFINE Changes(t, c) ==
      /\ \A d \in Conns : d # c => mutex'[d] = mutex[d]
      /\ dead \subseteq dead'
      /\ \A w \in Clients \ {t} : Holds(w) => Holds(w)' /\ Conn(w)' = Conn(w)
<1>b. ASSUME NEW u \in Clients, Changes(u, Conn(u)),
             Holds(u) => (Conn(u)' = Conn(u) /\ Holds(u)') \/ mutex'[Conn(u)] = None,
             ~Holds(u) => Conn(u)' = Conn(u) /\ Holds(u)',
             /\ pc'[Manager] = pc[Manager]
             /\ pool'[Manager] = pool[Manager]
             /\ slot'[Manager] = slot[Manager]
      PROVE  OwnedInv'
  <2> SUFFICES ASSUME NEW q \in Pools, NEW i \in 1..MaxSlots, mutex'[<<q, i>>] # None
               PROVE  HasOwner(q, i)'
      BY DEF OwnedInv
  <2>1. CASE <<q, i>> = Conn(u)
    BY <1>b, <2>1 DEF HasOwner
  <2>2. CASE <<q, i>> # Conn(u)
    <3>1. mutex[<<q, i>>] # None
      BY <1>b, <2>2 DEF Conns
    <3>2. HasOwner(q, i)
      BY <3>1 DEF OwnedInv
    <3>3. QED
      BY <1>b, <2>2, <3>2 DEF HasOwner
  <2>3. QED
    BY <2>1, <2>2
<1> USE ConstantsAssumption, ThreadFacts, NumberFacts
    DEF IInv, TypeInv, TypeOK, HeapType, LockType, ThreadType,
        LabelType, ClientLabels, ManagerLabels, HasPool, GuardInv, Holds, Conn, Conns,
        At, Goto, heap, guards, conns, place, loop, Terminate, Undefined
<1>1. ASSUME NEW u \in Clients, BeginExec(u) PROVE Quiet
    BY <1>1 DEF BeginExec
<1>2. ASSUME NEW u \in Clients, EnterProxy(u) PROVE Quiet
    BY <1>2 DEF EnterProxy, Guard
<1>3. ASSUME NEW u \in Clients, EnterPool(u) PROVE Quiet
    BY <1>3 DEF EnterPool, GuardPool
<1>4. ASSUME NEW u \in Clients, TryNext(u) PROVE OwnedInv'
  <2>1. CASE prelock[Conn(u)] \/ Owned(u)
    <3>1. Quiet
      BY <1>4, <2>1 DEF TryNext
    <3>2. QED
      BY <3>1, <1>a
  <2>2. CASE ~prelock[Conn(u)] /\ ~Owned(u)
    <3>1. /\ Changes(u, Conn(u))
          /\ Holds(u)' /\ Conn(u)' = Conn(u)
          /\ pc'[Manager] = pc[Manager] /\ UNCHANGED <<pool, slot>>
      BY <1>4, <2>2 DEF TryNext, TryLock
    <3> HIDE DEF Changes
    <3>2. QED
      BY <3>1, <1>b
  <2>3. QED
    BY <2>1, <2>2
<1>5. ASSUME NEW u \in Clients, MakeNew(u) PROVE OwnedInv'
  <2>1. /\ Changes(u, Conn(u))
        /\ Holds(u)' /\ Conn(u)' = Conn(u)
        /\ pc'[Manager] = pc[Manager] /\ UNCHANGED <<pool, slot>>
    BY <1>5 DEF MakeNew, TryLock
  <2> HIDE DEF Changes
  <2>2. QED
    BY <2>1, <1>b
<1>6. ASSUME NEW u \in Clients, Take(u) PROVE Quiet
    BY <1>6 DEF Take, MoveLock, UnguardPool
<1>7. ASSUME NEW u \in Clients, StartExec(u) PROVE Quiet
    BY <1>7 DEF StartExec
<1>8. ASSUME NEW u \in Clients, Iterate(u) PROVE Quiet
    BY <1>8 DEF Iterate, More
<1>9. ASSUME NEW u \in Clients, EndExec(u) PROVE OwnedInv'
  <2>1. /\ Changes(u, Conn(u)) /\ mutex'[Conn(u)] = None /\ Holds(u)
        /\ pc'[Manager] = pc[Manager]
        /\ pool'[Manager] = pool[Manager]
        /\ slot'[Manager] = slot[Manager]
    <3>1. Conn(u) \in Conns
      BY <1>9 DEF EndExec, HoldInv, ClientHolds
    <3>2. QED
      BY <1>9, <3>1 DEF EndExec, Unlock
  <2> HIDE DEF Changes
  <2>2. QED
    BY <2>1, <1>b
<1>10. ASSUME NEW u \in Clients, BeginInterrupt(u) PROVE Quiet
    BY <1>10 DEF BeginInterrupt
<1>11. ASSUME NEW u \in Clients, LockForInterrupt(u) PROVE Quiet
    BY <1>11 DEF LockForInterrupt, GuardPool
<1>12. ASSUME NEW u \in Clients, InterruptNext(u) PROVE Quiet
    BY <1>12 DEF InterruptNext
<1>13. ASSUME NEW u \in Clients, EndInterrupt(u) PROVE Quiet
    BY <1>13 DEF EndInterrupt, UnguardPool
<1>14. CASE Activate
  <2>1. Quiet
    BY <1>14 DEF Activate
  <2>2. QED
    BY <2>1, <1>a
<1>15. CASE Close
  <2>1. Quiet
    BY <1>15 DEF Close
  <2>2. QED
    BY <2>1, <1>a
<1>16. CASE Use
  <2>1. Quiet
    BY <1>16 DEF Use, Guard, NextProxy
  <2>2. QED
    BY <2>1, <1>a
<1>17. CASE Clear
  <2>1. Quiet
    BY <1>17 DEF Clear, GuardPool
  <2>2. QED
    BY <2>1, <1>a
<1>18. CASE ClearInterrupts
  <2>1. Quiet
    BY <1>18 DEF ClearInterrupts
  <2>2. QED
    BY <2>1, <1>a
<1>19. CASE ClearLocks
  <2>1. CASE prelock[Conn(Manager)] \/ Owned(Manager)
    <3>1. Quiet
      BY <1>19, <2>1 DEF ClearLocks
    <3>2. QED
      BY <3>1, <1>a
  <2>2. CASE ~(prelock[Conn(Manager)] \/ Owned(Manager))
    <3>1. /\ \A c \in Conns : c # Conn(Manager) => mutex'[c] = mutex[c]
          /\ UNCHANGED <<dead, pool>>
          /\ pc'[Manager] = "clearing" /\ slot'[Manager] = slot[Manager] + 1
          /\ \A w \in Clients : pc'[w] = pc[w] /\ slot'[w] = slot[w]
      BY <1>19, <2>2 DEF ClearLocks, TryLock
    <3> SUFFICES ASSUME NEW q \in Pools, NEW i \in 1..MaxSlots, mutex'[<<q, i>>] # None
                 PROVE  HasOwner(q, i)'
        BY DEF OwnedInv
    <3>2. slot[Manager] \in Nat /\ pc[Manager] = "sleep"
      BY <1>19 DEF ClearLocks
    <3>3. CASE <<q, i>> = Conn(Manager)
      BY <3>1, <3>2, <3>3 DEF HasOwner
    <3>4. CASE <<q, i>> # Conn(Manager)
      <4>1. HasOwner(q, i)
        BY <3>1, <3>4 DEF OwnedInv
      <4>2. CASE q \in dead \/ \E w \in Clients : Holds(w) /\ Conn(w) = <<q, i>>
        BY <3>1, <4>2 DEF HasOwner
      <4>3. CASE pool[Manager] = q /\ i < slot[Manager]
        BY <3>1, <3>2, <4>3 DEF HasOwner
      <4>4. QED
        BY <4>1, <4>2, <4>3 DEF HasOwner
    <3>5. QED
      BY <3>3, <3>4
  <2>3. QED
    BY <2>1, <2>2
<1>20. CASE Destroy
  <2>1. /\ UNCHANGED mutex
        /\ dead' = dead \cup {pool[Manager]}
        /\ \A w \in Clients : pc'[w] = pc[w] /\ slot'[w] = slot[w] /\ pool'[w] = pool[w]
    BY <1>20 DEF Destroy, NextProxy
  <2> SUFFICES ASSUME NEW q \in Pools, NEW i \in 1..MaxSlots, mutex'[<<q, i>>] # None
               PROVE  HasOwner(q, i)'
      BY DEF OwnedInv
  <2>2. HasOwner(q, i)
    BY <2>1 DEF OwnedInv
  <2>3. QED
    BY <2>1, <2>2 DEF HasOwner
<1>21. CASE UNCHANGED vars
  <2>1. Quiet
    BY <1>21 DEF vars
  <2>2. QED
    BY <2>1, <1>a
<1>22. QED
  <2> HIDE DEF Quiet
  <2>1. QED
    BY <1>a, <1>1, <1>2, <1>3, <1>4, <1>5, <1>6, <1>7, <1>8, <1>9, <1>10, <1>11, <1>12,
       <1>13, <1>14, <1>15, <1>16, <1>17, <1>18, <1>19, <1>20, <1>21
    DEF Next, Query, Interrupt, Switch

\* A step after which nobody holds a connection that it did not hold, and nobody is
\* at another place of a search.
Calm ==
    /\ \A v \in Clients : Holds(v)' => Holds(v) /\ pool'[v] = pool[v] /\ slot'[v] = slot[v]
    /\ \A w \in Clients :
          pc'[w] = "search" => pc[w] = "search" /\ pool'[w] = pool[w] /\ slot'[w] = slot[w]

LEMMA SearchKept ==
    ASSUME IInv, SearchInv, NEW w \in Clients, pc[w] = "search",
           pool'[w] = pool[w], slot'[w] = slot[w],
           \A q, i : q = pool[w] => Owners(q, i)' \subseteq Owners(q, i)
    PROVE  slot'[w] + Cardinality(Owners(pool[w], slot[w])') <= Cardinality(ClientsOf(Handle[w]))
<1>1. PICK q, i : q = pool[w] /\ i = slot[w]
    OBVIOUS
<1>2. Owners(pool[w], slot[w])' = Owners(q, i)'
    BY <1>1 DEF Owners
<1>3. Cardinality(Owners(q, i)') <= Cardinality(Owners(q, i))
    BY <1>1, OwnersFinite, FS_Subset
<1>4. i + Cardinality(Owners(q, i)) <= Cardinality(ClientsOf(Handle[w]))
    BY <1>1 DEF SearchInv
<1>5. i \in Int
    BY <1>1, ThreadFacts, NumberFacts DEF IInv, TypeInv, TypeOK, ThreadType
<1>6. QED
    BY <1>1, <1>2, <1>3, <1>4, <1>5, OwnersFinite, ClientsOfFinite

LEMMA SearchCalm == IInv /\ SearchInv /\ Calm => SearchInv'
<1> SUFFICES ASSUME IInv, SearchInv, Calm, NEW w \in Clients, pc'[w] = "search"
             PROVE  slot'[w] + Cardinality(Owners(pool[w], slot[w])')
                        <= Cardinality(ClientsOf(Handle[w]))
    BY DEF SearchInv, ClientsOf
<1>1. \A q, i : Owners(q, i)' \subseteq Owners(q, i)
    BY DEF Calm, Owners
<1>2. pc[w] = "search" /\ pool'[w] = pool[w] /\ slot'[w] = slot[w]
    BY DEF Calm
<1>3. QED
    BY <1>1, <1>2, SearchKept

\* A client that gets a connection ends its search, and nobody else searches its pool.
LEMMA SearchFound ==
    ASSUME IInv, SearchInv, NEW u \in Clients, pc[u] = "search",
           pc' = [pc EXCEPT ![u] = "take"], UNCHANGED <<pool, slot>>
    PROVE  SearchInv'
<1> SUFFICES ASSUME NEW w \in Clients, pc'[w] = "search"
             PROVE  slot'[w] + Cardinality(Owners(pool[w], slot[w])')
                        <= Cardinality(ClientsOf(Handle[w]))
    BY DEF SearchInv, ClientsOf
<1>1. w # u /\ pc[w] = "search"
    BY ThreadFacts DEF IInv, TypeInv, TypeOK, LabelType
<1>2. pool[w] # pool[u]
    BY <1>1 DEF IInv, GuardInv
<1>3. \A q, i : q = pool[w] => Owners(q, i)' \subseteq Owners(q, i)
    BY <1>2, ThreadFacts DEF Owners, Holds, IInv, TypeInv, TypeOK, LabelType
<1>4. QED
    BY <1>1, <1>3, SearchKept

\* Who may hold a connection of the pool that a client of p has entered.
LEMMA SameProxy ==
    ASSUME IInv, NEW u \in Clients, pc[u] \in {"pool", "search"},
           NEW v \in Clients, Holds(v), pool[v] = pool[u]
    PROVE  v \in ClientsOf(Handle[u]) /\ v # u
<1>1. Handle[u] \in Proxies /\ Handle[v] \in Proxies
    BY ConstantsAssumption
<1>2. pool[u] = target[Handle[u]] /\ pool[u] # None
    BY NumberFacts DEF IInv, GuardInv, TypeInv, HasPool
<1>3. CASE pc[v] = "take"
    BY <1>1, <1>2, <1>3 DEF IInv, GuardInv, TargetInv, ClientsOf, Holds
<1>4. CASE Runs(v)
  <2>1. pool[v] = Current(Handle[v])
    BY <1>4 DEF IInv, RunInv
  <2>2. ~Clearing(Handle[v])
    BY <1>1, <1>2, <2>1 DEF Current, Clearing, IInv, TargetInv
  <2>3. QED
    BY <1>1, <1>2, <2>1, <2>2 DEF Current, IInv, TargetInv, ClientsOf, Holds
<1>5. QED
    BY <1>3, <1>4 DEF Holds, Runs

\* A search begins: each other client of the proxy holds at most one connection.
LEMMA SearchBegins ==
    ASSUME IInv, SearchInv, NEW u \in Clients, EnterPool(u), pc' = [pc EXCEPT ![u] = "search"]
    PROVE  SearchInv'
<1> USE ConstantsAssumption, ThreadFacts, NumberFacts
<1>1. /\ pc[u] = "pool" /\ pool' = pool
      /\ slot' = [slot EXCEPT ![u] = 1]
    BY DEF EnterPool, At, Undefined, IInv, TypeInv, TypeOK, LabelType
<1>2. \A q, i : Owners(q, i)' \subseteq Owners(q, i)
    BY <1>1 DEF Owners, Holds, IInv, TypeInv, TypeOK, LabelType, ThreadType
<1> SUFFICES ASSUME NEW w \in Clients, pc'[w] = "search"
             PROVE  slot'[w] + Cardinality(Owners(pool[w], slot[w])')
                        <= Cardinality(ClientsOf(Handle[w]))
    BY DEF SearchInv, ClientsOf
<1>3. CASE w # u
  <2>1. pc[w] = "search" /\ pool'[w] = pool[w] /\ slot'[w] = slot[w]
    BY <1>1, <1>3 DEF IInv, TypeInv, TypeOK, LabelType, ThreadType
  <2>2. QED
    BY <1>2, <2>1, SearchKept
<1>4. CASE w = u
  <2> DEFINE others == ClientsOf(Handle[u]) \ {u}
  <2>1. PICK q : q = pool[u]
    OBVIOUS
  <2>2. Owners(pool[u], slot[u])' = Owners(q, 1)' /\ slot'[u] = 1
    BY <1>1, <2>1 DEF Owners, IInv, TypeInv, TypeOK, ThreadType
  <2>3. Owners(q, 1) \subseteq others
    BY <1>1, <2>1, SameProxy DEF Owners
  <2>4. Owners(q, 1)' \subseteq others
    BY <1>2, <2>3
  <2>5. /\ IsFiniteSet(others) /\ Cardinality(others) \in Nat
        /\ Cardinality(others) + 1 = Cardinality(ClientsOf(Handle[u]))
    <3>1. u \in ClientsOf(Handle[u])
      BY DEF ClientsOf
    <3>2. QED
      BY <3>1, ClientsOfFinite, OneLess
  <2>6. Cardinality(Owners(q, 1)') <= Cardinality(others)
    BY <2>4, <2>5, FS_Subset
  <2>7. QED
    BY <1>4, <2>2, <2>5, <2>6, OwnersFinite, ClientsOfFinite
<1>5. QED
    BY <1>3, <1>4

\* A search passes a connection that is owned: its owner leaves the count.
LEMMA SearchGoesOn ==
    ASSUME IInv, SearchInv, OwnedInv, NEW u \in Clients, TryNext(u), Owned(u),
           ~prelock[Conn(u)]
    PROVE  SearchInv'
<1> USE ConstantsAssumption, ThreadFacts, NumberFacts
<1>1. /\ pc[u] = "search" /\ pc' = pc /\ pool' = pool
      /\ slot' = [slot EXCEPT ![u] = slot[u] + 1]
      /\ slot[u] <= size[pool[u]]
    BY DEF TryNext, At
<1> SUFFICES ASSUME NEW w \in Clients, pc'[w] = "search"
             PROVE  slot'[w] + Cardinality(Owners(pool[w], slot[w])')
                        <= Cardinality(ClientsOf(Handle[w]))
    BY DEF SearchInv, ClientsOf
<1>2. \A q, i : Owners(q, i)' = Owners(q, i)
    BY <1>1 DEF Owners, Holds, IInv, TypeInv, TypeOK, ThreadType
<1>3. CASE w # u
  <2>1. pc[w] = "search" /\ pool'[w] = pool[w] /\ slot'[w] = slot[w]
    BY <1>1, <1>3 DEF IInv, TypeInv, TypeOK, ThreadType
  <2>2. QED
    BY <1>2, <2>1, SearchKept
<1>4. CASE w = u
  <2>1. PICK q \in Pools, i \in 1..MaxSlots : q = pool[u] /\ i = slot[u]
    <3>1. pool[u] \in Pools /\ size[pool[u]] \in 0..MaxSlots
      BY <1>1 DEF IInv, TypeInv, TypeOK, HasPool, HeapType
    <3>2. slot[u] \in 1..MaxSlots
      BY <1>1, <3>1 DEF IInv, HoldInv, ClientSearches
    <3>3. QED
      BY <3>1, <3>2
  <2>2. Owners(pool[u], slot[u])' = Owners(q, i + 1) /\ slot'[u] = i + 1
    <3>1. pool'[u] = q /\ slot'[u] = i + 1
      BY <1>1, <2>1 DEF IInv, TypeInv, TypeOK, ThreadType
    <3>2. Owners(pool[u], slot[u])' = Owners(q, i + 1)'
      BY <3>1 DEF Owners
    <3>3. QED
      BY <1>2, <3>1, <3>2
  <2>3. PICK v \in Clients : Holds(v) /\ Conn(v) = <<q, i>>
    <3>1. HasOwner(q, i)
      BY <2>1 DEF OwnedInv, Owned, Conn
    <3>2. q = target[Handle[u]] /\ Handle[u] \in Proxies /\ q # None
      BY <1>1, <2>1 DEF IInv, GuardInv
    <3>3. QED
      BY <3>1, <3>2 DEF HasOwner, IInv, TargetInv
  <2>4. v \in Owners(q, i) /\ v \notin Owners(q, i + 1)
    <3>1. pool[v] = q /\ slot[v] = i
      BY <2>3 DEF Conn
    <3>2. QED
      BY <2>3, <3>1 DEF Owners
  <2>5. Owners(q, i + 1) \subseteq Owners(q, i) \ {v}
    <3>1. \A c \in Clients : slot[c] \in Int
      BY DEF IInv, TypeInv, TypeOK, ThreadType
    <3>2. QED
      BY <2>4, <3>1 DEF Owners
  <2>6. Cardinality(Owners(q, i + 1)) <= Cardinality(Owners(q, i)) - 1
    <3>1. /\ IsFiniteSet(Owners(q, i) \ {v}) /\ Cardinality(Owners(q, i) \ {v}) \in Nat
          /\ Cardinality(Owners(q, i)) = Cardinality(Owners(q, i) \ {v}) + 1
      BY <2>4, OwnersFinite, OneLess
    <3>2. Cardinality(Owners(q, i + 1)) <= Cardinality(Owners(q, i) \ {v})
      BY <2>5, <3>1, FS_Subset
    <3>3. QED
      BY <3>1, <3>2, OwnersFinite
  <2>7. i + Cardinality(Owners(q, i)) <= Cardinality(ClientsOf(Handle[u]))
    BY <1>1, <2>1 DEF SearchInv
  <2>8. QED
    BY <1>4, <2>2, <2>6, <2>7, OwnersFinite, ClientsOfFinite
<1>5. QED
    BY <1>3, <1>4

LEMMA SearchStep == IInv /\ SearchInv /\ OwnedInv /\ [Next]_vars => SearchInv'
<1> SUFFICES ASSUME IInv, SearchInv, OwnedInv, [Next]_vars PROVE SearchInv'
    OBVIOUS
<1>a. ASSUME UNCHANGED <<pc, pool, slot>> PROVE Calm
    BY <1>a DEF Calm, Holds
<1> USE ConstantsAssumption, ThreadFacts
    DEF IInv, TypeInv, TypeOK, LabelType, ThreadType, Holds,
        At, Goto, heap, guards, conns, place, loop, Terminate, Undefined
<1>1. ASSUME NEW u \in Clients, BeginExec(u) PROVE Calm
    BY <1>1 DEF BeginExec, Calm
<1>2. ASSUME NEW u \in Clients, EnterProxy(u) PROVE Calm
    BY <1>2 DEF EnterProxy, Guard, Calm
<1>3. ASSUME NEW u \in Clients, EnterPool(u) PROVE SearchInv'
  <2>1. CASE pool[u] \in dead
    BY <1>3, <2>1, <1>a, SearchCalm DEF EnterPool
  <2>2. CASE pool[u] \notin dead
    BY <1>3, <2>2, SearchBegins DEF EnterPool
  <2>3. QED
    BY <2>1, <2>2
<1>4. ASSUME NEW u \in Clients, TryNext(u) PROVE SearchInv'
  <2>1. CASE prelock[Conn(u)]
    BY <1>4, <2>1, <1>a, SearchCalm DEF TryNext
  <2>2. CASE ~prelock[Conn(u)] /\ Owned(u)
    BY <1>4, <2>2, SearchGoesOn
  <2>3. CASE ~prelock[Conn(u)] /\ ~Owned(u)
    BY <1>4, <2>3, SearchFound DEF TryNext
  <2>4. QED
    BY <2>1, <2>2, <2>3
<1>5. ASSUME NEW u \in Clients, MakeNew(u) PROVE SearchInv'
    BY <1>5, SearchFound DEF MakeNew
<1>6. ASSUME NEW u \in Clients, Take(u) PROVE Calm
    BY <1>6 DEF Take, Calm
<1>7. ASSUME NEW u \in Clients, StartExec(u) PROVE Calm
    BY <1>7 DEF StartExec, Calm
<1>8. ASSUME NEW u \in Clients, Iterate(u) PROVE Calm
    BY <1>8, <1>a DEF Iterate
<1>9. ASSUME NEW u \in Clients, EndExec(u) PROVE Calm
    BY <1>9 DEF EndExec, Calm
<1>10. ASSUME NEW u \in Clients, BeginInterrupt(u) PROVE Calm
    BY <1>10 DEF BeginInterrupt, Calm
<1>11. ASSUME NEW u \in Clients, LockForInterrupt(u) PROVE Calm
    BY <1>11 DEF LockForInterrupt, Calm
<1>12. ASSUME NEW u \in Clients, InterruptNext(u) PROVE Calm
    BY <1>12 DEF InterruptNext, Calm
<1>13. ASSUME NEW u \in Clients, EndInterrupt(u) PROVE Calm
    BY <1>13 DEF EndInterrupt, Calm
<1>14. ASSUME Activate \/ Close \/ Switch PROVE Calm
  <2>1. \A u \in Clients : pc'[u] = pc[u] /\ pool'[u] = pool[u] /\ slot'[u] = slot[u]
    BY <1>14 DEF Activate, Close, Switch, Use, Clear, ClearInterrupts, ClearLocks, Destroy,
                 NextProxy
  <2>2. QED
    BY <2>1 DEF Calm
<1>15. CASE UNCHANGED vars
    BY <1>15, <1>a, SearchCalm DEF vars
<1>16. QED
    BY SearchCalm, <1>1, <1>2, <1>3, <1>4, <1>5, <1>6, <1>7, <1>8, <1>9, <1>10, <1>11,
       <1>12, <1>13, <1>14, <1>15
    DEF Next, Query, Interrupt

\* A new connection is made at the end of a search, and a new pool has none.
LEMMA BoundedStep ==
    IInv /\ FreshInv /\ SearchInv /\ PoolIsBounded /\ [Next]_vars => PoolIsBounded'
<1> SUFFICES ASSUME IInv, FreshInv, SearchInv, PoolIsBounded, [Next]_vars,
                    NEW p \in Proxies, target'[p] # None
             PROVE  size'[target'[p]] <= Cardinality(ClientsOf(p))
    BY DEF PoolIsBounded, ClientsOf
<1> USE ConstantsAssumption, ThreadFacts, NumberFacts
<1>1. CASE UNCHANGED <<size, target>>
    BY <1>1 DEF PoolIsBounded, ClientsOf
<1>2. ASSUME NEW u \in Clients, MakeNew(u)
      PROVE  size'[target'[p]] <= Cardinality(ClientsOf(p))
  <2>1. /\ pc[u] = "search" /\ slot[u] > size[pool[u]] /\ target' = target
        /\ size' = [size EXCEPT ![pool[u]] = @ + 1]
    BY <1>2 DEF MakeNew, At
  <2>2. /\ pool[u] \in Pools /\ pool[u] = target[Handle[u]] /\ Handle[u] \in Proxies
        /\ slot[u] \in 1..(size[pool[u]] + 1) /\ size[pool[u]] \in Nat
    BY <2>1 DEF IInv, TypeInv, TypeOK, HeapType, HasPool, GuardInv, HoldInv, ClientSearches
  <2>3. CASE target[p] = pool[u]
    <3>1. p = Handle[u]
      BY <2>1, <2>2, <2>3 DEF IInv, TargetInv
    <3>2. size'[pool[u]] = slot[u]
      BY <2>1, <2>2 DEF IInv, TypeInv, TypeOK, HeapType
    <3>3. slot[u] + Cardinality(Owners(pool[u], slot[u])) <= Cardinality(ClientsOf(p))
      BY <2>1, <3>1 DEF SearchInv
    <3>4. QED
      BY <2>1, <2>2, <2>3, <3>2, <3>3, OwnersFinite, ClientsOfFinite
  <2>4. CASE target[p] # pool[u]
    <3>1. target[p] # None /\ target[p] \in Pools
      BY <2>1 DEF IInv, TypeInv, TypeOK, HeapType
    <3>2. size'[target[p]] = size[target[p]]
      BY <2>1, <2>4, <3>1 DEF IInv, TypeInv, TypeOK, HeapType
    <3>3. QED
      BY <2>1, <3>1, <3>2 DEF PoolIsBounded, ClientsOf
  <2>5. QED
    BY <2>3, <2>4
<1>3. ASSUME Use PROVE size'[target'[p]] <= Cardinality(ClientsOf(p))
  <2>1. /\ target' = [target EXCEPT ![visit] = IF closing THEN None ELSE made + 1]
        /\ size' = size
    BY <1>3 DEF Use
  <2>2. CASE p = visit
    <3>1. target'[p] = made + 1 /\ ~closing
      BY <2>1, <2>2 DEF IInv, TypeInv, TypeOK, HeapType
    <3>2. made + 1 \in Pools /\ made + 1 > made
      BY <1>3, <3>1 DEF Use, At, IInv, TypeInv, TypeOK, HeapType, ThreadType, Room, Pools
    <3>3. size[made + 1] = 0
      BY <3>2 DEF FreshInv
    <3>4. QED
      BY <2>1, <3>1, <3>3, ClientsOfFinite
  <2>3. CASE p # visit
    BY <2>1, <2>3 DEF IInv, TypeInv, TypeOK, HeapType, PoolIsBounded, ClientsOf
  <2>4. QED
    BY <2>2, <2>3
<1>4. QED
  <2> USE DEF At, Goto, heap, guards, conns, place, loop, Terminate, Undefined
  <2>1. ASSUME NEW u \in Clients,
               BeginExec(u) \/ Query(u) \/ BeginInterrupt(u) \/ Interrupt(u), ~MakeNew(u)
        PROVE  UNCHANGED <<size, target>>
    BY <2>1 DEF Query, Interrupt, BeginExec, EnterProxy, EnterPool, TryNext, Take,
                StartExec, Iterate, EndExec, BeginInterrupt, LockForInterrupt,
                InterruptNext, EndInterrupt
  <2>2. ASSUME Activate \/ Close \/ (Switch /\ ~Use) PROVE UNCHANGED <<size, target>>
    BY <2>2 DEF Switch, Activate, Close, Clear, ClearInterrupts, ClearLocks, Destroy
  <2>3. QED
    BY <1>1, <1>2, <1>3, <2>1, <2>2 DEF Next, vars

LEMMA BoundInit == Init => BoundInv
<1> SUFFICES ASSUME Init PROVE BoundInv
    OBVIOUS
<1>1. FreshInv /\ OwnedInv /\ SearchInv
    BY ConstantsAssumption, ThreadFacts
    DEF Init, FreshInv, OwnedInv, SearchInv, Conns
<1>2. PoolIsBounded
    BY DEF Init, PoolIsBounded
<1>3. QED
    BY <1>1, <1>2, IInvInit DEF BoundInv

\* No pool ever has more connections than its proxy has clients, however many
\* clients there are and however their searches, queries, interrupts and the
\* Manager's switches interleave (Pool::operator->).
THEOREM BoundCorrect == Spec => []PoolIsBounded
<1>1. BoundInv /\ [Next]_vars => BoundInv'
    BY IInvStep, FreshStep, OwnedStep, SearchStep, BoundedStep DEF BoundInv
<1>2. BoundInv => PoolIsBounded
    BY DEF BoundInv
<1>3. QED
    BY BoundInit, <1>1, <1>2, PTL DEF Spec

-----------------------------------------------------------------------------
(* No circle of waits.  A mutex that is taken belongs to a thread between the  *)
(* taking and the release of it, and there no thread waits for a proxy's mutex,*)
(* nor with a pool's mutex for any.                                            *)

OwnerInv ==
    /\ \A p \in Proxies, u \in Clients : proxyMutex[p] = u =>
          pc[u] \in {"pool", "search", "take"} /\ Handle[u] = p
    /\ \A p \in Proxies : proxyMutex[p] = Manager =>
          pc[Manager] \in {"clear", "clearing", "sleep"} /\ visit = p
    /\ \A q \in Pools, u \in Clients : poolMutex[q] = u =>
          pc[u] \in {"search", "take", "interrupting"} /\ pool[u] = q
    /\ \A q \in Pools : poolMutex[q] = Manager =>
          pc[Manager] \in {"clearing", "sleep"} /\ pool[Manager] = q

LEMMA OwnerInit == Init => OwnerInv
BY ConstantsAssumption, ThreadFacts DEF Init, OwnerInv

LEMMA OwnerStep == IInv /\ OwnerInv /\ [Next]_vars => OwnerInv'
<1> SUFFICES ASSUME IInv, OwnerInv, [Next]_vars PROVE OwnerInv'
    OBVIOUS
<1> USE ConstantsAssumption, ThreadFacts, NumberFacts
    DEF IInv, TypeInv, TypeOK, HeapType, LockType, ThreadType,
        LabelType, ClientLabels, ManagerLabels, HasPool, GuardInv, OwnerInv,
        At, Goto, heap, guards, conns, place, loop, Terminate, Undefined
<1>1. ASSUME NEW u \in Clients, BeginExec(u) PROVE OwnerInv'
    BY <1>1 DEF BeginExec
<1>2. ASSUME NEW u \in Clients, EnterProxy(u) PROVE OwnerInv'
    BY <1>2 DEF EnterProxy, Guard
<1>3. ASSUME NEW u \in Clients, EnterPool(u) PROVE OwnerInv'
    BY <1>3 DEF EnterPool, GuardPool
<1>4. ASSUME NEW u \in Clients, TryNext(u) PROVE OwnerInv'
    BY <1>4 DEF TryNext, TryLock, Owned
<1>5. ASSUME NEW u \in Clients, MakeNew(u) PROVE OwnerInv'
    BY <1>5 DEF MakeNew, TryLock
<1>6. ASSUME NEW u \in Clients, Take(u) PROVE OwnerInv'
    BY <1>6 DEF Take, MoveLock, UnguardPool
<1>7. ASSUME NEW u \in Clients, StartExec(u) PROVE OwnerInv'
    BY <1>7 DEF StartExec
<1>8. ASSUME NEW u \in Clients, Iterate(u) PROVE OwnerInv'
    BY <1>8 DEF Iterate, More
<1>9. ASSUME NEW u \in Clients, EndExec(u) PROVE OwnerInv'
    BY <1>9 DEF EndExec, Unlock, More
<1>10. ASSUME NEW u \in Clients, BeginInterrupt(u) PROVE OwnerInv'
    BY <1>10 DEF BeginInterrupt
<1>11. ASSUME NEW u \in Clients, LockForInterrupt(u) PROVE OwnerInv'
    BY <1>11 DEF LockForInterrupt, GuardPool
<1>12. ASSUME NEW u \in Clients, InterruptNext(u) PROVE OwnerInv'
    BY <1>12 DEF InterruptNext
<1>13. ASSUME NEW u \in Clients, EndInterrupt(u) PROVE OwnerInv'
    BY <1>13 DEF EndInterrupt, UnguardPool
<1>14. CASE Activate
    BY <1>14 DEF Activate
<1>15. CASE Close
    BY <1>15 DEF Close
<1>16. CASE Use
    BY <1>16 DEF Use, Guard, NextProxy
<1>17. CASE Clear
    BY <1>17 DEF Clear, GuardPool
<1>18. CASE ClearInterrupts
    BY <1>18 DEF ClearInterrupts
<1>19. CASE ClearLocks
    BY <1>19 DEF ClearLocks, TryLock, Owned
<1>20. CASE Destroy
    BY <1>20 DEF Destroy, UnguardPool, NextProxy
<1>21. CASE UNCHANGED vars
    BY <1>21 DEF vars
<1>22. QED
    BY <1>1, <1>2, <1>3, <1>4, <1>5, <1>6, <1>7, <1>8, <1>9, <1>10, <1>11, <1>12,
       <1>13, <1>14, <1>15, <1>16, <1>17, <1>18, <1>19, <1>20, <1>21
    DEF Next, Query, Interrupt, Switch

\* The owner of a pool's mutex waits for nothing.
LEMMA PoolOwnerGoesOn ==
    ASSUME IInv, OwnerInv, NEW q \in Pools, poolMutex[q] # None
    PROVE  HoldsUp(poolMutex[q]) = None
<1>1. poolMutex[q] \in Threads
    BY DEF IInv, TypeInv, TypeOK, LockType
<1>2. pc[poolMutex[q]] \in {"search", "take", "interrupting", "clearing", "sleep"}
    BY <1>1, ThreadFacts DEF Threads, OwnerInv
<1>3. QED
    BY <1>2 DEF HoldsUp

\* The owner of a proxy's mutex waits for that of a pool, or for nothing.
LEMMA ProxyOwnerWaits ==
    ASSUME IInv, OwnerInv, NEW p \in Proxies, proxyMutex[p] # None
    PROVE  \/ HoldsUp(proxyMutex[p]) = None
           \/ \E q \in Pools : HoldsUp(proxyMutex[p]) = poolMutex[q]
<1> DEFINE h == proxyMutex[p]
<1>1. h \in Threads
    BY DEF IInv, TypeInv, TypeOK, LockType
<1>2. CASE h \in Clients
  <2>1. pc[h] \in {"pool", "search", "take"}
    BY <1>2 DEF OwnerInv
  <2>2. CASE pc[h] = "pool"
    <3>1. pool[h] \in Pools /\ HoldsUp(h) = poolMutex[pool[h]]
      BY <1>2, <2>2 DEF HoldsUp, IInv, TypeInv, HasPool
    <3>2. QED
      BY <3>1
  <2>3. CASE pc[h] \in {"search", "take"}
    BY <2>3 DEF HoldsUp
  <2>4. QED
    BY <2>1, <2>2, <2>3
<1>3. CASE h = Manager
  <2>1. pc[h] \in {"clear", "clearing", "sleep"}
    BY <1>3 DEF OwnerInv
  <2>2. CASE pc[h] = "clear"
    <3>1. pool[h] \in Pools /\ HoldsUp(h) = poolMutex[pool[h]]
      BY <1>3, <2>2 DEF HoldsUp, IInv, TypeInv, HasPool
    <3>2. QED
      BY <3>1
  <2>3. CASE pc[h] \in {"clearing", "sleep"}
    BY <2>3 DEF HoldsUp
  <2>4. QED
    BY <2>1, <2>2, <2>3
<1>4. QED
    BY <1>1, <1>2, <1>3 DEF Threads

LEMMA WaitsAreShort == IInv /\ OwnerInv => NoCircularWait
<1> SUFFICES ASSUME IInv, OwnerInv, NEW t \in Threads, HoldsUp(t) # None
             PROVE  HoldsUp(HoldsUp(t)) = None \/ HoldsUp(HoldsUp(HoldsUp(t))) = None
    BY DEF NoCircularWait
<1>1. CASE \E q \in Pools : HoldsUp(t) = poolMutex[q]
    BY <1>1, PoolOwnerGoesOn
<1>2. CASE \E p \in Proxies : HoldsUp(t) = proxyMutex[p]
  <2>1. PICK p \in Proxies : HoldsUp(t) = proxyMutex[p]
    BY <1>2
  <2>2. CASE HoldsUp(proxyMutex[p]) # None
    <3>1. PICK q \in Pools : HoldsUp(proxyMutex[p]) = poolMutex[q]
      BY <2>1, <2>2, ProxyOwnerWaits
    <3>2. HoldsUp(poolMutex[q]) = None
      BY <2>2, <3>1, PoolOwnerGoesOn
    <3>3. QED
      BY <2>1, <3>1, <3>2
  <2>3. QED
    BY <2>1, <2>2
<1>3. (\E q \in Pools : HoldsUp(t) = poolMutex[q])
         \/ \E p \in Proxies : HoldsUp(t) = proxyMutex[p]
  <2> USE ConstantsAssumption, ThreadFacts
      DEF IInv, TypeInv, TypeOK, LabelType, ThreadType, HasPool, ClientLabels, ManagerLabels
  <2>1. CASE pc[t] = "proxy"
    <3>1. Handle[t] \in Proxies /\ HoldsUp(t) = proxyMutex[Handle[t]]
      BY <2>1 DEF HoldsUp, Threads
    <3>2. QED
      BY <3>1
  <2>2. CASE pc[t] = "use"
    <3>1. visit \in Proxies /\ HoldsUp(t) = proxyMutex[visit]
      BY <2>2 DEF HoldsUp
    <3>2. QED
      BY <3>1
  <2>3. CASE pc[t] \in {"pool", "interrupt", "clear"}
    <3>1. pool[t] \in Pools
      BY <2>3 DEF Threads
    <3>2. HoldsUp(t) = poolMutex[pool[t]]
      BY <2>3 DEF HoldsUp
    <3>3. QED
      BY <3>1, <3>2
  <2>4. QED
    BY <2>1, <2>2, <2>3 DEF HoldsUp
<1>4. QED
    BY <1>1, <1>2, <1>3

\* However many clients, proxies and pools there are, threads that lock the mutexes
\* of proxies and pools never wait for each other in a circle, and no wait leads
\* over more than two others (Proxy::operator->, Proxy::use, Pool::interrupt,
\* Pool::clear).
THEOREM WaitsCorrect == Spec => []NoCircularWait
<1> DEFINE J == IInv /\ OwnerInv
<1>1. Init => J
    BY IInvInit, OwnerInit
<1>2. J /\ [Next]_vars => J'
    BY IInvStep, OwnerStep
<1>3. J => NoCircularWait
    BY WaitsAreShort
<1>4. QED
    BY <1>1, <1>2, <1>3, PTL DEF Spec

-----------------------------------------------------------------------------
(* DbPool implements DbHandle: taking a connection opens the query, the end *)
(* of exec() ends it, and a switch happens when the old pool is destroyed,  *)
(* or, if there was none, when m_a is assigned.                             *)

HCurrent == [p \in Proxies |-> IF Clearing(p) THEN pool[Manager] ELSE target[p]]
HRunning == [u \in Clients |-> IF Runs(u) THEN pool[u] ELSE None]

LEMMA HInit == Init => H!Init
BY ConstantsAssumption, ThreadFacts
   DEF Init, H!Init, Clearing, Runs, None

HVars == <<HCurrent, HRunning>>

LEMMA HStep ==
    IInv /\ NoQueryInDeadPool' /\ [Next]_vars => H!Next \/ UNCHANGED HVars
<1> SUFFICES ASSUME IInv, NoQueryInDeadPool', [Next]_vars
             PROVE  H!Next \/ UNCHANGED HVars
    OBVIOUS
<1> USE ConstantsAssumption, ThreadFacts
    DEF IInv, TypeInv, TypeOK, LabelType, ClientLabels, ManagerLabels, ThreadType, HeapType,
        HasPool, HVars, HCurrent, HRunning, Runs, Clearing,
        At, Goto, heap, guards, conns, place, loop, Terminate, Undefined
<1>1. ASSUME NEW u \in Clients, BeginExec(u) PROVE H!Next \/ UNCHANGED HVars
    BY <1>1 DEF BeginExec
<1>2. ASSUME NEW u \in Clients, EnterProxy(u) PROVE H!Next \/ UNCHANGED HVars
    BY <1>2 DEF EnterProxy, Guard
<1>3. ASSUME NEW u \in Clients, EnterPool(u) PROVE H!Next \/ UNCHANGED HVars
    BY <1>3 DEF EnterPool, GuardPool
<1>4. ASSUME NEW u \in Clients, TryNext(u) PROVE H!Next \/ UNCHANGED HVars
    BY <1>4 DEF TryNext, TryLock, Owned
<1>5. ASSUME NEW u \in Clients, MakeNew(u) PROVE H!Next \/ UNCHANGED HVars
    BY <1>5 DEF MakeNew, TryLock
<1>6. ASSUME NEW u \in Clients, Take(u) PROVE H!Next \/ UNCHANGED HVars
  <2>1. HCurrent[Handle[u]] = pool[u] /\ pool[u] # None
    BY <1>6, NumberFacts DEF Take, GuardInv
  <2>2. HRunning[u] = None /\ HCurrent' = HCurrent
    BY <1>6 DEF Take
  <2>3. HRunning' = [HRunning EXCEPT ![u] = pool[u]]
    BY <1>6 DEF Take
  <2>4. H!Open(u)
    BY <2>1, <2>2, <2>3 DEF H!Open, HCurrent, HRunning, None
  <2>5. QED
    BY <2>4 DEF H!Next
<1>7. ASSUME NEW u \in Clients, StartExec(u) PROVE H!Next \/ UNCHANGED HVars
    BY <1>7 DEF StartExec
<1>8. ASSUME NEW u \in Clients, Iterate(u) PROVE H!Next \/ UNCHANGED HVars
    BY <1>8 DEF Iterate, More
<1>9. ASSUME NEW u \in Clients, EndExec(u) PROVE H!Next \/ UNCHANGED HVars
  <2>1. HRunning[u] # None /\ HCurrent' = HCurrent
    BY <1>9, NumberFacts DEF EndExec
  <2>2. HRunning' = [HRunning EXCEPT ![u] = None]
    BY <1>9 DEF EndExec
  <2>3. H!Done(u)
    BY <2>1, <2>2 DEF H!Done, HCurrent, HRunning, None
  <2>4. QED
    BY <2>3 DEF H!Next
<1>10. ASSUME NEW u \in Clients, BeginInterrupt(u) PROVE H!Next \/ UNCHANGED HVars
    BY <1>10 DEF BeginInterrupt
<1>11. ASSUME NEW u \in Clients, LockForInterrupt(u) PROVE H!Next \/ UNCHANGED HVars
    BY <1>11 DEF LockForInterrupt, GuardPool
<1>12. ASSUME NEW u \in Clients, InterruptNext(u) PROVE H!Next \/ UNCHANGED HVars
    BY <1>12 DEF InterruptNext
<1>13. ASSUME NEW u \in Clients, EndInterrupt(u) PROVE H!Next \/ UNCHANGED HVars
    BY <1>13 DEF EndInterrupt, UnguardPool
<1>14. CASE Activate
    BY <1>14 DEF Activate
<1>15. CASE Close
    BY <1>15 DEF Close
<1>16. CASE Use
  <2>1. CASE target[visit] # None
    <3>1. HCurrent' = HCurrent /\ HRunning' = HRunning
      BY <1>16, <2>1 DEF Use
    <3>2. QED
      BY <3>1
  <2>2. CASE target[visit] = None
    <3>1. \A u \in Clients : Handle[u] = visit => HRunning[u] = None
      BY <1>16, <2>2, NumberFacts DEF Use, RunInv, Current
    <3>2. HRunning' = HRunning /\ visit \in Proxies
      BY <1>16, <2>2 DEF Use, NextProxy
    <3>3. PICK q \in Pools \cup {0} : target' = [target EXCEPT ![visit] = q]
      <4>1. CASE closing
        BY <1>16, <4>1 DEF Use, None
      <4>2. CASE ~closing
        <5>1. made + 1 \in Pools
          BY <1>16, <4>2, NumberFacts DEF Use, Room, Pools
        <5>2. QED
          BY <1>16, <4>2, <5>1 DEF Use
      <4>3. QED
        BY <4>1, <4>2
    <3>4. HCurrent' = [HCurrent EXCEPT ![visit] = q] /\ HCurrent[visit] = 0
      BY <1>16, <2>2, <3>3 DEF Use, NextProxy, None
    <3>5. q = 0 \/ q > HCurrent[visit]
      BY <3>4, NumberFacts DEF Pools
    <3>6. PICK p \in Proxies : p = visit
      BY <3>2
    <3>7. H!Switch(p)
      BY <3>1, <3>2, <3>4, <3>5, <3>6 DEF H!Switch, HCurrent, HRunning, None
    <3>8. QED
      BY <3>7 DEF H!Next
  <2>3. QED
    BY <2>1, <2>2
<1>17. CASE Clear
    BY <1>17 DEF Clear, GuardPool
<1>18. CASE ClearInterrupts
    BY <1>18 DEF ClearInterrupts
<1>19. CASE ClearLocks
    BY <1>19 DEF ClearLocks, TryLock, Owned
<1>20. CASE Destroy
  <2>1. \A u \in Clients : Handle[u] = visit => HRunning[u] = None
    <3>1. ASSUME NEW u \in Clients, Runs(u)' PROVE pool'[u] \notin dead'
      BY <3>1 DEF NoQueryInDeadPool, Holds, Runs
    <3>2. ASSUME NEW u \in Clients, Handle[u] = visit, Runs(u) PROVE FALSE
      <4>1. pool[u] = pool[Manager]
        BY <1>20, <3>2 DEF Destroy, RunInv, Current
      <4>2. Runs(u)' /\ pool'[u] = pool[u] /\ pool[Manager] \in dead'
        BY <1>20, <3>2 DEF Destroy, NextProxy
      <4>3. QED
        BY <3>1, <4>1, <4>2
    <3>3. QED
      BY <3>2
  <2>2. HRunning' = HRunning /\ visit \in Proxies
    BY <1>20 DEF Destroy, NextProxy
  <2>3. HCurrent' = [HCurrent EXCEPT ![visit] = target[visit]]
    BY <1>20 DEF Destroy, NextProxy
  <2>4. HCurrent[visit] = pool[Manager]
    BY <1>20 DEF Destroy
  <2>5. target[visit] \in Pools \cup {0} /\ (target[visit] = 0 \/ target[visit] > pool[Manager])
    BY <1>20, NumberFacts DEF Destroy, TargetInv, None
  <2>6. PICK p \in Proxies : p = visit
    BY <2>2
  <2>7. H!Switch(p)
    BY <2>1, <2>2, <2>3, <2>4, <2>5, <2>6 DEF H!Switch, HCurrent, HRunning, None
  <2>8. QED
    BY <2>7 DEF H!Next
<1>21. CASE UNCHANGED vars
    BY <1>21 DEF vars
<1>22. QED
    BY <1>1, <1>2, <1>3, <1>4, <1>5, <1>6, <1>7, <1>8, <1>9, <1>10, <1>11, <1>12,
       <1>13, <1>14, <1>15, <1>16, <1>17, <1>18, <1>19, <1>20, <1>21
    DEF Next, Query, Interrupt, Switch

\* Queries see a switch as one step between queries: DbPool implements DbHandle.
THEOREM Refinement == Spec => ImplementsHandle
<1>1. IInv /\ NoQueryInDeadPool' /\ [Next]_vars => [H!Next]_(H!vars)
    BY HStep DEF H!vars, HVars, HCurrent, HRunning
<1>2. QED
    BY HInit, <1>1, Invariance, AliveCorrect, PTL DEF Spec, ImplementsHandle, H!Spec
=============================================================================
