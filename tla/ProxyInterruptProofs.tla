------------------------ MODULE ProxyInterruptProofs -------------------------
(* Proofs about ProxyInterrupt, for any number of databases, iterations and *)
(* requests.                                                                *)
EXTENDS ProxyInterrupt, TLAPS

\* The databases are numbered in the order in which use() installs them.
OrderInv ==
    /\ db <= step
    /\ mainAt \in {"interrupt", "replace"} => db < step
    /\ mainAt \in {"raise", "sleep"} => step <= NDbs

\* Requests are left while the task has not ended.
RequestInv == taskAt # "over" => requests > 0

\* The mutex is held while a query is under way, and then on m_db.
QueryInv ==
    /\ taskAt \in {"start", "run"} => locked
    /\ locked => taskAt \in {"start", "run", "terminated"} /\ held = db /\ db # None
    /\ ~locked => held = None

IInv == StateType /\ OrderInv /\ RequestInv /\ QueryInv

LEMMA IInvInit == Init => IInv
<1> USE SizesAssumption DEF Init, Databases, None
<1>1. Init => StateType
    BY DEF StateType
<1>2. Init => OrderInv /\ RequestInv /\ QueryInv
    BY DEF OrderInv, RequestInv, QueryInv
<1>3. QED
    BY <1>1, <1>2 DEF IInv

LEMMA IInvStep == IInv /\ [Next]_vars => IInv'
<1> SUFFICES ASSUME IInv, [Next]_vars PROVE IInv'
    OBVIOUS
<1> USE SizesAssumption
    DEF IInv, StateType, OrderInv, RequestInv, QueryInv, Databases, None, main, task, Running
<1>1. CASE UseInterrupt
    BY <1>1 DEF UseInterrupt
<1>2. CASE UseReplace
    BY <1>2 DEF UseReplace, Free
<1>3. CASE Raise
    BY <1>3 DEF Raise
<1>4. CASE Lower
    BY <1>4 DEF Lower
<1>5. CASE Join
    BY <1>5 DEF Join
<1>6. CASE Wait
    BY <1>6 DEF Wait
<1>7. CASE Loop
    BY <1>7 DEF Loop, NextRequest
<1>8. CASE Enter
    BY <1>8 DEF Enter, Terminate
<1>9. CASE Start
  <2>1. CASE ongoing[held]
    BY <1>9, <2>1 DEF Start, Terminate
  <2>2. CASE ~ongoing[held]
    BY <1>9, <2>2 DEF Start
  <2>3. QED
    BY <2>1, <2>2
<1>10. CASE Iterate
    BY <1>10 DEF Iterate, More
<1>11. CASE Interrupted
    BY <1>11 DEF Interrupted, Unlock, NextRequest
<1>12. CASE Finish
    BY <1>12 DEF Finish, Unlock
<1>13. CASE Checkpoint
    BY <1>13 DEF Checkpoint, NextRequest
<1>14. CASE UNCHANGED vars
    BY <1>14 DEF vars
<1>15. QED
    BY <1>1, <1>2, <1>3, <1>4, <1>5, <1>6, <1>7, <1>8, <1>9, <1>10, <1>11, <1>12,
       <1>13, <1>14
    DEF Next, Main, Use, Task, Query

LEMMA Invariance == Spec => []IInv
BY IInvInit, IInvStep, PTL DEF Spec

LEMMA FlagInit == Init => FlagType
BY DEF Init, FlagType

LEMMA FlagStep == IInv /\ FlagType /\ [Next]_vars => FlagType'
<1> SUFFICES ASSUME IInv, FlagType, [Next]_vars PROVE FlagType'
    OBVIOUS
<1> USE DEF IInv, FlagType, main, task
<1>1. CASE UseInterrupt
    BY <1>1 DEF UseInterrupt, StateType, None
<1>2. CASE UseReplace
    BY <1>2 DEF UseReplace
<1>3. CASE Raise
    BY <1>3 DEF Raise
<1>4. CASE Lower
    BY <1>4 DEF Lower
<1>5. CASE Join
    BY <1>5 DEF Join
<1>6. CASE Wait
    BY <1>6 DEF Wait
<1>7. CASE Loop
    BY <1>7 DEF Loop, NextRequest
<1>8. CASE Enter
    BY <1>8 DEF Enter, Terminate, StateType, None
<1>9. CASE Start
    BY <1>9 DEF Start, Terminate, StateType, QueryInv, None
<1>10. CASE Iterate
    BY <1>10 DEF Iterate
<1>11. CASE Interrupted
    BY <1>11 DEF Interrupted, Unlock, NextRequest
<1>12. CASE Finish
    BY <1>12 DEF Finish, Unlock
<1>13. CASE Checkpoint
    BY <1>13 DEF Checkpoint, NextRequest
<1>14. CASE UNCHANGED vars
    BY <1>14 DEF vars
<1>15. QED
    BY <1>1, <1>2, <1>3, <1>4, <1>5, <1>6, <1>7, <1>8, <1>9, <1>10, <1>11, <1>12, <1>13, <1>14
    DEF Next, Main, Use, Task, Query

\* Every variable of 00-proxy-interrupt.cpp keeps its type.
THEOREM TypeCorrect == Spec => []TypeOK
BY FlagInit, FlagStep, Invariance, PTL DEF Spec, IInv, TypeOK

-----------------------------------------------------------------------------
HCurrent == [p \in {1} |-> db]
HRunning == [c \in {"task"} |-> held]

LEMMA HInit == Init => H!Init
BY DEF Init, H!Init, None

\* Locking, unlocking and replacing are the steps of the abstract handle.
LEMMA HStep ==
    IInv /\ [Next]_vars => H!Next \/ UNCHANGED <<HCurrent, HRunning>>
<1> SUFFICES ASSUME IInv, [Next]_vars
             PROVE  H!Next \/ UNCHANGED <<HCurrent, HRunning>>
    OBVIOUS
<1> USE SizesAssumption
    DEF IInv, StateType, OrderInv, QueryInv, Databases, None, main, task, HCurrent, HRunning
<1>1. CASE UseReplace
  <2>1. PICK q \in Databases \cup {0} : db' = q /\ (q = 0 \/ q > db)
    BY <1>1 DEF UseReplace
  <2>2. held = 0 /\ held' = 0
    BY <1>1 DEF UseReplace, Free
  <2>3. H!Switch(1)
    BY <2>1, <2>2 DEF H!Switch
  <2>4. QED
    BY <2>3 DEF H!Next
<1>2. CASE Enter
  <2>1. CASE db = None
    BY <1>2, <2>1 DEF Enter, Terminate
  <2>2. CASE db # None
    <3>1. H!Open("task")
      BY <1>2, <2>2 DEF Enter, H!Open
    <3>2. QED
      BY <3>1 DEF H!Next
  <2>3. QED
    BY <2>1, <2>2
<1>3. ASSUME Interrupted \/ Finish PROVE H!Next
  <2>1. held # 0 /\ held' = 0 /\ db' = db
    BY <1>3 DEF Interrupted, Finish
  <2>2. H!Done("task")
    BY <2>1 DEF H!Done
  <2>3. QED
    BY <2>2 DEF H!Next
<1>4. ASSUME UseInterrupt \/ Raise \/ Lower \/ Join \/ Wait \/ Loop \/ Start \/ Iterate
             \/ Checkpoint \/ UNCHANGED vars
      PROVE  UNCHANGED <<HCurrent, HRunning>>
    BY <1>4 DEF UseInterrupt, Raise, Lower, Join, Wait, Loop, Start, Iterate, Checkpoint,
                NextRequest, Terminate, vars
<1>5. QED
    BY <1>1, <1>2, <1>3, <1>4 DEF Next, Main, Use, Task, Query

\* Queries see a replacement as one step between queries: the program implements
\* DbHandle although use() interrupts the query without the mutex.
THEOREM Refinement == Spec => ImplementsHandle
<1>1. IInv /\ [Next]_vars => [H!Next]_(H!vars)
    BY HStep DEF H!vars, HCurrent, HRunning
<1>2. QED
    BY HInit, <1>1, Invariance, PTL DEF Spec, ImplementsHandle, H!Spec
=============================================================================
