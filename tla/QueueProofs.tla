---------------------------- MODULE QueueProofs -----------------------------
(***************************************************************************)
(* Theorems about QueueSystem, for any number of tasks, producers and      *)
(* consumers.                                                              *)
(***************************************************************************)
EXTENDS QueueSystem, SequenceFacts, TLAPS

-----------------------------------------------------------------------------
(* Type correctness.  The take needs a task: whoever holds the mutex inside *)
(* pop has seen the queue not empty, and nobody else touches it meanwhile.  *)

TakingInv ==
    \A c \in taking :
        taking = {c} /\ c \notin nonempty /\ loop[c] = "pop" /\ queue # <<>>

LEMMA TakingCorrect == Spec => [](TypeOK /\ TakingInv)
<1>1. Init => TypeOK /\ TakingInv
  <2> SUFFICES ASSUME Init PROVE TypeOK /\ TakingInv
    OBVIOUS
  <2>1. QueueTypeOK
    <3>1. queue \in Seq(Tasks)
      BY DEF Init, QueueInit
    <3>2. blocked \in BOOLEAN
      BY Zenon DEF Init, QueueInit
    <3>3. nonempty \in SUBSET Consumers
      BY DEF Init, QueueInit
    <3>4. stopped \in [Consumers -> BOOLEAN]
      BY Zenon DEF Init, QueueInit
    <3>5. extracted \in [Consumers -> BOOLEAN]
      BY Zenon DEF Init, QueueInit
    <3>6. taking \in SUBSET Consumers
      BY DEF Init, QueueInit
    <3>7. QED
      BY <3>1, <3>2, <3>3, <3>4, <3>5, <3>6 DEF QueueTypeOK
  <2>2. /\ at \in [Producers -> {"idle", "stopping", "storing"}]
        /\ loop \in [Consumers -> {"pop", "busy", "done"}]
    BY DEF Init
  <2>3. clock \in Nat /\ stamp \in [Tasks -> Nat]
    BY DEF Init
  <2>4. taken \in SUBSET Tasks /\ dropped \in SUBSET Tasks
    BY DEF Init
  <2>5. TakingInv
    BY DEF Init, QueueInit, TakingInv
  <2>6. QED
    BY <2>1, <2>2, <2>3, <2>4, <2>5 DEF TypeOK
<1>2. TypeOK /\ TakingInv /\ [Next]_vars => TypeOK' /\ TakingInv'
  <2> SUFFICES ASSUME TypeOK, TakingInv, [Next]_vars PROVE TypeOK' /\ TakingInv'
    OBVIOUS
  <2> USE DEF TypeOK, QueueTypeOK, history, TakingInv, MutexFree
  <2>1. ASSUME NEW p \in Producers, NEW v \in Tasks, NEW b \in BOOLEAN,
               Pushes(p, v, b)
        PROVE  TypeOK' /\ TakingInv'
    <3>1. queue' \in Seq(Tasks)
      BY <2>1 DEF Pushes, Push
    <3>2. nonempty' \in SUBSET Consumers
      BY <2>1 DEF Pushes, Push, NotifyOne
    <3>3. dropped' \in SUBSET Tasks
      BY <2>1 DEF Pushes, Push, Range
    <3>4. QED
      BY <2>1, <3>1, <3>2, <3>3 DEF Pushes, Push
  <2>2. ASSUME NEW p \in Producers, Clears(p) PROVE TypeOK' /\ TakingInv'
    BY <2>2 DEF Clears, Clear, Range
  <2>3. ASSUME NEW p \in Producers, NEW b \in BOOLEAN, Blocks(p, b) PROVE TypeOK' /\ TakingInv'
    BY <2>3 DEF Blocks, BlockStore
  <2>4. ASSUME NEW p \in Producers, Notifies(p) PROVE TypeOK' /\ TakingInv'
    BY <2>4 DEF Notifies, BlockNotify, NotifyOne
  <2>5. ASSUME NEW p \in Producers, NEW c \in Consumers, Stops(p, c) PROVE TypeOK' /\ TakingInv'
    BY <2>5 DEF Stops
  <2>6. ASSUME NEW c \in Consumers, PopSleeps(c) PROVE TypeOK' /\ TakingInv'
    BY <2>6 DEF PopSleeps, PopSleep
  <2>7. ASSUME NEW c \in Consumers, PopEnds(c) PROVE TypeOK' /\ TakingInv'
    BY <2>7 DEF PopEnds, PopEnd, qvars
  <2>8. ASSUME NEW c \in Consumers, PopTakes(c) PROVE TypeOK' /\ TakingInv'
    <3>1. queue # <<>>
      BY <2>8 DEF PopTakes, PopTake
    <3>2. queue' \in Seq(Tasks) /\ Head(queue) \in Tasks
      BY <2>8, <3>1, TailFacts DEF PopTakes, PopTake
    <3>3. QED
      BY <2>8, <3>2 DEF PopTakes, PopTake
  <2>9. ASSUME NEW c \in Consumers, NEW stop \in BOOLEAN, Works(c, stop)
        PROVE  TypeOK' /\ TakingInv'
    BY <2>9 DEF Works
  <2>10. ASSUME NEW c \in Consumers, Wakes(c) PROVE TypeOK' /\ TakingInv'
    BY <2>10 DEF Wakes, SpuriousWake
  <2>11. CASE UNCHANGED vars
    BY <2>11 DEF vars, qvars
  <2>12. ASSUME NEW c \in Consumers, PopDecides(c) PROVE TypeOK' /\ TakingInv'
    BY <2>12 DEF PopDecides, PopDecide, Ready, Empty
  <2>13. ASSUME NEW c \in Consumers, PopExtracts(c) PROVE TypeOK' /\ TakingInv'
    BY <2>13 DEF PopExtracts, PopExtract
  <2>14. QED
    BY <2>1, <2>2, <2>3, <2>4, <2>5, <2>6, <2>7, <2>8, <2>9, <2>10, <2>11, <2>12,
       <2>13
       DEF Next, Produce, Consume
<1>3. QED
  BY <1>1, <1>2, PTL DEF Spec

\* Every variable of the queue and its users keeps its type, for any numbers of
\* tasks, producers and consumers (async_queue.cpp, main).
THEOREM TypeCorrect == Spec => []TypeOK
BY TakingCorrect, PTL

-----------------------------------------------------------------------------
(* Order and ownership.  Neither ExactlyOnce nor Fifo is inductive: a push  *)
(* keeps the queue sorted because no stamp exceeds the clock, and keeps the *)
(* owners apart because a fresh task has no owner.                          *)

StampsPast == \A v \in Tasks : stamp[v] \in 0..clock

OrderInv == TypeOK /\ StampsPast /\ ExactlyOnce /\ Fifo

\* Every task pushed has one owner and pop returns tasks in push order (push,
\* clear, clear_push and pop of async_queue.cpp).
THEOREM OrderCorrect == Spec => [](ExactlyOnce /\ Fifo)
<1>1. Init /\ TypeOK => OrderInv
  <2> SUFFICES ASSUME Init, TypeOK PROVE OrderInv
    OBVIOUS
  <2>1. /\ Range(queue) = {} /\ DOMAIN queue = {}
        /\ taken = {} /\ dropped = {} /\ clock = 0
        /\ \A v \in Tasks : stamp[v] = 0
    BY EmptyRange DEF Init, QueueInit
  <2>2. QED
    BY <2>1 DEF OrderInv, StampsPast, ExactlyOnce, Fifo
<1>2. OrderInv /\ TakingInv /\ TypeOK' /\ [Next]_vars => OrderInv'
  <2> SUFFICES ASSUME OrderInv, TakingInv, TypeOK', [Next]_vars PROVE OrderInv'
    OBVIOUS
  <2> USE DEF OrderInv
  <2>T. /\ queue \in Seq(Tasks) /\ clock \in Nat /\ stamp \in [Tasks -> Nat]
        /\ taken \in SUBSET Tasks /\ dropped \in SUBSET Tasks
        /\ Range(queue) \subseteq Tasks
        /\ \A i \in DOMAIN queue : queue[i] \in Range(queue) /\ stamp[queue[i]] \in Nat
        /\ DOMAIN queue \subseteq Nat
    BY DEF TypeOK, QueueTypeOK, Range
  <2>1. ASSUME NEW p \in Producers, NEW v \in Tasks, NEW b \in BOOLEAN,
               Pushes(p, v, b)
        PROVE  OrderInv'
    <3> DEFINE q == IF b THEN <<>> ELSE queue
    <3>1. /\ stamp[v] = 0 /\ clock' = clock + 1 /\ taken' = taken
          /\ stamp' = [stamp EXCEPT ![v] = clock + 1]
          /\ dropped' = IF b THEN dropped \cup Range(queue) ELSE dropped
          /\ queue' = Append(q, v)
      BY <2>1 DEF Pushes, Push
    <3>2. q \in Seq(Tasks)
      BY <2>T
    <3>3. v \notin Range(queue) \cup taken \cup dropped
      BY <3>1 DEF ExactlyOnce
    <3>4. /\ Range(q) \subseteq Range(queue)
          /\ Range(q) \cup taken' \cup dropped' = Range(queue) \cup taken \cup dropped
          /\ Range(q) \cap (taken' \cup dropped') = {}
          /\ taken' \cap dropped' = {}
      BY <3>1, EmptyRange DEF ExactlyOnce
    <3>5. /\ \A i, j \in DOMAIN q : q[i] = q[j] => i = j
          /\ \A i, j \in DOMAIN q : i < j => stamp[q[i]] < stamp[q[j]]
          /\ \A x \in taken : \A i \in DOMAIN q : stamp[x] < stamp[q[i]]
          /\ \A i \in DOMAIN q : q[i] \in Range(q) /\ q[i] \in Tasks
      BY <3>2 DEF ExactlyOnce, Fifo, Range
    <3> HIDE DEF q
    <3>6. /\ DOMAIN queue' = DOMAIN q \cup {Len(q) + 1}
          /\ queue'[Len(q) + 1] = v
          /\ \A i \in DOMAIN q : queue'[i] = q[i] /\ i < Len(q) + 1
          /\ Range(queue') = Range(q) \cup {v}
      BY <3>1, <3>2, AppendFacts
    <3>7. StampsPast'
      BY <3>1, <2>T DEF StampsPast
    <3>8. \A x \in Tasks : x # v => stamp'[x] = stamp[x] /\ stamp[x] < clock + 1
      BY <3>1, <2>T DEF StampsPast
    <3>9. stamp'[v] = clock + 1 /\ clock + 1 # 0
      BY <3>1, <2>T
    <3>10. ExactlyOnce'
      <4>1. \A x \in Tasks :
               stamp'[x] # 0 <=> x \in Range(queue') \cup taken' \cup dropped'
        BY <3>3, <3>4, <3>6, <3>8, <3>9 DEF ExactlyOnce
      <4>2. Range(queue') \cap (taken' \cup dropped') = {}
        BY <3>3, <3>4, <3>6
      <4>3. \A i, j \in DOMAIN queue' : queue'[i] = queue'[j] => i = j
        BY <3>3, <3>4, <3>5, <3>6
      <4>4. QED
        BY <4>1, <4>2, <4>3, <3>4 DEF ExactlyOnce
    <3>11. Fifo'
      <4>1. \A i \in DOMAIN q : /\ queue'[i] = q[i]
                                /\ stamp'[q[i]] = stamp[q[i]]
                                /\ stamp[q[i]] < clock + 1
        BY <3>3, <3>4, <3>5, <3>6, <3>8
      <4>2. ASSUME NEW i \in DOMAIN queue', NEW j \in DOMAIN queue', i < j
            PROVE  stamp'[queue'[i]] < stamp'[queue'[j]]
        <5>1. i \in DOMAIN q
          <6>1. DOMAIN q = 1..Len(q) /\ Len(q) \in Nat
            BY <3>2
          <6>2. QED
            BY <4>2, <3>6, <6>1
        <5>2. CASE j = Len(q) + 1
          BY <5>1, <5>2, <4>1, <3>6, <3>9
        <5>3. CASE j \in DOMAIN q
          BY <5>1, <5>3, <4>1, <3>5, <4>2
        <5>4. QED
          BY <5>2, <5>3, <3>6
      <4>3. ASSUME NEW x \in taken', NEW i \in DOMAIN queue'
            PROVE  stamp'[x] < stamp'[queue'[i]]
        <5>1. x \in taken /\ x \in Tasks /\ x # v
          BY <4>3, <3>1, <3>3, <2>T
        <5>2. CASE i = Len(q) + 1
          BY <5>1, <5>2, <3>6, <3>8, <3>9
        <5>3. CASE i \in DOMAIN q
          BY <5>1, <5>3, <4>1, <3>5, <3>8
        <5>4. QED
          BY <5>2, <5>3, <3>6
      <4>4. QED
        BY <4>2, <4>3 DEF Fifo
    <3>12. QED
      BY <3>7, <3>10, <3>11
  <2>2. ASSUME NEW p \in Producers, Clears(p) PROVE OrderInv'
    <3>1. /\ queue' = <<>> /\ dropped' = dropped \cup Range(queue)
          /\ UNCHANGED <<taken, clock, stamp>>
      BY <2>2 DEF Clears, Clear
    <3>2. Range(queue') = {} /\ DOMAIN queue' = {}
      BY <3>1, EmptyRange
    <3>3. QED
      BY <3>1, <3>2 DEF StampsPast, ExactlyOnce, Fifo
  <2>3. ASSUME NEW c \in Consumers, PopTakes(c) PROVE OrderInv'
    <3>1. /\ queue # <<>> /\ queue' = Tail(queue)
          /\ taken' = taken \cup {Head(queue)}
          /\ UNCHANGED <<dropped, clock, stamp>>
      BY <2>3 DEF PopTakes, PopTake, TakingInv
    <3>2. /\ Head(queue) \in Tasks
          /\ Head(queue) = queue[1]
          /\ 1 \in DOMAIN queue
          /\ \A i \in DOMAIN queue' :
                i + 1 \in DOMAIN queue /\ queue'[i] = queue[i + 1] /\ 1 < i + 1
          /\ Range(queue) = Range(queue') \cup {Head(queue)}
      BY <3>1, <2>T, TailFacts
    <3>3. DOMAIN queue' \subseteq Nat
      BY DEF TypeOK, QueueTypeOK
    <3>4. Head(queue) \notin Range(queue')
      <4>1. SUFFICES ASSUME NEW i \in DOMAIN queue', queue'[i] = Head(queue)
                     PROVE  FALSE
        BY DEF Range
      <4>2. i + 1 \in DOMAIN queue /\ queue[i + 1] = queue[1] /\ 1 < i + 1
        BY <4>1, <3>2
      <4>3. i + 1 = 1
        BY <4>2, <3>2 DEF ExactlyOnce
      <4>4. QED
        BY <4>2, <4>3, <3>3
    <3>5. \A i, j \in DOMAIN queue' : queue'[i] = queue'[j] => i = j
      <4>1. SUFFICES ASSUME NEW i \in DOMAIN queue', NEW j \in DOMAIN queue',
                            queue'[i] = queue'[j]
                     PROVE  i = j
        OBVIOUS
      <4>2. i + 1 = j + 1
        BY <4>1, <3>2 DEF ExactlyOnce
      <4>3. QED
        BY <4>2, <3>3
    <3>6. ExactlyOnce'
      BY <3>1, <3>2, <3>4, <3>5 DEF ExactlyOnce
    <3>7. ASSUME NEW i \in DOMAIN queue', NEW j \in DOMAIN queue', i < j
          PROVE  stamp'[queue'[i]] < stamp'[queue'[j]]
      <4>1. i + 1 < j + 1
        BY <3>7, <3>3
      <4>2. QED
        BY <4>1, <3>1, <3>2 DEF Fifo
    <3>8. ASSUME NEW x \in taken', NEW i \in DOMAIN queue'
          PROVE  stamp'[x] < stamp'[queue'[i]]
      BY <3>8, <3>1, <3>2 DEF Fifo
    <3>9. QED
      BY <3>1, <3>6, <3>7, <3>8 DEF StampsPast, Fifo
  <2>4. CASE UNCHANGED <<queue, history>>
    BY <2>4 DEF history, StampsPast, ExactlyOnce, Fifo
  <2>5. QED
    <3>1. ASSUME NEW p \in Producers, Produce(p) PROVE OrderInv'
      BY <3>1, <2>1, <2>2, <2>4
         DEF Produce, Blocks, BlockStore, Notifies, BlockNotify, Stops, history
    <3>2. ASSUME NEW c \in Consumers, Consume(c) \/ Wakes(c) PROVE OrderInv'
      BY <3>2, <2>3, <2>4
         DEF Consume, PopSleeps, PopSleep, PopEnds, PopEnd, PopDecides, PopDecide,
             PopExtracts, PopExtract, qvars, Works, Wakes, SpuriousWake, history
    <3>3. CASE UNCHANGED vars
      BY <3>3, <2>4 DEF vars, qvars, history
    <3>4. QED
      BY <3>1, <3>2, <3>3 DEF Next
<1>3. QED
  BY <1>1, <1>2, TakingCorrect, PTL DEF Spec, OrderInv

\* Tasks are handed out in the order of their pushes, whatever producers clear, block
\* and stop in between (async_queue.cpp, push and pop).
THEOREM FifoCorrect == Spec => []Fifo
BY OrderCorrect, PTL

-----------------------------------------------------------------------------
(* Wakeups.  A notification may reach a consumer that is about to leave, so *)
(* the theorem needs one consumer only, or consumers that never leave.      *)

Alone == \A c, d \in Consumers : c = d
NobodyLeaves == Stoppable = {} /\ Ends = {}

AsleepInPop == \A c \in nonempty : loop[c] = "pop"
NobodyLeft ==
    NobodyLeaves => \A c \in Consumers : stopped[c] = FALSE /\ loop[c] # "done"

WakeInv == TypeOK /\ AsleepInPop /\ NobodyLeft /\ NoLostWakeup

\* A notification that finds sleepers leaves one of them awake in pop.
LEMMA NotifyWakes ==
    ASSUME TypeOK, AsleepInPop, NotifyOne, loop' = loop
    PROVE  AsleepInPop' /\ (nonempty' = {} \/ SomeoneAwake')
<1>1. CASE nonempty = {}
  BY <1>1 DEF NotifyOne, AsleepInPop
<1>2. CASE nonempty # {}
  <2>1. PICK c \in nonempty : nonempty' = nonempty \ {c}
    BY <1>2 DEF NotifyOne
  <2>2. c \in Consumers /\ loop'[c] = "pop" /\ c \notin nonempty'
    BY <2>1 DEF TypeOK, QueueTypeOK, AsleepInPop
  <2>3. SomeoneAwake'
    BY <2>2 DEF SomeoneAwake
  <2>4. QED
    BY <2>1, <2>3 DEF AsleepInPop
<1>3. QED
  BY <1>1, <1>2

\* A sleeper for which pop's condition holds is never forgotten: push, block
\* and pop of async_queue.cpp lose no wakeup.
THEOREM WakeupCorrect ==
    ASSUME Alone \/ NobodyLeaves
    PROVE  Spec => []NoLostWakeup
<1>1. Init /\ TypeOK => WakeInv
  <2> SUFFICES ASSUME Init, TypeOK PROVE WakeInv
    OBVIOUS
  <2>1. nonempty = {}
    BY DEF Init, QueueInit
  <2>2. NobodyLeft
    <3>1. ASSUME NEW c \in Consumers PROVE stopped[c] = FALSE /\ loop[c] # "done"
      <4>1. stopped[c] = FALSE
        BY Zenon DEF Init, QueueInit
      <4>2. loop[c] = "pop"
        BY DEF Init
      <4>3. QED
        BY <4>1, <4>2
    <3>2. QED
      BY <3>1 DEF NobodyLeft
  <2>3. QED
    BY <2>1, <2>2 DEF WakeInv, AsleepInPop, NoLostWakeup
<1>2. WakeInv /\ TakingInv /\ TypeOK' /\ [Next]_vars => WakeInv'
  <2> SUFFICES ASSUME WakeInv, TakingInv, TypeOK', [Next]_vars
               PROVE  AsleepInPop' /\ NobodyLeft' /\ NoLostWakeup'
    BY DEF WakeInv
  <2> USE DEF WakeInv
  <2>T. nonempty \in SUBSET Consumers /\ loop \in [Consumers -> {"pop", "busy", "done"}]
    BY DEF TypeOK, QueueTypeOK
  <2>1. ASSUME NEW p \in Producers, NEW v \in Tasks, NEW b \in BOOLEAN,
               Pushes(p, v, b)
        PROVE  AsleepInPop' /\ NobodyLeft' /\ NoLostWakeup'
    <3>1. NotifyOne /\ UNCHANGED <<loop, stopped>>
      BY <2>1 DEF Pushes, Push
    <3>2. QED
      BY <3>1, NotifyWakes DEF NoLostWakeup, NobodyLeft
  <2>2. ASSUME NEW p \in Producers, Clears(p)
        PROVE  AsleepInPop' /\ NobodyLeft' /\ NoLostWakeup'
    <3>1. /\ queue' = <<>>
          /\ UNCHANGED <<nonempty, stopped, loop, at>>
      BY <2>2 DEF Clears, Clear
    <3>2. ASSUME NEW c \in nonempty, Ready(c)' PROVE Ready(c)
      BY <3>1, <3>2 DEF Ready, Empty
    <3>3. (NotifyPending \/ SomeoneAwake) => (NotifyPending \/ SomeoneAwake)'
      BY <3>1 DEF NotifyPending, SomeoneAwake
    <3>4. QED
      BY <3>1, <3>2, <3>3 DEF AsleepInPop, NobodyLeft, NoLostWakeup
  <2>3. ASSUME NEW p \in Producers, NEW b \in BOOLEAN, Blocks(p, b)
        PROVE  AsleepInPop' /\ NobodyLeft' /\ NoLostWakeup'
    <3>1. UNCHANGED <<nonempty, stopped, loop>> /\ at'[p] = "storing"
      BY <2>3 DEF Blocks, BlockStore, TypeOK
    <3>2. NotifyPending'
      BY <3>1 DEF NotifyPending
    <3>3. QED
      BY <3>1, <3>2 DEF AsleepInPop, NobodyLeft, NoLostWakeup
  <2>4. ASSUME NEW p \in Producers, Notifies(p)
        PROVE  AsleepInPop' /\ NobodyLeft' /\ NoLostWakeup'
    <3>1. NotifyOne /\ UNCHANGED <<loop, stopped>>
      BY <2>4 DEF Notifies, BlockNotify
    <3>2. QED
      BY <3>1, NotifyWakes DEF NoLostWakeup, NobodyLeft
  <2>5. ASSUME NEW p \in Producers, NEW c \in Consumers, Stops(p, c)
        PROVE  AsleepInPop' /\ NobodyLeft' /\ NoLostWakeup'
    <3>1. UNCHANGED <<nonempty, loop>> /\ at'[p] = "stopping" /\ ~NobodyLeaves
      BY <2>5 DEF Stops, TypeOK, NobodyLeaves
    <3>2. NotifyPending'
      BY <3>1 DEF NotifyPending
    <3>3. QED
      BY <3>1, <3>2 DEF AsleepInPop, NobodyLeft, NoLostWakeup
  <2>6. ASSUME NEW c \in Consumers, PopSleeps(c)
        PROVE  AsleepInPop' /\ NobodyLeft' /\ NoLostWakeup'
    <3>1. /\ loop[c] = "pop" /\ ~Ready(c) /\ nonempty' = nonempty \cup {c}
          /\ UNCHANGED <<queue, blocked, stopped, loop>>
      BY <2>6 DEF PopSleeps, PopSleep
    <3>2. ASSUME NEW d \in nonempty' PROVE ~Ready(d)'
      <4>1. CASE Alone
        BY <4>1, <3>1, <2>T DEF Alone, Ready, Empty
      <4>2. CASE NobodyLeaves
        <5>1. stopped[d] = FALSE
          BY <4>2, <3>1, <2>T DEF NobodyLeft
        <5>2. QED
          BY <5>1, <3>1 DEF Ready, Empty
      <4>3. QED
        BY <4>1, <4>2
    <3>3. QED
      BY <3>1, <3>2 DEF AsleepInPop, NobodyLeft, NoLostWakeup
  <2>7. ASSUME NEW c \in Consumers, PopEnds(c)
        PROVE  AsleepInPop' /\ NobodyLeft' /\ NoLostWakeup'
    <3>1. c \notin nonempty /\ stopped[c] /\ UNCHANGED nonempty
      BY <2>7 DEF PopEnds, PopEnd, qvars
    <3>2. ~NobodyLeaves
      BY <3>1 DEF NobodyLeft
    <3>3. nonempty = {}
      BY <3>1, <3>2, <2>T DEF Alone
    <3>4. QED
      BY <3>1, <3>2, <3>3 DEF AsleepInPop, NobodyLeft, NoLostWakeup
  <2>8. ASSUME NEW c \in Consumers, PopTakes(c)
        PROVE  AsleepInPop' /\ NobodyLeft' /\ NoLostWakeup'
    <3>1. /\ c \notin nonempty
          /\ UNCHANGED <<nonempty, stopped>>
          /\ loop' = [loop EXCEPT ![c] = IF Head(queue) \in Ends THEN "done" ELSE "busy"]
      BY <2>8 DEF PopTakes, PopTake, TakingInv
    <3>2. AsleepInPop'
      BY <3>1, <2>T DEF AsleepInPop
    <3>3. CASE NobodyLeaves
      <4>1. loop' = [loop EXCEPT ![c] = "busy"]
        BY <3>1, <3>3 DEF NobodyLeaves
      <4>2. SomeoneAwake'
        BY <4>1, <3>1, <2>T DEF SomeoneAwake
      <4>3. NobodyLeft'
        BY <4>1, <3>1, <2>T DEF NobodyLeft
      <4>4. QED
        BY <3>2, <4>2, <4>3 DEF NoLostWakeup
    <3>4. CASE ~NobodyLeaves
      <4>1. nonempty = {}
        BY <3>1, <3>4, <2>T DEF Alone
      <4>2. QED
        BY <3>1, <3>2, <3>4, <4>1 DEF NobodyLeft, NoLostWakeup
    <3>5. QED
      BY <3>3, <3>4
  <2>9. ASSUME NEW c \in Consumers, NEW stop \in BOOLEAN, Works(c, stop)
        PROVE  AsleepInPop' /\ NobodyLeft' /\ NoLostWakeup'
    <3>1. /\ loop[c] = "busy" /\ loop' = [loop EXCEPT ![c] = "pop"]
          /\ stop => c \in Stoppable
          /\ UNCHANGED nonempty
      BY <2>9 DEF Works
    <3>2. c \notin nonempty
      BY <3>1 DEF AsleepInPop
    <3>3. SomeoneAwake' /\ AsleepInPop'
      BY <3>1, <3>2, <2>T DEF SomeoneAwake, AsleepInPop
    <3>4. NobodyLeft'
      <4>1. SUFFICES ASSUME NobodyLeaves, NEW d \in Consumers
                     PROVE  stopped'[d] = FALSE /\ loop'[d] # "done"
        BY DEF NobodyLeft
      <4>2. stop = FALSE
        BY <3>1, <4>1 DEF NobodyLeaves
      <4>3. stopped[d] = FALSE /\ loop[d] # "done"
        BY <4>1 DEF NobodyLeft
      <4>4. stopped' = [stopped EXCEPT ![c] = @ \/ stop]
        BY <2>9 DEF Works
      <4>5. stopped'[d] = FALSE
        BY <4>2, <4>3, <4>4 DEF TypeOK, QueueTypeOK
      <4>6. QED
        BY <4>3, <4>5, <3>1, <2>T
    <3>5. QED
      BY <3>3, <3>4 DEF NoLostWakeup
  <2>10. ASSUME NEW c \in Consumers, Wakes(c)
         PROVE  AsleepInPop' /\ NobodyLeft' /\ NoLostWakeup'
    <3>1. c \in nonempty /\ nonempty' = nonempty \ {c} /\ UNCHANGED <<stopped, loop>>
      BY <2>10 DEF Wakes, SpuriousWake
    <3>2. SomeoneAwake'
      BY <3>1 DEF SomeoneAwake, AsleepInPop
    <3>3. QED
      BY <3>1, <3>2 DEF AsleepInPop, NobodyLeft, NoLostWakeup
  <2>11. CASE UNCHANGED vars
    <3>1. UNCHANGED <<queue, blocked, nonempty, stopped, loop, at>>
      BY <2>11 DEF vars, qvars
    <3>2. QED
      BY <3>1 DEF AsleepInPop, NobodyLeft, NoLostWakeup, Ready, Empty,
                  NotifyPending, SomeoneAwake
  <2>12. ASSUME NEW c \in Consumers, PopDecides(c) \/ PopExtracts(c)
         PROVE  AsleepInPop' /\ NobodyLeft' /\ NoLostWakeup'
    <3>1. UNCHANGED <<queue, blocked, nonempty, stopped, loop, at>>
      BY <2>12 DEF PopDecides, PopDecide, PopExtracts, PopExtract
    <3>2. QED
      BY <3>1 DEF AsleepInPop, NobodyLeft, NoLostWakeup, Ready, Empty,
                  NotifyPending, SomeoneAwake
  <2>13. QED
    BY <2>1, <2>2, <2>3, <2>4, <2>5, <2>6, <2>7, <2>8, <2>9, <2>10, <2>11, <2>12
       DEF Next, Produce, Consume
<1>3. QED
  BY <1>1, <1>2, TakingCorrect, PTL DEF Spec, WakeInv

=============================================================================
