---------------------------- MODULE WorkerProofs ----------------------------
(***************************************************************************)
(* Theorems about Worker, for any number of tasks, workers and clients and *)
(* any task bodies and permitted calls.                                    *)
(***************************************************************************)
EXTENDS Worker, SequenceFacts, TLAPS

-----------------------------------------------------------------------------
(* The methods as sequences, put together from a few pieces.                 *)

\* A set of sequences that is closed under concatenation and holds the pieces
\* holds every method that posts nothing; the two that raise m_shutdown if it
\* holds what they begin with.
LEMMA StepsIn ==
    ASSUME NEW G,
           \A s1, s2 \in G : s1 \o s2 \in G,
           \A p \in Policies : SetPolicy(p) \in G,
           \A b \in BOOLEAN : PauseLoop(b) \in G,
           ClearQueue \in G, EmitCancel \in G, WaitRunningTask \in G,
           WaitCompletion \in G, <<"joinable", "join", "joining">> \in G,
           <<"until_cancelled">> \in G, <<>> \in G
    PROVE  /\ \A m \in Bodies \ {"end", "post", "emit_shutdown", "shutdown"} :
                 Steps(m) \in G
           /\ <<"shutdown">> \o PauseLoop(TRUE) \in G
                 => Steps("emit_shutdown") \in G /\ Steps("shutdown") \in G
<1>1. \A p \in {"IGNORE", "ALLOW", "THROW"} : SetPolicy(p) \in G
  BY DEF Policies
<1>2. Cancel \in G /\ WaitShutdown \in G
  BY DEF Cancel, WaitShutdown
<1>3. StopNow \in G
  <2>1. SetPolicy("IGNORE") \o PauseLoop(FALSE) \in G
    BY <1>1
  <2>2. (SetPolicy("IGNORE") \o PauseLoop(FALSE)) \o ClearQueue \in G
    BY <2>1
  <2>3. QED
    BY <1>2, <2>2 DEF StopNow
<1>4. StopWhenDone \in G /\ Resume \in G /\ WaitShutdownFinished \in G
  BY <1>1 DEF StopWhenDone, Resume, WaitShutdownFinished
<1>5. Reset \in G
  BY <1>3, <1>4 DEF Reset
<1>6. ASSUME NEW m \in Bodies \ {"end", "post", "emit_shutdown", "shutdown"}
      PROVE  Steps(m) \in G
  BY <1>2, <1>3, <1>4, <1>5
     DEF Steps, Bodies, Methods, LowLevel, Aggregated, Policies
<1>7. ASSUME <<"shutdown">> \o PauseLoop(TRUE) \in G
      PROVE  Steps("emit_shutdown") \in G /\ Steps("shutdown") \in G
  <2>1. (<<"shutdown">> \o PauseLoop(TRUE)) \o SetPolicy("THROW") \in G
    BY <1>1, <1>7
  <2>2. EmitShutdown("THROW") \in G
    BY <2>1 DEF EmitShutdown
  <2>3. Shutdown \in G
    BY <1>2, <2>2 DEF Shutdown
  <2>4. QED
    BY <2>2, <2>3 DEF Steps, Policies
<1>8. QED
  BY <1>6, <1>7

\* The methods that post, spelled out.
LEMMA PostingSteps ==
    /\ Steps("post") = <<"admit", "push">>
    /\ Steps("clear_post") = <<"admit", "cancel", "clear", "push">>
    /\ Steps("planned_shutdown") = <<"push">>
<1>1. /\ Steps("planned_shutdown") = PlannedShutdown
      /\ Steps("post") = Post
      /\ Steps("clear_post") = ClearPost
  BY DEF Steps, Policies
<1>2. ClearPost = <<"admit", "cancel", "clear", "push">>
  <2> DEFINE c == ((<<"admit">> \o <<"cancel">>) \o <<"clear">>) \o <<"push">>
             d == <<"admit", "cancel", "clear", "push">>
  <2>1. ClearPost = c
    BY DEF ClearPost, EmitCancel, ClearQueue
  <2>2. c \in Seq(StepNames) /\ d \in Seq(StepNames)
    BY DEF StepNames
  <2>3. /\ Len(c) = 4 /\ c[1] = "admit" /\ c[2] = "cancel"
        /\ c[3] = "clear" /\ c[4] = "push"
    OBVIOUS
  <2>4. /\ Len(d) = 4 /\ d[1] = "admit" /\ d[2] = "cancel"
        /\ d[3] = "clear" /\ d[4] = "push"
    OBVIOUS
  <2> HIDE DEF c, d
  <2>5. Len(c) = Len(d) /\ \A i \in 1..Len(c) : c[i] = d[i]
    BY <2>3, <2>4
  <2>6. c = d
    BY <2>2, <2>5, SeqEqual
  <2>7. QED
    BY <2>1, <2>6 DEF d
<1>3. QED
  BY <1>1, <1>2 DEF Post, PlannedShutdown

\* The steps of a method that posts nothing.
Planned == StepNames \ {"check_empty"}
Quiet == Planned \ {"push"}

\* Every method that hands over no task is a sequence of steps without a push,
\* every method is a sequence of steps, and a push is the last of them.
LEMMA StepsFacts ==
    /\ \A m \in Bodies \ {"end", "post"} : Steps(m) \in Seq(Quiet)
    /\ \A m \in Postings :
          /\ Steps(m) \in Seq(Planned)
          /\ \A i \in 1..Len(Steps(m)) :
                Steps(m)[i] = "push" => i = Len(Steps(m))
<1>1. ASSUME NEW m \in Bodies \ {"end", "post"} PROVE Steps(m) \in Seq(Quiet)
  <2> USE DEF Quiet, Planned, StepNames, Policies
  <2> DEFINE G == Seq(Quiet)
  <2>1. /\ \A p \in Policies : SetPolicy(p) \in G
        /\ \A b \in BOOLEAN : PauseLoop(b) \in G
        /\ ClearQueue \in G /\ EmitCancel \in G
        /\ WaitRunningTask \in G /\ WaitCompletion \in G
    BY DEF SetPolicy, PauseLoop, ClearQueue, EmitCancel, WaitRunningTask,
           WaitCompletion
  <2>2. /\ <<"joinable", "join", "joining">> \in G
        /\ <<"until_cancelled">> \in G /\ <<>> \in G /\ <<"shutdown">> \in G
    OBVIOUS
  <2>3. \A s1, s2 \in G : s1 \o s2 \in G
    OBVIOUS
  <2> HIDE DEF G
  <2>4. <<"shutdown">> \o PauseLoop(TRUE) \in G
    BY <2>1, <2>2, <2>3
  <2>5. Steps(m) \in G
    BY <2>1, <2>2, <2>3, <2>4, StepsIn
  <2>6. QED
    BY <2>5 DEF G
<1>2. ASSUME NEW m \in Postings
      PROVE  /\ Steps(m) \in Seq(Planned)
             /\ \A i \in 1..Len(Steps(m)) :
                   Steps(m)[i] = "push" => i = Len(Steps(m))
  <2>1. /\ "admit" \in Planned /\ "cancel" \in Planned
        /\ "clear" \in Planned /\ "push" \in Planned
    BY DEF Planned, StepNames, Policies
  <2>2. m = "post" \/ m = "clear_post" \/ m = "planned_shutdown"
    BY DEF Postings
  <2>3. /\ <<"admit", "push">> \in Seq(Planned) /\ <<"push">> \in Seq(Planned)
        /\ <<"admit", "cancel", "clear", "push">> \in Seq(Planned)
    BY <2>1
  <2>4. /\ \A i \in 1..Len(<<"push">>) : i = Len(<<"push">>)
        /\ \A i \in 1..Len(<<"admit", "push">>) :
              <<"admit", "push">>[i] = "push" => i = Len(<<"admit", "push">>)
        /\ \A i \in 1..Len(<<"admit", "cancel", "clear", "push">>) :
              <<"admit", "cancel", "clear", "push">>[i] = "push"
                 => i = Len(<<"admit", "cancel", "clear", "push">>)
    OBVIOUS
  <2>5. CASE m = "post"
    BY <2>3, <2>4, <2>5, PostingSteps
  <2>6. CASE m = "clear_post"
    BY <2>3, <2>4, <2>6, PostingSteps
  <2>7. CASE m = "planned_shutdown"
    BY <2>3, <2>4, <2>7, PostingSteps
  <2>8. QED
    BY <2>2, <2>5, <2>6, <2>7
<1>3. QED
  BY <1>1, <1>2

-----------------------------------------------------------------------------
(* The inductive invariant.  Type correctness itself rests on it: a push    *)
(* needs a task to push, and a worker at "popped" a task to execute.        *)

\* A push is the last step of a call, and the caller holds the task to push.
PushHasTask ==
    \A t \in Threads : \A i \in 1..Len(todo[t]) :
        todo[t][i] = "push" => i = Len(todo[t]) /\ arg[t] # None

\* A thread in a call, and a task that was queued, belong to a worker.
OnWorker == \A t \in Threads : todo[t] # <<>> => on[t] \in Workers
ViaWorker ==
    \A v \in Tasks : stage[v] \in {"pending", "active"} => via[v] \in Workers

\* Who is about to take in pop holds the mutex, is awake, and finds a task.
TakingInv ==
    \A w \in taking :
        taking = {w} /\ w \notin nonempty /\ at[w] = "pop" /\ queue # <<>>

\* A worker thread is inside a call only while it executes a task.
IdleOutsideExec == \A w \in Workers : at[w] # "exec" => todo[w] = <<>>

Inv == /\ TypeOK
       /\ OneOwner
       /\ FlagCoversTask
       /\ TakingInv
       /\ PushHasTask
       /\ OnWorker
       /\ ViaWorker
       /\ IdleOutsideExec

-----------------------------------------------------------------------------
(* Each action keeps the types. *)

\* A call in progress takes a step: the rest of the call is still typed.
LEMMA AdvanceTyped ==
    ASSUME TypeOK, NEW t \in Threads, todo[t] # <<>>, Advance(t)
    PROVE  /\ todo' \in [Threads -> Seq(StepNames)]
           /\ on' \in [Threads -> Workers \cup {None}]
           /\ arg' \in [Threads -> Tasks \cup {None}]
           /\ calls' \in [Clients -> 0..MaxCalls]
  BY HeadTail DEF Advance, TypeOK

LEMMA LeaveTyped ==
    ASSUME TypeOK, NEW t \in Threads, Leave(t)
    PROVE  /\ todo' \in [Threads -> Seq(StepNames)]
           /\ on' \in [Threads -> Workers \cup {None}]
           /\ calls' \in [Clients -> 0..MaxCalls]
  BY DEF Leave, TypeOK

LEMMA SleepTyped ==
    ASSUME TypeOK, NEW t \in Threads, NEW w, Sleep(t, w)
    PROVE  completed' \in [Workers -> SUBSET Threads]
<1>1. completed \in [Workers -> SUBSET Threads]
  BY DEF TypeOK
<1>2. CASE w \in Workers
  <2>1. completed[w] \cup {t} \in SUBSET Threads
    BY <1>1, <1>2
  <2>2. QED
    BY <1>1, <2>1 DEF Sleep
<1>3. CASE w \notin Workers
  <2>1. completed' = completed
    BY <1>1, <1>3 DEF Sleep
  <2>2. QED
    BY <1>1, <2>1
<1>4. QED
  BY <1>2, <1>3

\* A step of a call keeps the types.
LEMMA StepTyped ==
    ASSUME Inv, NEW t \in Threads, Step(t)
    PROVE  TypeOK'
<1>0. TypeOK
  BY DEF Inv
<1>1. ASSUME DoSetPolicy(t) PROVE TypeOK'
  <2>1. PICK p \in Policies :
           /\ todo[t] # <<>>
           /\ policy' = [policy EXCEPT ![on[t]] = p]
           /\ Advance(t)
           /\ UNCHANGED <<asyncq, canceled, mutex, completed, threads, stage, via>>
    BY <1>1 DEF DoSetPolicy, At
  <2>2. policy' \in [Workers -> Policies]
    BY <1>0, <2>1 DEF TypeOK
  <2>3. /\ todo' \in [Threads -> Seq(StepNames)]
        /\ on' \in [Threads -> Workers \cup {None}]
        /\ arg' \in [Threads -> Tasks \cup {None}]
        /\ calls' \in [Clients -> 0..MaxCalls]
    BY <1>0, <2>1, AdvanceTyped
  <2>4. QED
    BY <1>0, <2>1, <2>2, <2>3 DEF TypeOK, Q!QueueTypeOK, asyncq, threads
<1>2. ASSUME DoBlock(t) PROVE TypeOK'
  BY <1>0, <1>2, AdvanceTyped
     DEF DoBlock, At, TypeOK, Q!QueueTypeOK, Q!BlockStore, members, threads
<1>3. ASSUME DoNotify(t) PROVE TypeOK'
  BY <1>0, <1>3, AdvanceTyped
     DEF DoNotify, At, TypeOK, Q!QueueTypeOK, Q!BlockNotify, Q!NotifyOne, members, threads
<1>4. ASSUME DoClear(t) PROVE TypeOK'
  BY <1>0, <1>4, AdvanceTyped
     DEF DoClear, At, TypeOK, Q!QueueTypeOK, Q!Clear, Mark, Stages, members, threads
<1>5. ASSUME DoEmitCancel(t) PROVE TypeOK'
  BY <1>0, <1>5, AdvanceTyped
     DEF DoEmitCancel, At, TypeOK, Q!QueueTypeOK, asyncq, threads
<1>6. ASSUME RaiseShutdown(t) PROVE TypeOK'
  BY <1>0, <1>6, AdvanceTyped
     DEF RaiseShutdown, At, TypeOK, Q!QueueTypeOK, members, threads
<1>7. ASSUME SelfWait(t) PROVE TypeOK'
  BY <1>0, <1>7, LeaveTyped
     DEF SelfWait, At, TypeOK, Q!QueueTypeOK, asyncq, members, threads
<1>8. ASSUME DoWaitRunning(t) PROVE TypeOK'
  BY <1>0, <1>8, AdvanceTyped, SleepTyped
     DEF DoWaitRunning, At, TypeOK, Q!QueueTypeOK, asyncq, threads, call
<1>S. <<"check_empty">> \in Seq(StepNames) /\ <<"wait_completion">> \in Seq(StepNames)
  BY DEF StepNames
<1>9. ASSUME DoWaitCompletion(t) PROVE TypeOK'
  <2>1. /\ todo' \in [Threads -> Seq(StepNames)]
        /\ mutex' \in [Workers -> Threads \cup {None}]
        /\ UNCHANGED <<on, arg, calls>>
    <3>1. CASE executing[on[t]]
      BY <1>0, <1>9, <3>1 DEF DoWaitCompletion, TypeOK, call
    <3>2. CASE ~executing[on[t]]
      <4>1. /\ mutex' = [mutex EXCEPT ![on[t]] = t]
            /\ todo' = [todo EXCEPT ![t] = <<"check_empty">>]
            /\ UNCHANGED <<on, arg, calls>>
        BY <1>9, <3>2 DEF DoWaitCompletion
      <4>2. QED
        BY <1>0, <1>S, <4>1 DEF TypeOK
    <3>3. QED
      BY <3>1, <3>2
  <2>2. completed' \in [Workers -> SUBSET Threads]
    BY <1>0, <1>9, SleepTyped DEF DoWaitCompletion, TypeOK
  <2>3. QED
    BY <1>0, <1>9, <2>1, <2>2 DEF DoWaitCompletion, TypeOK, Q!QueueTypeOK, asyncq, threads
<1>10. ASSUME DoCheckEmpty(t) PROVE TypeOK'
  <2>1. /\ todo' \in [Threads -> Seq(StepNames)]
        /\ mutex' \in [Workers -> Threads \cup {None}]
        /\ UNCHANGED <<on, arg, calls>>
    BY <1>0, <1>10, <1>S, LeaveTyped DEF DoCheckEmpty, TypeOK, Leave
  <2>2. completed' \in [Workers -> SUBSET Threads]
    BY <1>0, <1>10, SleepTyped DEF DoCheckEmpty, TypeOK
  <2>3. QED
    BY <1>0, <1>10, <2>1, <2>2 DEF DoCheckEmpty, TypeOK, Q!QueueTypeOK, asyncq, threads
<1>11. ASSUME DoJoinable(t) PROVE TypeOK'
  BY <1>0, <1>11, LeaveTyped, AdvanceTyped
     DEF DoJoinable, At, TypeOK, Q!QueueTypeOK, asyncq, members, threads
<1>12. ASSUME DoJoin(t) PROVE TypeOK'
  BY <1>0, <1>12, LeaveTyped, AdvanceTyped
     DEF DoJoin, At, TypeOK, Q!QueueTypeOK, asyncq, members
<1>13. ASSUME DoJoined(t) PROVE TypeOK'
  BY <1>0, <1>13, AdvanceTyped
     DEF DoJoined, At, TypeOK, Q!QueueTypeOK, asyncq, members
<1>14. ASSUME Admit(t) PROVE TypeOK'
  <2>1. todo[t] # <<>>
    BY <1>14 DEF Admit, At
  <2>2. CASE policy[on[t]] \in {"ALLOW", "WAIT"}
    <3>1. mutex' = [mutex EXCEPT ![on[t]] = t] /\ Advance(t) /\ UNCHANGED stage
      BY <1>14, <2>2 DEF Admit
    <3>2. mutex' \in [Workers -> Threads \cup {None}]
      BY <1>0, <3>1 DEF TypeOK
    <3>3. QED
      BY <1>0, <1>14, <2>1, <3>1, <3>2, AdvanceTyped
         DEF Admit, TypeOK, Q!QueueTypeOK, asyncq, threads
  <2>3. CASE policy[on[t]] \notin {"ALLOW", "WAIT"}
    <3>1. /\ Leave(t)
          /\ arg' = [arg EXCEPT ![t] = None]
          /\ Mark({arg[t]}, "dropped")
          /\ UNCHANGED mutex
      BY <1>14, <2>3 DEF Admit
    <3>2. arg' \in [Threads -> Tasks \cup {None}] /\ stage' \in [Tasks -> Stages]
      BY <1>0, <3>1 DEF TypeOK, Mark, Stages
    <3>3. QED
      BY <1>0, <1>14, <3>1, <3>2, LeaveTyped
         DEF Admit, TypeOK, Q!QueueTypeOK, asyncq, threads
  <2>4. QED
    BY <2>2, <2>3
<1>15. ASSUME DoPush(t) PROVE TypeOK'
  <2>1. arg[t] \in Tasks
    BY <1>15 DEF DoPush, At, Inv, PushHasTask, TypeOK
  <2>2. queue' \in Seq(Tasks)
    BY <1>0, <1>15, <2>1 DEF DoPush, Q!Push, TypeOK, Q!QueueTypeOK
  <2>3. todo' \in [Threads -> Seq(StepNames)]
    BY <1>0, <1>15, HeadTail DEF DoPush, At, TypeOK
  <2>4. QED
    BY <1>0, <1>15, <2>1, <2>2, <2>3
       DEF DoPush, Q!Push, Q!NotifyOne, TypeOK, Q!QueueTypeOK, Mark, Stages, threads
<1>16. ASSUME UntilCancelled(t) PROVE TypeOK'
  BY <1>0, <1>16, AdvanceTyped
     DEF UntilCancelled, At, TypeOK, Q!QueueTypeOK, asyncq, members, threads
<1>17. QED
  BY <1>1, <1>2, <1>3, <1>4, <1>5, <1>6, <1>7, <1>8, <1>9, <1>10, <1>11, <1>12,
     <1>13, <1>14, <1>15, <1>16 DEF Step

\* What entering a method does to the calls in progress (the heads of the
\* public methods of Worker, and a task that calls one).
LEMMA EnterFacts ==
    ASSUME TypeOK, NEW t \in Threads,
           NEW m \in (Bodies \ {"end"}) \cup Postings,
           NEW w \in Workers, NEW v \in Tasks \cup {None},
           Enter(t, m, w, v)
    PROVE  /\ todo' \in [Threads -> Seq(StepNames)]
           /\ on' \in [Threads -> Workers \cup {None}]
           /\ arg' \in [Threads -> Tasks \cup {None}]
           /\ on'[t] = w /\ arg'[t] = v
           /\ \A u \in Threads \ {t} :
                 todo'[u] = todo[u] /\ on'[u] = on[u] /\ arg'[u] = arg[u]
           /\ \A i \in 1..Len(todo'[t]) :
                 /\ todo'[t][i] = "push" => i = Len(todo'[t]) /\ v # None
                 /\ todo'[t][i] # "check_empty"
           /\ v # None => stage[v] = "fresh"
<1> DEFINE q == IF m \in Postings /\ v = None THEN <<>> ELSE Steps(m)
<1>1. /\ todo' = [todo EXCEPT ![t] = q]
      /\ on' = [on EXCEPT ![t] = w]
      /\ arg' = [arg EXCEPT ![t] = v]
  BY DEF Enter
<1>2. /\ q \in Seq(StepNames)
      /\ \A i \in 1..Len(q) : /\ q[i] = "push" => i = Len(q) /\ v # None
                             /\ q[i] # "check_empty"
  <2>1. CASE m \in Postings /\ v = None
    <3>1. q = <<>>
      BY <2>1
    <3>2. <<>> \in Seq(StepNames) /\ 1..Len(<<>>) = {}
      OBVIOUS
    <3> HIDE DEF q
    <3>3. QED
      BY <3>1, <3>2
  <2>2. CASE m \in Postings /\ v # None
    <3>1. q = Steps(m)
      BY <2>2
    <3>2. /\ q \in Seq(Planned)
          /\ \A i \in 1..Len(q) : q[i] = "push" => i = Len(q)
      BY <2>2, <3>1, StepsFacts
    <3> HIDE DEF q
    <3>3. \A x \in Planned : x \in StepNames /\ x # "check_empty"
      BY DEF Planned
    <3>4. /\ Len(q) \in Nat /\ DOMAIN q = 1..Len(q)
          /\ \A i \in 1..Len(q) : q[i] \in Planned
      BY <3>2
    <3>5. \A i \in 1..Len(q) : q[i] \in StepNames /\ q[i] # "check_empty"
      BY <3>3, <3>4
    <3>6. q \in Seq(StepNames)
      BY <3>2, <3>5
    <3>7. QED
      BY <2>2, <3>2, <3>5, <3>6
  <2>3. CASE m \notin Postings
    <3>1. q = Steps(m) /\ m # "post"
      BY <2>3 DEF Postings
    <3>2. q \in Seq(Quiet)
      BY <2>3, <3>1, StepsFacts
    <3>3. \A x \in Quiet : x \in StepNames /\ x # "push" /\ x # "check_empty"
      BY DEF Quiet, Planned
    <3>4. /\ Len(q) \in Nat /\ DOMAIN q = 1..Len(q)
          /\ \A i \in 1..Len(q) : q[i] \in Quiet
      BY <3>2
    <3>5. \A i \in 1..Len(q) :
             q[i] # "push" /\ q[i] # "check_empty" /\ q[i] \in StepNames
      BY <3>3, <3>4
    <3>6. q \in Seq(StepNames)
      BY <3>2, <3>5
    <3>7. QED
      BY <3>5, <3>6
  <2>4. QED
    BY <2>1, <2>2, <2>3
<1>3. v # None => stage[v] = "fresh"
  BY DEF Enter, Handed
<1> HIDE DEF q
<1>4. /\ todo \in [Threads -> Seq(StepNames)]
      /\ on \in [Threads -> Workers \cup {None}]
      /\ arg \in [Threads -> Tasks \cup {None}]
  BY DEF TypeOK
<1>5. todo'[t] = q
  BY <1>1, <1>4
<1>6. QED
  BY <1>1, <1>2, <1>3, <1>4, <1>5

\* Raising the stage of tasks keeps the stages typed.
LEMMA MarkFacts ==
    ASSUME TypeOK, NEW vs, NEW s \in Stages, Mark(vs, s)
    PROVE  /\ stage' \in [Tasks -> Stages]
           /\ \A v \in Tasks : stage'[v] = IF v \in vs THEN s ELSE stage[v]
  BY DEF Mark, TypeOK

\* A client that starts a call keeps the types.
LEMMA CallTyped ==
    ASSUME Inv, NEW t \in Clients, NEW m \in Methods \cup Postings,
           NEW w \in Workers, NEW v \in Tasks \cup {None}, Call(t, m, w, v)
    PROVE  TypeOK'
<1>1. m \in (Bodies \ {"end"}) \cup Postings /\ t \in Threads
  BY DEF Bodies, Methods, LowLevel, Aggregated, Policies, Threads
<1>2. /\ todo' \in [Threads -> Seq(StepNames)]
      /\ on' \in [Threads -> Workers \cup {None}]
      /\ arg' \in [Threads -> Tasks \cup {None}]
  BY <1>1, EnterFacts DEF Call, Inv
<1>3. calls' \in [Clients -> 0..MaxCalls]
  BY CallsAssumption DEF Call, Inv, TypeOK
<1>4. stage' \in [Tasks -> Stages]
  BY MarkFacts DEF Call, Inv, Stages
<1>5. QED
  BY <1>2, <1>3, <1>4
     DEF Call, Inv, TypeOK, Q!QueueTypeOK, asyncq, members, threads

\* A step of a worker's loop keeps the types.
LEMMA RunTyped ==
    ASSUME Inv, NEW w \in Workers, Run(w)
    PROVE  TypeOK'
<1>0. TypeOK /\ OneOwner /\ ViaWorker /\ TakingInv
  BY DEF Inv
<1>1. ASSUME PopSleeps(w) PROVE TypeOK'
  BY <1>0, <1>1
     DEF PopSleeps, Q!PopSleep, TypeOK, Q!QueueTypeOK, members, threads, call
<1>2. ASSUME LoopEnds(w) PROVE TypeOK'
  BY <1>0, <1>2
     DEF LoopEnds, Q!PopEnd, Q!qvars, TypeOK, Q!QueueTypeOK, members, call
<1>D. ASSUME PopDecides(w) \/ PopExtracts(w) PROVE TypeOK'
  BY <1>0, <1>D
     DEF PopDecides, Q!PopDecide, PopExtracts, Q!PopExtract, TypeOK, Q!QueueTypeOK,
         members, threads, call
<1>3. ASSUME PopTakes(w) PROVE TypeOK'
  <2>1. queue # <<>>
    BY <1>0, <1>3 DEF PopTakes, Q!PopTake, TakingInv
  <2>2. queue \in Seq(Tasks)
    BY <1>0 DEF TypeOK, Q!QueueTypeOK
  <2>3. Head(queue) \in Tasks /\ Tail(queue) \in Seq(Tasks)
    BY <2>1, <2>2, HeadTail
  <2>4. stage' \in [Tasks -> Stages]
    BY <1>0, <1>3, MarkFacts DEF PopTakes, Stages
  <2>5. QED
    BY <1>0, <1>3, <2>3, <2>4
       DEF PopTakes, Q!PopTake, TypeOK, Q!QueueTypeOK, members, call
<1>4. ASSUME EndTask(w) PROVE TypeOK'
  <2>1. stage' \in [Tasks -> Stages]
    BY <1>0, <1>4, MarkFacts DEF EndTask, Stages
  <2>2. QED
    BY <1>0, <1>4, <2>1
       DEF EndTask, TypeOK, Q!QueueTypeOK, asyncq, members, call
<1>5. ASSUME NEW v \in Tasks \cup {None}, Exec(w, v) PROVE TypeOK'
  <2>1. task[w] \in Tasks /\ stage[task[w]] = "active"
    BY <1>0, <1>5 DEF Exec, OneOwner, Busy, TypeOK
  <2>2. Body[task[w]] \in Bodies \ {"end"} /\ via[task[w]] \in Workers
    BY <1>0, <1>5, <2>1, TasksAssumption DEF Exec, ViaWorker
  <2>3. /\ todo' \in [Threads -> Seq(StepNames)]
        /\ on' \in [Threads -> Workers \cup {None}]
        /\ arg' \in [Threads -> Tasks \cup {None}]
    <3> DEFINE b == Body[task[w]]
               x == IF b \in {"until_cancelled", "return"} THEN w ELSE via[task[w]]
    <3>1. /\ b \in (Bodies \ {"end"}) \cup Postings /\ x \in Workers
          /\ w \in Threads /\ Enter(w, b, x, v)
      BY <1>5, <2>2 DEF Exec, Threads
    <3> HIDE DEF b, x
    <3>2. QED
      BY <1>0, <1>5, <3>1, EnterFacts
  <2>4. stage' \in [Tasks -> Stages]
    BY <1>0, <1>5, MarkFacts DEF Exec, Stages
  <2>5. QED
    BY <1>0, <1>5, <2>3, <2>4 DEF Exec, TypeOK, Q!QueueTypeOK, asyncq
<1>6. ASSUME Finish(w) PROVE TypeOK'
  <2>1. stage' \in [Tasks -> Stages]
    BY <1>0, <1>6, MarkFacts DEF Finish, Stages
  <2>2. QED
    BY <1>0, <1>6, <2>1 DEF Finish, TypeOK, Q!QueueTypeOK, call
<1>7. QED
  BY <1>1, <1>2, <1>D, <1>3, <1>4, <1>5, <1>6 DEF Run

\* Nor does a spurious wakeup disturb them.
LEMMA SpuriousTyped ==
    ASSUME Inv, Spurious
    PROVE  TypeOK'
<1>1. ASSUME NEW w \in Workers, Q!SpuriousWake(w),
             UNCHANGED <<members, threads, call, stage, via>>
      PROVE  TypeOK'
  BY <1>1
     DEF Inv, Q!SpuriousWake, TypeOK, Q!QueueTypeOK, members, threads, call
<1>2. ASSUME NEW w \in Workers, NEW t \in completed[w],
             completed' = [completed EXCEPT ![w] = @ \ {t}],
             UNCHANGED <<asyncq, policy, canceled, mutex, threads, call, stage, via>>
      PROVE  TypeOK'
  <2>1. completed' \in [Workers -> SUBSET Threads]
    BY <1>2 DEF Inv, TypeOK
  <2>2. QED
    BY <1>2, <2>1 DEF Inv, TypeOK, Q!QueueTypeOK, asyncq, threads, call
<1>3. QED
  BY <1>1, <1>2 DEF Spurious

-----------------------------------------------------------------------------
(* Each action keeps the owners apart. *)

Owners == OneOwner /\ FlagCoversTask /\ TakingInv /\ ViaWorker

\* A step that neither moves a task nor touches a flag changes no owner; nobody
\* falls asleep while the mutex of the queue is held.
LEMMA OwnersFrame ==
    ASSUME Inv, UNCHANGED <<queue, executing, taking, at, task, arg, stage, via>>,
           nonempty' \subseteq nonempty \/ taking = {}
    PROVE  Owners'
  BY DEF Inv, Owners, OneOwner, FlagCoversTask, TakingInv, ViaWorker, Busy

\* Nothing is queued twice, and the front of the queue is pending.
LEMMA OwnersTypes ==
    ASSUME Inv
    PROVE  /\ queue \in Seq(Tasks) /\ stage \in [Tasks -> Stages]
           /\ arg \in [Threads -> Tasks \cup {None}]
           /\ task \in [Workers -> Tasks \cup {None}]
           /\ at \in [Workers -> {"pop", "popped", "exec", "exited"}]
           /\ executing \in [Workers -> BOOLEAN]
           /\ taking \in SUBSET Workers
           /\ via \in [Tasks -> Workers \cup {None}]
           /\ OneOwner /\ FlagCoversTask /\ TakingInv /\ ViaWorker
           /\ None \notin Tasks
  BY TasksAssumption, ThreadsAssumption
     DEF Inv, TypeOK, Q!QueueTypeOK, Threads

\* clear_queue: the queued tasks are dropped, nobody else loses a task.
LEMMA OwnersClear ==
    ASSUME Inv, NEW t \in Threads, DoClear(t)
    PROVE  Owners'
<1>1. /\ queue' = <<>> /\ taking = {}
      /\ UNCHANGED <<executing, taking, at, task, arg, via>>
      /\ \A v \in Tasks :
            stage'[v] = IF v \in Range(queue) THEN "dropped" ELSE stage[v]
  BY MarkFacts DEF DoClear, Q!Clear, Q!MutexFree, Advance, threads, Inv, Stages
<1>2. Range(queue') = {} /\ DOMAIN queue' = {}
  BY <1>1, EmptyRange
<1>3. \A v \in Tasks : /\ stage'[v] # "pending"
                       /\ stage[v] \in {"posting", "active"} => stage'[v] = stage[v]
  BY <1>1, OwnersTypes DEF OneOwner
<1>4. OneOwner'
  BY <1>1, <1>2, <1>3, OwnersTypes DEF OneOwner, Busy
<1>5. FlagCoversTask' /\ TakingInv' /\ ViaWorker'
  BY <1>1, OwnersTypes DEF FlagCoversTask, TakingInv, ViaWorker, Busy
<1>6. QED
  BY <1>4, <1>5 DEF Owners

\* post() that refuses its task drops it; one that does not keeps it.
LEMMA OwnersAdmit ==
    ASSUME Inv, NEW t \in Threads, Admit(t)
    PROVE  Owners'
<1>1. UNCHANGED <<queue, nonempty, executing, taking, at, task, via>>
  BY DEF Admit, asyncq, threads
<1>2. CASE policy[on[t]] \in {"ALLOW", "WAIT"}
  BY <1>1, <1>2, OwnersFrame DEF Admit, Advance
<1>3. CASE policy[on[t]] \notin {"ALLOW", "WAIT"}
  <2>1. /\ arg' = [arg EXCEPT ![t] = None]
        /\ \A v \in Tasks : stage'[v] = IF v \in {arg[t]} THEN "dropped" ELSE stage[v]
    BY <1>3, MarkFacts DEF Admit, Inv, Stages
  <2>2. \A v \in Tasks : stage'[v] # stage[v] =>
            v = arg[t] /\ stage[v] = "posting" /\ stage'[v] = "dropped"
    BY <2>1, OwnersTypes DEF OneOwner
  <2>3. \A u \in Threads : u # t => arg'[u] = arg[u]
    BY <2>1, OwnersTypes
  <2>4. arg'[t] = None
    BY <2>1, OwnersTypes
  <2>5. Range(queue) = {v \in Tasks : stage'[v] = "pending"}
    BY <2>2, OwnersTypes DEF OneOwner
  <2>6. OneOwner'
    BY <1>1, <2>2, <2>3, <2>4, <2>5, OwnersTypes DEF OneOwner, Busy
  <2>7. FlagCoversTask' /\ TakingInv' /\ ViaWorker'
    BY <1>1, <2>2, OwnersTypes DEF FlagCoversTask, TakingInv, ViaWorker, Busy
  <2>8. QED
    BY <2>6, <2>7 DEF Owners
<1>4. QED
  BY <1>2, <1>3

\* The push of post() and planned_shutdown() moves the caller's task into the
\* queue.
LEMMA OwnersPush ==
    ASSUME Inv, NEW t \in Threads, DoPush(t)
    PROVE  Owners'
<1> DEFINE v == arg[t]
<1>1. v \in Tasks /\ stage[v] = "posting" /\ on[t] \in Workers
  <2>1. todo[t] \in Seq(StepNames) /\ todo[t] # <<>> /\ todo[t][1] = "push"
    BY DEF DoPush, At, Inv, TypeOK
  <2>2. 1 \in 1..Len(todo[t])
    BY <2>1
  <2>3. arg[t] # None /\ on[t] \in Workers
    BY <2>1, <2>2 DEF Inv, PushHasTask, OnWorker
  <2>4. QED
    BY <2>3, OwnersTypes DEF OneOwner
<1> HIDE DEF v
<1>2. /\ queue' = Append(queue, v)
      /\ arg' = [arg EXCEPT ![t] = None]
      /\ via' = [via EXCEPT ![v] = on[t]]
      /\ UNCHANGED <<executing, taking, at, task>> /\ taking = {}
      /\ \A x \in Tasks : stage'[x] = IF x \in {v} THEN "pending" ELSE stage[x]
  BY MarkFacts DEF DoPush, Q!Push, Q!MutexFree, threads, Inv, Stages, v
<1>3. v \notin Range(queue)
  BY <1>1, OwnersTypes DEF OneOwner
<1>4. /\ DOMAIN queue' = DOMAIN queue \cup {Len(queue) + 1}
      /\ queue'[Len(queue) + 1] = v
      /\ \A i \in DOMAIN queue : queue'[i] = queue[i] /\ i < Len(queue) + 1
      /\ Range(queue') = Range(queue) \cup {v}
  BY <1>1, <1>2, OwnersTypes, AppendFacts
<1>5. \A i \in DOMAIN queue : queue[i] \in Range(queue)
  BY DEF Range
<1>6. \A i, j \in DOMAIN queue' : queue'[i] = queue'[j] => i = j
  BY <1>3, <1>4, <1>5, OwnersTypes DEF OneOwner
<1>7. Range(queue') = {x \in Tasks : stage'[x] = "pending"}
  BY <1>1, <1>2, <1>4, OwnersTypes DEF OneOwner
<1>8. \A u \in Threads : u # t => arg'[u] = arg[u]
  BY <1>2, OwnersTypes
<1>9. arg'[t] = None /\ arg[t] = v
  BY <1>2, OwnersTypes DEF v
<1>10. \A u \in Threads : arg'[u] # None => u # t /\ arg'[u] # v
  BY <1>1, <1>8, <1>9, OwnersTypes DEF OneOwner
<1>11. OneOwner'
  BY <1>1, <1>2, <1>6, <1>7, <1>8, <1>9, <1>10, OwnersTypes DEF OneOwner, Busy
<1>12. FlagCoversTask' /\ TakingInv' /\ ViaWorker'
  BY <1>1, <1>2, OwnersTypes DEF FlagCoversTask, TakingInv, ViaWorker, Busy
<1>13. QED
  BY <1>11, <1>12 DEF Owners

\* Every step of a call keeps the owners apart.
LEMMA OwnersStep ==
    ASSUME Inv, NEW t \in Threads, Step(t)
    PROVE  Owners'
<1>1. CASE DoClear(t) \/ Admit(t) \/ DoPush(t)
  BY <1>1, OwnersClear, OwnersAdmit, OwnersPush
<1>2. CASE \/ DoSetPolicy(t) \/ DoBlock(t) \/ DoNotify(t) \/ DoEmitCancel(t)
           \/ RaiseShutdown(t) \/ SelfWait(t) \/ UntilCancelled(t)
  BY <1>2, OwnersFrame
     DEF DoSetPolicy, DoBlock, Q!BlockStore, DoNotify, Q!BlockNotify, Q!NotifyOne,
         DoEmitCancel, RaiseShutdown, SelfWait, UntilCancelled, Advance, Leave, asyncq, threads
<1>3. CASE \/ DoWaitRunning(t) \/ DoWaitCompletion(t) \/ DoCheckEmpty(t)
           \/ DoJoinable(t) \/ DoJoin(t) \/ DoJoined(t)
  BY <1>3, OwnersFrame
     DEF DoWaitRunning, DoWaitCompletion, DoCheckEmpty, DoJoinable, DoJoin,
         DoJoined, Advance, Leave, asyncq, threads, call
<1>4. QED
  BY <1>1, <1>2, <1>3 DEF Step

\* A caller that takes up a fresh task is its only owner; "entered" is what
\* Call and Exec share.
LEMMA OwnersEnter ==
    ASSUME Inv, NEW t \in Threads, NEW v \in Tasks \cup {None},
           arg'[t] = v,
           \A u \in Threads \ {t} : arg'[u] = arg[u],
           v # None => stage[v] = "fresh",
           Mark({v}, "posting"),
           UNCHANGED <<queue, task, via>>
    PROVE  /\ Range(queue') = {x \in Tasks : stage'[x] = "pending"}
           /\ \A u \in Threads : arg'[u] # None => stage'[arg'[u]] = "posting"
           /\ \A u, x \in Threads : arg'[u] = arg'[x] /\ arg'[u] # None => u = x
           /\ \A x \in Tasks : stage[x] \in {"pending", "active"} \/
                               stage'[x] \in {"pending", "active"}
                                  => stage'[x] = stage[x]
<1>1. \A x \in Tasks : stage'[x] = IF x \in {v} THEN "posting" ELSE stage[x]
  BY MarkFacts DEF Inv, Stages
<1>2. \A u \in Threads \ {t} : arg'[u] # None => arg'[u] # v /\ arg'[u] \in Tasks
  BY OwnersTypes DEF OneOwner
<1>3. Range(queue') = {x \in Tasks : stage'[x] = "pending"}
  BY <1>1, OwnersTypes DEF OneOwner
<1>4. \A u \in Threads : arg'[u] # None => stage'[arg'[u]] = "posting"
  BY <1>1, <1>2, OwnersTypes DEF OneOwner
<1>5. \A u, x \in Threads : arg'[u] = arg'[x] /\ arg'[u] # None => u = x
  BY <1>2, OwnersTypes DEF OneOwner
<1>6. ASSUME NEW x \in Tasks PROVE
         stage[x] \in {"pending", "active"} \/ stage'[x] \in {"pending", "active"}
             => stage'[x] = stage[x]
  <2>1. CASE x = v
    <3>1. stage[x] = "fresh" /\ stage'[x] = "posting"
      BY <1>1, <2>1, OwnersTypes
    <3>2. QED
      BY <3>1
  <2>2. CASE x # v
    BY <1>1, <2>2
  <2>3. QED
    BY <2>1, <2>2
<1>7. QED
  BY <1>3, <1>4, <1>5, <1>6

LEMMA OwnersCall ==
    ASSUME Inv, NEW t \in Clients, NEW m \in Methods \cup Postings,
           NEW w \in Workers, NEW v \in Tasks \cup {None}, Call(t, m, w, v)
    PROVE  Owners'
<1>1. m \in (Bodies \ {"end"}) \cup Postings /\ t \in Threads
  BY DEF Bodies, Methods, LowLevel, Aggregated, Policies, Threads
<1>2. /\ arg'[t] = v
      /\ \A u \in Threads \ {t} : arg'[u] = arg[u]
      /\ v # None => stage[v] = "fresh"
  BY <1>1, EnterFacts DEF Call, Inv
<1>3. /\ UNCHANGED <<queue, nonempty, executing, taking, task, at, via>>
      /\ Mark({v}, "posting")
  BY DEF Call, asyncq, threads
<1>4. /\ Range(queue') = {x \in Tasks : stage'[x] = "pending"}
      /\ \A u \in Threads : arg'[u] # None => stage'[arg'[u]] = "posting"
      /\ \A u, x \in Threads : arg'[u] = arg'[x] /\ arg'[u] # None => u = x
      /\ \A x \in Tasks : stage[x] \in {"pending", "active"} \/
                          stage'[x] \in {"pending", "active"}
                             => stage'[x] = stage[x]
  BY <1>1, <1>2, <1>3, OwnersEnter
<1>5. OneOwner'
  BY <1>3, <1>4, OwnersTypes DEF OneOwner, Busy
<1>6. FlagCoversTask' /\ TakingInv' /\ ViaWorker'
  BY <1>3, <1>4, OwnersTypes DEF FlagCoversTask, TakingInv, ViaWorker, Busy
<1>7. QED
  BY <1>5, <1>6 DEF Owners

\* pop() decides to take, or raises the flag.
LEMMA OwnersTaking ==
    ASSUME Inv, NEW w \in Workers, PopDecides(w) \/ PopExtracts(w)
    PROVE  Owners'
<1>1. UNCHANGED <<queue, nonempty, at, task, arg, stage, via>>
  BY DEF PopDecides, Q!PopDecide, PopExtracts, Q!PopExtract, threads, call
<1>2. OneOwner' /\ ViaWorker'
  BY <1>1, OwnersTypes DEF OneOwner, ViaWorker, Busy
<1>3. CASE PopDecides(w)
  <2>1. /\ taking' = {w} /\ executing' = executing /\ at[w] = "pop"
        /\ taking = {} /\ w \notin nonempty /\ queue # <<>>
    BY <1>3 DEF PopDecides, Q!PopDecide, Q!MutexFree, Q!Ready, Q!Empty
  <2>2. QED
    BY <1>1, <1>2, <2>1, OwnersTypes DEF Owners, FlagCoversTask, TakingInv, Busy
<1>4. CASE PopExtracts(w)
  <2>1. /\ taking' = taking /\ w \in taking
        /\ executing' = [executing EXCEPT ![w] = TRUE]
    BY <1>4 DEF PopExtracts, Q!PopExtract
  <2>2. executing'[w] /\ \A x \in Workers \ {w} : executing'[x] = executing[x]
    BY <2>1, OwnersTypes
  <2>3. FlagCoversTask'
    BY <1>1, <2>1, <2>2, OwnersTypes DEF FlagCoversTask, Busy
  <2>4. TakingInv'
    BY <1>1, <2>1, OwnersTypes DEF TakingInv
  <2>5. QED
    BY <1>2, <2>3, <2>4 DEF Owners
<1>5. QED
  BY <1>3, <1>4

\* pop() hands the front of the queue to the worker.
LEMMA OwnersPop ==
    ASSUME Inv, NEW w \in Workers, PopTakes(w)
    PROVE  Owners'
<1> DEFINE v == Head(queue)
<1>1. /\ queue # <<>> /\ queue' = Tail(queue)
      /\ task' = [task EXCEPT ![w] = v]
      /\ at' = [at EXCEPT ![w] = "popped"] /\ at[w] = "pop"
      /\ executing' = executing /\ executing[w]
      /\ taking = {w} /\ taking' = {}
      /\ UNCHANGED <<arg, via>>
      /\ \A x \in Tasks : stage'[x] = IF x \in {v} THEN "active" ELSE stage[x]
  BY MarkFacts DEF PopTakes, Q!PopTake, TakingInv, call, Inv, Stages
<1>2. /\ v \in Tasks /\ v = queue[1] /\ 1 \in DOMAIN queue
      /\ queue' \in Seq(Tasks)
      /\ \A i \in DOMAIN queue' :
            i + 1 \in DOMAIN queue /\ queue'[i] = queue[i + 1] /\ 1 < i + 1
      /\ Range(queue) = Range(queue') \cup {v}
  BY <1>1, OwnersTypes, TailFacts
<1> HIDE DEF v
<1>3. DOMAIN queue' \subseteq Nat
  BY <1>2
<1>4. \A i, j \in DOMAIN queue : queue[i] = queue[j] => i = j
  BY OwnersTypes DEF OneOwner
<1>5. \A i, j \in DOMAIN queue' : queue'[i] = queue'[j] => i = j
  <2>1. SUFFICES ASSUME NEW i \in DOMAIN queue', NEW j \in DOMAIN queue',
                        queue'[i] = queue'[j]
                 PROVE  i = j
    OBVIOUS
  <2>2. i + 1 = j + 1
    BY <2>1, <1>2, <1>4
  <2>3. QED
    BY <2>2, <1>3
<1>6. v \notin Range(queue')
  <2>1. SUFFICES ASSUME NEW i \in DOMAIN queue', queue'[i] = v PROVE FALSE
    BY DEF Range
  <2>2. i + 1 = 1 /\ 1 < i + 1
    BY <2>1, <1>2, <1>4
  <2>3. QED
    BY <2>2, <1>3
<1>7. stage[v] = "pending"
  BY <1>2, OwnersTypes DEF OneOwner
<1>8. Range(queue') = {x \in Tasks : stage'[x] = "pending"}
  BY SMTT(20), <1>1, <1>2, <1>6, OwnersTypes DEF OneOwner
<1>9. /\ at'[w] = "popped" /\ task'[w] = v /\ executing'[w]
      /\ \A x \in Workers \ {w} : /\ at'[x] = at[x] /\ task'[x] = task[x]
                                   /\ executing'[x] = executing[x]
  BY <1>1, OwnersTypes
<1>10. \A x \in Workers \ {w} :
          /\ task'[x] # v
          /\ IF at[x] \in {"popped", "exec"}
             THEN task[x] # None /\ stage'[task[x]] = "active"
             ELSE task[x] = None
  <2>1. SUFFICES ASSUME NEW x \in Workers \ {w}
                 PROVE  /\ task[x] # v
                        /\ IF at[x] \in {"popped", "exec"}
                           THEN task[x] # None /\ stage'[task[x]] = "active"
                           ELSE task[x] = None
    BY <1>9
  <2>2. IF at[x] \in {"popped", "exec"}
        THEN task[x] # None /\ stage[task[x]] = "active"
        ELSE task[x] = None
    BY OwnersTypes DEF OneOwner, Busy
  <2>3. task[x] # v
    BY <1>2, <1>7, <2>2, OwnersTypes
  <2>4. QED
    BY <1>1, <2>2, <2>3, OwnersTypes
<1>11. \A x \in Workers :
          IF at'[x] \in {"popped", "exec"}
          THEN task'[x] # None /\ stage'[task'[x]] = "active"
          ELSE task'[x] = None
  BY <1>1, <1>2, <1>9, <1>10, OwnersTypes
<1>12. \A x, y \in Workers : task'[x] = task'[y] /\ task'[x] # None => x = y
  BY <1>9, <1>10, OwnersTypes DEF OneOwner
<1>13. /\ \A t \in Threads : arg'[t] # None => stage'[arg'[t]] = "posting"
       /\ \A t, u \in Threads : arg'[t] = arg'[u] /\ arg'[t] # None => t = u
  BY <1>1, <1>7, OwnersTypes DEF OneOwner
<1>14. OneOwner'
  BY <1>5, <1>8, <1>11, <1>12, <1>13 DEF OneOwner, Busy
<1>15. FlagCoversTask' /\ TakingInv'
  BY <1>1, <1>9, OwnersTypes DEF FlagCoversTask, TakingInv, Busy
<1>16. ViaWorker'
  BY <1>1, <1>7, OwnersTypes DEF ViaWorker
<1>17. QED
  BY <1>14, <1>15, <1>16 DEF Owners

\* The end of a task, in exec() or in "if (!task) break", frees its worker.
LEMMA OwnersEnd ==
    ASSUME Inv, NEW w \in Workers, EndTask(w) \/ Finish(w)
    PROVE  Owners'
<1> DEFINE v == task[w]
<1>1. /\ Busy(w)
      /\ task' = [task EXCEPT ![w] = None]
      /\ UNCHANGED <<queue, nonempty, taking, arg, via>>
      /\ \A x \in Tasks : stage'[x] = IF x \in {v} THEN "done" ELSE stage[x]
  BY MarkFacts DEF EndTask, Finish, Busy, call, asyncq, Inv, Stages
<1>2. v \in Tasks /\ stage[v] = "active"
  BY <1>1, OwnersTypes DEF OneOwner
<1> HIDE DEF v
<1>3. /\ at'[w] \in {"exited", "pop"}
      /\ at'[w] = "pop" => ~executing'[w]
      /\ \A x \in Workers \ {w} : at'[x] = at[x] /\ executing'[x] = executing[x]
  BY OwnersTypes DEF EndTask, Finish, asyncq
<1>4. /\ task'[w] = None
      /\ \A x \in Workers \ {w} : task'[x] = task[x]
      /\ \A x \in Workers \ {w} : task[x] # v
  BY <1>1, <1>2, OwnersTypes DEF OneOwner, v
<1>5. Range(queue') = {x \in Tasks : stage'[x] = "pending"}
  BY <1>1, <1>2, OwnersTypes DEF OneOwner
<1>6. \A x \in Workers :
          IF at'[x] \in {"popped", "exec"}
          THEN task'[x] # None /\ stage'[task'[x]] = "active"
          ELSE task'[x] = None
  BY <1>1, <1>2, <1>3, <1>4, OwnersTypes DEF OneOwner, Busy
<1>7. OneOwner'
  BY <1>1, <1>2, <1>4, <1>5, <1>6, OwnersTypes DEF OneOwner, Busy
<1>8. FlagCoversTask' /\ TakingInv'
  BY <1>1, <1>3, OwnersTypes DEF FlagCoversTask, TakingInv, Busy
<1>9. ViaWorker'
  BY <1>1, OwnersTypes DEF ViaWorker
<1>10. QED
  BY <1>7, <1>8, <1>9 DEF Owners

\* exec() keeps the popped task, and takes up the task it posts.
LEMMA OwnersExec ==
    ASSUME Inv, NEW w \in Workers, NEW v \in Tasks \cup {None}, Exec(w, v)
    PROVE  Owners'
<1> DEFINE b == Body[task[w]]
           y == IF b \in {"until_cancelled", "return"} THEN w ELSE via[task[w]]
<1>1. task[w] \in Tasks /\ stage[task[w]] = "active"
  BY OwnersTypes DEF Exec, OneOwner, Busy
<1>2. b \in (Bodies \ {"end"}) \cup Postings /\ y \in Workers /\ w \in Threads
  BY <1>1, OwnersTypes, TasksAssumption DEF Exec, ViaWorker, Threads
<1>3. Enter(w, b, y, v)
  BY DEF Exec
<1> HIDE DEF b, y
<1>4. /\ arg'[w] = v
      /\ \A u \in Threads \ {w} : arg'[u] = arg[u]
      /\ v # None => stage[v] = "fresh"
  BY <1>2, <1>3, EnterFacts DEF Inv
<1>5. /\ UNCHANGED <<queue, nonempty, executing, taking, task, via>>
      /\ at[w] = "popped" /\ at' = [at EXCEPT ![w] = "exec"]
      /\ Mark({v}, "posting")
  BY DEF Exec, asyncq
<1>6. /\ Range(queue') = {x \in Tasks : stage'[x] = "pending"}
      /\ \A u \in Threads : arg'[u] # None => stage'[arg'[u]] = "posting"
      /\ \A u, x \in Threads : arg'[u] = arg'[x] /\ arg'[u] # None => u = x
      /\ \A x \in Tasks : stage[x] \in {"pending", "active"} \/
                          stage'[x] \in {"pending", "active"}
                             => stage'[x] = stage[x]
  BY <1>2, <1>4, <1>5, OwnersEnter
<1>7. at'[w] = "exec" /\ \A x \in Workers \ {w} : at'[x] = at[x]
  BY <1>5, OwnersTypes
<1>8. \A x \in Workers :
          IF at'[x] \in {"popped", "exec"}
          THEN task'[x] # None /\ stage'[task'[x]] = "active"
          ELSE task'[x] = None
  BY <1>5, <1>6, <1>7, OwnersTypes DEF OneOwner, Busy
<1>9. OneOwner'
  BY <1>5, <1>6, <1>8, OwnersTypes DEF OneOwner, Busy
<1>10. FlagCoversTask' /\ TakingInv' /\ ViaWorker'
  BY <1>5, <1>6, <1>7, OwnersTypes DEF FlagCoversTask, TakingInv, ViaWorker, Busy
<1>11. QED
  BY <1>9, <1>10 DEF Owners

LEMMA OwnersRun ==
    ASSUME Inv, NEW w \in Workers, Run(w)
    PROVE  Owners'
<1>1. ASSUME PopSleeps(w) PROVE Owners'
  BY <1>1, OwnersFrame DEF PopSleeps, Q!PopSleep, Q!MutexFree, threads, call
<1>2. ASSUME LoopEnds(w) PROVE Owners'
  <2>1. /\ UNCHANGED <<queue, executing, taking, task, arg, stage, via>>
        /\ at[w] = "pop" /\ at' = [at EXCEPT ![w] = "exited"] /\ taking = {}
    BY <1>2 DEF LoopEnds, Q!PopEnd, Q!MutexFree, Q!qvars, call
  <2>2. at'[w] = "exited" /\ \A x \in Workers \ {w} : at'[x] = at[x]
    BY <2>1, OwnersTypes
  <2>3. QED
    BY <2>1, <2>2, OwnersTypes
       DEF Owners, OneOwner, FlagCoversTask, TakingInv, ViaWorker, Busy
<1>3. QED
  BY <1>1, <1>2, OwnersTaking, OwnersPop, OwnersEnd, OwnersExec DEF Run

LEMMA OwnersSpurious ==
    ASSUME Inv, Spurious
    PROVE  Owners'
  BY OwnersFrame DEF Spurious, Q!SpuriousWake, asyncq, threads, call

-----------------------------------------------------------------------------
(* Each action keeps the calls in progress well formed. *)

InCalls == PushHasTask /\ OnWorker /\ IdleOutsideExec

\* What is left of one call: its only push is the last step.
PushLast(s) == \A i \in 1..Len(s) : s[i] = "push" => i = Len(s)

LEMMA PushLastTail ==
    ASSUME NEW s \in Seq(StepNames), s # <<>>, PushLast(s)
    PROVE  /\ PushLast(Tail(s))
           /\ Head(s) = "push" => Tail(s) = <<>>
           /\ \A i \in 1..Len(Tail(s)) :
                 Tail(s)[i] = "push" => \E j \in 1..Len(s) : s[j] = "push"
  BY LastTail DEF PushLast

\* How a step of a call changes what is left of it.
LEMMA StepShape ==
    ASSUME NEW t \in Threads, Step(t)
    PROVE  /\ todo[t] # <<>>
           /\ UNCHANGED <<at, on>>
           /\ \/ UNCHANGED <<todo, arg>>
              \/ Advance(t)
              \/ /\ todo' = [todo EXCEPT ![t] = <<>>]
                 /\ arg' = arg \/ arg' = [arg EXCEPT ![t] = None]
              \/ /\ \/ todo' = [todo EXCEPT ![t] = <<"check_empty">>]
                    \/ todo' = [todo EXCEPT ![t] = <<"wait_completion">>]
                 /\ arg' = arg
              \/ /\ At(t, "push")
                 /\ todo' = [todo EXCEPT ![t] = Tail(@)]
                 /\ arg' = [arg EXCEPT ![t] = None]
<1>1. CASE \/ DoSetPolicy(t) \/ DoBlock(t) \/ DoNotify(t) \/ DoClear(t)
           \/ DoEmitCancel(t) \/ RaiseShutdown(t) \/ DoJoined(t)
           \/ UntilCancelled(t)
  BY <1>1
     DEF DoSetPolicy, DoBlock, DoNotify, DoClear, DoEmitCancel, RaiseShutdown,
         DoJoined, UntilCancelled, At, Advance, threads
<1>2. CASE SelfWait(t) \/ DoJoinable(t) \/ DoJoin(t) \/ Admit(t)
  BY <1>2 DEF SelfWait, DoJoinable, DoJoin, Admit, At, Advance, Leave, threads
<1>3. CASE DoWaitRunning(t) \/ DoWaitCompletion(t)
  BY <1>3 DEF DoWaitRunning, DoWaitCompletion, At, Advance, threads, call
<1>4. CASE DoCheckEmpty(t)
  BY <1>4 DEF DoCheckEmpty, At, Leave, threads
<1>5. CASE DoPush(t)
  BY <1>5 DEF DoPush, At, threads
<1>6. QED
  BY <1>1, <1>2, <1>3, <1>4, <1>5 DEF Step

LEMMA InCallsStep ==
    ASSUME Inv, NEW t \in Threads, Step(t)
    PROVE  InCalls'
<1>0. /\ todo \in [Threads -> Seq(StepNames)]
      /\ arg \in [Threads -> Tasks \cup {None}]
      /\ PushHasTask /\ OnWorker /\ IdleOutsideExec
      /\ Workers \subseteq Threads
      /\ \A u \in Threads : PushLast(todo[u])
  BY DEF Inv, TypeOK, PushHasTask, PushLast, Threads
<1>1. todo[t] # <<>> /\ UNCHANGED <<at, on>>
  BY StepShape
<1>2. SUFFICES /\ \A u \in Threads \ {t} : todo'[u] = todo[u] /\ arg'[u] = arg[u]
               /\ \A i \in 1..Len(todo'[t]) :
                     todo'[t][i] = "push" => i = Len(todo'[t]) /\ arg'[t] # None
  <2>1. OnWorker'
    BY <1>0, <1>1, <1>2 DEF OnWorker
  <2>2. IdleOutsideExec'
    BY <1>0, <1>1, <1>2 DEF IdleOutsideExec
  <2>3. PushHasTask'
    BY <1>0, <1>2 DEF PushHasTask
  <2>4. QED
    BY <2>1, <2>2, <2>3 DEF InCalls
<1>3. CASE UNCHANGED <<todo, arg>>
  BY <1>0, <1>3 DEF PushHasTask
<1>4. CASE Advance(t)
  <2>1. /\ todo' = [todo EXCEPT ![t] = Tail(todo[t])] /\ arg' = arg
    BY <1>4 DEF Advance
  <2>2. todo'[t] = Tail(todo[t]) /\ \A u \in Threads \ {t} : todo'[u] = todo[u]
    BY <1>0, <2>1
  <2>3. \A i \in 1..Len(Tail(todo[t])) :
            Tail(todo[t])[i] = "push" => i = Len(Tail(todo[t])) /\ arg[t] # None
    BY <1>0, <1>1, PushLastTail DEF PushLast, PushHasTask
  <2>4. QED
    BY <2>1, <2>2, <2>3
<1>5. CASE /\ todo' = [todo EXCEPT ![t] = <<>>]
           /\ arg' = arg \/ arg' = [arg EXCEPT ![t] = None]
  <2>1. /\ \A u \in Threads \ {t} : todo'[u] = todo[u] /\ arg'[u] = arg[u]
        /\ todo'[t] = <<>>
    BY <1>0, <1>5
  <2>2. 1..Len(<<>>) = {}
    OBVIOUS
  <2>3. QED
    BY <2>1, <2>2
<1>6. CASE /\ \/ todo' = [todo EXCEPT ![t] = <<"check_empty">>]
              \/ todo' = [todo EXCEPT ![t] = <<"wait_completion">>]
           /\ arg' = arg
  <2>1. /\ \A u \in Threads \ {t} : todo'[u] = todo[u] /\ arg'[u] = arg[u]
        /\ todo'[t] = <<"check_empty">> \/ todo'[t] = <<"wait_completion">>
    BY <1>0, <1>6
  <2>2. \A i \in 1..Len(todo'[t]) : todo'[t][i] # "push"
    BY <2>1
  <2>3. QED
    BY <2>1, <2>2
<1>7. CASE /\ At(t, "push")
           /\ todo' = [todo EXCEPT ![t] = Tail(@)]
           /\ arg' = [arg EXCEPT ![t] = None]
  <2>1. /\ \A u \in Threads \ {t} : todo'[u] = todo[u] /\ arg'[u] = arg[u]
        /\ todo'[t] = Tail(todo[t])
    BY <1>0, <1>7
  <2>2. Tail(todo[t]) = <<>>
    BY <1>0, <1>1, <1>7, PushLastTail DEF At
  <2>3. 1..Len(<<>>) = {}
    OBVIOUS
  <2>4. QED
    BY <2>1, <2>2, <2>3
<1>8. QED
  BY <1>3, <1>4, <1>5, <1>6, <1>7, StepShape

LEMMA InCallsCall ==
    ASSUME Inv, NEW t \in Clients, NEW m \in Methods \cup Postings,
           NEW w \in Workers, NEW v \in Tasks \cup {None}, Call(t, m, w, v)
    PROVE  InCalls'
<1>1. m \in (Bodies \ {"end"}) \cup Postings /\ t \in Threads /\ t \notin Workers
  BY ThreadsAssumption
     DEF Bodies, Methods, LowLevel, Aggregated, Policies, Threads
<1>2. /\ on'[t] = w /\ arg'[t] = v
      /\ \A u \in Threads \ {t} :
            todo'[u] = todo[u] /\ on'[u] = on[u] /\ arg'[u] = arg[u]
      /\ \A i \in 1..Len(todo'[t]) :
            todo'[t][i] = "push" => i = Len(todo'[t]) /\ v # None
      /\ at' = at
  BY <1>1, EnterFacts DEF Call, Inv, threads
<1>3. QED
  BY <1>1, <1>2
     DEF InCalls, Inv, PushHasTask, OnWorker, IdleOutsideExec, Threads

LEMMA InCallsRun ==
    ASSUME Inv, NEW w \in Workers, Run(w)
    PROVE  InCalls'
<1>0. at \in [Workers -> {"pop", "popped", "exec", "exited"}]
  BY OwnersTypes
<1>1. CASE \/ PopSleeps(w) \/ LoopEnds(w) \/ PopDecides(w) \/ PopExtracts(w)
           \/ PopTakes(w) \/ EndTask(w) \/ Finish(w)
  <2>1. /\ UNCHANGED <<todo, on, arg>>
        /\ at[w] # "exec" \/ todo[w] = <<>>
        /\ \A x \in Workers \ {w} : at'[x] = at[x]
    BY <1>0, <1>1, OwnersTypes
       DEF PopSleeps, LoopEnds, PopDecides, PopExtracts, Q!PopExtract, TakingInv,
           PopTakes, EndTask, Finish, call, threads
  <2>2. todo[w] = <<>>
    BY <2>1 DEF Inv, IdleOutsideExec
  <2>3. QED
    BY <2>1, <2>2 DEF InCalls, Inv, PushHasTask, OnWorker, IdleOutsideExec
<1>2. ASSUME NEW v \in Tasks \cup {None}, Exec(w, v) PROVE InCalls'
  <2> DEFINE b == Body[task[w]]
             y == IF b \in {"until_cancelled", "return"} THEN w ELSE via[task[w]]
  <2>1. task[w] \in Tasks /\ stage[task[w]] = "active"
    BY <1>2, OwnersTypes DEF Exec, OneOwner, Busy
  <2>2. b \in (Bodies \ {"end"}) \cup Postings /\ y \in Workers /\ w \in Threads
    BY <1>2, <2>1, OwnersTypes, TasksAssumption DEF Exec, ViaWorker, Threads
  <2>3. Enter(w, b, y, v) /\ at' = [at EXCEPT ![w] = "exec"]
    BY <1>2 DEF Exec
  <2> HIDE DEF b, y
  <2>4. /\ on'[w] = y /\ arg'[w] = v
        /\ \A u \in Threads \ {w} :
              todo'[u] = todo[u] /\ on'[u] = on[u] /\ arg'[u] = arg[u]
        /\ \A i \in 1..Len(todo'[w]) :
              todo'[w][i] = "push" => i = Len(todo'[w]) /\ v # None
    BY <2>2, <2>3, EnterFacts DEF Inv
  <2>5. at'[w] = "exec" /\ \A x \in Workers \ {w} : at'[x] = at[x]
    BY <1>0, <2>3
  <2>6. PushHasTask' /\ OnWorker'
    BY <2>2, <2>4 DEF Inv, PushHasTask, OnWorker
  <2>7. IdleOutsideExec'
    BY <2>4, <2>5 DEF Inv, IdleOutsideExec, Threads
  <2>8. QED
    BY <2>6, <2>7 DEF InCalls
<1>3. QED
  BY <1>1, <1>2 DEF Run

-----------------------------------------------------------------------------
(* The invariant, and what follows from it. *)

LEMMA InvInit == Init => Inv
<1> SUFFICES ASSUME Init PROVE Inv
  OBVIOUS
<1>1. Q!QueueTypeOK
  <2>1. queue \in Seq(Tasks) /\ nonempty \in SUBSET Workers /\ taking \in SUBSET Workers
    BY DEF Init, Q!QueueInit
  <2>2. /\ blocked \in BOOLEAN /\ shutdown \in [Workers -> BOOLEAN]
        /\ executing \in [Workers -> BOOLEAN]
    BY Zenon DEF Init, Q!QueueInit
  <2>3. QED
    BY <2>1, <2>2 DEF Q!QueueTypeOK
<1>2. /\ canceled \in [Workers -> BOOLEAN] /\ joined \in [Workers -> BOOLEAN]
  BY Zenon DEF Init
<1>3. /\ policy \in [Workers -> Policies]
      /\ mutex \in [Workers -> Threads \cup {None}]
      /\ completed \in [Workers -> SUBSET Threads]
      /\ joiner \in [Workers -> Threads \cup {None}]
      /\ at \in [Workers -> {"pop", "popped", "exec", "exited"}]
      /\ task \in [Workers -> Tasks \cup {None}]
  BY DEF Init, Policies
<1>4. /\ todo \in [Threads -> Seq(StepNames)]
      /\ on \in [Threads -> Workers \cup {None}]
      /\ arg \in [Threads -> Tasks \cup {None}]
      /\ calls \in [Clients -> 0..MaxCalls]
      /\ stage \in [Tasks -> Stages]
      /\ via \in [Tasks -> Workers \cup {None}]
  BY CallsAssumption DEF Init, Stages
<1>5. TypeOK
  BY <1>1, <1>2, <1>3, <1>4 DEF TypeOK
<1>6. Range(queue) = {} /\ DOMAIN queue = {}
  BY EmptyRange DEF Init, Q!QueueInit
<1>7. OneOwner
  BY <1>6 DEF Init, OneOwner, Busy
<1>8. FlagCoversTask /\ TakingInv /\ ViaWorker
  BY DEF Init, Q!QueueInit, FlagCoversTask, TakingInv, ViaWorker, Busy
<1>9. PushHasTask
  <2>1. 1..Len(<<>>) = {}
    OBVIOUS
  <2>2. QED
    BY <2>1 DEF Init, PushHasTask
<1>10. OnWorker /\ IdleOutsideExec
  BY DEF Init, OnWorker, IdleOutsideExec, Threads
<1>11. QED
  BY <1>5, <1>7, <1>8, <1>9, <1>10 DEF Inv

LEMMA InvNext == Inv /\ [Next]_vars => Inv'
<1> SUFFICES ASSUME Inv, [Next]_vars PROVE Inv'
  OBVIOUS
<1>0. SUFFICES TypeOK' /\ Owners' /\ InCalls'
  BY DEF Inv, Owners, InCalls
<1>1. ASSUME NEW t \in Threads, Step(t) PROVE TypeOK' /\ Owners' /\ InCalls'
  BY <1>1, StepTyped, OwnersStep, InCallsStep
<1>2. ASSUME NEW t \in Clients, NEW w \in Workers, NEW v \in Tasks \cup {None},
             NEW m \in Methods \cup Postings, Call(t, m, w, v)
      PROVE  TypeOK' /\ Owners' /\ InCalls'
  BY <1>2, CallTyped, OwnersCall, InCallsCall
<1>3. ASSUME NEW w \in Workers, Run(w) PROVE TypeOK' /\ Owners' /\ InCalls'
  BY <1>3, RunTyped, OwnersRun, InCallsRun
<1>4. CASE Spurious
  <2>1. InCalls'
    BY <1>4
       DEF Spurious, call, threads, Inv, InCalls, PushHasTask, OnWorker,
           IdleOutsideExec
  <2>2. QED
    BY <1>4, <2>1, SpuriousTyped, OwnersSpurious
<1>5. CASE UNCHANGED vars
  <2>1. Owners'
    BY <1>5, OwnersFrame DEF vars, asyncq, threads, call
  <2>2. InCalls'
    BY <1>5
       DEF vars, call, threads, Inv, InCalls, PushHasTask, OnWorker, IdleOutsideExec
  <2>3. TypeOK'
    BY <1>5
       DEF vars, asyncq, members, threads, call, Inv, TypeOK, Q!QueueTypeOK
  <2>4. QED
    BY <2>1, <2>2, <2>3
<1>6. QED
  BY <1>1, <1>2, <1>3, <1>4, <1>5 DEF Next

LEMMA Invariant == Spec => []Inv
  BY InvInit, InvNext, PTL DEF Spec

\* Every variable keeps its type, however many threads call the workers and
\* whatever the tasks do.
THEOREM TypeCorrect == Spec => []TypeOK
<1>1. Inv => TypeOK
  BY DEF Inv
<1>2. QED
  BY <1>1, Invariant, PTL

\* No task is lost, run twice or held by two owners.
THEOREM OwnershipCorrect == Spec => []OneOwner
<1>1. Inv => OneOwner
  BY DEF Inv
<1>2. QED
  BY <1>1, Invariant, PTL

\* m_executing covers a task from the pop to the end of its code.
THEOREM FlagCorrect == Spec => []FlagCoversTask
<1>1. Inv => FlagCoversTask
  BY DEF Inv
<1>2. QED
  BY <1>1, Invariant, PTL

-----------------------------------------------------------------------------
(* What a step may never do. *)

\* A step that is not the loop of worker w leaves it where it is.
LEMMA OthersStay ==
    ASSUME Inv, NEW w \in Workers, [Next]_vars, ~Run(w)
    PROVE  at'[w] = at[w]
<1>1. ASSUME NEW t \in Threads, Step(t) PROVE at'[w] = at[w]
  BY <1>1, StepShape
<1>2. ASSUME NEW x \in Workers, Run(x) PROVE at'[w] = at[w]
  <2>1. x # w
    BY <1>2
  <2>2. QED
    BY <1>2, <2>1, OwnersTypes
       DEF Run, PopSleeps, LoopEnds, PopDecides, PopExtracts, PopTakes, EndTask, Exec,
           Finish, threads
<1>3. CASE \/ Spurious \/ UNCHANGED vars
           \/ \E t \in Clients, x \in Workers, v \in Tasks \cup {None} :
                 \E m \in Methods \cup Postings : Call(t, m, x, v)
  BY <1>3 DEF Spurious, vars, threads, Call
<1>4. QED
  BY <1>1, <1>2, <1>3 DEF Next

\* How the loop of a worker moves.
LEMMA RunShape ==
    ASSUME Inv, NEW w \in Workers, Run(w)
    PROVE  \/ at[w] = "pop" /\ at'[w] = "pop"
           \/ at[w] = "pop" /\ at'[w] = "exited" /\ shutdown[w]
           \/ at[w] = "pop" /\ at'[w] = "popped" /\ w \in taking
           \/ at[w] = "popped" /\ at'[w] \in {"exec", "exited"}
           \/ at[w] = "exec" /\ at'[w] = "pop"
  BY OwnersTypes
     DEF Run, PopSleeps, LoopEnds, Q!PopEnd, PopDecides, PopExtracts, Q!PopExtract,
         TakingInv, PopTakes, Q!PopTake, EndTask, Exec, Finish, threads

\* A method that waits for the running task does not return before its end.
THEOREM WaitCorrect == Spec => WaitsForRunningTask
<1>1. Inv /\ [Next]_vars
         => [\A t \in Threads :
                At(t, "wait_running") /\ ~At(t, "wait_running")' /\ t # on[t]
                    => ~Busy(on[t])]_vars
  <2> SUFFICES ASSUME Inv, [Next]_vars, NEW t \in Threads,
                      At(t, "wait_running"), ~At(t, "wait_running")', t # on[t]
               PROVE  ~Busy(on[t])
    OBVIOUS
  <2>0. /\ todo[t] # <<>> /\ Head(todo[t]) = "wait_running"
        /\ todo'[t] # todo[t] /\ on[t] \in Workers
    BY DEF At, Inv, OnWorker
  <2>1. CASE Step(t)
    <3>1. CASE DoWaitRunning(t)
      <4>1. ~executing[on[t]]
        BY <2>0, <3>1 DEF DoWaitRunning, call
      <4>2. QED
        BY <2>0, <4>1, OwnersTypes DEF FlagCoversTask
    <3>2. CASE ~DoWaitRunning(t)
      BY <2>0, <2>1, <3>2
         DEF Step, DoSetPolicy, Policies, DoBlock, DoNotify, DoClear, DoEmitCancel,
             RaiseShutdown, SelfWait, DoWaitCompletion, DoCheckEmpty, DoJoinable,
             DoJoin, DoJoined, Admit, DoPush, UntilCancelled, At
    <3>3. QED
      BY <3>1, <3>2
  <2>2. ASSUME NEW u \in Threads, u # t, Step(u) PROVE FALSE
    <3>1. todo \in [Threads -> Seq(StepNames)]
      BY DEF Inv, TypeOK
    <3>2. todo'[t] = todo[t]
      BY <2>2, <3>1, StepShape DEF Advance
    <3>3. QED
      BY <2>0, <3>2
  <2>3. ASSUME NEW c \in Clients, NEW x \in Workers, NEW v \in Tasks \cup {None},
               NEW m \in Methods \cup Postings, Call(c, m, x, v)
        PROVE  FALSE
    <3>1. c # t /\ c \in Threads
      BY <2>0, <2>3 DEF Call, Threads
    <3>2. todo \in [Threads -> Seq(StepNames)]
      BY DEF Inv, TypeOK
    <3>3. todo'[t] = todo[t]
      BY <2>3, <3>1, <3>2 DEF Call, Enter
    <3>4. QED
      BY <2>0, <3>3
  <2>4. ASSUME NEW w \in Workers, Run(w) PROVE FALSE
    <3>1. \/ todo' = todo
          \/ /\ at[w] = "popped"
             /\ \E q : todo' = [todo EXCEPT ![w] = q]
      BY <2>4
         DEF Run, PopSleeps, LoopEnds, PopDecides, PopExtracts, PopTakes, EndTask,
             Exec, Enter, Finish, call
    <3>2. at[w] = "popped" => w # t
      BY <2>0 DEF Inv, IdleOutsideExec
    <3>3. todo \in [Threads -> Seq(StepNames)]
      BY DEF Inv, TypeOK
    <3>4. todo'[t] = todo[t]
      BY <3>1, <3>2, <3>3
    <3>5. QED
      BY <2>0, <3>4
  <2>5. CASE Spurious \/ UNCHANGED vars
    BY <2>0, <2>5 DEF Spurious, vars, call
  <2>6. QED
    BY <2>1, <2>2, <2>3, <2>4, <2>5 DEF Next
<1>2. QED
  BY <1>1, Invariant, PTL DEF Spec, WaitsForRunningTask

-----------------------------------------------------------------------------
(* Join.  JoinedIsOver is inductive together with Inv: nothing leaves        *)
(* "exited".                                                                 *)

\* When join() has returned the worker thread holds no task and never will.
THEOREM JoinCorrect == Spec => []JoinedIsOver
<1> DEFINE Joined == \A w \in Workers : joined[w] => at[w] = "exited"
<1>1. Init => Joined
  BY DEF Init
<1>2. Inv /\ Joined /\ [Next]_vars => Joined'
  <2> SUFFICES ASSUME Inv, Joined, [Next]_vars, NEW w \in Workers, joined'[w]
               PROVE  at'[w] = "exited"
    OBVIOUS
  <2>1. at[w] = "exited" => at'[w] = "exited"
    <3>1. CASE Run(w)
      BY <3>1, RunShape
    <3>2. CASE ~Run(w)
      BY <3>2, OthersStay
    <3>3. QED
      BY <3>1, <3>2
  <2>2. ASSUME NEW t \in Threads, DoJoined(t) PROVE at[w] = "exited"
    <3>1. joined \in [Workers -> BOOLEAN]
      BY DEF Inv, TypeOK
    <3>2. CASE w = on[t]
      BY <2>2, <3>2 DEF DoJoined
    <3>3. CASE w # on[t]
      BY <2>2, <3>1, <3>3 DEF DoJoined
    <3>4. QED
      BY <3>2, <3>3
  <2>3. CASE \A t \in Threads : ~DoJoined(t)
    <3>1. ASSUME NEW t \in Threads, Step(t) PROVE joined' = joined
      BY <2>3, <3>1
         DEF Step, DoSetPolicy, DoBlock, DoNotify, DoClear, DoEmitCancel,
             RaiseShutdown, SelfWait, DoWaitRunning, DoWaitCompletion, DoCheckEmpty,
             DoJoinable, DoJoin, Admit, DoPush, UntilCancelled, threads
    <3>2. ASSUME NEW x \in Workers, Run(x) PROVE joined' = joined
      BY <3>2
         DEF Run, PopSleeps, LoopEnds, PopDecides, PopExtracts, PopTakes, EndTask,
             Exec, Finish, threads
    <3>3. CASE \/ Spurious \/ UNCHANGED vars
               \/ \E t \in Clients, x \in Workers, v \in Tasks \cup {None} :
                     \E m \in Methods \cup Postings : Call(t, m, x, v)
      BY <3>3 DEF Spurious, vars, threads, Call
    <3>4. QED
      BY <2>1, <3>1, <3>2, <3>3 DEF Next
  <2>4. QED
    BY <2>1, <2>2, <2>3
<1>3. Inv /\ Joined => JoinedIsOver
  BY OwnersTypes DEF JoinedIsOver, OneOwner, Busy
<1>4. QED
  <2>1. Spec => []Joined
    BY <1>1, <1>2, Invariant, PTL DEF Spec
  <2>2. QED
    BY <2>1, <1>3, Invariant, PTL

-----------------------------------------------------------------------------
(* Notification of the end of a task.  An empty task ends the loop without   *)
(* it, so the theorem is about tasks that are functions.                     *)

NoEmptyTask == \A v \in Tasks : Body[v] # "end"

\* The flag is up only while a task is held or taken, a sleeper is inside the wait of
\* the worker whose condition it sleeps on, and nobody sleeps on its own.
Occupied(w) == Busy(w) \/ w \in taking
FlagMeansBusy == \A w \in Workers : executing[w] => Occupied(w)
Asleep(t, w) ==
    /\ on[t] = w /\ t # w /\ todo[t] # <<>>
    /\ \/ Head(todo[t]) = "wait_running" /\ Occupied(w)
       \/ Head(todo[t]) = "wait_completion"
SleepersWait == \A w \in Workers : \A t \in completed[w] : Asleep(t, w)
CheckedByOthers ==
    \A t \in Threads : \A i \in 1..Len(todo[t]) :
        todo[t][i] = "check_empty" => i = 1 /\ t # on[t]

SleepInv == FlagMeansBusy /\ SleepersWait /\ CheckedByOthers

\* A sleeper takes no step.
LEMMA SleepersStill ==
    ASSUME Inv, SleepInv, NEW t \in Threads, Step(t), NEW w \in Workers
    PROVE  t \notin completed[w]
<1> SUFFICES ASSUME t \in completed[w] PROVE FALSE
  OBVIOUS
<1>1. /\ on[t] = w /\ t # w
      /\ Head(todo[t]) = "wait_running" \/ Head(todo[t]) = "wait_completion"
  BY DEF SleepInv, SleepersWait, Asleep
<1>2. QED
  BY <1>1
     DEF Step, DoSetPolicy, Policies, DoBlock, DoNotify, DoClear, DoEmitCancel,
         RaiseShutdown, SelfWait, DoWaitRunning, DoWaitCompletion, DoCheckEmpty,
         DoJoinable, DoJoin, DoJoined, Admit, DoPush, UntilCancelled, At

\* The threads that a step leaves asleep or puts to sleep.
LEMMA StepSleeps ==
    ASSUME Inv, SleepInv, NEW t \in Threads, Step(t)
    PROVE  /\ UNCHANGED <<at, executing, taking, on>>
           /\ \A u \in Threads \ {t} : todo'[u] = todo[u]
           /\ \/ completed' = completed
              \/ /\ Sleep(t, on[t]) /\ on[t] \in Workers /\ t # on[t]
                 /\ \/ At(t, "wait_running") /\ executing[on[t]] /\ todo' = todo
                    \/ At(t, "wait_completion") /\ todo' = todo
                    \/ todo' = [todo EXCEPT ![t] = <<"wait_completion">>]
           /\ \A i \in 1..Len(todo'[t]) :
                 todo'[t][i] = "check_empty" => i = 1 /\ t # on[t]
<1>0. todo \in [Threads -> Seq(StepNames)] /\ on[t] \in Workers
  BY StepShape DEF Inv, TypeOK, OnWorker
<1>1. /\ UNCHANGED <<at, on>>
      /\ \A u \in Threads \ {t} : todo'[u] = todo[u]
  BY <1>0, StepShape DEF Advance
<1>2. executing' = executing /\ taking' = taking
  BY DEF Step, DoSetPolicy, DoBlock, Q!BlockStore, DoNotify, Q!BlockNotify, DoClear,
         Q!Clear, DoEmitCancel, RaiseShutdown, SelfWait, DoWaitRunning,
         DoWaitCompletion, DoCheckEmpty, DoJoinable, DoJoin, DoJoined, Admit,
         DoPush, Q!Push, UntilCancelled, asyncq
<1>3. \/ completed' = completed
      \/ /\ Sleep(t, on[t]) /\ on[t] \in Workers /\ t # on[t]
         /\ \/ At(t, "wait_running") /\ executing[on[t]] /\ todo' = todo
            \/ At(t, "wait_completion") /\ todo' = todo
            \/ todo' = [todo EXCEPT ![t] = <<"wait_completion">>]
  <2>1. CASE DoWaitRunning(t) \/ DoWaitCompletion(t)
    BY <1>0, <2>1 DEF DoWaitRunning, DoWaitCompletion, call
  <2>2. CASE DoCheckEmpty(t)
    <3>1. 1 \in 1..Len(todo[t]) /\ todo[t][1] = "check_empty"
      BY <1>0, <2>2 DEF DoCheckEmpty, At
    <3>2. t # on[t]
      BY <3>1 DEF SleepInv, CheckedByOthers
    <3>3. QED
      BY <1>0, <2>2, <3>2 DEF DoCheckEmpty
  <2>3. CASE ~(DoWaitRunning(t) \/ DoWaitCompletion(t) \/ DoCheckEmpty(t))
    <3>1. completed' = completed
      BY <2>3
         DEF Step, DoSetPolicy, DoBlock, DoNotify, DoClear, DoEmitCancel,
             RaiseShutdown, SelfWait, DoJoinable, DoJoin, DoJoined, Admit, DoPush,
             UntilCancelled, members
    <3>2. QED
      BY <3>1
  <2>4. QED
    BY <2>1, <2>2, <2>3
<1>4. ASSUME NEW i \in 1..Len(todo'[t]), todo'[t][i] = "check_empty"
      PROVE  i = 1 /\ t # on[t]
  <2>0. \A j \in 1..Len(todo[t]) : todo[t][j] = "check_empty" => j = 1 /\ t # on[t]
    BY DEF SleepInv, CheckedByOthers
  <2>1. CASE DoWaitCompletion(t) /\ todo' = [todo EXCEPT ![t] = <<"check_empty">>]
    <3>1. todo'[t] = <<"check_empty">> /\ t # on[t]
      BY <1>0, <2>1 DEF DoWaitCompletion
    <3>2. QED
      BY <1>4, <3>1
  <2>2. CASE todo' = todo
    BY <1>4, <2>0, <2>2
  <2>3. CASE \/ todo' = [todo EXCEPT ![t] = <<>>]
             \/ todo' = [todo EXCEPT ![t] = <<"wait_completion">>]
    <3>1. todo'[t] = <<>> \/ todo'[t] = <<"wait_completion">>
      BY <1>0, <2>3
    <3>2. QED
      BY <1>4, <3>1
  <2>4. CASE todo' = [todo EXCEPT ![t] = Tail(todo[t])]
    <3>1. todo'[t] = Tail(todo[t]) /\ todo[t] # <<>> /\ todo[t] \in Seq(StepNames)
      BY <1>0, <2>4, StepShape
    <3>2. i + 1 \in 1..Len(todo[t]) /\ todo[t][i + 1] = "check_empty" /\ i + 1 # 1
      BY <1>4, <3>1, TailFacts
    <3>3. QED
      BY <2>0, <3>2
  <2>5. QED
    <3>1. CASE DoWaitCompletion(t)
      BY <2>1, <2>2, <3>1 DEF DoWaitCompletion, call
    <3>2. CASE ~DoWaitCompletion(t)
      BY <2>2, <2>3, <2>4, <3>2
         DEF Step, DoSetPolicy, DoBlock, DoNotify, DoClear, DoEmitCancel,
             RaiseShutdown, SelfWait, DoWaitRunning, DoCheckEmpty, DoJoinable,
             DoJoin, DoJoined, Admit, DoPush, UntilCancelled, Advance, Leave, call
    <3>3. QED
      BY <3>1, <3>2
<1>5. QED
  BY <1>1, <1>2, <1>3, <1>4

LEMMA SleepStep ==
    ASSUME Inv, SleepInv, NEW t \in Threads, Step(t)
    PROVE  SleepInv'
<1>0. /\ todo \in [Threads -> Seq(StepNames)]
      /\ completed \in [Workers -> SUBSET Threads]
      /\ todo[t] # <<>>
  BY StepShape DEF Inv, TypeOK
<1>1. FlagMeansBusy'
  BY StepSleeps DEF SleepInv, FlagMeansBusy, Occupied, Busy
<1>2. ASSUME NEW u \in Threads, NEW i \in 1..Len(todo'[u]), todo'[u][i] = "check_empty"
      PROVE  i = 1 /\ u # on'[u]
  <2>1. CASE u = t
    BY <1>2, <2>1, StepSleeps
  <2>2. CASE u # t
    BY <1>2, <2>2, StepSleeps DEF SleepInv, CheckedByOthers
  <2>3. QED
    BY <2>1, <2>2
<1>3. ASSUME NEW w \in Workers, NEW u \in completed[w] PROVE Asleep(u, w)'
  <2>1. u # t /\ u \in Threads
    BY <1>0, <1>3, SleepersStill
  <2>2. Asleep(u, w) /\ todo'[u] = todo[u] /\ UNCHANGED <<at, taking, on>>
    BY <1>3, <2>1, StepSleeps DEF SleepInv, SleepersWait
  <2>3. QED
    BY <2>2 DEF Asleep, Occupied, Busy
<1>4. ASSUME NEW w \in Workers, NEW u \in completed'[w] PROVE Asleep(u, w)'
  <2>1. CASE u \in completed[w]
    BY <1>3, <2>1
  <2>2. CASE u \notin completed[w]
    <3>1. /\ Sleep(t, on[t]) /\ t # on[t] /\ UNCHANGED <<at, taking, on>>
          /\ \/ At(t, "wait_running") /\ executing[on[t]] /\ todo' = todo
             \/ At(t, "wait_completion") /\ todo' = todo
             \/ todo' = [todo EXCEPT ![t] = <<"wait_completion">>]
      BY <1>4, <2>2, StepSleeps
    <3>2. u = t /\ w = on[t]
      BY <1>0, <1>4, <2>2, <3>1 DEF Sleep
    <3>3. CASE At(t, "wait_running") /\ executing[on[t]] /\ todo' = todo
      <4>1. Occupied(w)
        BY <3>2, <3>3 DEF SleepInv, FlagMeansBusy
      <4>2. QED
        BY <1>0, <3>1, <3>2, <3>3, <4>1 DEF Asleep, At, Occupied, Busy
    <3>4. CASE At(t, "wait_completion") /\ todo' = todo
      BY <1>0, <3>1, <3>2, <3>4 DEF Asleep, At
    <3>5. CASE todo' = [todo EXCEPT ![t] = <<"wait_completion">>]
      <4>1. todo'[t] = <<"wait_completion">>
        BY <1>0, <3>5
      <4>2. todo'[t] # <<>> /\ Head(todo'[t]) = "wait_completion"
        BY <4>1
      <4>3. QED
        BY <3>1, <3>2, <4>2 DEF Asleep
    <3>6. QED
      BY <3>1, <3>3, <3>4, <3>5
  <2>3. QED
    BY <2>1, <2>2
<1>5. QED
  BY <1>1, <1>2, <1>4 DEF SleepInv, SleepersWait, CheckedByOthers

\* A thread that enters a method was not asleep, and has nothing to check yet.
LEMMA SleepEnter ==
    ASSUME Inv, SleepInv, NEW t \in Threads, todo[t] = <<>>,
           UNCHANGED <<executing, completed>>,
           \A w \in Workers : Occupied(w)' = Occupied(w),
           \A u \in Threads \ {t} : todo'[u] = todo[u] /\ on'[u] = on[u],
           \A i \in 1..Len(todo'[t]) : todo'[t][i] # "check_empty"
    PROVE  SleepInv'
<1>1. FlagMeansBusy'
  BY DEF SleepInv, FlagMeansBusy
<1>2. SleepersWait'
  <2>1. SUFFICES ASSUME NEW w \in Workers, NEW u \in completed[w]
                 PROVE  Asleep(u, w)'
    BY DEF SleepersWait
  <2>2. Asleep(u, w) /\ u \in Threads
    BY DEF SleepInv, SleepersWait, Inv, TypeOK
  <2>3. u # t
    BY <2>2 DEF Asleep
  <2>4. QED
    BY <2>2, <2>3 DEF Asleep
<1>3. CheckedByOthers'
  BY DEF SleepInv, CheckedByOthers
<1>4. QED
  BY <1>1, <1>2, <1>3 DEF SleepInv

LEMMA SleepCall ==
    ASSUME Inv, SleepInv, NEW t \in Clients, NEW m \in Methods \cup Postings,
           NEW w \in Workers, NEW v \in Tasks \cup {None}, Call(t, m, w, v)
    PROVE  SleepInv'
<1>1. m \in (Bodies \ {"end"}) \cup Postings /\ t \in Threads
  BY DEF Bodies, Methods, LowLevel, Aggregated, Policies, Threads
<1>2. /\ \A u \in Threads \ {t} : todo'[u] = todo[u] /\ on'[u] = on[u]
      /\ \A i \in 1..Len(todo'[t]) : todo'[t][i] # "check_empty"
  BY <1>1, EnterFacts DEF Call, Inv
<1>3. todo[t] = <<>> /\ UNCHANGED <<executing, taking, completed, at>>
  BY DEF Call, asyncq, members, threads
<1>4. \A x \in Workers : Occupied(x)' = Occupied(x)
  BY <1>3 DEF Occupied, Busy
<1>5. QED
  BY <1>1, <1>2, <1>3, <1>4, SleepEnter

LEMMA SleepRun ==
    ASSUME Inv, SleepInv, NoEmptyTask, NEW w \in Workers, Run(w)
    PROVE  SleepInv'
<1>0. /\ at \in [Workers -> {"pop", "popped", "exec", "exited"}]
      /\ executing \in [Workers -> BOOLEAN]
      /\ completed \in [Workers -> SUBSET Threads]
  BY DEF Inv, TypeOK, Q!QueueTypeOK
<1>1. CASE PopSleeps(w) \/ LoopEnds(w)
  <2>1. /\ UNCHANGED <<executing, taking, completed, todo, on>>
        /\ at[w] = "pop" /\ at'[w] \in {"pop", "exited"}
        /\ \A x \in Workers \ {w} : at'[x] = at[x]
    BY <1>0, <1>1
       DEF PopSleeps, Q!PopSleep, LoopEnds, Q!PopEnd, Q!qvars, members, threads, call
  <2>2. \A x \in Workers : Occupied(x)' = Occupied(x)
    BY <2>1 DEF Occupied, Busy
  <2>3. QED
    BY <2>1, <2>2
       DEF SleepInv, FlagMeansBusy, SleepersWait, Asleep, CheckedByOthers
<1>D. CASE PopDecides(w) \/ PopExtracts(w)
  <2>1. /\ UNCHANGED <<completed, todo, on, at>>
        /\ w \in taking' /\ taking \subseteq taking'
        /\ \A x \in Workers \ {w} : executing'[x] = executing[x]
    BY <1>0, <1>D
       DEF PopDecides, Q!PopDecide, Q!MutexFree, PopExtracts, Q!PopExtract, members,
           threads, call
  <2>2. Occupied(w)' /\ \A x \in Workers : Occupied(x) => Occupied(x)'
    BY <2>1 DEF Occupied, Busy
  <2>3. QED
    BY <2>1, <2>2
       DEF SleepInv, FlagMeansBusy, SleepersWait, Asleep, CheckedByOthers
<1>2. CASE PopTakes(w)
  <2>1. /\ UNCHANGED <<completed, todo, on, executing>>
        /\ at'[w] = "popped" /\ taking = {w}
        /\ \A x \in Workers \ {w} : at'[x] = at[x]
    BY <1>0, <1>2, OwnersTypes DEF PopTakes, Q!PopTake, TakingInv, members, call
  <2>2. Occupied(w)' /\ \A x \in Workers \ {w} : Occupied(x) => Occupied(x)'
    BY <2>1 DEF Occupied, Busy
  <2>3. QED
    BY <2>1, <2>2
       DEF SleepInv, FlagMeansBusy, SleepersWait, Asleep, CheckedByOthers
<1>3. ~EndTask(w)
  <2>1. at[w] = "popped" => task[w] \in Tasks
    BY OwnersTypes DEF OneOwner, Busy
  <2>2. QED
    BY <2>1 DEF EndTask, NoEmptyTask
<1>4. ASSUME NEW v \in Tasks \cup {None}, Exec(w, v) PROVE SleepInv'
  <2> DEFINE b == Body[task[w]]
             y == IF b \in {"until_cancelled", "return"} THEN w ELSE via[task[w]]
  <2>1. task[w] \in Tasks /\ stage[task[w]] = "active"
    BY <1>4, OwnersTypes DEF Exec, OneOwner, Busy
  <2>2. b \in (Bodies \ {"end"}) \cup Postings /\ y \in Workers /\ w \in Threads
    BY <1>4, <2>1, OwnersTypes, TasksAssumption DEF Exec, ViaWorker, Threads
  <2>3. Enter(w, b, y, v)
    BY <1>4 DEF Exec
  <2> HIDE DEF b, y
  <2>4. /\ \A u \in Threads \ {w} : todo'[u] = todo[u] /\ on'[u] = on[u]
        /\ \A i \in 1..Len(todo'[w]) : todo'[w][i] # "check_empty"
    BY <2>2, <2>3, EnterFacts DEF Inv
  <2>5. /\ UNCHANGED <<executing, taking, completed>>
        /\ at[w] = "popped" /\ at'[w] = "exec"
        /\ \A x \in Workers \ {w} : at'[x] = at[x]
    BY <1>0, <1>4 DEF Exec, asyncq
  <2>6. \A x \in Workers : Occupied(x)' = Occupied(x)
    BY <2>5 DEF Occupied, Busy
  <2>7. todo[w] = <<>>
    BY <2>5 DEF Inv, IdleOutsideExec
  <2>8. QED
    BY <2>2, <2>4, <2>5, <2>6, <2>7, SleepEnter
<1>5. CASE Finish(w)
  <2>1. /\ UNCHANGED <<todo, on, taking>>
        /\ executing'[w] = FALSE /\ completed'[w] = {}
        /\ \A x \in Workers \ {w} :
              /\ at'[x] = at[x] /\ executing'[x] = executing[x]
              /\ completed'[x] = completed[x]
    BY <1>0, <1>5 DEF Finish, call
  <2>2. \A x \in Workers \ {w} : Occupied(x)' = Occupied(x)
    BY <2>1 DEF Occupied, Busy
  <2>3. QED
    BY <2>1, <2>2
       DEF SleepInv, FlagMeansBusy, SleepersWait, Asleep, CheckedByOthers
<1>6. QED
  BY <1>1, <1>D, <1>2, <1>3, <1>4, <1>5 DEF Run

\* Whoever sleeps in wait_running_task will be notified, unless an empty task
\* is posted.
THEOREM SleeperCorrect ==
    ASSUME NoEmptyTask
    PROVE  Spec => []SleeperIsNotified
<1>1. Init => SleepInv
  <2>1. 1..Len(<<>>) = {}
    OBVIOUS
  <2>2. QED
    BY <2>1
       DEF Init, Q!QueueInit, SleepInv, FlagMeansBusy, SleepersWait, CheckedByOthers
<1>2. Inv /\ SleepInv /\ [Next]_vars => SleepInv'
  <2> SUFFICES ASSUME Inv, SleepInv, [Next]_vars PROVE SleepInv'
    OBVIOUS
  <2>1. ASSUME Spurious \/ UNCHANGED vars PROVE SleepInv'
    <3>1. /\ UNCHANGED <<executing, taking, at, todo, on>>
          /\ \A w \in Workers : completed'[w] \subseteq completed[w]
      BY <2>1
         DEF Spurious, Q!SpuriousWake, vars, asyncq, members, threads, call, Inv,
             TypeOK
    <3>2. \A w \in Workers : Occupied(w)' = Occupied(w)
      BY <3>1 DEF Occupied, Busy
    <3>3. QED
      BY <3>1, <3>2
         DEF SleepInv, FlagMeansBusy, SleepersWait, Asleep, CheckedByOthers
  <2>2. QED
    BY <2>1, SleepStep, SleepCall, SleepRun DEF Next
<1>3. SleepInv => SleeperIsNotified
  BY DEF SleepInv, SleepersWait, Asleep, Occupied, SleeperIsNotified, At
<1>4. QED
  BY <1>1, <1>2, <1>3, Invariant, PTL DEF Spec

-----------------------------------------------------------------------------
(* The shape of the calls in progress.                                       *)

\* The methods that some client calls or some task's code calls.
Called ==
    ({Body[v] : v \in Tasks} \cup UNION {Calls[t] : t \in Clients}) \ {"end"}

\* A step that is not one of a call in progress begins a call, or leaves the
\* calls alone.
LEMMA CallsMove ==
    ASSUME Inv, [Next]_vars
    PROVE  \/ \E t \in Threads : Step(t)
           \/ /\ UNCHANGED mutex
              /\ \E t \in Threads :
                    /\ todo[t] = <<>>
                    /\ \A u \in Threads \ {t} : todo'[u] = todo[u] /\ on'[u] = on[u]
                    /\ todo'[t] = <<>> \/ \E m \in Called : todo'[t] = Steps(m)
           \/ UNCHANGED <<todo, on, mutex>>
<1>0. todo \in [Threads -> Seq(StepNames)] /\ on \in [Threads -> Workers \cup {None}]
  BY DEF Inv, TypeOK
<1>1. ASSUME NEW t \in Threads, NEW m \in Called, NEW w, NEW v,
             todo[t] = <<>>, Enter(t, m, w, v)
      PROVE  /\ \A u \in Threads \ {t} : todo'[u] = todo[u] /\ on'[u] = on[u]
             /\ todo'[t] = <<>> \/ \E b \in Called : todo'[t] = Steps(b)
  <2>1. /\ todo' = [todo EXCEPT ![t] =
                       IF m \in Postings /\ v = None THEN <<>> ELSE Steps(m)]
        /\ on' = [on EXCEPT ![t] = w]
    BY <1>1 DEF Enter
  <2>2. todo'[t] = <<>> \/ todo'[t] = Steps(m)
    BY <1>0, <2>1
  <2>3. \A u \in Threads \ {t} : todo'[u] = todo[u] /\ on'[u] = on[u]
    BY <1>0, <2>1
  <2>4. QED
    BY <2>2, <2>3
<1>2. ASSUME NEW t \in Clients, NEW w \in Workers, NEW v \in Tasks \cup {None},
             NEW m \in Methods \cup Postings, Call(t, m, w, v)
      PROVE  /\ UNCHANGED mutex
             /\ \E u \in Threads :
                   /\ todo[u] = <<>>
                   /\ \A x \in Threads \ {u} : todo'[x] = todo[x] /\ on'[x] = on[x]
                   /\ todo'[u] = <<>> \/ \E b \in Called : todo'[u] = Steps(b)
  <2>1. m # "end"
    BY DEF Methods, LowLevel, Aggregated, Policies, Postings
  <2>2. m \in Called /\ t \in Threads
    BY <1>2, <2>1 DEF Call, Called, Threads
  <2>3. todo[t] = <<>> /\ Enter(t, m, w, v) /\ UNCHANGED mutex
    BY <1>2 DEF Call, members
  <2>4. QED
    BY <1>1, <2>2, <2>3
<1>3. ASSUME NEW w \in Workers, NEW v \in Tasks \cup {None}, Exec(w, v)
      PROVE  /\ UNCHANGED mutex
             /\ \E u \in Threads :
                   /\ todo[u] = <<>>
                   /\ \A x \in Threads \ {u} : todo'[x] = todo[x] /\ on'[x] = on[x]
                   /\ todo'[u] = <<>> \/ \E b \in Called : todo'[u] = Steps(b)
  <2>1. /\ at[w] = "popped" /\ Body[task[w]] # "end" /\ UNCHANGED mutex
        /\ \E y : Enter(w, Body[task[w]], y, v)
    BY <1>3 DEF Exec
  <2>2. task[w] \in Tasks
    BY <2>1, OwnersTypes DEF OneOwner, Busy
  <2>3. Body[task[w]] \in Called /\ w \in Threads
    BY <2>1, <2>2 DEF Called, Threads
  <2>4. todo[w] = <<>>
    BY <2>1 DEF Inv, IdleOutsideExec
  <2>5. QED
    BY <1>1, <2>1, <2>3, <2>4
<1>4. ASSUME NEW w \in Workers, Run(w), \A v \in Tasks \cup {None} : ~Exec(w, v)
      PROVE  UNCHANGED <<todo, on, mutex>>
  BY <1>4
     DEF Run, PopSleeps, LoopEnds, PopDecides, PopExtracts, PopTakes, EndTask, Finish,
         call, members
<1>5. ASSUME Spurious \/ UNCHANGED vars PROVE UNCHANGED <<todo, on, mutex>>
  BY <1>5 DEF Spurious, vars, call, members
<1>6. QED
  BY <1>2, <1>3, <1>4, <1>5 DEF Next

\* A step of a call leaves the other calls alone.
LEMMA OtherCalls ==
    ASSUME Inv, NEW t \in Threads, Step(t)
    PROVE  /\ \A u \in Threads \ {t} : todo'[u] = todo[u]
           /\ on' = on
           /\ todo'[t] \in {todo[t], Tail(todo[t]), <<>>, <<"check_empty">>,
                            <<"wait_completion">>}
<1>1. todo \in [Threads -> Seq(StepNames)]
  BY DEF Inv, TypeOK
<1>2. QED
  BY <1>1, StepShape DEF Advance

\* Every call in progress is in a set of sequences that holds the methods that
\* are called, their tails, and what wait_completion turns into.
LEMMA CallsStayIn ==
    ASSUME Inv, NEW G, \A t \in Threads : todo[t] \in G,
           {<<>>, <<"check_empty">>, <<"wait_completion">>} \subseteq G,
           \A s \in G \ {<<>>} : Tail(s) \in G,
           \A m \in Called : Steps(m) \in G,
           [Next]_vars
    PROVE  \A t \in Threads : todo'[t] \in G
<1>1. ASSUME NEW t \in Threads, Step(t) PROVE \A u \in Threads : todo'[u] \in G
  <2>1. todo[t] # <<>>
    BY <1>1, StepShape
  <2>2. Tail(todo[t]) \in G
    BY <2>1
  <2>3. QED
    BY <1>1, <2>2, OtherCalls
<1>2. QED
  BY <1>1, CallsMove

-----------------------------------------------------------------------------
(* m_mutex.  post() and clear_post() take it with their first step, and      *)
(* wait_completion() for the two halves of its predicate.                    *)

\* A call that still has to take m_mutex has taken no step yet.
AdmitFirst ==
    {s \in Seq(StepNames) :
        \/ s \in {<<"admit", "push">>, <<"admit", "cancel", "clear", "push">>}
        \/ \A i \in 1..Len(s) : s[i] # "admit"}

\* What is left of a call that holds m_mutex.
Held == {<<"check_empty">>, <<"push">>, <<"clear", "push">>,
         <<"cancel", "clear", "push">>}

HolderInv ==
    /\ \A t \in Threads : todo[t] \in AdmitFirst
    /\ \A w \in Workers : mutex[w] # None =>
          on[mutex[w]] = w /\ todo[mutex[w]] \in Held

\* Only the first step of a method takes m_mutex: so it is in every method and in
\* what is left of it.
LEMMA AdmitFacts ==
    /\ {<<>>, <<"check_empty">>, <<"wait_completion">>} \subseteq AdmitFirst
    /\ \A s \in AdmitFirst \ {<<>>} : Tail(s) \in AdmitFirst
    /\ \A m \in Called : Steps(m) \in AdmitFirst
<1> DEFINE G == Seq(StepNames \ {"admit"})
<1>1. G \subseteq AdmitFirst
  <2>1. \A s \in G : s \in Seq(StepNames) /\ \A i \in 1..Len(s) : s[i] # "admit"
    OBVIOUS
  <2>2. QED
    BY <2>1 DEF AdmitFirst
<1>2. /\ {<<>>, <<"check_empty">>, <<"wait_completion">>} \subseteq G
      /\ <<"push">> \in G /\ <<"cancel", "clear", "push">> \in G
  BY DEF StepNames
<1>3. ASSUME NEW s \in AdmitFirst, s # <<>> PROVE Tail(s) \in AdmitFirst
  <2>1. CASE s = <<"admit", "push">>
    <3>1. Tail(s) = <<"push">>
      BY <2>1
    <3>2. QED
      BY <1>1, <1>2, <3>1
  <2>2. CASE s = <<"admit", "cancel", "clear", "push">>
    <3>1. Tail(s) = <<"cancel", "clear", "push">>
      BY <2>2
    <3>2. QED
      BY <1>1, <1>2, <3>1
  <2>3. CASE \A i \in 1..Len(s) : s[i] # "admit"
    <3>1. s \in Seq(StepNames)
      BY DEF AdmitFirst
    <3>2. /\ Tail(s) \in Seq(StepNames)
          /\ \A i \in 1..Len(Tail(s)) : i + 1 \in 1..Len(s) /\ Tail(s)[i] = s[i + 1]
      BY <1>3, <3>1
    <3>3. \A i \in 1..Len(Tail(s)) : Tail(s)[i] # "admit"
      BY <2>3, <3>2
    <3>4. QED
      BY <3>2, <3>3 DEF AdmitFirst
  <2>4. QED
    BY <2>1, <2>2, <2>3 DEF AdmitFirst
<1>4. ASSUME NEW m \in (Bodies \ {"end"}) \cup Postings
      PROVE  Steps(m) \in AdmitFirst
  <2> USE DEF StepNames, Policies
  <2>1. /\ \A p \in Policies : SetPolicy(p) \in G
        /\ \A b \in BOOLEAN : PauseLoop(b) \in G
        /\ ClearQueue \in G /\ EmitCancel \in G
        /\ WaitRunningTask \in G /\ WaitCompletion \in G
    BY DEF SetPolicy, PauseLoop, ClearQueue, EmitCancel, WaitRunningTask,
           WaitCompletion
  <2>2. /\ <<"joinable", "join", "joining">> \in G
        /\ <<"until_cancelled">> \in G /\ <<"shutdown">> \in G
    OBVIOUS
  <2>3. \A s1, s2 \in G : s1 \o s2 \in G
    OBVIOUS
  <2> HIDE DEF G
  <2>4. <<"shutdown">> \o PauseLoop(TRUE) \in G
    BY <2>1, <2>2, <2>3
  <2>5. m \in Bodies \ {"end", "post"} => Steps(m) \in G
    BY <1>2, <2>1, <2>2, <2>3, <2>4, StepsIn
  <2>6. /\ <<"admit", "push">> \in AdmitFirst
        /\ <<"admit", "cancel", "clear", "push">> \in AdmitFirst
    <3>1. /\ <<"admit", "push">> \in Seq(StepNames)
          /\ <<"admit", "cancel", "clear", "push">> \in Seq(StepNames)
      OBVIOUS
    <3>2. QED
      BY <3>1 DEF AdmitFirst
  <2>7. m \in {"post", "clear_post", "planned_shutdown"} => Steps(m) \in AdmitFirst
    BY <1>1, <1>2, <2>6, PostingSteps
  <2>8. QED
    BY <1>1, <2>5, <2>7 DEF Postings
<1>5. ASSUME NEW m \in Called PROVE m \in (Bodies \ {"end"}) \cup Postings
  BY TasksAssumption, CallsAssumption
     DEF Called, Bodies, Methods, LowLevel, Aggregated, Policies
<1> HIDE DEF G
<1>6. QED
  BY <1>1, <1>2, <1>3, <1>4, <1>5

\* What the holder of m_mutex can be about to do, and what it leaves.
LEMMA HeldFacts ==
    /\ \A s \in Held : Head(s) \in {"check_empty", "push", "clear", "cancel"}
    /\ \A s \in Held : s # <<>>
    /\ \A s \in Held : Head(s) \in {"clear", "cancel"} => Tail(s) \in Held
    /\ \A s \in AdmitFirst : s # <<>> /\ Head(s) = "admit" => Tail(s) \in Held
<1>1. \A s \in Held : s # <<>> /\ Head(s) \in {"check_empty", "push", "clear", "cancel"}
  BY DEF Held
<1>2. /\ Tail(<<"clear", "push">>) = <<"push">>
      /\ Tail(<<"cancel", "clear", "push">>) = <<"clear", "push">>
      /\ Tail(<<"admit", "push">>) = <<"push">>
      /\ Tail(<<"admit", "cancel", "clear", "push">>) = <<"cancel", "clear", "push">>
  OBVIOUS
<1>3. /\ Head(<<"check_empty">>) = "check_empty"
      /\ Head(<<"push">>) = "push"
  OBVIOUS
<1>4. \A s \in Held : Head(s) \in {"clear", "cancel"} => Tail(s) \in Held
  BY <1>2, <1>3 DEF Held
<1>5. ASSUME NEW s \in AdmitFirst, s # <<>>, Head(s) = "admit" PROVE Tail(s) \in Held
  <2>1. s \in Seq(StepNames)
    BY DEF AdmitFirst
  <2>2. 1 \in 1..Len(s) /\ s[1] = "admit"
    BY <1>5, <2>1
  <2>3. s \in {<<"admit", "push">>, <<"admit", "cancel", "clear", "push">>}
    BY <2>2 DEF AdmitFirst
  <2>4. QED
    BY <1>2, <2>3 DEF Held
<1>6. QED
  BY <1>1, <1>4, <1>5

\* A step of a call keeps the holders of the mutexes where they can go on.
LEMMA HolderStep ==
    ASSUME Inv, HolderInv, NEW t \in Threads, Step(t),
           NEW w \in Workers, mutex'[w] # None
    PROVE  on'[mutex'[w]] = w /\ todo'[mutex'[w]] \in Held
<1>0. /\ todo \in [Threads -> Seq(StepNames)]
      /\ mutex \in [Workers -> Threads \cup {None}]
      /\ todo[t] # <<>> /\ todo[t] \in AdmitFirst /\ on[t] \in Workers
      /\ None \notin Threads
  BY StepShape, ThreadsAssumption DEF Inv, TypeOK, OnWorker, HolderInv
<1>1. ASSUME NEW u \in Threads, u # t, mutex[w] = u
      PROVE  on'[u] = w /\ todo'[u] \in Held
  BY <1>0, <1>1, OtherCalls DEF HolderInv
<1>2. mutex[w] = t => on'[t] = w /\ todo[t] \in Held
  BY <1>0, OtherCalls DEF HolderInv
<1>3. CASE Admit(t)
  <2>1. Head(todo[t]) = "admit" /\ mutex[w] # t
    BY <1>0, <1>2, <1>3, HeldFacts DEF Admit, At
  <2>2. CASE mutex' = mutex
    BY <1>0, <1>1, <2>1, <2>2
  <2>3. CASE mutex' = [mutex EXCEPT ![on[t]] = t] /\ Advance(t)
    <3>1. CASE w = on[t]
      <4>1. mutex'[w] = t /\ on'[t] = w /\ todo'[t] = Tail(todo[t])
        BY <1>0, <2>3, <3>1, OtherCalls DEF Advance
      <4>2. QED
        BY <1>0, <2>1, <4>1, HeldFacts
    <3>2. CASE w # on[t]
      <4>1. mutex'[w] = mutex[w]
        BY <1>0, <2>3, <3>2
      <4>2. QED
        BY <1>0, <1>1, <2>1, <4>1
    <3>3. QED
      BY <3>1, <3>2
  <2>4. QED
    BY <1>3, <2>2, <2>3 DEF Admit
<1>4. CASE DoWaitCompletion(t)
  <2>1. Head(todo[t]) = "wait_completion" /\ mutex[w] # t
    BY <1>0, <1>2, <1>4, HeldFacts DEF DoWaitCompletion, At
  <2>2. CASE mutex' = mutex
    BY <1>0, <1>1, <2>1, <2>2
  <2>3. CASE /\ mutex' = [mutex EXCEPT ![on[t]] = t]
             /\ todo' = [todo EXCEPT ![t] = <<"check_empty">>]
    <3>1. CASE w = on[t]
      <4>1. mutex'[w] = t /\ on'[t] = w /\ todo'[t] = <<"check_empty">>
        BY <1>0, <2>3, <3>1, OtherCalls
      <4>2. QED
        BY <4>1 DEF Held
    <3>2. CASE w # on[t]
      <4>1. mutex'[w] = mutex[w]
        BY <1>0, <2>3, <3>2
      <4>2. QED
        BY <1>0, <1>1, <2>1, <4>1
    <3>3. QED
      BY <3>1, <3>2
  <2>4. QED
    BY <1>4, <2>2, <2>3 DEF DoWaitCompletion
<1>5. CASE DoCheckEmpty(t) \/ DoPush(t)
  <2>1. CASE w = on[t]
    <3>1. mutex'[w] = None \/ (mutex'[w] = mutex[w] /\ mutex[w] # t)
      BY <1>0, <1>5, <2>1 DEF DoCheckEmpty, DoPush
    <3>2. QED
      BY <1>0, <1>1, <3>1
  <2>2. CASE w # on[t]
    <3>1. mutex'[w] = mutex[w]
      BY <1>0, <1>5, <2>2 DEF DoCheckEmpty, DoPush
    <3>2. mutex[w] # t
      BY <1>2, <2>2, OtherCalls
    <3>3. QED
      BY <1>0, <1>1, <3>1, <3>2
  <2>3. QED
    BY <2>1, <2>2
<1>6. CASE DoEmitCancel(t) \/ DoClear(t)
  <2>1. /\ Head(todo[t]) \in {"clear", "cancel"}
        /\ UNCHANGED mutex /\ Advance(t)
    BY <1>6 DEF DoEmitCancel, DoClear, At, members
  <2>2. todo'[t] = Tail(todo[t])
    BY <1>0, <2>1 DEF Advance
  <2>3. mutex[w] = t => on'[t] = w /\ todo'[t] \in Held
    BY <1>2, <2>1, <2>2, HeldFacts
  <2>4. QED
    BY <1>0, <1>1, <2>1, <2>3
<1>7. CASE ~(\/ Admit(t) \/ DoWaitCompletion(t) \/ DoCheckEmpty(t) \/ DoPush(t)
             \/ DoEmitCancel(t) \/ DoClear(t))
  <2>1. /\ Head(todo[t]) \notin {"check_empty", "push", "clear", "cancel"}
        /\ UNCHANGED mutex
    BY <1>7
       DEF Step, DoSetPolicy, Policies, DoBlock, DoNotify, RaiseShutdown, SelfWait,
           DoWaitRunning, DoJoinable, DoJoin, DoJoined, UntilCancelled, At, members
  <2>2. mutex[w] # t
    BY <1>2, <2>1, HeldFacts
  <2>3. QED
    BY <1>0, <1>1, <2>1, <2>2
<1>8. QED
  BY <1>3, <1>4, <1>5, <1>6, <1>7

\* Whoever holds m_mutex is at a step that needs nothing from another thread, so
\* that every wait for m_mutex ends (the locks of post, clear_post and
\* wait_completion).
THEOREM MutexCorrect == Spec => []MutexIsReleased
<1>1. Init => HolderInv
  BY AdmitFacts DEF Init, HolderInv
<1>2. Inv /\ HolderInv /\ [Next]_vars => HolderInv'
  <2> SUFFICES ASSUME Inv, HolderInv, [Next]_vars PROVE HolderInv'
    OBVIOUS
  <2>0. mutex \in [Workers -> Threads \cup {None}] /\ None \notin Threads
    BY ThreadsAssumption DEF Inv, TypeOK
  <2>1. \A t \in Threads : todo'[t] \in AdmitFirst
    BY AdmitFacts, CallsStayIn DEF HolderInv
  <2>2. ASSUME NEW w \in Workers, mutex'[w] # None
        PROVE  on'[mutex'[w]] = w /\ todo'[mutex'[w]] \in Held
    <3>1. CASE \E t \in Threads : Step(t)
      BY <2>2, <3>1, HolderStep
    <3>2. CASE /\ UNCHANGED mutex
               /\ \E t \in Threads :
                     /\ todo[t] = <<>>
                     /\ \A u \in Threads \ {t} : todo'[u] = todo[u] /\ on'[u] = on[u]
                     /\ todo'[t] = <<>> \/ \E m \in Called : todo'[t] = Steps(m)
      <4>1. todo[mutex[w]] \in Held /\ on[mutex[w]] = w /\ mutex[w] \in Threads
        BY <2>0, <2>2, <3>2 DEF HolderInv
      <4>2. todo[mutex[w]] # <<>>
        BY <4>1, HeldFacts
      <4>3. QED
        BY <3>2, <4>1, <4>2
    <3>3. CASE UNCHANGED <<todo, on, mutex>>
      BY <2>2, <3>3 DEF HolderInv
    <3>4. QED
      BY <3>1, <3>2, <3>3, CallsMove
  <2>3. QED
    BY <2>1, <2>2 DEF HolderInv
<1>3. HolderInv => MutexIsReleased
  BY HeldFacts DEF HolderInv, MutexIsReleased, At
<1>4. QED
  BY <1>1, <1>2, <1>3, Invariant, PTL DEF Spec

-----------------------------------------------------------------------------
(* Wakeups.  With one worker whoever sleeps is the only one who could take a *)
(* task; of several workers one that ends may take a notification with it,   *)
(* so the theorem is about one worker, or workers that nobody ends.          *)

\* One worker; or no task is empty, and neither a client nor a task raises
\* m_shutdown.
SingleWorker == \E w \in Workers : Workers = {w}
NeverEnded ==
    /\ \A v \in Tasks : Body[v] \notin {"end", "emit_shutdown", "shutdown"}
    /\ \A t \in Clients : Calls[t] \cap {"emit_shutdown", "shutdown"} = {}

\* What stores m_blocked is followed by a notification, and what raises m_shutdown
\* by such a store.
Notifies ==
    {s \in Seq(StepNames) :
        \A i \in 1..Len(s) :
            /\ s[i] \in {"block", "unblock"}
                  => i + 1 \in 1..Len(s) /\ s[i + 1] = "notify"
            /\ s[i] = "shutdown" => i + 1 \in 1..Len(s) /\ s[i + 1] = "block"}

\* The sequences that do not raise m_shutdown.
Lasting == Seq(StepNames \ {"shutdown"})

AsleepInPop == \A w \in nonempty : at[w] = "pop"
NobodyEnds ==
    /\ \A t \in Threads : todo[t] \in Lasting
    /\ \A w \in Workers : ~shutdown[w] /\ at[w] # "exited"

WakeInv ==
    /\ \A t \in Threads : todo[t] \in Notifies
    /\ AsleepInPop
    /\ NeverEnded => NobodyEnds
    /\ NoLostWakeup

\* A concatenation of such sequences is such a sequence.
LEMMA NotifiesConcat ==
    ASSUME NEW s1 \in Notifies, NEW s2 \in Notifies
    PROVE  s1 \o s2 \in Notifies
<1> DEFINE s == s1 \o s2
           n == Len(s1)
           k == Len(s2)
<1>1. s1 \in Seq(StepNames) /\ s2 \in Seq(StepNames)
  BY DEF Notifies
<1>2. /\ s \in Seq(StepNames) /\ n \in Nat /\ k \in Nat /\ Len(s) = n + k
      /\ \A i \in 1..n : s[i] = s1[i]
      /\ \A i \in 1..k : s[n + i] = s2[i]
  BY <1>1
<1> HIDE DEF s, n, k
<1>3. ASSUME NEW i \in 1..Len(s)
      PROVE  /\ s[i] \in {"block", "unblock"}
                   => i + 1 \in 1..Len(s) /\ s[i + 1] = "notify"
             /\ s[i] = "shutdown" => i + 1 \in 1..Len(s) /\ s[i + 1] = "block"
  <2>1. CASE i \in 1..n
    <3>1. /\ s1[i] \in {"block", "unblock"} => i + 1 \in 1..n /\ s1[i + 1] = "notify"
          /\ s1[i] = "shutdown" => i + 1 \in 1..n /\ s1[i + 1] = "block"
      BY <2>1 DEF Notifies, n
    <3>2. i + 1 \in 1..n => i + 1 \in 1..Len(s) /\ s[i + 1] = s1[i + 1]
      BY <1>2
    <3>3. s[i] = s1[i]
      BY <1>2, <2>1
    <3>4. QED
      BY <3>1, <3>2, <3>3
  <2>2. CASE i \notin 1..n
    <3> DEFINE j == i - n
    <3>1. j \in 1..k /\ i = n + j
      BY <1>2, <2>2
    <3>2. /\ s2[j] \in {"block", "unblock"} => j + 1 \in 1..k /\ s2[j + 1] = "notify"
          /\ s2[j] = "shutdown" => j + 1 \in 1..k /\ s2[j + 1] = "block"
      BY <3>1 DEF Notifies, k
    <3>3. j + 1 \in 1..k => i + 1 \in 1..Len(s) /\ s[i + 1] = s2[j + 1]
      <4>1. i + 1 = n + (j + 1)
        BY <1>2, <3>1
      <4>2. QED
        BY <1>2, <3>1, <4>1
    <3>4. s[i] = s2[j]
      BY <1>2, <3>1
    <3>5. QED
      BY <3>2, <3>3, <3>4
  <2>3. QED
    BY <2>1, <2>2
<1>4. QED
  BY <1>2, <1>3 DEF Notifies, s

\* Every method notifies after it has stored, also in what is left of it.
LEMMA NotifiesFacts ==
    /\ {<<>>, <<"check_empty">>, <<"wait_completion">>} \subseteq Notifies
    /\ \A s \in Notifies \ {<<>>} : Tail(s) \in Notifies
    /\ \A m \in Called : Steps(m) \in Notifies
<1> DEFINE S == StepNames \ {"block", "unblock", "shutdown"}
<1>1. Seq(S) \subseteq Notifies
  <2>1. \A s \in Seq(S) : s \in Seq(StepNames) /\ \A i \in 1..Len(s) : s[i] \in S
    OBVIOUS
  <2>2. QED
    BY <2>1 DEF Notifies
<1>2. ASSUME NEW s \in Notifies, s # <<>> PROVE Tail(s) \in Notifies
  <2>1. s \in Seq(StepNames)
    BY DEF Notifies
  <2>2. /\ Tail(s) \in Seq(StepNames)
        /\ \A i \in 1..Len(Tail(s)) : i + 1 \in 1..Len(s) /\ Tail(s)[i] = s[i + 1]
        /\ \A i \in 1..Len(Tail(s)) :
              (i + 1) + 1 \in 1..Len(s) => i + 1 \in 1..Len(Tail(s))
    BY <1>2, <2>1
  <2>3. QED
    BY <2>2 DEF Notifies
<1>3. /\ \A p \in Policies : SetPolicy(p) \in Seq(S)
      /\ ClearQueue \in Seq(S) /\ EmitCancel \in Seq(S)
      /\ WaitRunningTask \in Seq(S) /\ WaitCompletion \in Seq(S)
  BY DEF SetPolicy, ClearQueue, EmitCancel, WaitRunningTask, WaitCompletion,
         StepNames, Policies
<1>4. /\ <<"joinable", "join", "joining">> \in Seq(S)
      /\ <<"until_cancelled">> \in Seq(S) /\ <<>> \in Seq(S)
      /\ <<"check_empty">> \in Seq(S) /\ <<"wait_completion">> \in Seq(S)
      /\ <<"push">> \in Seq(S) /\ <<"admit", "push">> \in Seq(S)
      /\ <<"admit", "cancel", "clear", "push">> \in Seq(S)
  BY DEF StepNames, Policies
<1>5. \A b \in BOOLEAN : PauseLoop(b) \in Notifies
  <2>1. ASSUME NEW e \in {"block", "unblock"} PROVE <<e, "notify">> \in Notifies
    <3>1. /\ <<e, "notify">> \in Seq(StepNames)
          /\ Len(<<e, "notify">>) = 2
          /\ <<e, "notify">>[1] = e /\ <<e, "notify">>[2] = "notify"
      BY DEF StepNames
    <3>2. QED
      BY <3>1 DEF Notifies
  <2>2. QED
    BY <2>1 DEF PauseLoop
<1>6. <<"shutdown">> \o PauseLoop(TRUE) \in Notifies
  <2> DEFINE s == <<"shutdown">> \o PauseLoop(TRUE)
  <2>1. s = <<"shutdown">> \o <<"block", "notify">>
    BY DEF PauseLoop
  <2> HIDE DEF s
  <2>2. Len(s) = 3 /\ s[1] = "shutdown" /\ s[2] = "block" /\ s[3] = "notify"
    BY <2>1
  <2>3. s \in Notifies
    <3>1. <<"shutdown">> \in Seq(StepNames) /\ <<"block", "notify">> \in Seq(StepNames)
      BY DEF StepNames
    <3>2. s \in Seq(StepNames)
      BY <2>1, <3>1
    <3>3. \A i \in 1..3 : i = 1 \/ i = 2 \/ i = 3
      OBVIOUS
    <3>4. 2 \in 1..3 /\ 3 \in 1..3 /\ 1 + 1 = 2 /\ 2 + 1 = 3
      OBVIOUS
    <3>5. ASSUME NEW i \in 1..Len(s)
          PROVE  /\ s[i] \in {"block", "unblock"}
                       => i + 1 \in 1..Len(s) /\ s[i + 1] = "notify"
                 /\ s[i] = "shutdown" => i + 1 \in 1..Len(s) /\ s[i + 1] = "block"
      <4>1. i = 1 \/ i = 2 \/ i = 3
        BY <2>2, <3>3
      <4>2. QED
        BY <2>2, <3>4, <4>1
    <3>6. QED
      BY <3>2, <3>5 DEF Notifies
  <2>4. QED
    BY <2>3 DEF s
<1> HIDE DEF S
<1>7. ASSUME NEW m \in (Bodies \ {"end"}) \cup Postings PROVE Steps(m) \in Notifies
  <2>1. m \in Bodies \ {"end", "post"} => Steps(m) \in Notifies
    BY <1>1, <1>3, <1>4, <1>5, <1>6, NotifiesConcat, StepsIn
  <2>2. m \in {"post", "clear_post", "planned_shutdown"} => Steps(m) \in Notifies
    BY <1>1, <1>4, PostingSteps
  <2>3. QED
    BY <2>1, <2>2 DEF Postings
<1>8. ASSUME NEW m \in Called PROVE m \in (Bodies \ {"end"}) \cup Postings
  BY TasksAssumption, CallsAssumption
     DEF Called, Bodies, Methods, LowLevel, Aggregated, Policies
<1>9. QED
  BY <1>1, <1>2, <1>4, <1>7, <1>8

\* No other method than emit_shutdown and shutdown raises m_shutdown.
LEMMA LastingFacts ==
    ASSUME NeverEnded
    PROVE  /\ {<<>>, <<"check_empty">>, <<"wait_completion">>} \subseteq Lasting
           /\ \A s \in Lasting \ {<<>>} : Tail(s) \in Lasting
           /\ \A m \in Called : Steps(m) \in Lasting
<1>1. {<<>>, <<"check_empty">>, <<"wait_completion">>} \subseteq Lasting
  BY DEF Lasting, StepNames
<1>2. \A s \in Lasting \ {<<>>} : Tail(s) \in Lasting
  BY DEF Lasting
<1>3. /\ \A p \in Policies : SetPolicy(p) \in Lasting
      /\ \A b \in BOOLEAN : PauseLoop(b) \in Lasting
      /\ ClearQueue \in Lasting /\ EmitCancel \in Lasting
      /\ WaitRunningTask \in Lasting /\ WaitCompletion \in Lasting
  BY DEF SetPolicy, PauseLoop, ClearQueue, EmitCancel, WaitRunningTask,
         WaitCompletion, Lasting, StepNames, Policies
<1>4. /\ <<"joinable", "join", "joining">> \in Lasting
      /\ <<"until_cancelled">> \in Lasting
      /\ <<"push">> \in Lasting /\ <<"admit", "push">> \in Lasting
      /\ <<"admit", "cancel", "clear", "push">> \in Lasting
  BY DEF Lasting, StepNames, Policies
<1>5. \A s1, s2 \in Lasting : s1 \o s2 \in Lasting
  BY DEF Lasting
<1>6. ASSUME NEW m \in Called PROVE Steps(m) \in Lasting
  <2>1. m \in (Bodies \ {"end", "emit_shutdown", "shutdown"}) \cup Postings
    BY TasksAssumption, CallsAssumption
       DEF NeverEnded, Called, Bodies, Methods, LowLevel, Aggregated, Policies
  <2>2. m \in Bodies \ {"end", "post", "emit_shutdown", "shutdown"}
           => Steps(m) \in Lasting
    BY <1>1, <1>3, <1>4, <1>5, StepsIn
  <2>3. m \in {"post", "clear_post", "planned_shutdown"} => Steps(m) \in Lasting
    BY <1>4, PostingSteps
  <2>4. QED
    BY <2>1, <2>2, <2>3 DEF Postings
<1>7. QED
  BY <1>1, <1>2, <1>6

\* A notification leaves a sleeper asleep only if it wakes another, who is not
\* going to end.
LEMMA NotifyWakesOne ==
    ASSUME Inv, WakeInv, SingleWorker \/ NeverEnded, Q!NotifyOne, at' = at,
           NEW w \in nonempty'
    PROVE  SomeoneAwake'
<1>1. nonempty \subseteq Workers
  BY DEF Inv, TypeOK, Q!QueueTypeOK
<1>2. PICK c \in nonempty : nonempty' = nonempty \ {c}
  BY DEF Q!NotifyOne
<1>3. c \in Workers /\ w \in Workers /\ c # w /\ c \notin nonempty'
  BY <1>1, <1>2
<1>4. NeverEnded
  BY <1>3 DEF SingleWorker
<1>5. at'[c] # "exited"
  BY <1>3, <1>4 DEF WakeInv, NobodyEnds
<1>6. QED
  BY <1>3, <1>5 DEF SomeoneAwake

\* The step behind the head is the next one.
LEMMA SecondStep ==
    ASSUME NEW s \in Seq(StepNames), 1 + 1 \in 1..Len(s)
    PROVE  Tail(s) # <<>> /\ Head(Tail(s)) = s[1 + 1]
<1>1. s # <<>> /\ Len(s) \in Nat
  OBVIOUS
<1>2. Tail(s) \in Seq(StepNames) /\ Len(Tail(s)) = Len(s) - 1
  BY <1>1
<1>3. 1 \in 1..Len(Tail(s))
  BY <1>1, <1>2
<1>4. Tail(s)[1] = s[1 + 1]
  BY <1>1, <1>3
<1> DEFINE r == Tail(s)
<1>5. r \in Seq(StepNames) /\ 1 \in 1..Len(r) /\ r[1] = s[1 + 1]
  BY <1>2, <1>3, <1>4
<1> HIDE DEF r
<1>6. r # <<>> /\ Head(r) = r[1]
  BY <1>5
<1>7. QED
  BY <1>5, <1>6 DEF r

\* A step of a call loses no wakeup: what makes the condition of pop true is
\* followed by a notification.
LEMMA WakeStep ==
    ASSUME Inv, WakeInv, SingleWorker \/ NeverEnded, NEW t \in Threads, Step(t),
           NEW w \in nonempty', Q!Ready(w)'
    PROVE  (NotifyPending \/ SomeoneAwake)'
<1>0. /\ todo \in [Threads -> Seq(StepNames)]
      /\ nonempty \subseteq Workers
      /\ shutdown \in [Workers -> BOOLEAN]
      /\ todo[t] # <<>> /\ todo[t] \in Notifies
      /\ at' = at /\ on' = on
      /\ \A u \in Threads \ {t} : todo'[u] = todo[u]
  BY StepShape, OtherCalls DEF Inv, TypeOK, Q!QueueTypeOK, WakeInv
<1>1. ASSUME NEW e \in {"notify", "block"}, Advance(t), Tail(todo[t]) # <<>>,
             Head(Tail(todo[t])) = e
      PROVE  NotifyPending'
  <2>1. todo'[t] = Tail(todo[t])
    BY <1>0, <1>1 DEF Advance
  <2>2. todo'[t] # <<>> /\ Head(todo'[t]) = e
    BY <1>1, <2>1
  <2>3. QED
    BY <2>2 DEF NotifyPending, At
<1>2. CASE DoBlock(t)
  <2>1. Head(todo[t]) \in {"block", "unblock"} /\ Advance(t)
    BY <1>2 DEF DoBlock, At
  <2>2. 1 \in 1..Len(todo[t]) /\ todo[t][1] \in {"block", "unblock"}
    BY <1>0, <2>1
  <2>3. 1 + 1 \in 1..Len(todo[t]) /\ todo[t][1 + 1] = "notify"
    BY <1>0, <2>2 DEF Notifies
  <2>4. Tail(todo[t]) # <<>> /\ Head(Tail(todo[t])) = "notify"
    BY <1>0, <2>3, SecondStep
  <2>5. QED
    BY <1>1, <2>1, <2>4
<1>3. CASE RaiseShutdown(t)
  <2>1. Head(todo[t]) = "shutdown" /\ Advance(t)
    BY <1>3 DEF RaiseShutdown, At
  <2>2. 1 \in 1..Len(todo[t]) /\ todo[t][1] = "shutdown"
    BY <1>0, <2>1
  <2>3. 1 + 1 \in 1..Len(todo[t]) /\ todo[t][1 + 1] = "block"
    BY <1>0, <2>2 DEF Notifies
  <2>4. Tail(todo[t]) # <<>> /\ Head(Tail(todo[t])) = "block"
    BY <1>0, <2>3, SecondStep
  <2>5. QED
    BY <1>1, <2>1, <2>4
<1>4. CASE DoNotify(t) \/ DoPush(t)
  <2>1. Q!NotifyOne
    BY <1>4 DEF DoNotify, Q!BlockNotify, DoPush, Q!Push
  <2>2. QED
    BY <1>0, <2>1, NotifyWakesOne
<1>5. CASE ~(DoBlock(t) \/ RaiseShutdown(t) \/ DoNotify(t) \/ DoPush(t))
  <2>1. /\ UNCHANGED <<blocked, nonempty, shutdown>>
        /\ queue' = queue \/ queue' = <<>>
        /\ Head(todo[t]) \notin {"block", "unblock", "notify"}
    BY <1>5
       DEF Step, DoSetPolicy, Policies, DoClear, Q!Clear, DoEmitCancel, SelfWait,
           DoWaitRunning, DoWaitCompletion, DoCheckEmpty, DoJoinable, DoJoin,
           DoJoined, Admit, UntilCancelled, At, asyncq
  <2>2. w \in nonempty /\ Q!Ready(w)
    BY <2>1 DEF Q!Ready, Q!Empty
  <2>3. NotifyPending \/ SomeoneAwake
    BY <2>2 DEF WakeInv, NoLostWakeup
  <2>4. SomeoneAwake => SomeoneAwake'
    BY <1>0, <2>1 DEF SomeoneAwake
  <2>5. ASSUME NotifyPending PROVE NotifyPending'
    <3>1. PICK u \in Threads : At(u, "block") \/ At(u, "unblock") \/ At(u, "notify")
      BY <2>5 DEF NotifyPending
    <3>2. u # t
      BY <2>1, <3>1 DEF At
    <3>3. todo'[u] = todo[u]
      BY <1>0, <3>2
    <3>4. QED
      BY <3>1, <3>3 DEF NotifyPending, At
  <2>6. QED
    BY <2>3, <2>4, <2>5
<1>6. QED
  BY <1>2, <1>3, <1>4, <1>5

\* Nor does the loop of a worker: it goes to sleep only when there is nothing to
\* take, and is awake after any other step.
LEMMA WakeRun ==
    ASSUME Inv, WakeInv, SingleWorker \/ NeverEnded, NEW x \in Workers, Run(x),
           NEW w \in nonempty', Q!Ready(w)'
    PROVE  SomeoneAwake'
<1>0. /\ nonempty \subseteq Workers
      /\ at \in [Workers -> {"pop", "popped", "exec", "exited"}]
      /\ shutdown \in [Workers -> BOOLEAN]
  BY DEF Inv, TypeOK, Q!QueueTypeOK
<1>1. CASE PopSleeps(x)
  <2>1. /\ x \notin nonempty /\ ~Q!Ready(x) /\ nonempty' = nonempty \cup {x}
        /\ UNCHANGED <<queue, blocked, shutdown>>
    BY <1>1 DEF PopSleeps, Q!PopSleep
  <2>2. w # x
    BY <2>1 DEF Q!Ready, Q!Empty
  <2>3. w \in Workers /\ NeverEnded
    BY <1>0, <2>1, <2>2 DEF SingleWorker
  <2>4. ~shutdown[w] /\ ~shutdown[x]
    BY <2>3 DEF WakeInv, NobodyEnds
  <2>5. FALSE
    BY <2>1, <2>4 DEF Q!Ready, Q!Empty
  <2>6. QED
    BY <2>5
<1>2. CASE LoopEnds(x)
  <2>1. x \notin nonempty /\ shutdown[x] /\ nonempty' = nonempty
    BY <1>2 DEF LoopEnds, Q!PopEnd, Q!qvars
  <2>2. NeverEnded
    BY <1>0, <2>1 DEF SingleWorker
  <2>3. QED
    BY <2>1, <2>2 DEF WakeInv, NobodyEnds
<1>3. CASE EndTask(x)
  <2>1. x \notin nonempty /\ nonempty' = nonempty
    BY <1>3 DEF EndTask, asyncq, WakeInv, AsleepInPop
  <2>2. NeverEnded
    BY <1>0, <2>1 DEF SingleWorker
  <2>3. task[x] \in Tasks /\ Body[task[x]] = "end"
    BY <1>3, OwnersTypes DEF EndTask, OneOwner, Busy
  <2>4. QED
    BY <2>2, <2>3 DEF NeverEnded
<1>4. CASE \/ PopDecides(x) \/ PopExtracts(x) \/ PopTakes(x) \/ Finish(x)
           \/ \E v \in Tasks \cup {None} : Exec(x, v)
  <2>1. x \notin nonempty /\ nonempty' = nonempty
    BY <1>4, OwnersTypes
       DEF PopDecides, Q!PopDecide, PopExtracts, Q!PopExtract, PopTakes, Q!PopTake,
           TakingInv, Finish, Exec, asyncq, WakeInv, AsleepInPop
  <2>2. at'[x] # "exited"
    BY <1>0, <1>4, OwnersTypes
       DEF PopDecides, PopExtracts, Q!PopExtract, TakingInv, threads, PopTakes,
           Finish, Exec
  <2>3. QED
    BY <2>1, <2>2 DEF SomeoneAwake
<1>5. QED
  BY <1>1, <1>2, <1>3, <1>4 DEF Run

\* What WakeInv says of the shape of the calls and of the workers is kept.
LEMMA WakeShape ==
    ASSUME Inv, WakeInv, [Next]_vars
    PROVE  /\ \A t \in Threads : todo'[t] \in Notifies
           /\ AsleepInPop'
           /\ NeverEnded => NobodyEnds'
<1>0. /\ nonempty \subseteq Workers
      /\ at \in [Workers -> {"pop", "popped", "exec", "exited"}]
      /\ shutdown \in [Workers -> BOOLEAN]
      /\ todo \in [Threads -> Seq(StepNames)]
  BY DEF Inv, TypeOK, Q!QueueTypeOK
<1>1. \A t \in Threads : todo'[t] \in Notifies
  BY NotifiesFacts, CallsStayIn DEF WakeInv
<1>2. ASSUME NEW w \in nonempty' PROVE at'[w] = "pop"
  <2>1. ASSUME NEW t \in Threads, Step(t) PROVE at'[w] = "pop"
    <3>1. nonempty' \subseteq nonempty
      BY <2>1
         DEF Step, DoSetPolicy, DoBlock, Q!BlockStore, DoNotify, Q!BlockNotify,
             Q!NotifyOne, DoClear, Q!Clear, DoEmitCancel, RaiseShutdown, SelfWait,
             DoWaitRunning, DoWaitCompletion, DoCheckEmpty, DoJoinable, DoJoin,
             DoJoined, Admit, DoPush, Q!Push, UntilCancelled, asyncq
    <3>2. at' = at
      BY <2>1, StepShape
    <3>3. QED
      BY <1>2, <3>1, <3>2 DEF WakeInv, AsleepInPop
  <2>2. ASSUME NEW x \in Workers, Run(x) PROVE at'[w] = "pop"
    <3>1. CASE PopSleeps(x)
      BY <1>2, <3>1 DEF PopSleeps, Q!PopSleep, threads, WakeInv, AsleepInPop
    <3>2. CASE ~PopSleeps(x)
      <4>1. nonempty' = nonempty /\ x \notin nonempty
        BY <2>2, <3>2, OwnersTypes
           DEF Run, LoopEnds, Q!PopEnd, Q!qvars, PopDecides, Q!PopDecide, PopExtracts,
               Q!PopExtract, TakingInv, PopTakes, Q!PopTake, EndTask, Exec, Finish,
               asyncq, WakeInv, AsleepInPop
      <4>2. \A y \in Workers \ {x} : at'[y] = at[y]
        BY <1>0, <2>2
           DEF Run, PopSleeps, LoopEnds, PopDecides, PopExtracts, PopTakes, EndTask,
             Exec, Finish, threads
      <4>3. QED
        BY <1>0, <1>2, <4>1, <4>2 DEF WakeInv, AsleepInPop
    <3>3. QED
      BY <3>1, <3>2
  <2>3. CASE \/ Spurious \/ UNCHANGED vars
             \/ \E t \in Clients, x \in Workers, v \in Tasks \cup {None} :
                   \E m \in Methods \cup Postings : Call(t, m, x, v)
    <3>1. nonempty' \subseteq nonempty /\ at' = at
      BY <2>3
         DEF Spurious, Q!SpuriousWake, vars, asyncq, threads, Call
    <3>2. QED
      BY <1>2, <3>1 DEF WakeInv, AsleepInPop
  <2>4. QED
    BY <2>1, <2>2, <2>3 DEF Next
<1>3. ASSUME NeverEnded PROVE NobodyEnds'
  <2>0. NobodyEnds
    BY <1>3 DEF WakeInv
  <2>1. \A t \in Threads : todo'[t] \in Lasting
    BY <1>3, <2>0, LastingFacts, CallsStayIn DEF NobodyEnds
  <2>2. ASSUME NEW t \in Threads, Step(t) PROVE shutdown' = shutdown /\ at' = at
    <3>1. ~RaiseShutdown(t)
      <4>1. \A s \in Lasting : s # <<>> => Head(s) # "shutdown"
        BY DEF Lasting
      <4>2. QED
        BY <2>0, <4>1 DEF NobodyEnds, RaiseShutdown, At
    <3>2. shutdown' = shutdown
      BY <2>2, <3>1
         DEF Step, DoSetPolicy, DoBlock, Q!BlockStore, DoNotify, Q!BlockNotify,
             DoClear, Q!Clear, DoEmitCancel, SelfWait, DoWaitRunning,
             DoWaitCompletion, DoCheckEmpty, DoJoinable, DoJoin, DoJoined, Admit,
             DoPush, Q!Push, UntilCancelled, asyncq
    <3>3. QED
      BY <2>2, <3>2, StepShape
  <2>3. ASSUME NEW x \in Workers, Run(x)
        PROVE  shutdown' = shutdown /\ \A y \in Workers : at'[y] # "exited"
    <3>1. shutdown' = shutdown
      BY <2>3
         DEF Run, PopSleeps, Q!PopSleep, LoopEnds, Q!PopEnd, Q!qvars, PopDecides,
             Q!PopDecide, PopExtracts, Q!PopExtract, PopTakes, Q!PopTake, EndTask,
             Exec, Finish, asyncq
    <3>2. ~LoopEnds(x)
      BY <2>0 DEF NobodyEnds, LoopEnds, Q!PopEnd
    <3>3. ~EndTask(x)
      <4>1. at[x] = "popped" => task[x] \in Tasks
        BY OwnersTypes DEF OneOwner, Busy
      <4>2. QED
        BY <1>3, <4>1 DEF NeverEnded, EndTask
    <3>4. \A y \in Workers : at'[y] # "exited"
      BY <1>0, <2>0, <2>3, <3>2, <3>3
         DEF NobodyEnds, Run, PopSleeps, PopDecides, PopExtracts, PopTakes, Exec,
             Finish, threads
    <3>5. QED
      BY <3>1, <3>4
  <2>4. CASE \/ Spurious \/ UNCHANGED vars
             \/ \E t \in Clients, x \in Workers, v \in Tasks \cup {None} :
                   \E m \in Methods \cup Postings : Call(t, m, x, v)
    <3>1. shutdown' = shutdown /\ at' = at
      BY <2>4
         DEF Spurious, Q!SpuriousWake, vars, asyncq, threads, Call
    <3>2. QED
      BY <2>0, <2>1, <3>1 DEF NobodyEnds
  <2>5. QED
    BY <2>0, <2>1, <2>2, <2>3, <2>4 DEF NobodyEnds, Next
<1>4. QED
  BY <1>1, <1>2, <1>3 DEF AsleepInPop

\* A worker never sleeps through a task it may take, a resumed loop or its own
\* shutdown: with one worker whatever is called, and with several (the Pool) as
\* long as none of them ends.
THEOREM WakeupCorrect ==
    ASSUME SingleWorker \/ NeverEnded
    PROVE  Spec => []NoLostWakeup
<1>1. Init => WakeInv
  BY NotifiesFacts, LastingFacts
     DEF Init, Q!QueueInit, WakeInv, AsleepInPop, NobodyEnds, NoLostWakeup
<1>2. Inv /\ WakeInv /\ [Next]_vars => WakeInv'
  <2> SUFFICES ASSUME Inv, WakeInv, [Next]_vars PROVE WakeInv'
    OBVIOUS
  <2>1. SUFFICES ASSUME NEW w \in nonempty', Q!Ready(w)'
                 PROVE  (NotifyPending \/ SomeoneAwake)'
    BY WakeShape DEF WakeInv, NoLostWakeup
  <2>2. CASE \/ UNCHANGED vars
             \/ \E t \in Clients, x \in Workers, v \in Tasks \cup {None} :
                   \E m \in Methods \cup Postings : Call(t, m, x, v)
    <3>1. UNCHANGED <<queue, blocked, nonempty, shutdown, at>>
      BY <2>2 DEF vars, asyncq, threads, Call
    <3>2. NotifyPending \/ SomeoneAwake
      BY <2>1, <3>1 DEF Q!Ready, Q!Empty, WakeInv, NoLostWakeup
    <3>3. SomeoneAwake => SomeoneAwake'
      BY <3>1 DEF SomeoneAwake
    <3>4. ASSUME NotifyPending PROVE NotifyPending'
      <4>1. PICK u \in Threads : At(u, "block") \/ At(u, "unblock") \/ At(u, "notify")
        BY <3>4 DEF NotifyPending
      <4>2. todo \in [Threads -> Seq(StepNames)]
        BY DEF Inv, TypeOK
      <4>3. todo'[u] = todo[u]
        BY <2>2, <4>1, <4>2 DEF vars, call, Call, Enter, At
      <4>4. QED
        BY <4>1, <4>3 DEF NotifyPending, At
    <3>5. QED
      BY <3>2, <3>3, <3>4
  <2>3. CASE Spurious
    <3>1. CASE \E c \in Workers : Q!SpuriousWake(c) /\ UNCHANGED <<threads, call>>
      <4>1. PICK c \in nonempty : nonempty' = nonempty \ {c} /\ at' = at
        BY <3>1 DEF Q!SpuriousWake, threads
      <4>2. Q!NotifyOne
        BY <4>1 DEF Q!NotifyOne
      <4>3. QED
        BY <2>1, <4>1, <4>2, NotifyWakesOne
    <3>2. CASE UNCHANGED <<asyncq, threads, call>>
      BY <2>1, <3>2
         DEF asyncq, threads, call, Q!Ready, Q!Empty, WakeInv, NoLostWakeup,
             NotifyPending, SomeoneAwake, At
    <3>3. QED
      BY <2>3, <3>1, <3>2 DEF Spurious
  <2>4. QED
    BY <2>1, <2>2, <2>3, WakeStep, WakeRun DEF Next
<1>3. WakeInv => NoLostWakeup
  BY DEF WakeInv
<1>4. QED
  BY <1>1, <1>2, <1>3, Invariant, PTL DEF Spec

-----------------------------------------------------------------------------
(* Shutdown.  A worker may have decided to take when its flag goes up; the   *)
(* notification of pause_loop cannot come before the task is taken.          *)

CaughtTaking == \A w \in taking : shutdown[w] => InPauseLoop(w)

\* A step of a call: the flag goes up before the store, the store comes before the
\* notification, and the notification needs the mutex.
LEMMA CaughtStep ==
    ASSUME Inv, NEW t \in Threads, todo[t] \in Notifies, CaughtTaking, Step(t)
    PROVE  CaughtTaking'
<1> SUFFICES ASSUME NEW w \in taking', shutdown'[w] PROVE InPauseLoop(w)'
  BY DEF CaughtTaking
<1>0. /\ todo \in [Threads -> Seq(StepNames)]
      /\ shutdown \in [Workers -> BOOLEAN]
      /\ todo[t] # <<>> /\ on' = on
      /\ \A u \in Threads \ {t} : todo'[u] = todo[u]
  BY StepShape, OtherCalls DEF Inv, TypeOK, Q!QueueTypeOK
<1>1. ASSUME NEW e \in {"notify", "block"}, on[t] = w, Advance(t),
             Tail(todo[t]) # <<>>, Head(Tail(todo[t])) = e
      PROVE  InPauseLoop(w)'
  <2>1. todo'[t] = Tail(todo[t])
    BY <1>0, <1>1 DEF Advance
  <2>2. todo'[t] # <<>> /\ Head(todo'[t]) = e
    BY <1>1, <2>1
  <2>3. QED
    BY <1>0, <1>1, <2>2 DEF InPauseLoop, At
<1>2. ASSUME NEW u \in Threads \ {t}, on[u] = w, At(u, "block") \/ At(u, "notify")
      PROVE  InPauseLoop(w)'
  <2>1. todo'[u] = todo[u]
    BY <1>0, <1>2
  <2>2. QED
    BY <1>0, <1>2, <2>1 DEF InPauseLoop, At
<1>3. CASE RaiseShutdown(t)
  <2>1. /\ Head(todo[t]) = "shutdown" /\ Advance(t) /\ taking' = taking
        /\ shutdown' = [shutdown EXCEPT ![on[t]] = TRUE]
    BY <1>3 DEF RaiseShutdown, At
  <2>2. CASE on[t] = w
    <3>1. 1 \in 1..Len(todo[t]) /\ todo[t][1] = "shutdown"
      BY <1>0, <2>1
    <3>2. 1 + 1 \in 1..Len(todo[t]) /\ todo[t][1 + 1] = "block"
      BY <1>0, <3>1 DEF Notifies
    <3>3. Tail(todo[t]) # <<>> /\ Head(Tail(todo[t])) = "block"
      BY <1>0, <3>2, SecondStep
    <3>4. QED
      BY <1>1, <2>1, <2>2, <3>3
  <2>3. CASE on[t] # w
    <3>1. shutdown[w]
      BY <1>0, <2>1, <2>3, OwnersTypes
    <3>2. PICK u \in Threads : on[u] = w /\ (At(u, "block") \/ At(u, "notify"))
      BY <2>1, <3>1 DEF CaughtTaking, InPauseLoop
    <3>3. QED
      BY <1>2, <2>3, <3>2
  <2>4. QED
    BY <2>2, <2>3
<1>4. CASE ~RaiseShutdown(t)
  <2>1. shutdown' = shutdown /\ taking' = taking
    BY <1>4
       DEF Step, DoSetPolicy, DoBlock, Q!BlockStore, DoNotify, Q!BlockNotify, DoClear,
           Q!Clear, DoEmitCancel, SelfWait, DoWaitRunning, DoWaitCompletion,
           DoCheckEmpty, DoJoinable, DoJoin, DoJoined, Admit, DoPush, Q!Push,
           UntilCancelled, asyncq
  <2>2. PICK u \in Threads : on[u] = w /\ (At(u, "block") \/ At(u, "notify"))
    BY <2>1 DEF CaughtTaking, InPauseLoop
  <2>3. CASE u # t
    BY <1>2, <2>2, <2>3
  <2>4. CASE u = t /\ At(t, "notify")
    <3>1. DoNotify(t)
      BY <2>4
         DEF Step, DoSetPolicy, Policies, DoBlock, DoClear, DoEmitCancel,
             RaiseShutdown, SelfWait, DoWaitRunning, DoWaitCompletion, DoCheckEmpty,
             DoJoinable, DoJoin, DoJoined, Admit, DoPush, UntilCancelled, At
    <3>2. taking = {}
      BY <3>1 DEF DoNotify, Q!BlockNotify, Q!MutexFree
    <3>3. QED
      BY <2>1, <3>2
  <2>5. CASE u = t /\ At(t, "block")
    <3>1. DoBlock(t)
      BY <2>5
         DEF Step, DoSetPolicy, Policies, DoNotify, DoClear, DoEmitCancel,
             RaiseShutdown, SelfWait, DoWaitRunning, DoWaitCompletion, DoCheckEmpty,
             DoJoinable, DoJoin, DoJoined, Admit, DoPush, UntilCancelled, At
    <3>2. Advance(t) /\ 1 \in 1..Len(todo[t]) /\ todo[t][1] = "block"
      BY <1>0, <2>5, <3>1 DEF DoBlock, At
    <3>3. 1 + 1 \in 1..Len(todo[t]) /\ todo[t][1 + 1] = "notify"
      BY <1>0, <3>2 DEF Notifies
    <3>4. Tail(todo[t]) # <<>> /\ Head(Tail(todo[t])) = "notify"
      BY <1>0, <3>3, SecondStep
    <3>5. QED
      BY <1>1, <2>2, <2>5, <3>2, <3>4
  <2>6. QED
    BY <2>2, <2>3, <2>4, <2>5
<1>5. QED
  BY <1>3, <1>4

\* The other steps leave the threads in pause_loop where they are, and pop decides
\* to take only while the flag is down.
LEMMA CaughtOther ==
    ASSUME Inv, CaughtTaking, [Next]_vars, \A t \in Threads : ~Step(t)
    PROVE  CaughtTaking'
<1>1. shutdown' = shutdown /\ \A w \in taking' : w \in taking \/ ~shutdown[w]
  <2>1. ASSUME NEW x \in Workers, Run(x)
        PROVE  shutdown' = shutdown /\ \A w \in taking' : w \in taking \/ ~shutdown[w]
    BY <2>1
       DEF Run, PopSleeps, Q!PopSleep, LoopEnds, Q!PopEnd, Q!qvars, PopDecides,
           Q!PopDecide, PopExtracts, Q!PopExtract, PopTakes, Q!PopTake, EndTask,
           Exec, Finish, asyncq
  <2>2. CASE \/ Spurious \/ UNCHANGED vars
             \/ \E t \in Clients, x \in Workers, v \in Tasks \cup {None} :
                   \E m \in Methods \cup Postings : Call(t, m, x, v)
    BY <2>2 DEF Spurious, Q!SpuriousWake, vars, asyncq, Call
  <2>3. QED
    BY <2>1, <2>2 DEF Next
<1>2. ASSUME NEW u \in Threads, todo[u] # <<>>
      PROVE  todo'[u] = todo[u] /\ on'[u] = on[u]
  BY <1>2, CallsMove
<1>3. \A w \in Workers : InPauseLoop(w) => InPauseLoop(w)'
  BY <1>2 DEF InPauseLoop, At
<1>4. QED
  BY <1>1, <1>3, OwnersTypes DEF CaughtTaking

\* Once emit_shutdown has been through the mutex of the queue its worker starts
\* nothing more.
THEOREM ShutdownCorrect == Spec => NoStartAfterShutdown
<1> DEFINE Caught == (\A t \in Threads : todo[t] \in Notifies) /\ CaughtTaking
<1>1. Init => Caught
  BY NotifiesFacts DEF Init, Q!QueueInit, CaughtTaking
<1>2. Inv /\ Caught /\ [Next]_vars => Caught'
  <2> SUFFICES ASSUME Inv, Caught, [Next]_vars PROVE Caught'
    OBVIOUS
  <2>1. \A t \in Threads : todo'[t] \in Notifies
    BY NotifiesFacts, CallsStayIn
  <2>2. CaughtTaking'
    BY CaughtStep, CaughtOther
  <2>3. QED
    BY <2>1, <2>2
<1>3. Inv /\ Caught /\ [Next]_vars
         => [\A w \in Workers :
                shutdown[w] /\ ~InPauseLoop(w) /\ ~Busy(w) => ~Busy(w)']_vars
  <2> SUFFICES ASSUME Inv, Caught, [Next]_vars, NEW w \in Workers, shutdown[w],
                      ~InPauseLoop(w), ~Busy(w)
               PROVE  ~Busy(w)'
    OBVIOUS
  <2>1. w \notin taking
    BY DEF CaughtTaking
  <2>2. CASE Run(w)
    BY <2>1, <2>2, RunShape DEF Busy
  <2>3. CASE ~Run(w)
    BY <2>3, OthersStay DEF Busy
  <2>4. QED
    BY <2>2, <2>3
<1>4. QED
  BY <1>1, <1>2, <1>3, Invariant, PTL DEF Spec, NoStartAfterShutdown

-----------------------------------------------------------------------------
(* Refinement.  Fate and Running are what E puts for Executor's fate and     *)
(* running.                                                                  *)

Fate == [v \in Tasks |-> IF stage[v] = "posting" THEN "fresh" ELSE stage[v]]
Running == [w \in Workers |-> ~shutdown[w] \/ w \in taking]

\* A step that changes the stage of one task changes its fate only.
LEMMA FateChange ==
    ASSUME Inv, NEW v \in Tasks, NEW s \in Stages \ {"posting"}, Mark({v}, s)
    PROVE  Fate' = [Fate EXCEPT ![v] = s]
<1>1. \A x \in Tasks : stage'[x] = IF x = v THEN s ELSE stage[x]
  BY MarkFacts DEF Inv
<1>2. Fate' = [x \in Tasks |-> IF x = v THEN s ELSE Fate[x]]
  BY <1>1 DEF Fate
<1>3. QED
  BY <1>2 DEF Fate

\* The flags of the workers as Executor's running, when none changes.
LEMMA RunningFrame ==
    ASSUME shutdown' = shutdown, taking' = taking
    PROVE  Running' = Running
  BY DEF Running

LEMMA StepRefines ==
    ASSUME Inv, NEW t \in Threads, Step(t)
    PROVE  E!Next \/ UNCHANGED <<queue, Fate, task, Running>>
<1>1. CASE DoClear(t)
  <2>1. /\ queue' = <<>> /\ UNCHANGED <<task, shutdown, taking>>
        /\ \A v \in Tasks :
              stage'[v] = IF v \in Range(queue) THEN "dropped" ELSE stage[v]
    BY <1>1, MarkFacts DEF DoClear, Q!Clear, threads, Inv, Stages
  <2>2. Fate' = [v \in Tasks |-> IF v \in Range(queue) THEN "dropped" ELSE Fate[v]]
    BY <2>1 DEF Fate
  <2>3. E!Discard
    BY <2>1, <2>2, RunningFrame DEF E!Discard, E!Range, Range, Fate, Running
  <2>4. QED
    BY <2>3 DEF E!Next
<1>2. CASE Admit(t)
  <2>1. UNCHANGED <<queue, task, shutdown, taking>>
    BY <1>2 DEF Admit, asyncq, threads
  <2>2. CASE policy[on[t]] \in {"ALLOW", "WAIT"}
    BY <1>2, <2>1, <2>2 DEF Admit, Fate, Running
  <2>3. CASE policy[on[t]] \notin {"ALLOW", "WAIT"}
    <3>1. Mark({arg[t]}, "dropped")
      BY <1>2, <2>3 DEF Admit
    <3>2. CASE arg[t] = None
      <4>1. \A v \in Tasks : stage'[v] = stage[v]
        BY <3>1, <3>2, OwnersTypes, MarkFacts DEF Inv, Stages
      <4>2. QED
        BY <2>1, <4>1 DEF Fate, Running
    <3>3. CASE arg[t] # None
      <4>1. arg[t] \in Tasks /\ stage[arg[t]] = "posting"
        BY <3>3, OwnersTypes DEF OneOwner
      <4>2. PICK v \in Tasks : v = arg[t]
        BY <4>1
      <4>3. Fate[v] = "fresh"
        BY <4>1, <4>2 DEF Fate
      <4>4. Fate' = [Fate EXCEPT ![v] = "dropped"]
        BY <3>1, <4>2, FateChange DEF Stages
      <4>5. E!Refuse(v)
        BY <2>1, <4>3, <4>4, RunningFrame DEF E!Refuse, Fate, Running
      <4>6. QED
        BY <4>5 DEF E!Next
    <3>4. QED
      BY <3>2, <3>3
  <2>4. QED
    BY <2>2, <2>3
<1>3. CASE DoPush(t)
  <2>1. arg[t] \in Tasks /\ stage[arg[t]] = "posting"
    <3>1. todo[t] \in Seq(StepNames) /\ todo[t] # <<>> /\ todo[t][1] = "push"
      BY <1>3 DEF DoPush, At, Inv, TypeOK
    <3>2. 1 \in 1..Len(todo[t])
      BY <3>1
    <3>3. arg[t] # None
      BY <3>1, <3>2 DEF Inv, PushHasTask
    <3>4. QED
      BY <3>3, OwnersTypes DEF OneOwner
  <2>2. PICK v \in Tasks : v = arg[t]
    BY <2>1
  <2>3. Fate[v] = "fresh"
    BY <2>1, <2>2 DEF Fate
  <2>4. Fate' = [Fate EXCEPT ![v] = "pending"]
    BY <1>3, <2>2, FateChange DEF DoPush, Stages
  <2>5. queue' = Append(queue, v) /\ UNCHANGED <<task, shutdown, taking>>
    BY <1>3, <2>2 DEF DoPush, Q!Push, threads
  <2>6. E!Accept(v)
    BY <2>3, <2>4, <2>5, RunningFrame DEF E!Accept, Fate, Running
  <2>7. QED
    BY <2>6 DEF E!Next
<1>4. CASE RaiseShutdown(t)
  <2>1. /\ shutdown' = [shutdown EXCEPT ![on[t]] = TRUE] /\ on[t] \in Workers
        /\ UNCHANGED <<queue, taking, stage, task>>
    BY <1>4 DEF RaiseShutdown, threads, At, Inv, OnWorker
  <2>2. shutdown \in [Workers -> BOOLEAN]
    BY DEF Inv, TypeOK, Q!QueueTypeOK
  <2>3. \A w \in Workers : shutdown'[w] = IF w = on[t] THEN TRUE ELSE shutdown[w]
    BY <2>1, <2>2
  <2>4. Fate' = Fate
    BY <2>1 DEF Fate
  <2>5. CASE on[t] \in taking
    <3>1. \A w \in Workers :
             (~shutdown'[w] \/ w \in taking') = (~shutdown[w] \/ w \in taking)
      BY <2>1, <2>3, <2>5
    <3>2. Running' = Running
      BY <3>1, Zenon DEF Running
    <3>3. QED
      BY <2>1, <2>4, <3>2
  <2>6. CASE on[t] \notin taking
    <3>1. \A w \in Workers :
             (~shutdown'[w] \/ w \in taking') =
                 IF w = on[t] THEN FALSE ELSE ~shutdown[w] \/ w \in taking
      BY <2>1, <2>3, <2>6
    <3>2. Running' = [w \in Workers |-> IF w = on[t] THEN FALSE ELSE Running[w]]
      BY <3>1, Zenon DEF Running
    <3>3. Running' = [Running EXCEPT ![on[t]] = FALSE]
      BY <3>2, Zenon DEF Running
    <3>4. PICK w \in Workers : w = on[t]
      BY <2>1
    <3>5. E!Stop(w)
      BY <2>1, <2>4, <3>3, <3>4 DEF E!Stop, Fate, Running
    <3>6. QED
      BY <3>5 DEF E!Next
  <2>7. QED
    BY <2>5, <2>6
<1>5. CASE ~(DoClear(t) \/ Admit(t) \/ DoPush(t) \/ RaiseShutdown(t))
  <2>1. UNCHANGED <<queue, stage, task, shutdown, taking>>
    BY <1>5
       DEF Step, DoSetPolicy, DoBlock, Q!BlockStore, DoNotify, Q!BlockNotify,
           DoEmitCancel, SelfWait, DoWaitRunning, DoWaitCompletion, DoCheckEmpty,
           DoJoinable, DoJoin, DoJoined, UntilCancelled, asyncq, threads
  <2>2. QED
    BY <2>1 DEF Fate, Running
<1>6. QED
  BY <1>1, <1>2, <1>3, <1>4, <1>5

\* A caller that takes up a fresh task: Executor does not see it yet.
LEMMA EnterRefines ==
    ASSUME Inv, NEW v \in Tasks \cup {None}, Mark({v}, "posting"),
           v # None => stage[v] = "fresh"
    PROVE  Fate' = Fate
<1>1. \A x \in Tasks : stage'[x] = IF x = v THEN "posting" ELSE stage[x]
  BY MarkFacts DEF Inv, Stages
<1>2. \A x \in Tasks : x = v => stage[x] = "fresh"
  BY OwnersTypes
<1>3. QED
  BY <1>1, <1>2 DEF Fate

LEMMA RunRefines ==
    ASSUME Inv, NEW w \in Workers, Run(w)
    PROVE  E!Next \/ UNCHANGED <<queue, Fate, task, Running>>
<1>1. CASE PopSleeps(w) \/ LoopEnds(w)
  <2>1. UNCHANGED <<queue, stage, task, shutdown, taking>>
    BY <1>1 DEF PopSleeps, Q!PopSleep, LoopEnds, Q!PopEnd, Q!qvars, threads
  <2>2. QED
    BY <2>1 DEF Fate, Running
<1>D. CASE PopDecides(w) \/ PopExtracts(w)
  <2>1. UNCHANGED <<queue, stage, task, shutdown>>
    BY <1>D
       DEF PopDecides, Q!PopDecide, PopExtracts, Q!PopExtract, threads
  <2>2. taking' = taking \/ (taking = {} /\ taking' = {w} /\ ~shutdown[w])
    BY <1>D
       DEF PopDecides, Q!PopDecide, Q!MutexFree, PopExtracts, Q!PopExtract
  <2>3. \A x \in Workers :
           (~shutdown'[x] \/ x \in taking') = (~shutdown[x] \/ x \in taking)
    BY <2>1, <2>2
  <2>4. Running' = Running
    BY <2>3, Zenon DEF Running
  <2>5. QED
    BY <2>1, <2>4 DEF Fate
<1>2. CASE PopTakes(w)
  <2>1. /\ queue # <<>> /\ queue' = Tail(queue) /\ taking = {w} /\ taking' = {}
        /\ task' = [task EXCEPT ![w] = Head(queue)] /\ at[w] = "pop"
        /\ shutdown' = shutdown /\ Mark({Head(queue)}, "active")
    BY <1>2, OwnersTypes DEF PopTakes, Q!PopTake, TakingInv
  <2>2. Head(queue) \in Tasks
    BY <2>1, OwnersTypes, HeadTail
  <2>3. Fate' = [Fate EXCEPT ![Head(queue)] = "active"]
    BY <2>1, <2>2, FateChange DEF Stages
  <2>4. Running[w] /\ task[w] = None
    BY <2>1, OwnersTypes DEF Running, OneOwner, Busy
  <2>5. Running' \in {Running, [Running EXCEPT ![w] = FALSE]}
    <3>1. CASE shutdown[w]
      <4>1. \A x \in Workers :
               (~shutdown'[x] \/ x \in taking') =
                   IF x = w THEN FALSE ELSE ~shutdown[x] \/ x \in taking
        BY <2>1, <3>1
      <4>2. Running' = [x \in Workers |-> IF x = w THEN FALSE ELSE Running[x]]
        BY <4>1, Zenon DEF Running
      <4>3. Running' = [Running EXCEPT ![w] = FALSE]
        BY <4>2, Zenon DEF Running
      <4>4. QED
        BY <4>3
    <3>2. CASE ~shutdown[w]
      <4>1. \A x \in Workers :
               (~shutdown'[x] \/ x \in taking') = (~shutdown[x] \/ x \in taking)
        BY <2>1, <3>2
      <4>2. Running' = Running
        BY <4>1, Zenon DEF Running
      <4>3. QED
        BY <4>2
    <3>3. QED
      BY <3>1, <3>2
  <2>6. E!Start(w)
    BY <2>1, <2>3, <2>4, <2>5 DEF E!Start, Fate, Running
  <2>7. QED
    BY <2>6 DEF E!Next
<1>3. CASE EndTask(w) \/ Finish(w)
  <2>1. /\ Busy(w) /\ task' = [task EXCEPT ![w] = None]
        /\ UNCHANGED <<queue, shutdown, taking>> /\ Mark({task[w]}, "done")
    BY <1>3 DEF EndTask, Finish, Busy, asyncq
  <2>2. task[w] \in Tasks
    BY <2>1, OwnersTypes DEF OneOwner
  <2>3. Fate' = [Fate EXCEPT ![task[w]] = "done"]
    BY <2>1, <2>2, FateChange DEF Stages
  <2>4. E!Finish(w)
    BY <2>1, <2>2, <2>3, OwnersTypes, RunningFrame DEF E!Finish, Fate, Running
  <2>5. QED
    BY <2>4 DEF E!Next
<1>4. ASSUME NEW v \in Tasks \cup {None}, Exec(w, v)
      PROVE  UNCHANGED <<queue, Fate, task, Running>>
  <2>1. /\ UNCHANGED <<queue, shutdown, taking, task>> /\ Mark({v}, "posting")
        /\ v # None => stage[v] = "fresh"
    BY <1>4 DEF Exec, Enter, Handed, asyncq
  <2>2. QED
    BY <2>1, EnterRefines, RunningFrame
<1>5. QED
  BY <1>1, <1>D, <1>2, <1>3, <1>4 DEF Run

\* Whatever the callers of the workers do, the workers do to the tasks what
\* Executor says: start each at most once, in order, and none once they have stopped.
THEOREM Refinement == Spec => ImplementsExecutor
<1>1. Init => E!Init
  <2> SUFFICES ASSUME Init PROVE E!Init
    OBVIOUS
  <2>1. Fate = [v \in Tasks |-> "fresh"]
    BY DEF Init, Fate
  <2>2. \A w \in Workers : shutdown[w] = FALSE
    BY DEF Init, Q!QueueInit
  <2>3. \A w \in Workers : (~shutdown[w] \/ w \in taking) = TRUE
    BY <2>2
  <2>4. Running = [w \in Workers |-> TRUE]
    BY <2>3, Zenon DEF Running
  <2>5. QED
    BY <2>1, <2>4 DEF Init, Q!QueueInit, E!Init, Fate, Running
<1>2. Inv /\ [Next]_vars => [E!Next]_(E!vars)
  <2> SUFFICES ASSUME Inv, [Next]_vars
               PROVE  E!Next \/ UNCHANGED <<queue, Fate, task, Running>>
    BY DEF E!vars, Fate, Running
  <2>1. ASSUME NEW t \in Clients, NEW w \in Workers, NEW v \in Tasks \cup {None},
               NEW m \in Methods \cup Postings, Call(t, m, w, v)
        PROVE  UNCHANGED <<queue, Fate, task, Running>>
    <3>1. /\ UNCHANGED <<queue, shutdown, taking, task>> /\ Mark({v}, "posting")
          /\ v # None => stage[v] = "fresh"
      BY <2>1 DEF Call, Enter, Handed, asyncq, threads
    <3>2. QED
      BY <3>1, EnterRefines, RunningFrame
  <2>2. CASE Spurious \/ UNCHANGED vars
    BY <2>2
       DEF Spurious, Q!SpuriousWake, vars, asyncq, threads, Fate, Running
  <2>3. QED
    BY <2>1, <2>2, StepRefines, RunRefines DEF Next
<1>3. QED
  BY <1>1, <1>2, Invariant, PTL DEF Spec, ImplementsExecutor, E!Spec

=============================================================================
