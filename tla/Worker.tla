------------------------------- MODULE Worker -------------------------------
(***************************************************************************)
(* languages/cxx/taskmgr/worker.cpp: worker threads that pop tasks from an *)
(* async_queue and run them one at a time, and the threads that call the   *)
(* Worker's methods.  All workers share one queue: one worker is the       *)
(* Worker of main(), several are the Pool of pool.cpp.                     *)
(*                                                                         *)
(* A method is a sequence of the steps that other threads can observe, put *)
(* together the way the C++ functions call each other.  todo[t] holds the  *)
(* steps thread t has still to take in its call, on[t] the worker it calls *)
(* and arg[t] the task it posts.  A worker thread runs its loop (at[w])    *)
(* and, while it runs a task that calls a worker, takes steps like any     *)
(* other thread.  An exception leaves every call at once: todo[t] becomes  *)
(* empty (exec() catches it when a task threw it).                         *)
(***************************************************************************)
EXTENDS Sequences, Integers, Functions

CONSTANTS
    Tasks,      \* the tasks; each is posted at most once
    Body,       \* what each task does when it runs: a member of Bodies
    Workers,    \* the worker threads
    Clients,    \* the other threads
    Calls,      \* the methods each client may call
    MaxCalls,   \* bound: how many calls a client makes
    None        \* no task, no thread

Threads == Workers \cup Clients

Policies == {"ALLOW", "IGNORE", "LOGIGNORE", "THROW", "WAIT"}

\* The methods a thread can call with nothing but a worker (set_policy under the
\* name of the policy) ...
LowLevel == Policies \cup {"pause_loop", "clear_queue", "emit_cancel",
                          "wait_running_task", "emit_shutdown", "wait_shutdown"}
Aggregated == {"stop_now", "stop_when_done", "resume", "reset", "cancel",
               "shutdown", "wait_completion", "wait_shutdown_finished"}
Methods == LowLevel \cup Aggregated
\* ... and those that hand over a task.
Postings == {"post", "clear_post", "planned_shutdown"}

\* A task returns on its own, or when isCancelled() holds, or is the lambda of
\* planned_shutdown, or calls its worker; "end" is the empty std::function.
Bodies == {"return", "until_cancelled", "end", "post"} \cup Methods

ASSUME ThreadsAssumption ==
    /\ Workers \cap Clients = {}
    /\ None \notin Threads \cup Tasks
ASSUME TasksAssumption == Body \in [Tasks -> Bodies]
ASSUME CallsAssumption ==
    /\ Calls \in [Clients -> SUBSET (Methods \cup Postings)]
    /\ MaxCalls \in Nat

VARIABLES
    queue, blocked, nonempty,   \* the async_queue and its sleepers
    shutdown,    \* m_shutdown, the queue's "stopped" flag of this worker
    executing,   \* m_executing, the queue's "extracted" flag
    taking,      \* the worker that holds the mutex of the queue inside pop
    policy,      \* m_policy
    canceled,    \* m_canceled
    mutex,       \* the thread that holds m_mutex
    completed,   \* the threads asleep on m_completed
    joiner,      \* the thread that is in, or has left, m_thread.join()
    joined,      \* join() has returned: m_thread is not joinable any more
    at,          \* where run() is
    task,        \* the local "task" of run()
    todo, on, arg, calls,       \* the calls in progress
    stage,       \* history: what has happened to each task
    via          \* the worker whose method queued the task ("this" of lambdas)

Q == INSTANCE AsyncQueue
        WITH Consumers <- Workers, stopped <- shutdown, extracted <- executing

asyncq == <<queue, blocked, nonempty, shutdown, executing, taking>>
members == <<policy, canceled, mutex, completed>>
threads == <<joiner, joined, at, task>>
call == <<todo, on, arg, calls>>
vars == <<asyncq, members, threads, call, stage, via>>

Stages == {"fresh", "posting", "pending", "active", "done", "dropped"}

Init ==
    /\ Q!QueueInit
    /\ policy = [w \in Workers |-> "ALLOW"]
    /\ canceled = [w \in Workers |-> FALSE]
    /\ mutex = [w \in Workers |-> None]
    /\ completed = [w \in Workers |-> {}]
    /\ joiner = [w \in Workers |-> None]
    /\ joined = [w \in Workers |-> FALSE]
    /\ at = [w \in Workers |-> "pop"]
    /\ task = [w \in Workers |-> None]
    /\ todo = [t \in Threads |-> <<>>]
    /\ on = [t \in Threads |-> None]
    /\ arg = [t \in Threads |-> None]
    /\ calls = [t \in Clients |-> 0]
    /\ stage = [v \in Tasks |-> "fresh"]
    /\ via = [v \in Tasks |-> None]

-----------------------------------------------------------------------------
(* The methods as sequences of steps. *)

StepNames == Policies \cup
    {"block", "unblock", "notify", "clear", "cancel", "wait_running", "shutdown",
     "joinable", "join", "joining", "wait_completion", "check_empty", "admit",
     "push", "until_cancelled"}

SetPolicy(p) == <<p>>
PauseSilently(paused) == <<IF paused THEN "block" ELSE "unblock">>  \* faulty variant
PauseLoop(paused) == <<IF paused THEN "block" ELSE "unblock", "notify">>
ClearQueue == <<"clear">>
EmitCancel == <<"cancel">>
WaitRunningTask == <<"wait_running">>
EmitShutdown(p) == <<"shutdown">> \o PauseLoop(TRUE) \o SetPolicy(p) \o EmitCancel
WaitShutdown == <<"joinable", "join", "joining">> \o ClearQueue
Cancel == EmitCancel \o WaitRunningTask
StopNow == SetPolicy("IGNORE") \o PauseLoop(FALSE) \o ClearQueue \o Cancel
WaitCompletion == <<"wait_completion">>
StopWhenDone == SetPolicy("IGNORE") \o WaitCompletion
Resume == SetPolicy("ALLOW") \o PauseLoop(FALSE)
Reset == StopNow \o Resume
Shutdown == EmitShutdown("THROW") \o WaitShutdown
Post == <<"admit", "push">>
ClearPost == <<"admit">> \o EmitCancel \o ClearQueue \o <<"push">>
PlannedShutdown == <<"push">>
WaitShutdownFinished == SetPolicy("THROW") \o WaitCompletion

Steps(m) ==
    CASE m = "post" -> Post
      [] m = "clear_post" -> ClearPost
      [] m = "planned_shutdown" -> PlannedShutdown
      [] m \in Policies -> SetPolicy(m)
      [] m = "pause_loop" -> PauseLoop(TRUE)
      [] m = "clear_queue" -> ClearQueue
      [] m = "emit_cancel" -> EmitCancel
      [] m = "wait_running_task" -> WaitRunningTask
      [] m = "cancel" -> Cancel
      [] m = "emit_shutdown" -> EmitShutdown("THROW")
      [] m = "shutdown" -> Shutdown
      [] m = "wait_shutdown" -> WaitShutdown
      [] m = "stop_now" -> StopNow
      [] m = "stop_when_done" -> StopWhenDone
      [] m = "resume" -> Resume
      [] m = "reset" -> Reset
      [] m = "wait_completion" -> WaitCompletion
      [] m = "wait_shutdown_finished" -> WaitShutdownFinished
      [] m = "until_cancelled" -> <<"until_cancelled">>
      [] m = "return" -> <<>>

\* The tasks a method hands over: planned_shutdown its own lambda, the others
\* anything the client made.
Handed(m) ==
    {v \in Tasks : /\ stage[v] = "fresh"
                   /\ Body[v] = "emit_shutdown" <=> m = "planned_shutdown"}

\* Thread t enters method m of worker w, with task v when m posts one.  Bound:
\* when every task has been posted, a posting does nothing.
Enter(t, m, w, v) ==
    /\ IF m \in Postings /\ Handed(m) # {} THEN v \in Handed(m) ELSE v = None
    /\ todo' = [todo EXCEPT ![t] =
                   IF m \in Postings /\ v = None THEN <<>> ELSE Steps(m)]
    /\ on' = [on EXCEPT ![t] = w]
    /\ arg' = [arg EXCEPT ![t] = v]

-----------------------------------------------------------------------------
(* One step of a call.  Each is atomic for the other threads: it reads or  *)
(* writes one atomic, or is one critical section of a mutex.               *)

At(t, step) == todo[t] # <<>> /\ Head(todo[t]) = step
Advance(t) == todo' = [todo EXCEPT ![t] = Tail(@)] /\ UNCHANGED <<on, arg, calls>>
\* return from the outermost call, or an exception that leaves it
Leave(t) == todo' = [todo EXCEPT ![t] = <<>>] /\ UNCHANGED <<on, calls>>
Free(w) == mutex[w] = None
Mark(vs, s) == stage' = [v \in Tasks |-> IF v \in vs THEN s ELSE stage[v]]

DoSetPolicy(t) ==
    \E p \in Policies :
        /\ At(t, p)
        /\ policy' = [policy EXCEPT ![on[t]] = p]
        /\ Advance(t)
        /\ UNCHANGED <<asyncq, canceled, mutex, completed, threads, stage, via>>

DoBlock(t) ==
    /\ \/ At(t, "block") /\ Q!BlockStore(TRUE)
       \/ At(t, "unblock") /\ Q!BlockStore(FALSE)
    /\ Advance(t)
    /\ UNCHANGED <<members, threads, stage, via>>

DoNotify(t) ==
    /\ At(t, "notify")
    /\ Q!BlockNotify
    /\ Advance(t)
    /\ UNCHANGED <<members, threads, stage, via>>

DoClear(t) ==
    /\ At(t, "clear")
    /\ Q!Clear
    /\ Mark(Range(queue), "dropped")
    /\ Advance(t)
    /\ UNCHANGED <<members, threads, via>>

DoEmitCancel(t) ==
    /\ At(t, "cancel")
    /\ canceled' = [canceled EXCEPT ![on[t]] = TRUE]
    /\ Advance(t)
    /\ UNCHANGED <<asyncq, policy, mutex, completed, threads, stage, via>>

RaiseShutdown(t) ==
    /\ At(t, "shutdown")
    /\ shutdown' = [shutdown EXCEPT ![on[t]] = TRUE]
    /\ Advance(t)
    /\ UNCHANGED <<queue, blocked, nonempty, executing, taking, members, threads, stage, via>>

\* A task that waits for its own worker gets an exception: the thread ids
\* agree (wait_running_task, wait_completion), or join() finds itself.
SelfWait(t) ==
    /\ t = on[t]
    /\ At(t, "wait_running") \/ At(t, "wait_completion") \/ At(t, "join")
    /\ Leave(t)
    /\ UNCHANGED <<arg, asyncq, members, threads, stage, via>>

\* wait on m_completed releases m_mutex and sleeps; a notified thread starts
\* over with the predicate.
Sleep(t, w) == completed' = [completed EXCEPT ![w] = @ \cup {t}]

\* A faulty variant: wait for m_canceled instead of m_executing
\* (worker.cpp:270-273 rejects it).
WaitForCancelFlag(t) ==
    LET w == on[t] IN
    /\ At(t, "wait_running")
    /\ t # w
    /\ t \notin completed[w]
    /\ Free(w)
    /\ IF canceled[w]
       THEN Sleep(t, w) /\ UNCHANGED call
       ELSE Advance(t) /\ UNCHANGED completed
    /\ UNCHANGED <<asyncq, policy, canceled, mutex, threads, stage, via>>

DoWaitRunning(t) ==
    LET w == on[t] IN
    /\ At(t, "wait_running")
    /\ t # w
    /\ t \notin completed[w]
    /\ Free(w)
    /\ IF executing[w]
       THEN Sleep(t, w) /\ UNCHANGED call
       ELSE Advance(t) /\ UNCHANGED completed
    /\ UNCHANGED <<asyncq, policy, canceled, mutex, threads, stage, via>>

\* The predicate of wait_completion reads m_executing first ...
DoWaitCompletion(t) ==
    LET w == on[t] IN
    /\ At(t, "wait_completion")
    /\ t # w
    /\ t \notin completed[w]
    /\ Free(w)
    /\ IF executing[w]
       THEN Sleep(t, w) /\ UNCHANGED <<call, mutex>>
       ELSE /\ mutex' = [mutex EXCEPT ![w] = t]
            /\ todo' = [todo EXCEPT ![t] = <<"check_empty">>]
            /\ UNCHANGED <<on, arg, calls, completed>>
    /\ UNCHANGED <<asyncq, policy, canceled, threads, stage, via>>

\* ... and then, still under m_mutex, takes the queue's mutex for empty().
DoCheckEmpty(t) ==
    LET w == on[t] IN
    /\ At(t, "check_empty")
    /\ Q!MutexFree
    /\ mutex' = [mutex EXCEPT ![w] = None]
    /\ IF Q!Empty
       THEN Leave(t) /\ UNCHANGED <<arg, completed>>
       ELSE /\ Sleep(t, w)
            /\ todo' = [todo EXCEPT ![t] = <<"wait_completion">>]
            /\ UNCHANGED <<on, arg, calls>>
    /\ UNCHANGED <<asyncq, policy, canceled, threads, stage, via>>

\* wait_shutdown does nothing once the thread is not joinable.
DoJoinable(t) ==
    /\ At(t, "joinable")
    /\ IF joined[on[t]] THEN Leave(t) /\ UNCHANGED arg ELSE Advance(t)
    /\ UNCHANGED <<asyncq, members, threads, stage, via>>

\* Of several threads that found it joinable one joins; std::thread::join of
\* the others throws (glibc refuses a second joiner).
DoJoin(t) ==
    LET w == on[t] IN
    /\ At(t, "join")
    /\ t # w
    /\ IF joiner[w] = None
       THEN joiner' = [joiner EXCEPT ![w] = t] /\ Advance(t)
       ELSE Leave(t) /\ UNCHANGED <<arg, joiner>>
    /\ UNCHANGED <<asyncq, members, joined, at, task, stage, via>>

DoJoined(t) ==
    /\ At(t, "joining")
    /\ at[on[t]] = "exited"
    /\ joined' = [joined EXCEPT ![on[t]] = TRUE]
    /\ Advance(t)
    /\ UNCHANGED <<asyncq, members, joiner, at, task, stage, via>>

\* post() takes m_mutex and looks at the policy; IGNORE and LOGIGNORE return,
\* THROW throws, and the task is lost either way.
Admit(t) ==
    LET w == on[t] IN
    /\ At(t, "admit")
    /\ Free(w)
    /\ IF policy[w] \in {"ALLOW", "WAIT"}
       THEN /\ mutex' = [mutex EXCEPT ![w] = t]
            /\ Advance(t)
            /\ UNCHANGED stage
       ELSE /\ Leave(t)
            /\ arg' = [arg EXCEPT ![t] = None]
            /\ Mark({arg[t]}, "dropped")
            /\ UNCHANGED mutex
    /\ UNCHANGED <<asyncq, policy, canceled, completed, threads, via>>

\* The push of post(), which then releases m_mutex, and of planned_shutdown(),
\* which never took it.
DoPush(t) ==
    LET w == on[t] IN
    /\ At(t, "push")
    /\ Q!Push(arg[t], FALSE)
    /\ Mark({arg[t]}, "pending")
    /\ via' = [via EXCEPT ![arg[t]] = w]
    /\ mutex' = [mutex EXCEPT ![w] = IF @ = t THEN None ELSE @]
    /\ todo' = [todo EXCEPT ![t] = Tail(@)]
    /\ arg' = [arg EXCEPT ![t] = None]
    /\ UNCHANGED <<on, calls, policy, canceled, completed, threads>>

\* The body of a task that runs until isCancelled().
UntilCancelled(t) ==
    /\ At(t, "until_cancelled")
    /\ canceled[on[t]]
    /\ Advance(t)
    /\ UNCHANGED <<asyncq, members, threads, stage, via>>

Step(t) ==
    \/ DoSetPolicy(t) \/ DoBlock(t) \/ DoNotify(t) \/ DoClear(t)
    \/ DoEmitCancel(t) \/ RaiseShutdown(t) \/ SelfWait(t)
    \/ DoWaitRunning(t) \/ DoWaitCompletion(t) \/ DoCheckEmpty(t)
    \/ DoJoinable(t) \/ DoJoin(t) \/ DoJoined(t)
    \/ Admit(t) \/ DoPush(t) \/ UntilCancelled(t)

-----------------------------------------------------------------------------
(* A client starts a call. *)

Call(t, m, w, v) ==
    /\ todo[t] = <<>>
    /\ calls[t] < MaxCalls
    /\ m \in Calls[t]
    /\ Enter(t, m, w, v)
    /\ calls' = [calls EXCEPT ![t] = @ + 1]
    /\ Mark({v}, "posting")
    /\ UNCHANGED <<asyncq, members, threads, via>>

-----------------------------------------------------------------------------
(* run(): the loop of a worker thread. *)

PopSleeps(w) ==
    /\ at[w] = "pop"
    /\ Q!PopSleep(w)
    /\ UNCHANGED <<members, threads, call, stage, via>>

\* The loop ends: its own test of m_shutdown, or the "end" that pop returns.
LoopEnds(w) ==
    /\ at[w] = "pop"
    /\ Q!PopEnd(w)
    /\ at' = [at EXCEPT ![w] = "exited"]
    /\ UNCHANGED <<members, joiner, joined, task, call, stage, via>>

\* pop tests m_shutdown for the last time, raises m_executing, takes.
PopDecides(w) ==
    /\ at[w] = "pop"
    /\ Q!PopDecide(w)
    /\ UNCHANGED <<members, threads, call, stage, via>>

PopExtracts(w) ==
    /\ Q!PopExtract(w)
    /\ UNCHANGED <<members, threads, call, stage, via>>

PopTakes(w) ==
    /\ at[w] = "pop"
    /\ Q!PopTake(w)
    /\ task' = [task EXCEPT ![w] = Head(queue)]
    /\ at' = [at EXCEPT ![w] = "popped"]
    /\ Mark({Head(queue)}, "active")
    /\ UNCHANGED <<members, joiner, joined, call, via>>

\* "if (!task) break": the empty task ends the loop; the flag that pop raised
\* stays raised.
EndTask(w) ==
    /\ at[w] = "popped"
    /\ Body[task[w]] = "end"
    /\ at' = [at EXCEPT ![w] = "exited"]
    /\ task' = [task EXCEPT ![w] = None]
    /\ Mark({task[w]}, "done")
    /\ UNCHANGED <<asyncq, members, joiner, joined, call, via>>

\* exec() resets m_canceled and calls the task; a task that posts takes v.
Exec(w, v) ==
    LET b == Body[task[w]] IN
    /\ at[w] = "popped"
    /\ b # "end"
    /\ at' = [at EXCEPT ![w] = "exec"]
    /\ canceled' = [canceled EXCEPT ![w] = FALSE]
    /\ Enter(w, b, IF b \in {"until_cancelled", "return"} THEN w ELSE via[task[w]], v)
    /\ Mark({v}, "posting")
    /\ UNCHANGED <<asyncq, policy, mutex, completed, joiner, joined, task, calls, via>>

\* A faulty variant of the end of a task: nobody is notified.
FinishSilently(w) ==
    /\ at[w] = "exec"
    /\ todo[w] = <<>>
    /\ Free(w)
    /\ executing' = [executing EXCEPT ![w] = FALSE]
    /\ at' = [at EXCEPT ![w] = "pop"]
    /\ task' = [task EXCEPT ![w] = None]
    /\ Mark({task[w]}, "done")
    /\ UNCHANGED <<queue, blocked, nonempty, shutdown, taking, members, joiner,
                   joined, call, via>>

\* The task has returned (or thrown): under m_mutex, lower m_executing and
\* notify_all.
Finish(w) ==
    /\ at[w] = "exec"
    /\ todo[w] = <<>>
    /\ Free(w)
    /\ executing' = [executing EXCEPT ![w] = FALSE]
    /\ completed' = [completed EXCEPT ![w] = {}]
    /\ at' = [at EXCEPT ![w] = "pop"]
    /\ task' = [task EXCEPT ![w] = None]
    /\ Mark({task[w]}, "done")
    /\ UNCHANGED <<queue, blocked, nonempty, shutdown, taking, policy, canceled,
                   mutex, joiner, joined, call, via>>

Run(w) ==
    \/ PopSleeps(w) \/ LoopEnds(w)
    \/ PopDecides(w) \/ PopExtracts(w) \/ PopTakes(w) \/ EndTask(w)
    \/ \E v \in Tasks \cup {None} : Exec(w, v)
    \/ Finish(w)

-----------------------------------------------------------------------------
\* Both condition variables may wake a sleeper for no reason.
Spurious ==
    \/ \E w \in Workers :
          Q!SpuriousWake(w) /\ UNCHANGED <<members, threads, call, stage, via>>
    \/ \E w \in Workers : \E t \in completed[w] :
          /\ completed' = [completed EXCEPT ![w] = @ \ {t}]
          /\ UNCHANGED <<asyncq, policy, canceled, mutex, threads, call, stage, via>>

Next ==
    \/ \E t \in Threads : Step(t)
    \/ \E t \in Clients, w \in Workers, v \in Tasks \cup {None} :
          \E m \in Methods \cup Postings : Call(t, m, w, v)
    \/ \E w \in Workers : Run(w)
    \/ Spurious

Spec == Init /\ [][Next]_vars

\* Every thread that can take a step is scheduled again, and so is a task's own
\* code; no client is obliged to start a call.
Fairness ==
    /\ \A t \in Threads : WF_vars(Step(t))
    /\ \A w \in Workers : WF_vars(Run(w))

FairSpec == Spec /\ Fairness

-----------------------------------------------------------------------------
(* Correctness. *)

TypeOK ==
    /\ Q!QueueTypeOK
    /\ policy \in [Workers -> Policies]
    /\ canceled \in [Workers -> BOOLEAN]
    /\ mutex \in [Workers -> Threads \cup {None}]
    /\ completed \in [Workers -> SUBSET Threads]
    /\ joiner \in [Workers -> Threads \cup {None}]
    /\ joined \in [Workers -> BOOLEAN]
    /\ at \in [Workers -> {"pop", "popped", "exec", "exited"}]
    /\ task \in [Workers -> Tasks \cup {None}]
    /\ todo \in [Threads -> Seq(StepNames)]
    /\ on \in [Threads -> Workers \cup {None}]
    /\ arg \in [Threads -> Tasks \cup {None}]
    /\ calls \in [Clients -> 0..MaxCalls]
    /\ stage \in [Tasks -> Stages]
    /\ via \in [Tasks -> Workers \cup {None}]

\* A worker holds a task between the pop and the end of the task's code.
Busy(w) == at[w] \in {"popped", "exec"}

\* No task is lost, run twice or held by two owners: what is queued, what each
\* worker holds and what each caller is about to push are exactly the tasks in
\* those stages, whatever posts, clears, cancels and shutdowns interleave
\* (post, clear_queue, run of worker.cpp; push, clear, pop of async_queue.cpp).
OneOwner ==
    /\ Range(queue) = {v \in Tasks : stage[v] = "pending"}
    /\ \A i, j \in DOMAIN queue : queue[i] = queue[j] => i = j
    /\ \A w \in Workers :
          IF Busy(w)
          THEN task[w] # None /\ stage[task[w]] = "active"
          ELSE task[w] = None
    /\ \A w, x \in Workers : task[w] = task[x] /\ task[w] # None => w = x
    /\ \A t \in Threads : arg[t] # None => stage[arg[t]] = "posting"
    /\ \A t, u \in Threads : arg[t] = arg[u] /\ arg[t] # None => t = u

\* m_executing covers a task from before it leaves the queue until its code is
\* over, and is down whenever the worker waits for the next one: there is no
\* gap between pop and exec (async_queue.cpp:84, worker.cpp:185-192).
FlagCoversTask ==
    \A w \in Workers :
        /\ Busy(w) => executing[w]
        /\ at[w] = "pop" /\ w \notin taking => ~executing[w]

\* A method that waits for the running task does not return while its worker
\* still holds one, popped or executing (wait_running_task).
WaitsForRunningTask ==
    [][\A t \in Threads :
          At(t, "wait_running") /\ ~At(t, "wait_running")' /\ t # on[t]
              => ~Busy(on[t])]_vars

\* Whoever sleeps in wait_running_task will be notified: the worker holds a task,
\* or is taking one, and its end notifies (worker.cpp:192 "unblock cancel").
SleeperIsNotified ==
    \A w \in Workers : \A t \in completed[w] :
        At(t, "wait_running") => Busy(w) \/ w \in taking

\* A thread is about to notify m_nonempty, or to store m_blocked and then notify.
NotifyPending ==
    \E t \in Threads : At(t, "block") \/ At(t, "unblock") \/ At(t, "notify")

\* A worker that will look at the queue again without being notified.
SomeoneAwake == \E w \in Workers : w \notin nonempty /\ at[w] # "exited"

\* A worker never sleeps through a task it may take, a resumed loop or its own
\* shutdown, however pauses, posts, clears and shutdowns interleave: whoever makes
\* pop's condition true has still to notify (pause_loop, emit_shutdown, post).
NoLostWakeup == \A w \in nonempty : Q!Ready(w) => NotifyPending \/ SomeoneAwake

\* Whoever holds m_mutex is at a step that needs nothing from another thread, so
\* that every wait for m_mutex ends, also when a method is left by an exception
\* (the locks of post, clear_post and wait_completion).
MutexIsReleased ==
    \A w \in Workers : mutex[w] # None =>
        /\ on[mutex[w]] = w
        /\ \E step \in {"push", "check_empty", "cancel", "clear"} : At(mutex[w], step)

\* A thread is about to store m_blocked for worker w, or to notify after it.
InPauseLoop(w) ==
    \E t \in Threads :
        on[t] = w /\ (At(t, "block") \/ At(t, "notify"))

\* emit_shutdown raises m_shutdown without the mutex of the queue, so the worker
\* may still take a task that pop had decided to take; but once the pause_loop that
\* follows has been through the mutex, it starts nothing more, whatever is queued
\* and whoever resumes the loop (worker.cpp:288-289, async_queue.cpp:61, 79-89).
NoStartAfterShutdown ==
    [][\A w \in Workers :
          shutdown[w] /\ ~InPauseLoop(w) /\ ~Busy(w) => ~Busy(w)']_vars

\* When join() has returned the worker thread holds no task and never will.
JoinedIsOver == \A w \in Workers : joined[w] => at[w] = "exited" /\ task[w] = None

\* The Executor specification, implemented by this one: a task in the hands of
\* post() is not accepted yet, and the queue, the held tasks and m_shutdown are
\* Executor's backlog, active tasks and stopped workers.
E == INSTANCE Executor
        WITH backlog <- queue,
             fate <- [v \in Tasks |->
                         IF stage[v] = "posting" THEN "fresh" ELSE stage[v]],
             active <- task,
             running <- [w \in Workers |-> ~shutdown[w] \/ w \in taking]

\* Every step of the workers and their callers is a step of Executor.
ImplementsExecutor == E!Spec

-----------------------------------------------------------------------------
(* Progress, under FairSpec.  A task's own code always ends, unless it is    *)
(* until_cancelled.                                                          *)

\* A queued task is eventually run or discarded, unless the loop is paused or
\* has ended.
PendingIsServed ==
    \A v \in Tasks :
        stage[v] = "pending" ~>
            \/ stage[v] \in {"done", "dropped"}
            \/ blocked
            \/ \A w \in Workers : at[w] = "exited"

\* cancel(), and whatever else waits for the running task, returns
\* (wait_running_task).
CancelReturns ==
    \A t \in Threads : At(t, "wait_running") ~> ~At(t, "wait_running")

\* Once m_shutdown is raised a thread in wait_shutdown gets through join().
ShutdownReturns ==
    \A w \in Workers : shutdown[w] /\ joiner[w] # None ~> joined[w]

-----------------------------------------------------------------------------
(* What comments of worker.cpp claim and the code does not do. *)

\* A cancel() made while the worker holds a task ends that task: there is no
\* gap between pop and cancel (worker.cpp:189).
CancelReachesTask ==
    \A t \in Clients, v \in Tasks :
        (At(t, "cancel") /\ task[on[t]] = v) ~> stage[v] = "done"

\* wait_completion returns at a point where no task runs (worker.cpp:398).
IdleWhenComplete ==
    [][\A t \in Threads :
          At(t, "check_empty") /\ todo'[t] = <<>> => ~Busy(on[t])]_vars

\* After wait_shutdown nothing is left in the queue that could refer to objects
\* about to be destroyed (worker.cpp:324).
NothingQueuedAfterShutdown ==
    \A t \in Clients :
        on[t] # None /\ todo[t] = <<>> /\ joiner[on[t]] = t => queue = <<>>
=============================================================================
