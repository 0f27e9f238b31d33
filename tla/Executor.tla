------------------------------ MODULE Executor ------------------------------
(***************************************************************************)
(* What a Worker, or several Workers on one queue, promise to the client   *)
(* that posts tasks: every task is started at most once, in the order in   *)
(* which tasks were accepted, by a worker that runs nothing else, and never *)
(* by a worker that has stopped; a task that is not started is discarded   *)
(* together with everything that was waiting with it.                      *)
(***************************************************************************)
EXTENDS Sequences, Functions

CONSTANTS
    Tasks,
    Workers,
    None       \* what an idle worker runs

VARIABLES
    backlog,   \* the accepted tasks that wait, oldest first
    fate,      \* what has happened to each task
    active,    \* the task each worker runs
    running    \* the workers that may still start a task

vars == <<backlog, fate, active, running>>

Fates == {"fresh", "pending", "active", "done", "dropped"}

Init ==
    /\ backlog = <<>>
    /\ fate = [v \in Tasks |-> "fresh"]
    /\ active = [w \in Workers |-> None]
    /\ running = [w \in Workers |-> TRUE]

Accept(v) ==
    /\ fate[v] = "fresh"
    /\ fate' = [fate EXCEPT ![v] = "pending"]
    /\ backlog' = Append(backlog, v)
    /\ UNCHANGED <<active, running>>

Refuse(v) ==
    /\ fate[v] = "fresh"
    /\ fate' = [fate EXCEPT ![v] = "dropped"]
    /\ UNCHANGED <<backlog, active, running>>

Discard ==
    /\ backlog' = <<>>
    /\ fate' = [v \in Tasks |->
                  IF v \in Range(backlog) THEN "dropped" ELSE fate[v]]
    /\ UNCHANGED <<active, running>>

Start(w) ==
    /\ running[w]
    /\ active[w] = None
    /\ backlog # <<>>
    /\ active' = [active EXCEPT ![w] = Head(backlog)]
    /\ fate' = [fate EXCEPT ![Head(backlog)] = "active"]
    /\ backlog' = Tail(backlog)
    \* a stop that comes while the task is handed over takes effect with the start
    /\ running' \in {running, [running EXCEPT ![w] = FALSE]}

Finish(w) ==
    /\ active[w] # None
    /\ fate' = [fate EXCEPT ![active[w]] = "done"]
    /\ active' = [active EXCEPT ![w] = None]
    /\ UNCHANGED <<backlog, running>>

Stop(w) ==
    /\ running' = [running EXCEPT ![w] = FALSE]
    /\ UNCHANGED <<backlog, fate, active>>

Next ==
    \/ \E v \in Tasks : Accept(v) \/ Refuse(v)
    \/ \E w \in Workers : Start(w) \/ Finish(w) \/ Stop(w)
    \/ Discard

Spec == Init /\ [][Next]_vars

=============================================================================
