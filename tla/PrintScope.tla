------------------------------ MODULE PrintScope ------------------------------
(***************************************************************************)
(* languages/cxx/taskmgr/print_scope.cpp: a scope prints a line when it is *)
(* entered and one when it is left, indented by the depth of the thread.   *)
(* print() writes a line in parts and numbers the threads in the order of  *)
(* their first lines, all under one mutex.  The global scope encloses      *)
(* main(); the other threads are those of the programs that include the    *)
(* file, which join them before main returns.                              *)
(***************************************************************************)
EXTENDS Integers, Sequences, SequencesExt

CONSTANTS
    Threads,      \* the threads that main starts
    MaxScopes     \* bound: scopes that such a thread enters

\* "nobody" stands for a mutex that no thread holds.
ASSUME ThreadsAssumption == "main" \notin Threads /\ "nobody" \notin Threads

Tracers == Threads \cup {"main"}

VARIABLES
    mainDone,     \* the number of steps of its life main has begun
    entered,      \* the number of scopes each of Threads has entered
    scopes,       \* the scopes each thread is in: print_scope::m_text, innermost last
    depth,        \* g_depth
    number,       \* s_tid of each thread, Unnumbered before its first line
    nextNumber,   \* g_tid
    saying,       \* the line each thread prints, Silent outside print()
    printAt,      \* where it is in print()
    printer,      \* the thread that holds s_mutex, or Nobody
    out           \* what was written: head and text of each line are parts

traceVars == <<mainDone, entered, scopes, depth, number, nextNumber, saying, printAt,
               printer, out>>

Unnumbered == -1
Silent == [kind |-> "none", text |-> "none"]
Nobody == "nobody"

\* The life of main's thread: the construction of firstGSO, main(), exit().
Life == <<[kind |-> "open", text |-> "gso"], [kind |-> "open", text |-> "main"],
          [kind |-> "open", text |-> "inner"], [kind |-> "close", text |-> "inner"],
          [kind |-> "close", text |-> "main"], [kind |-> "line", text |-> "atexit"],
          [kind |-> "close", text |-> "gso"]>>

TraceInit ==
    /\ mainDone = 0
    /\ entered = [t \in Threads |-> 0]
    /\ scopes = [t \in Tracers |-> <<>>]
    /\ depth = [t \in Tracers |-> 0]
    /\ number = [t \in Tracers |-> Unnumbered]
    /\ nextNumber = 0
    /\ saying = [t \in Tracers |-> Silent]
    /\ printAt = [t \in Tracers |-> "out"]
    /\ printer = Nobody
    /\ out = <<>>

-----------------------------------------------------------------------------
\* The depth at which a scope that ends prints; faulty variant first.
LeaveAfter(t) == depth[t]
LeaveBefore(t) == depth[t] - 1

Says(t, say) ==
    /\ printAt[t] = "out"
    /\ saying' = [saying EXCEPT ![t] = say]
    /\ printAt' = [printAt EXCEPT ![t] = "lock"]
    /\ UNCHANGED <<number, nextNumber, printer, out>>

\* The constructor prints before it goes deeper.
Opens(t, text) ==
    /\ Says(t, [kind |-> "open", text |-> text])
    /\ scopes' = [scopes EXCEPT ![t] = Append(@, text)]
    /\ UNCHANGED depth

\* The destructor of the innermost scope goes up before it prints.
Closes(t) ==
    /\ scopes[t] # <<>>
    /\ Says(t, [kind |-> "close", text |-> Last(scopes[t])])
    /\ scopes' = [scopes EXCEPT ![t] = Front(@)]
    /\ depth' = [depth EXCEPT ![t] = LeaveBefore(t)]

\* main() starts its threads within its scope and joins them before it leaves that.
Joined == \A t \in Threads : scopes[t] = <<>> /\ printAt[t] = "out"
MainSteps ==
    /\ mainDone < Len(Life)
    /\ LET say == Life[mainDone + 1]
       IN /\ say = [kind |-> "close", text |-> "main"] => Joined
          /\ CASE say.kind = "open" -> Opens("main", say.text)
               [] say.kind = "close" -> Closes("main")
               [] say.kind = "line" -> Says("main", say) /\ UNCHANGED <<scopes, depth>>
    /\ mainDone' = mainDone + 1
    /\ UNCHANGED entered

Enters(t) ==
    /\ mainDone \in 2..4 /\ depth["main"] >= 2
    /\ entered[t] < MaxScopes
    /\ entered' = [entered EXCEPT ![t] = @ + 1]
    /\ \E text \in {"f", "g"} : Opens(t, text)
    /\ UNCHANGED mainDone

Exits(t) == Closes(t) /\ UNCHANGED <<mainDone, entered>>

-----------------------------------------------------------------------------
(* print().                                                                 *)

\* The lock_guard; faulty variant first.
AnyTime == TRUE
MutexFree == printer = Nobody

PrintUnchanged == UNCHANGED <<mainDone, entered, scopes, saying>>
Writes(t, part) ==
    out' = Append(out, [thread |-> t, part |-> part, number |-> number[t],
                        depth |-> depth[t], say |-> saying[t]])

PrintLocks(t) ==
    /\ printAt[t] = "lock"
    /\ MutexFree
    /\ printer' = t
    /\ printAt' = [printAt EXCEPT ![t] = "number"]
    /\ PrintUnchanged /\ UNCHANGED <<depth, number, nextNumber, out>>

\* The initialisation of s_tid reads g_tid and then increments it.
ReadsNumber(t) ==
    /\ printAt[t] = "number"
    /\ number[t] = Unnumbered
    /\ number' = [number EXCEPT ![t] = nextNumber]
    /\ printAt' = [printAt EXCEPT ![t] = "increment"]
    /\ PrintUnchanged /\ UNCHANGED <<depth, nextNumber, printer, out>>

Increments(t) ==
    /\ printAt[t] = "increment"
    /\ nextNumber' = number[t] + 1
    /\ printAt' = [printAt EXCEPT ![t] = "number"]
    /\ PrintUnchanged /\ UNCHANGED <<depth, number, printer, out>>

WritesHead(t) ==
    /\ printAt[t] = "number"
    /\ number[t] # Unnumbered
    /\ Writes(t, "head")
    /\ printAt' = [printAt EXCEPT ![t] = "text"]
    /\ PrintUnchanged /\ UNCHANGED <<depth, number, nextNumber, printer>>

\* The rest of the line; print() returns to the constructor, which goes deeper.
WritesText(t) ==
    /\ printAt[t] = "text"
    /\ Writes(t, "text")
    /\ printer' = Nobody
    /\ printAt' = [printAt EXCEPT ![t] = "out"]
    /\ saying' = [saying EXCEPT ![t] = Silent]
    /\ depth' = [depth EXCEPT ![t] = IF saying[t].kind = "open" THEN @ + 1 ELSE @]
    /\ UNCHANGED <<mainDone, entered, scopes, number, nextNumber>>

Prints(t) ==
    \/ PrintLocks(t) \/ ReadsNumber(t) \/ Increments(t) \/ WritesHead(t) \/ WritesText(t)

TraceNext ==
    \/ MainSteps
    \/ \E t \in Threads : Enters(t) \/ Exits(t)
    \/ \E t \in Tracers : Prints(t)

TraceSpec == TraceInit /\ [][TraceNext]_traceVars

-----------------------------------------------------------------------------
\* The parts of a line are written together, and a number names one thread: the
\* trace of threads that run at once can be read line by line (print, line 46).
LinesAreWhole ==
    /\ \A i \in 1..Len(out) : out[i].part = "text" =>
           i > 1 /\ out[i - 1].part = "head" /\ out[i - 1].thread = out[i].thread
    /\ \A i, j \in 1..Len(out) :
           out[i].number = out[j].number => out[i].thread = out[j].thread

\* The lines of a thread nest: each is indented by the scopes entered and not yet
\* left, and the lines of entry and exit of a scope are at the same depth with only
\* deeper ones between them; the global scope encloses all of main's (print_scope).
Lines(t) == {i \in 1..Len(out) : out[i].thread = t /\ out[i].part = "text"}
LinesBefore(i, kind) == {j \in Lines(out[i].thread) : j < i /\ out[j].say.kind = kind}
TraceIsNested ==
    \A t \in Tracers : \A i \in Lines(t) :
        /\ out[i].say.kind # "close" =>
               out[i].depth =
                   Cardinality(LinesBefore(i, "open")) - Cardinality(LinesBefore(i, "close"))
        /\ out[i].say.kind = "close" =>
               \E j \in LinesBefore(i, "open") :
                   /\ out[j].say.text = out[i].say.text
                   /\ out[j].depth = out[i].depth
                   /\ \A m \in Lines(t) : j < m /\ m < i => out[m].depth > out[i].depth
=============================================================================
