------------------------------ MODULE MCPrograms ------------------------------
(***************************************************************************)
(* The small programs that share no state, checked together: the initial   *)
(* state chooses one, and only that one runs.  The variables of the others *)
(* keep one value, so that the state space is the sum of theirs.           *)
(***************************************************************************)
EXTENDS Samples, HigherBit, Search, PrintScope, ExtDeps, AccessorChain

VARIABLE program    \* the program that runs

\* Every word with at most two ones, and every word of ones below a position.
MCWords == {{p, q} : p, q \in 0..31} \cup {0..(n - 1) : n \in 0..32}

\* Target "a" requires target "b".
MCRequires == [t \in Targets |-> IF t = "a" THEN {"b"} ELSE {}]

programVars == <<sampleVars, bitVars, searchVars, traceVars, depsVars, chainVars>>

SampleIdle ==
    /\ sample = "getdpi" /\ line = 1 /\ failed = {} /\ gone = {}
    /\ events = <<>> /\ arrived = 0 /\ stop = FALSE /\ outcome = "running"
BitIdle == k = 0 /\ num = {} /\ result = NoResult
SearchIdle ==
    /\ variant = "perl" /\ table = <<0>> /\ value = 0
    /\ low = 1 /\ high = 1 /\ mid = NotFound /\ answer = NotFound
DepsIdle == DepsInit /\ text = [t \in Targets |-> "old"]
ChainIdle == ChainInit /\ edition = "manager"

Choose(p, init, idle) == IF program = p THEN init ELSE idle

Init ==
    /\ program \in {"sample", "bit", "search", "trace", "deps", "chain"}
    /\ Choose("sample", SampleInit, SampleIdle)
    /\ Choose("bit", BitInit, BitIdle)
    /\ Choose("search", SearchInit, SearchIdle)
    /\ TraceInit
    /\ Choose("deps", DepsInit, DepsIdle)
    /\ Choose("chain", ChainInit, ChainIdle)

\* Each program runs alone.
RunSampleStep ==
    /\ program = "sample" /\ SampleStep
    /\ UNCHANGED <<program, bitVars, searchVars, traceVars, depsVars, chainVars>>
SampleEvent ==
    /\ program = "sample" /\ \E e \in EventKinds : Arrives(e)
    /\ UNCHANGED <<program, bitVars, searchVars, traceVars, depsVars, chainVars>>
RunBit ==
    /\ program = "bit" /\ BitNext
    /\ UNCHANGED <<program, sampleVars, searchVars, traceVars, depsVars, chainVars>>
RunSearch ==
    /\ program = "search" /\ SearchNext
    /\ UNCHANGED <<program, sampleVars, bitVars, traceVars, depsVars, chainVars>>
RunTrace ==
    /\ program = "trace" /\ TraceNext
    /\ UNCHANGED <<program, sampleVars, bitVars, searchVars, depsVars, chainVars>>
RunDeps ==
    /\ program = "deps" /\ DepsNext
    /\ UNCHANGED <<program, sampleVars, bitVars, searchVars, traceVars, chainVars>>
RunChain ==
    /\ program = "chain" /\ ChainNext
    /\ UNCHANGED <<program, sampleVars, bitVars, searchVars, traceVars, depsVars>>

Next == RunSampleStep \/ SampleEvent \/ RunBit \/ RunSearch \/ RunTrace \/ RunDeps \/ RunChain

\* A sample goes on unless it waits for an event; so does a search.
Fairness == WF_sampleVars(RunSampleStep) /\ WF_searchVars(RunSearch)
Spec == Init /\ [][Next]_<<program, programVars>> /\ Fairness
=============================================================================
