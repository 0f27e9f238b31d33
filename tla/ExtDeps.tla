-------------------------------- MODULE ExtDeps --------------------------------
(***************************************************************************)
(* buildsystems/ext-deps/bash/ext-deps: runs the install script of each    *)
(* target, after those it requires, and stamps the target with a hash of   *)
(* the script and the arguments, so that the next run skips it.  The tool  *)
(* can be killed and started again at any moment, with other arguments,    *)
(* and scripts are edited, and set back, while it runs.                    *)
(***************************************************************************)
EXTENDS Integers, Sequences, SequencesExt, FiniteSets

CONSTANTS
    Targets,     \* the recepts
    Requires,    \* Requires[t]: the targets named by "#@deps:" of t
    Texts,       \* what a script may say
    Args,        \* the arguments of a run, after "--"
    Nothing      \* no whole installation, no hash

ASSUME RequiresAssumption ==
    /\ IsFiniteSet(Targets)
    /\ Requires \in [Targets -> SUBSET Targets]
ASSUME NothingAssumption == Nothing \notin Texts \X Args

VARIABLES
    text,       \* the script of each target
    built,      \* the hash of what each target was wholly installed from, or Nothing
    marker,     \* the hash in the marker of each target; Nothing: missing, or empty
    todo,       \* the targets left in this run, in order
    toolAt,     \* where the tool is
    args,       \* cmdline_args of this run
    hsum,       \* make_target's hash
    full,       \* the run installs all targets
    changed,    \* history: the script that runs was edited since it was hashed
    edited,     \* history: the hash each target is stamped with, if its script was
                \* edited while it ran
    stale       \* history: the targets whose files were touched by a script or a
                \* RemoveInstalled after their marker was written

depsVars == <<text, built, marker, todo, toolAt, args, hsum, full, changed, edited, stale>>
onDisk == <<built, marker, edited, stale>>
run == <<todo, args, hsum, full, changed>>

\* sha256sum of the script, and of the arguments; filedeps are always none.
Hash(t) == <<text[t], args>>

-----------------------------------------------------------------------------
\* The targets that a pair of extract_prerequisites names, as tsort may print them:
\* a target before what it requires.  A cycle has no such order, and no run.
Mentioned ==
    {t \in Targets : Requires[t] # {} \/ \E u \in Targets : t \in Requires[u]}
Sorted ==
    {s \in SetToSeqs(Mentioned) :
        \A i, j \in DOMAIN s : s[j] \in Requires[s[i]] => i <= j}
Others == SetToSeqs(Targets \ Mentioned)

\* ordered_targets: tac, and then the targets that no pair names.  Faulty variant
\* first: without tac.
ForwardOrders == {s \o o : s \in Sorted, o \in Others}
Orders == {Reverse(s) \o o : s \in Sorted, o \in Others}

DepsInit ==
    /\ text \in [Targets -> Texts]
    /\ built = [t \in Targets |-> Nothing]
    /\ marker = [t \in Targets |-> Nothing]
    /\ todo = <<>> /\ toolAt = "stopped"
    /\ args = Nothing /\ hsum = Nothing /\ full = FALSE /\ changed = FALSE
    /\ edited = [t \in Targets |-> Nothing]
    /\ stale = {}

-----------------------------------------------------------------------------
\* _main: all the targets (-A, or all of them named), or the chosen ones in the same
\* order.  Without any pair -A fails at once, and the targets can only be named.
Runs ==
    /\ toolAt = "stopped"
    /\ \E order \in Orders, chosen \in SUBSET Targets :
           /\ todo' = SelectSeq(order, LAMBDA t : t \in chosen)
           /\ full' = (todo' = order)
    /\ args' \in Args
    /\ toolAt' = "target"
    /\ UNCHANGED <<text, hsum, changed, onDisk>>

Target == Head(todo)

\* A missing marker differs from any hash.
UpToDate(t) == marker[t] = Hash(t)

Skips ==
    /\ toolAt = "target" /\ todo # <<>>
    /\ UpToDate(Target)
    /\ todo' = Tail(todo)
    /\ UNCHANGED <<text, toolAt, args, hsum, full, changed, onDisk>>

\* make_target up to the script, which runs in any case with -f.
Hashes ==
    /\ toolAt = "target" /\ todo # <<>>
    /\ toolAt' = "script"
    /\ hsum' = Hash(Target)
    /\ UNCHANGED <<text, todo, args, full, changed, onDisk>>

\* The script begins to replace what is installed, ...
Overwrites ==
    /\ toolAt = "script" /\ built[Target] # Nothing
    /\ built' = [built EXCEPT ![Target] = Nothing]
    /\ stale' = IF marker[Target] = Nothing THEN stale ELSE stale \cup {Target}
    /\ UNCHANGED <<text, toolAt, marker, edited, run>>

\* ... has installed the target, from whichever text it was read ...
Installs ==
    /\ toolAt = "script" /\ built[Target] = Nothing
    /\ \E x \in Texts :
           /\ changed \/ x = text[Target]
           /\ built' = [built EXCEPT ![Target] = <<x, args>>]
    /\ toolAt' = "open"
    /\ UNCHANGED <<text, marker, edited, stale, run>>

\* The process ends, and the disk stays as it is.
Quits ==
    /\ toolAt' = "stopped" /\ todo' = <<>>
    /\ args' = Nothing /\ hsum' = Nothing /\ full' = FALSE /\ changed' = FALSE
    /\ UNCHANGED <<text, onDisk>>

\* ... or fails.
ScriptFails == toolAt = "script" /\ Quits

\* The marker is opened and then written.  Faulty variant of the second step: the
\* hash is computed when it is needed.
Opened ==
    /\ toolAt = "open"
    /\ marker' = [marker EXCEPT ![Target] = Nothing]
    /\ edited' = [edited EXCEPT ![Target] = Nothing]
    /\ stale' = stale \ {Target}
    /\ toolAt' = "mark"
    /\ UNCHANGED <<text, built, run>>

HashAfter == Hash(Target)
HashBefore == hsum
Marks ==
    /\ toolAt = "mark"
    /\ marker' = [marker EXCEPT ![Target] = HashBefore]
    /\ edited' = [edited EXCEPT ![Target] = IF changed THEN hsum ELSE Nothing]
    /\ todo' = Tail(todo)
    /\ toolAt' = "target" /\ hsum' = Nothing /\ changed' = FALSE
    /\ UNCHANGED <<text, built, args, full, stale>>

Finishes == toolAt = "target" /\ todo = <<>> /\ Quits

\* RemoveInstalled: find deletes what is below the prefix in the order of the
\* directory.
BeginsRemoval ==
    /\ toolAt = "stopped"
    /\ toolAt' = "remove"
    /\ UNCHANGED <<text, onDisk, run>>

DeletesFiles(t) ==
    /\ toolAt = "remove" /\ built[t] # Nothing
    /\ built' = [built EXCEPT ![t] = Nothing]
    /\ stale' = IF marker[t] = Nothing THEN stale ELSE stale \cup {t}
    /\ UNCHANGED <<text, toolAt, marker, edited, run>>

DeletesMarker(t) ==
    /\ toolAt = "remove" /\ marker[t] # Nothing
    /\ marker' = [marker EXCEPT ![t] = Nothing]
    /\ edited' = [edited EXCEPT ![t] = Nothing]
    /\ stale' = stale \ {t}
    /\ UNCHANGED <<text, toolAt, built, run>>

EndsRemoval ==
    /\ toolAt = "remove"
    /\ \A t \in Targets : built[t] = Nothing /\ marker[t] = Nothing
    /\ Quits

-----------------------------------------------------------------------------
(* The world around the tool.                                               *)
Killed == toolAt # "stopped" /\ Quits

EditsScript(t) ==
    /\ \E x \in Texts \ {text[t]} : text' = [text EXCEPT ![t] = x]
    /\ changed' = (changed \/ (toolAt = "script" /\ t = Target))
    /\ UNCHANGED <<toolAt, todo, args, hsum, full, onDisk>>

DepsNext ==
    \/ Runs \/ Skips \/ Hashes \/ Overwrites \/ Installs \/ ScriptFails
    \/ Opened \/ Marks \/ Finishes
    \/ BeginsRemoval \/ EndsRemoval \/ Killed
    \/ \E t \in Targets : DeletesFiles(t) \/ DeletesMarker(t) \/ EditsScript(t)

DepsSpec == DepsInit /\ [][DepsNext]_depsVars

-----------------------------------------------------------------------------
\* A target that the tool would skip is installed as its script and the
\* arguments say now, whatever was edited, set back, run with other arguments or
\* killed before.  Two cases are excepted.  The script was edited while it ran and
\* set back since: the hash is taken beforehand so that the edit is noticed
\* (ext-deps:114), and it is as long as it stays.  And a script or a RemoveInstalled
\* that was interrupted has touched the files and left the marker: nothing removes it
\* before the script that replaces an installation (line 130).
SkippedIsInstalled ==
    toolAt = "target" =>
        \A t \in Targets \ stale : UpToDate(t) => Hash(t) \in {built[t], edited[t]}

\* When all targets are installed, a script runs after those it requires have been
\* wholly installed, in this run or, and then skipped, in an earlier one, unless
\* they were interrupted as above (ext-deps:101).
PrerequisitesFirst ==
    toolAt = "script" /\ full =>
        \A t \in Requires[Target] \ (stale \cup {Target}) : built[t] # Nothing
=============================================================================
