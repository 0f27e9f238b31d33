----------------------------- MODULE ProgramProofs -----------------------------
(***************************************************************************)
(* Proofs about ExtDeps, AccessorChain and Samples, for any set of targets *)
(* with any requirements, any texts and arguments, any identifiers, and    *)
(* any number of events.                                                   *)
(***************************************************************************)
EXTENDS ExtDeps, AccessorChain, Samples, FiniteSetTheorems, SequenceTheorems, TLAPS

(* The dependency installer. *)

Hashed == (Texts \X Args) \cup {Nothing}

DepsType ==
    /\ text \in [Targets -> Texts]
    /\ built \in [Targets -> Hashed]
    /\ marker \in [Targets -> Hashed]
    /\ edited \in [Targets -> Hashed]
    /\ toolAt \in {"target", "script", "open", "mark"} => args \in Args

\* A marker is of what is installed, or of a script that was edited while it ran,
\* unless the files were touched since.  While a script runs the hash is that of its
\* text as long as nobody edits it, and then that of what it installed.
HashInv ==
    /\ \A t \in Targets \ stale : marker[t] # Nothing =>
          built[t] # Nothing /\ marker[t] \in {built[t], edited[t]}
    /\ \A t \in Targets : toolAt \in {"script", "open", "mark"} /\ t = Target =>
          hsum \in Texts \X Args
    /\ \A t \in Targets : toolAt = "script" /\ t = Target => changed \/ hsum = Hash(t)
    /\ \A t \in Targets : toolAt \in {"open", "mark"} /\ t = Target =>
          built[t] # Nothing /\ (changed \/ built[t] = hsum)

Ready(t) == t \in stale \/ built[t] # Nothing

\* In a run of all targets, each one still to come requires only itself, what is ready,
\* or what comes before it.
OrderInv ==
    toolAt \in {"target", "script", "open", "mark"} /\ full =>
        /\ todo \in Seq(Targets)
        /\ toolAt # "target" => todo # <<>>
        /\ \A i \in 1..Len(todo) : \A t \in Requires[todo[i]] \ {todo[i]} :
              Ready(t) \/ \E j \in 1..(i - 1) : todo[j] = t

DepsInv == DepsType /\ HashInv

LEMMA DepsInvInit == DepsInit => DepsInv
BY DEF DepsInit, DepsInv, DepsType, HashInv, Hashed

LEMMA DepsInvStep == DepsInv /\ [DepsNext]_depsVars => DepsInv'
<1> SUFFICES ASSUME DepsInv, [DepsNext]_depsVars PROVE DepsInv'
    OBVIOUS
<1> USE NothingAssumption
    DEF DepsInv, DepsType, HashInv, Hashed, Hash, Target, onDisk, run
<1>1. CASE Runs
    BY <1>1 DEF Runs
<1>2. CASE Skips
    BY <1>2 DEF Skips
<1>3. CASE Hashes
    BY <1>3 DEF Hashes
<1>4. CASE Overwrites
    BY <1>4 DEF Overwrites
<1>5. CASE Installs
  <2>1. PICK x \in Texts : /\ changed \/ x = text[Target]
                           /\ built' = [built EXCEPT ![Target] = <<x, args>>]
    BY <1>5 DEF Installs
  <2>2. /\ toolAt = "script" /\ toolAt' = "open" /\ built[Target] = Nothing
        /\ UNCHANGED <<text, marker, edited, stale, args, hsum, changed>>
        /\ Target' = Target
    BY <1>5 DEF Installs
  <2>3. <<x, args>> \in Texts \X Args /\ <<x, args>> # Nothing
    BY <2>2
  <2>4. /\ built' \in [Targets -> Hashed]
        /\ \A t \in Targets : t # Target => built'[t] = built[t]
        /\ \A t \in Targets : t = Target => built'[t] = <<x, args>>
    BY <2>1, <2>3
  <2>5. \A t \in Targets \ stale : marker[t] # Nothing => t # Target
    BY <2>2
  <2> HIDE DEF Target
  <2>6. QED
    BY <2>1, <2>2, <2>3, <2>4, <2>5
<1>6. CASE ScriptFails \/ Finishes \/ EndsRemoval \/ Killed
    BY <1>6 DEF ScriptFails, Finishes, EndsRemoval, Killed, Quits
<1>7. CASE Opened
    BY <1>7 DEF Opened
<1>8. CASE Marks
    BY <1>8 DEF Marks, HashBefore
<1>9. CASE BeginsRemoval
    BY <1>9 DEF BeginsRemoval
<1>10. ASSUME NEW u \in Targets, DeletesFiles(u) PROVE DepsInv'
    BY <1>10 DEF DeletesFiles
<1>11. ASSUME NEW u \in Targets, DeletesMarker(u) PROVE DepsInv'
    BY <1>11 DEF DeletesMarker
<1>12. ASSUME NEW u \in Targets, EditsScript(u) PROVE DepsInv'
    BY <1>12 DEF EditsScript
<1>13. CASE UNCHANGED depsVars
    BY <1>13 DEF depsVars
<1>14. QED
    BY <1>1, <1>2, <1>3, <1>4, <1>5, <1>6, <1>7, <1>8, <1>9, <1>10, <1>11, <1>12, <1>13
    DEF DepsNext

\* A target that a run would skip is installed from its present script with the
\* arguments of the run, whatever was run, killed, edited or set back before; except
\* after a script that was edited while it ran, or one or a removal that was
\* interrupted, which the property names.
THEOREM SkippedCorrect == DepsSpec => []SkippedIsInstalled
<1>1. DepsInv => SkippedIsInstalled
  <2> SUFFICES ASSUME DepsInv, toolAt = "target", NEW t \in Targets \ stale, UpToDate(t)
               PROVE  Hash(t) \in {built[t], edited[t]}
      BY DEF SkippedIsInstalled
  <2>1. Hash(t) \in Texts \X Args
    BY DEF DepsInv, DepsType, Hash
  <2>2. marker[t] # Nothing
    BY <2>1, NothingAssumption DEF UpToDate
  <2>3. QED
    BY <2>2 DEF DepsInv, HashInv, UpToDate
<1>2. QED
    BY DepsInvInit, DepsInvStep, <1>1, PTL DEF DepsSpec

\* A sequence without repetition of all of a finite set.
LEMMA AllListed ==
    ASSUME NEW S, IsFiniteSet(S), NEW s \in SetToSeqs(S)
    PROVE  /\ s \in Seq(S)
           /\ \A x \in S : \E i \in 1..Len(s) : s[i] = x
<1> DEFINE n == Cardinality(S)
<1>1. n \in Nat
    BY FS_CardinalityType
<1>2. s \in [1..n -> S] /\ \A i, j \in 1..n : i # j => s[i] # s[j]
    BY DEF SetToSeqs
<1>3. s \in Injection(1..n, S)
    BY <1>2 DEF Injection, IsInjective
<1>4. Cardinality(1..n) = n
    BY <1>1, FS_Interval
<1>5. s \in Surjection(1..n, S)
    BY <1>3, <1>4, FS_Injection
<1>6. s \in Seq(S) /\ Len(s) = n
    BY <1>1, <1>2
<1>7. QED
    BY <1>5, <1>6 DEF Surjection

\* An order of the targets has what a target requires before it.
LEMMA OrderFacts ==
    ASSUME NEW o \in Orders
    PROVE  /\ o \in Seq(Targets)
           /\ \A i \in 1..Len(o) : \A t \in Requires[o[i]] \ {o[i]} :
                 \E j \in 1..(i - 1) : o[j] = t
<1>1. PICK s \in Sorted, p \in Others : o = Reverse(s) \o p
    BY DEF Orders
<1> DEFINE n == Len(s)
<1>2. IsFiniteSet(Mentioned) /\ IsFiniteSet(Targets \ Mentioned)
    BY RequiresAssumption, FS_Subset DEF Mentioned
<1>3. /\ s \in Seq(Mentioned)
      /\ \A x \in Mentioned : \E i \in 1..n : s[i] = x
      /\ \A i, j \in DOMAIN s : s[j] \in Requires[s[i]] => i <= j
    BY <1>2, AllListed DEF Sorted
<1>4. p \in Seq(Targets \ Mentioned)
    BY <1>2, AllListed DEF Others
<1>5. n \in Nat /\ DOMAIN s = 1..n
    BY <1>3
<1>6. Reverse(s) = [i \in 1..n |-> s[(n - i) + 1]]
    BY DEF Reverse
<1>7. \A i \in 1..n : (n - i) + 1 \in 1..n /\ s[(n - i) + 1] \in Targets
    BY <1>3, <1>5 DEF Mentioned
<1>8. Reverse(s) \in Seq(Targets) /\ Len(Reverse(s)) = n
    BY <1>5, <1>6, <1>7
<1>9. /\ o \in Seq(Targets) /\ Len(o) = n + Len(p)
      /\ \A i \in 1..n : o[i] = s[(n - i) + 1]
      /\ \A i \in 1..Len(o) : i > n => o[i] \in Targets \ Mentioned
    BY <1>1, <1>4, <1>5, <1>6, <1>8
<1>10. ASSUME NEW i \in 1..Len(o), NEW t \in Requires[o[i]] \ {o[i]}
       PROVE  \E j \in 1..(i - 1) : o[j] = t
  <2>1. o[i] \in Targets /\ t \in Targets
    BY <1>9, RequiresAssumption
  <2>2. o[i] \in Mentioned /\ t \in Mentioned
    BY <2>1 DEF Mentioned
  <2>3. i \in 1..n
    BY <1>5, <1>9, <2>2
  <2>4. PICK k \in 1..n : s[k] = t
    BY <1>3, <2>2
  <2>5. (n - i) + 1 \in DOMAIN s /\ s[(n - i) + 1] = o[i]
    BY <1>5, <1>7, <1>9, <2>3
  <2>6. (n - i) + 1 <= k /\ (n - i) + 1 # k
    BY <1>3, <1>5, <2>4, <2>5
  <2>7. (n - k) + 1 \in 1..(i - 1) /\ o[(n - k) + 1] = s[(n - ((n - k) + 1)) + 1]
    BY <1>5, <1>9, <2>3, <2>4, <2>6
  <2>8. (n - ((n - k) + 1)) + 1 = k
    BY <1>5, <2>4
  <2>9. QED
    BY <2>4, <2>7, <2>8
<1>11. QED
    BY <1>9, <1>10

\* The first target leaves the list once it is ready.
LEMMA NextTarget ==
    ASSUME OrderInv, toolAt \in {"target", "script", "open", "mark"}, full, todo # <<>>,
           Ready(Head(todo)), todo' = Tail(todo), toolAt' = "target",
           UNCHANGED <<built, stale, full>>
    PROVE  OrderInv'
<1>1. todo \in Seq(Targets)
    BY DEF OrderInv
<1>2. /\ Tail(todo) \in Seq(Targets) /\ Len(Tail(todo)) = Len(todo) - 1
      /\ \A i \in 1..(Len(todo) - 1) : Tail(todo)[i] = todo[i + 1]
      /\ Head(todo) = todo[1] /\ Len(todo) \in Nat
    BY <1>1
<1>3. ASSUME NEW i \in 1..Len(todo'), NEW t \in Requires[todo'[i]] \ {todo'[i]}
      PROVE  Ready(t) \/ \E j \in 1..(i - 1) : todo'[j] = t
  <2>1. i + 1 \in 1..Len(todo) /\ todo'[i] = todo[i + 1]
    BY <1>2
  <2>2. CASE Ready(t)
    BY <2>2
  <2>3. CASE \E j \in 1..i : todo[j] = t
    <3>1. PICK j \in 1..i : todo[j] = t
      BY <2>3
    <3>2. CASE j = 1
      BY <1>2, <3>1, <3>2
    <3>3. CASE j # 1
      <4>1. j - 1 \in 1..(i - 1) /\ j - 1 \in 1..(Len(todo) - 1) /\ (j - 1) + 1 = j
        BY <1>2, <2>1, <3>1, <3>3
      <4>2. todo'[j - 1] = t
        BY <1>2, <3>1, <4>1
      <4>3. QED
        BY <4>1, <4>2
    <3>4. QED
      BY <3>2, <3>3
  <2>4. t \in Requires[todo[i + 1]] \ {todo[i + 1]} /\ (i + 1) - 1 = i
    BY <1>2, <2>1
  <2>5. Ready(t) \/ \E j \in 1..((i + 1) - 1) : todo[j] = t
    BY <2>1, <2>4 DEF OrderInv
  <2>6. QED
    BY <2>2, <2>3, <2>4, <2>5
<1>4. QED
    BY <1>2, <1>3 DEF OrderInv, Ready

\* No other step takes away what is ready, other than the first target itself.
LEMMA StillReady ==
    ASSUME OrderInv, toolAt \in {"target", "script", "open", "mark"},
           todo' = todo, full' = full, toolAt' # "target" => todo # <<>> \/ ~full,
           \A t \in Targets : Ready(t) => Ready(t)' \/ t = Head(todo)
    PROVE  OrderInv'
<1> SUFFICES ASSUME toolAt' \in {"target", "script", "open", "mark"}, full
             PROVE  OrderInv'
    BY DEF OrderInv
<1>1. todo \in Seq(Targets)
    BY DEF OrderInv
<1>2. \A i \in 1..Len(todo) : Requires[todo[i]] \subseteq Targets
    BY <1>1, RequiresAssumption
<1>3. ASSUME NEW i \in 1..Len(todo), NEW t \in Requires[todo[i]] \ {todo[i]}
      PROVE  Ready(t)' \/ \E j \in 1..(i - 1) : todo[j] = t
  <2>1. t \in Targets /\ i \in Nat /\ todo[1] = Head(todo)
    BY <1>1, <1>2, <1>3
  <2>2. t = Head(todo) => i # 1 /\ 1 \in 1..(i - 1)
    BY <1>3, <2>1
  <2>3. QED
    BY <1>3, <2>1, <2>2 DEF OrderInv
<1>4. QED
    BY <1>1, <1>3 DEF OrderInv, Ready

LEMMA OrderStep == DepsInv /\ OrderInv /\ [DepsNext]_depsVars => OrderInv'
<1> SUFFICES ASSUME DepsInv, OrderInv, [DepsNext]_depsVars PROVE OrderInv'
    OBVIOUS
<1>1. CASE Runs
  <2>1. PICK order \in Orders : full' => todo' = order
    BY <1>1 DEF Runs
  <2>2. CASE full'
    <3>1. toolAt' = "target" /\ todo' = order
      BY <1>1, <2>1, <2>2 DEF Runs
    <3>2. QED
      BY <2>2, <3>1, OrderFacts DEF OrderInv
  <2>3. CASE ~full'
    BY <2>3 DEF OrderInv
  <2>4. QED
    BY <1>1, <2>2, <2>3
<1>2. CASE Skips /\ full
  <2>1. todo \in Seq(Targets) /\ todo # <<>> /\ Target \in Targets
    BY <1>2 DEF Skips, OrderInv, Target
  <2>2. Hash(Target) \in Texts \X Args
    BY <1>2, <2>1 DEF Skips, DepsInv, DepsType, Hash
  <2>3. Ready(Target)
    BY <1>2, <2>1, <2>2, NothingAssumption DEF Skips, UpToDate, DepsInv, HashInv, Ready
  <2>4. QED
    BY <1>2, <2>1, <2>3, NextTarget DEF Skips, Target, onDisk
<1>3. CASE Hashes
    BY <1>3 DEF Hashes, OrderInv, Ready, onDisk
<1>4. CASE Overwrites
  <2>1. \A t \in Targets : Ready(t) => Ready(t)' \/ t = Head(todo)
    BY <1>4 DEF Overwrites, Ready, Target, DepsInv, DepsType
  <2>2. QED
    BY <1>4, <2>1, StillReady DEF Overwrites, OrderInv, run
<1>5. CASE Installs
  <2>1. \A t \in Targets : t # Target => built'[t] = built[t]
    BY <1>5 DEF Installs, DepsInv, DepsType
  <2>2. \A t \in Targets : t = Target => built'[t] # Nothing
    BY <1>5, NothingAssumption DEF Installs, DepsInv, DepsType
  <2>3. \A t \in Targets : Ready(t) => Ready(t)'
    BY <1>5, <2>1, <2>2 DEF Installs, Ready
  <2>4. QED
    BY <1>5, <2>3, StillReady DEF Installs, OrderInv, run
<1>6. CASE ScriptFails \/ Finishes \/ EndsRemoval \/ Killed
    BY <1>6 DEF ScriptFails, Finishes, EndsRemoval, Killed, Quits, OrderInv
<1>7. CASE Opened
  <2>1. \A t \in Targets : Ready(t) => Ready(t)'
    BY <1>7 DEF Opened, Ready, DepsInv, HashInv
  <2>2. QED
    BY <1>7, <2>1, StillReady DEF Opened, OrderInv, run
<1>8. CASE Marks /\ full
  <2>1. todo \in Seq(Targets) /\ todo # <<>> /\ Target \in Targets
    BY <1>8 DEF Marks, OrderInv, Target
  <2>2. Ready(Target)
    BY <1>8, <2>1 DEF Marks, DepsInv, HashInv, Ready
  <2>3. QED
    BY <1>8, <2>1, <2>2, NextTarget DEF Marks, Target
<1>9. CASE (Skips \/ Marks) /\ ~full
    BY <1>9 DEF Skips, Marks, OrderInv
<1>10. ASSUME NEW u \in Targets, BeginsRemoval \/ DeletesFiles(u) \/ DeletesMarker(u)
       PROVE  OrderInv'
    BY <1>10 DEF BeginsRemoval, DeletesFiles, DeletesMarker, OrderInv
<1>11. ASSUME NEW u \in Targets, EditsScript(u) PROVE OrderInv'
    BY <1>11 DEF EditsScript, OrderInv, Ready, onDisk
<1>12. CASE UNCHANGED depsVars
    BY <1>12 DEF depsVars, OrderInv, Ready
<1>13. CASE BeginsRemoval
    BY <1>13 DEF BeginsRemoval, OrderInv
<1>14. QED
    BY <1>1, <1>2, <1>3, <1>4, <1>5, <1>6, <1>7, <1>8, <1>9, <1>10, <1>11, <1>12, <1>13
    DEF DepsNext

\* In a run of all targets no script runs before those it requires are installed, but
\* for those that were interrupted, which the property names.
THEOREM PrerequisitesCorrect == DepsSpec => []PrerequisitesFirst
<1>1. DepsInit => OrderInv
    BY DEF DepsInit, OrderInv
<1>2. OrderInv => PrerequisitesFirst
  <2> SUFFICES ASSUME OrderInv, toolAt = "script", full,
                      NEW t \in Requires[Target] \ (stale \cup {Target})
               PROVE  built[t] # Nothing
      BY DEF PrerequisitesFirst
  <2>1. todo \in Seq(Targets) /\ todo # <<>>
    BY DEF OrderInv
  <2>2. 1 \in 1..Len(todo) /\ Target = todo[1]
    BY <2>1 DEF Target
  <2>3. Ready(t) \/ \E j \in 1..(1 - 1) : todo[j] = t
    BY <2>2 DEF OrderInv
  <2>4. QED
    BY <2>3 DEF Ready
<1>3. QED
    BY DepsInvInit, DepsInvStep, OrderStep, <1>1, <1>2, PTL DEF DepsSpec

-----------------------------------------------------------------------------
(* The accessor chain. *)

\* What the pool of proxy p has made: the connections that the manager makes are made
\* at once, the functional pool makes its one when it is first used.
MadeFor(p) ==
    IF edition = "manager" THEN proxies[p].made = <<lastId + p>>
    ELSE proxies[p].made \in {<<>>, <<lastId>>}

ChainInv ==
    /\ edition \in {"manager", "functional"}
    /\ lastId \in Nat
    /\ proxies \in [ProxyKeys -> [id : Nat, made : Seq(Nat)]]
    /\ \A p \in ProxyKeys :
          IF lastId = 0 THEN proxies[p] = EmptyProxy
          ELSE proxies[p].id = lastId /\ MadeFor(p)
    /\ position \in {"idle", "proxy", "pool", "exclusive", "exec", "terminated"}
    /\ user \in ProxyKeys \cup {NoUser}
    /\ position \in {"proxy", "pool", "exclusive", "exec"} => user # NoUser
    /\ position \in {"pool", "exclusive", "exec"} => lastId # 0
    /\ position \in {"exclusive", "exec"} =>
          fetched = IF edition = "manager" THEN lastId + user ELSE lastId
    /\ lockables = IF position = "exec" THEN 1 ELSE 0
    /\ position = "terminated" => lastId = 0

LEMMA ChainInvInit == ChainInit => ChainInv
BY DEF ChainInit, ChainInv, ProxyKeys, EmptyProxy, NoUser, MadeFor

LEMMA ChainInvStep == ChainInv /\ [ChainNext]_chainVars => ChainInv'
<1> SUFFICES ASSUME ChainInv, [ChainNext]_chainVars PROVE ChainInv'
    OBVIOUS
<1>1. ASSUME NEW id \in Ids, ChainActivate(id) PROVE ChainInv'
  <2>1. id \in Nat /\ id # 0
    BY IdsAssumption
  <2>2. /\ proxies' = [p \in ProxyKeys |-> NewPool(id, p)] /\ lastId' = id
        /\ UNCHANGED <<edition, user, position, fetched, lockables>> /\ position = "idle"
    BY <1>1 DEF ChainActivate, UsePool, CountCall
  <2>3. ASSUME NEW p \in ProxyKeys
        PROVE  /\ NewPool(id, p) \in [id : Nat, made : Seq(Nat)]
               /\ NewPool(id, p).id = id
               /\ NewPool(id, p).made = IF edition = "manager" THEN <<id + p>> ELSE <<>>
    BY <2>1 DEF NewPool, ProxyKeys
  <2>4. QED
    BY <2>1, <2>2, <2>3 DEF ChainInv, MadeFor
<1>2. ASSUME NEW p \in ProxyKeys, GetUser(p) PROVE ChainInv'
    BY <1>2 DEF GetUser, CountCall, ChainInv, MadeFor, NoUser
<1>3. CASE DestroyManager
  <2>1. EmptyProxy \in [id : Nat, made : Seq(Nat)]
    BY DEF EmptyProxy
  <2>2. QED
    BY <1>3, <2>1 DEF DestroyManager, CountCall, UsePool, ChainInv
<1>4. CASE CallF
    BY <1>4 DEF CallF, CountCall, ChainInv, MadeFor
<1>5. CASE ProxyArrow
  <2>1. user \in ProxyKeys
    BY <1>5 DEF ProxyArrow, ChainInv
  <2>2. proxies[user] = EmptyProxy <=> lastId = 0
    BY <2>1 DEF ChainInv, EmptyProxy
  <2>3. QED
    BY <1>5, <2>1, <2>2 DEF ProxyArrow, ChainSame, ChainInv, MadeFor
<1>6. CASE PoolArrow
  <2> DEFINE made == IF proxies[user].made = <<>> THEN <<proxies[user].id>>
                     ELSE proxies[user].made
  <2>1. /\ position = "pool" /\ position' = "exclusive"
        /\ proxies' = [proxies EXCEPT ![user].made = made] /\ fetched' = Head(made)
        /\ UNCHANGED <<edition, user, lastId, lockables>>
    BY <1>6 DEF PoolArrow, ChainSame
  <2>2. /\ user \in ProxyKeys /\ lastId # 0 /\ lastId \in Nat /\ user \in Nat
        /\ proxies[user].id = lastId /\ MadeFor(user)
    BY <2>1 DEF ChainInv, ProxyKeys
  <2>3. made = IF edition = "manager" THEN <<lastId + user>> ELSE <<lastId>>
    BY <2>2 DEF MadeFor
  <2>4. made \in Seq(Nat) /\ Head(made) = IF edition = "manager" THEN lastId + user ELSE lastId
    <3> HIDE DEF made
    <3>1. CASE edition = "manager"
      <4>1. made = <<lastId + user>> /\ lastId + user \in Nat
        BY <2>2, <2>3, <3>1
      <4>2. QED
        BY <3>1, <4>1
    <3>2. CASE edition # "manager"
      <4>1. made = <<lastId>>
        BY <2>3, <3>2
      <4>2. QED
        BY <2>2, <3>2, <4>1
    <3>3. QED
      BY <3>1, <3>2
  <2> HIDE DEF made
  <2>5. /\ proxies' \in [ProxyKeys -> [id : Nat, made : Seq(Nat)]]
        /\ \A p \in ProxyKeys : proxies'[p].id = proxies[p].id
        /\ \A p \in ProxyKeys : proxies'[p].made = IF p = user THEN made ELSE proxies[p].made
    BY <2>1, <2>2, <2>4 DEF ChainInv
  <2>6. \A p \in ProxyKeys : MadeFor(p)'
    BY <2>1, <2>2, <2>3, <2>5 DEF MadeFor, ChainInv
  <2>7. QED
    BY <2>1, <2>2, <2>4, <2>5, <2>6 DEF ChainInv
<1>7. CASE ExclusiveArrow
    BY <1>7 DEF ExclusiveArrow, ChainSame, ChainInv, MadeFor
<1>8. CASE ExecOnDb
    BY <1>8 DEF ExecOnDb, ChainSame, ChainInv, MadeFor
<1>9. CASE UNCHANGED chainVars
    BY <1>9 DEF chainVars, ChainInv, MadeFor
<1>10. QED
    BY <1>1, <1>2, <1>3, <1>4, <1>5, <1>6, <1>7, <1>8, <1>9 DEF ChainNext

\* A user queries the database activated last, under one lock, and is refused only if
\* none is active.
THEOREM ChainCorrect == ChainSpec => []QueriesActiveDb
<1>1. ChainInv => QueriesActiveDb
    BY DEF ChainInv, QueriesActiveDb
<1>2. QED
    BY ChainInvInit, ChainInvStep, <1>1, PTL DEF ChainSpec

-----------------------------------------------------------------------------
(* The samples.                                                             *)

\* The calls of the tables: a call needs, checks and releases things with a name.
Ops == {"make", "check", "inverted", "deref", "free", "loop", "unset"}
Owners == {"sdl", "window", "display", "glfw"}
Names == Owners \cup
    {"window2", "screen", "xwindow", "grab", "glfwwindow", "surface", "renderer",
     "mode", "closest", "wminfo", "context", "quadric", "watch", "context2", "cg",
     "effect", "vbo", "img", "loaded", "image", "texture", "ttf", "font", "cairo",
     "connection", "proxy", "names", "config", "db", "schema", "db2", "rows1", "rows2", "event",
     "wait", "poll", "poll_break", "poll_last", "watched", "count", "forever", "once"}
Calls == [op : Ops, res : Names, needs : SUBSET Names, then : SUBSET Names]
KindOf(O) == {c \in Calls : c.op \in O}

\* What a call releases, and what must not have been released before it.
Releases(c) == IF c.op = "free" THEN {c.res} \cup Owned(c.res) ELSE {}
Touches(c) == c.needs \cup (IF c.op = "free" THEN {c.res} ELSE {})
InOrder ==
    {p \in Seq(Calls) : \A i, j \in 1..Len(p) :
        i < j => Releases(p[i]) \cap Touches(p[j]) = {}}
\* ... and releases nothing but what is in R
Orderly(R) == {p \in InOrder : \A i \in 1..Len(p) : Releases(p[i]) \subseteq R}

\* Whatever is dereferenced has been checked, and not been made anew since.
MadeIn(x, p, i, j) == \E k \in 1..Len(p) : i < k /\ k < j /\ p[k].op = "make" /\ p[k].res = x
CheckedBefore(x, p, j) ==
    \E i \in 1..Len(p) :
        i < j /\ p[i].op = "check" /\ p[i].res = x /\ ~MadeIn(x, p, i, j)
Guarded ==
    {p \in Seq(Calls) : \A j \in 1..Len(p) :
        p[j].op = "deref" => \A x \in p[j].needs : CheckedBefore(x, p, j)}
Checked(x) == {p \in Guarded : CheckedBefore(x, p, Len(p) + 1)}

\* The failure of whatever is made is noticed later: by its check, or by what is to
\* be made from it.
Catches(x, c) ==
    \/ c.op = "check" /\ c.res = x
    \/ c.op = "make" /\ x \in c.needs
Caught ==
    {p \in Seq(Calls) : \A i \in 1..Len(p) :
        p[i].op = "make" => \E j \in 1..Len(p) : i < j /\ Catches(p[i].res, p[j])}
\* ... but for x, which nothing has noticed yet
Pending(x) ==
    {p \in Seq(Calls) : \A i \in 1..Len(p) :
        p[i].op = "make" => \/ p[i].res = x
                            \/ \E j \in 1..Len(p) : i < j /\ Catches(p[i].res, p[j])}

\* What the constructors of the tables yield.
LEMMA OneCall ==
    ASSUME NEW o \in Ops, NEW r \in Names, NEW n \in SUBSET Names, NEW t \in SUBSET Names
    PROVE  \E c \in Calls : /\ Call(o, r, n, t) = <<c>>
                            /\ c.op = o /\ c.res = r /\ c.needs = n /\ c.then = t
<1> DEFINE c == [op |-> o, res |-> r, needs |-> n, then |-> t]
<1>1. c \in Calls /\ c.op = o /\ c.res = r /\ c.needs = n /\ c.then = t
  BY DEF Calls
<1>2. QED
  BY <1>1 DEF Call

\* A sequence with one more call at its end.
LEMMA LastCall ==
    ASSUME NEW p \in Seq(Calls), NEW c \in Calls
    PROVE  /\ p \o <<c>> \in Seq(Calls) /\ Len(p) \in Nat
           /\ Len(p \o <<c>>) = Len(p) + 1
           /\ \A i \in 1..Len(p) : i \in 1..Len(p \o <<c>>) /\ (p \o <<c>>)[i] = p[i]
           /\ (p \o <<c>>)[Len(p) + 1] = c
           /\ \A i \in 1..Len(p \o <<c>>) : i \in 1..Len(p) \/ i = Len(p) + 1
           /\ \A i \in 1..Len(p) : i < Len(p) + 1
           /\ Len(p) + 1 \in 1..Len(p \o <<c>>)
  OBVIOUS

\* A call behind an orderly sequence leaves it orderly if it touches nothing released.
LEMMA OrderlyAppend ==
    ASSUME NEW R, NEW p \in Orderly(R), NEW c \in Calls, \A x \in Touches(c) : x \notin R
    PROVE  p \o <<c>> \in Orderly(R \cup Releases(c))
<1> DEFINE s == p \o <<c>>
           n == Len(p)
<1>1. p \in Seq(Calls)
  BY DEF Orderly, InOrder
<1>2. /\ s \in Seq(Calls) /\ n \in Nat /\ Len(s) = n + 1
      /\ \A i \in 1..n : s[i] = p[i]
      /\ s[n + 1] = c
      /\ \A i \in 1..Len(s) : i \in 1..n \/ i = n + 1
  BY <1>1, LastCall
<1> HIDE DEF s, n
<1>3. /\ \A i \in 1..n : Releases(p[i]) \subseteq R
      /\ \A i, j \in 1..n : i < j => Releases(p[i]) \cap Touches(p[j]) = {}
  BY DEF Orderly, InOrder, n
<1>4. \A i \in 1..Len(s) : Releases(s[i]) \subseteq R \cup Releases(c)
  BY <1>2, <1>3
<1>5. ASSUME NEW i \in 1..Len(s), NEW j \in 1..Len(s), i < j
      PROVE  Releases(s[i]) \cap Touches(s[j]) = {}
  <2>1. i \in 1..n
    BY <1>2, <1>5
  <2>2. CASE j \in 1..n
    BY <1>2, <1>3, <1>5, <2>1, <2>2
  <2>3. CASE j = n + 1
    BY <1>2, <1>3, <2>1, <2>3
  <2>4. QED
    BY <1>2, <2>2, <2>3
<1>6. QED
  BY <1>2, <1>4, <1>5 DEF Orderly, InOrder, s

\* The same for what is dereferenced, and for what has been checked.
LEMMA GuardedAppend ==
    ASSUME NEW p \in Guarded, NEW c \in Calls,
           c.op = "deref" => \A x \in c.needs : p \in Checked(x)
    PROVE  /\ p \o <<c>> \in Guarded
           /\ c.op = "check" => p \o <<c>> \in Checked(c.res)
           /\ \A x : p \in Checked(x) /\ ~(c.op = "make" /\ c.res = x)
                 => p \o <<c>> \in Checked(x)
<1> DEFINE s == p \o <<c>>
           n == Len(p)
<1>1. p \in Seq(Calls)
  BY DEF Guarded
<1>2. /\ s \in Seq(Calls) /\ n \in Nat /\ Len(s) = n + 1
      /\ \A i \in 1..n : i \in 1..Len(s) /\ s[i] = p[i] /\ i < n + 1
      /\ s[n + 1] = c /\ n + 1 \in 1..Len(s)
      /\ \A i \in 1..Len(s) : i \in 1..n \/ i = n + 1
  BY <1>1, LastCall
<1> HIDE DEF s, n
<1>3. ASSUME NEW x, NEW j \in 1..(n + 1), CheckedBefore(x, p, j)
      PROVE  CheckedBefore(x, s, j)
  <2>1. PICK i \in 1..n :
           i < j /\ p[i].op = "check" /\ p[i].res = x /\ ~MadeIn(x, p, i, j)
    BY <1>3 DEF CheckedBefore, n
  <2>2. ~MadeIn(x, s, i, j)
    <3>1. SUFFICES ASSUME NEW k \in 1..Len(s), i < k, k < j, s[k].op = "make", s[k].res = x
                   PROVE  FALSE
      BY DEF MadeIn
    <3>2. k \in 1..n
      BY <1>2, <3>1
    <3>3. QED
      BY <1>2, <2>1, <3>1, <3>2 DEF MadeIn, n
  <2>3. QED
    BY <1>2, <2>1, <2>2 DEF CheckedBefore
<1>4. s \in Guarded
  <2>1. SUFFICES ASSUME NEW j \in 1..Len(s), s[j].op = "deref", NEW x \in s[j].needs
                 PROVE  CheckedBefore(x, s, j)
    BY <1>2 DEF Guarded
  <2>2. CASE j \in 1..n
    <3>1. CheckedBefore(x, p, j)
      BY <1>2, <2>1, <2>2 DEF Guarded, n
    <3>2. QED
      BY <1>2, <1>3, <2>2, <3>1
  <2>3. CASE j = n + 1
    <3>1. CheckedBefore(x, p, n + 1)
      BY <1>2, <2>1, <2>3 DEF Checked, n
    <3>2. QED
      BY <1>2, <1>3, <2>3, <3>1
  <2>4. QED
    BY <1>2, <2>2, <2>3
<1>5. ASSUME c.op = "check" PROVE s \in Checked(c.res)
  <2>1. ~MadeIn(c.res, s, n + 1, Len(s) + 1)
    BY <1>2 DEF MadeIn
  <2>2. CheckedBefore(c.res, s, Len(s) + 1)
    BY <1>2, <1>5, <2>1 DEF CheckedBefore
  <2>3. QED
    BY <1>4, <2>2 DEF Checked
<1>6. ASSUME NEW x, p \in Checked(x), ~(c.op = "make" /\ c.res = x)
      PROVE  s \in Checked(x)
  <2>1. PICK i \in 1..n : /\ p[i].op = "check" /\ p[i].res = x
                          /\ ~MadeIn(x, p, i, n + 1)
    BY <1>6 DEF Checked, CheckedBefore, n
  <2>2. ~MadeIn(x, s, i, Len(s) + 1)
    <3>1. SUFFICES ASSUME NEW k \in 1..Len(s), i < k, s[k].op = "make", s[k].res = x
                   PROVE  FALSE
      BY DEF MadeIn
    <3>2. k \in 1..n
      BY <1>2, <1>6, <3>1
    <3>3. QED
      BY <1>2, <2>1, <3>1, <3>2 DEF MadeIn, n
  <2>3. CheckedBefore(x, s, Len(s) + 1)
    BY <1>2, <2>1, <2>2 DEF CheckedBefore
  <2>4. QED
    BY <1>4, <2>3 DEF Checked
<1>7. QED
  BY <1>4, <1>5, <1>6 DEF s

\* The same for what is noticed: a check, or a creation from it, notices x.
LEMMA CaughtAppend ==
    ASSUME NEW x, NEW p \in Pending(x), NEW c \in Calls
    PROVE  /\ c.op # "make" => p \o <<c>> \in Pending(x)
           /\ Catches(x, c) \/ p \in Caught => c.op = "make" \/ p \o <<c>> \in Caught
           /\ Catches(x, c) \/ p \in Caught => p \o <<c>> \in Pending(c.res)
<1> DEFINE s == p \o <<c>>
           n == Len(p)
<1>1. p \in Seq(Calls)
  BY DEF Pending
<1>2. /\ s \in Seq(Calls) /\ n \in Nat /\ Len(s) = n + 1
      /\ \A i \in 1..n : i \in 1..Len(s) /\ s[i] = p[i] /\ i < n + 1
      /\ s[n + 1] = c /\ n + 1 \in 1..Len(s)
      /\ \A i \in 1..Len(s) : i \in 1..n \/ i = n + 1
  BY <1>1, LastCall
<1> HIDE DEF s, n
<1>3. ASSUME NEW i \in 1..n, \E j \in 1..n : i < j /\ Catches(p[i].res, p[j])
      PROVE  \E j \in 1..Len(s) : i < j /\ Catches(s[i].res, s[j])
  BY <1>2, <1>3
<1>4. \A i \in 1..n : p[i].op = "make" =>
          p[i].res = x \/ \E j \in 1..n : i < j /\ Catches(p[i].res, p[j])
  BY DEF Pending, n
<1>5. c.op # "make" => s \in Pending(x)
  BY <1>2, <1>3, <1>4 DEF Pending
<1>6. ASSUME Catches(x, c), NEW i \in 1..n, p[i].op = "make"
      PROVE  \E j \in 1..Len(s) : i < j /\ Catches(s[i].res, s[j])
  BY <1>2, <1>3, <1>4, <1>6
<1>7. ASSUME p \in Caught, NEW i \in 1..n, p[i].op = "make"
      PROVE  \E j \in 1..Len(s) : i < j /\ Catches(s[i].res, s[j])
  BY <1>3, <1>7 DEF Caught, n
<1>8. Catches(x, c) \/ p \in Caught => c.op = "make" \/ s \in Caught
  BY <1>2, <1>6, <1>7 DEF Caught
<1>9. Catches(x, c) \/ p \in Caught => s \in Pending(c.res)
  BY <1>2, <1>6, <1>7 DEF Pending
<1>10. QED
  BY <1>5, <1>8, <1>9 DEF s

Keeping == Ops \ {"free"}
Plain == Ops \ {"deref", "inverted"}
Steady == Ops \ {"inverted", "unset"}

\* A sequence of calls of given kinds, put together from single calls.
LEMMA Pieces ==
    ASSUME NEW O \in SUBSET Ops
    PROVE  /\ \A s1, s2 \in Seq(KindOf(O)) : s1 \o s2 \in Seq(KindOf(O))
           /\ "unset" \in O => UnsetEvent \in Seq(KindOf(O))
           /\ \A r \in Names :
                 /\ "deref" \in O => Deref(r) \in Seq(KindOf(O))
                 /\ "free" \in O => Free(r) \in Seq(KindOf(O))
                 /\ \A n \in SUBSET Names :
                       /\ "make" \in O => Make(r, n) \in Seq(KindOf(O))
                       /\ "check" \in O => Check(r, n) \in Seq(KindOf(O))
                       /\ "inverted" \in O => CheckInverted(r, n) \in Seq(KindOf(O))
                       /\ "loop" \in O => Loop(r, n) \in Seq(KindOf(O))
<1>1. ASSUME NEW o \in O, NEW r \in Names, NEW n \in SUBSET Names, NEW t \in SUBSET Names
      PROVE  Call(o, r, n, t) \in Seq(KindOf(O))
  <2>1. PICK c \in Calls : Call(o, r, n, t) = <<c>> /\ c.op = o
    BY OneCall
  <2>2. c \in KindOf(O)
    BY <2>1 DEF KindOf
  <2>3. QED
    BY <2>1, <2>2
<1>2. "event" \in Names /\ {} \in SUBSET Names
  BY DEF Names
<1>3. \A s1, s2 \in Seq(KindOf(O)) : s1 \o s2 \in Seq(KindOf(O))
  OBVIOUS
<1>4. \A r \in Names : {r} \in SUBSET Names
  OBVIOUS
<1>5. QED
  BY <1>1, <1>2, <1>3, <1>4 DEF Make, Check, CheckInverted, Deref, Free, Loop, UnsetEvent

\* Sequences that release nothing are orderly.
Keep == Seq(KindOf(Keeping))

LEMMA KeepFacts ==
    /\ \A s1, s2 \in Keep : s1 \o s2 \in Keep
    /\ UnsetEvent \in Keep
    /\ \A r \in Names : Deref(r) \in Keep
    /\ \A r \in Names, n \in SUBSET Names :
          /\ Make(r, n) \in Keep /\ Loop(r, n) \in Keep
          /\ Check(r, n) \in Keep /\ CheckInverted(r, n) \in Keep
    /\ \A p \in Keep : p \in Orderly({})
<1>1. ASSUME NEW p \in Keep PROVE p \in Orderly({})
  <2>1. p \in Seq(Calls) /\ \A i \in 1..Len(p) : p[i].op # "free"
    BY DEF Keep, KindOf, Keeping
  <2>2. \A i \in 1..Len(p) : Releases(p[i]) = {}
    BY <2>1 DEF Releases
  <2>3. QED
    BY <2>1, <2>2 DEF Orderly, InOrder
<1>2. QED
  BY <1>1, Pieces DEF Keep, Keeping, Ops

\* What goes with each owner.
LEMMA OwnedFacts ==
    /\ Owned("sdl") = {"window", "window2", "screen"}
    /\ Owned("window") = {"screen"}
    /\ Owned("display") = {"xwindow", "grab"}
    /\ Owned("glfw") = {"glfwwindow"}
    /\ \A r \in Names \ Owners : Owned(r) = {}
  BY DEF Owned, Owners

\* A release at the end, of what has not been released.
LEMMA FreeLast ==
    ASSUME NEW R, NEW p \in Orderly(R), NEW r \in Names, r \notin R
    PROVE  /\ p \o Free(r) \in Orderly(R \cup ({r} \cup Owned(r)))
           /\ r \notin Owners => p \o Free(r) \in Orderly(R \cup {r})
           /\ p \o Free(r) \in InOrder
<1>1. PICK c \in Calls : /\ Free(r) = <<c>>
                         /\ c.op = "free" /\ c.res = r /\ c.needs = {}
  <2>1. "free" \in Ops /\ {} \in SUBSET Names
    BY DEF Ops
  <2>2. QED
    BY <2>1, OneCall DEF Free
<1>2. Releases(c) = {r} \cup Owned(r) /\ \A x \in Touches(c) : x \notin R
  BY <1>1 DEF Releases, Touches
<1>3. p \o Free(r) \in Orderly(R \cup ({r} \cup Owned(r)))
  BY <1>1, <1>2, OrderlyAppend
<1>4. r \notin Owners => {r} \cup Owned(r) = {r}
  BY OwnedFacts
<1>5. QED
  BY <1>3, <1>4 DEF Orderly

\* Any other call at the end, if what it needs has not been released.
LEMMA UseLast ==
    ASSUME NEW R, NEW p \in Orderly(R), NEW r \in Names, NEW n \in SUBSET Names
    PROVE  /\ (\A x \in n : x \notin R) => p \o Loop(r, n) \in Orderly(R)
           /\ (\A x \in n : x \notin R) => p \o Make(r, n) \in Orderly(R)
           /\ p \o Check(r, n) \in Orderly(R)
           /\ r \notin R => p \o Deref(r) \in Orderly(R)
           /\ p \o UnsetEvent \in Orderly(R)
<1>1. ASSUME NEW o \in {"make", "check", "deref", "loop", "unset"},
             NEW y \in Names, NEW m \in SUBSET Names, NEW t \in SUBSET Names,
             \A x \in m : x \notin R
      PROVE  p \o Call(o, y, m, t) \in Orderly(R)
  <2>1. o \in Ops /\ o # "free"
    BY DEF Ops
  <2>2. PICK c \in Calls : Call(o, y, m, t) = <<c>> /\ c.op = o /\ c.needs = m
    BY <2>1, OneCall
  <2>3. Releases(c) = {} /\ \A x \in Touches(c) : x \notin R
    BY <1>1, <2>1, <2>2 DEF Releases, Touches
  <2>4. R \cup Releases(c) = R
    BY <2>3
  <2>5. QED
    BY <2>2, <2>3, <2>4, OrderlyAppend
<1>2. "event" \in Names /\ {} \in SUBSET Names /\ {r} \in SUBSET Names
  BY DEF Names
<1>3. QED
  BY <1>1, <1>2 DEF Make, Check, Deref, Loop, UnsetEvent

\* The calls that the tables share, as single calls behind a sequence.
LEMMA Segments ==
    ASSUME NEW p \in Seq(Calls)
    PROVE  /\ p \o EndWindow = (p \o Free("window")) \o Free("sdl")
           /\ p \o Convert = ((p \o Deref("screen")) \o Make("image", {"loaded", "screen"}))
                                \o Free("loaded")
           /\ p \o Text = ((p \o Make("surface", {"font"}))
                              \o Make("texture", {"renderer", "surface"})) \o Free("surface")
           /\ \A r \in Names :
                 p \o Slowread(r) = (p \o Make(r, {"db2"})) \o Check(r, {})
<1>1. ASSUME NEW s \in Seq(Calls), NEW t \in Seq(Calls)
      PROVE  p \o (s \o t) = (p \o s) \o t
  BY <1>1, ConcatAssociative, SMTT(20)
<1>2. ASSUME NEW s \in Seq(Calls), NEW t \in Seq(Calls), NEW u \in Seq(Calls)
      PROVE  p \o ((s \o t) \o u) = ((p \o s) \o t) \o u
  <2> DEFINE v == s \o t
  <2>1. v \in Seq(Calls)
    OBVIOUS
  <2>2. p \o v = (p \o s) \o t
    BY <1>1
  <2> HIDE DEF v
  <2>3. p \o (v \o u) = (p \o v) \o u
    BY <1>1, <2>1
  <2>4. QED
    BY <2>2, <2>3 DEF v
<1>3. KindOf(Ops) = Calls
  BY DEF KindOf, Calls
<1>4. /\ \A r \in Names : Free(r) \in Seq(Calls) /\ Deref(r) \in Seq(Calls)
      /\ \A r \in Names, n \in SUBSET Names :
            Make(r, n) \in Seq(Calls) /\ Check(r, n) \in Seq(Calls)
  BY <1>3, Pieces DEF Ops
<1>5. /\ {"window", "sdl", "screen", "image", "loaded", "surface", "texture"} \subseteq Names
      /\ {"loaded", "screen"} \in SUBSET Names /\ {"font"} \in SUBSET Names
      /\ {"renderer", "surface"} \in SUBSET Names /\ {"db2"} \in SUBSET Names
      /\ {} \in SUBSET Names
  BY DEF Names, Owners
<1>6. p \o EndWindow = (p \o Free("window")) \o Free("sdl")
  <2>1. Free("window") \in Seq(Calls) /\ Free("sdl") \in Seq(Calls)
    BY <1>4, <1>5
  <2>2. QED
    BY <1>1, <2>1 DEF EndWindow
<1>7. p \o Convert = ((p \o Deref("screen")) \o Make("image", {"loaded", "screen"}))
                         \o Free("loaded")
  <2> DEFINE s == Deref("screen")
             t == Make("image", {"loaded", "screen"})
             u == Free("loaded")
  <2>1. s \in Seq(Calls) /\ t \in Seq(Calls) /\ u \in Seq(Calls)
    BY <1>4, <1>5
  <2> HIDE DEF s, t, u
  <2>2. p \o ((s \o t) \o u) = ((p \o s) \o t) \o u
    BY <1>2, <2>1, SMTT(20)
  <2>3. QED
    BY <2>2 DEF Convert, s, t, u
<1>8. p \o Text = ((p \o Make("surface", {"font"}))
                      \o Make("texture", {"renderer", "surface"})) \o Free("surface")
  <2> DEFINE s == Make("surface", {"font"})
             t == Make("texture", {"renderer", "surface"})
             u == Free("surface")
  <2>1. s \in Seq(Calls) /\ t \in Seq(Calls) /\ u \in Seq(Calls)
    BY <1>4, <1>5
  <2> HIDE DEF s, t, u
  <2>2. p \o ((s \o t) \o u) = ((p \o s) \o t) \o u
    BY <1>2, <2>1, SMTT(20)
  <2>3. QED
    BY <2>2 DEF Text, s, t, u
<1>9. ASSUME NEW r \in Names
      PROVE  p \o Slowread(r) = (p \o Make(r, {"db2"})) \o Check(r, {})
  <2>1. Make(r, {"db2"}) \in Seq(Calls) /\ Check(r, {}) \in Seq(Calls)
    BY <1>4, <1>5
  <2>2. QED
    BY <1>1, <2>1 DEF Slowread
<1>10. QED
  BY <1>6, <1>7, <1>8, <1>9

\* Most of the samples of SDL end so.
LEMMA EndLast ==
    ASSUME NEW R, NEW p \in Orderly(R), "window" \notin R, "sdl" \notin R
    PROVE  p \o EndWindow \in InOrder
<1>1. p \in Seq(Calls) /\ {"window", "sdl"} \subseteq Names
  BY DEF Orderly, InOrder, Names, Owners
<1>2. p \o EndWindow = (p \o Free("window")) \o Free("sdl")
  BY <1>1, Segments
<1>3. p \o Free("window") \in Orderly(R \cup ({"window"} \cup {"screen"}))
  BY <1>1, FreeLast, OwnedFacts
<1>4. "sdl" \notin R \cup ({"window"} \cup {"screen"})
  OBVIOUS
<1>5. QED
  BY <1>1, <1>2, <1>3, <1>4, FreeLast

\* The rules above, call by call.
LEMMA GuardedLast ==
    ASSUME NEW p \in Guarded, NEW r \in Names, NEW n \in SUBSET Names
    PROVE  /\ p \o Make(r, n) \in Guarded
           /\ \A x : p \in Checked(x) /\ x # r => p \o Make(r, n) \in Checked(x)
           /\ p \o Check(r, n) \in Checked(r)
           /\ \A x : p \in Checked(x) => p \o Check(r, n) \in Checked(x)
           /\ p \in Checked(r) => p \o Deref(r) \in Guarded
           /\ \A x : p \in Checked(x) /\ p \in Checked(r) => p \o Deref(r) \in Checked(x)
           /\ p \o Free(r) \in Guarded
           /\ \A x : p \in Checked(x) => p \o Free(r) \in Checked(x)
           /\ p \o Loop(r, n) \in Guarded
<1>1. {} \in SUBSET Names /\ {r} \in SUBSET Names
  OBVIOUS
<1>2. \E c \in Calls : Make(r, n) = <<c>> /\ c.op = "make" /\ c.res = r
  BY <1>1, OneCall DEF Make, Ops
<1>3. \E c \in Calls : Check(r, n) = <<c>> /\ c.op = "check" /\ c.res = r
  BY <1>1, OneCall DEF Check, Ops
<1>4. \E c \in Calls : Deref(r) = <<c>> /\ c.op = "deref" /\ c.needs = {r}
  BY <1>1, OneCall DEF Deref, Ops
<1>5. \E c \in Calls : Free(r) = <<c>> /\ c.op = "free"
  BY <1>1, OneCall DEF Free, Ops
<1>6. \E c \in Calls : Loop(r, n) = <<c>> /\ c.op = "loop"
  BY <1>1, OneCall DEF Loop, Ops
<1>7. QED
  <2>1. /\ p \o Make(r, n) \in Guarded
        /\ \A x : p \in Checked(x) /\ x # r => p \o Make(r, n) \in Checked(x)
    BY <1>2, GuardedAppend
  <2>2. /\ p \o Check(r, n) \in Checked(r)
        /\ \A x : p \in Checked(x) => p \o Check(r, n) \in Checked(x)
    BY <1>3, GuardedAppend
  <2>3. /\ p \in Checked(r) => p \o Deref(r) \in Guarded
        /\ \A x : p \in Checked(x) /\ p \in Checked(r) => p \o Deref(r) \in Checked(x)
    <3>1. SUFFICES ASSUME p \in Checked(r)
                   PROVE  /\ p \o Deref(r) \in Guarded
                          /\ \A x : p \in Checked(x) => p \o Deref(r) \in Checked(x)
      OBVIOUS
    <3>2. PICK c \in Calls : Deref(r) = <<c>> /\ c.op = "deref" /\ c.needs = {r}
      BY <1>4
    <3>3. QED
      BY <3>1, <3>2, GuardedAppend
  <2>4. /\ p \o Free(r) \in Guarded
        /\ \A x : p \in Checked(x) => p \o Free(r) \in Checked(x)
    BY <1>5, GuardedAppend
  <2>5. p \o Loop(r, n) \in Guarded
    BY <1>6, GuardedAppend
  <2>6. QED
    BY <2>1, <2>2, <2>3, <2>4, <2>5

LEMMA CaughtLast ==
    ASSUME NEW x, NEW p \in Pending(x), NEW r \in Names, NEW n \in SUBSET Names
    PROVE  /\ x \in n \/ p \in Caught => p \o Make(r, n) \in Pending(r)
           /\ p \o Check(r, n) \in Pending(x)
           /\ x = r \/ p \in Caught => p \o Check(r, n) \in Caught
           /\ p \in Caught => p \o Deref(r) \in Caught
           /\ p \o Free(r) \in Pending(x)
           /\ p \in Caught => p \o Free(r) \in Caught
           /\ p \in Caught => p \o Loop(r, n) \in Caught
<1>1. {} \in SUBSET Names /\ {r} \in SUBSET Names
  OBVIOUS
<1>2. \E c \in Calls : Make(r, n) = <<c>> /\ c.op = "make" /\ c.res = r /\ c.needs = n
  BY <1>1, OneCall DEF Make, Ops
<1>3. \E c \in Calls : Check(r, n) = <<c>> /\ c.op = "check" /\ c.res = r
  BY <1>1, OneCall DEF Check, Ops
<1>4. \E c \in Calls : Deref(r) = <<c>> /\ c.op = "deref"
  BY <1>1, OneCall DEF Deref, Ops
<1>5. \E c \in Calls : Free(r) = <<c>> /\ c.op = "free"
  BY <1>1, OneCall DEF Free, Ops
<1>6. \E c \in Calls : Loop(r, n) = <<c>> /\ c.op = "loop"
  BY <1>1, OneCall DEF Loop, Ops
<1>7. QED
  <2>1. x \in n \/ p \in Caught => p \o Make(r, n) \in Pending(r)
    BY <1>2, CaughtAppend DEF Catches
  <2>2. /\ p \o Check(r, n) \in Pending(x)
        /\ x = r \/ p \in Caught => p \o Check(r, n) \in Caught
    BY <1>3, CaughtAppend DEF Catches
  <2>3. p \in Caught => p \o Deref(r) \in Caught
    BY <1>4, CaughtAppend
  <2>4. p \o Free(r) \in Pending(x) /\ (p \in Caught => p \o Free(r) \in Caught)
    BY <1>5, CaughtAppend
  <2>5. p \in Caught => p \o Loop(r, n) \in Caught
    BY <1>6, CaughtAppend
  <2>6. QED
    BY <2>1, <2>2, <2>3, <2>4, <2>5

\* Where these begin.
LEMMA FirstCalls ==
    /\ \A p \in Seq(KindOf(Plain)) : p \in Guarded
    /\ \A r \in Names, n \in SUBSET Names : Make(r, n) \in Pending(r)
    /\ \A x : \A p \in Caught : p \in Pending(x)
<1>1. ASSUME NEW p \in Seq(KindOf(Plain)) PROVE p \in Guarded
  BY DEF KindOf, Plain, Guarded
<1>2. ASSUME NEW r \in Names, NEW n \in SUBSET Names PROVE Make(r, n) \in Pending(r)
  <2>1. PICK c \in Calls : Make(r, n) = <<c>> /\ c.res = r
    BY OneCall DEF Make, Ops
  <2>2. QED
    BY <2>1 DEF Pending
<1>3. QED
  BY <1>1, <1>2 DEF Caught, Pending

\* What owns nothing, and the releases at the end of a sequence without any.
Loose == Names \ Owners

LEMMA Tails ==
    ASSUME NEW p \in Keep
    PROVE  /\ p \in InOrder /\ p \o EndWindow \in InOrder
           /\ \A r \in Names : p \o Free(r) \in InOrder
           /\ \A r \in Loose :
                 /\ p \o Free(r) \in Orderly({r})
                 /\ p \o Free(r) \o EndWindow \in InOrder
                 /\ \A q \in Loose \ {r} : p \o Free(r) \o Free(q) \o EndWindow \in InOrder
                 /\ \A q \in Names \ {r} : p \o Free(r) \o Free(q) \in InOrder
                 /\ \A q \in Loose \ {r} : \A o \in Names \ {q, r} :
                        p \o Free(r) \o Free(q) \o Free(o) \in InOrder
<1>1. p \in Orderly({})
  BY KeepFacts
<1>2. ASSUME NEW r \in Names PROVE p \o Free(r) \in InOrder
  <2>1. r \notin {}
    OBVIOUS
  <2>2. QED
    BY <1>1, <2>1, FreeLast
<1>3. ASSUME NEW r \in Loose
      PROVE  /\ p \o Free(r) \in Orderly({r})
             /\ p \o Free(r) \o EndWindow \in InOrder
  <2>1. p \o Free(r) \in Orderly({} \cup {r}) /\ {} \cup {r} = {r}
    BY <1>1, FreeLast DEF Loose
  <2>2. "sdl" \notin {r} /\ "window" \notin {r}
    BY DEF Loose, Owners
  <2>3. QED
    BY <2>1, <2>2, EndLast
<1>4. ASSUME NEW r \in Loose, NEW q \in Names \ {r}
      PROVE  p \o Free(r) \o Free(q) \in InOrder
  BY <1>3, FreeLast
<1>5. ASSUME NEW r \in Loose, NEW q \in Loose \ {r}
      PROVE  /\ p \o Free(r) \o Free(q) \o EndWindow \in InOrder
             /\ \A o \in Names \ {q, r} : p \o Free(r) \o Free(q) \o Free(o) \in InOrder
  <2>1. p \o Free(r) \o Free(q) \in Orderly({r} \cup {q})
    BY <1>3, FreeLast DEF Loose
  <2>2. "sdl" \notin {r} \cup {q} /\ "window" \notin {r} \cup {q}
    BY DEF Loose, Owners
  <2>3. QED
    BY <2>1, <2>2, EndLast, FreeLast
<1>6. p \in InOrder /\ p \o EndWindow \in InOrder
  BY <1>1, EndLast DEF Orderly
<1>7. QED
  BY <1>2, <1>3, <1>4, <1>5, <1>6

\* Each table is in order: nothing is used or released after its release.
LEMMA TidyWin ==
    /\ WinErrors \in InOrder /\ WinBasic \in InOrder /\ WinTitle \in InOrder
    /\ EventsInput \in InOrder /\ EventsWindow \in InOrder
    /\ ModeClosest \in InOrder /\ SysWm \in InOrder
<1>0. SdlWindow \in Keep
  BY KeepFacts DEF SdlWindow, Names, Owners
<1>1. WinErrors \in InOrder
  <2>1. Make("sdl", {}) \o Check("sdl", {}) \o Make("window", {"sdl"})
         \o Check("window", {"sdl"}) \o Loop("wait", {"window"}) \in Keep
    BY KeepFacts DEF Names, Owners
  <2>2. QED
    BY <2>1, Tails DEF WinErrors, Names, Owners, Loose
<1>2. WinBasic \in InOrder
  <2>1. SdlWindow \o Loop("wait", {"window"}) \in Keep
    BY <1>0, KeepFacts DEF Names, Owners
  <2>2. QED
    BY <2>1, Tails DEF WinBasic, Names, Owners, Loose
<1>3. WinTitle \in InOrder
  <2>1. SdlWindow \o UnsetEvent \o Loop("wait", {"window"}) \in Keep
    BY <1>0, KeepFacts DEF Names, Owners
  <2>2. QED
    BY <2>1, Tails DEF WinTitle, Names, Owners, Loose
<1>4. EventsInput \in InOrder
  <2>1. SdlWindow \o Loop("poll", {"window"}) \in Keep
    BY <1>0, KeepFacts DEF Names, Owners
  <2>2. QED
    BY <2>1, Tails DEF EventsInput, Names, Owners, Loose
<1>5. EventsWindow \in InOrder
  <2>1. SdlWindow \o Loop("poll_break", {"window"}) \in Keep
    BY <1>0, KeepFacts DEF Names, Owners
  <2>2. QED
    BY <2>1, Tails DEF EventsWindow, Names, Owners, Loose
<1>6. ModeClosest \in InOrder
  <2>1. Make("sdl", {}) \o Make("closest", {"sdl"}) \o Check("closest", {"sdl"})
         \o Make("window", {"sdl"}) \o Make("mode", {"window"})
         \o CheckInverted("mode", {"sdl"}) \in Keep
    BY KeepFacts DEF Names, Owners
  <2>2. QED
    BY <2>1, Tails DEF ModeClosest, Names, Owners, Loose
<1>7. SysWm \in InOrder
  <2>1. SdlWindow \o Make("wminfo", {"window"}) \o Check("wminfo", {}) \in Keep
    BY <1>0, KeepFacts DEF Names, Owners
  <2>2. QED
    BY <2>1, Tails DEF SysWm, Names, Owners, Loose
<1>8. QED
  BY <1>1, <1>2, <1>3, <1>4, <1>5, <1>6, <1>7

LEMMA TidyDraw ==
    /\ WinIcon \in InOrder /\ DrawRect \in InOrder /\ DrawFullscreen \in InOrder
    /\ ModeCurrent \in InOrder /\ GlNew \in InOrder /\ GlOld \in InOrder
    /\ GlErrors \in InOrder /\ GlfwWindow \in InOrder
<1>0. SdlWindow \in Keep
  BY KeepFacts DEF SdlWindow, Names, Owners
<1>1. WinIcon \in InOrder
  <2> DEFINE p == SdlWindow \o Make("surface", {})
             q == p \o Free("surface") \o UnsetEvent \o Loop("wait", {"window"})
  <2>1. p \in Keep
    BY <1>0, KeepFacts DEF Names
  <2>2. /\ {"surface", "window", "wait"} \subseteq Names
        /\ "surface" \in Loose /\ {"window"} \in SUBSET Names
    BY DEF Names, Loose, Owners
  <2> HIDE DEF p
  <2>3. p \o Free("surface") \in Orderly({"surface"})
    BY <2>1, <2>2, Tails
  <2>4. q \in Orderly({"surface"})
    BY <2>2, <2>3, UseLast
  <2>5. q \o EndWindow \in InOrder
    BY <2>4, EndLast
  <2>6. QED
    BY <2>5 DEF WinIcon, p
<1>2. DrawRect \in InOrder
  <2>1. SdlWindow \o Make("renderer", {"window"}) \o Loop("wait", {"renderer"})
         \in Keep
    BY <1>0, KeepFacts DEF Names, Owners
  <2>2. QED
    BY <2>1, Tails DEF DrawRect, Names, Owners, Loose
<1>3. DrawFullscreen \in InOrder
  <2>1. Make("sdl", {}) \o Make("mode", {"sdl"}) \o Check("mode", {})
         \o Make("window", {"sdl"}) \o Make("renderer", {"window"})
         \o Loop("wait", {"renderer"}) \in Keep
    BY KeepFacts DEF Names, Owners
  <2>2. QED
    BY <2>1, Tails DEF DrawFullscreen, Names, Owners, Loose
<1>4. ModeCurrent \in InOrder
  BY <1>0, KeepFacts, Tails DEF ModeCurrent, Names, Owners, Loose
<1>5. GlNew \in InOrder
  <2>1. Make("sdl", {}) \o Make("window", {"sdl"}) \o Check("window", {"sdl"})
         \o Make("context", {"window"}) \o Make("quadric", {})
         \o Loop("poll", {"window", "quadric"}) \in Keep
    BY KeepFacts DEF Names, Owners
  <2>2. QED
    BY <2>1, Tails DEF GlNew, Names, Owners, Loose
<1>6. GlOld \in InOrder
  <2>1. Make("sdl", {}) \o Make("window", {"sdl"}) \o Check("window", {"sdl"})
         \o Make("context", {"window"}) \o UnsetEvent \o Loop("poll_last", {"window"})
         \in Keep
    BY KeepFacts DEF Names, Owners
  <2>2. QED
    BY <2>1, Tails DEF GlOld, Names, Owners, Loose
<1>7. GlErrors \in InOrder
  <2>1. Make("sdl", {}) \o Check("sdl", {}) \o Make("window", {"sdl"})
         \o Make("context", {"window"}) \o Make("watch", {"sdl"})
         \o Loop("watched", {"window", "context"}) \in Keep
    BY KeepFacts DEF Names, Owners
  <2>2. QED
    BY <2>1, Tails DEF GlErrors, Names, Owners, Loose
<1>8. GlfwWindow \in InOrder
  <2>1. Make("glfw", {}) \o Check("glfw", {}) \o Make("glfwwindow", {"glfw"})
         \o Check("glfwwindow", {"glfw"}) \o Loop("poll", {"glfwwindow"}) \in Keep
    BY KeepFacts DEF Names, Owners
  <2>2. QED
    BY <2>1, Tails DEF GlfwWindow, Names, Owners, Loose
<1>9. QED
  BY <1>1, <1>2, <1>3, <1>4, <1>5, <1>6, <1>7, <1>8

LEMMA TidyX ==
    /\ DrawRectText \in InOrder /\ DrawRoot \in InOrder /\ EventRoot \in InOrder
    /\ GrabKey \in InOrder /\ Clipboard \in InOrder /\ GetDpi \in InOrder
    /\ DBus \in InOrder
<1>1. DrawRectText \in InOrder
  <2>1. Make("display", {}) \o Check("display", {}) \o Make("xwindow", {"display"})
         \o Loop("wait", {"display"}) \in Keep
    BY KeepFacts DEF Names, Owners
  <2>2. QED
    BY <2>1, Tails DEF DrawRectText, Names, Owners, Loose
<1>2. DrawRoot \in InOrder
  <2>1. Make("display", {}) \o Check("display", {}) \o Make("surface", {"display"})
         \o Make("cairo", {"surface"}) \o Loop("forever", {"display"}) \in Keep
    BY KeepFacts DEF Names, Owners
  <2>2. QED
    BY <2>1, Tails DEF DrawRoot, Names, Owners, Loose
<1>3. EventRoot \in InOrder
  <2>1. Make("display", {}) \o Check("display", {}) \o Deref("display")
         \o Loop("wait", {"display"}) \in Keep
    BY KeepFacts DEF Names, Owners
  <2>2. QED
    BY <2>1, Tails DEF EventRoot, Names, Owners, Loose
<1>4. GrabKey \in InOrder
  <2>1. Make("display", {}) \o Deref("display") \o Make("grab", {"display"})
         \o Loop("wait", {"display"}) \in Keep
    BY KeepFacts DEF Names, Owners
  <2>2. QED
    BY <2>1, Tails DEF GrabKey, Names, Owners, Loose
<1>5. Clipboard \in InOrder
  <2>1. Make("display", {}) \o Check("display", {}) \o Deref("display")
         \o Loop("once", {"display"}) \in Keep
    BY KeepFacts DEF Names, Owners
  <2>2. QED
    BY <2>1, Tails DEF Clipboard, Names, Owners, Loose
<1>6. GetDpi \in InOrder
  BY KeepFacts, Tails DEF GetDpi, Names, Owners, Loose
<1>7. DBus \in InOrder
  <2>1. Make("connection", {}) \o Check("connection", {})
         \o Make("proxy", {"connection"}) \o Make("names", {"proxy"}) \o Check("names", {})
         \o Deref("names") \in Keep
    BY KeepFacts DEF Names, Owners
  <2>2. QED
    BY <2>1, Tails DEF DBus, Names, Owners, Loose
<1>8. QED
  BY <1>1, <1>2, <1>3, <1>4, <1>5, <1>6, <1>7

LEMMA TidyBlit == ImgBlit \in InOrder /\ ImgErrors \in InOrder
<1>1. ImgBlit \in InOrder
  <2> DEFINE b == BlitInit \o Make("loaded", {"img"}) \o Check("loaded", {})
             m == b \o Deref("screen") \o Make("image", {"loaded", "screen"})
             q == m \o Free("loaded")
             u == q \o Check("image", {"img", "sdl"}) \o Deref("image")
                    \o Loop("wait", {"window"})
  <2>1. BlitInit \in Keep
    BY KeepFacts DEF BlitInit, Names, Owners
  <2>2. b \in Keep
    BY <2>1, KeepFacts DEF Names
  <2>3. /\ {"screen", "image", "loaded", "img", "sdl", "wait", "window"} \subseteq Names
        /\ {"loaded", "screen"} \in SUBSET Names /\ {"window"} \in SUBSET Names
        /\ {"img", "sdl"} \in SUBSET Names
        /\ {"image", "img", "loaded"} \subseteq Loose
    BY DEF Names, Owners, Loose
  <2>4. b \o Convert = q
    <3>1. b \in Seq(Calls)
      BY <2>2 DEF Keep, KindOf
    <3> HIDE DEF b
    <3>2. QED
      BY <3>1, Segments
  <2> HIDE DEF b
  <2>5. m \in Keep
    BY <2>2, <2>3, KeepFacts
  <2> HIDE DEF m
  <2>6. q \in Orderly({"loaded"})
    BY <2>3, <2>5, Tails
  <2> HIDE DEF q
  <2>7. u \in Orderly({"loaded"})
    BY <2>3, <2>6, UseLast
  <2> HIDE DEF u
  <2>8. u \o Free("image") \in Orderly({"loaded"} \cup {"image"})
    BY <2>3, <2>7, FreeLast DEF Loose
  <2>9. u \o Free("image") \o Free("img")
           \in Orderly(({"loaded"} \cup {"image"}) \cup {"img"})
    BY <2>3, <2>8, FreeLast DEF Loose
  <2>10. u \o Free("image") \o Free("img") \o Free("sdl") \in InOrder
    <3>1. "sdl" \notin ({"loaded"} \cup {"image"}) \cup {"img"}
      OBVIOUS
    <3>2. QED
      BY <2>3, <2>9, <3>1, FreeLast
  <2>11. QED
    BY <2>4, <2>10 DEF ImgBlit, b, u
<1>2. ImgErrors \in InOrder
  <2> DEFINE b == Make("sdl", {}) \o Check("sdl", {}) \o Make("window", {"sdl"})
                    \o Check("window", {}) \o Make("renderer", {"window"})
                    \o Check("renderer", {}) \o Make("surface", {}) \o Check("surface", {})
                    \o Make("texture", {"renderer", "surface"}) \o Check("texture", {})
             q == b \o Free("surface")
             u == q \o Loop("count", {"renderer", "texture"})
  <2>1. b \in Keep
    BY KeepFacts DEF Names, Owners
  <2> HIDE DEF b
  <2>2. /\ {"renderer", "texture", "count", "surface"} \subseteq Names
        /\ {"renderer", "texture"} \in SUBSET Names
        /\ {"renderer", "texture", "surface"} \subseteq Loose
    BY DEF Names, Owners, Loose
  <2>3. q \in Orderly({"surface"})
    BY <2>1, <2>2, Tails
  <2> HIDE DEF q
  <2>4. u \in Orderly({"surface"})
    BY <2>2, <2>3, UseLast
  <2> HIDE DEF u
  <2>5. u \o Free("texture") \in Orderly({"surface"} \cup {"texture"})
    BY <2>2, <2>4, FreeLast DEF Loose
  <2>6. u \o Free("texture") \o Free("renderer")
           \in Orderly(({"surface"} \cup {"texture"}) \cup {"renderer"})
    BY <2>2, <2>5, FreeLast DEF Loose
  <2>7. u \o Free("texture") \o Free("renderer") \o EndWindow \in InOrder
    BY <2>6, EndLast
  <2>8. QED
    BY <2>7 DEF ImgErrors, u, q, b
<1>3. QED
  BY <1>1, <1>2

LEMMA TidyGl == GlMulti \in InOrder
<1> DEFINE things == {"window", "context", "window2", "context2", "effect", "vbo"}
           q == MultiCreate \o Loop("wait", things)
           u == q \o Free("vbo") \o Free("context")
           v == u \o Free("window")
<1>1. /\ things \subseteq Names /\ things \in SUBSET Names
      /\ {"wait", "window", "sdl", "cg", "context", "context2", "effect", "vbo",
          "window2"} \subseteq Names
      /\ {"vbo", "context", "context2", "window2"} \subseteq Loose
      /\ {"window"} \in SUBSET Names /\ {"sdl"} \in SUBSET Names
      /\ {"window2"} \in SUBSET Names /\ {"cg"} \in SUBSET Names
      /\ {"context"} \in SUBSET Names /\ {} \in SUBSET Names
  BY DEF Names, Owners, Loose
<1>2. MultiCreate \in Keep
  <2>1. SdlWindow \in Keep
    BY KeepFacts DEF SdlWindow, Names, Owners
  <2>2. SdlWindow \o Make("context", {"window"}) \o Make("window2", {"sdl"})
           \o Make("context2", {"window2"}) \in Keep
    BY <1>1, <2>1, KeepFacts
  <2>3. /\ Make("cg", {}) \in Keep /\ Make("effect", {"cg"}) \in Keep
        /\ Make("vbo", {"context"}) \in Keep
    BY <1>1, KeepFacts
  <2>4. QED
    BY <2>2, <2>3, KeepFacts DEF MultiCreate
<1> HIDE DEF things
<1>3. q \in Keep
  BY <1>1, <1>2, KeepFacts
<1> HIDE DEF q
<1>4. u \in Orderly({"vbo"} \cup {"context"})
  <2>1. q \o Free("vbo") \in Orderly({"vbo"})
    BY <1>1, <1>3, Tails
  <2>2. QED
    BY <1>1, <2>1, FreeLast DEF Loose
<1> HIDE DEF u
<1>5. v \in Orderly(({"vbo"} \cup {"context"}) \cup ({"window"} \cup {"screen"}))
  BY <1>1, <1>4, FreeLast, OwnedFacts
<1> HIDE DEF v
<1>6. v \o Free("context2")
         \in Orderly((({"vbo"} \cup {"context"}) \cup ({"window"} \cup {"screen"}))
                       \cup {"context2"})
  BY <1>1, <1>5, FreeLast DEF Loose
<1>7. v \o Free("context2") \o Free("window2")
         \in Orderly(((({"vbo"} \cup {"context"}) \cup ({"window"} \cup {"screen"}))
                       \cup {"context2"}) \cup {"window2"})
  BY <1>1, <1>6, FreeLast DEF Loose
<1>8. v \o Free("context2") \o Free("window2") \o Free("sdl") \in InOrder
  <2>1. "sdl" \notin ((({"vbo"} \cup {"context"}) \cup ({"window"} \cup {"screen"}))
                       \cup {"context2"}) \cup {"window2"}
    OBVIOUS
  <2>2. QED
    BY <1>1, <1>7, <2>1, FreeLast
<1>9. QED
  BY <1>8 DEF GlMulti, v, u, q, things

LEMMA TidyDb == MultiThread \in InOrder
<1> DEFINE b == Make("config", {}) \o Check("config", {})
                  \o Make("db", {}) \o Check("db", {"db"}) \o Make("schema", {"db"})
                  \o Check("schema", {})
           q == b \o Free("db") \o Make("db2", {}) \o Check("db2", {"db2"})
           u == q \o Slowread("rows1")
           v == u \o Slowread("rows2")
<1>1. /\ {"db", "db2", "rows1", "rows2"} \subseteq Names
      /\ {"db", "db2"} \subseteq Loose
      /\ {"db2"} \in SUBSET Names /\ {} \in SUBSET Names
  BY DEF Names, Owners, Loose
<1>2. b \in Keep
  BY KeepFacts DEF Names
<1> HIDE DEF b
<1>3. q \in Orderly({"db"})
  BY <1>1, <1>2, Tails, UseLast
<1> HIDE DEF q
<1>4. ASSUME NEW p \in Orderly({"db"}), NEW r \in Names
      PROVE  p \o Slowread(r) \in Orderly({"db"})
  <2>1. p \o Slowread(r) = (p \o Make(r, {"db2"})) \o Check(r, {})
    BY Segments DEF Orderly, InOrder
  <2>2. QED
    BY <1>1, <2>1, UseLast
<1>5. u \in Orderly({"db"}) /\ v \in Orderly({"db"})
  BY <1>1, <1>3, <1>4
<1> HIDE DEF u, v
<1>6. v \o Free("db2") \in InOrder
  <2>1. "db2" \notin {"db"}
    OBVIOUS
  <2>2. QED
    BY <1>1, <1>5, <2>1, FreeLast
<1>7. QED
  BY <1>6 DEF MultiThread, v, u, q, b

\* A text drawn behind p, with no release before it.
LEMMA TextLast ==
    ASSUME NEW p \in Keep
    PROVE  p \o Text \in Orderly({"surface"})
<1> DEFINE m == (p \o Make("surface", {"font"})) \o Make("texture", {"renderer", "surface"})
<1>1. /\ {"surface", "texture"} \subseteq Names /\ "surface" \in Loose
      /\ {"font"} \in SUBSET Names /\ {"renderer", "surface"} \in SUBSET Names
  BY DEF Names, Owners, Loose
<1>2. p \o Text = m \o Free("surface")
  BY Segments DEF Keep, KindOf
<1>3. m \in Keep
  BY <1>1, KeepFacts
<1> HIDE DEF m
<1>4. QED
  BY <1>1, <1>2, <1>3, Tails

\* The releases at the end of the three samples that draw text.
LEMMA TextEnds ==
    ASSUME NEW R, NEW p \in Orderly(R), R \subseteq {"surface", "font"}
    PROVE  /\ "font" \notin R =>
                 p \o Free("texture") \o Free("window") \o Free("font") \o Free("ttf")
                   \o Free("sdl") \in InOrder
           /\ p \o Free("texture") \o Free("renderer") \o Free("window") \o Free("ttf")
                \o Free("sdl") \in InOrder
<1> DEFINE W == {"window"} \cup {"screen"}
           t == p \o Free("texture")
<1>1. /\ {"texture", "window", "font", "renderer", "ttf", "sdl"} \subseteq Names
      /\ {"texture", "font", "renderer", "ttf"} \subseteq Loose
  BY DEF Names, Owners, Loose
<1>2. t \in Orderly(R \cup {"texture"})
  BY <1>1, FreeLast DEF Loose
<1> HIDE DEF t
<1>3. ASSUME "font" \notin R
      PROVE  t \o Free("window") \o Free("font") \o Free("ttf") \o Free("sdl") \in InOrder
  <2>1. t \o Free("window") \in Orderly((R \cup {"texture"}) \cup W)
    BY <1>1, <1>2, FreeLast, OwnedFacts
  <2>2. t \o Free("window") \o Free("font")
           \in Orderly(((R \cup {"texture"}) \cup W) \cup {"font"})
    BY <1>1, <1>3, <2>1, FreeLast DEF Loose
  <2>3. t \o Free("window") \o Free("font") \o Free("ttf")
           \in Orderly((((R \cup {"texture"}) \cup W) \cup {"font"}) \cup {"ttf"})
    BY <1>1, <2>2, FreeLast DEF Loose
  <2>4. "sdl" \notin (((R \cup {"texture"}) \cup W) \cup {"font"}) \cup {"ttf"}
    OBVIOUS
  <2>5. QED
    BY <1>1, <2>3, <2>4, FreeLast
<1>4. t \o Free("renderer") \o Free("window") \o Free("ttf") \o Free("sdl") \in InOrder
  <2>1. t \o Free("renderer") \in Orderly((R \cup {"texture"}) \cup {"renderer"})
    BY <1>1, <1>2, FreeLast DEF Loose
  <2>2. t \o Free("renderer") \o Free("window")
           \in Orderly(((R \cup {"texture"}) \cup {"renderer"}) \cup W)
    BY <1>1, <2>1, FreeLast, OwnedFacts
  <2>3. t \o Free("renderer") \o Free("window") \o Free("ttf")
           \in Orderly((((R \cup {"texture"}) \cup {"renderer"}) \cup W) \cup {"ttf"})
    BY <1>1, <2>2, FreeLast DEF Loose
  <2>4. "sdl" \notin (((R \cup {"texture"}) \cup {"renderer"}) \cup W) \cup {"ttf"}
    OBVIOUS
  <2>5. QED
    BY <1>1, <2>3, <2>4, FreeLast
<1>5. QED
  BY <1>3, <1>4 DEF t

LEMMA TidyText == FontBasic \in InOrder /\ FontWrapped \in InOrder /\ FontGlyphs \in InOrder
<1> DEFINE draws == {"renderer", "texture"}
<1>1. /\ {"wait", "font"} \subseteq Names /\ draws \in SUBSET Names
      /\ "font" \in Loose
  BY DEF Names, Owners, Loose
<1> HIDE DEF draws
<1>2. FontBasic \in InOrder
  <2> DEFINE b == Make("sdl", {}) \o Check("sdl", {}) \o Make("ttf", {}) \o Check("ttf", {})
                    \o Make("font", {"ttf"}) \o Check("font", {}) \o Make("window", {"sdl"})
                    \o Check("window", {}) \o Make("renderer", {"window"})
                    \o Check("renderer", {})
             u == b \o Text \o Loop("wait", draws)
  <2>1. b \in Keep
    BY KeepFacts DEF Names, Owners
  <2> HIDE DEF b
  <2>2. "renderer" \notin {"surface"} /\ "texture" \notin {"surface"}
    OBVIOUS
  <2>3. u \in Orderly({"surface"})
    BY <1>1, <2>1, <2>2, TextLast, UseLast DEF draws
  <2> HIDE DEF u
  <2>4. u \o Free("texture") \o Free("window") \o Free("font") \o Free("ttf")
          \o Free("sdl") \in InOrder
    BY <2>3, TextEnds
  <2>5. QED
    BY <2>4 DEF FontBasic, b, u, draws
<1>3. FontWrapped \in InOrder
  <2> DEFINE b == Make("sdl", {}) \o Make("ttf", {}) \o Make("font", {"ttf"})
                    \o Make("window", {"sdl"}) \o Make("renderer", {"window"})
             u == b \o Text \o Loop("wait", draws)
  <2>1. b \in Keep
    BY KeepFacts DEF Names, Owners
  <2> HIDE DEF b
  <2>2. "renderer" \notin {"surface"} /\ "texture" \notin {"surface"}
    OBVIOUS
  <2>3. u \in Orderly({"surface"})
    BY <1>1, <2>1, <2>2, TextLast, UseLast DEF draws
  <2> HIDE DEF u
  <2>4. u \o Free("texture") \o Free("window") \o Free("font") \o Free("ttf")
          \o Free("sdl") \in InOrder
    BY <2>3, TextEnds
  <2>5. QED
    BY <2>4 DEF FontWrapped, b, u, draws
<1>4. FontGlyphs \in InOrder
  <2> DEFINE b == Make("sdl", {}) \o Make("ttf", {}) \o Make("window", {"sdl"})
                    \o Make("renderer", {"window"}) \o Make("font", {"ttf"})
             u == b \o Text \o Free("font") \o Loop("wait", draws)
  <2>1. b \in Keep
    BY KeepFacts DEF Names, Owners
  <2> HIDE DEF b
  <2>2. b \o Text \o Free("font") \in Orderly({"surface"} \cup {"font"})
    BY <1>1, <2>1, TextLast, FreeLast DEF Loose
  <2>3. \A x \in draws : x \notin {"surface"} \cup {"font"}
    BY DEF draws
  <2>4. u \in Orderly({"surface"} \cup {"font"})
    BY <1>1, <2>2, <2>3, UseLast
  <2> HIDE DEF u
  <2>5. u \o Free("texture") \o Free("renderer") \o Free("window") \o Free("ttf")
          \o Free("sdl") \in InOrder
    BY <2>4, TextEnds
  <2>6. QED
    BY <2>5 DEF FontGlyphs, b, u, draws
<1>5. QED
  BY <1>2, <1>3, <1>4

\* Sequences of given kinds, built from single calls.
PlainSeq == Seq(KindOf(Plain))
SteadySeq == Seq(KindOf(Steady))

LEMMA PlainFacts ==
    /\ \A s1, s2 \in PlainSeq : s1 \o s2 \in PlainSeq
    /\ UnsetEvent \in PlainSeq
    /\ \A r \in Names : Free(r) \in PlainSeq
    /\ \A r \in Names, n \in SUBSET Names :
          Make(r, n) \in PlainSeq /\ Loop(r, n) \in PlainSeq /\ Check(r, n) \in PlainSeq
    /\ EndWindow \in PlainSeq /\ SdlWindow \in PlainSeq
<1>1. /\ \A s1, s2 \in PlainSeq : s1 \o s2 \in PlainSeq
      /\ UnsetEvent \in PlainSeq
      /\ \A r \in Names : Free(r) \in PlainSeq
      /\ \A r \in Names, n \in SUBSET Names :
            Make(r, n) \in PlainSeq /\ Loop(r, n) \in PlainSeq /\ Check(r, n) \in PlainSeq
  BY Pieces DEF PlainSeq, Plain, Ops
<1>2. EndWindow \in PlainSeq /\ SdlWindow \in PlainSeq
  BY <1>1 DEF EndWindow, SdlWindow, Names, Owners
<1>3. QED
  BY <1>1, <1>2

LEMMA SteadyFacts ==
    /\ \A s1, s2 \in SteadySeq : s1 \o s2 \in SteadySeq
    /\ \A r \in Names : Free(r) \in SteadySeq /\ Deref(r) \in SteadySeq
    /\ \A r \in Names, n \in SUBSET Names :
          Make(r, n) \in SteadySeq /\ Loop(r, n) \in SteadySeq /\ Check(r, n) \in SteadySeq
  BY Pieces DEF SteadySeq, Steady, Ops

\* Samples that dereference nothing and invert no check.
LEMMA PlainSamples ==
    /\ \A p \in {WinBasic, WinTitle, WinIcon, DrawRect, DrawFullscreen, EventsInput,
                 EventsWindow, ModeCurrent} : p \in PlainSeq
    /\ \A p \in {GlNew, GlOld, GlErrors, GlMulti} : p \in PlainSeq
    /\ \A p \in {FontBasic, FontWrapped, FontGlyphs, DrawRectText, DrawRoot} : p \in PlainSeq
    /\ \A p \in {WinErrors, SysWm, GlfwWindow, ImgErrors, MultiThread} : p \in PlainSeq
<1>1. WinBasic \in PlainSeq
  BY PlainFacts DEF WinBasic, Names, Owners
<1>2. WinTitle \in PlainSeq
  BY PlainFacts DEF WinTitle, Names, Owners
<1>3. WinIcon \in PlainSeq
  BY PlainFacts DEF WinIcon, Names, Owners
<1>4. DrawRect \in PlainSeq
  BY PlainFacts DEF DrawRect, Names, Owners
<1>5. DrawFullscreen \in PlainSeq
  BY PlainFacts DEF DrawFullscreen, Names, Owners
<1>6. EventsInput \in PlainSeq
  BY PlainFacts DEF EventsInput, Names, Owners
<1>7. EventsWindow \in PlainSeq
  BY PlainFacts DEF EventsWindow, Names, Owners
<1>8. ModeCurrent \in PlainSeq
  BY PlainFacts DEF ModeCurrent, Names, Owners
<1>9. GlNew \in PlainSeq
  BY PlainFacts DEF GlNew, Names, Owners
<1>10. GlOld \in PlainSeq
  BY PlainFacts DEF GlOld, Names, Owners
<1>11. GlErrors \in PlainSeq
  BY PlainFacts DEF GlErrors, Names, Owners
<1>12. GlMulti \in PlainSeq
  <2> DEFINE things == {"window", "context", "window2", "context2", "effect", "vbo"}
  <2>1. MultiCreate \in PlainSeq
    BY PlainFacts DEF MultiCreate, Names, Owners
  <2>2. things \in SUBSET Names
    BY DEF Names, Owners
  <2> HIDE DEF things
  <2>3. MultiCreate \o Loop("wait", things) \in PlainSeq
    BY <2>1, <2>2, PlainFacts DEF Names
  <2>4. QED
    BY <2>3, PlainFacts DEF GlMulti, things, Names, Owners
<1>13. Text \in PlainSeq
  BY PlainFacts DEF Text, Names, Owners
<1>14. FontBasic \in PlainSeq
  <2>1. Make("sdl", {}) \o Check("sdl", {}) \o Make("ttf", {}) \o Check("ttf", {})
           \o Make("font", {"ttf"}) \o Check("font", {}) \o Make("window", {"sdl"})
           \o Check("window", {}) \o Make("renderer", {"window"})
           \o Check("renderer", {}) \in PlainSeq
    BY PlainFacts DEF Names, Owners
  <2>2. QED
    BY <1>13, <2>1, PlainFacts DEF FontBasic, Names, Owners
<1>15. FontWrapped \in PlainSeq
  BY <1>13, PlainFacts DEF FontWrapped, Names, Owners
<1>16. FontGlyphs \in PlainSeq
  BY <1>13, PlainFacts DEF FontGlyphs, Names, Owners
<1>17. DrawRectText \in PlainSeq
  BY PlainFacts DEF DrawRectText, Names, Owners
<1>18. DrawRoot \in PlainSeq
  BY PlainFacts DEF DrawRoot, Names, Owners
<1>19. WinErrors \in PlainSeq
  BY PlainFacts DEF WinErrors, Names, Owners
<1>20. SysWm \in PlainSeq
  BY PlainFacts DEF SysWm, Names, Owners
<1>21. GlfwWindow \in PlainSeq
  BY PlainFacts DEF GlfwWindow, Names, Owners
<1>22. ImgErrors \in PlainSeq
  <2>1. Make("sdl", {}) \o Check("sdl", {}) \o Make("window", {"sdl"})
           \o Check("window", {}) \o Make("renderer", {"window"})
           \o Check("renderer", {}) \o Make("surface", {}) \o Check("surface", {})
           \in PlainSeq
    BY PlainFacts DEF Names, Owners
  <2>2. QED
    BY <2>1, PlainFacts DEF ImgErrors, Names, Owners
<1>23. MultiThread \in PlainSeq
  <2>1. Slowread("rows1") \in PlainSeq /\ Slowread("rows2") \in PlainSeq
    BY PlainFacts DEF Slowread, Names, Owners
  <2>2. QED
    BY <2>1, PlainFacts DEF MultiThread, Names, Owners
<1>24. QED
  BY <1>1, <1>2, <1>3, <1>4, <1>5, <1>6, <1>7, <1>8, <1>9, <1>10, <1>11, <1>12, <1>14,
     <1>15, <1>16, <1>17, <1>18, <1>19, <1>20, <1>21, <1>22, <1>23

LEMMA OtherSamples ==
    /\ ModeClosest \in Seq(KindOf(Ops \ {"deref"}))
    /\ GrabKey \in Seq(KindOf(Ops \ {"inverted"}))
<1>1. ModeClosest \in Seq(KindOf(Ops \ {"deref"}))
  <2> DEFINE S == Seq(KindOf(Ops \ {"deref"}))
  <2>1. /\ \A s1, s2 \in S : s1 \o s2 \in S
        /\ \A r \in Names : Free(r) \in S
        /\ \A r \in Names, n \in SUBSET Names :
              Make(r, n) \in S /\ Check(r, n) \in S /\ CheckInverted(r, n) \in S
    BY Pieces DEF Ops
  <2> HIDE DEF S
  <2>2. ModeClosest \in S
    BY <2>1 DEF ModeClosest, EndWindow, Names, Owners
  <2>3. QED
    BY <2>2 DEF S
<1>2. GrabKey \in Seq(KindOf(Ops \ {"inverted"}))
  <2> DEFINE S == Seq(KindOf(Ops \ {"inverted"}))
  <2>1. /\ \A s1, s2 \in S : s1 \o s2 \in S
        /\ \A r \in Names : Free(r) \in S /\ Deref(r) \in S
        /\ \A r \in Names, n \in SUBSET Names : Make(r, n) \in S /\ Loop(r, n) \in S
    BY Pieces DEF Ops
  <2> HIDE DEF S
  <2>2. GrabKey \in S
    BY <2>1 DEF GrabKey, Names, Owners
  <2>3. QED
    BY <2>2 DEF S
<1>3. QED
  BY <1>1, <1>2

\* No sample that reports every failure has an event that nothing sets.
LEMMA SteadySamples ==
    \A p \in {WinErrors, SysWm, GlfwWindow, ImgBlit, ImgErrors, EventRoot, Clipboard,
              GetDpi, DBus, MultiThread} : p \in SteadySeq
<1>1. WinErrors \in SteadySeq
  BY SteadyFacts DEF WinErrors, EndWindow, Names, Owners
<1>2. SysWm \in SteadySeq
  BY SteadyFacts DEF SysWm, SdlWindow, EndWindow, Names, Owners
<1>3. GlfwWindow \in SteadySeq
  BY SteadyFacts DEF GlfwWindow, Names, Owners
<1>4. ImgBlit \in SteadySeq
  <2>1. BlitInit \in SteadySeq
    BY SteadyFacts DEF BlitInit, Names, Owners
  <2>2. Convert \in SteadySeq
    BY SteadyFacts DEF Convert, Names, Owners
  <2>3. QED
    BY <2>1, <2>2, SteadyFacts DEF ImgBlit, Names, Owners
<1>5. ImgErrors \in SteadySeq
  <2>1. Make("sdl", {}) \o Check("sdl", {}) \o Make("window", {"sdl"})
           \o Check("window", {}) \o Make("renderer", {"window"})
           \o Check("renderer", {}) \o Make("surface", {}) \o Check("surface", {})
           \in SteadySeq
    BY SteadyFacts DEF Names, Owners
  <2>2. QED
    BY <2>1, SteadyFacts DEF ImgErrors, EndWindow, Names, Owners
<1>6. EventRoot \in SteadySeq
  BY SteadyFacts DEF EventRoot, Names, Owners
<1>7. Clipboard \in SteadySeq
  BY SteadyFacts DEF Clipboard, Names, Owners
<1>8. GetDpi \in SteadySeq
  BY SteadyFacts DEF GetDpi, Names, Owners
<1>9. DBus \in SteadySeq
  BY SteadyFacts DEF DBus, Names, Owners
<1>10. MultiThread \in SteadySeq
  <2>1. Slowread("rows1") \in SteadySeq /\ Slowread("rows2") \in SteadySeq
    BY SteadyFacts DEF Slowread, Names, Owners
  <2>2. QED
    BY <2>1, SteadyFacts DEF MultiThread, Names, Owners
<1>11. QED
  BY <1>1, <1>2, <1>3, <1>4, <1>5, <1>6, <1>7, <1>8, <1>9, <1>10

\* The samples that dereference something, but for event-grabkey, have checked it.
LEMMA GuardedSamples ==
    ImgBlit \in Guarded /\ EventRoot \in Guarded /\ Clipboard \in Guarded
        /\ GetDpi \in Guarded /\ DBus \in Guarded
<1>0. \A p \in PlainSeq : p \in Guarded
  BY FirstCalls DEF PlainSeq
<1>1. \A r \in Names : \A p \in Checked(r) :
          p \in Guarded /\ p \o Deref(r) \in Guarded /\ p \o Deref(r) \in Checked(r)
  BY GuardedLast DEF Checked
<1>2. \A p \in Guarded : \A r \in Names, n \in SUBSET Names :
          /\ p \o Check(r, n) \in Checked(r)
          /\ p \o Loop(r, n) \in Guarded /\ p \o Free(r) \in Guarded
  BY GuardedLast
<1>3. /\ {"display", "connection", "proxy", "names", "wait", "once", "screen", "loaded",
          "image", "window", "img", "sdl"} \subseteq Names
      /\ {"display"} \in SUBSET Names /\ {"connection"} \in SUBSET Names
      /\ {"proxy"} \in SUBSET Names
      /\ {"loaded", "screen"} \in SUBSET Names /\ {"img"} \in SUBSET Names
      /\ {"img", "sdl"} \in SUBSET Names /\ {"window"} \in SUBSET Names
      /\ {} \in SUBSET Names
  BY DEF Names, Owners
<1>4. Make("display", {}) \o Check("display", {}) \o Deref("display") \in Guarded
  BY <1>0, <1>1, <1>2, <1>3, PlainFacts
<1>5. EventRoot \in Guarded
  BY <1>2, <1>3, <1>4 DEF EventRoot
<1>6. Clipboard \in Guarded
  BY <1>2, <1>3, <1>4 DEF Clipboard
<1>7. GetDpi \in Guarded
  BY <1>4 DEF GetDpi
<1>8. DBus \in Guarded
  <2>1. Make("connection", {}) \o Check("connection", {}) \o Make("proxy", {"connection"})
           \o Make("names", {"proxy"}) \in PlainSeq
    BY <1>3, PlainFacts
  <2>2. QED
    BY <1>0, <1>1, <1>2, <1>3, <2>1 DEF DBus
<1>9. ImgBlit \in Guarded
  <2> DEFINE b == BlitInit \o Make("loaded", {"img"}) \o Check("loaded", {})
             m == b \o Deref("screen") \o Make("image", {"loaded", "screen"})
             q == m \o Free("loaded")
             u == q \o Check("image", {"img", "sdl"}) \o Deref("image")
  <2>1. b \in Checked("screen")
    <3> DEFINE c == Make("sdl", {}) \o Check("sdl", {}) \o Make("img", {}) \o Check("img", {})
                       \o Make("window", {"sdl"}) \o Check("window", {})
                       \o Make("screen", {"window"})
    <3>1. c \in PlainSeq
      BY PlainFacts DEF Names, Owners
    <3> HIDE DEF c
    <3>2. c \o Check("screen", {}) \o Deref("screen") \in Checked("screen")
      BY <1>0, <1>1, <1>2, <1>3, <3>1
    <3>3. BlitInit \in Checked("screen")
      BY <3>2 DEF BlitInit, c
    <3>4. QED
      BY <1>3, <3>3, GuardedLast DEF Checked
  <2>2. b \o Convert = q
    <3>1. b \in Seq(Calls)
      BY <2>1 DEF Checked, Guarded
    <3> HIDE DEF b
    <3>2. QED
      BY <3>1, Segments
  <2> HIDE DEF b
  <2>3. m \in Guarded
    BY <1>1, <1>3, <2>1, GuardedLast
  <2> HIDE DEF m
  <2>4. q \in Guarded
    BY <1>2, <1>3, <2>3
  <2> HIDE DEF q
  <2>5. u \in Guarded
    BY <1>1, <1>2, <1>3, <2>4
  <2> HIDE DEF u
  <2>6. u \o Loop("wait", {"window"}) \in Guarded
    BY <1>2, <1>3, <2>5
  <2>7. u \o Loop("wait", {"window"}) \o Free("image") \o Free("img") \o Free("sdl")
           \in Guarded
    BY <1>2, <1>3, <2>6
  <2>8. QED
    BY <2>2, <2>7 DEF ImgBlit, b, u
<1>10. QED
  BY <1>5, <1>6, <1>7, <1>8, <1>9

\* The rules about what is noticed, for sequences that begin with a creation.
LEMMA NoticeRules ==
    /\ \A r \in Names, n \in SUBSET Names : Make(r, n) \in Pending(r)
    /\ \A r, x \in Names : \A p \in Pending(x), n \in SUBSET Names :
          /\ x \in n => p \o Make(r, n) \in Pending(r)
          /\ p \o Check(x, n) \in Caught
          /\ p \o Check(r, n) \in Pending(x)
          /\ p \o Free(r) \in Pending(x)
    /\ \A p \in Caught : \A r \in Names, n \in SUBSET Names :
          /\ p \o Make(r, n) \in Pending(r) /\ p \o Check(r, n) \in Caught
          /\ p \o Deref(r) \in Caught /\ p \o Free(r) \in Caught
          /\ p \o Loop(r, n) \in Caught
    /\ \A p \in Caught : p \o EndWindow \in Caught
<1>1. \A r \in Names, n \in SUBSET Names : Make(r, n) \in Pending(r)
  BY FirstCalls
<1>2. ASSUME NEW r \in Names, NEW x \in Names, NEW p \in Pending(x), NEW n \in SUBSET Names
      PROVE  /\ x \in n => p \o Make(r, n) \in Pending(r)
             /\ p \o Check(x, n) \in Caught
             /\ p \o Check(r, n) \in Pending(x)
             /\ p \o Free(r) \in Pending(x)
  BY CaughtLast
<1>3. ASSUME NEW p \in Caught, NEW r \in Names, NEW n \in SUBSET Names
      PROVE  /\ p \o Make(r, n) \in Pending(r) /\ p \o Check(r, n) \in Caught
             /\ p \o Deref(r) \in Caught /\ p \o Free(r) \in Caught
             /\ p \o Loop(r, n) \in Caught
  <2>1. p \in Pending(r)
    BY FirstCalls
  <2>2. QED
    BY <2>1, CaughtLast
<1>4. ASSUME NEW p \in Caught PROVE p \o EndWindow \in Caught
  <2>1. p \in Seq(Calls)
    BY DEF Caught
  <2>2. {"window", "sdl"} \subseteq Names /\ {} \in SUBSET Names
    BY DEF Names, Owners
  <2>3. p \o EndWindow = (p \o Free("window")) \o Free("sdl")
    BY <2>1, Segments
  <2>4. QED
    BY <1>3, <2>2, <2>3
<1>5. QED
  BY <1>1, <1>2, <1>3, <1>4

\* What is made and checked at once.
LEMMA CheckAtOnce ==
    ASSUME NEW r \in Names, NEW n \in SUBSET Names, NEW m \in SUBSET Names
    PROVE  /\ Make(r, n) \o Check(r, m) \in Caught
           /\ \A p \in Caught : p \o Make(r, n) \o Check(r, m) \in Caught
  BY NoticeRules

\* Each sample that reports every failure notices every one.
LEMMA CaughtSamples ==
    \A p \in {WinErrors, SysWm, GlfwWindow, ImgBlit, ImgErrors, EventRoot, Clipboard,
              GetDpi, DBus, MultiThread} : p \in Caught
<1>0. /\ {"sdl", "window", "glfw", "glfwwindow", "renderer", "surface", "texture",
           "wait", "poll", "count", "image", "img", "config", "db", "schema", "db2",
           "display", "once", "connection", "proxy", "names", "wminfo", "screen",
           "loaded"}
             \subseteq Names
      /\ {"sdl"} \in SUBSET Names /\ {"window"} \in SUBSET Names
      /\ {"glfw"} \in SUBSET Names /\ {"glfwwindow"} \in SUBSET Names
      /\ {"renderer", "surface"} \in SUBSET Names /\ {"img", "sdl"} \in SUBSET Names
      /\ {"renderer", "texture"} \in SUBSET Names
      /\ {"db"} \in SUBSET Names /\ {"db2"} \in SUBSET Names
      /\ {"display"} \in SUBSET Names /\ {"connection"} \in SUBSET Names
      /\ {"proxy"} \in SUBSET Names
      /\ {"img"} \in SUBSET Names /\ {"loaded", "screen"} \in SUBSET Names
      /\ {} \in SUBSET Names
  BY DEF Names, Owners
<1>1. WinErrors \in Caught
  <2>1. Make("sdl", {}) \o Check("sdl", {}) \o Make("window", {"sdl"})
           \o Check("window", {"sdl"}) \in Caught
    BY <1>0, CheckAtOnce
  <2>2. QED
    BY <1>0, <2>1, NoticeRules DEF WinErrors
<1>2. SysWm \in Caught
  <2>1. SdlWindow \in Pending("window")
    BY <1>0, NoticeRules DEF SdlWindow
  <2>2. SdlWindow \o Make("wminfo", {"window"}) \in Pending("wminfo")
    BY <1>0, <2>1, NoticeRules
  <2>3. SdlWindow \o Make("wminfo", {"window"}) \o Check("wminfo", {}) \in Caught
    BY <1>0, <2>2, NoticeRules
  <2>4. QED
    BY <2>3, NoticeRules DEF SysWm
<1>3. GlfwWindow \in Caught
  <2>1. Make("glfw", {}) \o Check("glfw", {}) \o Make("glfwwindow", {"glfw"})
           \o Check("glfwwindow", {"glfw"}) \in Caught
    BY <1>0, CheckAtOnce
  <2>2. QED
    BY <1>0, <2>1, NoticeRules DEF GlfwWindow
<1>opened. Make("display", {}) \o Check("display", {}) \o Deref("display") \in Caught
  BY <1>0, CheckAtOnce, NoticeRules
<1>4. EventRoot \in Caught
  BY <1>0, <1>opened, NoticeRules DEF EventRoot
<1>5. Clipboard \in Caught
  BY <1>0, <1>opened, NoticeRules DEF Clipboard
<1>6. GetDpi \in Caught
  BY <1>opened DEF GetDpi
<1>7. DBus \in Caught
  <2>1. Make("connection", {}) \o Check("connection", {}) \o Make("proxy", {"connection"})
           \in Pending("proxy")
    BY <1>0, CheckAtOnce, NoticeRules
  <2>2. Make("connection", {}) \o Check("connection", {}) \o Make("proxy", {"connection"})
           \o Make("names", {"proxy"}) \o Check("names", {}) \in Caught
    BY <1>0, <2>1, NoticeRules
  <2>3. QED
    BY <1>0, <2>2, NoticeRules DEF DBus
<1>8. ImgErrors \in Caught
  <2>1. Make("sdl", {}) \o Check("sdl", {}) \o Make("window", {"sdl"})
           \o Check("window", {}) \o Make("renderer", {"window"})
           \o Check("renderer", {}) \in Caught
    BY <1>0, CheckAtOnce
  <2>2. Make("sdl", {}) \o Check("sdl", {}) \o Make("window", {"sdl"})
           \o Check("window", {}) \o Make("renderer", {"window"})
           \o Check("renderer", {}) \o Make("surface", {}) \o Check("surface", {})
           \o Make("texture", {"renderer", "surface"}) \o Check("texture", {}) \in Caught
    BY <1>0, <2>1, CheckAtOnce
  <2>3. QED
    BY <1>0, <2>2, NoticeRules DEF ImgErrors
<1>9. ImgBlit \in Caught
  <2> DEFINE b == BlitInit \o Make("loaded", {"img"}) \o Check("loaded", {})
             m == b \o Deref("screen") \o Make("image", {"loaded", "screen"})
             q == m \o Free("loaded")
  <2>1. BlitInit \in Caught
    <3>1. Make("sdl", {}) \o Check("sdl", {}) \o Make("img", {}) \o Check("img", {})
             \o Make("window", {"sdl"}) \o Check("window", {}) \in Caught
      BY <1>0, CheckAtOnce
    <3>2. QED
      BY <1>0, <3>1, CheckAtOnce, NoticeRules DEF BlitInit
  <2>2. b \in Caught
    BY <1>0, <2>1, CheckAtOnce
  <2>3. b \o Convert = q
    <3>1. b \in Seq(Calls)
      BY <2>2 DEF Caught
    <3> HIDE DEF b
    <3>2. QED
      BY <3>1, Segments
  <2> HIDE DEF b
  <2>4. q \in Pending("image")
    <3>1. b \o Deref("screen") \in Caught
      BY <1>0, <2>2, NoticeRules
    <3>2. m \in Pending("image")
      BY <1>0, <3>1, NoticeRules
    <3> HIDE DEF m
    <3>3. QED
      BY <1>0, <3>2, NoticeRules
  <2> HIDE DEF q
  <2>5. QED
    <3>1. q \o Check("image", {"img", "sdl"}) \in Caught
      BY <1>0, <2>4, NoticeRules
    <3>2. QED
      BY <1>0, <2>3, <3>1, NoticeRules DEF ImgBlit, b
<1>10. MultiThread \in Caught
  <2> DEFINE b == Make("config", {}) \o Check("config", {})
                    \o Make("db", {}) \o Check("db", {"db"}) \o Make("schema", {"db"})
                    \o Check("schema", {}) \o Free("db") \o Make("db2", {})
                    \o Check("db2", {"db2"})
             u == b \o Slowread("rows1")
             v == u \o Slowread("rows2")
  <2>1. b \in Caught
    <3> DEFINE c == Make("config", {}) \o Check("config", {})
                      \o Make("db", {}) \o Check("db", {"db"}) \o Make("schema", {"db"})
                      \o Check("schema", {})
    <3>1. c \in Caught
      BY <1>0, CheckAtOnce
    <3> HIDE DEF c
    <3>2. c \o Free("db") \in Caught
      BY <1>0, <3>1, NoticeRules
    <3>3. c \o Free("db") \o Make("db2", {}) \o Check("db2", {"db2"}) \in Caught
      BY <1>0, <3>2, CheckAtOnce
    <3>4. QED
      BY <3>3 DEF c
  <2> HIDE DEF b
  <2>2. ASSUME NEW p \in Caught, NEW r \in Names
        PROVE  p \o Slowread(r) \in Caught
    <3>1. p \o Slowread(r) = (p \o Make(r, {"db2"})) \o Check(r, {})
      BY Segments DEF Caught
    <3>2. {"db2"} \in SUBSET Names /\ {} \in SUBSET Names
      BY DEF Names, Owners
    <3>3. QED
      BY <3>1, <3>2, NoticeRules
  <2>3. {"rows1", "rows2", "db2"} \subseteq Names
    BY DEF Names
  <2>4. v \in Caught
    BY <2>1, <2>2, <2>3
  <2> HIDE DEF u, v
  <2>5. v \o Free("db2") \in Caught
    BY <2>3, <2>4, NoticeRules
  <2>6. QED
    BY <2>5 DEF MultiThread, v, u, b
<1>11. QED
  BY <1>1, <1>2, <1>3, <1>4, <1>5, <1>6, <1>7, <1>8, <1>9, <1>10

\* The samples that report every failure: all that check everything, but for the
\* one that runs forever.
Reporting == Checking \ {"draw_root"}
Lacks(p, op) == \A i \in 1..Len(p) : p[i].op # op

\* The calls of a sample that goes on forever once it is in its loop.
EndlessCalls ==
    {c \in Calls : c.op \in {"make", "check", "free"} \/ (c.op = "loop" /\ c.res = "forever")}
Looping == {p \in Seq(Calls) : \E k \in 1..Len(p) : p[k].op = "loop"}

\* What has been released was released by a call before this one.
GoneInv ==
    \A x \in gone : \E i \in 1..Len(Program[sample]) :
        i < line /\ x \in Releases(Program[sample][i])

\* What has been checked, and not been made anew, is no null handle.
NullInv ==
    Lacks(Program[sample], "unset") =>
        \A x : CheckedBefore(x, Program[sample], line) => x \notin failed

\* If anything has failed then so has something that nothing has noticed yet.
Unnoticed(i) ==
    /\ i < line /\ Program[sample][i].op = "make"
    /\ Program[sample][i].res \in failed
    /\ \A j \in 1..Len(Program[sample]) :
          i < j /\ j < line => ~Catches(Program[sample][i].res, Program[sample][j])
NoticeInv ==
    sample \in Reporting /\ failed # {} => \E i \in 1..Len(Program[sample]) : Unnoticed(i)

\* The loop that nothing ends is not left.
ForeverInv ==
    sample = "draw_root" =>
        /\ ~stop
        /\ \A k \in 1..Len(Program[sample]) : Program[sample][k].op = "loop" => line <= k

\* The inductive invariant.
SampleInv ==
    /\ sample \in DOMAIN Program /\ line \in Nat \ {0}
    /\ outcome = "running" => GoneInv /\ NullInv /\ NoticeInv /\ ForeverInv
    /\ FailureIsReported /\ HandlesAreValid

\* The tables under their names.
LEMMA ProgramAt ==
    /\ DOMAIN Program =
         {"win_errors", "win_basic", "win_title", "win_icon", "draw_rect", "draw_fullscreen",
          "events_input", "events_window", "mode_closest", "mode_current", "syswm", "gl_new",
          "gl_old", "gl_errors", "gl_multi", "glfw", "img_blit", "img_errors", "font_basic",
          "font_wrapped", "font_glyphs", "draw_rect_text", "draw_root", "event_root",
          "grabkey", "clipboard", "getdpi", "dbus", "multi_thread"}
    /\ Program["win_errors"] = WinErrors /\ Program["win_basic"] = WinBasic
    /\ Program["win_title"] = WinTitle /\ Program["win_icon"] = WinIcon
    /\ Program["draw_rect"] = DrawRect /\ Program["draw_fullscreen"] = DrawFullscreen
    /\ Program["events_input"] = EventsInput /\ Program["events_window"] = EventsWindow
    /\ Program["mode_closest"] = ModeClosest /\ Program["mode_current"] = ModeCurrent
    /\ Program["syswm"] = SysWm /\ Program["gl_new"] = GlNew /\ Program["gl_old"] = GlOld
    /\ Program["gl_errors"] = GlErrors /\ Program["gl_multi"] = GlMulti
    /\ Program["glfw"] = GlfwWindow /\ Program["img_blit"] = ImgBlit
    /\ Program["img_errors"] = ImgErrors /\ Program["font_basic"] = FontBasic
    /\ Program["font_wrapped"] = FontWrapped /\ Program["font_glyphs"] = FontGlyphs
    /\ Program["draw_rect_text"] = DrawRectText /\ Program["draw_root"] = DrawRoot
    /\ Program["event_root"] = EventRoot /\ Program["grabkey"] = GrabKey
    /\ Program["clipboard"] = Clipboard /\ Program["getdpi"] = GetDpi
    /\ Program["dbus"] = DBus /\ Program["multi_thread"] = MultiThread
  BY DEF Program

\* draw-root-window.c has a loop, and nothing that could leave it.
LEMMA DrawRootEndless == DrawRoot \in Seq(EndlessCalls) /\ DrawRoot \in Looping
<1> DEFINE S == Seq(EndlessCalls)
           b == Make("display", {}) \o Check("display", {}) \o Make("surface", {"display"})
                  \o Make("cairo", {"surface"})
           u == b \o Loop("forever", {"display"})
<1>0. /\ {"display", "surface", "cairo", "forever"} \subseteq Names
      /\ {"display"} \in SUBSET Names /\ {"surface"} \in SUBSET Names
      /\ {} \in SUBSET Names
  BY DEF Names, Owners
<1>1. /\ \A s1, s2 \in S : s1 \o s2 \in S
      /\ \A r \in Names, n \in SUBSET Names :
            Make(r, n) \in S /\ Check(r, n) \in S /\ Free(r) \in S
      /\ Loop("forever", {"display"}) \in S
  <2>1. ASSUME NEW r \in Names, NEW n \in SUBSET Names
        PROVE  Make(r, n) \in S /\ Check(r, n) \in S /\ Free(r) \in S
    <3>1. \E c \in Calls : Make(r, n) = <<c>> /\ c.op = "make"
      BY OneCall DEF Make, Ops
    <3>2. \E c \in Calls : Check(r, n) = <<c>> /\ c.op = "check"
      BY OneCall DEF Check, Ops
    <3>3. \E c \in Calls : Free(r) = <<c>> /\ c.op = "free"
      BY OneCall DEF Free, Ops
    <3>4. \A c \in Calls : c.op \in {"make", "check", "free"} => <<c>> \in S
      BY DEF EndlessCalls
    <3>5. QED
      BY <3>1, <3>2, <3>3, <3>4
  <2>2. Loop("forever", {"display"}) \in S
    <3>1. PICK c \in Calls :
              Loop("forever", {"display"}) = <<c>> /\ c.op = "loop" /\ c.res = "forever"
      BY <1>0, OneCall DEF Loop, Ops
    <3>2. c \in EndlessCalls
      BY <3>1 DEF EndlessCalls
    <3>3. QED
      <4>1. <<c>> \in Seq(EndlessCalls)
        BY <3>2
      <4>2. QED
        BY <3>1, <4>1
  <2>3. \A s1, s2 \in S : s1 \o s2 \in S
    OBVIOUS
  <2>4. QED
    BY <2>1, <2>2, <2>3
<1>3. b \in S /\ S \subseteq Seq(Calls)
  <2>1. S \subseteq Seq(Calls)
    BY DEF EndlessCalls
  <2> HIDE DEF S
  <2>2. QED
    BY <1>1, <1>0, <2>1
<1> HIDE DEF b, S
<1>4. DrawRoot \in S
  BY <1>1, <1>0, <1>3 DEF DrawRoot, b
<1>5. u \in Looping
  <2>1. PICK c \in Calls : Loop("forever", {"display"}) = <<c>> /\ c.op = "loop"
    BY <1>0, OneCall DEF Loop, Ops
  <2>2. b \in Seq(Calls)
    BY <1>3
  <2>3. /\ b \o <<c>> \in Seq(Calls) /\ (b \o <<c>>)[Len(b) + 1] = c
        /\ Len(b) + 1 \in 1..Len(b \o <<c>>)
    BY <2>2, LastCall
  <2>4. QED
    BY <2>1, <2>3 DEF Looping
<1> HIDE DEF u
<1>6. ASSUME NEW p \in Looping, NEW r \in Names PROVE p \o Free(r) \in Looping
  <2>1. PICK c \in Calls : Free(r) = <<c>>
    BY <1>0, OneCall DEF Free, Ops
  <2>2. PICK k \in 1..Len(p) : p \in Seq(Calls) /\ p[k].op = "loop"
    BY DEF Looping
  <2>3. p \o <<c>> \in Seq(Calls) /\ k \in 1..Len(p \o <<c>>) /\ (p \o <<c>>)[k] = p[k]
    BY <2>2, LastCall
  <2>4. QED
    BY <2>1, <2>2, <2>3 DEF Looping
<1>7. DrawRoot \in Looping
  BY <1>0, <1>5, <1>6 DEF DrawRoot, u, b
<1>8. QED
  BY <1>4, <1>7 DEF S

\* What the tables have in common, and what sets some of them apart.
LEMMA ProgramFacts ==
    ASSUME NEW s \in DOMAIN Program
    PROVE  /\ Program[s] \in InOrder
           /\ s # "grabkey" => Program[s] \in Guarded
           /\ s # "grabkey" => Lacks(Program[s], "deref") \/ Lacks(Program[s], "unset")
           /\ s \in Reporting => Program[s] \in Caught
           /\ s \in Reporting => Lacks(Program[s], "inverted") /\ Lacks(Program[s], "unset")
           /\ s \notin Inverting => Lacks(Program[s], "inverted")
<1>1. Program[s] \in InOrder
  BY ProgramAt, TidyWin, TidyDraw, TidyX, TidyBlit, TidyGl, TidyDb, TidyText
<1>2. \A p \in PlainSeq :
          p \in Guarded /\ Lacks(p, "deref") /\ Lacks(p, "inverted")
  <2>1. \A p \in PlainSeq : p \in Guarded
    BY FirstCalls DEF PlainSeq
  <2>2. \A p \in PlainSeq : Lacks(p, "deref") /\ Lacks(p, "inverted")
    BY DEF PlainSeq, KindOf, Plain, Lacks
  <2>3. QED
    BY <2>1, <2>2
<1>3. \A p \in SteadySeq : Lacks(p, "unset") /\ Lacks(p, "inverted")
  BY DEF SteadySeq, KindOf, Steady, Lacks
<1>4. ModeClosest \in Guarded /\ Lacks(ModeClosest, "deref") /\ Lacks(GrabKey, "inverted")
  BY OtherSamples DEF KindOf, Guarded, Lacks
<1>5. Lacks(Program[s], "deref") \/ Lacks(Program[s], "unset") \/ s = "grabkey"
  BY <1>2, <1>3, <1>4, ProgramAt, PlainSamples, SteadySamples
<1>6. Program[s] \in Guarded \/ s = "grabkey"
  BY <1>2, <1>4, ProgramAt, PlainSamples, GuardedSamples
<1>7. s \in Reporting => Program[s] \in Caught /\ Program[s] \in SteadySeq
  BY ProgramAt, CaughtSamples, SteadySamples DEF Reporting, Checking
<1>8. Lacks(Program[s], "inverted") \/ s \in Inverting
  BY <1>2, <1>3, <1>4, ProgramAt, PlainSamples, SteadySamples DEF Inverting
<1>9. QED
  BY <1>1, <1>3, <1>5, <1>6, <1>7, <1>8

\* A running sample touches nothing that has been released.
LEMMA Usable ==
    ASSUME SampleInv, outcome = "running", ~AtEnd
    PROVE  /\ Program[sample] \in Seq(Calls) /\ line \in 1..Len(Program[sample])
           /\ call \in Calls /\ Touches(call) \cap gone = {}
<1> DEFINE p == Program[sample]
<1>1. p \in InOrder
  BY ProgramFacts DEF SampleInv
<1>2. p \in Seq(Calls) /\ line \in 1..Len(p)
  BY <1>1 DEF InOrder, SampleInv, AtEnd
<1>3. p[line] \in Calls
  BY <1>2
<1>4. ASSUME NEW x \in gone PROVE x \notin Touches(p[line])
  <2>1. PICK i \in 1..Len(p) : i < line /\ x \in Releases(p[i])
    BY DEF SampleInv, GoneInv
  <2>2. Releases(p[i]) \cap Touches(p[line]) = {}
    BY <1>1, <1>2, <2>1 DEF InOrder
  <2>3. QED
    BY <2>1, <2>2
<1>5. QED
  BY <1>2, <1>3, <1>4 DEF call

\* What a call that does not end the sample does.
Passes ==
    /\ sample' = sample /\ gone' \subseteq gone \cup Releases(call)
    /\ line' = line + 1 \/ (call.op = "unset" /\ line' = line + 2)
    /\ \/ failed' = failed /\ (call.op = "make" => ~Null)
       \/ call.op = "make" /\ failed' = failed \cup {call.res}
    /\ call.op = "check" => call.res \notin failed
    /\ stop' = stop
    /\ call.op = "loop" => sample # "draw_root"

\* Such a call keeps the invariant, as does a step within a loop.
LEMMA PassKeeps ==
    ASSUME SampleInv, outcome = "running", ~AtEnd, Passes
    PROVE  GoneInv' /\ NullInv' /\ NoticeInv' /\ ForeverInv'
<1> DEFINE p == Program[sample]
           n == Len(p)
           c == p[line]
<1>1. /\ p \in Seq(Calls) /\ n \in Nat /\ line \in 1..n /\ line \in Nat
      /\ c = call /\ c \in Calls /\ Program[sample'] = p
      /\ line' \in Nat /\ line < line'
      /\ c.op # "unset" => line' = line + 1
  BY Usable DEF call, Passes
<1>2. /\ GoneInv /\ NullInv /\ NoticeInv /\ ForeverInv /\ sample \in DOMAIN Program
  BY DEF SampleInv
<1> HIDE DEF p, c
<1>3. GoneInv'
  <2>1. SUFFICES ASSUME NEW x \in gone'
                 PROVE  \E i \in 1..n : i < line' /\ x \in Releases(p[i])
    BY <1>1 DEF GoneInv
  <2>2. CASE x \in gone
    <3>1. PICK i \in 1..n : i < line /\ x \in Releases(p[i])
      BY <1>2, <2>2 DEF GoneInv, p
    <3>2. i < line'
      BY <1>1, <3>1
    <3>3. QED
      BY <3>1, <3>2
  <2>3. CASE x \in Releases(call)
    BY <1>1, <2>3 DEF c
  <2>4. QED
    BY <2>1, <2>2, <2>3 DEF Passes
<1>4. NullInv'
  <2>1. SUFFICES ASSUME Lacks(p, "unset"), NEW x, CheckedBefore(x, p, line')
                 PROVE  x \notin failed'
    BY <1>1 DEF NullInv
  <2>2. c.op # "unset" /\ line' = line + 1
    BY <1>1, <2>1 DEF Lacks, c
  <2>3. PICK i \in 1..n : /\ i < line + 1 /\ p[i].op = "check" /\ p[i].res = x
                          /\ ~MadeIn(x, p, i, line + 1)
    BY <2>1, <2>2 DEF CheckedBefore, n
  <2>4. ~(c.op = "make" /\ c.res = x)
    <3>1. CASE i = line
      BY <2>3, <3>1 DEF c
    <3>2. CASE i < line
      BY <1>1, <2>3, <3>2 DEF MadeIn, c
    <3>3. QED
      BY <1>1, <2>3, <3>1, <3>2
  <2>5. x \notin failed
    <3>1. CASE i = line
      BY <1>1, <2>3, <3>1 DEF Passes, c
    <3>2. CASE i < line
      <4>1. ~MadeIn(x, p, i, line)
        BY <1>1, <2>3, <3>2 DEF MadeIn
      <4>2. CheckedBefore(x, p, line)
        BY <2>3, <3>2, <4>1 DEF CheckedBefore, n
      <4>3. QED
        BY <1>2, <2>1, <4>2 DEF NullInv, p
    <3>3. QED
      BY <1>1, <2>3, <3>1, <3>2
  <2>6. QED
    BY <1>1, <2>4, <2>5 DEF Passes
<1>5. NoticeInv'
  <2>1. SUFFICES ASSUME sample \in Reporting, failed' # {}
                 PROVE  \E i \in 1..n :
                           /\ i < line' /\ p[i].op = "make" /\ p[i].res \in failed'
                           /\ \A j \in 1..n :
                                 i < j /\ j < line' => ~Catches(p[i].res, p[j])
    BY <1>1 DEF NoticeInv, Unnoticed, Passes
  <2>2. c.op # "unset" /\ line' = line + 1
    BY <1>1, <1>2, <2>1, ProgramFacts DEF Lacks, c, p
  <2>3. CASE failed' = failed /\ (call.op = "make" => ~Null)
    <3>1. PICK i \in 1..n : /\ i < line /\ p[i].op = "make" /\ p[i].res \in failed
                            /\ \A j \in 1..n : i < j /\ j < line => ~Catches(p[i].res, p[j])
      BY <1>2, <2>1, <2>3 DEF NoticeInv, Unnoticed, p
    <3>2. ~Catches(p[i].res, c)
      BY <1>1, <2>3, <3>1 DEF Catches, Passes, Null
    <3>3. \A j \in 1..n : i < j /\ j < line' => ~Catches(p[i].res, p[j])
      BY <1>1, <2>2, <3>1, <3>2 DEF c
    <3>4. QED
      BY <1>1, <2>3, <3>1, <3>3
  <2>4. CASE call.op = "make" /\ failed' = failed \cup {call.res}
    BY <1>1, <2>2, <2>4 DEF c
  <2>5. QED
    BY <2>3, <2>4 DEF Passes
<1>6. ForeverInv'
  <2>1. SUFFICES ASSUME sample = "draw_root"
                 PROVE  /\ ~stop
                        /\ \A k \in 1..n : p[k].op = "loop" => line' <= k
    BY <1>1 DEF ForeverInv, Passes
  <2>2. p \in Seq(EndlessCalls)
    BY <2>1, ProgramAt, DrawRootEndless DEF p
  <2>3. c \in EndlessCalls
    BY <1>1, <2>2 DEF c
  <2>4. c.op # "loop" /\ c.op # "unset"
    BY <1>1, <2>1, <2>3 DEF EndlessCalls, Passes
  <2>5. ASSUME NEW k \in 1..n, p[k].op = "loop" PROVE line' <= k
    <3>1. line <= k /\ k # line
      BY <1>2, <2>1, <2>4, <2>5 DEF ForeverInv, p, c
    <3>2. QED
      BY <1>1, <2>4, <3>1
  <2>6. QED
    BY <1>2, <2>1, <2>5 DEF ForeverInv
<1>7. QED
  BY <1>3, <1>4, <1>5, <1>6

LEMMA StayKeeps ==
    ASSUME SampleInv, outcome = "running",
           UNCHANGED <<sample, line, failed, gone>>,
           sample = "draw_root" => ~stop'
    PROVE  GoneInv' /\ NullInv' /\ NoticeInv' /\ ForeverInv'
<1>1. GoneInv /\ NullInv /\ NoticeInv /\ ForeverInv
  BY DEF SampleInv
<1>2. GoneInv' /\ NullInv' /\ NoticeInv'
  BY <1>1 DEF GoneInv, NullInv, NoticeInv, Unnoticed
<1>3. ForeverInv'
  BY <1>1 DEF ForeverInv
<1>4. QED
  BY <1>2, <1>3

\* So no call of a running sample finds a stale handle.
LEMMA AtKeeps ==
    ASSUME NEW op, SampleInv, At(op)
    PROVE  /\ outcome = "running" /\ ~AtEnd /\ call.op = op /\ ~Stale
           /\ op = "free" => call.res \notin gone
  BY Usable DEF At, call, Stale, Touches

\* The calls that end a sample.
LEMMA CheckFails ==
    ASSUME SampleInv, At("check") \/ At("inverted"), LooksFailed
    PROVE  sample \notin Inverting => failed # {}
<1>1. CASE At("check")
  BY <1>1, AtKeeps DEF LooksFailed
<1>2. CASE At("inverted")
  <2>1. ~Lacks(Program[sample], "inverted")
    BY <1>2, Usable DEF At, Lacks
  <2>2. QED
    BY <2>1, ProgramFacts DEF SampleInv
<1>3. QED
  BY <1>1, <1>2

\* Only event-grabkey uses a handle that may be null.
LEMMA NullUsed ==
    ASSUME SampleInv, At("deref"), Null
    PROVE  sample = "grabkey"
<1> DEFINE p == Program[sample]
<1>1. SUFFICES ASSUME sample # "grabkey" PROVE FALSE
  OBVIOUS
<1>2. line \in 1..Len(p) /\ p[line].op = "deref" /\ call = p[line]
  BY Usable DEF At, call
<1>3. p \in Guarded /\ Lacks(p, "unset") /\ NullInv
  BY <1>1, <1>2, ProgramFacts DEF SampleInv, Lacks, At
<1>4. PICK x \in p[line].needs : x \in failed
  BY <1>2 DEF Null
<1>5. CheckedBefore(x, p, line)
  BY <1>2, <1>3 DEF Guarded
<1>6. QED
  BY <1>3, <1>4, <1>5 DEF NullInv

\* A sample that checks everything gets to its end only if nothing failed.
LEMMA EndReports ==
    ASSUME SampleInv, outcome = "running", AtEnd, sample \in Checking
    PROVE  failed = {}
<1> DEFINE p == Program[sample]
<1>1. /\ NoticeInv /\ ForeverInv /\ line \in Nat /\ line > Len(p) /\ p \in InOrder
  BY ProgramFacts DEF SampleInv, AtEnd
<1>2. Len(p) \in Nat
  BY <1>1 DEF InOrder
<1>3. CASE sample = "draw_root"
  <2>1. PICK k \in 1..Len(p) : p[k].op = "loop"
    BY <1>3, ProgramAt, DrawRootEndless DEF Looping
  <2>2. line <= k
    BY <1>1, <1>3, <2>1 DEF ForeverInv
  <2>3. QED
    BY <1>1, <1>2, <2>2
<1>4. CASE sample \in Reporting
  <2>1. SUFFICES ASSUME failed # {} PROVE FALSE
    OBVIOUS
  <2>2. PICK i \in 1..Len(p) : Unnoticed(i)
    BY <1>1, <1>4, <2>1 DEF NoticeInv
  <2>3. PICK j \in 1..Len(p) : i < j /\ Catches(p[i].res, p[j])
    BY <1>4, <2>2, ProgramFacts DEF SampleInv, Caught, Unnoticed
  <2>4. QED
    BY <1>1, <1>2, <2>2, <2>3 DEF Unnoticed
<1>5. QED
  BY <1>3, <1>4 DEF Reporting

LEMMA SampleInvInit == SampleInit => SampleInv
<1> SUFFICES ASSUME SampleInit PROVE SampleInv
  OBVIOUS
<1>1. sample \in DOMAIN Program /\ line = 1 /\ failed = {} /\ gone = {} /\ ~stop
  BY DEF SampleInit
<1>2. FailureIsReported /\ HandlesAreValid
  BY DEF SampleInit, FailureIsReported, HandlesAreValid
<1>3. GoneInv /\ NullInv /\ NoticeInv /\ ForeverInv
  BY <1>1 DEF GoneInv, NullInv, NoticeInv, ForeverInv
<1>4. QED
  BY <1>1, <1>2, <1>3 DEF SampleInv

LEMMA SampleInvStep == SampleInv /\ [SampleNext]_sampleVars => SampleInv'
<1> SUFFICES ASSUME SampleInv, [SampleNext]_sampleVars PROVE SampleInv'
  OBVIOUS
<1>1. sample \in DOMAIN Program /\ line \in Nat \ {0} /\ FailureIsReported /\ HandlesAreValid
  BY DEF SampleInv
<1>2. ASSUME outcome = "running", ~AtEnd, outcome' = outcome, Passes
      PROVE  SampleInv'
  <2>1. GoneInv' /\ NullInv' /\ NoticeInv' /\ ForeverInv'
    BY <1>2, PassKeeps
  <2>2. line' \in Nat \ {0} /\ sample' \in DOMAIN Program
    BY <1>1, <1>2 DEF Passes
  <2>3. FailureIsReported' /\ HandlesAreValid'
    BY <1>2 DEF FailureIsReported, HandlesAreValid
  <2>4. QED
    BY <2>1, <2>2, <2>3 DEF SampleInv
<1>3. ASSUME outcome' # "running", UNCHANGED <<sample, line>>,
             FailureIsReported', HandlesAreValid'
      PROVE  SampleInv'
  BY <1>1, <1>3 DEF SampleInv
<1>4. ASSUME outcome = "running", UNCHANGED <<sample, line, failed, gone, outcome>>,
             sample = "draw_root" => ~stop'
      PROVE  SampleInv'
  <2>1. GoneInv' /\ NullInv' /\ NoticeInv' /\ ForeverInv'
    BY <1>4, StayKeeps
  <2>2. FailureIsReported' /\ HandlesAreValid'
    BY <1>4 DEF FailureIsReported, HandlesAreValid
  <2>3. QED
    BY <1>1, <1>4, <2>1, <2>2 DEF SampleInv
<1>5. ASSUME At("loop"), sample = "draw_root"
      PROVE  call.res = "forever" /\ ~stop
  <2>1. Program[sample] \in Seq(EndlessCalls)
    BY <1>5, ProgramAt, DrawRootEndless
  <2>2. call \in EndlessCalls
    BY <1>5, <2>1, Usable DEF At, call
  <2>3. QED
    BY <1>5, <2>2 DEF EndlessCalls, At, call, SampleInv, ForeverInv
<1>6. CASE Creates
  <2>1. /\ outcome = "running" /\ ~AtEnd /\ call.op = "make" /\ ~Stale
    BY <1>6, AtKeeps DEF Creates
  <2>2. outcome' = outcome /\ line' = line + 1 /\ UNCHANGED <<sample, gone, stop>>
    BY <1>6, <2>1 DEF Creates, Advance
  <2>3. failed' \in (IF Null THEN {} ELSE {failed}) \cup {failed \cup {call.res}}
    BY <1>6, <2>1 DEF Creates
  <2>4. Passes
    BY <2>1, <2>2, <2>3 DEF Passes
  <2>5. QED
    BY <1>2, <2>1, <2>2, <2>4
<1>7. CASE Checks
  <2>1. /\ outcome = "running" /\ ~AtEnd /\ call.op \in {"check", "inverted"}
    BY <1>7, AtKeeps DEF Checks
  <2>2. UNCHANGED <<sample, failed, stop>>
    BY <1>7 DEF Checks
  <2>3. CASE LooksFailed
    <3>1. sample \notin Inverting => failed # {}
      BY <1>7, <2>3, CheckFails DEF Checks
    <3>2. outcome' = "failure" /\ UNCHANGED line
      BY <1>7, <2>3 DEF Checks, Leave
    <3>3. QED
      BY <1>3, <2>2, <3>1, <3>2 DEF FailureIsReported, HandlesAreValid
  <2>4. CASE ~LooksFailed
    <3>1. outcome' = outcome /\ line' = line + 1 /\ UNCHANGED gone
      BY <1>7, <2>4 DEF Checks, Advance
    <3>2. call.op = "check" => call.res \notin failed
      BY <2>4 DEF LooksFailed
    <3>3. Passes
      BY <2>1, <2>2, <3>1, <3>2 DEF Passes
    <3>4. QED
      BY <1>2, <2>1, <3>1, <3>3
  <2>5. QED
    BY <2>3, <2>4
<1>8. CASE Dereferences
  <2>1. /\ outcome = "running" /\ ~AtEnd /\ call.op = "deref" /\ ~Stale /\ At("deref")
    BY <1>8, AtKeeps DEF Dereferences
  <2>2. UNCHANGED <<sample, failed, gone, stop>>
    BY <1>8 DEF Dereferences
  <2>3. CASE Null
    <3>1. sample = "grabkey" /\ outcome' = "null" /\ UNCHANGED line
      BY <1>8, <2>1, <2>3, NullUsed DEF Dereferences, Leave
    <3>2. QED
      BY <1>3, <2>2, <3>1 DEF FailureIsReported, HandlesAreValid
  <2>4. CASE ~Null
    <3>1. outcome' = outcome /\ line' = line + 1
      BY <1>8, <2>1, <2>4 DEF Dereferences, Advance
    <3>2. Passes
      BY <2>1, <2>2, <3>1 DEF Passes
    <3>3. QED
      BY <1>2, <2>1, <3>1, <3>2
  <2>5. QED
    BY <2>3, <2>4
<1>9. CASE Frees
  <2>1. /\ outcome = "running" /\ ~AtEnd /\ call.op = "free" /\ call.res \notin gone
    BY <1>9, AtKeeps DEF Frees
  <2>2. outcome' = outcome /\ line' = line + 1 /\ UNCHANGED <<sample, failed, stop>>
    BY <1>9, <2>1 DEF Frees, Advance
  <2>3. gone' \subseteq gone \cup Releases(call)
    BY <1>9, <2>1 DEF Frees, Releases
  <2>4. Passes
    BY <2>1, <2>2, <2>3 DEF Passes
  <2>5. QED
    BY <1>2, <2>1, <2>2, <2>4
<1>10. CASE ReadsUnset
  <2>1. /\ outcome = "running" /\ ~AtEnd /\ call.op = "unset"
    BY <1>10, AtKeeps DEF ReadsUnset
  <2>2. /\ outcome' = outcome /\ line' \in {line + 1, line + 2}
        /\ UNCHANGED <<sample, failed, gone, stop>>
    BY <1>10 DEF ReadsUnset
  <2>3. Passes
    BY <2>1, <2>2 DEF Passes
  <2>4. QED
    BY <1>2, <2>1, <2>2, <2>3
<1>11. CASE TakesEvent
  <2>1. At("loop") /\ outcome = "running" /\ stop' = StopAfter(Head(events))
    BY <1>11 DEF TakesEvent, At
  <2>2. sample = "draw_root" => ~stop'
    BY <1>5, <2>1 DEF StopAfter
  <2>3. QED
    BY <1>4, <1>11, <2>1, <2>2 DEF TakesEvent
<1>12. CASE LeavesLoop
  <2>1. /\ outcome = "running" /\ ~AtEnd /\ call.op = "loop" /\ At("loop")
    BY <1>12, AtKeeps DEF LeavesLoop
  <2>2. /\ outcome' = outcome /\ line' = line + 1
        /\ UNCHANGED <<sample, failed, gone, stop>>
        /\ call.res = "count" \/ stop
    BY <1>12 DEF LeavesLoop, Advance
  <2>3. sample # "draw_root"
    <3>1. ~(call.res = "forever" /\ ~stop)
      BY <2>2
    <3>2. QED
      BY <1>5, <2>1, <3>1
  <2>4. Passes
    BY <2>1, <2>2, <2>3 DEF Passes
  <2>5. QED
    BY <1>2, <2>1, <2>2, <2>4
<1>13. CASE Ends
  <2>1. outcome = "running" /\ AtEnd /\ outcome' = "success"
        /\ UNCHANGED <<sample, line, failed>>
    BY <1>13 DEF Ends, Leave
  <2>2. sample \in Checking => failed = {}
    BY <2>1, EndReports
  <2>3. QED
    BY <1>3, <2>1, <2>2 DEF FailureIsReported, HandlesAreValid
<1>14. CASE \E e \in EventKinds : Arrives(e)
  <2>1. PICK e \in EventKinds : Arrives(e)
    BY <1>14
  <2>2. At("loop") /\ outcome = "running"
    BY <2>1 DEF Arrives, At
  <2>3. sample = "draw_root" => ~stop'
    BY <1>5, <2>1, <2>2 DEF Arrives
  <2>4. QED
    BY <1>4, <2>1, <2>2, <2>3 DEF Arrives
<1>15. CASE UNCHANGED sampleVars
  BY <1>15 DEF sampleVars, SampleInv, GoneInv, NullInv, NoticeInv, Unnoticed, ForeverInv,
     FailureIsReported, HandlesAreValid
<1>16. QED
  BY <1>6, <1>7, <1>8, <1>9, <1>10, <1>11, <1>12, <1>13, <1>14, <1>15
     DEF SampleNext, SampleStep

\* Whatever fails and however many events arrive: samples that check everything
\* succeed only if nothing failed, and none but the inverted one fails without reason.
THEOREM ReportCorrect == SampleSpec => []FailureIsReported
<1>1. SampleInv => FailureIsReported
  BY DEF SampleInv
<1>2. QED
  BY <1>1, SampleInvInit, SampleInvStep, PTL DEF SampleSpec

\* Nothing is used or released after its release, and no null handle is dereferenced
\* but that of event-grabkey.c:19.
THEOREM HandlesCorrect == SampleSpec => []HandlesAreValid
<1>1. SampleInv => HandlesAreValid
  BY DEF SampleInv
<1>2. QED
  BY <1>1, SampleInvInit, SampleInvStep, PTL DEF SampleSpec
=============================================================================
