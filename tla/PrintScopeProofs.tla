--------------------------- MODULE PrintScopeProofs ---------------------------
(***************************************************************************)
(* Proofs about PrintScope, for any set of threads that enter any number   *)
(* of scopes.                                                              *)
(***************************************************************************)
EXTENDS PrintScope, FiniteSetTheorems, SequenceTheorems, TLAPS

Text == {"none", "gso", "main", "inner", "atexit", "f", "g"}
Say == [kind : {"none", "open", "close", "line"}, text : Text]
Saids == [kind : {"open", "close", "line"}, text : Text]
Part == [thread : Tracers, part : {"head", "text"}, number : Int, depth : Int, say : Say]

TraceType ==
    /\ mainDone \in Nat
    /\ scopes \in [Tracers -> Seq(Text)]
    /\ depth \in [Tracers -> Nat]
    /\ number \in [Tracers -> Int]
    /\ nextNumber \in Nat
    /\ saying \in [Tracers -> Say]
    /\ printAt \in [Tracers -> {"out", "lock", "number", "increment", "text"}]
    /\ out \in Seq(Part)

\* The thread inside print() is the one that holds the mutex.
MutexInv ==
    \A t \in Tracers : printAt[t] \in {"number", "increment", "text"} <=> printer = t

\* A text follows the head of its thread, and one still to be written will.
WholeInv ==
    /\ \A t \in Tracers : printAt[t] = "text" =>
          Len(out) > 0 /\ out[Len(out)].part = "head" /\ out[Len(out)].thread = t
    /\ \A i \in 1..Len(out) : out[i].part = "text" =>
          i > 1 /\ out[i - 1].part = "head" /\ out[i - 1].thread = out[i].thread

\* Each part has the number of its thread, and a number that is taken is below the
\* next one, except between the read of g_tid and its increment.
NumberInv ==
    /\ \A i \in 1..Len(out) :
          out[i].number = number[out[i].thread] /\ out[i].number # Unnumbered
    /\ \A t, u \in Tracers : number[t] # Unnumbered /\ number[t] = number[u] => t = u
    /\ \A t \in Tracers : number[t] # Unnumbered =>
          number[t] < nextNumber \/ (printAt[t] = "increment" /\ number[t] = nextNumber)
    /\ \A t \in Tracers : printAt[t] = "increment" => number[t] = nextNumber
    /\ \A t \in Tracers : printAt[t] = "text" => number[t] # Unnumbered

\* A thread prints one line at a time; the scope that it opens is its innermost, and
\* counts for the depth once the line of its entry is written.
SayingInv ==
    \A t \in Tracers :
        /\ printAt[t] = "out" <=> saying[t].kind = "none"
        /\ Len(scopes[t]) = depth[t] + IF saying[t].kind = "open" THEN 1 ELSE 0
        /\ saying[t].kind = "open" => saying[t].text = Last(scopes[t])

PartsInv == TraceType /\ MutexInv /\ WholeInv /\ NumberInv /\ SayingInv

\* The lines of t of one kind: entries exceed exits by the depth, and by the exit
\* that is still to be written.
LinesOf(t, kind) == {j \in Lines(t) : out[j].say.kind = kind}
BalanceInv ==
    \A t \in Tracers :
        Cardinality(LinesOf(t, "open")) - Cardinality(LinesOf(t, "close")) =
            depth[t] + IF saying[t].kind = "close" THEN 1 ELSE 0

\* Line j of t is the entry of a scope, at depth d, that t has not come back to since.
Encloses(t, j, text, d) ==
    /\ j \in LinesOf(t, "open")
    /\ out[j].say.text = text
    /\ out[j].depth = d
    /\ \A m \in Lines(t) : j < m => out[m].depth > d
EnclosedInv ==
    \A t \in Tracers :
        /\ \A d \in 1..depth[t] : \E j \in Lines(t) : Encloses(t, j, scopes[t][d], d - 1)
        /\ saying[t].kind = "close" =>
              \E j \in Lines(t) : Encloses(t, j, saying[t].text, depth[t])

NestInv == BalanceInv /\ EnclosedInv /\ TraceIsNested

-----------------------------------------------------------------------------
LEMMA TracersFacts ==
    /\ "main" \in Tracers /\ Nobody \notin Tracers
    /\ Threads \subseteq Tracers
BY ThreadsAssumption DEF Tracers, Nobody

LEMMA LifeSays ==
    ASSUME NEW n \in Nat, n < Len(Life)
    PROVE  Life[n + 1] \in Saids
<1>1. Len(Life) = 7
  BY DEF Life
<1>2. n \in 0..6
  BY <1>1
<1>3. n = 0 \/ n = 1 \/ n = 2 \/ n = 3 \/ n = 4 \/ n = 5 \/ n = 6
  BY <1>2
<1> DEFINE IsSaid(x) == x \in Saids
<1>4. /\ IsSaid(Life[1]) /\ IsSaid(Life[2]) /\ IsSaid(Life[3]) /\ IsSaid(Life[4])
      /\ IsSaid(Life[5]) /\ IsSaid(Life[6]) /\ IsSaid(Life[7])
  <2> DEFINE Record(k, x) == [kind |-> k, text |-> x]
  <2>1. \A k \in {"open", "close", "line"}, x \in Text : IsSaid(Record(k, x))
    BY DEF Saids
  <2>2. /\ "gso" \in Text /\ "main" \in Text /\ "inner" \in Text /\ "atexit" \in Text
    BY DEF Text
  <2>3. /\ Life[1] = Record("open", "gso") /\ Life[2] = Record("open", "main")
        /\ Life[3] = Record("open", "inner") /\ Life[4] = Record("close", "inner")
        /\ Life[5] = Record("close", "main") /\ Life[6] = Record("line", "atexit")
        /\ Life[7] = Record("close", "gso")
    BY DEF Life
  <2> HIDE DEF Record, IsSaid
  <2>4. QED
    BY <2>1, <2>2, <2>3
<1> HIDE DEF IsSaid
<1>5. IsSaid(Life[n + 1])
  BY <1>3, <1>4
<1>6. QED
  BY <1>5 DEF IsSaid

(* Steps by what they change: the beginning of a line, and the parts of print(). *)

\* A thread that is outside print() begins a line; its scopes and its depth may change.
Begins(t) ==
    /\ printAt[t] = "out"
    /\ \E say \in Saids :
          /\ Says(t, say)
          /\ CASE say.kind = "open" ->
                    scopes' = [scopes EXCEPT ![t] = Append(@, say.text)] /\ depth' = depth
               [] say.kind = "close" ->
                    /\ scopes[t] # <<>>
                    /\ say.text = Last(scopes[t])
                    /\ scopes' = [scopes EXCEPT ![t] = Front(@)]
                    /\ depth' = [depth EXCEPT ![t] = @ - 1]
               [] say.kind = "line" -> scopes' = scopes /\ depth' = depth

LEMMA OpensBegins ==
    ASSUME NEW t \in Tracers, NEW text \in Text, Opens(t, text)
    PROVE  Begins(t)
<1> DEFINE say == [kind |-> "open", text |-> text]
<1>1. /\ say \in Saids
      /\ say.kind = "open" /\ say.text = text
  BY DEF Saids
<1>2. Says(t, say) /\ printAt[t] = "out" /\ depth' = depth
      /\ scopes' = [scopes EXCEPT ![t] = Append(@, say.text)]
  BY DEF Opens, Says
<1> HIDE DEF say
<1>3. QED
  BY <1>1, <1>2 DEF Begins

LEMMA ClosesBegins ==
    ASSUME NEW t \in Tracers, TraceType, Closes(t)
    PROVE  Begins(t)
<1> DEFINE say == [kind |-> "close", text |-> Last(scopes[t])]
<1>1. scopes[t] # <<>> /\ scopes[t] \in Seq(Text)
  BY DEF Closes, TraceType
<1>2. Last(scopes[t]) \in Text
  <2> DEFINE s == scopes[t]
  <2>1. s \in Seq(Text) /\ Len(s) \in 1..Len(s)
    BY <1>1
  <2>2. s[Len(s)] \in Text
    BY <2>1
  <2>3. QED
    BY <2>2 DEF Last
<1>3. /\ say \in Saids
      /\ say.kind = "close" /\ say.text = Last(scopes[t])
  BY <1>2 DEF Saids
<1>4. /\ Says(t, say) /\ printAt[t] = "out"
      /\ scopes' = [scopes EXCEPT ![t] = Front(@)]
      /\ depth' = [depth EXCEPT ![t] = @ - 1]
  BY DEF Closes, Says, LeaveBefore
<1> HIDE DEF say
<1>5. QED
  BY <1>1, <1>3, <1>4 DEF Begins

LEMMA MainBegins ==
    ASSUME TraceType, MainSteps
    PROVE  Begins("main") /\ mainDone' \in Nat
<1> DEFINE say == Life[mainDone + 1]
<1>1. mainDone \in Nat /\ mainDone < Len(Life) /\ mainDone' = mainDone + 1
  BY DEF MainSteps, TraceType
<1>2. say \in Saids
  BY <1>1, LifeSays
<1>3. CASE say.kind = "open"
  <2>1. Opens("main", say.text) /\ say.text \in Text
    BY <1>2, <1>3 DEF MainSteps, Saids
  <2>2. QED
    <3> HIDE DEF say
    <3>1. QED
      BY <1>1, <2>1, OpensBegins, TracersFacts
<1>4. CASE say.kind = "close"
  <2>1. Closes("main")
    BY <1>4 DEF MainSteps
  <2>2. QED
    BY <1>1, <2>1, ClosesBegins, TracersFacts
<1>5. CASE say.kind = "line"
  <2>1. Says("main", say) /\ scopes' = scopes /\ depth' = depth /\ printAt["main"] = "out"
    BY <1>5 DEF MainSteps, Says
  <2> HIDE DEF say
  <2>2. QED
    <3>1. Begins("main")
      BY <1>2, <1>5, <2>1, Zenon DEF Begins
    <3>2. QED
      BY <1>1, <3>1
<1>6. say.kind \in {"open", "close", "line"}
  BY <1>2 DEF Saids
<1>7. QED
  BY <1>3, <1>4, <1>5, <1>6

LEMMA StepCases ==
    ASSUME TraceType, [TraceNext]_traceVars
    PROVE  \/ UNCHANGED <<scopes, depth, number, nextNumber, saying, printAt, printer, out>>
              /\ mainDone' = mainDone
           \/ \E t \in Tracers : Begins(t) /\ mainDone' \in Nat
           \/ \E t \in Tracers : Prints(t) /\ mainDone' = mainDone
<1>1. CASE MainSteps
  BY <1>1, MainBegins, TracersFacts
<1>2. ASSUME NEW t \in Threads, Enters(t)
      PROVE  Begins(t) /\ mainDone' \in Nat
  <2>1. PICK text \in Text : Opens(t, text)
    BY <1>2 DEF Enters, Text
  <2>2. mainDone' \in Nat
    BY <1>2 DEF Enters, TraceType
  <2>3. QED
    BY <2>1, <2>2, OpensBegins, TracersFacts
<1>3. ASSUME NEW t \in Threads, Exits(t)
      PROVE  Begins(t) /\ mainDone' \in Nat
  BY <1>3, ClosesBegins, TracersFacts DEF Exits, TraceType
<1>4. ASSUME NEW t \in Tracers, Prints(t)
      PROVE  mainDone' = mainDone
  BY <1>4 DEF Prints, PrintLocks, ReadsNumber, Increments, WritesHead, WritesText,
     PrintUnchanged
<1>5. CASE UNCHANGED traceVars
  BY <1>5 DEF traceVars
<1>6. QED
  BY <1>1, <1>2, <1>3, <1>4, <1>5, TracersFacts DEF TraceNext

-----------------------------------------------------------------------------
(* What is written: one part after another.                                *)

LEMMA PartWritten ==
    ASSUME TraceType, NEW t \in Tracers, NEW part \in {"head", "text"}, Writes(t, part)
    PROVE  /\ out' \in Seq(Part)
           /\ Len(out) \in Nat /\ Len(out') = Len(out) + 1
           /\ \A i \in 1..Len(out) : out'[i] = out[i] /\ out[i] \in Part
           /\ out'[Len(out) + 1].thread = t /\ out'[Len(out) + 1].part = part
           /\ out'[Len(out) + 1].number = number[t]
           /\ out'[Len(out) + 1].depth = depth[t]
           /\ out'[Len(out) + 1].say = saying[t]
<1> DEFINE p == [thread |-> t, part |-> part, number |-> number[t],
                 depth |-> depth[t], say |-> saying[t]]
<1>1. out' = Append(out, p) /\ out \in Seq(Part)
  BY DEF Writes, TraceType
<1>2. p \in Part
  <2>1. number[t] \in Int /\ depth[t] \in Int /\ saying[t] \in Say
    BY DEF TraceType
  <2>2. QED
    BY <2>1 DEF Part
<1>3. /\ p.thread = t /\ p.part = part /\ p.number = number[t]
      /\ p.depth = depth[t] /\ p.say = saying[t]
  OBVIOUS
<1> HIDE DEF p
<1>4. /\ out' \in Seq(Part) /\ Len(out) \in Nat /\ Len(out') = Len(out) + 1
      /\ \A i \in 1..Len(out) : out'[i] = out[i] /\ out[i] \in Part
      /\ out'[Len(out) + 1] = p
  BY <1>1, <1>2
<1>5. QED
  BY <1>3, <1>4

LEMMA PartType ==
    ASSUME TraceType, NEW i \in 1..Len(out)
    PROVE  /\ out[i].thread \in Tracers /\ out[i].number \in Int /\ out[i].depth \in Int
           /\ out[i].part \in {"head", "text"} /\ out[i].say \in Say
<1>1. out[i] \in Part
  BY DEF TraceType
<1>2. QED
  BY <1>1 DEF Part

LEMMA FrontFacts ==
    ASSUME NEW S, NEW s \in Seq(S), s # <<>>
    PROVE  /\ Front(s) \in Seq(S) /\ Len(s) \in Nat \ {0} /\ Len(Front(s)) = Len(s) - 1
           /\ \A i \in 1..(Len(s) - 1) : Front(s)[i] = s[i]
<1> DEFINE n == Len(s) - 1
<1>1. Len(s) \in Nat \ {0}
  OBVIOUS
<1>2. n \in Nat /\ n \in Int /\ \A i \in 1..n : s[i] \in S
  BY <1>1
<1>3. Front(s) = SubSeq(s, 1, n)
  BY DEF Front
<1> HIDE DEF n
<1>4. /\ SubSeq(s, 1, n) \in Seq(S)
      /\ Len(SubSeq(s, 1, n)) = IF 1 <= n THEN n - 1 + 1 ELSE 0
      /\ \A i \in 1..(n - 1 + 1) : SubSeq(s, 1, n)[i] = s[1 + i - 1]
  BY <1>2, SubSeqProperties
<1>5. n - 1 + 1 = n /\ \A i \in 1..n : 1 + i - 1 = i
  BY <1>2
<1>6. Len(SubSeq(s, 1, n)) = n
  <2>1. CASE 1 <= n
    BY <1>4, <1>5, <2>1
  <2>2. CASE n = 0
    BY <1>4, <2>2
  <2>3. QED
    BY <1>2, <2>1, <2>2
<1>7. \A i \in 1..n : SubSeq(s, 1, n)[i] = s[i]
  <2> TAKE i \in 1..n
  <2>1. i \in 1..(n - 1 + 1) /\ 1 + i - 1 = i
    BY <1>5
  <2>2. SubSeq(s, 1, n)[i] = s[1 + i - 1]
    BY <1>4, <2>1
  <2>3. QED
    BY <2>1, <2>2
<1>8. Len(Front(s)) = n /\ Front(s) \in Seq(S) /\ \A i \in 1..n : Front(s)[i] = s[i]
  BY <1>3, <1>4, <1>6, <1>7
<1>9. QED
  BY <1>1, <1>8 DEF n

-----------------------------------------------------------------------------
LEMMA PartsInvInit == TraceInit => PartsInv
<1> SUFFICES ASSUME TraceInit PROVE PartsInv
    OBVIOUS
<1>1. TraceType
  <2>1. Silent \in Say
    BY DEF Silent, Say, Text
  <2>2. QED
    BY <2>1 DEF TraceInit, TraceType, Unnumbered
<1>2. MutexInv
  BY TracersFacts DEF TraceInit, MutexInv
<1>3. Len(out) = 0
  BY DEF TraceInit
<1>4. WholeInv
  BY <1>3 DEF TraceInit, WholeInv
<1>5. NumberInv
  BY <1>3 DEF TraceInit, NumberInv
<1>6. SayingInv
  BY DEF TraceInit, SayingInv, Silent
<1>7. QED
  BY <1>1, <1>2, <1>4, <1>5, <1>6 DEF PartsInv

\* Outside print() a thread changes nothing that the parts depend on.
LEMMA BeginsKeepsParts ==
    ASSUME PartsInv, mainDone' \in Nat, NEW t \in Tracers, Begins(t)
    PROVE  PartsInv'
<1>1. /\ TraceType /\ MutexInv /\ WholeInv /\ NumberInv /\ SayingInv
      /\ printAt[t] = "out" /\ printAt' = [printAt EXCEPT ![t] = "lock"]
      /\ UNCHANGED <<number, nextNumber, printer, out>>
  BY DEF PartsInv, Begins, Says
<1>2. \A u \in Tracers : printAt'[u] = IF u = t THEN "lock" ELSE printAt[u]
  BY <1>1 DEF TraceType
<1>3. saying[t].kind = "none" /\ Len(scopes[t]) = depth[t]
      /\ scopes[t] \in Seq(Text) /\ depth[t] \in Nat
  <2>1. saying[t].kind = "none"
    BY <1>1 DEF SayingInv
  <2>2. Len(scopes[t]) = depth[t] + IF saying[t].kind = "open" THEN 1 ELSE 0
    BY <1>1 DEF SayingInv
  <2>3. scopes[t] \in Seq(Text) /\ depth[t] \in Nat
    BY <1>1 DEF TraceType
  <2>4. saying[t].kind # "open"
    BY <2>1
  <2>5. QED
    BY <2>1, <2>2, <2>3, <2>4
<1>4. PICK say \in Saids :
          /\ saying' = [saying EXCEPT ![t] = say]
          /\ CASE say.kind = "open" ->
                    scopes' = [scopes EXCEPT ![t] = Append(@, say.text)] /\ depth' = depth
               [] say.kind = "close" ->
                    /\ scopes[t] # <<>>
                    /\ say.text = Last(scopes[t])
                    /\ scopes' = [scopes EXCEPT ![t] = Front(@)]
                    /\ depth' = [depth EXCEPT ![t] = @ - 1]
               [] say.kind = "line" -> scopes' = scopes /\ depth' = depth
  BY DEF Begins, Says
<1>5. say \in Say /\ say.kind \in {"open", "close", "line"} /\ say.text \in Text
  BY DEF Saids, Say
<1>6. saying' \in [Tracers -> Say]
      /\ \A u \in Tracers : saying'[u] = IF u = t THEN say ELSE saying[u]
  BY <1>1, <1>4, <1>5 DEF TraceType
<1>7. /\ scopes' \in [Tracers -> Seq(Text)] /\ depth' \in [Tracers -> Nat]
      /\ \A u \in Tracers \ {t} : scopes'[u] = scopes[u] /\ depth'[u] = depth[u]
      /\ Len(scopes'[t]) = depth'[t] + IF say.kind = "open" THEN 1 ELSE 0
      /\ say.kind = "open" => say.text = Last(scopes'[t])
  <2>0. scopes \in [Tracers -> Seq(Text)] /\ depth \in [Tracers -> Nat]
    BY <1>1 DEF TraceType
  <2>1. CASE say.kind = "open"
    <3>1. depth' = depth /\ scopes' = [scopes EXCEPT ![t] = Append(scopes[t], say.text)]
      BY <1>4, <2>1
    <3>2. /\ Append(scopes[t], say.text) \in Seq(Text)
          /\ Len(Append(scopes[t], say.text)) = Len(scopes[t]) + 1
          /\ Append(scopes[t], say.text)[Len(scopes[t]) + 1] = say.text
      BY <1>3, <1>5
    <3>3. scopes'[t] = Append(scopes[t], say.text)
      BY <2>0, <3>1
    <3>4. QED
      BY <1>3, <2>0, <2>1, <3>1, <3>2, <3>3 DEF Last
  <2>2. CASE say.kind = "close"
    <3> DEFINE s == scopes[t]
    <3>1. s # <<>> /\ scopes' = [scopes EXCEPT ![t] = Front(s)]
          /\ depth' = [depth EXCEPT ![t] = @ - 1]
      BY <1>4, <2>2
    <3>2. Front(s) \in Seq(Text) /\ Len(Front(s)) = Len(s) - 1 /\ Len(s) \in Nat \ {0}
      BY <1>3, <3>1, FrontFacts
    <3>3. scopes'[t] = Front(s) /\ depth'[t] = depth[t] - 1 /\ depth[t] - 1 \in Nat
      BY <1>3, <2>0, <3>1, <3>2
    <3>4. QED
      BY <1>3, <2>0, <2>2, <3>1, <3>2, <3>3
  <2>3. CASE say.kind = "line"
    BY <1>3, <1>4, <2>0, <2>3
  <2>4. QED
    BY <1>5, <2>1, <2>2, <2>3
<1>8. TraceType'
  BY <1>1, <1>2, <1>6, <1>7 DEF TraceType
<1>9. MutexInv' /\ WholeInv' /\ NumberInv'
  BY <1>1, <1>2 DEF MutexInv, WholeInv, NumberInv
<1>10. SayingInv'
  BY <1>1, <1>2, <1>5, <1>6, <1>7 DEF SayingInv
<1>11. QED
  BY <1>8, <1>9, <1>10 DEF PartsInv

LEMMA PrintsKeepsParts ==
    ASSUME PartsInv, mainDone' = mainDone, NEW t \in Tracers, Prints(t)
    PROVE  PartsInv'
<1> USE DEF PartsInv
<1>0. /\ number \in [Tracers -> Int] /\ nextNumber \in Nat
      /\ printAt \in [Tracers -> {"out", "lock", "number", "increment", "text"}]
      /\ depth \in [Tracers -> Nat] /\ saying \in [Tracers -> Say]
  BY DEF TraceType
<1>1. CASE PrintLocks(t)
  <2>1. printAt' = [printAt EXCEPT ![t] = "number"] /\ printAt[t] = "lock" /\ printer' = t
        /\ printer = Nobody
        /\ UNCHANGED <<mainDone, scopes, saying, depth, number, nextNumber, out>>
    BY <1>1 DEF PrintLocks, PrintUnchanged, MutexFree
  <2>2. \A u \in Tracers : printAt'[u] = IF u = t THEN "number" ELSE printAt[u]
    BY <1>0, <2>1
  <2>3. TraceType'
    BY <1>0, <2>1, <2>2 DEF TraceType
  <2>4. MutexInv'
    BY <2>1, <2>2, TracersFacts DEF MutexInv
  <2>5. WholeInv' /\ NumberInv'
    BY <2>1, <2>2 DEF WholeInv, NumberInv
  <2>6. SayingInv'
    BY <2>1, <2>2 DEF SayingInv
  <2>7. QED
    BY <2>3, <2>4, <2>5, <2>6
<1>2. CASE ReadsNumber(t)
  <2>1. /\ printAt' = [printAt EXCEPT ![t] = "increment"] /\ printAt[t] = "number"
        /\ number' = [number EXCEPT ![t] = nextNumber] /\ number[t] = Unnumbered
        /\ UNCHANGED <<mainDone, scopes, saying, depth, printer, nextNumber, out>>
    BY <1>2 DEF ReadsNumber, PrintUnchanged
  <2>2. /\ \A u \in Tracers : printAt'[u] = IF u = t THEN "increment" ELSE printAt[u]
        /\ \A u \in Tracers : number'[u] = IF u = t THEN nextNumber ELSE number[u]
    BY <1>0, <2>1
  <2>3. TraceType'
    BY <1>0, <2>1, <2>2 DEF TraceType
  <2>4. MutexInv' /\ SayingInv'
    BY <2>1, <2>2 DEF MutexInv, SayingInv
  <2>5. WholeInv'
    BY <2>1, <2>2 DEF WholeInv
  <2>6. \A u \in Tracers : u # t => printAt[u] # "increment"
    BY <2>1 DEF MutexInv
  <2>7. \A u \in Tracers : number[u] # Unnumbered => u # t /\ number[u] < nextNumber
    BY <2>1, <2>6 DEF NumberInv
  <2>8. NumberInv'
    <3>1. \A i \in 1..Len(out) : out'[i].number = number'[out'[i].thread]
                                 /\ out'[i].number # Unnumbered
      <4> TAKE i \in 1..Len(out)
      <4>1. out[i].thread \in Tracers
        BY PartType
      <4>2. out[i].number = number[out[i].thread] /\ out[i].number # Unnumbered
        BY DEF NumberInv
      <4>3. QED
        BY <2>1, <2>2, <4>1, <4>2
    <3>2. \A u, v \in Tracers : number'[u] # Unnumbered /\ number'[u] = number'[v] => u = v
      <4> TAKE u, v \in Tracers
      <4>1. number[u] # Unnumbered /\ number[u] = number[v] => u = v
        BY DEF NumberInv
      <4>2. nextNumber \in Nat /\ nextNumber # Unnumbered
        BY <1>0 DEF Unnumbered
      <4>3. number[u] # Unnumbered => number[u] # nextNumber
        BY <1>0, <2>7
      <4>4. number[v] # Unnumbered => number[v] # nextNumber
        BY <1>0, <2>7
      <4>5. QED
        BY <2>2, <4>1, <4>2, <4>3, <4>4
    <3>3. \A u \in Tracers : number'[u] # Unnumbered =>
              number'[u] < nextNumber
              \/ (printAt'[u] = "increment" /\ number'[u] = nextNumber)
      BY <2>2, <2>7
    <3>4. \A u \in Tracers : printAt'[u] = "increment" => number'[u] = nextNumber
      BY <2>2, <2>6
    <3>5. \A u \in Tracers : printAt'[u] = "text" => number'[u] # Unnumbered
      BY <2>2 DEF NumberInv
    <3>6. QED
      BY <2>1, <3>1, <3>2, <3>3, <3>4, <3>5 DEF NumberInv
  <2>9. QED
    BY <2>3, <2>4, <2>5, <2>8
<1>3. CASE Increments(t)
  <2>1. /\ printAt' = [printAt EXCEPT ![t] = "number"] /\ printAt[t] = "increment"
        /\ nextNumber' = number[t] + 1
        /\ UNCHANGED <<mainDone, scopes, saying, depth, printer, number, out>>
    BY <1>3 DEF Increments, PrintUnchanged
  <2>2. \A u \in Tracers : printAt'[u] = IF u = t THEN "number" ELSE printAt[u]
    BY <1>0, <2>1
  <2>3. number[t] = nextNumber /\ nextNumber' = nextNumber + 1
    BY <2>1 DEF NumberInv
  <2>4. TraceType'
    BY <1>0, <2>1, <2>2, <2>3 DEF TraceType
  <2>5. MutexInv' /\ SayingInv' /\ WholeInv'
    BY <2>1, <2>2 DEF MutexInv, SayingInv, WholeInv
  <2>6. NumberInv'
    <3>1. nextNumber \in Nat /\ nextNumber # Unnumbered /\ number' = number
      BY <1>0, <2>1 DEF Unnumbered
    <3>2. \A u \in Tracers : number[u] \in Int
      BY <1>0
    <3>3. \A u \in Tracers : number[u] # Unnumbered => number[u] < nextNumber + 1
      BY <3>1, <3>2 DEF NumberInv
    <3>4. \A u \in Tracers : printAt'[u] # "increment"
      BY <2>1, <2>2 DEF MutexInv
    <3>5. \A u \in Tracers : printAt'[u] = "text" => number[u] # Unnumbered
      BY <2>2 DEF NumberInv
    <3>6. QED
      BY <2>1, <2>3, <3>1, <3>3, <3>4, <3>5 DEF NumberInv
  <2>7. QED
    BY <2>4, <2>5, <2>6
<1>4. CASE WritesHead(t)
  <2>1. /\ printAt' = [printAt EXCEPT ![t] = "text"] /\ printAt[t] = "number"
        /\ number[t] # Unnumbered /\ Writes(t, "head")
        /\ UNCHANGED <<mainDone, scopes, saying, depth, printer, number, nextNumber>>
    BY <1>4 DEF WritesHead, PrintUnchanged
  <2>2. \A u \in Tracers : printAt'[u] = IF u = t THEN "text" ELSE printAt[u]
    BY <1>0, <2>1
  <2>3. /\ out' \in Seq(Part)
        /\ Len(out) \in Nat /\ Len(out') = Len(out) + 1
        /\ \A i \in 1..Len(out) : out'[i] = out[i]
        /\ out'[Len(out) + 1].thread = t /\ out'[Len(out) + 1].part = "head"
        /\ out'[Len(out) + 1].number = number[t]
    BY <2>1, PartWritten
  <2>4. TraceType'
    BY <1>0, <2>1, <2>2, <2>3 DEF TraceType
  <2>5. MutexInv' /\ SayingInv'
    BY <2>1, <2>2 DEF MutexInv, SayingInv
  <2>6. \A u \in Tracers : u # t => printAt[u] # "text"
    BY <2>1 DEF MutexInv
  <2>7. WholeInv'
    BY <2>2, <2>3, <2>6 DEF WholeInv
  <2>8. NumberInv'
    BY <2>1, <2>2, <2>3 DEF NumberInv
  <2>9. QED
    BY <2>4, <2>5, <2>7, <2>8
<1>5. CASE WritesText(t)
  <2>1. /\ printAt' = [printAt EXCEPT ![t] = "out"] /\ printAt[t] = "text"
        /\ saying' = [saying EXCEPT ![t] = Silent] /\ Writes(t, "text")
        /\ depth' = [depth EXCEPT ![t] = IF saying[t].kind = "open" THEN @ + 1 ELSE @]
        /\ printer' = Nobody
        /\ UNCHANGED <<mainDone, scopes, number, nextNumber>>
    BY <1>5 DEF WritesText
  <2>2. /\ \A u \in Tracers : printAt'[u] = IF u = t THEN "out" ELSE printAt[u]
        /\ \A u \in Tracers : saying'[u] = IF u = t THEN Silent ELSE saying[u]
        /\ \A u \in Tracers : depth'[u] =
              IF u = t /\ saying[t].kind = "open" THEN depth[u] + 1 ELSE depth[u]
    BY <1>0, <2>1
  <2>3. /\ out' \in Seq(Part)
        /\ Len(out) \in Nat /\ Len(out') = Len(out) + 1
        /\ \A i \in 1..Len(out) : out'[i] = out[i]
        /\ out'[Len(out) + 1].thread = t /\ out'[Len(out) + 1].part = "text"
        /\ out'[Len(out) + 1].number = number[t]
    BY <2>1, PartWritten
  <2>4. Silent \in Say /\ Silent.kind = "none"
    BY DEF Silent, Say, Text
  <2>5. TraceType'
    <3>1. saying' \in [Tracers -> Say]
      BY <1>0, <2>1, <2>4
    <3>2. depth' \in [Tracers -> Nat]
      BY <1>0, <2>1
    <3>3. QED
      BY <1>0, <2>1, <2>2, <2>3, <3>1, <3>2 DEF TraceType
  <2>6. \A u \in Tracers : u # t => printAt[u] \notin {"number", "increment", "text"}
    BY <2>1 DEF MutexInv
  <2>7. MutexInv'
    BY <2>1, <2>2, <2>6, TracersFacts DEF MutexInv
  <2>8. SayingInv'
    BY <1>0, <2>1, <2>2, <2>4 DEF SayingInv
  <2>9. WholeInv'
    BY <2>1, <2>2, <2>3, <2>6 DEF WholeInv
  <2>10. NumberInv'
    BY <2>1, <2>2, <2>3, <2>6 DEF NumberInv
  <2>11. QED
    BY <2>5, <2>7, <2>8, <2>9, <2>10
<1>6. QED
  BY <1>1, <1>2, <1>3, <1>4, <1>5 DEF Prints

LEMMA PartsInvStep == PartsInv /\ [TraceNext]_traceVars => PartsInv'
<1> SUFFICES ASSUME PartsInv, [TraceNext]_traceVars PROVE PartsInv'
    OBVIOUS
<1>1. CASE UNCHANGED <<scopes, depth, number, nextNumber, saying, printAt, printer, out>>
           /\ mainDone' = mainDone
  BY <1>1 DEF PartsInv, TraceType, MutexInv, WholeInv, NumberInv, SayingInv
<1>2. QED
  BY <1>1, StepCases, BeginsKeepsParts, PrintsKeepsParts DEF PartsInv

LEMMA PartsInvariant == TraceSpec => []PartsInv
BY PartsInvInit, PartsInvStep, PTL DEF TraceSpec

\* The lines of concurrent threads do not mix, and a number names one thread: the
\* mutex of print() covers the parts of a line and the initialisation of s_tid.
THEOREM WholeCorrect == TraceSpec => []LinesAreWhole
<1>1. PartsInv => LinesAreWhole
  <2> SUFFICES ASSUME PartsInv PROVE LinesAreWhole
      OBVIOUS
  <2>1. \A i, j \in 1..Len(out) :
            out[i].number = out[j].number => out[i].thread = out[j].thread
    <3> TAKE i, j \in 1..Len(out)
    <3>1. out[i].thread \in Tracers /\ out[j].thread \in Tracers
      BY PartType DEF PartsInv
    <3>2. QED
      BY <3>1 DEF PartsInv, NumberInv
  <2>2. QED
    BY <2>1 DEF PartsInv, WholeInv, LinesAreWhole
<1>2. QED
  BY <1>1, PartsInvariant, PTL

-----------------------------------------------------------------------------
(* The lines of a thread nest.                                             *)

\* What was written stays.
Grows ==
    /\ Len(out) \in Nat /\ Len(out') \in Nat /\ Len(out) <= Len(out')
    /\ \A i \in 1..Len(out) : out'[i] = out[i]

\* TraceIsNested of one line.
LineNests(t, i) ==
    /\ out[i].say.kind # "close" =>
           out[i].depth =
               Cardinality(LinesBefore(i, "open")) - Cardinality(LinesBefore(i, "close"))
    /\ out[i].say.kind = "close" =>
           \E j \in LinesBefore(i, "open") :
               /\ out[j].say.text = out[i].say.text
               /\ out[j].depth = out[i].depth
               /\ \A m \in Lines(t) : j < m /\ m < i => out[m].depth > out[i].depth

LEMMA NestedByLine == TraceIsNested <=> \A t \in Tracers : \A i \in Lines(t) : LineNests(t, i)
BY DEF TraceIsNested, LineNests

LEMMA NestedByLineAfter ==
    TraceIsNested' <=> \A t \in Tracers : \A i \in Lines(t)' : LineNests(t, i)'
BY DEF TraceIsNested, LineNests

LEMMA OldLines ==
    ASSUME Grows, NEW t, NEW i \in 1..Len(out)
    PROVE  i \in Lines(t)' <=> i \in Lines(t)
<1>1. i \in 1..Len(out') /\ out'[i] = out[i]
  BY DEF Grows
<1>2. QED
  BY <1>1 DEF Lines

LEMMA LineBounds ==
    ASSUME NEW t, NEW i \in Lines(t)
    PROVE  i \in 1..Len(out) /\ out[i].thread = t
BY DEF Lines

LEMMA LinesBeforeKept ==
    ASSUME Grows, NEW i \in 1..Len(out), NEW kind
    PROVE  LinesBefore(i, kind)' = LinesBefore(i, kind)
<1>1. out'[i] = out[i]
  BY DEF Grows
<1>2. \A j : j \in LinesBefore(i, kind) <=>
          /\ j \in 1..Len(out) /\ out[j].thread = out[i].thread /\ out[j].part = "text"
          /\ j < i /\ out[j].say.kind = kind
  BY DEF LinesBefore, Lines
<1>3. \A j : j \in LinesBefore(i, kind)' <=>
          /\ j \in 1..Len(out') /\ out'[j].thread = out'[i].thread /\ out'[j].part = "text"
          /\ j < i /\ out'[j].say.kind = kind
  BY DEF LinesBefore, Lines
<1>4. \A j : j < i => /\ j \in 1..Len(out) <=> j \in 1..Len(out')
                      /\ j \in 1..Len(out) => out'[j] = out[j]
  BY DEF Grows
<1>5. \A j : j \in LinesBefore(i, kind)' <=> j \in LinesBefore(i, kind)
  BY <1>1, <1>2, <1>3, <1>4
<1>6. QED
  BY <1>5

\* A line that is written nests as before, whatever follows it.
LEMMA OldLineNests ==
    ASSUME Grows, NEW t, NEW i \in Lines(t), LineNests(t, i)
    PROVE  LineNests(t, i)'
<1>1. /\ i \in 1..Len(out) /\ out'[i] = out[i]
      /\ LinesBefore(i, "open")' = LinesBefore(i, "open")
      /\ LinesBefore(i, "close")' = LinesBefore(i, "close")
  BY LineBounds, LinesBeforeKept DEF Grows
<1>2. CASE out[i].say.kind # "close"
  BY <1>1, <1>2 DEF LineNests
<1>3. CASE out[i].say.kind = "close"
  <2>1. PICK j \in LinesBefore(i, "open") :
            /\ out[j].say.text = out[i].say.text
            /\ out[j].depth = out[i].depth
            /\ \A m \in Lines(t) : j < m /\ m < i => out[m].depth > out[i].depth
    BY <1>3 DEF LineNests
  <2>2. j \in 1..Len(out) /\ out'[j] = out[j]
    BY DEF LinesBefore, Lines, Grows
  <2>3. ASSUME NEW m \in Lines(t)', j < m, m < i
        PROVE  out'[m].depth > out'[i].depth
    <3>1. m \in 1..Len(out)
      BY <1>1, <2>3 DEF Lines, Grows
    <3>2. m \in Lines(t) /\ out'[m] = out[m]
      BY <3>1, OldLines DEF Grows
    <3>3. QED
      BY <1>1, <2>1, <2>3, <3>2
  <2>4. j \in LinesBefore(i, "open")'
    BY <1>1
  <2>5. QED
    BY <1>1, <1>3, <2>1, <2>2, <2>3, <2>4 DEF LineNests
<1>4. QED
  BY <1>2, <1>3

\* Encloses of the next state, for a text and a depth of this one.
EnclosesAfter(t, j, text, d) ==
    /\ j \in LinesOf(t, "open")'
    /\ out'[j].say.text = text
    /\ out'[j].depth = d
    /\ \A m \in Lines(t)' : j < m => out'[m].depth > d

LEMMA EnclosedInvAfter ==
    EnclosedInv' <=>
        \A t \in Tracers :
            /\ \A d \in 1..depth'[t] :
                  \E j \in Lines(t)' : EnclosesAfter(t, j, scopes'[t][d], d - 1)
            /\ saying'[t].kind = "close" =>
                  \E j \in Lines(t)' : EnclosesAfter(t, j, saying'[t].text, depth'[t])
BY DEF EnclosedInv, Encloses, EnclosesAfter

\* A thread whose lines are the same has the same entries, exits and open scopes.
LEMMA LinesKept ==
    ASSUME Grows, NEW t, Lines(t)' = Lines(t)
    PROVE  /\ \A kind : LinesOf(t, kind)' = LinesOf(t, kind)
           /\ \A j, text, d : EnclosesAfter(t, j, text, d) <=> Encloses(t, j, text, d)
<1>1. \A j \in Lines(t) : out'[j] = out[j]
  BY DEF Lines, Grows
<1>2. ASSUME NEW kind PROVE LinesOf(t, kind)' = LinesOf(t, kind)
  BY <1>1 DEF LinesOf
<1>3. ASSUME NEW j, NEW text, NEW d
      PROVE  EnclosesAfter(t, j, text, d) <=> Encloses(t, j, text, d)
  <2>1. LinesOf(t, "open")' = LinesOf(t, "open") /\ LinesOf(t, "open") \subseteq Lines(t)
    BY <1>2 DEF LinesOf
  <2>2. QED
    BY <1>1, <2>1 DEF Encloses, EnclosesAfter
<1>4. QED
  BY <1>2, <1>3

LEMMA NestKept ==
    ASSUME Grows, NestInv, UNCHANGED <<scopes, depth, saying>>,
           \A t \in Tracers : Lines(t)' = Lines(t)
    PROVE  NestInv'
<1>1. BalanceInv'
  <2>1. SUFFICES ASSUME NEW t \in Tracers
                 PROVE  Cardinality(LinesOf(t, "open")') - Cardinality(LinesOf(t, "close")')
                            = depth'[t] + IF saying'[t].kind = "close" THEN 1 ELSE 0
    BY DEF BalanceInv
  <2>2. LinesOf(t, "open")' = LinesOf(t, "open") /\ LinesOf(t, "close")' = LinesOf(t, "close")
    BY LinesKept
  <2>3. QED
    BY <2>2 DEF NestInv, BalanceInv
<1>2. EnclosedInv'
  BY LinesKept, EnclosedInvAfter DEF NestInv, EnclosedInv
<1>3. TraceIsNested'
  BY NestedByLine, NestedByLineAfter, OldLineNests DEF NestInv
<1>4. QED
  BY <1>1, <1>2, <1>3 DEF NestInv

\* What a thread that begins a line does to its scopes and its depth.
LEMMA BeginsFacts ==
    ASSUME PartsInv, NEW t \in Tracers, Begins(t)
    PROVE  \E say \in Saids :
              /\ saying[t].kind = "none"
              /\ \A u \in Tracers : saying'[u] = IF u = t THEN say ELSE saying[u]
              /\ \A u \in Tracers \ {t} : scopes'[u] = scopes[u] /\ depth'[u] = depth[u]
              /\ depth[t] \in Nat
              /\ depth'[t] = IF say.kind = "close" THEN depth[t] - 1 ELSE depth[t]
              /\ \A d \in 1..depth'[t] : scopes'[t][d] = scopes[t][d]
              /\ say.kind = "close" => depth[t] > 0 /\ say.text = scopes[t][depth[t]]
<1>1. TraceType /\ SayingInv /\ printAt[t] = "out"
  BY DEF PartsInv, Begins
<1>2. PICK say \in Saids :
          /\ saying' = [saying EXCEPT ![t] = say]
          /\ CASE say.kind = "open" ->
                    scopes' = [scopes EXCEPT ![t] = Append(@, say.text)] /\ depth' = depth
               [] say.kind = "close" ->
                    /\ scopes[t] # <<>>
                    /\ say.text = Last(scopes[t])
                    /\ scopes' = [scopes EXCEPT ![t] = Front(@)]
                    /\ depth' = [depth EXCEPT ![t] = @ - 1]
               [] say.kind = "line" -> scopes' = scopes /\ depth' = depth
  BY DEF Begins, Says
<1>3. say.kind \in {"open", "close", "line"} /\ say.text \in Text
  BY DEF Saids
<1>4. \A u \in Tracers : saying'[u] = IF u = t THEN say ELSE saying[u]
  BY <1>1, <1>2 DEF TraceType
<1>5. saying[t].kind = "none"
  BY <1>1 DEF SayingInv
<1>6. scopes \in [Tracers -> Seq(Text)] /\ depth \in [Tracers -> Nat]
      /\ scopes[t] \in Seq(Text) /\ depth[t] \in Nat
  BY <1>1 DEF TraceType
<1>7. Len(scopes[t]) = depth[t]
  <2>1. Len(scopes[t]) = depth[t] + IF saying[t].kind = "open" THEN 1 ELSE 0
    BY <1>1 DEF SayingInv
  <2>2. saying[t].kind # "open"
    BY <1>5
  <2>3. QED
    BY <1>6, <2>1, <2>2
<1>8. \A u \in Tracers \ {t} : scopes'[u] = scopes[u] /\ depth'[u] = depth[u]
  BY <1>2, <1>3, <1>6
<1> DEFINE s == scopes[t]
<1>9. CASE say.kind = "close"
  <2>1. s # <<>> /\ s \in Seq(Text) /\ say.text = Last(s) /\ scopes'[t] = Front(s)
        /\ depth'[t] = depth[t] - 1
    BY <1>2, <1>6, <1>9
  <2>2. Len(s) \in Nat \ {0} /\ \A d \in 1..(Len(s) - 1) : Front(s)[d] = s[d]
    BY <2>1, FrontFacts
  <2>3. say.text = s[depth[t]]
    BY <1>7, <2>1 DEF Last
  <2>4. QED
    BY <1>4, <1>5, <1>6, <1>7, <1>8, <1>9, <2>1, <2>2, <2>3
<1>10. CASE say.kind = "open"
  <2>1. depth' = depth /\ scopes'[t] = Append(s, say.text)
    BY <1>2, <1>6, <1>10
  <2>2. \A d \in 1..Len(s) : Append(s, say.text)[d] = s[d]
    BY <1>3, <1>6
  <2>3. QED
    BY <1>4, <1>5, <1>6, <1>7, <1>8, <1>10, <2>1, <2>2
<1>11. CASE say.kind = "line"
  BY <1>2, <1>4, <1>5, <1>6, <1>8, <1>11
<1>12. QED
  BY <1>3, <1>9, <1>10, <1>11

LEMMA BeginsKeepsNest ==
    ASSUME PartsInv, NestInv, NEW t \in Tracers, Begins(t)
    PROVE  NestInv'
<1>1. out' = out /\ Len(out) \in Nat
  BY DEF Begins, Says, PartsInv, TraceType
<1>2. Grows /\ \A u : Lines(u)' = Lines(u)
  BY <1>1 DEF Grows, Lines
<1>3. PICK say \in Saids :
              /\ saying[t].kind = "none"
              /\ \A u \in Tracers : saying'[u] = IF u = t THEN say ELSE saying[u]
              /\ \A u \in Tracers \ {t} : scopes'[u] = scopes[u] /\ depth'[u] = depth[u]
              /\ depth[t] \in Nat
              /\ depth'[t] = IF say.kind = "close" THEN depth[t] - 1 ELSE depth[t]
              /\ \A d \in 1..depth'[t] : scopes'[t][d] = scopes[t][d]
              /\ say.kind = "close" => depth[t] > 0 /\ say.text = scopes[t][depth[t]]
  BY BeginsFacts
<1>4. BalanceInv'
  <2>1. SUFFICES ASSUME NEW u \in Tracers
                 PROVE  Cardinality(LinesOf(u, "open")') - Cardinality(LinesOf(u, "close")')
                            = depth'[u] + IF saying'[u].kind = "close" THEN 1 ELSE 0
    BY DEF BalanceInv
  <2>2. LinesOf(u, "open")' = LinesOf(u, "open") /\ LinesOf(u, "close")' = LinesOf(u, "close")
    BY <1>2, LinesKept
  <2> DEFINE balance == Cardinality(LinesOf(u, "open")) - Cardinality(LinesOf(u, "close"))
  <2>3. balance = depth[u] + IF saying[u].kind = "close" THEN 1 ELSE 0
    BY DEF NestInv, BalanceInv
  <2> HIDE DEF balance
  <2>4. balance = depth'[u] + IF saying'[u].kind = "close" THEN 1 ELSE 0
    <3>1. CASE u = t
      BY <1>3, <2>3, <3>1
    <3>2. CASE u # t
      BY <1>3, <2>3, <3>2
    <3>3. QED
      BY <3>1, <3>2
  <2>5. QED
    BY <2>2, <2>4 DEF balance
<1>5. EnclosedInv'
  <2>1. SUFFICES ASSUME NEW u \in Tracers
                 PROVE  /\ \A d \in 1..depth'[u] :
                              \E j \in Lines(u) : Encloses(u, j, scopes'[u][d], d - 1)
                        /\ saying'[u].kind = "close" =>
                              \E j \in Lines(u) : Encloses(u, j, saying'[u].text, depth'[u])
    BY <1>2, LinesKept, EnclosedInvAfter
  <2>2. /\ \A d \in 1..depth[u] : \E j \in Lines(u) : Encloses(u, j, scopes[u][d], d - 1)
        /\ saying[u].kind = "close" =>
              \E j \in Lines(u) : Encloses(u, j, saying[u].text, depth[u])
    BY DEF NestInv, EnclosedInv
  <2>3. CASE u # t
    BY <1>3, <2>2, <2>3
  <2>4. CASE u = t
    <3>1. \A d \in 1..depth'[u] : \E j \in Lines(u) : Encloses(u, j, scopes'[u][d], d - 1)
      BY <1>3, <2>2, <2>4
    <3>2. ASSUME saying'[u].kind = "close"
          PROVE  \E j \in Lines(u) : Encloses(u, j, saying'[u].text, depth'[u])
      <4>1. /\ say.kind = "close" /\ saying'[u].text = scopes[u][depth[u]]
            /\ depth[u] \in 1..depth[u] /\ depth'[u] = depth[u] - 1
        BY <1>3, <2>4, <3>2
      <4>2. QED
        BY <2>2, <4>1
    <3>3. QED
      BY <3>1, <3>2
  <2>5. QED
    BY <2>3, <2>4
<1>6. TraceIsNested'
  BY <1>2, NestedByLine, NestedByLineAfter, OldLineNests DEF NestInv
<1>7. QED
  BY <1>4, <1>5, <1>6 DEF NestInv

\* What a written part adds to the lines of its thread.
LEMMA LinesWritten ==
    ASSUME TraceType, NEW t \in Tracers, NEW part \in {"head", "text"}, Writes(t, part)
    PROVE  /\ Grows
           /\ \A u : u # t \/ part = "head" => Lines(u)' = Lines(u)
           /\ part = "text" => Lines(t)' = Lines(t) \cup {Len(out) + 1}
<1> DEFINE n == Len(out) + 1
<1>1. /\ Len(out) \in Nat /\ Len(out') = n
      /\ \A i \in 1..Len(out) : out'[i] = out[i]
      /\ out'[n].thread = t /\ out'[n].part = part
  BY PartWritten
<1>2. Grows
  BY <1>1 DEF Grows
<1>3. 1..n = (1..Len(out)) \cup {n}
  BY <1>1
<1> HIDE DEF n
<1>4. ASSUME NEW u
      PROVE  Lines(u)' = Lines(u) \cup {i \in {n} : u = t /\ part = "text"}
  <2>1. \A i : i \in Lines(u)' <=> i \in 1..n /\ out'[i].thread = u /\ out'[i].part = "text"
    BY <1>1 DEF Lines
  <2>2. \A i : i \in Lines(u) <=>
                  i \in 1..Len(out) /\ out[i].thread = u /\ out[i].part = "text"
    BY DEF Lines
  <2>3. \A i : i \in Lines(u)' <=>
                  i \in Lines(u) \/ (i = n /\ u = t /\ part = "text")
    BY <1>1, <1>3, <2>1, <2>2
  <2>4. QED
    BY <2>3
<1>5. QED
  BY <1>2, <1>4 DEF n

LEMMA LinesFinite ==
    ASSUME NEW t, NEW kind, Len(out) \in Nat
    PROVE  IsFiniteSet(LinesOf(t, kind)) /\ Cardinality(LinesOf(t, kind)) \in Nat
<1>1. LinesOf(t, kind) \in SUBSET (1..Len(out))
  BY DEF LinesOf, Lines
<1>2. IsFiniteSet(1..Len(out))
  BY FS_Interval
<1>3. IsFiniteSet(LinesOf(t, kind))
  BY <1>1, <1>2, FS_Subset
<1>4. QED
  BY <1>3, FS_CardinalityType

\* The thread's line of one kind: counted once, if it is of that kind.
LEMMA LinesCounted ==
    ASSUME TraceType, NEW t \in Tracers, Writes(t, "text"), NEW kind
    PROVE  Cardinality(LinesOf(t, kind)') =
               Cardinality(LinesOf(t, kind)) + IF saying[t].kind = kind THEN 1 ELSE 0
<1> DEFINE n == Len(out) + 1
<1>1. /\ Len(out) \in Nat /\ Lines(t)' = Lines(t) \cup {n} /\ out'[n].say = saying[t]
      /\ \A i \in Lines(t) : out'[i] = out[i] /\ i # n
  <2>1. Len(out) \in Nat /\ out'[n].say = saying[t]
        /\ \A i \in 1..Len(out) : out'[i] = out[i] /\ i # n
    BY PartWritten
  <2>2. QED
    BY <2>1, LinesWritten, LineBounds
<1> HIDE DEF n
<1>2. IsFiniteSet(LinesOf(t, kind)) /\ Cardinality(LinesOf(t, kind)) \in Nat
      /\ n \notin LinesOf(t, kind)
  BY <1>1, LinesFinite DEF LinesOf
<1>3. CASE saying[t].kind = kind
  <2>1. LinesOf(t, kind)' = LinesOf(t, kind) \cup {n}
    BY <1>1, <1>3 DEF LinesOf
  <2>2. QED
    BY <1>2, <1>3, <2>1, FS_AddElement
<1>4. CASE saying[t].kind # kind
  <2>1. LinesOf(t, kind)' = LinesOf(t, kind)
    BY <1>1, <1>4 DEF LinesOf
  <2>2. QED
    BY <1>2, <1>4, <2>1
<1>5. QED
  BY <1>3, <1>4

LEMMA TextKeepsNest ==
    ASSUME PartsInv, NestInv, NEW t \in Tracers, WritesText(t)
    PROVE  NestInv'
<1>0. PICK n : n = Len(out) + 1
  OBVIOUS
<1>1. /\ Writes(t, "text") /\ TraceType /\ SayingInv /\ printAt[t] = "text"
      /\ saying' = [saying EXCEPT ![t] = Silent] /\ scopes' = scopes
      /\ depth' = [depth EXCEPT ![t] = IF saying[t].kind = "open" THEN @ + 1 ELSE @]
  BY DEF WritesText, PartsInv
<1>2. /\ \A u \in Tracers : saying'[u] = IF u = t THEN Silent ELSE saying[u]
      /\ \A u \in Tracers : depth'[u] =
            IF u = t /\ saying[t].kind = "open" THEN depth[u] + 1 ELSE depth[u]
  BY <1>1 DEF TraceType
<1>3. /\ depth[t] \in Nat /\ saying[t].kind \in {"open", "close", "line"}
      /\ saying[t].kind = "open" =>
            Len(scopes[t]) = depth[t] + 1 /\ saying[t].text = scopes[t][depth[t] + 1]
  <2>1. saying[t] \in Say /\ depth[t] \in Nat /\ saying[t].kind # "none"
    BY <1>1 DEF TraceType, SayingInv
  <2>2. /\ Len(scopes[t]) = depth[t] + IF saying[t].kind = "open" THEN 1 ELSE 0
        /\ saying[t].kind = "open" => saying[t].text = Last(scopes[t])
    BY <1>1 DEF SayingInv
  <2>3. saying[t].kind \in {"open", "close", "line"}
    BY <2>1 DEF Say
  <2>4. ASSUME saying[t].kind = "open"
        PROVE  Len(scopes[t]) = depth[t] + 1 /\ saying[t].text = scopes[t][depth[t] + 1]
    BY <2>2, <2>4 DEF Last
  <2>5. QED
    BY <2>1, <2>3, <2>4
<1>4. /\ Len(out) \in Nat /\ Grows /\ n \in 1..Len(out')
      /\ out'[n].depth = depth[t] /\ out'[n].say = saying[t] /\ out'[n].thread = t
      /\ \A i \in 1..Len(out) : out'[i] = out[i] /\ i < n
      /\ Lines(t)' = Lines(t) \cup {n} /\ \A u : u # t => Lines(u)' = Lines(u)
  BY <1>0, <1>1, PartWritten, LinesWritten
<1>5. Silent.kind = "none"
  BY DEF Silent
<1>6. BalanceInv'
  <2>1. SUFFICES ASSUME NEW u \in Tracers
                 PROVE  Cardinality(LinesOf(u, "open")') - Cardinality(LinesOf(u, "close")')
                            = depth'[u] + IF saying'[u].kind = "close" THEN 1 ELSE 0
    BY DEF BalanceInv
  <2>2. Cardinality(LinesOf(u, "open")) - Cardinality(LinesOf(u, "close")) =
            depth[u] + IF saying[u].kind = "close" THEN 1 ELSE 0
    BY DEF NestInv, BalanceInv
  <2>3. CASE u # t
    <3>1. /\ LinesOf(u, "open")' = LinesOf(u, "open")
          /\ LinesOf(u, "close")' = LinesOf(u, "close")
      BY <1>4, <2>3, LinesKept
    <3>2. QED
      BY <1>2, <2>2, <2>3, <3>1
  <2>4. CASE u = t
    <3> DEFINE opens == Cardinality(LinesOf(t, "open"))
               closes == Cardinality(LinesOf(t, "close"))
    <3>1. opens \in Nat /\ closes \in Nat
      BY <1>4, LinesFinite
    <3>2. /\ Cardinality(LinesOf(t, "open")') =
                opens + IF saying[t].kind = "open" THEN 1 ELSE 0
          /\ Cardinality(LinesOf(t, "close")') =
                closes + IF saying[t].kind = "close" THEN 1 ELSE 0
      BY <1>1, LinesCounted
    <3>3. opens - closes = depth[t] + IF saying[t].kind = "close" THEN 1 ELSE 0
      BY <2>2, <2>4
    <3>4. depth'[t] = (IF saying[t].kind = "open" THEN depth[t] + 1 ELSE depth[t])
          /\ saying'[t].kind = "none"
      BY <1>2, <1>5
    <3> HIDE DEF opens, closes
    <3>5. CASE saying[t].kind = "open"
      BY <1>3, <2>4, <3>1, <3>2, <3>3, <3>4, <3>5
    <3>6. CASE saying[t].kind = "close"
      BY <1>3, <2>4, <3>1, <3>2, <3>3, <3>4, <3>6
    <3>7. CASE saying[t].kind = "line"
      BY <1>3, <2>4, <3>1, <3>2, <3>3, <3>4, <3>7
    <3>8. QED
      BY <1>3, <3>5, <3>6, <3>7
  <2>5. QED
    BY <2>3, <2>4
<1>7. EnclosedInv'
  <2>1. SUFFICES ASSUME NEW u \in Tracers
                 PROVE  /\ \A d \in 1..depth'[u] :
                              \E j \in Lines(u)' : EnclosesAfter(u, j, scopes'[u][d], d - 1)
                        /\ saying'[u].kind = "close" =>
                              \E j \in Lines(u)' :
                                  EnclosesAfter(u, j, saying'[u].text, depth'[u])
    BY EnclosedInvAfter
  <2>2. /\ \A d \in 1..depth[u] : \E j \in Lines(u) : Encloses(u, j, scopes[u][d], d - 1)
        /\ saying[u].kind = "close" =>
              \E j \in Lines(u) : Encloses(u, j, saying[u].text, depth[u])
    BY DEF NestInv, EnclosedInv
  <2>3. CASE u # t
    BY <1>1, <1>2, <1>4, <2>2, <2>3, LinesKept
  <2>4. CASE u = t
    <3>1. saying'[u].kind # "close"
      BY <1>2, <1>5, <2>4
    <3>2. ASSUME NEW d \in 1..depth[t]
          PROVE  \E j \in Lines(t)' : EnclosesAfter(t, j, scopes'[t][d], d - 1)
      <4>1. PICK j \in Lines(t) : Encloses(t, j, scopes[t][d], d - 1)
        BY <2>2, <2>4
      <4>2. j \in 1..Len(out) /\ out'[j] = out[j] /\ j \in Lines(t)'
        BY <1>4, LineBounds
      <4>3. j \in LinesOf(t, "open")'
        BY <4>1, <4>2 DEF LinesOf, Encloses
      <4>4. ASSUME NEW m \in Lines(t)', j < m PROVE out'[m].depth > d - 1
        <5>1. CASE m = n
          BY <1>3, <1>4, <5>1
        <5>2. CASE m \in Lines(t)
          BY <1>4, <4>1, <4>4, <5>2, LineBounds DEF Encloses
        <5>3. QED
          BY <1>4, <5>1, <5>2
      <4>5. QED
        BY <1>1, <4>1, <4>2, <4>3, <4>4 DEF Encloses, EnclosesAfter
    <3>3. ASSUME saying[t].kind = "open"
          PROVE  EnclosesAfter(t, n, scopes'[t][depth[t] + 1], depth[t])
      <4>1. n \in LinesOf(t, "open")'
        BY <1>4, <3>3 DEF LinesOf
      <4>2. \A m \in Lines(t)' : ~ n < m
        BY <1>4, LineBounds
      <4>3. QED
        BY <1>1, <1>3, <1>4, <3>3, <4>1, <4>2 DEF EnclosesAfter
    <3>4. ASSUME NEW d \in 1..depth'[t]
          PROVE  \E j \in Lines(t)' : EnclosesAfter(t, j, scopes'[t][d], d - 1)
      <4>1. CASE d \in 1..depth[t]
        BY <3>2, <4>1
      <4>2. CASE d \notin 1..depth[t]
        <5>1. saying[t].kind = "open" /\ d = depth[t] + 1 /\ d - 1 = depth[t]
          BY <1>2, <1>3, <4>2
        <5>2. QED
          BY <1>4, <3>3, <5>1
      <4>3. QED
        BY <4>1, <4>2
    <3>5. QED
      BY <2>4, <3>1, <3>4
  <2>5. QED
    BY <2>3, <2>4
<1>8. \A kind, j : j \in LinesBefore(n, kind)' <=> j \in LinesOf(t, kind)
  <2>1. \A j : j \in Lines(t) => j < n /\ out'[j] = out[j]
    BY <1>4, LineBounds
  <2>2. \A kind, j : j \in LinesOf(t, kind) <=> j \in Lines(t) /\ out[j].say.kind = kind
    BY DEF LinesOf
  <2>3. \A kind, j : j \in LinesBefore(n, kind)' <=>
                        j \in Lines(t)' /\ j < n /\ out'[j].say.kind = kind
    <3>1. \A kind, j : j \in LinesBefore(n, kind)' <=>
              /\ j \in 1..Len(out') /\ out'[j].thread = out'[n].thread
              /\ out'[j].part = "text"
              /\ j < n /\ out'[j].say.kind = kind
      BY DEF LinesBefore, Lines
    <3>2. \A j : j \in Lines(t)' <=>
              j \in 1..Len(out') /\ out'[j].thread = t /\ out'[j].part = "text"
      BY DEF Lines
    <3>3. QED
      BY <1>4, <3>1, <3>2
  <2>4. ~ n < n
    BY <1>4
  <2>5. QED
    BY <1>4, <2>1, <2>2, <2>3, <2>4
<1>9. /\ LinesBefore(n, "open")' = LinesOf(t, "open")
      /\ LinesBefore(n, "close")' = LinesOf(t, "close")
  <2>1. \A j : j \in LinesBefore(n, "open")' <=> j \in LinesOf(t, "open")
    BY <1>8
  <2>2. \A j : j \in LinesBefore(n, "close")' <=> j \in LinesOf(t, "close")
    BY <1>8
  <2>3. LinesBefore(n, "open")' = LinesOf(t, "open")
    BY <2>1
  <2>4. LinesBefore(n, "close")' = LinesOf(t, "close")
    BY <2>2
  <2>5. QED
    BY <2>3, <2>4
<1>10. LineNests(t, n)'
  <2>1. CASE saying[t].kind = "close"
    <3>1. PICK j \in Lines(t) : Encloses(t, j, saying[t].text, depth[t])
      BY <2>1 DEF NestInv, EnclosedInv
    <3>2. j \in LinesBefore(n, "open")' /\ out'[j] = out[j]
      BY <1>4, <1>9, <3>1, LineBounds DEF Encloses
    <3>3. ASSUME NEW m \in Lines(t)', j < m, m < n
          PROVE  out'[m].depth > out'[n].depth
      <4>1. m \in Lines(t) /\ out'[m] = out[m]
        BY <1>4, <3>3, LineBounds
      <4>2. QED
        BY <1>4, <3>1, <3>3, <4>1 DEF Encloses
    <3>4. out'[n].say.kind = "close"
      BY <1>4, <2>1
    <3>5. out'[j].say.text = out'[n].say.text /\ out'[j].depth = out'[n].depth
      BY <1>4, <3>1, <3>2 DEF Encloses
    <3>6. QED
      BY <3>2, <3>3, <3>4, <3>5 DEF LineNests
  <2>2. CASE saying[t].kind # "close"
    <3>1. Cardinality(LinesOf(t, "open")) - Cardinality(LinesOf(t, "close")) = depth[t]
      <4>1. Cardinality(LinesOf(t, "open")) - Cardinality(LinesOf(t, "close")) =
                depth[t] + IF saying[t].kind = "close" THEN 1 ELSE 0
        BY DEF NestInv, BalanceInv
      <4>2. QED
        BY <1>3, <2>2, <4>1
    <3>2. out'[n].say.kind # "close" /\ out'[n].depth = depth[t]
      BY <1>4, <2>2
    <3>3. out'[n].depth = Cardinality(LinesBefore(n, "open")')
                              - Cardinality(LinesBefore(n, "close")')
      BY <1>9, <3>1, <3>2
    <3>4. QED
      BY <3>2, <3>3 DEF LineNests
  <2>3. QED
    BY <2>1, <2>2
<1>11. TraceIsNested'
  <2>1. ASSUME NEW u \in Tracers, NEW i \in Lines(u)'
        PROVE  LineNests(u, i)'
    <3>1. CASE i \in Lines(u)
      BY <1>4, <3>1, NestedByLine, OldLineNests DEF NestInv
    <3>2. CASE i \notin Lines(u)
      <4>1. u = t /\ i = n
        BY <1>4, <2>1, <3>2
      <4>2. QED
        BY <1>10, <4>1
    <3>3. QED
      BY <3>1, <3>2
  <2>2. QED
    BY <2>1, NestedByLineAfter
<1>12. QED
  BY <1>6, <1>7, <1>11 DEF NestInv

LEMMA NestInvInit == TraceInit => NestInv
<1> SUFFICES ASSUME TraceInit PROVE NestInv
    OBVIOUS
<1>1. \A t : Lines(t) = {}
  BY DEF TraceInit, Lines
<1>2. \A t, kind : LinesOf(t, kind) = {}
  BY <1>1 DEF LinesOf
<1>3. \A t \in Tracers : depth[t] = 0 /\ saying[t].kind = "none"
  BY DEF TraceInit, Silent
<1>4. BalanceInv
  BY <1>2, <1>3, FS_EmptySet DEF BalanceInv
<1>5. EnclosedInv
  BY <1>3 DEF EnclosedInv
<1>6. TraceIsNested
  BY <1>1 DEF TraceIsNested
<1>7. QED
  BY <1>4, <1>5, <1>6 DEF NestInv

LEMMA NestInvStep == PartsInv /\ NestInv /\ [TraceNext]_traceVars => NestInv'
<1> SUFFICES ASSUME PartsInv, NestInv, [TraceNext]_traceVars PROVE NestInv'
    OBVIOUS
<1>1. TraceType /\ Len(out) \in Nat
  BY DEF PartsInv, TraceType
<1>2. ASSUME out' = out, UNCHANGED <<scopes, depth, saying>> PROVE NestInv'
  <2>1. Grows /\ \A t : Lines(t)' = Lines(t)
    BY <1>1, <1>2 DEF Grows, Lines
  <2>2. QED
    BY <1>2, <2>1, NestKept
<1>3. ASSUME NEW t \in Tracers, Prints(t) PROVE NestInv'
  <2>1. CASE WritesHead(t)
    <3>1. Writes(t, "head") /\ UNCHANGED <<scopes, depth, saying>>
      BY <2>1 DEF WritesHead, PrintUnchanged
    <3>2. Grows /\ \A u : Lines(u)' = Lines(u)
      BY <1>1, <3>1, LinesWritten
    <3>3. QED
      BY <3>1, <3>2, NestKept
  <2>2. CASE WritesText(t)
    BY <2>2, TextKeepsNest
  <2>3. CASE PrintLocks(t) \/ ReadsNumber(t) \/ Increments(t)
    <3>1. out' = out /\ UNCHANGED <<scopes, depth, saying>>
      BY <2>3 DEF PrintLocks, ReadsNumber, Increments, PrintUnchanged
    <3>2. QED
      BY <1>2, <3>1
  <2>4. QED
    BY <1>3, <2>1, <2>2, <2>3 DEF Prints
<1>4. QED
  BY <1>1, <1>2, <1>3, StepCases, BeginsKeepsNest

\* The trace shows the scopes: each line is indented by those its thread is in, and the
\* line of an exit is at the depth of the line of the entry, with only deeper lines
\* between them, however many threads print (print_scope and print).
THEOREM NestedCorrect == TraceSpec => []TraceIsNested
<1>1. TraceInit => PartsInv /\ NestInv
  BY PartsInvInit, NestInvInit
<1>2. PartsInv /\ NestInv /\ [TraceNext]_traceVars => (PartsInv /\ NestInv)'
  BY PartsInvStep, NestInvStep
<1>3. NestInv => TraceIsNested
  BY DEF NestInv
<1>4. QED
  BY <1>1, <1>2, <1>3, PTL DEF TraceSpec
===============================================================================
