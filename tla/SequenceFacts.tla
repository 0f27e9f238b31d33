--------------------------- MODULE SequenceFacts ----------------------------
(* Facts about the task queue as a sequence, for the proof modules. *)
EXTENDS Sequences, Integers, Functions, SequenceTheorems, TLAPS

\* What an append makes of a sequence: its last element is the new one, the
\* others keep their places (push of async_queue.cpp).
LEMMA AppendFacts ==
    ASSUME NEW S, NEW q \in Seq(S), NEW v \in S
    PROVE  /\ Append(q, v) \in Seq(S)
           /\ DOMAIN Append(q, v) = DOMAIN q \cup {Len(q) + 1}
           /\ Append(q, v)[Len(q) + 1] = v
           /\ \A i \in DOMAIN q : Append(q, v)[i] = q[i] /\ i < Len(q) + 1
           /\ Range(Append(q, v)) = Range(q) \cup {v}
<1>1. /\ Append(q, v) \in Seq(S)
      /\ DOMAIN Append(q, v) = DOMAIN q \cup {Len(q) + 1}
      /\ Append(q, v)[Len(q) + 1] = v
      /\ \A i \in DOMAIN q : Append(q, v)[i] = q[i] /\ i < Len(q) + 1
  OBVIOUS
<1>2. Range(Append(q, v)) = Range(q) \cup {v}
  <2>1. ASSUME NEW x \in Range(q) PROVE x \in Range(Append(q, v))
    <3>1. PICK i \in DOMAIN q : q[i] = x
      BY DEF Range
    <3>2. i \in DOMAIN Append(q, v) /\ Append(q, v)[i] = x
      BY <1>1, <3>1
    <3>3. QED
      BY <3>2 DEF Range
  <2>2. v \in Range(Append(q, v))
    BY <1>1 DEF Range
  <2>3. ASSUME NEW x \in Range(Append(q, v)) PROVE x \in Range(q) \cup {v}
    <3>1. PICK i \in DOMAIN Append(q, v) : Append(q, v)[i] = x
      BY DEF Range
    <3>2. CASE i = Len(q) + 1
      BY <1>1, <3>1, <3>2
    <3>3. CASE i \in DOMAIN q
      BY <1>1, <3>1, <3>3 DEF Range
    <3>4. QED
      BY <1>1, <3>2, <3>3
  <2>4. QED
    BY <2>1, <2>2, <2>3
<1>3. QED
  BY <1>1, <1>2

\* What taking the front leaves: every other element, one place earlier (pop).
LEMMA TailFacts ==
    ASSUME NEW S, NEW q \in Seq(S), q # <<>>
    PROVE  /\ Tail(q) \in Seq(S)
           /\ Head(q) \in S
           /\ Head(q) = q[1]
           /\ 1 \in DOMAIN q
           /\ \A i \in DOMAIN Tail(q) :
                 i + 1 \in DOMAIN q /\ Tail(q)[i] = q[i + 1] /\ 1 < i + 1
           /\ \A i \in DOMAIN q : i = 1 \/ (i - 1 \in DOMAIN Tail(q) /\ q[i] = Tail(q)[i - 1])
           /\ Range(q) = Range(Tail(q)) \cup {Head(q)}
<1>1. /\ Tail(q) \in Seq(S)
      /\ Head(q) \in S
      /\ Head(q) = q[1]
      /\ 1 \in DOMAIN q
      /\ \A i \in DOMAIN Tail(q) :
            i + 1 \in DOMAIN q /\ Tail(q)[i] = q[i + 1] /\ 1 < i + 1
      /\ \A i \in DOMAIN q : i = 1 \/ (i - 1 \in DOMAIN Tail(q) /\ q[i] = Tail(q)[i - 1])
  OBVIOUS
<1>2. ASSUME NEW x \in Range(q) PROVE x \in Range(Tail(q)) \cup {Head(q)}
  <2>1. PICK i \in DOMAIN q : q[i] = x
    BY DEF Range
  <2>2. CASE i = 1
    BY <1>1, <2>1, <2>2
  <2>3. CASE i - 1 \in DOMAIN Tail(q) /\ q[i] = Tail(q)[i - 1]
    BY <2>1, <2>3 DEF Range
  <2>4. QED
    BY <1>1, <2>2, <2>3
<1>3. ASSUME NEW x \in Range(Tail(q)) PROVE x \in Range(q)
  <2>1. PICK i \in DOMAIN Tail(q) : Tail(q)[i] = x
    BY DEF Range
  <2>2. i + 1 \in DOMAIN q /\ q[i + 1] = x
    BY <1>1, <2>1
  <2>3. QED
    BY <2>2 DEF Range
<1>4. Head(q) \in Range(q)
  BY <1>1 DEF Range
<1>5. QED
  BY <1>1, <1>2, <1>3, <1>4

\* Nothing is in the empty queue (clear).
LEMMA EmptyRange == Range(<<>>) = {}
  BY DEF Range


\* A step of a sequence of steps: what is left of it is of the same kind.
LEMMA HeadTail ==
    ASSUME NEW S, NEW s \in Seq(S), s # <<>>
    PROVE  Tail(s) \in Seq(S) /\ Head(s) \in S
  OBVIOUS

\* An element that can only be the last one of a sequence can only be the last
\* one of its tail, and has nothing behind it when it is the first.
LEMMA LastTail ==
    ASSUME NEW S, NEW s \in Seq(S), s # <<>>, NEW e,
           \A i \in 1..Len(s) : s[i] = e => i = Len(s)
    PROVE  /\ \A i \in 1..Len(Tail(s)) : Tail(s)[i] = e => i = Len(Tail(s))
           /\ Head(s) = e => Tail(s) = <<>>
           /\ \A i \in 1..Len(Tail(s)) :
                 Tail(s)[i] = e => \E j \in 1..Len(s) : s[j] = e
<1> DEFINE r == Tail(s)
           n == Len(s)
           k == Len(Tail(s))
<1>1. /\ n \in Nat /\ n # 0 /\ k = n - 1
      /\ \A i \in 1..k : i + 1 \in 1..n /\ r[i] = s[i + 1]
      /\ Head(s) = s[1]
  OBVIOUS
<1>2. k = 0 => r = <<>>
  <2>1. r \in Seq(S)
    OBVIOUS
  <2>2. r # <<>> => k \in Nat \ {0}
    <3> HIDE DEF r
    <3>1. QED
      BY <2>1, EmptySeq DEF k, r
  <2>3. QED
    BY <2>2
<1>3. \A i \in 1..n : s[i] = e => i = n
  OBVIOUS
<1> HIDE DEF r, n, k
<1>4. ASSUME NEW i \in 1..k, r[i] = e PROVE i = k
  <2>1. i + 1 = n
    BY <1>1, <1>3, <1>4
  <2>2. QED
    BY <1>1, <1>4, <2>1
<1>5. ASSUME Head(s) = e PROVE r = <<>>
  <2>1. n = 1
    BY <1>1, <1>3, <1>5
  <2>2. QED
    BY <1>1, <1>2, <2>1
<1>6. \A i \in 1..k : r[i] = e => \E j \in 1..n : s[j] = e
  BY <1>1
<1>7. QED
  BY <1>4, <1>5, <1>6 DEF r, n, k

=============================================================================
