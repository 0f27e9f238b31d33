---------------------------- MODULE AlgorithmProofs ----------------------------
(***************************************************************************)
(* Proofs about Search and HigherBit: for tables of any length and of any  *)
(* boundaries, and for every 32-bit word.                                  *)
(***************************************************************************)
EXTENDS Search, HigherBit, WellFoundedInduction, TLAPS

(* The binary search. *)

\* The range that is left, once a probe has begun, encloses the value; the entry
\* probed last is an end of it.
RangeInv ==
    /\ 1 <= low /\ low <= high /\ high <= Len(table)
    /\ mid = NotFound => low = 1 /\ high = Len(table)
    /\ mid # NotFound => ~Outside /\ mid <= Len(table) /\ (mid = low \/ mid = high + 1)
    /\ ~Outside => table[low] <= value
    /\ ~Outside /\ high < Len(table) => value < table[high + 1]

SearchType ==
    /\ variant \in {"perl", "awk"}
    /\ table \in Tables
    /\ value \in Keys
    /\ low \in Int /\ high \in Int /\ mid \in Int
    /\ answer \in Int

SearchInv == SearchType /\ (answer = Searching => RangeInv) /\ FindsSegment

LEMMA TableFacts ==
    ASSUME NEW t \in Tables
    PROVE  /\ Len(t) \in Nat /\ Len(t) >= 1
           /\ \A i \in 1..Len(t) : t[i] \in Nat
<1>1. PICK n \in 1..MaxLen : t \in [1..n -> Keys]
    BY DEF Tables
<1>2. n \in Nat /\ n >= 1
    BY SearchAssumption, <1>1
<1>3. t \in Seq(Keys) /\ Len(t) = n
    BY <1>1, <1>2
<1>4. QED
    BY SearchAssumption, <1>1, <1>2, <1>3 DEF Keys

LEMMA SearchInvInit == SearchInit => SearchInv
<1> SUFFICES ASSUME SearchInit PROVE SearchInv
    OBVIOUS
<1>1. Len(table) \in Nat /\ Len(table) >= 1 /\ \A i \in 1..Len(table) : table[i] \in Nat
    BY TableFacts DEF SearchInit
<1>2. SearchType
    BY <1>1 DEF SearchInit, SearchType, NotFound, Searching
<1>3. value \in Nat
    BY SearchAssumption DEF SearchInit, Keys
<1>4. RangeInv
    BY <1>1, <1>3 DEF SearchInit, RangeInv, Outside, NotFound
<1>5. QED
    BY <1>2, <1>4 DEF SearchInv, FindsSegment, SearchInit

LEMMA SearchInvStep == SearchInv /\ [SearchNext]_searchVars => SearchInv'
<1> SUFFICES ASSUME SearchInv, [SearchNext]_searchVars PROVE SearchInv'
    OBVIOUS
<1>1. /\ Len(table) \in Nat /\ Len(table) >= 1 /\ \A i \in 1..Len(table) : table[i] \in Nat
      /\ value \in Nat
    BY SearchAssumption, TableFacts DEF SearchInv, SearchType, Keys
<1>2. CASE Rejects
    BY <1>2 DEF Rejects, SearchInv, SearchType, FindsSegment, Outside, NotFound, Searching
<1>3. CASE Probes
  <2>1. /\ answer = Searching /\ RangeInv /\ low < high
        /\ mid # NotFound \/ ~Outside
    BY <1>3 DEF Probes, SearchInv
  <2>2. ~Outside
    BY <2>1 DEF RangeInv
  <2>3. Middle \in Int /\ low < Middle /\ Middle <= high
    BY <2>1 DEF Middle, SearchInv, SearchType
  <2>4. UNCHANGED <<variant, table, value, answer>> /\ mid' = Middle /\ ~Outside'
    BY <1>3, <2>2 DEF Probes, Outside
  <2>5. CASE Above(Middle)
    <3>1. high' = Middle - 1 /\ low' = low
      BY <1>3, <2>5 DEF Probes
    <3>2. RangeInv'
      BY <1>1, <2>1, <2>2, <2>3, <2>4, <2>5, <3>1
      DEF RangeInv, Above, NotFound, SearchInv, SearchType
    <3>3. QED
      BY <2>1, <2>3, <2>4, <3>1, <3>2 DEF SearchInv, SearchType, FindsSegment
  <2>6. CASE ~Above(Middle)
    <3>1. low' = Middle /\ high' = high
      BY <1>3, <2>6 DEF Probes
    <3>2. RangeInv'
      BY <1>1, <2>1, <2>2, <2>3, <2>4, <2>6, <3>1
      DEF RangeInv, Above, NotFound, SearchInv, SearchType
    <3>3. QED
      BY <2>1, <2>3, <2>4, <3>1, <3>2 DEF SearchInv, SearchType, FindsSegment
  <2>7. QED
    BY <2>5, <2>6
<1>4. CASE Returns
  <2>1. /\ answer = Searching /\ RangeInv /\ low = high /\ ~Outside
        /\ UNCHANGED <<variant, table, value, low, high, mid>>
    BY <1>4 DEF Returns, SearchInv, SearchType, RangeInv
  <2>2. low \in Segment
    BY <1>1, <2>1 DEF Segment, RangeInv, SearchInv, SearchType
  <2>3. CASE mid # NotFound
    <3>1. table[mid] = value => mid = low
      BY <1>1, <2>1, <2>3 DEF RangeInv, SearchInv, SearchType, Outside
    <3>2. answer' = low
      BY <1>4, <2>3, <3>1 DEF Returns
    <3>3. QED
      BY <2>1, <2>2, <3>2 DEF SearchInv, SearchType, FindsSegment, Segment, RangeInv, Searching
  <2>4. CASE mid = NotFound
    <3>1. Len(table) = 1
      BY <1>1, <2>1, <2>4 DEF RangeInv
    <3>2. answer' = IF table[1] = value THEN NotFound ELSE low
      BY <1>4, <2>4 DEF Returns
    <3>3. QED
      BY <2>1, <2>2, <3>1, <3>2
      DEF SearchInv, SearchType, FindsSegment, Segment, RangeInv, Searching, NotFound
  <2>5. QED
    BY <2>3, <2>4
<1>5. CASE UNCHANGED searchVars
    BY <1>5 DEF searchVars, SearchInv, SearchType, RangeInv, FindsSegment, Segment, Outside
<1>6. QED
    BY <1>2, <1>3, <1>4, <1>5 DEF SearchNext

\* Every probe leaves a smaller range that is not empty, so a table of n boundaries
\* takes less than n probes (the loop of both files).
RangeShrinks ==
    [][answer' = Searching => 0 <= high' - low' /\ high' - low' < high - low]_searchVars

\* The loop of both searches makes progress with every probe: what SearchEnds rests on.
THEOREM SearchShrinks == SearchSpec => RangeShrinks
<1>1. SearchInv /\ SearchInv' /\ [SearchNext]_searchVars =>
          [answer' = Searching => 0 <= high' - low' /\ high' - low' < high - low]_searchVars
  <2> SUFFICES ASSUME SearchInv, SearchInv', SearchNext, answer' = Searching
               PROVE  0 <= high' - low' /\ high' - low' < high - low
      OBVIOUS
  <2> USE DEF SearchInv, SearchType, RangeInv
  <2>1. CASE Rejects
    BY <2>1 DEF Rejects, NotFound, Searching
  <2>2. CASE Probes
    <3>1. /\ low \in Int /\ high \in Int /\ low < high
          /\ Middle \in Int /\ low < Middle /\ Middle <= high
      BY <2>2 DEF Probes, Middle
    <3>2. \/ high' = Middle - 1 /\ low' = low
          \/ low' = Middle /\ high' = high
      BY <2>2 DEF Probes
    <3> HIDE DEF SearchInv, SearchType, RangeInv
    <3>3. QED
      BY <3>1, <3>2
  <2>3. CASE Returns
    BY <2>3 DEF Returns, NotFound, Searching
  <2>4. QED
    BY <2>1, <2>2, <2>3 DEF SearchNext
<1>2. QED
    BY SearchInvInit, SearchInvStep, <1>1, PTL DEF SearchSpec, RangeShrinks

\* The natural numbers of a set that is not empty have a least one.
LEMMA LeastNumber ==
    ASSUME NEW S \in SUBSET Nat, S # {}
    PROVE  \E n \in S : \A i \in S : n <= i
<1>1. IsWellFoundedOn(OpToRel(<, Nat), Nat)
    BY NatLessThanWellFounded
<1>2. PICK n \in S : \A i \in S : <<i, n>> \notin OpToRel(<, Nat)
    BY <1>1, WFMin
<1>3. \A i \in S : ~(i < n)
    BY <1>2 DEF OpToRel
<1>4. QED
    BY <1>3

LEMMA TableSorted ==
    ASSUME NEW t \in Tables, NEW i \in 1..Len(t), NEW j \in 1..Len(t), i < j
    PROVE  t[i] < t[j]
<1>1. /\ Len(t) \in Nat /\ \A a \in 1..Len(t) : t[a] \in Nat
      /\ \A a \in 1..(Len(t) - 1) : t[a] < t[a + 1]
  <2>1. PICK n \in 1..MaxLen : t \in [1..n -> Keys] /\ \A a \in 1..(n - 1) : t[a] < t[a + 1]
    BY DEF Tables
  <2>2. n \in Nat
    BY SearchAssumption, <2>1
  <2>3. t \in Seq(Keys) /\ Len(t) = n
    BY <2>1, <2>2
  <2>4. QED
    BY <2>1, <2>2, <2>3, TableFacts
<1> DEFINE wrong == {d \in Nat : i + d + 1 <= Len(t) /\ ~(t[i] < t[i + d + 1])}
<1>2. ASSUME wrong # {} PROVE FALSE
  <2>1. PICK d \in wrong : \A e \in wrong : d <= e
    BY <1>2, LeastNumber
  <2>2. CASE d = 0
    BY <1>1, <2>1, <2>2
  <2>3. CASE d # 0
    <3>1. d - 1 \in Nat /\ d - 1 \notin wrong
      BY <2>1, <2>3
    <3>2. t[i] < t[i + d]
      BY <1>1, <2>1, <3>1
    <3>3. t[i + d] < t[i + d + 1]
      BY <1>1, <2>1, <2>3
    <3>4. QED
      BY <1>1, <2>1, <3>2, <3>3
  <2>4. QED
    BY <2>2, <2>3
<1>3. j - i - 1 \notin wrong
    BY <1>2
<1>4. j - i - 1 \in Nat /\ i + (j - i - 1) + 1 = j
    BY <1>1
<1>5. QED
    BY <1>1, <1>3, <1>4

\* A value is in at most one segment of a table: what FindsSegment asks for is one
\* entry, the only right one.
THEOREM SegmentIsUnique ==
    ASSUME table \in Tables, value \in Keys, NEW i \in Segment, NEW j \in Segment
    PROVE  i = j
<1>1. /\ Len(table) \in Nat /\ \A a \in 1..Len(table) : table[a] \in Nat
      /\ value \in Nat
    BY SearchAssumption, TableFacts DEF Keys
<1>2. ASSUME NEW a \in Segment, NEW b \in Segment, a < b PROVE FALSE
  <2>1. /\ a \in 1..Len(table) /\ b \in 1..Len(table) /\ a + 1 \in 1..Len(table)
        /\ value < table[a + 1] /\ table[b] <= value
    BY <1>1, <1>2 DEF Segment
  <2>2. a + 1 = b \/ table[a + 1] < table[b]
    BY <1>1, <1>2, <2>1, TableSorted
  <2>3. QED
    BY <1>1, <2>1, <2>2
<1>3. i \in Int /\ j \in Int
    BY <1>1 DEF Segment
<1>4. QED
    BY <1>2, <1>3

\* Both searches find the segment of every value in every table of boundaries, but
\* for a table of one entry in binary_search.pl.
THEOREM SearchCorrect == SearchSpec => []FindsSegment
<1>1. SearchInv => FindsSegment
    BY DEF SearchInv
<1>2. QED
    BY SearchInvInit, SearchInvStep, <1>1, PTL DEF SearchSpec

-----------------------------------------------------------------------------
(* The highest bit of a word.                                               *)

\* m is the position of the highest one of the word a.
Top(a, m) == a \subseteq Positions /\ m \in a /\ \A p \in a : p <= m

LEMMA TopIsMax ==
    ASSUME NEW a, NEW m, Top(a, m)
    PROVE  m \in 0..31 /\ Max(a) = m /\ a # {} /\ Order(a) = m + 1
<1>1. m \in 0..31 /\ a # {}
    BY DEF Top, Positions
<1>2. \A x \in a : (\A y \in a : x >= y) => x = m
    BY DEF Top, Positions
<1>3. m \in a /\ \A y \in a : m >= y
    BY DEF Top, Positions
<1>4. Max(a) = m
    BY <1>2, <1>3 DEF Max
<1>5. QED
    BY <1>1, <1>4 DEF Order

LEMMA HasTop ==
    ASSUME NEW a \in SUBSET Positions, a # {}
    PROVE  \E m \in a : Top(a, m)
<1> DEFINE below == {d \in Nat : 31 - d \in a}
<1>1. PICK p \in a : p \in 0..31
    BY DEF Positions
<1>2. 31 - p \in Nat /\ 31 - (31 - p) = p
    BY <1>1
<1>3. 31 - p \in below
    BY <1>1, <1>2
<1>4. PICK d \in below : \A e \in below : d <= e
    BY <1>3, LeastNumber
<1>5. ASSUME NEW q \in a PROVE q <= 31 - d
  <2>1. q \in 0..31
    BY DEF Positions
  <2>2. 31 - q \in Nat /\ 31 - (31 - q) = q
    BY <2>1
  <2>3. d <= 31 - q
    BY <1>4, <2>2
  <2>4. QED
    BY <1>4, <2>1, <2>3
<1>6. QED
    BY <1>4, <1>5 DEF Top

LEMMA TopShr ==
    ASSUME NEW a, NEW m, Top(a, m), NEW n \in 0..m
    PROVE  Top(Shr(a, n), m - n)
BY DEF Top, Shr, Positions

LEMMA TopShl ==
    ASSUME NEW a, NEW m, Top(a, m), NEW n \in 0..(31 - m)
    PROVE  Top(Shl(a, n), m + n)
BY DEF Top, Shl, Positions

LEMMA TopExceeds ==
    ASSUME NEW a, NEW m, Top(a, m), NEW n \in 0..32
    PROVE  Exceeds(a, n) <=> m >= n
BY DEF Top, Exceeds, Positions

LEMMA ShrNothing ==
    ASSUME NEW a \in SUBSET Positions PROVE Shr(a, 0) = a
<1>1. \A p \in a : p \in Int /\ p >= 0 /\ p - 0 = p
    BY DEF Positions
<1>2. QED
    BY <1>1 DEF Shr

\* The functions that read the float formats or use bsrl.
LEMMA Bits156 ==
    ASSUME NEW a, NEW m, Top(a, m)
    PROVE  bits1(a) = m + 1 /\ bits5(a) = m + 1 /\ bits6(a) = {m + 1}
BY TopIsMax DEF bits1, bits5, bits6, Exponent

\* One step of the binary search downwards: the part above n is kept if there is one.
LEMMA Down ==
    ASSUME NEW a, NEW m, Top(a, m), NEW n \in 1..32,
           NEW s, s = IF Exceeds(a, n) THEN n ELSE 0
    PROVE  Top(Shr(a, s), m - s) /\ s = IF m >= n THEN n ELSE 0
<1>1. m \in 0..31 /\ (Exceeds(a, n) <=> m >= n)
    BY TopIsMax, TopExceeds
<1>2. CASE m >= n
    BY <1>1, <1>2, TopShr
<1>3. CASE m < n
  <2>1. Shr(a, 0) = a
    BY ShrNothing DEF Top
  <2>2. s = 0 /\ m - 0 = m
    BY <1>1, <1>3
  <2>3. QED
    BY <1>1, <1>3, <2>1, <2>2
<1>4. QED
    BY <1>1, <1>2, <1>3

LEMMA Bits3 ==
    ASSUME NEW a, NEW m, Top(a, m)
    PROVE  bits3(a) = m + 1
<1> DEFINE shift(w, n) == IF Exceeds(w, n) THEN n ELSE 0
           s16 == shift(a, 16)     v16 == Shr(a, s16)
           s8 == shift(v16, 8)     v8 == Shr(v16, s8)
           s4 == shift(v8, 4)      v4 == Shr(v8, s4)
           s2 == shift(v4, 2)      v2 == Shr(v4, s2)
<1>1. bits3(a) = s16 + s8 + s4 + s2 + Bit(v2, 1) + (IF v2 = {} THEN 0 ELSE 1)
    BY DEF bits3
<1>2. v16 = Shr(a, s16) /\ s16 = IF Exceeds(a, 16) THEN 16 ELSE 0
    OBVIOUS
<1>3. v8 = Shr(v16, s8) /\ s8 = IF Exceeds(v16, 8) THEN 8 ELSE 0
    OBVIOUS
<1>4. v4 = Shr(v8, s4) /\ s4 = IF Exceeds(v8, 4) THEN 4 ELSE 0
    OBVIOUS
<1>5. v2 = Shr(v4, s2) /\ s2 = IF Exceeds(v4, 2) THEN 2 ELSE 0
    OBVIOUS
<1> HIDE DEF s16, s8, s4, s2, v16, v8, v4, v2
<1>6. Top(v16, m - s16) /\ s16 = IF m >= 16 THEN 16 ELSE 0
    BY <1>2, Down
<1>7. Top(v8, m - s16 - s8) /\ s8 = IF m - s16 >= 8 THEN 8 ELSE 0
    BY <1>3, <1>6, Down
<1>8. Top(v4, m - s16 - s8 - s4) /\ s4 = IF m - s16 - s8 >= 4 THEN 4 ELSE 0
    BY <1>4, <1>7, Down
<1>9. Top(v2, m - s16 - s8 - s4 - s2) /\ s2 = IF m - s16 - s8 - s4 >= 2 THEN 2 ELSE 0
    BY <1>5, <1>8, Down
<1>10. m \in 0..31
    BY TopIsMax
<1> DEFINE r == m - s16 - s8 - s4 - s2
<1>11. r \in 0..1 /\ s16 \in Int /\ s8 \in Int /\ s4 \in Int /\ s2 \in Int
    BY <1>6, <1>7, <1>8, <1>9, <1>10
<1>12. v2 # {} /\ Bit(v2, 1) = r
  <2>1. r \in v2 /\ \A p \in v2 : p <= r
    BY <1>9 DEF Top
  <2>2. QED
    BY <1>11, <2>1 DEF Bit
<1>13. QED
    BY <1>1, <1>10, <1>11, <1>12

\* s holds a word whose highest one was at m, lifted into the upper n positions.
Lifted(s, m, n) ==
    \E t \in 0..31 : Top(s.num, t) /\ s.n \in Int /\ s.n + t = 31 + m /\ t >= 32 - n

LEMMA LiftHalves ==
    ASSUME NEW s, NEW m \in Int, NEW n \in 1..16, Lifted(s, m, 2 * n)
    PROVE  Lifted(Lift(s, n), m, n)
<1>1. PICK t \in 0..31 :
          Top(s.num, t) /\ s.n \in Int /\ s.n + t = 31 + m /\ t >= 32 - 2 * n
    BY DEF Lifted
<1>2. Exceeds(s.num, 32 - n) <=> t >= 32 - n
    BY <1>1, TopExceeds
<1>3. CASE t >= 32 - n
  <2>1. Lift(s, n) = s
    BY <1>2, <1>3 DEF Lift
  <2>2. QED
    BY <1>1, <1>3, <2>1 DEF Lifted
<1>4. CASE ~(t >= 32 - n)
  <2>1. Top(Shl(s.num, n), t + n)
    BY <1>1, <1>4, TopShl
  <2>2. Lift(s, n) = [n |-> s.n - n, num |-> Shl(s.num, n)]
    BY <1>2, <1>4 DEF Lift
  <2>3. t + n \in 0..31 /\ s.n - n \in Int /\ (s.n - n) + (t + n) = 31 + m /\ t + n >= 32 - n
    BY <1>1, <1>4
  <2>4. Lift(s, n).n = s.n - n /\ Lift(s, n).num = Shl(s.num, n)
    BY <2>2
  <2>5. QED
    BY <2>1, <2>3, <2>4 DEF Lifted
<1>5. QED
    BY <1>3, <1>4

LEMMA Bits4 ==
    ASSUME NEW a, NEW m, Top(a, m)
    PROVE  bits4(a) = m + 1
<1>1. m \in 0..31 /\ m \in Int /\ a # {}
    BY TopIsMax
<1> DEFINE l32 == [n |-> 31, num |-> a]
<1>2. Lifted(l32, m, 32)
    BY <1>1 DEF Lifted
<1> HIDE DEF l32
<1>3. Lifted(Lift(l32, 16), m, 16)
    BY <1>1, <1>2, LiftHalves
<1>4. Lifted(Lift(Lift(l32, 16), 8), m, 8)
    BY <1>1, <1>3, LiftHalves
<1>5. Lifted(Lift(Lift(Lift(l32, 16), 8), 4), m, 4)
    BY <1>1, <1>4, LiftHalves
<1>6. Lifted(Lift(Lift(Lift(Lift(l32, 16), 8), 4), 2), m, 2)
    BY <1>1, <1>5, LiftHalves
<1> DEFINE s == Lift(Lift(Lift(Lift(l32, 16), 8), 4), 2)
<1>7. bits4(a) = s.n + Bit(s.num, 31)
    BY <1>1 DEF bits4, l32
<1>8. Lifted(s, m, 2)
    BY <1>6
<1> HIDE DEF s
<1>9. PICK t \in 0..31 : Top(s.num, t) /\ s.n \in Int /\ s.n + t = 31 + m /\ t >= 30
    BY <1>8 DEF Lifted
<1>10. Bit(s.num, 31) = t - 30
  <2>1. t \in s.num /\ \A p \in s.num : p <= t
    BY <1>9 DEF Top
  <2>2. QED
    BY <1>9, <2>1 DEF Bit
<1>11. QED
    BY <1>1, <1>7, <1>9, <1>10

\* The ones of the word a reach down from m over at least n positions.
Filled(a, m, n) == Top(a, m) /\ \A p \in 0..m : p > m - n => p \in a

LEMMA FillDoubles ==
    ASSUME NEW a, NEW m, NEW n \in 1..16, Filled(a, m, n)
    PROVE  Filled(Fill(a, n), m, 2 * n)
<1>1. m \in 0..31 /\ m \in a /\ \A p \in a : p \in 0..31 /\ p <= m
    BY TopIsMax DEF Filled, Top, Positions
<1>2. Shr(a, n) \subseteq 0..m
    BY <1>1 DEF Shr
<1>3. Top(Fill(a, n), m)
  <2>1. \A p \in Fill(a, n) : p \in 0..m
    BY <1>1, <1>2 DEF Fill
  <2>2. m \in Fill(a, n)
    BY <1>1 DEF Fill
  <2>3. \A p \in 0..m : p \in 0..31 /\ p <= m
    BY <1>1
  <2>4. QED
    BY <2>1, <2>2, <2>3 DEF Top, Positions
<1>4. ASSUME NEW p \in 0..m, p > m - 2 * n PROVE p \in Fill(a, n)
  <2>1. CASE p > m - n
    BY <2>1 DEF Filled, Fill
  <2>2. CASE p <= m - n
    <3>1. p + n \in 0..m /\ p + n > m - n /\ p + n >= n /\ p = (p + n) - n
      BY <1>1, <1>4, <2>2
    <3>2. p + n \in a
      BY <3>1 DEF Filled
    <3>3. p \in Shr(a, n)
      BY <3>1, <3>2 DEF Shr
    <3>4. QED
      BY <3>3 DEF Fill
  <2>3. QED
    BY <1>1, <2>1, <2>2
<1>5. QED
    BY <1>3, <1>4 DEF Filled

LEMMA FillAll ==
    ASSUME NEW a, NEW m, Top(a, m)
    PROVE  Fill(Fill(Fill(Fill(Fill(a, 1), 2), 4), 8), 16) = 0..m
<1>1. m \in 0..31
    BY TopIsMax
<1>2. Filled(a, m, 1)
    BY <1>1 DEF Filled, Top
<1>3. Filled(Fill(a, 1), m, 2)
    BY <1>2, FillDoubles
<1>4. Filled(Fill(Fill(a, 1), 2), m, 4)
    BY <1>3, FillDoubles
<1>5. Filled(Fill(Fill(Fill(a, 1), 2), 4), m, 8)
    BY <1>4, FillDoubles
<1>6. Filled(Fill(Fill(Fill(Fill(a, 1), 2), 4), 8), m, 16)
    BY <1>5, FillDoubles
<1>7. Filled(Fill(Fill(Fill(Fill(Fill(a, 1), 2), 4), 8), 16), m, 32)
    BY <1>6, FillDoubles
<1> DEFINE b == Fill(Fill(Fill(Fill(Fill(a, 1), 2), 4), 8), 16)
<1> HIDE DEF b
<1>8. b = 0..m
  <2>1. Filled(b, m, 32)
    BY <1>7 DEF b
  <2>2. \A p \in b : p \in 0..m
    BY <1>1, <2>1 DEF Filled, Top, Positions
  <2>3. \A p \in 0..m : p \in b
    BY <1>1, <2>1 DEF Filled
  <2>4. QED
    BY <2>2, <2>3
<1>9. QED
    BY <1>8 DEF b

\* How many of the w positions from i * w on are below s.
Below(s, i, w) == IF s <= i * w THEN 0 ELSE IF s - i * w >= w THEN w ELSE s - i * w

LEMMA Bits2 ==
    ASSUME NEW a, NEW m, Top(a, m)
    PROVE  bits2(a) = m + 1
<1>1. m \in 0..31
    BY TopIsMax
<1> DEFINE ones == [p \in Positions |-> Bit(0..m, p)]
           pairs == Merge(ones, 16)
           nibbles == Merge(pairs, 8)
           bytes == Merge(nibbles, 4)
<1>2. bits2(a) = (bytes[0] + bytes[1] + bytes[2] + bytes[3]) % 256
    BY FillAll DEF bits2
<1>3. \A i \in 0..31 : ones[i] = Below(m + 1, i, 1)
    BY <1>1 DEF Bit, Below, Positions
<1>h. pairs = Merge(ones, 16) /\ nibbles = Merge(pairs, 8) /\ bytes = Merge(nibbles, 4)
    OBVIOUS
<1> HIDE DEF ones, pairs, nibbles, bytes
<1>4. \A i \in 0..15 : pairs[i] = Below(m + 1, i, 2)
  <2> TAKE i \in 0..15
  <2>1. pairs[i] = ones[2 * i] + ones[2 * i + 1]
    BY <1>h DEF Merge
  <2>2. 2 * i \in 0..31 /\ 2 * i + 1 \in 0..31
    OBVIOUS
  <2>3. QED
    BY <1>1, <1>3, <2>1, <2>2 DEF Below
<1>5. \A i \in 0..7 : nibbles[i] = Below(m + 1, i, 4)
  <2> TAKE i \in 0..7
  <2>1. nibbles[i] = pairs[2 * i] + pairs[2 * i + 1]
    BY <1>h DEF Merge
  <2>2. 2 * i \in 0..15 /\ 2 * i + 1 \in 0..15
    OBVIOUS
  <2>3. QED
    BY <1>1, <1>4, <2>1, <2>2 DEF Below
<1>6. \A i \in 0..3 : bytes[i] = Below(m + 1, i, 8)
  <2> TAKE i \in 0..3
  <2>1. bytes[i] = nibbles[2 * i] + nibbles[2 * i + 1]
    BY <1>h DEF Merge
  <2>2. 2 * i \in 0..7 /\ 2 * i + 1 \in 0..7
    OBVIOUS
  <2>3. QED
    BY <1>1, <1>5, <2>1, <2>2 DEF Below
<1>7. bytes[0] + bytes[1] + bytes[2] + bytes[3] = m + 1
    BY <1>1, <1>6 DEF Below
<1>8. QED
    BY <1>1, <1>2, <1>7

\* The word is shifted out in as many steps as it has bits: a function that obeys the
\* equation of the loop exists, and any such function gives the order of each word.
Rest(a) == {Shr(a, n) : n \in 0..32}
Counts(f, a) ==
    f = [w \in Rest(a) |-> IF w = {} THEN 0 ELSE 1 + f[Shr(w, 1)]]

LEMMA RestFacts ==
    ASSUME NEW a \in SUBSET Positions
    PROVE  /\ a \in Rest(a)
           /\ \A w \in Rest(a) : w \in SUBSET Positions /\ (w # {} => Shr(w, 1) \in Rest(a))
<1>1. Shr(a, 0) = a
    BY ShrNothing
<1>2. a \in Rest(a)
    BY <1>1 DEF Rest
<1>3. ASSUME NEW n \in 0..32
      PROVE  /\ Shr(a, n) \in SUBSET Positions
             /\ Shr(a, n) # {} => Shr(Shr(a, n), 1) \in Rest(a)
  <2>1. \A p \in Shr(a, n) : p \in 0..(31 - n) /\ p + n \in a
    BY DEF Shr, Positions
  <2>2. Shr(a, n) \in SUBSET Positions
    BY <2>1 DEF Positions
  <2>3. CASE Shr(a, n) # {}
    <3>1. n + 1 \in 0..32
      BY <2>1, <2>3
    <3>2. Shr(Shr(a, n), 1) = Shr(a, n + 1)
      <4>1. \A q \in a : q \in Int /\ q >= 0
        BY DEF Positions
      <4>2. ASSUME NEW p, p \in Shr(Shr(a, n), 1) PROVE p \in Shr(a, n + 1)
        <5>1. PICK r \in Shr(a, n) : r >= 1 /\ p = r - 1
          BY <4>2 DEF Shr
        <5>2. PICK q \in a : q >= n /\ r = q - n
          BY DEF Shr
        <5>3. q >= n + 1 /\ p = q - (n + 1)
          BY <4>1, <5>1, <5>2
        <5>4. QED
          BY <5>3 DEF Shr
      <4>3. ASSUME NEW p, p \in Shr(a, n + 1) PROVE p \in Shr(Shr(a, n), 1)
        <5>1. PICK q \in a : q >= n + 1 /\ p = q - (n + 1)
          BY <4>3 DEF Shr
        <5>2. q >= n /\ q - n >= 1 /\ p = (q - n) - 1
          BY <4>1, <5>1
        <5>3. q - n \in Shr(a, n)
          BY <5>2 DEF Shr
        <5>4. QED
          BY <5>2, <5>3 DEF Shr
      <4>4. QED
        BY <4>2, <4>3
    <3>3. QED
      BY <2>2, <3>1, <3>2 DEF Rest
  <2>4. QED
    BY <2>2, <2>3
<1>4. QED
    BY <1>2, <1>3 DEF Rest

LEMMA OrderStep ==
    ASSUME NEW w \in SUBSET Positions
    PROVE  Order(w) \in Nat /\ Order(w) = IF w = {} THEN 0 ELSE 1 + Order(Shr(w, 1))
<1>1. CASE w = {}
    BY <1>1 DEF Order
<1>2. CASE w # {}
  <2>1. PICK m \in w : Top(w, m)
    BY <1>2, HasTop
  <2>2. m \in 0..31 /\ Order(w) = m + 1
    BY <2>1, TopIsMax
  <2>3. CASE m = 0
    <3>1. Shr(w, 1) = {}
      BY <2>1, <2>3 DEF Shr, Top
    <3>2. QED
      BY <1>2, <2>2, <2>3, <3>1 DEF Order
  <2>4. CASE m # 0
    <3>1. Top(Shr(w, 1), m - 1)
      BY <2>1, <2>2, <2>4, TopShr
    <3>2. Order(Shr(w, 1)) = m - 1 + 1
      BY <3>1, TopIsMax
    <3>3. QED
      BY <1>2, <2>2, <3>2
  <2>5. QED
    BY <2>3, <2>4
<1>3. QED
    BY <1>1, <1>2

LEMMA CountsExists ==
    ASSUME NEW a \in SUBSET Positions
    PROVE  Counts([w \in Rest(a) |-> Order(w)], a)
<1> DEFINE f == [w \in Rest(a) |-> Order(w)]
<1>1. ASSUME NEW w \in Rest(a)
      PROVE  Order(w) = IF w = {} THEN 0 ELSE 1 + f[Shr(w, 1)]
    BY RestFacts, OrderStep
<1>2. QED
    BY <1>1 DEF Counts

LEMMA CountsIsOrder ==
    ASSUME NEW a \in SUBSET Positions, NEW f, Counts(f, a)
    PROVE  f[a] = Order(a)
<1> DEFINE wrong == {n \in Nat : \E w \in Rest(a) : Order(w) = n /\ f[w] # Order(w)}
<1>1. ASSUME NEW w \in Rest(a) PROVE f[w] = IF w = {} THEN 0 ELSE 1 + f[Shr(w, 1)]
    BY DEF Counts
<1>2. ASSUME wrong # {} PROVE FALSE
  <2>1. PICK n \in wrong : \A i \in wrong : n <= i
    BY <1>2, LeastNumber
  <2>2. PICK w \in Rest(a) : Order(w) = n /\ f[w] # Order(w)
    BY <2>1
  <2>3. w \in SUBSET Positions /\ w # {}
    BY <1>1, <2>2, RestFacts DEF Order
  <2>4. Shr(w, 1) \in Rest(a) /\ Shr(w, 1) \in SUBSET Positions
    BY <2>3, RestFacts
  <2>5. /\ Order(w) = 1 + Order(Shr(w, 1)) /\ f[w] = 1 + f[Shr(w, 1)]
        /\ Order(Shr(w, 1)) \in Nat
    BY <1>1, <2>3, <2>4, OrderStep
  <2>6. Order(Shr(w, 1)) \notin wrong
    BY <2>1, <2>2, <2>5
  <2>7. f[Shr(w, 1)] = Order(Shr(w, 1))
    BY <2>4, <2>5, <2>6
  <2>8. QED
    BY <2>2, <2>5, <2>7
<1>3. a \in Rest(a) /\ Order(a) \in Nat
    BY RestFacts, OrderStep
<1>4. Order(a) \notin wrong
    BY <1>2
<1>5. QED
    BY <1>3, <1>4

LEMMA Bits0 ==
    ASSUME NEW a \in SUBSET Positions
    PROVE  bits0(a) = Order(a)
<1> DEFINE count == CHOOSE f : Counts(f, a)
<1>1. Counts(count, a)
    BY CountsExists
<1>2. bits0(a) = count[a]
    BY DEF bits0, Counts, Rest
<1>3. QED
    BY <1>1, <1>2, CountsIsOrder

\* Every function returns the order of every word it is defined for.
LEMMA BitsCorrect ==
    ASSUME NEW a \in SUBSET Positions, NEW i \in 0..6, a # {} \/ i \in 0..4,
           NEW r \in Results(i, a)
    PROVE  r = Order(a)
<1>1. bits0(a) = Order(a)
    BY Bits0
<1>2. CASE a = {}
  <2>1. Order(a) = 0
    BY <1>2 DEF Order
  <2>2. bits1(a) = 0 /\ bits4(a) = 0
    BY <1>2 DEF bits1, bits4
  <2>3. \A n \in Nat : Shr(a, n) = {}
    BY <1>2 DEF Shr
  <2>4. bits2(a) = 0
    <3>1. Fill(Fill(Fill(Fill(Fill(a, 1), 2), 4), 8), 16) = {}
      BY <1>2, <2>3 DEF Fill
    <3>2. \A p \in Positions : Bit({}, p) = 0
      BY DEF Bit
    <3>3. QED
      BY <3>1, <3>2 DEF bits2, Merge, Positions
  <2>5. bits3(a) = 0
    <3>1. \A n : ~Exceeds({}, n)
      BY DEF Exceeds
    <3>2. Shr({}, 0) = {} /\ Bit({}, 1) = 0
      BY DEF Shr, Bit
    <3>3. QED
      BY <1>2, <3>1, <3>2 DEF bits3
  <2>6. QED
    BY <1>1, <1>2, <2>1, <2>2, <2>4, <2>5 DEF Results
<1>3. CASE a # {}
  <2>1. PICK m \in a : Top(a, m)
    BY <1>3, HasTop
  <2>2. Order(a) = m + 1
    BY <2>1, TopIsMax
  <2>3. /\ bits1(a) = m + 1 /\ bits2(a) = m + 1 /\ bits3(a) = m + 1 /\ bits4(a) = m + 1
        /\ bits5(a) = m + 1 /\ bits6(a) = {m + 1}
    BY <2>1, Bits156, Bits2, Bits3, Bits4
  <2>4. QED
    BY <1>1, <2>2, <2>3 DEF Results
<1>4. QED
    BY <1>2, <1>3

\* A result is that of the function called for the word.
BitInv ==
    /\ k \in 0..6 /\ num \in SUBSET Positions
    /\ result # NoResult => result \in Results(k, num)

\* The seven functions agree on every 32-bit word but 0, on which the first five do.
THEOREM HigherBitCorrect == BitSpec => []BitsAgree
<1>1. BitInit => BitInv
    BY WordsAssumption DEF BitInit, BitInv
<1>2. BitInv /\ [BitNext]_bitVars => BitInv'
    BY DEF BitInv, BitNext, Calls, bitVars
<1>3. BitInv => BitsAgree
    BY BitsCorrect DEF BitInv, BitsAgree
<1>4. QED
    BY <1>1, <1>2, <1>3, PTL DEF BitSpec
=============================================================================
