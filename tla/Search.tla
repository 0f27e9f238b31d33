-------------------------------- MODULE Search --------------------------------
(***************************************************************************)
(* algorithms/binary_search: binary_search.pl and binary_search.awk look   *)
(* up the segment of a table of boundaries that a value falls into.  The   *)
(* loop is the same; they differ in what they reject before it and in what *)
(* they return.  Entries are numbered from 1 in both.                      *)
(***************************************************************************)
EXTENDS Integers, Sequences

CONSTANTS
    MaxLen,      \* bound: entries of the table
    MaxKey       \* bound: the boundaries and the value searched for

ASSUME SearchAssumption == MaxLen \in Nat /\ MaxKey \in Nat

VARIABLES
    variant,     \* "perl" or "awk"
    table,       \* the boundaries, in order
    value,       \* the value searched for
    low, high,   \* the range that is left
    mid,         \* the entry probed last, NotFound before the first
    answer       \* the entry found, NotFound, or Searching

searchVars == <<variant, table, value, low, high, mid, answer>>

NotFound == 0
Searching == -1
Keys == 0..MaxKey

Tables == UNION {{t \in [1..n -> Keys] : \A i \in 1..(n - 1) : t[i] < t[i + 1]} :
                 n \in 1..MaxLen}

SearchInit ==
    /\ variant \in {"perl", "awk"}
    /\ table \in Tables
    /\ value \in Keys
    /\ low = 1 /\ high = Len(table)
    /\ mid = NotFound
    /\ answer = Searching

\* perl: the value is below the table; awk: it is outside, where the last boundary
\* closes the last segment.
Outside ==
    \/ value < table[1]
    \/ variant = "awk" /\ value >= table[Len(table)]

Rejects ==
    /\ answer = Searching /\ mid = NotFound
    /\ Outside
    /\ answer' = NotFound
    /\ UNCHANGED <<variant, table, value, low, high, mid>>

\* The entry to probe; faulty variant first: rounded down.
LowerMiddle == low + (high - low) \div 2
Middle == low + (high - low) \div 2 + 1

\* Whether the entry is above the value; faulty variant first.
AtOrAbove(m) == table[m] >= value
Above(m) == table[m] > value

Probes ==
    /\ answer = Searching
    /\ mid # NotFound \/ ~Outside
    /\ low < high
    /\ mid' = Middle
    /\ IF Above(Middle)
       THEN high' = Middle - 1 /\ UNCHANGED low
       ELSE low' = Middle /\ UNCHANGED high
    /\ UNCHANGED <<variant, table, value, answer>>

\* The entry probed last if it matches.  With a single entry the loop does not run:
\* perl compares entry "undef", which is the first, and returns the undef.
Returns ==
    /\ answer = Searching
    /\ mid # NotFound \/ ~Outside
    /\ low >= high
    /\ answer' = IF table[IF mid = NotFound THEN 1 ELSE mid] = value THEN mid ELSE low
    /\ UNCHANGED <<variant, table, value, low, high, mid>>

SearchNext == Rejects \/ Probes \/ Returns
SearchSpec == SearchInit /\ [][SearchNext]_searchVars

-----------------------------------------------------------------------------
\* What the search is for: the last entry that is not above the value.
Segment == {i \in 1..Len(table) : table[i] <= value /\ (i < Len(table) => value < table[i + 1])}

\* The segment found is the one the value falls into, and none is found only for a
\* value outside the table or, in binary_search.pl:20, for a table of one entry that
\* matches (binary_search.awk:21, binary_search.pl:6).
FindsSegment ==
    \/ answer = Searching
    \/ answer = NotFound /\ (Outside \/ (Len(table) = 1 /\ table[1] = value))
    \/ answer \in Segment

\* The range shrinks with each probe, so the search ends (the loop of both files).
SearchEnds == answer = Searching ~> answer # Searching
=============================================================================
