------------------------------ MODULE HigherBit ------------------------------
(***************************************************************************)
(* languages/cxx/t/higher_bit.cpp: seven ways to compute the number of     *)
(* bits of an unsigned 32-bit word, which main calls for every word.       *)
(*                                                                         *)
(* A word is the set of the positions of its ones: a shift moves the set   *)
(* and drops what leaves the word, a comparison with a mask of ones asks   *)
(* for a position above it.  The float formats are external: a double      *)
(* holds every word exactly, its exponent field is 1023 plus the position  *)
(* of the highest one, and 0 for the word 0.                               *)
(***************************************************************************)
EXTENDS Integers, FiniteSets, FiniteSetsExt

CONSTANT Words    \* bound: the words main calls the functions with (all 2^32)

Positions == 0..31

ASSUME WordsAssumption == Words \subseteq SUBSET Positions

VARIABLES
    k,        \* main's index into bits[]
    num,      \* the word it is called with
    result    \* what it returns, as a signed number; NoResult before the call

bitVars == <<k, num, result>>

NoResult == -1

Shr(a, n) == {p - n : p \in {q \in a : q >= n}}
Shl(a, n) == {p + n : p \in a} \cap Positions
Exceeds(a, n) == \E p \in a : p >= n    \* a > 2^n - 1
Bit(a, n) == IF n \in a THEN 1 ELSE 0

\* What the functions are to compute: the position of the highest one, plus one.
Order(a) == IF a = {} THEN 0 ELSE 1 + Max(a)

-----------------------------------------------------------------------------
\* The loop that shifts the word out, counting.
bits0(a) ==
    LET count[w \in {Shr(a, n) : n \in 0..32}] ==
            IF w = {} THEN 0 ELSE 1 + count[Shr(w, 1)]
    IN count[a]

Exponent(a) == IF a = {} THEN 0 ELSE 1023 + Max(a)

bits1(a) == IF a = {} THEN 0 ELSE Exponent(a) - 1023 + 1

\* Every position below the highest one is filled, then the ones are added up
\* sideways in fields of 2, 4 and 8 bits; the product adds the bytes modulo 256.
Fill(a, n) == a \cup Shr(a, n)
Merge(field, n) == [i \in 0..(n - 1) |-> field[2 * i] + field[2 * i + 1]]
bits2(a) ==
    LET filled == Fill(Fill(Fill(Fill(Fill(a, 1), 2), 4), 8), 16)
        ones == [p \in Positions |-> Bit(filled, p)]
        bytes == Merge(Merge(Merge(ones, 16), 8), 4)
    IN (bytes[0] + bytes[1] + bytes[2] + bytes[3]) % 256

\* Binary search that moves the upper half down when there is something in it.
bits3(a) ==
    LET shift(w, n) == IF Exceeds(w, n) THEN n ELSE 0
        s16 == shift(a, 16)     v16 == Shr(a, s16)
        s8 == shift(v16, 8)     v8 == Shr(v16, s8)
        s4 == shift(v8, 4)      v4 == Shr(v8, s4)
        s2 == shift(v4, 2)      v2 == Shr(v4, s2)
    IN s16 + s8 + s4 + s2 + Bit(v2, 1) + (IF v2 = {} THEN 0 ELSE 1)

\* The same upwards: an empty upper half is shifted out.  A faulty variant stops at
\* the nibbles.
Lift(s, n) == IF Exceeds(s.num, 32 - n) THEN s ELSE [n |-> s.n - n, num |-> Shl(s.num, n)]
bits4Short(a) ==
    LET s == Lift(Lift(Lift([n |-> 31, num |-> a], 16), 8), 4)
    IN IF a = {} THEN 0 ELSE s.n + Bit(s.num, 31)
bits4(a) ==
    LET s == Lift(Lift(Lift(Lift([n |-> 31, num |-> a], 16), 8), 4), 2)
    IN IF a = {} THEN 0 ELSE s.n + Bit(s.num, 31)

bits5(a) == Exponent(a) - 1024 + 2

\* bsrl leaves its destination undefined for 0: any register value.
bits6(a) == IF a = {} THEN 0..32 ELSE {Max(a) + 1}

Results(i, a) ==
    CASE i = 0 -> {bits0(a)} [] i = 1 -> {bits1(a)} [] i = 2 -> {bits2(a)}
      [] i = 3 -> {bits3(a)} [] i = 4 -> {bits4(a)} [] i = 5 -> {bits5(a)}
      [] i = 6 -> bits6(a)

-----------------------------------------------------------------------------
\* main: every function with every word, in this order.
BitInit == k \in 0..6 /\ num \in Words /\ result = NoResult
Calls ==
    /\ result = NoResult
    /\ result' \in Results(k, num)
    /\ UNCHANGED <<k, num>>
BitNext == Calls
BitSpec == BitInit /\ [][BitNext]_bitVars

\* The seven functions agree on every word but 0, for which bits5 returns 2^32 - 1022
\* and bits6 is undefined (higher_bit.cpp, "find out the higher bit").
BitsAgree == result # NoResult /\ (num # {} \/ k \in 0..4) => result = Order(num)
=============================================================================
