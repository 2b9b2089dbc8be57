------------------------------- MODULE BitVec -------------------------------
(***************************************************************************)
(* Bit vectors as Verilog indexes them: a vector of width n is a function  *)
(* from 0 .. n-1 to {0, 1}, and bit 0 is the least significant one.  Every *)
(* register of the serial engine and of the serial memories is one of      *)
(* these, so that slicing and concatenation are arithmetic on indices.     *)
(***************************************************************************)
EXTENDS Integers

BIT == {0, 1}

Bits(n) == [0 .. n - 1 -> BIT]

Zeros(n) == [i \in 0 .. n - 1 |-> 0]

\* The low n bits of v, i.e. v[n-1:0].
Low(v, n) == [i \in 0 .. n - 1 |-> v[i]]

\* Byte lane k of v, i.e. v[8*k +: 8].
Lane(v, k) == [i \in 0 .. 7 |-> v[8 * k + i]]

\* {v[n-2:0], b}, where v has width n: shift left by one, b enters at bit 0.
ShiftIn(v, b, n) == [i \in 0 .. n - 1 |-> IF i = 0 THEN b ELSE v[i - 1]]

\* v + 1 modulo 2^n: a bit flips when every lower bit is one.
Increment(v, n) ==
  [i \in 0 .. n - 1 |->
     IF \A j \in 0 .. i - 1 : v[j] = 1 THEN 1 - v[i] ELSE v[i]]

\* v plus the small number k, by k increments; k is a byte offset, 0 .. 3.
Plus(v, n, k) ==
  LET one == Increment(v, n)
      two == Increment(one, n)
  IN  CASE k = 0 -> v
        [] k = 1 -> one
        [] k = 2 -> two
        [] OTHER -> Increment(two, n)

\* v[hi:lo]
Slice(v, hi, lo) == [i \in 0 .. hi - lo |-> v[lo + i]]

\* The n-bit vector of a natural number below 2^30.
ToBits(x, n) == [i \in 0 .. n - 1 |-> IF i < 30 THEN (x \div 2^i) % 2 ELSE 0]

\* The number that bits n-1 .. 0 of v stand for, n at most 8.
Val(v, n) ==
  LET bit(i) == IF i < n THEN v[i] ELSE 0
  IN  bit(0) + 2 * bit(1) + 4 * bit(2) + 8 * bit(3)
        + 16 * bit(4) + 32 * bit(5) + 64 * bit(6) + 128 * bit(7)

=============================================================================
