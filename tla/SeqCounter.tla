----------------------------- MODULE SeqCounter -----------------------------
(***************************************************************************)
(* core/seq_counter.hpp: the 64-bit counter all sources of one NJoin       *)
(* share, and the signed comparison of two of its values.  The width is a  *)
(* parameter: a counter has 2 * Half values, Half = 2^63 in the code.  The *)
(* wrap is written with a comparison in place of %, so that every          *)
(* definition is linear arithmetic.                                        *)
(***************************************************************************)
EXTENDS Integers

CONSTANT Half

ASSUME HalfAssumption == Half \in Nat \ {0}

Stamp == 0 .. (2 * Half - 1)

(* A buggy counter for mutation: the increment is lost. *)
StuckStamp(c) == c

(* counter_.fetch_add(1): the value the counter holds after it held c. *)
NextStamp(c) == IF c = 2 * Half - 1 THEN 0 ELSE c + 1

(* The unsigned difference a - b of two counter values. *)
Distance(a, b) == IF a >= b THEN a - b ELSE a - b + 2 * Half

(* A buggy comparison for mutation: unsigned, not wrap-aware. *)
UnsignedAfter(a, b) == a > b

(* static_cast<int64_t>(a - b) > 0: the difference, read as a signed       *)
(* number, is positive when it lies strictly between 0 and Half.           *)
seq_after(a, b) == Distance(a, b) \in 1 .. (Half - 1)

(* The stamp the n-th call of next() returns when the counter began at c;  *)
(* n counts from 0 and stays below the period of the counter.              *)
StampAt(c, n) == IF c + n < 2 * Half THEN c + n ELSE c + n - 2 * Half

=============================================================================
