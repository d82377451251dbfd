-------------------------- MODULE MCZeroMeanDigits --------------------------
(* Instance of ZeroMeanDigits for TLC: a torus of 7 bits, radix 4.  All     *)
(* values one by one, and pairs of values at the boundaries.                *)
EXTENDS ZeroMeanDigits

MCWeight == [i \in 0 .. 2 |-> 2 * 4 ^ (2 - i)]

Edges == {0, 1, 63, 64, 65, 85}

MCRows == [0 .. 0 -> 0 .. 127] \cup [0 .. 1 -> Edges]
=============================================================================
