------------------------------ MODULE Rotation ------------------------------
(***************************************************************************)
(* What a blind rotation promises, whatever its schedule: the accumulator  *)
(* is multiplied by the key components whose rotation is not zero, each    *)
(* once and in order.  Complete says that none is left.                    *)
(***************************************************************************)
EXTENDS Naturals, Sequences

CONSTANTS N           \* param.n, the number of key components

VARIABLES zero,       \* the components i with input.a[i] = 0
          acc         \* the components the accumulator has been multiplied by

vars == <<zero, acc>>
Components == 0..N - 1

Init == zero \subseteq Components /\ acc = <<>>

Used == {acc[j] : j \in DOMAIN acc}
Before(c) == (0..c - 1) \ zero

Due(c) == c \in Components \ zero /\ Used = Before(c)

Accumulate(c) == Due(c) /\ acc' = Append(acc, c) /\ UNCHANGED zero

Next == \E c \in Components : Accumulate(c)

Spec == Init /\ [][Next]_vars

Complete == Used = Before(N)
=============================================================================
