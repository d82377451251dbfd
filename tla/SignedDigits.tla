---------------------------- MODULE SignedDigits ----------------------------
(***************************************************************************)
(* The arithmetic of the signed gadget decomposition of                    *)
(* gadget_decomposition.h: a torus value is rounded and split into k       *)
(* digits of radix B, each moved into -B/2 .. B/2 by a carry.  Where the   *)
(* digit is exactly B/2 the carry depends on the window above, so that     *)
(* digits have mean zero.                                                  *)
(*                                                                         *)
(* Shifts are divisions by the weight of a window.  The widths are         *)
(* constants with what the proofs need of them; in the code all are powers *)
(* of two.                                                                 *)
(***************************************************************************)
EXTENDS Integers

CONSTANTS
    HalfB,      \* half of the radix, 2^(radixBits - 1)
    MaxL,       \* the largest number of digits asked for
    Weight      \* Weight[i] = 2^windowShift(widthBits, radixBits, i)

B == 2 * HalfB
Modulus == B * Weight[0]
Half == HalfB * Weight[0]

ASSUME WeightAssumption ==
    /\ HalfB \in Nat \ {0}
    /\ MaxL \in Nat \ {0}
    /\ Weight \in [0 .. MaxL - 1 -> Nat \ {0}]
    /\ \A i \in 1 .. MaxL - 1 : Weight[i - 1] = B * Weight[i]
    /\ \A i \in 0 .. MaxL - 1 : Weight[i] = 1 \/ Weight[i] % 2 = 0

(***************************************************************************)
(* Rounding and sign.                                                      *)
(***************************************************************************)
\* mutant: the row is not rounded
RoundingBias_None(k) == 0

RoundingBias(k) == Weight[k - 1] \div 2

Negative(u) == u >= Half

Magnitude(u) == IF Negative(u) THEN Modulus - u ELSE u

Sign(neg) == IF neg THEN -1 ELSE 1

(***************************************************************************)
(* One window.                                                             *)
(***************************************************************************)
Window(m, i) == (m \div Weight[i]) % B

TieBit(m, i) == i > 0 /\ (m \div (HalfB * Weight[i - 1])) % 2 = 1

\* mutant: the carry is taken at B only, as in an unsigned addition
CarryOut_Late(digit, tie) == IF digit >= B THEN 1 ELSE 0

CarryOut(digit, tie) ==
    IF digit > HalfB \/ (digit = HalfB /\ tie) THEN 1 ELSE 0

BalancedDigit(digit, c) == digit - c * B

(***************************************************************************)
(* All digits of a torus value at once, the carry rising from the last.    *)
(***************************************************************************)
Digits(u, k) ==
    LET x == u % Modulus
        m == Magnitude(x) + RoundingBias(k)
        Filled[i \in 0 .. k] ==   \* window i with the carry from below
            IF i = k THEN 0
            ELSE Window(m, i) + (IF i = k - 1 THEN 0
                                 ELSE CarryOut(Filled[i + 1], TieBit(m, i + 1)))
    IN [i \in 0 .. k - 1 |->
          Sign(Negative(x)) * BalancedDigit(Filled[i], CarryOut(Filled[i], TieBit(m, i)))]

=============================================================================
