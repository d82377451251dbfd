--------------------------- MODULE ZeroMeanDigits ---------------------------
(***************************************************************************)
(* decomposeRow: every external product and every key switching begins     *)
(* with it.  A row of torus values is decomposed into rows of digits, by   *)
(* scratch rows that stay from one call to the next; rows of few digits    *)
(* are decomposed value by value, rows of many digits level by level.      *)
(***************************************************************************)
EXTENDS SignedDigits

CONSTANTS
    UnrollBelow,\* rows with fewer digits are decomposed value by value (5)
    OutHalf,    \* the digit type holds -OutHalf .. OutHalf - 1
    Rows        \* the rows of torus values that callers decompose

ASSUME RowsAssumption ==
    /\ UnrollBelow \in Nat
    \* decomposeRow refuses a digit type that is too narrow
    /\ OutHalf \in Nat /\ HalfB < OutHalf
    /\ \A row \in Rows : /\ DOMAIN row \subseteq Nat
                         /\ row \in [DOMAIN row -> 0 .. Modulus - 1]

VARIABLES
    in,         \* the row in hand
    l,          \* the number of digits asked for
    out,        \* out[i][j]: digit i of value j
    magnitude,  \* the scratch rows, which keep what the last call left
    negative,
    carry,
    todo,       \* the next window of each value, -1 when it has them all
    sum         \* what recomposeSelf adds up from the digits emitted so far

vars == <<in, l, out, magnitude, negative, carry, todo, sum>>

\* static_cast<OutT>
Narrow(d) ==
    IF d \in -OutHalf .. OutHalf - 1 THEN d
    ELSE ((d + OutHalf) % (2 * OutHalf)) - OutHalf

(***************************************************************************)
(* A call.                                                                 *)
(***************************************************************************)
Idle == \A j \in DOMAIN in : todo[j] = -1

Init ==
    /\ in = << >> /\ l = 1 /\ out = [i \in 0 .. 0 |-> << >>]
    /\ magnitude = << >> /\ negative = << >> /\ carry = << >>
    /\ todo = << >> /\ sum = << >>

\* mutant: a buffer that is long enough is not filled again
Refilled_Grown(buffer, values) ==
    [j \in DOMAIN buffer \cup DOMAIN values |->
        IF j \in DOMAIN buffer THEN buffer[j] ELSE values[j]]

\* the buffer with its first entries replaced, the others left as they are
Refilled(buffer, values) ==
    [j \in DOMAIN buffer \cup DOMAIN values |->
        IF j \in DOMAIN values THEN values[j] ELSE buffer[j]]

Call(row, k) ==
    LET Rounded(u) == Magnitude(u) + RoundingBias(k)
    IN /\ Idle
       /\ in' = row /\ l' = k
       /\ out' = [i \in 0 .. k - 1 |-> [j \in DOMAIN row |-> 0]]
       /\ magnitude' = Refilled(magnitude, [j \in DOMAIN row |-> Rounded(row[j])])
       /\ negative' = Refilled(negative, [j \in DOMAIN row |-> Negative(row[j])])
       /\ carry' = Refilled(carry, [j \in DOMAIN row |-> 0])
       /\ todo' = [j \in DOMAIN row |-> k - 1]
       /\ sum' = [j \in DOMAIN row |-> 0]

Digit(j) == Window(magnitude[j], todo[j]) + carry[j]

NextCarry(j) == CarryOut(Digit(j), TieBit(magnitude[j], todo[j]))

Emitted(j) ==
    Narrow(Sign(negative[j]) * BalancedDigit(Digit(j), NextCarry(j)))

\* the next digit of every value of J
Emit(J) ==
    /\ out' = [i \in DOMAIN out |-> [j \in DOMAIN in |->
                 IF j \in J /\ todo[j] = i THEN Emitted(j) ELSE out[i][j]]]
    /\ carry' = [j \in DOMAIN carry |-> IF j \in J THEN NextCarry(j) ELSE carry[j]]
    /\ sum' = [j \in DOMAIN in |->
                 IF j \in J THEN sum[j] + Emitted(j) * Weight[todo[j]] ELSE sum[j]]
    /\ todo' = [j \in DOMAIN in |-> IF j \in J THEN todo[j] - 1 ELSE todo[j]]
    /\ UNCHANGED <<in, l, magnitude, negative>>

\* few digits: all of one value, then those of the next
ByValue ==
    /\ l < UnrollBelow
    /\ \E j \in DOMAIN in :
          /\ todo[j] >= 0
          /\ \A i \in DOMAIN in : i < j => todo[i] = -1
          /\ Emit({j})

\* many digits: one level of all values, then the next
ByLevel ==
    /\ l >= UnrollBelow
    /\ DOMAIN in # {}
    /\ \A j \in DOMAIN in : todo[j] >= 0
    /\ Emit(DOMAIN in)

Next ==
    \/ \E row \in Rows, k \in 1 .. MaxL : Call(row, k)
    \/ ByValue
    \/ ByLevel

Spec == Init /\ [][Next]_vars

(***************************************************************************)
(* Properties.                                                             *)
(***************************************************************************)
\* Every digit handed out lies in -B/2 .. B/2, whatever the value, the number
\* of digits and what the scratch rows held: neither the widest digit nor the
\* one that a carry fills up leaves the digit type.
DigitsBalanced ==
    \A j \in DOMAIN in : \A i \in todo[j] + 1 .. l - 1 : out[i][j] \in -HalfB .. HalfB

\* The digits of a value, put together by recomposeSelf, give the value back
\* modulo the torus, up to half of the weight of the last digit.
Recomposes ==
    LET half == Weight[l - 1] \div 2
    IN \A j \in DOMAIN in : todo[j] = -1 =>
          \E k \in {-1, 0} : sum[j] - in[j] - k * Modulus \in -half .. half

\* Whatever the scratch rows held before, and whether the row was taken value
\* by value or level by level, a value gets the digits that the carry rising
\* through it alone gives: neighbours and earlier calls leave no trace.
MatchesDigits ==
    \A j \in DOMAIN in : todo[j] = -1 =>
        \A i \in 0 .. l - 1 : out[i][j] = Digits(in[j], l)[i]

=============================================================================
