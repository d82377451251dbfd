----------------------------- MODULE LweAlgebra -----------------------------
(***************************************************************************)
(* The algebra of the library at dimension k = 1, which every parameter    *)
(* set of the repository has: torus numbers, polynomials modulo X^N + 1,   *)
(* ring-LWE and LWE samples, key switching, and the test polynomials of    *)
(* the lookup tables.                                                      *)
(*                                                                         *)
(* A torus number is an integer in -TorusQ/2 .. (TorusQ - 1)/2.  What the  *)
(* library draws at random is Draw.                                        *)
(***************************************************************************)
EXTENDS Integers

CONSTANTS
    N,              \* degree
    TorusQ, LweQ,   \* moduli of ring-LWE and of LWE samples
    KsHalf, KsLevel,\* key switching: half of the radix, levels
    MessageP,       \* MESSAGE_P
    Draw(_, _)      \* Draw(tag, j): the j-th number drawn for what tag names

ASSUME AlgebraAssumption ==
    /\ N \in Nat \ {0} /\ TorusQ \in Nat \ {0}
    /\ LweQ \in Nat \ {0} /\ MessageP \in Nat \ {0}
    /\ LweQ % (2 * N) = 0 /\ (2 * N) % MessageP = 0 /\ MessageP % 2 = 0

Coeffs == 0 .. N - 1

\* of the first k values of f
Sum(k, f) == LET S[j \in 0 .. k] == IF j = 0 THEN 0 ELSE S[j - 1] + f[j - 1] IN S[k]

\* of the products of the first k values of two functions
Dot(a, z, k) == Sum(k, [j \in 0 .. k - 1 |-> a[j] * z[j]])

(***************************************************************************)
(* Numbers.                                                                *)
(***************************************************************************)
Centre(x, p) == LET r == x % p IN IF r > (p - 1) \div 2 THEN r - p ELSE r

\* mutant: a rescaling that truncates
Switched_Floor(x, new, old) ==
    IF old >= new THEN Centre(x \div (old \div new), new) ELSE Centre(x * (new \div old), new)

\* modSwitchFromTorusGeneral
Switched(x, new, old) ==
    LET scale == old \div new
        Nearest(y) == (y + scale \div 2) \div scale
    IN IF old >= new THEN Centre(IF x >= 0 THEN Nearest(x) ELSE -Nearest(-x), new)
       ELSE Centre(x * (new \div old), new)

\* modSwitchToTorusGeneral
ToTorus(m, q) == Centre(m, MessageP) * (q \div MessageP)

(***************************************************************************)
(* Polynomials.                                                            *)
(***************************************************************************)
Zero == [i \in Coeffs |-> 0]
Constant(c) == [Zero EXCEPT ![0] = c]

OnTorus(p) == [i \in Coeffs |-> Centre(p[i], TorusQ)]

Plus(p, q) == [i \in Coeffs |-> p[i] + q[i]]
Minus(p, q) == [i \in Coeffs |-> p[i] - q[i]]
Times(p, q) ==
    [i \in Coeffs |->
        Sum(N, [j \in Coeffs |-> p[j] * (IF j <= i THEN q[i - j] ELSE -q[N + i - j])])]

\* X^a * p
Rotated(a, p) ==
    LET turn == a % (2 * N)
        wrap == IF turn < N THEN 1 ELSE -1
        by == turn % N
    IN [i \in Coeffs |-> wrap * (IF i < by THEN -p[i - by + N] ELSE p[i - by])]

\* (X^a - 1) * p
RotatedMinusOne(a, p) == Minus(Rotated(a, p), p)

(***************************************************************************)
(* Ring-LWE samples.                                                       *)
(***************************************************************************)
Each(Op(_), x) == [a |-> Op(x.a), b |-> Op(x.b)]
Both(Op(_, _), x, y) == [a |-> Op(x.a, y.a), b |-> Op(x.b, y.b)]
Phase(x, z) == OnTorus(Minus(x.b, Times(x.a, z)))

\* a draw as noise, within one unit
Noise(tag, i) == (Draw(tag, i) % 3) - 1

Noisy(tag, m) == OnTorus([i \in Coeffs |-> m[i] + Noise(tag, i)])
Mask(tag, q) == [i \in Coeffs |-> Centre(Draw(tag, N + i), q)]

\* symEncTrlweMultiSample, all on the torus
EncTorus(tag, m, z) ==
    LET a == Mask(tag, TorusQ) IN [a |-> a, b |-> OnTorus(Plus(Noisy(tag, m), Times(a, z)))]

(***************************************************************************)
(* LWE samples.                                                            *)
(***************************************************************************)
LwePhase(x, s) == Centre(x.b - Dot(x.a, s, x.n), LweQ)

EncLwe(tag, mu, s, n) ==
    LET a == [i \in 0 .. n - 1 |-> Centre(Draw(tag, i + 1), LweQ)]
    IN [n |-> n, a |-> a, b |-> Centre(mu + Noise(tag, 0) + Dot(a, s, n), LweQ)]

\* symDecTlweToInt
DecLwe(x, s) == Switched(ToTorus(Switched(LwePhase(x, s), MessageP, LweQ), LweQ), MessageP, LweQ)

Rescaled(x) ==
    [x EXCEPT !.a = [i \in DOMAIN x.a |-> Switched(x.a[i], 2 * N, LweQ)],
              !.b = Switched(x.b, 2 * N, LweQ)]

\* mutant: coefficients in order, signs kept
Extracted_Straight(x) ==
    [n |-> N, b |-> Switched(x.b[0], LweQ, TorusQ),
     a |-> [j \in Coeffs |-> Switched(x.a[j], LweQ, TorusQ)]]

\* extractTlweFromTrlwe at index 0
Extracted(x) ==
    [n |-> N, b |-> Switched(x.b[0], LweQ, TorusQ),
     a |-> [j \in Coeffs |-> Switched(IF j = 0 THEN x.a[0] ELSE -x.a[N - j], LweQ, TorusQ)]]

KsWeight(j) == LweQ \div (2 * KsHalf) ^ (j + 1)

\* the moduli and the radix are powers of two
ASSUME KsAssumption ==
    /\ KsHalf \in Nat \ {0} /\ KsLevel \in Nat \ {0}
    /\ \A j \in 0 .. KsLevel - 1 : KsWeight(j) \in Nat \ {0}
    /\ LweQ = 2 * KsHalf * KsWeight(0)
    /\ \A j \in 1 .. KsLevel - 1 : KsWeight(j - 1) = 2 * KsHalf * KsWeight(j)

KsGadget == INSTANCE SignedDigits WITH HalfB <- KsHalf, MaxL <- KsLevel,
                                       Weight <- [j \in 0 .. KsLevel - 1 |-> KsWeight(j)]

EncKsk(tag, z, s, n) ==
    [i \in Coeffs |-> [j \in 0 .. KsLevel - 1 |->
        EncLwe(tag + i * KsLevel + j, z[i] * KsWeight(j), s, n)]]

KeySwitched(x, ksk, n) ==
    LET digit == [i \in Coeffs |-> KsGadget!Digits(x.a[i], KsLevel)]
        Over(f) == Sum(N, [i \in Coeffs |-> Dot(digit[i], f[i], KsLevel)])
        Rows(Get(_)) == [i \in Coeffs |-> [j \in 0 .. KsLevel - 1 |-> Get(ksk[i][j])]]
    IN [n |-> n,
        a |-> [k \in 0 .. n - 1 |-> LET A(row) == row.a[k] IN Centre(-Over(Rows(A)), LweQ)],
        b |-> LET Bs(row) == row.b IN Centre(x.b - Over(Rows(Bs)), LweQ)]

(***************************************************************************)
(* Lookup tables: [kind, t, value].                                        *)
(***************************************************************************)
Entry(lut, m) ==
    LET t == Centre(lut.t, MessageP)
    IN CASE lut.kind = "identity" -> m
         [] lut.kind = "lt1" -> IF m < t THEN 1 ELSE 0
         [] lut.kind = "leq0" -> IF m <= t THEN 0 ELSE 1
         [] lut.kind \in {"equal", "value"} -> IF m = t THEN lut.value ELSE 0

Box == (2 * N) \div MessageP

\* mutant: the slots begin at their messages
TestPolynomial_NoHalfSlot(lut) ==
    [i \in Coeffs |-> ToTorus(Entry(lut, Centre(i \div Box, MessageP)), TorusQ)]

\* generateTestPolynomial and its kin: one slot per message, the first half
\* of slot 0 negated and moved to the end
TestPolynomial(lut) ==
    LET half == Box \div 2
        v == [i \in Coeffs |-> ToTorus(Entry(lut, Centre(i \div Box, MessageP)), TorusQ)]
    IN [i \in Coeffs |-> IF i + half < N THEN v[i + half] ELSE -v[i + half - N]]

\* generateTestPolynomialValue: value about 0, its negation at the end
TestPolynomialValue(value) ==
    [i \in Coeffs |-> ToTorus(IF i < Box \div 2 THEN value
                              ELSE IF i >= N - Box \div 2 THEN -value ELSE 0, TorusQ)]

=============================================================================
