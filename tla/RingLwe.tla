------------------------------ MODULE RingLwe ------------------------------
(***************************************************************************)
(* Gadget rows of ring-LWE samples over a torus whose modulus is a power   *)
(* of two, their external product, and the switch of schemes.              *)
(*                                                                         *)
(* The transform of HEXL is an isomorphism of rings, so a polynomial in    *)
(* transform form is the polynomial itself with coefficients in            *)
(* 0 .. NttQ - 1, and a pointwise product of transforms is a product       *)
(* modulo X^N + 1 and NttQ.                                                *)
(***************************************************************************)
EXTENDS LweAlgebra

CONSTANTS
    NttQ,           \* modulus of the transform
    RadixHalf, L,   \* gadget: half of the radix, param.l
    DigitHalf       \* Decomp holds -DigitHalf .. DigitHalf - 1

ASSUME RingAssumption ==
    \* what makes reductions modulo NttQ harmless on the torus (torus.h)
    /\ NttQ \in Nat /\ NttQ > TorusQ /\ NttQ % TorusQ = 1
    /\ TorusQ % LweQ = 0

Ntt(p) == [i \in Coeffs |-> p[i] % NttQ]
Intt(p) == [i \in Coeffs |-> Centre(Centre(p[i], NttQ), TorusQ)]

(***************************************************************************)
(* Gadget rows.                                                            *)
(***************************************************************************)
\* symEncTrlweMultiSampleNtt: the same mask, transformed
EncNtt(tag, m, z) ==
    LET a == Mask(tag, TorusQ) IN [a |-> Ntt(a), b |-> Ntt(Plus(Noisy(tag, m), Times(a, z)))]
\* symEncTrlweMultiSampleSimple: a mask drawn in transform form
EncSimple(tag, m, z) ==
    LET a == Ntt(Mask(tag, NttQ)) IN [a |-> a, b |-> Ntt(Plus(Noisy(tag, m), Times(a, z)))]

GadgetWeight(i) == TorusQ \div (2 * RadixHalf) ^ (i + 1)

\* no level reaches below the units of the torus
ASSUME GadgetAssumption ==
    /\ RadixHalf \in Nat \ {0} /\ L \in Nat \ {0} /\ DigitHalf \in Nat \ {0}
    /\ \A i \in 0 .. L - 1 : GadgetWeight(i) \in Nat \ {0}

Scaled(m, i) == Centre(m * GadgetWeight(i), TorusQ)
Row(tag, i) == 16 * tag + 2 * i

\* encryptTrgswNtt: zeros, then m on the diagonal, reduced to the torus
EncTrgsw(tag, m, z) ==
    [i \in 0 .. L - 1 |->
        LET c == EncNtt(Row(tag, i), Zero, z)
            d == EncNtt(Row(tag, i) + 1, Zero, z)
        IN [c |-> [c EXCEPT !.a = Ntt(OnTorus(Plus(Intt(c.a), Constant(Scaled(m, i)))))],
            cPrime |-> [d EXCEPT !.b = Ntt(OnTorus(Plus(Intt(d.b), Constant(Scaled(m, i)))))]]]

\* encryptTrgswMPNtt
EncTrgswMP(tag, m, z, level) ==
    [i \in 0 .. level - 1 |->
        LET c == EncSimple(Row(tag, i), Zero, z)
        IN [c |-> [c EXCEPT !.a = Ntt(Plus(c.a, Constant(Scaled(m, i))))],
            cPrime |-> EncSimple(Row(tag, i) + 1, Constant(Scaled(m, i)), z)]]

\* symEncTrlevWithKeyNtt: rows of the square of the key
EncSquare(tag, z) ==
    [i \in 0 .. L - 1 |->
        LET x == EncTorus(Row(tag, i), Zero, z)
            Shift == [j \in Coeffs |-> z[j] * GadgetWeight(i)]
        IN [a |-> Ntt(OnTorus(Minus(x.a, Shift))), b |-> Ntt(x.b)]]

(***************************************************************************)
(* The external product, and the switch of schemes.                        *)
(***************************************************************************)
Gadget == INSTANCE SignedDigits WITH HalfB <- RadixHalf, MaxL <- L,
                                     Weight <- [i \in 0 .. L - 1 |-> GadgetWeight(i)]

DecomposedPoly(p, k) ==
    [i \in 0 .. k - 1 |-> [j \in Coeffs |-> Gadget!Digits(p[j], k)[i]]]

Decomposed(x, k) ==
    [i \in 0 .. k - 1 |-> [a |-> DecomposedPoly(x.a, k)[i], b |-> DecomposedPoly(x.b, k)[i]]]

\* what one level adds to the product
Partial(d, row) ==
    [a |-> Ntt(Plus(Times(d.a, row.c.a), Times(d.b, row.cPrime.a))),
     b |-> Ntt(Plus(Times(d.a, row.c.b), Times(d.b, row.cPrime.b)))]

SumOf(samples, level) ==
    [a |-> Intt([j \in Coeffs |-> Sum(level, [i \in 0 .. level - 1 |-> samples[i].a[j]])]),
     b |-> Intt([j \in Coeffs |-> Sum(level, [i \in 0 .. level - 1 |-> samples[i].b[j]])])]

\* GD(v) (dot) RLEV(s): prepareGdV and deriveFirstComponentNtt
Derived(v, lev, level) ==
    LET digits == DecomposedPoly(v, level)
    IN SumOf([i \in 0 .. level - 1 |->
                [a |-> Ntt(Times(digits[i], Ntt(lev[i].a))),
                 b |-> Ntt(Times(digits[i], Ntt(lev[i].b)))]], level)

\* the digits put together again, in the transform domain
Recomposed(digits) ==
    Ntt([j \in Coeffs |-> Sum(L, [i \in 0 .. L - 1 |-> digits[i][j] * GadgetWeight(i)])])

\* switchTrlweToSecretEmbeddingNtt and its kin: the row of the digits of the
\* mask of cPrime, by the rows of the square of the key
Embedding(digits, cPrime, square) ==
    LET A == [i \in 0 .. L - 1 |-> Times(digits[i], square[i].a)]
        Bs == [i \in 0 .. L - 1 |-> Times(digits[i], square[i].b)]
        Over(f, j) == Sum(L, [i \in 0 .. L - 1 |-> f[i][j]])
    IN [c |-> [a |-> Ntt([j \in Coeffs |-> Over(A, j) + cPrime.b[j]]),
               b |-> Ntt([j \in Coeffs |-> Over(Bs, j)])],
        cPrime |-> cPrime]

\* rotateDecompPolynomialMinusOne, which stores what the digit type holds
TurnedDigits(a, digit) ==
    LET Narrow(d) == ((d + DigitHalf) % (2 * DigitHalf)) - DigitHalf
    IN [j \in Coeffs |-> Narrow(RotatedMinusOne(a, digit)[j])]

=============================================================================
