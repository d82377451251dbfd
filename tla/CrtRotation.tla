---------------------------- MODULE CrtRotation ----------------------------
(***************************************************************************)
(* Bootstrapping over a torus whose modulus is a product of small primes   *)
(* (functionalBootstrappingCrt): every torus number is held by its         *)
(* residues, each in a byte, and no product ever leaves the bytes.         *)
(*                                                                         *)
(* The external product needs small digits.  The residues modulo the low   *)
(* primes are kept multiplied by TaoU (decompTrlweMcrt), so that a sum of  *)
(* theirs gives the number modulo QLow without a division; taken off the   *)
(* high residues it leaves digits whose recombination differs from the     *)
(* number by that sum only (decompTrlweApproxCrt).                         *)
(*                                                                         *)
(* path "ntt" multiplies by NativeNtt (blindRotateApproxCRTNtt), "direct"  *)
(* polynomial by polynomial into what it finds (blindRotateApproxCRT).     *)
(***************************************************************************)
EXTENDS NativeNtt

CONSTANTS
    Paths,          \* subset of {"ntt", "direct"}
    Moduli,         \* param.qd: the high primes, then the low ones
    Dh, Dl,         \* how many of each
    ByteHalf,       \* a residue is stored in -ByteHalf .. ByteHalf - 1
    n,              \* components of the LWE key
    RingKey,        \* the secret of the ring-LWE key
    Calls           \* bound on the inputs

Primes == 0 .. Dh + Dl - 1
High == 0 .. Dh - 1

Product(D) ==
    LET P[d \in Primes \cup {-1}] == IF d = -1 THEN 1 ELSE P[d - 1] * (IF d \in D THEN Moduli[d] ELSE 1)
    IN P[Dh + Dl - 1]

QLow == Product(Primes \ High)

ASSUME CrtAssumption ==
    /\ Paths \subseteq {"ntt", "direct"}
    /\ Moduli \in [Primes -> Nat \ {0, 1}] /\ TorusQ = Product(Primes)
    /\ \A d \in Primes : Moduli[d] % 2 = 1 /\ Moduli[d] \div 2 < ByteHalf

VARIABLES
    path, s, key,           \* fixed once the key is generated
    pc, calls, i,           \* control; inputs so far; the component in hand
    message, sample, input, \* the input: its message, sample, and sample modulo 2N
    acc, temp,              \* residues of the accumulator, and of a product
    turned, digits,         \* the factor in hand, by residues and by digits
    extracted, result

fixed == <<path, s, key>>
given == <<message, sample, input>>
vars == <<fixed, pc, calls, i, given, acc, temp, turned, digits, extracted, result>>

Messages == -(MessageP \div 2) .. MessageP \div 2 - 1
v == TestPolynomial([kind |-> "identity", t |-> 0, value |-> 0])

(***************************************************************************)
(* Residues.                                                               *)
(***************************************************************************)
Byte(x) == ((x + ByteHalf) % (2 * ByteHalf)) - ByteHalf
Mod(x, d) == Byte(Centre(x, Moduli[d]))
PolyMod(p, d) == [j \in Coeffs |-> Mod(p[j], d)]

ModInverse(x, m) == CHOOSE y \in 0 .. m - 1 : (x * y) % m = 1

\* of the low primes
TaoUInv(d) == QLow \div Moduli[d]
\* mutant: the low residues as they are
TaoU_One(d) == 1

TaoU(d) == IF d \in High THEN 1 ELSE ModInverse(TaoUInv(d), Moduli[d])

\* calGadgetVectorZ, calGadgetVectorW
Z(d) == (TorusQ \div Moduli[d]) * ModInverse(TorusQ \div Moduli[d], Moduli[d])

\* decompTrlweMcrt, decompTrgswMcrt
Residues(x) ==
    [d \in Primes |-> LET Of(p) == [j \in Coeffs |-> Mod(TaoU(d) * p[j], d)] IN Each(Of, x)]

\* mutant: the factor of the low residues is left in
Divided_Not(x) == x

\* trlweMcrtToCrt
Divided(x) ==
    [d \in Primes |-> LET Of(p) == [j \in Coeffs |-> IF d \in High THEN p[j] ELSE Mod(TaoUInv(d) * p[j], d)]
                      IN Each(Of, x[d])]

\* recompTrlweCrt
Recombined(x) ==
    LET Of(co) == OnTorus([j \in Coeffs |-> Sum(Dh + Dl, [d \in Primes |-> x[d][co][j] * Z(d)])])
    IN [a |-> Of("a"), b |-> Of("b")]

\* mutant: the low part is left in
ApproxDigits_NoLow(x) == [h \in High |-> x[h]]

\* decompTrlweApproxCrt
ApproxDigits(x) ==
    LET Of(co, h) ==
            [j \in Coeffs |->
                LET low == [u \in 0 .. Dl - 1 |-> (QLow \div Moduli[Dh + u]) * x[Dh + u][co][j]]
                IN Mod(x[h][co][j] - Sum(Dl, low), h)]
    IN [h \in High |-> [a |-> Of("a", h), b |-> Of("b", h)]]

\* broadcastTrlweApproxCrt
Broadcast(digit, d) ==
    LET Of(p) == [j \in Coeffs |->
                    IF p[j] \in -(Moduli[d] \div 2) .. Moduli[d] \div 2 THEN p[j] ELSE Mod(p[j], d)]
    IN Each(Of, digit)

(***************************************************************************)
(* Key generation.                                                         *)
(***************************************************************************)
\* encryptTrgswApproxCRT, then decompTrgswMcrt
EncTrgswCrt(tag, m) ==
    LET With(p, h) == OnTorus(Plus(p, Constant(Centre(m * Z(h), TorusQ))))
        C(h) == LET x == EncTorus(tag + 2 * h, Zero, RingKey) IN [x EXCEPT !.a = With(x.a, h)]
        CPrime(h) == LET x == EncTorus(tag + 2 * h + 1, Zero, RingKey) IN [x EXCEPT !.b = With(x.b, h)]
    IN [d \in Primes |-> [h \in High |-> [c |-> Residues(C(h))[d], cPrime |-> Residues(CPrime(h))[d]]]]

Init ==
    /\ path \in Paths /\ s \in [0 .. n - 1 -> {0, 1}]
    /\ key = << >> /\ pc = "keygen" /\ calls = 0 /\ i = 0
    /\ message = 0 /\ sample = << >> /\ input = << >>
    /\ acc = << >> /\ temp = << >> /\ turned = << >> /\ digits = << >>
    /\ extracted = << >> /\ result = << >>

NttRow(row) == [c |-> Each(Ntt, row.c), cPrime |-> Each(Ntt, row.cPrime)]

Generate ==
    LET bsk8 == [c \in 0 .. n - 1 |-> EncTrgswCrt(100 * c, s[c])]
    IN /\ pc = "keygen" /\ pc' = "ready"
       /\ key' = [bsk8 |-> bsk8,
                  bsk |-> [c \in 0 .. n - 1 |-> [d \in Primes |-> [h \in High |-> NttRow(bsk8[c][d][h])]]],
                  ksk |-> EncKsk(5000, RingKey, s, n)]
       /\ UNCHANGED <<path, s, calls, i, given, acc, temp, turned, digits, extracted, result>>

(***************************************************************************)
(* One input.                                                              *)
(***************************************************************************)
Noiseless(barb) == [a |-> Zero, b |-> OnTorus(Rotated(-barb, v))]
Cleared == [d \in Primes |-> [a |-> Zero, b |-> Zero]]

Begin(m) ==
    LET x == EncLwe(7000 + 10 * calls + m, ToTorus(m, LweQ), s, n)
    IN /\ pc \in {"ready", "done"} /\ calls < Calls
       /\ message' = m /\ sample' = x /\ input' = Rescaled(x)
       /\ acc' = Residues(Noiseless(Rescaled(x).b))
       /\ temp' = Cleared
       /\ i' = 0 /\ calls' = calls + 1 /\ pc' = "component"
       /\ UNCHANGED <<fixed, turned, digits, extracted, result>>

Skip ==
    /\ pc = "component" /\ i < n /\ input.a[i] = 0
    /\ i' = i + 1
    /\ UNCHANGED <<fixed, pc, calls, given, acc, temp, turned, digits, extracted, result>>

Prepare ==
    LET Difference(d) == LET Of(p) == PolyMod(RotatedMinusOne(input.a[i], p), d) IN Each(Of, acc[d])
    IN /\ pc = "component" /\ i < n /\ input.a[i] # 0
       /\ temp' = Cleared
       /\ turned' = [d \in Primes |-> Difference(d)]
       /\ digits' = ApproxDigits(turned')
       /\ pc' = "multiply"
       /\ UNCHANGED <<fixed, calls, i, given, acc, extracted, result>>

\* a coordinate of the product modulo a prime, of the 2 * Dh products of a
\* digit and a row of the key
Direct(out, d, co) ==
    LET each == [h \in High |->
                   LET x == Broadcast(digits[h], d)
                       row == key.bsk8[i][d][h]
                   IN Plus(Times(x.a, row.c[co]), Times(x.b, row.cPrime[co]))]
    IN PolyMod([j \in Coeffs |-> out[j] + Sum(Dh, [h \in High |-> each[h][j]])], d)

Transformed(d, co) ==
    LET S[h \in 0 .. Dh] ==
          IF h = 0 THEN Zero
          ELSE LET x == Each(Ntt, Broadcast(digits[h - 1], d))
                   row == key.bsk[i][d][h - 1]
               IN InnerProduct(InnerProduct(S[h - 1], x.a, row.c[co]),
                                      x.b, row.cPrime[co])
    IN Intt(S[Dh], Moduli[d])

Multiply ==
    /\ pc = "multiply" /\ pc' = "accumulate"
    /\ temp' = [d \in Primes |->
                  IF path = "ntt" THEN [a |-> Transformed(d, "a"), b |-> Transformed(d, "b")]
                  ELSE [a |-> Direct(temp[d].a, d, "a"), b |-> Direct(temp[d].b, d, "b")]]
    /\ UNCHANGED <<fixed, calls, i, given, acc, turned, digits, extracted, result>>

\* accumulateTrlweModP, and the swap
Accumulate ==
    /\ pc = "accumulate" /\ pc' = "component"
    /\ acc' = [d \in Primes |-> LET Add(p, q) == PolyMod(Plus(p, q), d)
                                IN Both(Add, temp[d], acc[d])]
    /\ temp' = acc
    /\ i' = i + 1
    /\ UNCHANGED <<fixed, calls, given, turned, digits, extracted, result>>

Extract ==
    /\ pc = "component" /\ i = n
    /\ acc' = Divided(acc)
    /\ extracted' = Extracted(Recombined(Divided(acc)))
    /\ pc' = "extracted"
    /\ UNCHANGED <<fixed, calls, i, given, temp, turned, digits, result>>

SwitchKey ==
    /\ pc = "extracted" /\ pc' = "done"
    /\ result' = KeySwitched(extracted, key.ksk, n)
    /\ UNCHANGED <<fixed, calls, i, given, acc, temp, turned, digits, extracted>>

Next ==
    \/ Generate
    \/ \E m \in Messages : Begin(m)
    \/ Skip \/ Prepare \/ Multiply \/ Accumulate
    \/ Extract \/ SwitchKey

Spec == Init /\ [][Next]_vars

(***************************************************************************)
(* Properties.                                                             *)
(***************************************************************************)
Turned2N(k) == input.b - Dot(input.a, s, k)
InSlot == Centre(Turned2N(n) - message * Box, 2 * N) \in -(Box \div 2) .. Box \div 2 - 1

Near(x, y, q, bound) == Centre(x - y, q) \in -bound .. bound

\* At every component, by residues that never leave a byte, the accumulator
\* encrypts the test polynomial rotated by what has been accumulated, within
\* half the distance of two messages.
AccumulatorPhase ==
    pc = "component" =>
        LET phase == Phase(Recombined(Divided(acc)), RingKey)
            aim == Rotated(-Turned2N(i), v)
        IN \A j \in Coeffs : Near(phase[j], aim[j], TorusQ, TorusQ \div (2 * MessageP) - 1)

\* The digits of the high primes alone recombine to the number they stand for,
\* off by at most half of QLow for each low prime (crt_test.cpp).
DigitsApproximate ==
    pc = "multiply" =>
        LET x == Recombined(Divided(turned))
            Of(co, j) == Sum(Dh, [h \in High |-> digits[h][co][j] * Z(h)])
        IN \A j \in Coeffs, co \in {"a", "b"} :
              Near(Of(co, j), x[co][j], TorusQ, (Dl * QLow) \div 2)

\* Either way of multiplying gives the residues of the product modulo X^N + 1
\* of digits and key rows, and of nothing else: no root of the tables is out
\* of place, and nothing is left of an earlier component. Nor does a sum wrap
\* in the transform, although 4 * Dh * N * (Moduli[d] \div 2) ^ 2, the bound in
\* the worst case, exceeds NttMod, as it does in torus.h and ntt24.h.
ProductExact ==
    pc = "accumulate" =>
        \A d \in Primes, co \in {"a", "b"} : temp[d][co] = Direct(Zero, d, co)

\* An input whose rescaled phase lies in the slot of its message comes out as
\* a sample of the same message, or of its negation in the other half.
Decodes ==
    pc = "done" /\ InSlot =>
        DecLwe(result, s) =
            Centre(IF message >= 0 THEN message ELSE -(message + MessageP \div 2), MessageP)

=============================================================================
