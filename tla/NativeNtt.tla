----------------------------- MODULE NativeNtt -----------------------------
(***************************************************************************)
(* The library's own transform, in the form of ntt24.cpp; ntt14, ntt16,    *)
(* ntt32 and ntt64 are the same butterflies at other primes and widths.    *)
(* The factors of X^N + 1 are divided out level by level: forward from     *)
(* natural to bit-reversed order, backward halving at each level.          *)
(***************************************************************************)
EXTENDS LweAlgebra

CONSTANTS
    NttDepth,           \* calLogBase2(N)
    NttMod, NttRoot     \* MOD, a prime, and PRIM_ROOT, a generator modulo it

ASSUME NttAssumption ==
    /\ NttDepth \in Nat /\ N = 2 ^ NttDepth
    /\ NttMod \in Nat /\ NttRoot \in 1 .. NttMod - 1 /\ (NttMod - 1) % (2 * N) = 0

ModAdd(a, b) == IF NttMod - a > b THEN a + b ELSE a + b - NttMod
ModSub(a, b) == IF a >= b THEN a - b ELSE NttMod - b + a
ModMult(a, b) == (a * b) % NttMod
ModHalf(a) == IF a % 2 = 0 THEN a \div 2 ELSE a \div 2 + (NttMod + 1) \div 2

Pow(x, e) ==
    LET P[k \in 0 .. e] == IF k = 0 THEN 1
                           ELSE IF k % 2 = 1 THEN ModMult(P[k - 1], x)
                           ELSE LET h == P[k \div 2] IN ModMult(h, h)
    IN P[e]

\* by Euclid's algorithm
ModInv(x) ==
    LET Quotients[r, newR \in Nat, t, newT \in Int] ==
          IF newR = 0 THEN t % NttMod
          ELSE Quotients[newR, r % newR, newT, t - (r \div newR) * newT]
    IN Quotients[NttMod, x, 0, 1]

(***************************************************************************)
(* Tables.                                                                 *)
(***************************************************************************)
\* roots of order N and 2N
W(j) == Pow(NttRoot, j * ((NttMod - 1) \div N))
Phi(j) == Pow(NttRoot, j * ((NttMod - 1) \div (2 * N)))

\* mutant: the tables are left in natural order
BitRev_None(j, bits) == j

BitRev(j, bits) ==
    LET R[k \in 0 .. bits] == IF k = 0 THEN 0 ELSE (2 * R[k - 1]) + ((j \div (2 ^ (k - 1))) % 2)
    IN R[bits]

TwFactor ==
    [i \in 0 .. NttDepth - 1 |->
        [j \in 0 .. 2 ^ i - 1 |->
            ModMult(W(BitRev(j, i) * (N \div 2 ^ (i + 1))), Phi(N \div 2 ^ (i + 1)))]]

InvTwFactor ==
    [i \in 0 .. NttDepth - 1 |->
        LET bits == NttDepth - i - 1
        IN [j \in 0 .. 2 ^ bits - 1 |-> ModInv(ModMult(W(BitRev(j, bits) * 2 ^ i), Phi(2 ^ i)))]]

(***************************************************************************)
(* The transform and its inverse.                                          *)
(***************************************************************************)
\* applyNtt
Ntt(p) ==
    LET Level[i \in 0 .. NttDepth] ==
          IF i = 0 THEN [x \in Coeffs |-> (p[x] + NttMod) % NttMod]
          ELSE LET in == Level[i - 1]
                   size == N \div 2 ^ (i - 1)
                   gap == size \div 2
                   Turned(x) == ModMult(in[x], TwFactor[i - 1][x \div size])
               IN [x \in Coeffs |->
                     IF x % size < gap THEN ModAdd(in[x], Turned(x + gap))
                     ELSE ModSub(in[x - gap], Turned(x))]
    IN Level[NttDepth]

\* DIF_RN24
Inverse(t) ==
    LET Level[i \in 0 .. NttDepth] ==
          IF i = 0 THEN t
          ELSE LET in == Level[i - 1]
                   gap == 2 ^ (i - 1)
                   size == 2 * gap
               IN [x \in Coeffs |->
                     IF x % size < gap THEN ModHalf(ModAdd(in[x], in[x + gap]))
                     ELSE ModMult(ModHalf(ModSub(in[x - gap], in[x])),
                                  InvTwFactor[i - 1][x \div size])]
    IN Level[NttDepth]

\* applyIntt: the residue next to zero, then its residue modulo q, an odd prime
Intt(t, q) ==
    LET Lift(x) == IF x >= (NttMod + 1) \div 2 THEN x - NttMod ELSE x
        p == Inverse(t)
    IN [x \in Coeffs |-> Centre(Lift(p[x]), q)]

\* calModularInnerProductNtt
InnerProduct(out, in1, in2) == [x \in Coeffs |-> ModAdd(out[x], ModMult(in1[x], in2[x]))]

=============================================================================
