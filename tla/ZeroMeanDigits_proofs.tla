------------------------ MODULE ZeroMeanDigits_proofs ------------------------
(***************************************************************************)
(* The digits of ZeroMeanDigits are balanced and give the value back, for  *)
(* every radix, number of digits, width, row length and value.  The        *)
(* invariant says what the digits emitted so far add up to: the kept bits  *)
(* of the magnitude, less what is still in the windows to come, with the   *)
(* carry, at their weight.  They are also the digits that the recursion of *)
(* Digits gives for the value alone; that the recursion has a solution is  *)
(* proved by taking the smallest number of windows on which it has none.   *)
(***************************************************************************)
EXTENDS ZeroMeanDigits, NaturalsInduction, WellFoundedInduction, TLAPS

(***************************************************************************)
(* Arithmetic.                                                             *)
(***************************************************************************)
\* Quotient and remainder of a shift and a mask.
LEMMA DivMod ==
    ASSUME NEW m \in Nat, NEW w \in Nat \ {0}
    PROVE  /\ m \div w \in Nat
           /\ m % w \in 0 .. w - 1
           /\ m = ((m \div w) * w) + (m % w)
  BY SMT

\* Two shifts are one.
LEMMA DivDiv ==
    ASSUME NEW m \in Nat, NEW w \in Nat \ {0}, NEW b \in Nat \ {0}
    PROVE  (m \div w) \div b = m \div (b * w)
  BY SMT

\* A value below the divisor has nothing left in the windows.
LEMMA DivSmall ==
    ASSUME NEW m \in Nat, NEW w \in Nat \ {0}, m < w
    PROVE  m \div w = 0
  BY SMT

LEMMA Distributes ==
    ASSUME NEW a \in Int, NEW b \in Int, NEW w \in Int
    PROVE  (a + b) * w = a * w + b * w
  BY SMT

\* The widths are positive integers.
LEMMA WidthTypes ==
    /\ B \in Nat \ {0} /\ B = 2 * HalfB /\ HalfB \in Nat \ {0}
    /\ Modulus \in Nat \ {0} /\ Half \in Nat \ {0}
    /\ Modulus = 2 * Half
    /\ \A i \in 0 .. MaxL - 1 : Weight[i] \in Nat \ {0}
<1>1. HalfB \in Nat \ {0} /\ B \in Nat \ {0} /\ B = 2 * HalfB
  BY WeightAssumption DEF B
<1>2. \A i \in 0 .. MaxL - 1 : Weight[i] \in Nat \ {0}
  BY WeightAssumption
<1>3. Weight[0] \in Nat \ {0}
  BY <1>2, WeightAssumption
<1>4. Modulus \in Nat \ {0} /\ Half \in Nat \ {0} /\ Modulus = 2 * Half
  BY <1>1, <1>3 DEF Modulus, Half
<1> QED
  BY <1>1, <1>2, <1>4

\* One window: what it held goes into the digit and the carry.
LEMMA CarryOver ==
    ASSUME NEW q \in Int, NEW r \in Int, NEW x \in Int, NEW w \in Int, NEW b \in Int,
           NEW c \in Int, NEW d \in Int, q = (r * b) + x
    PROVE  (q + c) * w = ((r + d) * (b * w)) + (((x + c) - (d * b)) * w)
<1> DEFINE u == r * b
           v == d * b
<1>1. u \in Int /\ v \in Int
  OBVIOUS
<1>2. (r + d) * (b * w) = (u + v) * w
  BY SMT
<1>3. q + c = (u + v) + ((x + c) - v)
  BY <1>1
<1> HIDE DEF u, v
<1>4. ((u + v) + ((x + c) - v)) * w = ((u + v) * w) + (((x + c) - v) * w)
  BY <1>1, Distributes
<1> QED
  BY <1>2, <1>3, <1>4 DEF v

\* A window with the carry into it gives a balanced digit, and a carry out of it.
LEMMA DigitRange ==
    ASSUME NEW x \in 0 .. B - 1, NEW c \in {0, 1}, NEW tie \in BOOLEAN
    PROVE  /\ CarryOut(x + c, tie) \in {0, 1}
           /\ BalancedDigit(x + c, CarryOut(x + c, tie)) \in -HalfB .. HalfB
  BY WidthTypes DEF CarryOut, BalancedDigit

\* The digit type holds every balanced digit, of either sign.
LEMMA NarrowDigit ==
    ASSUME NEW d \in -HalfB .. HalfB, NEW neg
    PROVE  /\ Narrow(Sign(neg) * d) = Sign(neg) * d
           /\ Sign(neg) * d \in -HalfB .. HalfB
<1>1. Sign(neg) \in {-1, 1}
  BY DEF Sign
<1>2. Sign(neg) * d \in -HalfB .. HalfB
  BY <1>1, WidthTypes
<1>3. Sign(neg) * d \in -OutHalf .. OutHalf - 1
  BY <1>2, WidthTypes, WeightAssumption, RowsAssumption
<1> QED
  BY <1>2, <1>3 DEF Narrow

\* Rounding adds half of the last weight, or nothing where no bit is dropped.
LEMMA BiasRange ==
    ASSUME NEW k \in 1 .. MaxL
    PROVE  /\ RoundingBias(k) \in Nat
           /\ Weight[k - 1] \in Nat \ {0}
           /\ \/ Weight[k - 1] = 1 /\ RoundingBias(k) = 0
              \/ Weight[k - 1] = 2 * RoundingBias(k)
<1>1. k - 1 \in 0 .. MaxL - 1
  BY WeightAssumption
<1> DEFINE w == Weight[k - 1]
<1>2. w \in Nat \ {0} /\ (w = 1 \/ w % 2 = 0)
  BY <1>1, WeightAssumption
<1> HIDE DEF w
<1>3. w \div 2 \in Nat /\ (w = 1 => w \div 2 = 0) /\ (w % 2 = 0 => w = 2 * (w \div 2))
  BY <1>2, SMT
<1> QED
  BY <1>2, <1>3 DEF w, RoundingBias

LEMMA MagnitudeRange ==
    ASSUME NEW u \in 0 .. Modulus - 1
    PROVE  Magnitude(u) \in 0 .. Half
  BY WidthTypes DEF Magnitude, Negative

(***************************************************************************)
(* The inductive invariant.                                                *)
(***************************************************************************)
TypeInv ==
    /\ l \in 1 .. MaxL
    /\ in \in [DOMAIN in -> 0 .. Modulus - 1]
    /\ DOMAIN in \subseteq DOMAIN magnitude
    /\ DOMAIN in \subseteq DOMAIN negative
    /\ DOMAIN in \subseteq DOMAIN carry
    /\ todo \in [DOMAIN in -> -1 .. l - 1]
    /\ sum \in [DOMAIN in -> Int]
    /\ DOMAIN out = 0 .. l - 1
    /\ \A j \in DOMAIN in : carry[j] \in {0, 1}

\* the weight of the windows to come
Low(j) == IF todo[j] = -1 THEN Modulus ELSE Weight[todo[j]]

Scratch ==
    \A j \in DOMAIN in :
        /\ magnitude[j] = Magnitude(in[j]) + RoundingBias(l)
        /\ negative[j] <=> Negative(in[j])

Ascending ==
    \A j \in DOMAIN in :
        /\ Low(j) >= Weight[l - 1]
        /\ todo[j] < l - 1 => Low(j) >= 2 * Weight[l - 1]

Kept(j) == (magnitude[j] \div Weight[l - 1]) * Weight[l - 1]

Added ==
    \A j \in DOMAIN in :
        sum[j] = Sign(negative[j]) * (Kept(j) - ((magnitude[j] \div Low(j)) + carry[j]) * Low(j))

IInv == TypeInv /\ Scratch /\ Ascending /\ Added /\ DigitsBalanced

\* The magnitude is a natural number, and the weight to come a positive one.
LEMMA ValueTypes ==
    ASSUME TypeInv, Scratch, NEW j \in DOMAIN in
    PROVE  /\ in[j] \in 0 .. Modulus - 1
           /\ Magnitude(in[j]) \in 0 .. Half
           /\ magnitude[j] \in Nat
           /\ Low(j) \in Nat \ {0}
           /\ Weight[l - 1] \in Nat \ {0}
<1>1. in[j] \in 0 .. Modulus - 1
  BY DEF TypeInv
<1>2. Magnitude(in[j]) \in 0 .. Half
  BY <1>1, MagnitudeRange
<1>3. RoundingBias(l) \in Nat /\ Weight[l - 1] \in Nat \ {0}
  BY BiasRange DEF TypeInv
<1>4. magnitude[j] \in Nat
  BY <1>2, <1>3, WidthTypes DEF Scratch
<1>5. todo[j] \in -1 .. l - 1 /\ l \in 1 .. MaxL
  BY DEF TypeInv
<1>6. Low(j) \in Nat \ {0}
  BY <1>5, WidthTypes, WeightAssumption DEF Low
<1> QED
  BY <1>1, <1>2, <1>3, <1>4, <1>6

LEMMA InitInductive == Init => IInv
  BY WeightAssumption DEF Init, IInv, TypeInv, Scratch, Ascending, Added, DigitsBalanced

(***************************************************************************)
(* A call fills the scratch rows, whatever they held.                      *)
(***************************************************************************)
LEMMA CallInductive ==
    ASSUME IInv, NEW row \in Rows, NEW k \in 1 .. MaxL, Call(row, k)
    PROVE  IInv'
<1> DEFINE D == DOMAIN row
           Rounded(u) == Magnitude(u) + RoundingBias(k)
<1>1. /\ row \in [D -> 0 .. Modulus - 1]
      /\ in' = row /\ l' = k
      /\ out' = [i \in 0 .. k - 1 |-> [j \in D |-> 0]]
      /\ todo' = [j \in D |-> k - 1]
      /\ sum' = [j \in D |-> 0]
  BY RowsAssumption DEF Call
<1>2. /\ DOMAIN row \subseteq DOMAIN magnitude'
      /\ \A j \in D : magnitude'[j] = Rounded(row[j])
  BY DEF Call, Refilled
<1>3. /\ DOMAIN row \subseteq DOMAIN negative'
      /\ \A j \in D : negative'[j] = Negative(row[j])
  BY DEF Call, Refilled
<1>4. /\ DOMAIN row \subseteq DOMAIN carry'
      /\ \A j \in D : carry'[j] = 0
  BY DEF Call, Refilled
<1>5. k \in Nat /\ k - 1 \in -1 .. k - 1 /\ k - 1 # -1 /\ k - 1 \in 0 .. MaxL - 1
  BY WeightAssumption
<1>6. TypeInv'
  BY <1>1, <1>2, <1>3, <1>4, <1>5 DEF TypeInv
<1>7. Scratch'
  BY <1>1, <1>2, <1>3 DEF Scratch, RoundingBias, Magnitude, Negative
<1>8. \A j \in D : Low(j)' = Weight[k - 1]
  BY <1>1, <1>5 DEF Low
<1>9. Ascending'
  BY <1>1, <1>5, <1>8, WidthTypes DEF Ascending
<1>10. Added'
  <2> SUFFICES ASSUME NEW j \in D
               PROVE  0 = Sign(negative[j])' * (Kept(j)'
                            - ((magnitude[j]' \div Weight[k - 1]) + 0) * Weight[k - 1])
    BY <1>1, <1>4, <1>8 DEF Added
  <2>1. Kept(j)' = (magnitude[j]' \div Weight[k - 1]) * Weight[k - 1]
    BY <1>1 DEF Kept
  <2>2. magnitude[j]' \in Nat
    <3>1. row[j] \in 0 .. Modulus - 1
      BY <1>1
    <3>2. Magnitude(row[j]) \in Nat /\ RoundingBias(k) \in Nat
      BY <3>1, MagnitudeRange, BiasRange, WidthTypes
    <3> QED
      BY <1>2, <3>2
  <2>3. magnitude[j]' \div Weight[k - 1] \in Nat /\ Weight[k - 1] \in Nat
    BY <1>5, <2>2, WidthTypes, DivMod
  <2>4. Sign(negative[j])' \in {-1, 1}
    BY DEF Sign
  <2> QED
    BY <2>1, <2>3, <2>4
<1>11. DigitsBalanced'
  BY <1>1, <1>5 DEF DigitsBalanced
<1> QED
  BY <1>6, <1>7, <1>9, <1>10, <1>11 DEF IInv

(***************************************************************************)
(* One more digit of some of the values.                                   *)
(***************************************************************************)
\* The next digit is balanced, and fits the digit type.
LEMMA DigitTypes ==
    ASSUME IInv, NEW j \in DOMAIN in, todo[j] >= 0
    PROVE  /\ todo[j] \in 0 .. l - 1 /\ Low(j) = Weight[todo[j]]
           /\ Window(magnitude[j], todo[j]) = (magnitude[j] \div Low(j)) % B
           /\ Window(magnitude[j], todo[j]) \in 0 .. B - 1
           /\ NextCarry(j) \in {0, 1}
           /\ BalancedDigit(Digit(j), NextCarry(j)) \in Int
           /\ Emitted(j) = Sign(negative[j]) * BalancedDigit(Digit(j), NextCarry(j))
           /\ Emitted(j) \in -HalfB .. HalfB
<1>1. todo[j] \in 0 .. l - 1 /\ carry[j] \in {0, 1} /\ l \in 1 .. MaxL
  BY DEF IInv, TypeInv
<1>2. Low(j) = Weight[todo[j]]
  BY <1>1 DEF Low
<1>3. magnitude[j] \in Nat /\ Low(j) \in Nat \ {0}
  BY ValueTypes DEF IInv
<1>4. Window(magnitude[j], todo[j]) = (magnitude[j] \div Low(j)) % B
  BY <1>2 DEF Window
<1>5. Window(magnitude[j], todo[j]) \in 0 .. B - 1
  <2>1. magnitude[j] \div Low(j) \in Nat
    BY <1>3, DivMod
  <2> QED
    BY <1>4, <2>1, DivMod, WidthTypes
<1> DEFINE x == Window(magnitude[j], todo[j])
           tie == TieBit(magnitude[j], todo[j])
<1>6. tie \in BOOLEAN
  BY DEF TieBit
<1>7. /\ CarryOut(x + carry[j], tie) \in {0, 1}
      /\ BalancedDigit(x + carry[j], CarryOut(x + carry[j], tie)) \in -HalfB .. HalfB
  BY <1>1, <1>5, <1>6, DigitRange
<1>8. NextCarry(j) \in {0, 1} /\ BalancedDigit(Digit(j), NextCarry(j)) \in -HalfB .. HalfB
  BY <1>7 DEF NextCarry, Digit
<1>9. /\ Emitted(j) = Sign(negative[j]) * BalancedDigit(Digit(j), NextCarry(j))
      /\ Emitted(j) \in -HalfB .. HalfB
  BY <1>8, NarrowDigit DEF Emitted
<1> QED
  BY <1>1, <1>2, <1>4, <1>5, <1>8, <1>9, WidthTypes

\* The weight to come grows by the radix.
LEMMA NextLow ==
    ASSUME IInv, NEW j \in DOMAIN in, todo[j] >= 0
    PROVE  (IF todo[j] - 1 = -1 THEN Modulus ELSE Weight[todo[j] - 1]) = B * Low(j)
<1>1. todo[j] \in 0 .. l - 1 /\ l \in 1 .. MaxL
  BY DEF IInv, TypeInv
<1>2. Low(j) = Weight[todo[j]]
  BY <1>1 DEF Low
<1>3. CASE todo[j] = 0
  BY <1>2, <1>3 DEF Modulus
<1>4. CASE todo[j] # 0
  BY <1>1, <1>2, <1>4, WeightAssumption
<1> QED
  BY <1>3, <1>4

LEMMA EmitInductive ==
    ASSUME IInv, NEW J \in SUBSET DOMAIN in, \A j \in J : todo[j] >= 0, Emit(J)
    PROVE  IInv'
<1>1. in' = in /\ l' = l /\ magnitude' = magnitude /\ negative' = negative
  BY DEF Emit
<1>2. \A j \in J : /\ todo'[j] = todo[j] - 1 /\ carry'[j] = NextCarry(j)
                   /\ sum'[j] = sum[j] + Emitted(j) * Weight[todo[j]]
  BY DEF Emit, IInv, TypeInv
<1>3. \A j \in DOMAIN in \ J : todo'[j] = todo[j] /\ carry'[j] = carry[j] /\ sum'[j] = sum[j]
  BY DEF Emit, IInv, TypeInv
<1>4. /\ DOMAIN out' = 0 .. l - 1
      /\ \A i \in 0 .. l - 1, j \in DOMAIN in :
            out'[i][j] = IF j \in J /\ todo[j] = i THEN Emitted(j) ELSE out[i][j]
  BY DEF Emit, IInv, TypeInv
<1>5. \A j \in J : /\ todo[j] \in 0 .. l - 1 /\ Low(j) = Weight[todo[j]]
                   /\ NextCarry(j) \in {0, 1} /\ Emitted(j) \in -HalfB .. HalfB
                   /\ Low(j)' = B * Low(j)
  <2> TAKE j \in J
  <2>1. todo[j] >= 0 /\ j \in DOMAIN in
    OBVIOUS
  <2>2. Low(j)' = B * Low(j)
    BY <1>2, <2>1, NextLow DEF Low
  <2> QED
    BY <2>1, <2>2, DigitTypes
<1>6. \A j \in DOMAIN in \ J : Low(j)' = Low(j)
  BY <1>3 DEF Low
<1>7. TypeInv'
  <2>1. DOMAIN carry' = DOMAIN carry
    BY DEF Emit
  <2>2. todo' = [j \in DOMAIN in |-> IF j \in J THEN todo[j] - 1 ELSE todo[j]]
    BY DEF Emit
  <2>3. sum' = [j \in DOMAIN in |-> IF j \in J THEN sum[j] + Emitted(j) * Weight[todo[j]] ELSE sum[j]]
    BY DEF Emit
  <2>4. \A j \in J : Emitted(j) * Weight[todo[j]] \in Int
    <3> TAKE j \in J
    <3>1. todo[j] \in 0 .. MaxL - 1
      BY <1>5, WeightAssumption DEF IInv, TypeInv
    <3>2. Weight[todo[j]] \in Int /\ Emitted(j) \in Int
      BY <1>5, <3>1, WidthTypes
    <3> QED
      BY <3>2
  <2>5. todo' \in [DOMAIN in -> -1 .. l - 1]
    BY <1>5, <2>2 DEF IInv, TypeInv
  <2>6. sum' \in [DOMAIN in -> Int]
    BY <2>3, <2>4 DEF IInv, TypeInv
  <2>7. \A j \in DOMAIN in : carry'[j] \in {0, 1}
    BY <1>2, <1>3, <1>5 DEF IInv, TypeInv
  <2> QED
    BY <1>1, <1>4, <2>1, <2>5, <2>6, <2>7 DEF IInv, TypeInv
<1>8. Scratch'
  BY <1>1 DEF IInv, Scratch
<1>9. Ascending'
  <2> SUFFICES ASSUME NEW j \in DOMAIN in
               PROVE  /\ Low(j)' >= Weight[l - 1]
                      /\ todo'[j] < l - 1 => Low(j)' >= 2 * Weight[l - 1]
    BY <1>1 DEF Ascending
  <2>1. CASE j \in J
    <3>1. Low(j) >= Weight[l - 1] /\ Low(j) \in Nat \ {0} /\ Weight[l - 1] \in Nat \ {0}
      BY ValueTypes DEF IInv, Ascending
    <3>2. B * Low(j) >= 2 * Low(j)
      BY <3>1, WidthTypes
    <3> QED
      BY <1>5, <2>1, <3>1, <3>2, WidthTypes
  <2>2. CASE j \notin J
    BY <1>3, <1>6, <2>2 DEF IInv, Ascending
  <2> QED
    BY <2>1, <2>2
<1>10. Added'
  <2> SUFFICES ASSUME NEW j \in DOMAIN in
               PROVE  sum'[j] = Sign(negative[j]) * (Kept(j)
                                  - ((magnitude[j] \div Low(j)') + carry'[j]) * Low(j)')
    BY <1>1 DEF Added, Kept
  <2>1. CASE j \in J
    <3> DEFINE w == Low(j)
               m == magnitude[j]
               c == carry[j]
               d == NextCarry(j)
               x == (m \div w) % B
               s == Sign(negative[j])
    <3>1. m \in Nat /\ w \in Nat \ {0} /\ Weight[l - 1] \in Nat \ {0}
      BY ValueTypes DEF IInv
    <3>2. c \in Int /\ d \in Int /\ s \in Int
      BY <1>5, <2>1 DEF IInv, TypeInv, Sign
    <3>3. Emitted(j) = s * ((x + c) - (d * B))
      <4>1. j \in DOMAIN in /\ todo[j] >= 0
        BY <2>1
      <4>2. Window(m, todo[j]) = x /\ Emitted(j) = s * BalancedDigit(Digit(j), NextCarry(j))
        BY <4>1, DigitTypes
      <4>3. BalancedDigit(Digit(j), NextCarry(j)) = (x + c) - (d * B)
        <5>1. BalancedDigit(Digit(j), d) = Digit(j) - d * B
          BY DEF BalancedDigit
        <5>2. Digit(j) = x + c
          BY <4>2 DEF Digit
        <5>3. x \in Int /\ c \in Int /\ d * B \in Int
          BY <2>1, <3>2, <4>2, DigitTypes, WidthTypes
        <5> HIDE DEF x, c
        <5> QED
          BY <5>1, <5>2, <5>3
      <4> QED
        BY <4>2, <4>3
    <3>4. ((m \div w) + c) * w
            = (((m \div (B * w)) + d) * (B * w)) + (((x + c) - (d * B)) * w)
      <4>1. B \in Nat \ {0} /\ m \in Nat /\ w \in Nat \ {0} /\ c \in Int /\ d \in Int
        BY <3>1, <3>2, WidthTypes
      <4> HIDE DEF m, w, c, d
      <4> DEFINE q == m \div w
                 r == m \div (B * w)
      <4>2. q \in Nat /\ q \div B = r
        BY <4>1, DivMod, DivDiv
      <4> HIDE DEF q, r
      <4>3. q \div B \in Nat /\ q % B \in 0 .. B - 1 /\ q = ((q \div B) * B) + (q % B)
        BY <4>1, <4>2, DivMod
      <4>4. x = q % B
        BY DEF q
      <4> HIDE DEF x
      <4>5. q \in Int /\ r \in Int /\ x \in Int /\ q = (r * B) + x
        BY <4>1, <4>2, <4>3, <4>4
      <4>6. (q + c) * w = ((r + d) * (B * w)) + (((x + c) - (d * B)) * w)
        BY <4>1, <4>5, CarryOver
      <4> QED
        BY <4>6 DEF q, r
    <3>5. sum[j] = s * (Kept(j) - ((m \div w) + c) * w)
      BY DEF IInv, Added
    <3>6. sum'[j] = sum[j] + Emitted(j) * w
      BY <1>2, <1>5, <2>1
    <3>7. carry'[j] = d /\ Low(j)' = B * w
      BY <1>2, <1>5, <2>1
    <3> DEFINE y == (m \div w) + c
               z == (m \div (B * w)) + d
               e == (x + c) - (d * B)
    <3>8. Kept(j) \in Int /\ y \in Int /\ z \in Int /\ e \in Int
      <4>1. m \div w \in Nat /\ m \div (B * w) \in Nat /\ m \div Weight[l - 1] \in Nat
        <5>1. B * w \in Nat \ {0}
          BY <3>1, WidthTypes
        <5> HIDE DEF m, w
        <5> QED
          BY <3>1, <5>1, DivMod
      <4>2. x \in Nat
        <5> HIDE DEF m, w
        <5>1. (m \div w) % B \in 0 .. B - 1
          BY <4>1, DivMod, WidthTypes
        <5> QED
          BY <5>1, WidthTypes
      <4> QED
        BY <3>1, <3>2, <4>1, <4>2, WidthTypes DEF Kept
    <3> HIDE DEF y, z, e, w, s
    <3>9. s * (Kept(j) - y * w) + (s * e) * w = s * (Kept(j) - z * (B * w))
      <4>1. y * w = z * (B * w) + e * w
        BY <3>4 DEF y, z, e
      <4> QED
        BY <3>1, <3>2, <3>8, <4>1, WidthTypes
    <3>10. sum'[j] = s * (Kept(j) - z * (B * w))
      <4>1. Emitted(j) = s * e /\ sum[j] = s * (Kept(j) - y * w)
        BY <3>3, <3>5 DEF y, e
      <4> QED
        BY <3>6, <3>9, <4>1
    <3> QED
      BY <3>7, <3>10 DEF z, s, w
  <2>2. CASE j \notin J
    BY <1>3, <1>6, <2>2 DEF IInv, Added
  <2> QED
    BY <2>1, <2>2
<1>11. DigitsBalanced'
  <2> SUFFICES ASSUME NEW j \in DOMAIN in, NEW i \in todo'[j] + 1 .. l - 1
               PROVE  out'[i][j] \in -HalfB .. HalfB
    BY <1>1 DEF DigitsBalanced
  <2>1. todo[j] \in -1 .. l - 1 /\ l \in 1 .. MaxL
    BY DEF IInv, TypeInv
  <2>2. CASE j \in J
    <3>1. todo'[j] = todo[j] - 1 /\ todo[j] \in 0 .. l - 1 /\ i \in 0 .. l - 1
      BY <1>2, <1>5, <2>1, <2>2
    <3>2. CASE i = todo[j]
      BY <1>4, <1>5, <2>2, <3>1, <3>2
    <3>3. CASE i # todo[j]
      <4>1. i \in todo[j] + 1 .. l - 1
        BY <2>1, <3>1, <3>3
      <4> QED
        BY <1>4, <3>1, <3>3, <4>1 DEF IInv, DigitsBalanced
    <3> QED
      BY <3>2, <3>3
  <2>3. CASE j \notin J
    <3>1. i \in todo[j] + 1 .. l - 1 /\ i \in 0 .. l - 1
      BY <1>3, <2>1, <2>3
    <3> QED
      BY <1>4, <2>3, <3>1 DEF IInv, DigitsBalanced
  <2> QED
    BY <2>2, <2>3
<1> QED
  BY <1>7, <1>8, <1>9, <1>10, <1>11 DEF IInv

LEMMA NextInductive == IInv /\ [Next]_vars => IInv'
<1> SUFFICES ASSUME IInv, [Next]_vars PROVE IInv'
  OBVIOUS
<1>1. ASSUME NEW row \in Rows, NEW k \in 1 .. MaxL, Call(row, k) PROVE IInv'
  BY <1>1, CallInductive
<1>2. CASE ByValue
  <2>1. PICK j \in DOMAIN in : todo[j] >= 0 /\ Emit({j})
    BY <1>2 DEF ByValue
  <2> QED
    BY <2>1, EmitInductive
<1>3. CASE ByLevel
  BY <1>3, EmitInductive DEF ByLevel
<1>4. CASE UNCHANGED vars
  BY <1>4 DEF vars, IInv, TypeInv, Scratch, Ascending, Added, Kept, Low, DigitsBalanced
<1> QED
  BY <1>1, <1>2, <1>3, <1>4 DEF Next

(***************************************************************************)
(* The digits of one value.                                                *)
(***************************************************************************)
\* The recursion of Digits: a window with the carry from below.
Carried(m, k, g, i) ==
    IF i = k THEN 0
    ELSE Window(m, i) + (IF i = k - 1 THEN 0 ELSE CarryOut(g[i + 1], TieBit(m, i + 1)))

Filled(m, k) == CHOOSE g : g = [i \in 0 .. k |-> Carried(m, k, g, i)]

LEMMA Least ==
    ASSUME NEW T, T \subseteq Nat, T # {}
    PROVE  \E x \in T : \A y \in T : x <= y
<1>1. PICK x \in T : \A y \in T : <<y, x>> \notin OpToRel(<, Nat)
  BY NatLessThanWellFounded, WFMin, Zenon
<1>2. \A y \in T : ~(y < x)
  BY <1>1 DEF OpToRel
<1> QED
  BY <1>2

\* The recursion ends: it has a solution on the last windows, however many.
LEMMA FilledExists ==
    ASSUME NEW m, NEW k \in Nat
    PROVE  \A i \in 0 .. k : Filled(m, k)[i] = Carried(m, k, Filled(m, k), i)
<1> DEFINE Solves(g, d) == g = [i \in k - d .. k |-> Carried(m, k, g, i)]
           T == {d \in 0 .. k : ~\E g : Solves(g, d)}
<1>1. T = {}
  <2> SUFFICES ASSUME T # {} PROVE FALSE
    OBVIOUS
  <2>1. PICK d \in 0 .. k : (~\E g : Solves(g, d)) /\ \A e \in T : d <= e
    <3>1. T \subseteq Nat /\ \A e \in T : e \in 0 .. k /\ ~\E g : Solves(g, e)
      OBVIOUS
    <3> HIDE DEF T
    <3>2. PICK d \in T : \A e \in T : d <= e
      BY <3>1, Least
    <3> QED
      BY <3>1, <3>2
  <2>2. d # 0
    <3> SUFFICES ASSUME d = 0 PROVE FALSE
      OBVIOUS
    <3>1. [i \in k .. k |-> 0] = [i \in k .. k |-> Carried(m, k, [h \in k .. k |-> 0], i)]
      BY DEF Carried
    <3>2. k - d = k
      OBVIOUS
    <3> QED
      BY <2>1, <3>1, <3>2
  <2>3. d - 1 \in 0 .. k /\ ~(d <= d - 1)
    BY <2>2
  <2>4. PICK g : Solves(g, d - 1)
    <3>1. d - 1 \notin T
      BY <2>1, <2>3
    <3> QED
      BY <2>3, <3>1
  <2> DEFINE h == [i \in k - d .. k |-> IF i = k - d THEN Carried(m, k, g, i) ELSE g[i]]
  <2>5. \A i \in k - d .. k : Carried(m, k, h, i) = Carried(m, k, g, i)
    <3> SUFFICES ASSUME NEW i \in k - d .. k, i # k, i # k - 1
                 PROVE  h[i + 1] = g[i + 1]
      BY DEF Carried
    <3> QED
      BY <2>3
  <2>6. \A i \in k - d .. k : i # k - d => g[i] = Carried(m, k, g, i)
    <3> SUFFICES ASSUME NEW i \in k - d .. k, i # k - d
                 PROVE  g[i] = Carried(m, k, g, i)
      OBVIOUS
    <3>1. i \in k - (d - 1) .. k
      BY <2>3
    <3> QED
      BY <2>4, <3>1
  <2>7. Solves(h, d)
    BY <2>5, <2>6
  <2> QED
    BY <2>1, <2>7
<1>2. k \in 0 .. k /\ k - k = 0
  OBVIOUS
<1>3. PICK g : Solves(g, k)
  BY <1>1, <1>2
<1>4. g = [i \in 0 .. k |-> Carried(m, k, g, i)]
  BY <1>2, <1>3
<1>5. Filled(m, k) = [i \in 0 .. k |-> Carried(m, k, Filled(m, k), i)]
  BY <1>4, Zenon DEF Filled
<1> QED
  BY <1>5

LEMMA DigitsFilled ==
    ASSUME NEW u \in 0 .. Modulus - 1, NEW k \in 1 .. MaxL, NEW i \in 0 .. k - 1
    PROVE  LET m == Magnitude(u) + RoundingBias(k)
               d == Filled(m, k)[i]
           IN  Digits(u, k)[i] = Sign(Negative(u)) * BalancedDigit(d, CarryOut(d, TieBit(m, i)))
<1>1. u % Modulus = u
  BY WidthTypes
<1> QED
  BY <1>1 DEF Digits, Filled, Carried

(***************************************************************************)
(* The second invariant: the carry of a value is the one that rises        *)
(* through it alone, and the digits handed out are those of Digits.        *)
(***************************************************************************)
Matching ==
    \A j \in DOMAIN in :
        /\ carry[j] = IF todo[j] = l - 1 THEN 0
                      ELSE CarryOut(Filled(magnitude[j], l)[todo[j] + 1],
                                    TieBit(magnitude[j], todo[j] + 1))
        /\ \A i \in todo[j] + 1 .. l - 1 : out[i][j] = Digits(in[j], l)[i]

LEMMA InitMatching == Init => Matching
  BY DEF Init, Matching

LEMMA CallMatching ==
    ASSUME NEW row \in Rows, NEW k \in 1 .. MaxL, Call(row, k)
    PROVE  Matching'
<1>1. /\ in' = row /\ l' = k /\ todo' = [j \in DOMAIN row |-> k - 1]
      /\ \A j \in DOMAIN row : carry'[j] = 0
  BY DEF Call, Refilled
<1>2. k \in Nat /\ k - 1 + 1 .. k - 1 = {}
  BY WeightAssumption
<1> QED
  BY <1>1, <1>2 DEF Matching

LEMMA EmitMatching ==
    ASSUME IInv, Matching, NEW J \in SUBSET DOMAIN in, \A j \in J : todo[j] >= 0, Emit(J)
    PROVE  Matching'
<1>1. in' = in /\ l' = l /\ magnitude' = magnitude /\ l \in 1 .. MaxL /\ l \in Nat
  BY WeightAssumption DEF Emit, IInv, TypeInv
<1>2. \A j \in DOMAIN in :
        /\ todo'[j] = IF j \in J THEN todo[j] - 1 ELSE todo[j]
        /\ carry'[j] = IF j \in J THEN NextCarry(j) ELSE carry[j]
        /\ \A i \in 0 .. l - 1 :
             out'[i][j] = IF j \in J /\ todo[j] = i THEN Emitted(j) ELSE out[i][j]
  BY DEF Emit, IInv, TypeInv
<1> SUFFICES ASSUME NEW j \in DOMAIN in
             PROVE  /\ carry'[j] = IF todo'[j] = l - 1 THEN 0
                                   ELSE CarryOut(Filled(magnitude[j], l)[todo'[j] + 1],
                                                 TieBit(magnitude[j], todo'[j] + 1))
                    /\ \A i \in todo'[j] + 1 .. l - 1 : out'[i][j] = Digits(in[j], l)[i]
  BY <1>1 DEF Matching
<1>3. todo[j] \in -1 .. l - 1
  BY DEF IInv, TypeInv
<1>4. CASE j \notin J
  <2>1. todo[j] + 1 .. l - 1 \subseteq 0 .. l - 1
    BY <1>1, <1>3
  <2> QED
    BY <1>2, <1>4, <2>1 DEF Matching
<1>5. CASE j \in J
  <2> DEFINE m == magnitude[j]
             d == Filled(m, l)[todo[j]]
  <2>1. /\ todo[j] \in 0 .. l - 1 /\ todo'[j] = todo[j] - 1 /\ carry'[j] = NextCarry(j)
        /\ Emitted(j) = Sign(negative[j]) * BalancedDigit(Digit(j), NextCarry(j))
    BY <1>2, <1>5, DigitTypes
  <2>2. d = Carried(m, l, Filled(m, l), todo[j])
    <3>1. todo[j] \in 0 .. l
      BY <1>1, <2>1
    <3> QED
      BY <1>1, <3>1, FilledExists
  <2>3. Digit(j) = d
    <3>1. todo[j] # l
      BY <1>1, <2>1
    <3>2. carry[j] = IF todo[j] = l - 1 THEN 0
                     ELSE CarryOut(Filled(m, l)[todo[j] + 1], TieBit(m, todo[j] + 1))
      BY DEF Matching
    <3> QED
      BY <2>2, <3>1, <3>2 DEF Carried, Digit
  <2>4. NextCarry(j) = CarryOut(d, TieBit(m, todo[j]))
    BY <2>3 DEF NextCarry
  <2>5. Emitted(j) = Digits(in[j], l)[todo[j]]
    <3>1. m = Magnitude(in[j]) + RoundingBias(l) /\ Sign(negative[j]) = Sign(Negative(in[j]))
      BY DEF IInv, Scratch, Sign
    <3>2. in[j] \in 0 .. Modulus - 1
      BY DEF IInv, TypeInv
    <3> QED
      BY <1>1, <2>1, <2>3, <2>4, <3>1, <3>2, DigitsFilled
  <2> HIDE DEF m, d
  <2>6. carry'[j] = IF todo'[j] = l - 1 THEN 0
                    ELSE CarryOut(Filled(m, l)[todo'[j] + 1], TieBit(m, todo'[j] + 1))
    <3>1. todo'[j] # l - 1 /\ todo'[j] + 1 = todo[j]
      BY <1>1, <2>1
    <3> QED
      BY <2>1, <2>4, <3>1 DEF d
  <2>7. ASSUME NEW i \in todo'[j] + 1 .. l - 1
        PROVE  out'[i][j] = Digits(in[j], l)[i]
    <3>1. i \in 0 .. l - 1 /\ (i = todo[j] \/ i \in todo[j] + 1 .. l - 1)
      BY <1>1, <2>1
    <3>2. CASE i = todo[j]
      BY <1>2, <1>5, <2>5, <3>1, <3>2
    <3>3. CASE i # todo[j]
      BY <1>2, <3>1, <3>3 DEF Matching
    <3> QED
      BY <3>2, <3>3
  <2> QED
    BY <2>6, <2>7 DEF m
<1> QED
  BY <1>4, <1>5

LEMMA NextMatching == IInv /\ Matching /\ [Next]_vars => Matching'
<1> SUFFICES ASSUME IInv, Matching, [Next]_vars PROVE Matching'
  OBVIOUS
<1>1. ASSUME NEW row \in Rows, NEW k \in 1 .. MaxL, Call(row, k) PROVE Matching'
  BY <1>1, CallMatching
<1>2. CASE ByValue
  <2>1. PICK j \in DOMAIN in : todo[j] >= 0 /\ Emit({j})
    BY <1>2 DEF ByValue
  <2> QED
    BY <2>1, EmitMatching
<1>3. CASE ByLevel
  BY <1>3, EmitMatching DEF ByLevel
<1>4. CASE UNCHANGED vars
  BY <1>4 DEF vars, Matching
<1> QED
  BY <1>1, <1>2, <1>3, <1>4 DEF Next

LEMMA MatchingMatches == IInv /\ Matching => MatchesDigits
<1> SUFFICES ASSUME IInv, Matching, NEW j \in DOMAIN in, todo[j] = -1, NEW i \in 0 .. l - 1
             PROVE  out[i][j] = Digits(in[j], l)[i]
  BY DEF MatchesDigits
<1>1. i \in todo[j] + 1 .. l - 1
  OBVIOUS
<1> QED
  BY <1>1 DEF Matching

(***************************************************************************)
(* The theorems.                                                           *)
(***************************************************************************)
\* What the decomposition keeps of a magnitude is within the rounding bias of it.
LEMMA KeptIsRounded ==
    ASSUME IInv, NEW j \in DOMAIN in
    PROVE  /\ Kept(j) \in Nat
           /\ Kept(j) - Magnitude(in[j]) \in -RoundingBias(l) .. RoundingBias(l)
<1> DEFINE w == Weight[l - 1]
           m == magnitude[j]
           b == RoundingBias(l)
<1>1. m \in Nat /\ w \in Nat \ {0} /\ Magnitude(in[j]) \in Nat
  BY ValueTypes, WidthTypes DEF IInv
<1>2. b \in Nat /\ ((w = 1 /\ b = 0) \/ w = 2 * b)
  BY BiasRange DEF IInv, TypeInv
<1>3. m = Magnitude(in[j]) + b
  BY DEF IInv, Scratch
<1>4. m % w \in 0 .. w - 1 /\ m = ((m \div w) * w) + (m % w) /\ m \div w \in Nat
  BY <1>1, DivMod
<1>5. Kept(j) = (m \div w) * w
  BY DEF Kept
<1> HIDE DEF w, m
<1>6. PICK r \in 0 .. w - 1 : m = ((m \div w) * w) + r
  BY <1>4
<1>7. Kept(j) \in Nat
  BY <1>1, <1>4, <1>5
<1>8. Kept(j) = m - r
  BY <1>1, <1>5, <1>6, <1>7
<1> HIDE DEF b
<1>9. Kept(j) - Magnitude(in[j]) \in -b .. b
  BY <1>1, <1>2, <1>3, <1>7, <1>8
<1> QED
  BY <1>7, <1>9 DEF b

\* The digits give the value back.
LEMMA IInvRecomposes == IInv => Recomposes
<1> SUFFICES ASSUME IInv, NEW j \in DOMAIN in, todo[j] = -1
             PROVE  \E k \in {-1, 0} :
                       sum[j] - in[j] - k * Modulus \in -RoundingBias(l) .. RoundingBias(l)
  BY DEF Recomposes, RoundingBias
<1> DEFINE b == RoundingBias(l)
           u == in[j]
           c == carry[j]
<1>1. Low(j) = Modulus
  BY DEF Low
<1>2. l \in 1 .. MaxL /\ c \in {0, 1} /\ u \in 0 .. Modulus - 1
  BY DEF IInv, TypeInv
<1>3. Modulus >= 2 * Weight[l - 1]
  BY <1>1, <1>2 DEF IInv, Ascending
<1>4. magnitude[j] \in Nat /\ magnitude[j] < Modulus
  <2>1. magnitude[j] = Magnitude(u) + b /\ Magnitude(u) \in 0 .. Half
    BY <1>2, MagnitudeRange DEF IInv, Scratch
  <2>2. b \in Nat /\ Weight[l - 1] \in Nat \ {0} /\ 2 * b <= Weight[l - 1]
    BY <1>2, BiasRange
  <2> QED
    BY <1>3, <2>1, <2>2, WidthTypes
<1>5. magnitude[j] \div Modulus = 0
  BY <1>4, DivSmall, WidthTypes
<1>6. sum[j] = Sign(negative[j]) * (Kept(j) - (0 + c) * Modulus)
  BY <1>1, <1>5 DEF IInv, Added
<1>7. Kept(j) \in Nat /\ Kept(j) - Magnitude(u) \in -b .. b /\ b \in Nat
  BY <1>2, KeptIsRounded, BiasRange
<1>8. negative[j] <=> u >= Half
  BY DEF IInv, Scratch, Negative
<1>9. CASE u >= Half
  <2>1. sum[j] = c * Modulus - Kept(j) /\ Magnitude(u) = Modulus - u
    BY <1>2, <1>6, <1>7, <1>8, <1>9, WidthTypes DEF Sign, Magnitude, Negative
  <2>2. sum[j] - u - (c - 1) * Modulus \in -b .. b
    BY <1>2, <1>7, <2>1, WidthTypes
  <2>3. c - 1 \in {-1, 0}
    BY <1>2
  <2> QED
    BY <2>2, <2>3
<1>10. CASE ~(u >= Half)
  <2>1. sum[j] = Kept(j) - c * Modulus /\ Magnitude(u) = u
    BY <1>2, <1>6, <1>7, <1>8, <1>10, WidthTypes DEF Sign, Magnitude, Negative
  <2>2. sum[j] - u - (-c) * Modulus \in -b .. b
    BY <1>2, <1>7, <2>1, WidthTypes
  <2>3. -c \in {-1, 0}
    BY <1>2
  <2> QED
    BY <2>2, <2>3
<1> QED
  BY <1>9, <1>10

\* Every digit that decomposeRow and zeroMeanDigits emit lies in -B/2 .. B/2,
\* for every radix, number of digits, width and row, whatever the scratch rows
\* held before the call.
THEOREM Balanced == Spec => []DigitsBalanced
<1>1. IInv => DigitsBalanced
  BY DEF IInv
<1> QED
  BY <1>1, InitInductive, NextInductive, PTL DEF Spec

\* The digits of a value, recomposed, give the value back up to the rounding of
\* the dropped bits, modulo the torus.
THEOREM Recomposition == Spec => []Recomposes
  BY IInvRecomposes, InitInductive, NextInductive, PTL DEF Spec

\* The digits of a value are those of Digits, a recursion over the windows of
\* that value alone, whichever values share its row, in whichever order the row
\* is taken and whatever the scratch rows held before.
THEOREM DigitsAlone == Spec => []MatchesDigits
  BY MatchingMatches, InitInductive, NextInductive, InitMatching, NextMatching, PTL DEF Spec
=============================================================================
