------------------------ MODULE Bootstrapping_proofs ------------------------
(***************************************************************************)
(* The phase of a sample is kept by rescaling it to 2N, and by extracting  *)
(* it from the accumulator and switching it to the LWE key; and a sample   *)
(* decrypts to what the table gives if the accumulator has its phase: for  *)
(* every length of the key, degree, modulus and gadget the assumptions     *)
(* admit, in every scheme and for every table, whatever is drawn.          *)
(***************************************************************************)
EXTENDS Bootstrapping, WellFoundedInduction, TLAPS

(***************************************************************************)
(* Induction over the numbers, as a fact about sets.                       *)
(***************************************************************************)
LEMMA Least ==
  ASSUME NEW T, T \subseteq Nat, T # {}
  PROVE  \E x \in T : \A y \in T : x <= y
<1>1. PICK x \in T : \A y \in T : <<y, x>> \notin OpToRel(<, Nat)
  BY NatLessThanWellFounded, WFMin, Zenon
<1>2. \A y \in T : ~(y < x)
  BY <1>1 DEF OpToRel
<1> QED
  BY <1>2

\* What holds at 0 and at the number after each one holds at all.
LEMMA AllNumbers ==
  ASSUME NEW T, T \subseteq Nat, 0 \in T, \A k \in T : k + 1 \in T
  PROVE  T = Nat
<1> SUFFICES ASSUME Nat \ T # {} PROVE FALSE
  OBVIOUS
<1>1. PICK x \in Nat \ T : \A y \in Nat \ T : x <= y
  <2> DEFINE Missing == Nat \ T
  <2>1. Missing \subseteq Nat /\ Missing # {}
    OBVIOUS
  <2> HIDE DEF Missing
  <2>2. \E x \in Missing : \A y \in Missing : x <= y
    BY <2>1, Least
  <2> QED
    BY <2>2 DEF Missing
<1>2. x # 0 /\ x - 1 \in Nat
  BY <1>1
<1>3. x - 1 \in T
  BY <1>1, <1>2
<1> QED
  BY <1>1, <1>3

(***************************************************************************)
(* Sums.                                                                   *)
(***************************************************************************)
Adds(f, k, g) == g = [j \in 0 .. k |-> IF j = 0 THEN 0 ELSE g[j - 1] + f[j - 1]]

\* The recursion of Sum has a solution
LEMMA SumExists == ASSUME NEW f, NEW k \in Nat PROVE \E g : Adds(f, k, g)
<1> DEFINE T == {m \in Nat : \E g : Adds(f, m, g)}
<1>1. 0 \in T
  <2> DEFINE g == [j \in 0 .. 0 |-> 0]
  <2>1. g = [j \in 0 .. 0 |-> IF j = 0 THEN 0 ELSE g[j - 1] + f[j - 1]]
    OBVIOUS
  <2> HIDE DEF g
  <2> QED
    BY <2>1 DEF Adds
<1>2. ASSUME NEW m \in T PROVE m + 1 \in T
  <2>1. PICK g : Adds(f, m, g)
    OBVIOUS
  <2> DEFINE h == [j \in 0 .. m + 1 |-> IF j = m + 1 THEN g[m] + f[m] ELSE g[j]]
  <2>2. \A j \in 0 .. m : h[j] = g[j]
    OBVIOUS
  <2>3. h[m + 1] = g[m] + f[m]
    OBVIOUS
  <2>4. \A j \in 0 .. m : g[j] = IF j = 0 THEN 0 ELSE g[j - 1] + f[j - 1]
    BY <2>1 DEF Adds
  <2>5. \A j \in 0 .. m + 1 : h[j] = IF j = 0 THEN 0 ELSE h[j - 1] + f[j - 1]
    <3> HIDE DEF h
    <3> SUFFICES ASSUME NEW j \in 0 .. m + 1
                 PROVE  h[j] = IF j = 0 THEN 0 ELSE h[j - 1] + f[j - 1]
      OBVIOUS
    <3>1. CASE j = 0
      BY <2>2, <2>4, <3>1
    <3>2. CASE j # 0 /\ j # m + 1
      <4>1. j \in 0 .. m /\ j - 1 \in 0 .. m
        BY <3>2
      <4> QED
        BY <2>2, <2>4, <3>2, <4>1
    <3>3. CASE j = m + 1
      <4>1. m \in 0 .. m /\ j - 1 = m /\ j # 0
        BY <3>3
      <4> QED
        BY <2>2, <2>3, <3>3, <4>1
    <3> QED
      BY <3>1, <3>2, <3>3
  <2>6. h = [j \in 0 .. m + 1 |-> h[j]]
    OBVIOUS
  <2> HIDE DEF h
  <2>7. Adds(f, m + 1, h)
    BY <2>5, <2>6 DEF Adds
  <2> QED
    BY <2>7
<1> HIDE DEF T
<1>3. T = Nat
  <2>1. T \subseteq Nat
    BY DEF T
  <2> QED
    BY <1>1, <1>2, <2>1, AllNumbers
<1> QED
  BY <1>3 DEF T

\* and only one.
LEMMA SumUnique ==
  ASSUME NEW f, NEW k \in Nat, NEW g, Adds(f, k, g), NEW m \in Nat, NEW h, Adds(f, m, h)
  PROVE  \A j \in Nat : j <= k /\ j <= m => g[j] = h[j]
<1> DEFINE T == {j \in Nat : j <= k /\ j <= m => g[j] = h[j]}
<1>1. 0 \in T
  BY DEF Adds
<1>2. ASSUME NEW j \in T PROVE j + 1 \in T
  <2> SUFFICES ASSUME j + 1 <= k, j + 1 <= m PROVE g[j + 1] = h[j + 1]
    OBVIOUS
  <2>1. g[j] = h[j] /\ j + 1 \in 0 .. k /\ j + 1 \in 0 .. m /\ j + 1 # 0 /\ (j + 1) - 1 = j
    OBVIOUS
  <2>2. g[j + 1] = g[(j + 1) - 1] + f[(j + 1) - 1]
    BY <2>1 DEF Adds
  <2>3. h[j + 1] = h[(j + 1) - 1] + f[(j + 1) - 1]
    BY <2>1 DEF Adds
  <2> QED
    BY <2>1, <2>2, <2>3
<1> HIDE DEF T
<1>3. T = Nat
  <2>1. T \subseteq Nat
    BY DEF T
  <2> QED
    BY <1>1, <1>2, <2>1, AllNumbers
<1> QED
  BY <1>3 DEF T

\* So Sum is what any solution gives.
LEMMA SumIs ==
  ASSUME NEW f, NEW k \in Nat, NEW m \in Nat, m <= k, NEW g, Adds(f, k, g)
  PROVE  Sum(m, f) = g[m]
<1> DEFINE S == CHOOSE h : h = [j \in 0 .. m |-> IF j = 0 THEN 0 ELSE h[j - 1] + f[j - 1]]
<1>1. \E h : h = [j \in 0 .. m |-> IF j = 0 THEN 0 ELSE h[j - 1] + f[j - 1]]
  BY SumExists DEF Adds
<1>2. S = [j \in 0 .. m |-> IF j = 0 THEN 0 ELSE S[j - 1] + f[j - 1]]
  BY <1>1, Zenon
<1>3. Sum(m, f) = S[m]
  BY DEF Sum
<1> HIDE DEF S
<1>4. Adds(f, m, S)
  BY <1>2 DEF Adds
<1> QED
  BY <1>3, <1>4, SumUnique

\* A sum grows by one value at a time, and is a number when they are.
LEMMA SumSteps ==
  ASSUME NEW f, NEW k \in Nat, \A j \in Nat : j < k => f[j] \in Int
  PROVE  /\ Sum(0, f) = 0
         /\ \A m \in Nat : m < k => Sum(m + 1, f) = Sum(m, f) + f[m]
         /\ \A m \in Nat : m <= k => Sum(m, f) \in Int
<1>1. PICK g : Adds(f, k, g)
  BY SumExists
<1>2. \A m \in Nat : m <= k => Sum(m, f) = g[m]
  BY <1>1, SumIs
<1>3. Sum(0, f) = 0
  BY <1>1, <1>2 DEF Adds
<1>4. ASSUME NEW m \in Nat, m < k PROVE Sum(m + 1, f) = Sum(m, f) + f[m]
  <2>1. m + 1 \in 0 .. k /\ m + 1 # 0 /\ (m + 1) - 1 = m /\ m + 1 <= k /\ m <= k /\ m + 1 \in Nat
    BY <1>4
  <2>2. g[m + 1] = g[(m + 1) - 1] + f[(m + 1) - 1]
    BY <1>1, <2>1 DEF Adds
  <2> QED
    BY <1>2, <2>1, <2>2
<1> DEFINE T == {m \in Nat : m <= k => Sum(m, f) \in Int}
<1>5. \A m \in Nat : m \in T
  <2>1. 0 \in T
    BY <1>3
  <2>2. ASSUME NEW m \in T PROVE m + 1 \in T
    <3> SUFFICES ASSUME m + 1 <= k PROVE Sum(m + 1, f) \in Int
      OBVIOUS
    <3>1. Sum(m, f) \in Int /\ f[m] \in Int /\ m < k
      OBVIOUS
    <3> QED
      BY <1>4, <3>1
  <2>3. T \subseteq Nat
    OBVIOUS
  <2> HIDE DEF T
  <2> QED
    BY <2>1, <2>2, <2>3, AllNumbers
<1> QED
  BY <1>3, <1>4, <1>5

(***************************************************************************)
(* Numbers modulo a number.                                                *)
(***************************************************************************)
LEMMA DivMod ==
  ASSUME NEW x \in Int, NEW p \in Nat \ {0}
  PROVE  x \div p \in Int /\ x % p \in 0 .. p - 1 /\ x = p * (x \div p) + (x % p)
  BY SMT

\* A factor carries the sign of a product.
LEMMA NegatedTimes ==
  ASSUME NEW x \in Int, NEW y \in Int
  PROVE  -(x * y) = (-x) * y /\ -x \in Int /\ x * y \in Int
  BY SMTT(60)

\* A multiple that is not 0 is at least as far from 0.
LEMMA FarMultiple ==
  ASSUME NEW p \in Nat \ {0}, NEW t \in Int
  PROVE  (t >= 1 => p * t >= p) /\ (t <= -1 => p * t <= -p) /\ p * t \in Int
<1>1. p * t \in Int
  OBVIOUS
<1>2. t >= 1 => p * t >= p
  BY SMT
<1>3. t <= -1 => p * t <= -p
  BY SMT
<1> QED
  BY <1>1, <1>2, <1>3

\* Multiples add up.
LEMMA MultipleSplits ==
  ASSUME NEW p \in Int, NEW u \in Int, NEW t \in Int
  PROVE  p * u + p * t = p * (u + t) /\ p * u - p * t = p * (u - t)
  BY SMT

\* Centre only takes a multiple off, and leaves the residue next to zero.
LEMMA CentreIs ==
  ASSUME NEW x \in Int, NEW p \in Nat \ {0}
  PROVE  Centre(x, p) \in Int /\ \E t \in Int : Centre(x, p) = x + p * t
<1>1. x \div p \in Int /\ x % p \in Int /\ x = p * (x \div p) + (x % p)
  BY DivMod
<1> DEFINE d == x \div p
<1>2. p * d + p * (-d) = 0 /\ p * (-d) - p = p * (-d - 1)
  <2>1. p * d + p * (-d) = p * (d + (-d)) /\ p * (-d) - p * 1 = p * (-d - 1)
    BY <1>1, MultipleSplits
  <2> QED
    BY <1>1, <2>1
<1>3. Centre(x, p) = x % p \/ Centre(x, p) = (x % p) - p
  BY DEF Centre
<1>4. x % p = x + p * (-d) /\ (x % p) - p = x + p * (-d - 1)
  <2> HIDE DEF d
  <2>1. p * d \in Int /\ p * (-d) \in Int /\ p * (-d - 1) \in Int /\ x = p * d + (x % p)
    BY <1>1 DEF d
  <2> QED
    BY <1>1, <1>2, <2>1
<1>5. -d \in Int /\ -d - 1 \in Int
  BY <1>1
<1>6. \E t \in Int : Centre(x, p) = x + p * t
  <2>1. CASE Centre(x, p) = x % p
    BY <1>4, <1>5, <2>1
  <2>2. CASE Centre(x, p) = (x % p) - p
    BY <1>4, <1>5, <2>2
  <2> QED
    BY <1>3, <2>1, <2>2
<1>7. Centre(x, p) \in Int
  BY <1>1, <1>3
<1> QED
  BY <1>6, <1>7

\* Of two numbers apart by a multiple, Centre gives the one next to zero.
LEMMA CentreLeast ==
  ASSUME NEW p \in Nat \ {0}, NEW e \in Int, NEW t \in Int, NEW bound \in Nat,
         -bound <= e, e <= bound
  PROVE  Centre(e + p * t, p) \in -bound .. bound
<1> DEFINE x == e + p * t
           d == x \div p
           r == x % p
<1>1. p * t \in Int /\ x \in Int
  OBVIOUS
<1>2. d \in Int /\ r \in 0 .. p - 1 /\ x = p * d + r
  BY <1>1, DivMod
<1>3. e = r + p * (d - t)
  <2>1. p * d - p * t = p * (d - t)
    BY <1>2, MultipleSplits
  <2>2. p * d \in Int /\ p * t \in Int
    BY <1>2
  <2> HIDE DEF d, r
  <2> QED
    BY <1>2, <2>1, <2>2
<1>4. Centre(x, p) = IF r > (p - 1) \div 2 THEN r - p ELSE r
  BY DEF Centre
<1> HIDE DEF x, d, r
<1>5. PICK u \in Int : u = d - t
  BY <1>2
<1>6. /\ u >= 1 => p * u >= p
      /\ u <= -1 => p * u <= -p
      /\ u = 0 => p * u = 0
      /\ p * u \in Int
  BY FarMultiple
<1>7. PICK w \in Int : w = p * u
  BY <1>6
<1>8. (u >= 1 \/ u <= -1 \/ u = 0) /\ (w >= p \/ w <= -p \/ w = 0) /\ e = r + w
  BY <1>3, <1>5, <1>6, <1>7
<1>9. Centre(x, p) \in -bound .. bound
  BY <1>2, <1>4, <1>8
<1> QED
  BY <1>9 DEF x

\* The sum of x times the values of one function and those of another.
Linear(k, x, f, g, h) ==
  \A j \in 0 .. k - 1 : f[j] \in Int /\ g[j] \in Int /\ h[j] = x * f[j] + g[j]

\* A multiple of one function and another one.
LEMMA SumLinear ==
  ASSUME NEW k \in Nat, NEW x \in Int, NEW f, NEW g, NEW h, Linear(k, x, f, g, h)
  PROVE  Sum(k, f) \in Int /\ Sum(k, g) \in Int /\ Sum(k, h) = x * Sum(k, f) + Sum(k, g)
<1>1. \A j \in Nat : j < k => f[j] \in Int /\ g[j] \in Int /\ h[j] \in Int /\ h[j] = x * f[j] + g[j]
  <2> SUFFICES ASSUME NEW j \in Nat, j < k
               PROVE  f[j] \in Int /\ g[j] \in Int /\ h[j] \in Int /\ h[j] = x * f[j] + g[j]
    OBVIOUS
  <2>1. j \in 0 .. k - 1
    OBVIOUS
  <2>2. f[j] \in Int /\ g[j] \in Int /\ h[j] = x * f[j] + g[j]
    BY <2>1 DEF Linear
  <2>3. \A y, z \in Int : x * y + z \in Int
    BY SMT
  <2> QED
    BY <2>2, <2>3
<1>2. /\ Sum(0, f) = 0 /\ \A m \in Nat : m < k => Sum(m + 1, f) = Sum(m, f) + f[m]
      /\ \A m \in Nat : m <= k => Sum(m, f) \in Int
  BY <1>1, SumSteps
<1>3. /\ Sum(0, g) = 0 /\ \A m \in Nat : m < k => Sum(m + 1, g) = Sum(m, g) + g[m]
      /\ \A m \in Nat : m <= k => Sum(m, g) \in Int
  BY <1>1, SumSteps
<1>4. /\ Sum(0, h) = 0 /\ \A m \in Nat : m < k => Sum(m + 1, h) = Sum(m, h) + h[m]
      /\ \A m \in Nat : m <= k => Sum(m, h) \in Int
  BY <1>1, SumSteps
<1> DEFINE T == {m \in Nat : m <= k => Sum(m, h) = x * Sum(m, f) + Sum(m, g)}
<1>5. 0 \in T
  BY <1>2, <1>3, <1>4
<1>6. ASSUME NEW m \in T PROVE m + 1 \in T
  <2> SUFFICES ASSUME m + 1 <= k PROVE Sum(m + 1, h) = x * Sum(m + 1, f) + Sum(m + 1, g)
    OBVIOUS
  <2>1. m \in Nat /\ m < k /\ m <= k
    OBVIOUS
  <2>2. PICK F \in Int, G \in Int, H \in Int, p \in Int, q \in Int, r \in Int :
          /\ F = Sum(m, f) /\ G = Sum(m, g) /\ H = Sum(m, h)
          /\ p = f[m] /\ q = g[m] /\ r = h[m]
    BY <1>1, <1>2, <1>3, <1>4, <2>1
  <2>3. H = x * F + G /\ r = x * p + q
    BY <1>1, <2>1, <2>2
  <2>4. x * (F + p) = x * F + x * p
    BY SMT
  <2>5. PICK a \in Int, b \in Int : a = x * F /\ b = x * p
    OBVIOUS
  <2>6. H + r = (a + b) + (G + q)
    BY <2>3, <2>5
  <2>7. H + r = x * (F + p) + (G + q)
    BY <2>4, <2>5, <2>6
  <2>8. Sum(m + 1, f) = F + p /\ Sum(m + 1, g) = G + q /\ Sum(m + 1, h) = H + r
    BY <1>2, <1>3, <1>4, <2>1, <2>2
  <2> QED
    BY <2>7, <2>8
<1>7. k \in T
  <2>1. T \subseteq Nat
    OBVIOUS
  <2> HIDE DEF T
  <2> QED
    BY <1>5, <1>6, <2>1, AllNumbers
<1> QED
  BY <1>2, <1>3, <1>7

\* Nothing adds up to nothing.
LEMMA SumZero == ASSUME NEW k \in Nat, NEW f, \A j \in 0 .. k - 1 : f[j] = 0 PROVE Sum(k, f) = 0
<1>1. \A j \in 0 .. k - 1 : f[j] \in Int /\ f[j] = (-1) * f[j] + f[j]
  OBVIOUS
<1>2. Sum(k, f) \in Int /\ Sum(k, f) = (-1) * Sum(k, f) + Sum(k, f)
  <2>1. -1 \in Int
    OBVIOUS
  <2>2. Linear(k, -1, f, f, f)
    BY <1>1 DEF Linear
  <2> QED
    BY <2>1, <2>2, SumLinear
<1> QED
  BY <1>2

\* Sums of the same values.
LEMMA SumSame ==
  ASSUME NEW k \in Nat, NEW f, NEW g, \A j \in 0 .. k - 1 : f[j] \in Int /\ g[j] = f[j]
  PROVE  Sum(k, f) \in Int /\ Sum(k, g) = Sum(k, f)
<1> DEFINE zero == [j \in 0 .. k - 1 |-> 0]
<1>1. \A j \in 0 .. k - 1 : zero[j] = 0
  OBVIOUS
<1> HIDE DEF zero
<1>2. Sum(k, zero) = 0
  BY <1>1, SumZero
<1>3. \A j \in 0 .. k - 1 : f[j] \in Int /\ zero[j] \in Int /\ g[j] = 1 * f[j] + zero[j]
  BY <1>1
<1>4. Sum(k, f) \in Int /\ Sum(k, zero) \in Int /\ Sum(k, g) = 1 * Sum(k, f) + Sum(k, zero)
  <2>1. 1 \in Int
    OBVIOUS
  <2>2. Linear(k, 1, f, zero, g)
    BY <1>3 DEF Linear
  <2> QED
    BY <2>1, <2>2, SumLinear
<1> QED
  BY <1>2, <1>4

\* A number times a sum.
Scales(k, x, f, h) == \A j \in 0 .. k - 1 : f[j] \in Int /\ h[j] = x * f[j]

\* A factor can be taken out of a sum.
LEMMA SumScaled ==
  ASSUME NEW k \in Nat, NEW x \in Int, NEW f, NEW h, Scales(k, x, f, h)
  PROVE  Sum(k, f) \in Int /\ Sum(k, h) = x * Sum(k, f)
<1> DEFINE zero == [j \in 0 .. k - 1 |-> 0]
<1>1. \A j \in 0 .. k - 1 : zero[j] = 0
  OBVIOUS
<1> HIDE DEF zero
<1>2. Sum(k, zero) = 0
  BY <1>1, SumZero
<1>3. \A j \in 0 .. k - 1 : f[j] \in Int /\ zero[j] \in Int /\ h[j] = x * f[j] + zero[j]
  <2> SUFFICES ASSUME NEW j \in 0 .. k - 1 PROVE f[j] \in Int /\ zero[j] \in Int /\ h[j] = x * f[j] + zero[j]
    OBVIOUS
  <2>1. f[j] \in Int /\ h[j] = x * f[j] /\ zero[j] = 0
    BY <1>1 DEF Scales
  <2>2. \A y \in Int : x * y + 0 = x * y
    BY SMT
  <2> QED
    BY <2>1, <2>2
<1>4. Sum(k, f) \in Int /\ Sum(k, zero) \in Int /\ Sum(k, h) = x * Sum(k, f) + Sum(k, zero)
  <2>1. Linear(k, x, f, zero, h)
    BY <1>3 DEF Linear
  <2> QED
    BY <2>1, SumLinear
<1>5. \A y \in Int : x * y + 0 = x * y
  BY SMT
<1> QED
  BY <1>2, <1>4, <1>5

\* A value added to itself.
LEMMA SumConstant ==
  ASSUME NEW k \in Nat, NEW c \in Int, NEW f, \A j \in 0 .. k - 1 : f[j] = c
  PROVE  Sum(k, f) = k * c
<1>1. \A j \in Nat : j < k => f[j] \in Int /\ f[j] = c
  OBVIOUS
<1>2. /\ Sum(0, f) = 0 /\ \A m \in Nat : m < k => Sum(m + 1, f) = Sum(m, f) + f[m]
      /\ \A m \in Nat : m <= k => Sum(m, f) \in Int
  BY <1>1, SumSteps
<1> DEFINE T == {m \in Nat : m <= k => Sum(m, f) = m * c}
<1>3. 0 \in T
  BY <1>2
<1>4. ASSUME NEW m \in T PROVE m + 1 \in T
  <2> SUFFICES ASSUME m + 1 <= k PROVE Sum(m + 1, f) = (m + 1) * c
    OBVIOUS
  <2>1. m \in Nat /\ m < k /\ m <= k
    OBVIOUS
  <2>2. Sum(m + 1, f) = m * c + c
    BY <1>1, <1>2, <2>1
  <2>3. (m + 1) * c = m * c + c
    BY <2>1, SMT
  <2> QED
    BY <2>2, <2>3
<1>5. k \in T
  <2>1. T \subseteq Nat
    OBVIOUS
  <2> HIDE DEF T
  <2> QED
    BY <1>3, <1>4, <2>1, AllNumbers
<1> QED
  BY <1>5

\* A table may be summed by rows or by columns.
Transposed(m, k, F, G, f, g) ==
  /\ \A o \in 0 .. m - 1 : \A j \in 0 .. k - 1 : F[o][j] \in Int /\ G[j][o] = F[o][j]
  /\ \A o \in 0 .. m - 1 : f[o] = Sum(k, F[o])
  /\ \A j \in 0 .. k - 1 : g[j] = Sum(m, G[j])

\* The order of two sums does not matter.
LEMMA SumSwap ==
  ASSUME NEW m \in Nat, NEW k \in Nat, NEW F, NEW G, NEW f, NEW g, Transposed(m, k, F, G, f, g)
  PROVE  Sum(m, f) \in Int /\ Sum(m, f) = Sum(k, g)
<1> DEFINE C(j) == G[j]
           Up(p) == [j \in 0 .. k - 1 |-> Sum(p, C(j))]
<1>1. \A o \in 0 .. m - 1, j \in 0 .. k - 1 : F[o][j] \in Int
  BY DEF Transposed
<1>2. \A j \in 0 .. m - 1 : f[j] \in Int /\ f[j] = Sum(k, F[j])
  <2> SUFFICES ASSUME NEW j \in 0 .. m - 1 PROVE Sum(k, F[j]) \in Int
    BY DEF Transposed
  <2>1. \A o \in 0 .. k - 1 : F[j][o] \in Int /\ F[j][o] = F[j][o]
    BY <1>1
  <2> QED
    BY <2>1, SumSame
<1>3. /\ Sum(0, f) = 0 /\ \A p \in Nat : p < m => Sum(p + 1, f) = Sum(p, f) + f[p]
      /\ \A p \in Nat : p <= m => Sum(p, f) \in Int
  <2>1. \A j \in Nat : j < m => f[j] \in Int
    BY <1>2
  <2> QED
    BY <2>1, SumSteps
<1>4. \A j \in 0 .. k - 1 :
        /\ Sum(0, C(j)) = 0 /\ \A p \in Nat : p < m => Sum(p + 1, C(j)) = Sum(p, C(j)) + C(j)[p]
        /\ \A p \in Nat : p <= m => Sum(p, C(j)) \in Int
  <2> SUFFICES ASSUME NEW j \in 0 .. k - 1
               PROVE  /\ Sum(0, C(j)) = 0
                      /\ \A p \in Nat : p < m => Sum(p + 1, C(j)) = Sum(p, C(j)) + C(j)[p]
                      /\ \A p \in Nat : p <= m => Sum(p, C(j)) \in Int
    OBVIOUS
  <2>1. \A o \in Nat : o < m => C(j)[o] \in Int
    BY DEF Transposed
  <2> HIDE DEF C
  <2> QED
    BY <2>1, SumSteps
<1>5. \A o \in 0 .. m - 1, j \in 0 .. k - 1 : C(j)[o] = F[o][j]
  BY DEF Transposed
<1>6. \A p \in Nat : \A j \in 0 .. k - 1 : Up(p)[j] = Sum(p, C(j))
  OBVIOUS
<1>7. \A j \in 0 .. k - 1 : g[j] = Sum(m, C(j))
  BY DEF Transposed
<1> HIDE DEF C, Up
<1> DEFINE T == {p \in Nat : p <= m => Sum(p, f) = Sum(k, Up(p))}
<1>8. 0 \in T
  <2>1. \A j \in 0 .. k - 1 : Up(0)[j] = 0
    BY <1>4, <1>6
  <2>2. Sum(k, Up(0)) = 0
    BY <2>1, SumZero
  <2> QED
    BY <1>3, <2>2
<1>9. ASSUME NEW p \in T PROVE p + 1 \in T
  <2> SUFFICES ASSUME p + 1 <= m PROVE Sum(p + 1, f) = Sum(k, Up(p + 1))
    OBVIOUS
  <2>1. p \in Nat /\ p < m /\ p <= m /\ p \in 0 .. m - 1
    OBVIOUS
  <2>2. \A j \in 0 .. k - 1 : /\ F[p][j] \in Int /\ Up(p)[j] \in Int
                              /\ Up(p + 1)[j] = 1 * F[p][j] + Up(p)[j]
    <3> SUFFICES ASSUME NEW j \in 0 .. k - 1
                 PROVE  F[p][j] \in Int /\ Up(p)[j] \in Int /\ Up(p + 1)[j] = 1 * F[p][j] + Up(p)[j]
      OBVIOUS
    <3>1. F[p][j] \in Int /\ Sum(p, C(j)) \in Int /\ Sum(p + 1, C(j)) = Sum(p, C(j)) + F[p][j]
      BY <1>1, <1>4, <1>5, <2>1
    <3>2. Up(p)[j] = Sum(p, C(j)) /\ Up(p + 1)[j] = Sum(p + 1, C(j))
      BY <1>6, <2>1
    <3> QED
      BY <3>1, <3>2
  <2>3. /\ Sum(k, F[p]) \in Int /\ Sum(k, Up(p)) \in Int
        /\ Sum(k, Up(p + 1)) = 1 * Sum(k, F[p]) + Sum(k, Up(p))
    <3>1. 1 \in Int
      OBVIOUS
    <3>2. Linear(k, 1, F[p], Up(p), Up(p + 1))
      BY <2>2 DEF Linear
    <3> QED
      BY <3>1, <3>2, SumLinear
  <2>4. Sum(p, f) = Sum(k, Up(p)) /\ Sum(p + 1, f) = Sum(p, f) + f[p] /\ f[p] = Sum(k, F[p])
    BY <1>2, <1>3, <2>1
  <2> QED
    BY <2>3, <2>4
<1>10. m \in T
  <2>1. T \subseteq Nat
    OBVIOUS
  <2> HIDE DEF T
  <2> QED
    BY <1>8, <1>9, <2>1, AllNumbers
<1>11. Sum(k, g) = Sum(k, Up(m))
  <2>1. \A j \in 0 .. k - 1 : Up(m)[j] \in Int /\ g[j] = Up(m)[j]
    BY <1>4, <1>6, <1>7
  <2> QED
    BY <2>1, SumSame
<1> QED
  BY <1>3, <1>10, <1>11

\* The values after the first may be taken from the last down.
LEMMA SumReversed ==
  ASSUME NEW k \in Nat \ {0}, NEW f, NEW g, \A j \in 0 .. k - 1 : f[j] \in Int,
         g[0] = f[0], \A j \in 1 .. k - 1 : g[j] = f[k - j]
  PROVE  Sum(k, f) \in Int /\ Sum(k, g) = Sum(k, f)
<1>1. \A j \in Nat : j < k => f[j] \in Int /\ g[j] \in Int
  <2> SUFFICES ASSUME NEW j \in Nat, j < k PROVE f[j] \in Int /\ g[j] \in Int
    OBVIOUS
  <2>1. j = 0 \/ (j \in 1 .. k - 1 /\ k - j \in 0 .. k - 1)
    OBVIOUS
  <2>2. j \in 0 .. k - 1
    OBVIOUS
  <2> QED
    BY <2>1, <2>2
<1>2. /\ Sum(0, f) = 0 /\ \A m \in Nat : m < k => Sum(m + 1, f) = Sum(m, f) + f[m]
      /\ \A m \in Nat : m <= k => Sum(m, f) \in Int
  BY <1>1, SumSteps
<1>3. /\ Sum(0, g) = 0 /\ \A m \in Nat : m < k => Sum(m + 1, g) = Sum(m, g) + g[m]
      /\ \A m \in Nat : m <= k => Sum(m, g) \in Int
  BY <1>1, SumSteps
<1> DEFINE T == {m \in Nat : m < k => Sum(m + 1, g) = f[0] + (Sum(k, f) - Sum(k - m, f))}
<1>4. 0 \in T
  <2>1. Sum(0 + 1, g) = Sum(0, g) + g[0]
    BY <1>3
  <2>2. k - 0 = k /\ f[0] \in Int /\ Sum(k, f) \in Int
    BY <1>1, <1>2
  <2> QED
    BY <1>3, <2>1, <2>2
<1>5. ASSUME NEW m \in T PROVE m + 1 \in T
  <2> SUFFICES ASSUME m + 1 < k PROVE Sum((m + 1) + 1, g) = f[0] + (Sum(k, f) - Sum(k - (m + 1), f))
    OBVIOUS
  <2>1. m \in Nat /\ m < k /\ m + 1 \in Nat /\ m + 1 \in 1 .. k - 1
    OBVIOUS
  <2>2. Sum((m + 1) + 1, g) = Sum(m + 1, g) + g[m + 1]
    BY <1>3, <2>1
  <2>3. g[m + 1] = f[k - (m + 1)]
    BY <2>1
  <2>4. PICK p \in Nat : p = k - (m + 1)
    OBVIOUS
  <2>5. p + 1 = k - m /\ p < k /\ p <= k
    BY <2>4
  <2>6. Sum(p + 1, f) = Sum(p, f) + f[p] /\ Sum(p, f) \in Int /\ f[p] \in Int
    BY <1>1, <1>2, <2>5
  <2>7. Sum(m + 1, g) = f[0] + (Sum(k, f) - Sum(p + 1, f)) /\ f[0] \in Int /\ Sum(k, f) \in Int
    BY <1>1, <1>2, <2>1, <2>5
  <2> QED
    BY <2>2, <2>3, <2>4, <2>6, <2>7
<1>6. k - 1 \in T
  <2>1. T \subseteq Nat
    OBVIOUS
  <2> HIDE DEF T
  <2>2. T = Nat
    BY <1>4, <1>5, <2>1, AllNumbers
  <2> QED
    BY <2>2
<1>7. /\ k - 1 < k /\ k - 1 \in Nat /\ (k - 1) + 1 = k /\ k - (k - 1) = 1 /\ 0 + 1 = 1
      /\ 0 \in Nat /\ 0 < k /\ k <= k
  OBVIOUS
<1>8. Sum(k, g) = f[0] + (Sum(k, f) - Sum(1, f))
  BY <1>6, <1>7
<1>9. Sum(1, f) = f[0] /\ f[0] \in Int /\ Sum(k, f) \in Int
  <2>1. Sum(0 + 1, f) = Sum(0, f) + f[0]
    BY <1>2, <1>7
  <2> QED
    BY <1>1, <1>2, <1>7, <2>1
<1> QED
  BY <1>8, <1>9

(***************************************************************************)
(* Numbers that are next to each other modulo q.                           *)
(***************************************************************************)
Close(x, y, q, bound) == \E e, t \in Int : x - y = e + q * t /\ -bound <= e /\ e <= bound

\* A number is close to itself,
LEMMA CloseSame ==
  ASSUME NEW x \in Int, NEW q \in Int, NEW b \in Nat PROVE Close(x, x, q, b)
<1>1. x - x = 0 + q * 0 /\ -b <= 0 /\ 0 <= b /\ 0 \in Int
  OBVIOUS
<1> QED
  BY <1>1 DEF Close

\* sums of close numbers are close,
LEMMA CloseAdd ==
  ASSUME NEW x1 \in Int, NEW y1 \in Int, NEW x2 \in Int, NEW y2 \in Int, NEW q \in Int,
         NEW b1 \in Nat, NEW b2 \in Nat, Close(x1, y1, q, b1), Close(x2, y2, q, b2)
  PROVE  Close(x1 + x2, y1 + y2, q, b1 + b2)
<1>1. PICK e1 \in Int, t1 \in Int : x1 - y1 = e1 + q * t1 /\ -b1 <= e1 /\ e1 <= b1
  BY DEF Close
<1>2. PICK e2 \in Int, t2 \in Int : x2 - y2 = e2 + q * t2 /\ -b2 <= e2 /\ e2 <= b2
  BY DEF Close
<1>3. PICK u1 \in Int, u2 \in Int : u1 = q * t1 /\ u2 = q * t2
  OBVIOUS
<1>4. q * (t1 + t2) = u1 + u2
  BY <1>3, MultipleSplits
<1>5. (x1 + x2) - (y1 + y2) = (e1 + e2) + (u1 + u2)
  BY <1>1, <1>2, <1>3
<1>6. -(b1 + b2) <= e1 + e2 /\ e1 + e2 <= b1 + b2
  BY <1>1, <1>2
<1>7. e1 + e2 \in Int /\ t1 + t2 \in Int
  OBVIOUS
<1> QED
  BY <1>4, <1>5, <1>6, <1>7 DEF Close

\* times -1, and times a positive number
LEMMA CloseNegative ==
  ASSUME NEW x \in Int, NEW y \in Int, NEW q \in Int, NEW b \in Nat, Close(x, y, q, b)
  PROVE  Close(-x, -y, q, b)
<1>1. PICK e \in Int, t \in Int : x - y = e + q * t /\ -b <= e /\ e <= b
  BY DEF Close
<1>2. PICK u \in Int : u = q * t
  OBVIOUS
<1>3. q * (-t) = -u
  BY <1>2
<1>4. (-x) - (-y) = (-e) + (-u) /\ -b <= -e /\ -e <= b /\ -e \in Int /\ -t \in Int
  BY <1>1, <1>2
<1> QED
  BY <1>3, <1>4 DEF Close

\* closeness is symmetric,
LEMMA CloseBack ==
  ASSUME NEW x \in Int, NEW y \in Int, NEW q \in Int, NEW b \in Nat, Close(x, y, q, b)
  PROVE  Close(y, x, q, b)
<1>1. Close(-x, -y, q, b)
  BY CloseNegative
<1>2. PICK e \in Int, t \in Int : (-x) - (-y) = e + q * t /\ -b <= e /\ e <= b
  BY <1>1 DEF Close
<1>3. (-x) - (-y) = y - x
  OBVIOUS
<1> QED
  BY <1>2, <1>3 DEF Close

\* differences of close numbers are close,
LEMMA CloseMinus ==
  ASSUME NEW x1 \in Int, NEW y1 \in Int, NEW x2 \in Int, NEW y2 \in Int, NEW q \in Int,
         NEW b1 \in Nat, NEW b2 \in Nat, Close(x1, y1, q, b1), Close(x2, y2, q, b2)
  PROVE  Close(x1 - x2, y1 - y2, q, b1 + b2)
<1>1. Close(-x2, -y2, q, b2) /\ -x2 \in Int /\ -y2 \in Int
  BY CloseNegative
<1>2. Close(x1 + (-x2), y1 + (-y2), q, b1 + b2)
  BY <1>1, CloseAdd
<1>3. x1 + (-x2) = x1 - x2 /\ y1 + (-y2) = y1 - y2
  OBVIOUS
<1> QED
  BY <1>2, <1>3

\* and so are multiples, modulo the multiple of the modulus.
LEMMA CloseTimes ==
  ASSUME NEW x \in Int, NEW y \in Int, NEW q \in Int, NEW b \in Nat, NEW c \in Nat,
         Close(x, y, q, b)
  PROVE  Close(x * c, y * c, q * c, b * c) /\ b * c \in Nat
<1>1. PICK e \in Int, t \in Int : x - y = e + q * t /\ -b <= e /\ e <= b
  BY DEF Close
<1>2. x * c - y * c = e * c + (q * c) * t
  <2>1. x * c - y * c = (x - y) * c
    BY SMT
  <2>2. (x - y) * c = (e + q * t) * c
    BY <1>1
  <2>3. \A u \in Int : (e + u) * c = e * c + u * c
    BY SMT
  <2>4. q * t \in Int /\ (q * t) * c = (q * c) * t
    BY SMT
  <2> QED
    BY <2>1, <2>2, <2>3, <2>4
<1>3. \A u, w \in Int : u <= w => u * c <= w * c
  BY SMT
<1>4. e * c <= b * c /\ (-b) * c <= e * c /\ (-b) * c = -(b * c) /\ b * c \in Nat /\ e * c \in Int
  <2>1. (-b) * c = -(b * c) /\ b * c \in Nat /\ e * c \in Int
    BY SMT
  <2> QED
    BY <1>1, <1>3, <2>1
<1> QED
  BY <1>2, <1>4 DEF Close

\* next to next to
LEMMA CloseThrough ==
  ASSUME NEW x \in Int, NEW y \in Int, NEW z \in Int, NEW q \in Int, NEW b1 \in Nat, NEW b2 \in Nat,
         Close(x, y, q, b1), Close(y, z, q, b2)
  PROVE  Close(x, z, q, b1 + b2)
<1>1. Close(x + y, y + z, q, b1 + b2) /\ x + y \in Int /\ y + z \in Int
  BY CloseAdd
<1>2. PICK e \in Int, t \in Int :
        (x + y) - (y + z) = e + q * t /\ -(b1 + b2) <= e /\ e <= b1 + b2
  BY <1>1 DEF Close
<1>3. (x + y) - (y + z) = x - z
  OBVIOUS
<1> QED
  BY <1>2, <1>3 DEF Close

\* by a factor of at most c, within one
LEMMA CloseProduct ==
  ASSUME NEW x \in Int, NEW y \in Int, NEW q \in Int, NEW c \in Nat, NEW d \in Int,
         -c <= d, d <= c, Close(x, y, q, 1)
  PROVE  Close(d * x, d * y, q, c)
<1>1. PICK e \in Int, t \in Int : x - y = e + q * t /\ -1 <= e /\ e <= 1
  BY DEF Close
<1>2. d * x - d * y = d * e + q * (d * t)
  <2>1. d * x - d * y = d * (x - y)
    BY SMT
  <2>2. \A u \in Int : d * (e + u) = d * e + d * u
    BY SMT
  <2>3. q * t \in Int /\ d * (q * t) = q * (d * t)
    BY SMT
  <2> QED
    BY <1>1, <2>1, <2>2, <2>3
<1>3. (e = 0 \/ e = 1 \/ e = -1) /\ d * 0 = 0 /\ d * 1 = d /\ d * (-1) = -d
  BY <1>1
<1>4. -c <= d * e /\ d * e <= c /\ d * e \in Int /\ d * t \in Int
  <2>1. CASE e = 0
    BY <1>3, <2>1
  <2>2. CASE e = 1
    BY <1>3, <2>2
  <2>3. CASE e = -1
    BY <1>3, <2>3
  <2> QED
    BY <1>3, <2>1, <2>2, <2>3
<1> QED
  BY <1>2, <1>4 DEF Close

\* Reduction keeps a number modulo q.
LEMMA CentreClose ==
  ASSUME NEW x \in Int, NEW q \in Nat \ {0}
  PROVE  Centre(x, q) \in Int /\ Close(Centre(x, q), x, q, 0)
<1>1. Centre(x, q) \in Int /\ \E t \in Int : Centre(x, q) = x + q * t
  BY CentreIs
<1>2. PICK t \in Int : Centre(x, q) = x + q * t
  BY <1>1
<1>3. PICK u \in Int : u = q * t
  OBVIOUS
<1>4. Centre(x, q) - x = 0 + q * t /\ -0 <= 0 /\ 0 <= 0 /\ 0 \in Int
  BY <1>2, <1>3
<1> QED
  BY <1>1, <1>4 DEF Close

\* Closeness is what the properties call near.
LEMMA CloseNear ==
  ASSUME NEW x \in Int, NEW y \in Int, NEW q \in Nat \ {0}, NEW b \in Nat, Close(x, y, q, b)
  PROVE  Near(x, y, q, b)
<1>1. PICK e \in Int, t \in Int : x - y = e + q * t /\ -b <= e /\ e <= b
  BY DEF Close
<1>2. Centre(e + q * t, q) \in -b .. b
  BY <1>1, CentreLeast
<1> QED
  BY <1>1, <1>2 DEF Near

\* Sums of numbers next to each other are off by the sum of the bounds.
AllClose(k, f, g, q, b) ==
  \A j \in 0 .. k - 1 : f[j] \in Int /\ g[j] \in Int /\ b[j] \in Nat /\ Close(f[j], g[j], q, b[j])

\* Sums of values that are close each.
LEMMA SumClose ==
  ASSUME NEW k \in Nat, NEW f, NEW g, NEW q \in Int, NEW b, AllClose(k, f, g, q, b)
  PROVE  /\ Sum(k, f) \in Int /\ Sum(k, g) \in Int /\ Sum(k, b) \in Nat
         /\ Close(Sum(k, f), Sum(k, g), q, Sum(k, b))
<1>1. \A j \in Nat : j < k => f[j] \in Int /\ g[j] \in Int /\ b[j] \in Int /\ b[j] \in Nat
  BY DEF AllClose
<1>2. /\ Sum(0, f) = 0 /\ \A m \in Nat : m < k => Sum(m + 1, f) = Sum(m, f) + f[m]
      /\ \A m \in Nat : m <= k => Sum(m, f) \in Int
  BY <1>1, SumSteps
<1>3. /\ Sum(0, g) = 0 /\ \A m \in Nat : m < k => Sum(m + 1, g) = Sum(m, g) + g[m]
      /\ \A m \in Nat : m <= k => Sum(m, g) \in Int
  BY <1>1, SumSteps
<1>4. /\ Sum(0, b) = 0 /\ \A m \in Nat : m < k => Sum(m + 1, b) = Sum(m, b) + b[m]
  BY <1>1, SumSteps
<1> DEFINE T == {m \in Nat : m <= k => Sum(m, b) \in Nat /\ Close(Sum(m, f), Sum(m, g), q, Sum(m, b))}
<1>5. 0 \in T
  <2>1. Close(0, 0, q, 0)
    BY CloseSame
  <2> QED
    BY <1>2, <1>3, <1>4, <2>1
<1>6. ASSUME NEW m \in T PROVE m + 1 \in T
  <2> SUFFICES ASSUME m + 1 <= k
               PROVE  Sum(m + 1, b) \in Nat /\ Close(Sum(m + 1, f), Sum(m + 1, g), q, Sum(m + 1, b))
    OBVIOUS
  <2>1. m \in Nat /\ m < k /\ m <= k /\ m \in 0 .. k - 1
    OBVIOUS
  <2>2. PICK F \in Int, G \in Int, B1 \in Nat, p \in Int, r \in Int, c \in Nat :
          /\ F = Sum(m, f) /\ G = Sum(m, g) /\ B1 = Sum(m, b)
          /\ p = f[m] /\ r = g[m] /\ c = b[m]
    BY <1>1, <1>2, <1>3, <2>1
  <2>3. Close(F, G, q, B1) /\ Close(p, r, q, c)
    BY <2>1, <2>2 DEF AllClose
  <2>4. Close(F + p, G + r, q, B1 + c) /\ B1 + c \in Nat
    BY <2>3, CloseAdd
  <2>5. Sum(m + 1, f) = F + p /\ Sum(m + 1, g) = G + r /\ Sum(m + 1, b) = B1 + c
    BY <1>2, <1>3, <1>4, <2>1, <2>2
  <2> QED
    BY <2>4, <2>5
<1>7. k \in T
  <2>1. T \subseteq Nat
    OBVIOUS
  <2> HIDE DEF T
  <2> QED
    BY <1>5, <1>6, <2>1, AllNumbers
<1> QED
  BY <1>2, <1>3, <1>7

(***************************************************************************)
(* A rescaling rounds to the nearest: it is off by half a unit at most.    *)
(***************************************************************************)
LEMMA SwitchedNear ==
  ASSUME NEW x \in Int, NEW new \in Nat \ {0}, NEW old \in Nat \ {0}, NEW scale \in Nat \ {0},
         old = scale * new
  PROVE  /\ old \div new = scale /\ Switched(x, new, old) \in Int
         /\ Close(Switched(x, new, old) * scale, x, old, scale \div 2)
<1> DEFINE Nearest(y) == (y + scale \div 2) \div scale
           half == scale \div 2
           r == IF x >= 0 THEN Nearest(x) ELSE -Nearest(-x)
<1>1. old >= new /\ old \div new = scale
  <2>1. old >= new
    BY SMT
  <2>2. (scale * new) \div new = scale
    BY SMT
  <2> QED
    BY <2>1, <2>2
<1>2. half \in Nat /\ (scale = 2 * half \/ scale = 2 * half + 1)
  OBVIOUS
<1>3. ASSUME NEW y \in Nat
      PROVE  Nearest(y) \in Int /\ scale * Nearest(y) - y \in -half .. half
  <2>1. PICK q \in Int, z \in 0 .. scale - 1 : q = Nearest(y) /\ y + half = scale * q + z
    BY <1>2, DivMod
  <2>2. PICK w \in Int : w = scale * q
    OBVIOUS
  <2>3. w - y \in -half .. half
    BY <1>2, <2>1, <2>2
  <2> QED
    BY <2>1, <2>2, <2>3
<1>4. r \in Int /\ scale * r - x \in -half .. half
  <2>1. CASE x >= 0
    BY <1>3, <2>1
  <2>2. CASE ~(x >= 0)
    <3>1. PICK q \in Int : q = Nearest(-x) /\ scale * q + x \in -half .. half
      <4>1. -x \in Nat
        BY <2>2
      <4> QED
        BY <1>3, <4>1
    <3>2. scale * (-q) = -(scale * q) /\ scale * q \in Int
      BY SMT
    <3>3. r = -q
      BY <2>2, <3>1
    <3> QED
      BY <1>2, <3>1, <3>2, <3>3
  <2> QED
    BY <2>1, <2>2
<1>5. Switched(x, new, old) = Centre(r, new)
  BY <1>1 DEF Switched
<1> HIDE DEF r, Nearest, half
<1>6. Centre(r, new) \in Int /\ \E t \in Int : Centre(r, new) = r + new * t
  BY <1>4, CentreIs
<1>7. PICK t \in Int : Centre(r, new) = r + new * t
  BY <1>6
<1>8. (r + new * t) * scale = scale * r + old * t
  <2>1. \A a, b, c, d \in Int : (a + b * c) * d = d * a + (d * b) * c
    BY SMT
  <2> QED
    BY <1>4, <2>1
<1>9. PICK e \in -half .. half : e = scale * r - x
  BY <1>4
<1>10. (r + new * t) * scale - x = e + old * t
  <2>1. scale * r \in Int /\ old * t \in Int
    BY <1>4
  <2> QED
    BY <1>8, <1>9, <2>1
<1>11. e \in Int /\ -half <= e /\ e <= half
  BY <1>2, <1>9
<1> QED
  BY <1>1, <1>5, <1>6, <1>7, <1>10, <1>11 DEF half, Close

(***************************************************************************)
(* Products with a key of bits.                                            *)
(***************************************************************************)
LEMMA DotTyped ==
  ASSUME NEW k \in Nat, NEW a, NEW z, \A j \in 0 .. k - 1 : a[j] \in Int /\ z[j] \in Int
  PROVE  Dot(a, z, k) \in Int
<1> DEFINE f == [j \in 0 .. k - 1 |-> a[j] * z[j]]
<1>1. \A j \in 0 .. k - 1 : f[j] \in Int /\ f[j] = f[j]
  OBVIOUS
<1>2. Dot(a, z, k) = Sum(k, f)
  BY DEF Dot
<1> HIDE DEF f
<1>3. Sum(k, f) \in Int
  BY <1>1, SumSame
<1> QED
  BY <1>2, <1>3

\* A product of numbers with bits keeps their bounds: it is off by as many as
\* there are bits that are set.
LEMMA DotClose ==
  ASSUME NEW k \in Nat, NEW a, NEW c, NEW z \in [0 .. k - 1 -> {0, 1}], NEW q \in Int,
         NEW b \in Nat,
         \A j \in 0 .. k - 1 : a[j] \in Int /\ c[j] \in Int /\ Close(a[j], c[j], q, b)
  PROVE  /\ Dot(a, z, k) \in Int /\ Dot(c, z, k) \in Int /\ Sum(k, z) \in Nat
         /\ Close(Dot(a, z, k), Dot(c, z, k), q, Sum(k, z) * b)
<1> DEFINE f == [j \in 0 .. k - 1 |-> a[j] * z[j]]
           g == [j \in 0 .. k - 1 |-> c[j] * z[j]]
           h == [j \in 0 .. k - 1 |-> b * z[j]]
<1>1. Dot(a, z, k) = Sum(k, f) /\ Dot(c, z, k) = Sum(k, g)
  BY DEF Dot
<1>2. AllClose(k, f, g, q, h)
  <2> SUFFICES ASSUME NEW j \in 0 .. k - 1
               PROVE  /\ f[j] \in Int /\ g[j] \in Int /\ h[j] \in Nat
                      /\ Close(f[j], g[j], q, h[j])
    BY DEF AllClose
  <2>1. f[j] = a[j] * z[j] /\ g[j] = c[j] * z[j] /\ h[j] = b * z[j]
    OBVIOUS
  <2>2. a[j] \in Int /\ c[j] \in Int /\ Close(a[j], c[j], q, b) /\ z[j] \in {0, 1}
    OBVIOUS
  <2> HIDE DEF f, g, h
  <2>3. CASE z[j] = 0
    <3>1. f[j] = 0 /\ g[j] = 0 /\ h[j] = 0
      BY <2>1, <2>2, <2>3
    <3>2. Close(0, 0, q, 0)
      BY CloseSame
    <3> QED
      BY <3>1, <3>2
  <2>4. CASE z[j] = 1
    <3>1. f[j] = a[j] /\ g[j] = c[j] /\ h[j] = b
      BY <2>1, <2>2, <2>4
    <3> QED
      BY <2>2, <3>1
  <2> QED
    BY <2>2, <2>3, <2>4
<1>3. Scales(k, b, z, h)
  BY DEF Scales
<1> HIDE DEF f, g, h
<1>4. Sum(k, z) \in Int /\ Sum(k, h) = b * Sum(k, z)
  BY <1>3, SumScaled
<1>5. /\ Sum(k, f) \in Int /\ Sum(k, g) \in Int /\ Sum(k, h) \in Nat
      /\ Close(Sum(k, f), Sum(k, g), q, Sum(k, h))
  BY <1>2, SumClose
<1>6. Sum(k, z) \in Nat
  <2> DEFINE zero == [j \in 0 .. k - 1 |-> 0]
  <2>1. AllClose(k, zero, zero, 1, z)
    <3>1. \A j \in 0 .. k - 1 : zero[j] = 0 /\ z[j] \in Nat
      <4>1. \A j \in 0 .. k - 1 : zero[j] = 0
        BY Zenon
      <4>2. \A j \in 0 .. k - 1 : z[j] \in {0, 1}
        BY Zenon
      <4> HIDE DEF zero
      <4> QED
        BY <4>1, <4>2
    <3> HIDE DEF zero
    <3>2. \A w \in Nat : Close(0, 0, 1, w)
      BY CloseSame
    <3> QED
      BY <3>1, <3>2 DEF AllClose
  <2> HIDE DEF zero
  <2> QED
    BY <2>1, SumClose
<1>7. b * Sum(k, z) = Sum(k, z) * b
  BY <1>6
<1> QED
  BY <1>1, <1>4, <1>5, <1>6, <1>7

(***************************************************************************)
(* Samples of numbers.                                                     *)
(***************************************************************************)
DrawsNumbers == \A tag, j \in Int : Draw(tag, j) \in Int

\* a sample of k components, and the rows of the switching key of z
Lwe(x, k) == /\ x.n = k /\ DOMAIN x = {"n", "a", "b"}
             /\ x.a \in [0 .. k - 1 -> Int] /\ x.b \in Int

\* Noise is within one unit.
LEMMA NoiseIs == ASSUME DrawsNumbers, NEW tag \in Int, NEW j \in Int PROVE Noise(tag, j) \in -1 .. 1
<1>1. Draw(tag, j) \in Int
  BY DEF DrawsNumbers
<1> QED
  BY <1>1 DEF Noise

\* An encryption holds the message up to its noise.
LEMMA EncLweIs ==
  ASSUME DrawsNumbers, NEW tag \in Int, NEW mu \in Int, NEW k \in Nat,
         NEW z \in [0 .. k - 1 -> {0, 1}]
  PROVE  LET x == EncLwe(tag, mu, z, k)
         IN  Lwe(x, k) /\ Dot(x.a, z, k) \in Int /\ Close(x.b - Dot(x.a, z, k), mu, LweQ, 1)
<1> DEFINE a == [j \in 0 .. k - 1 |-> Centre(Draw(tag, j + 1), LweQ)]
<1>1. LweQ \in Nat \ {0}
  BY AlgebraAssumption
<1>2. a \in [0 .. k - 1 -> Int]
  <2>1. ASSUME NEW j \in 0 .. k - 1 PROVE Centre(Draw(tag, j + 1), LweQ) \in Int
    <3>1. Draw(tag, j + 1) \in Int
      BY DEF DrawsNumbers
    <3> QED
      BY <1>1, <3>1, CentreIs
  <2> QED
    BY <2>1
<1> DEFINE b == Centre(mu + Noise(tag, 0) + Dot(a, z, k), LweQ)
<1>3. EncLwe(tag, mu, z, k) = [n |-> k, a |-> a, b |-> b]
  BY DEF EncLwe
<1> HIDE DEF a
<1>4. Dot(a, z, k) \in Int
  <2>1. \A j \in 0 .. k - 1 : a[j] \in Int /\ z[j] \in Int
    BY <1>2
  <2> QED
    BY <2>1, DotTyped
<1>5. PICK e \in -1 .. 1, d \in Int : e = Noise(tag, 0) /\ d = Dot(a, z, k)
  BY <1>4, NoiseIs
<1>6. b \in Int /\ \E t \in Int : b = (mu + e + d) + LweQ * t
  <2>1. mu + e + d \in Int
    OBVIOUS
  <2> QED
    BY <1>1, <1>5, <2>1, CentreIs
<1> HIDE DEF b
<1>7. PICK t \in Int : b = (mu + e + d) + LweQ * t
  BY <1>6
<1>8. PICK u \in Int : u = LweQ * t
  BY <1>1
<1>9. (b - d) - mu = e + u /\ -1 <= e /\ e <= 1 /\ e \in Int
  <2>1. b = (mu + e + d) + u
    BY <1>7, <1>8, Zenon
  <2> QED
    BY <1>6, <2>1
<1>10. Close(b - d, mu, LweQ, 1)
  BY <1>8, <1>9 DEF Close
<1> QED
  BY <1>2, <1>3, <1>4, <1>5, <1>6, <1>10 DEF Lwe

(***************************************************************************)
(* Rescaling.                                                              *)
(***************************************************************************)
Scale == LweQ \div (2 * N)

\* An LWE unit is a part of a unit of 2N, and the modulus a multiple of 2N.
LEMMA ScaleIs == Scale \in Nat \ {0} /\ LweQ = Scale * (2 * N) /\ 2 * N \in Nat \ {0}
<1>1. N \in Nat \ {0} /\ LweQ \in Nat \ {0} /\ LweQ % (2 * N) = 0
  BY AlgebraAssumption
<1>2. PICK p \in Nat \ {0} : p = 2 * N
  BY <1>1
<1>3. LweQ \div p \in Int /\ LweQ = p * (LweQ \div p) + 0 /\ LweQ \div p \in Nat
  <2>1. LweQ \div p \in Int /\ LweQ = p * (LweQ \div p) + (LweQ % p)
    <3>1. LweQ \in Int /\ p \in Nat \ {0}
      BY <1>1
    <3> QED
      BY <3>1, DivMod, Zenon
  <2>2. LweQ % p = 0
    BY <1>1, <1>2
  <2>3. LweQ \div p >= 0
    BY <1>1, <1>2, SMT
  <2> QED
    BY <2>1, <2>2, <2>3
<1>4. PICK q \in Nat : q = LweQ \div p
  BY <1>3
<1>5. LweQ = p * q /\ q # 0 /\ p * q = q * p
  BY <1>1, <1>3, <1>4
<1> QED
  BY <1>2, <1>4, <1>5 DEF Scale

\* A number rescaled to 2N, times the scale, is next to what it was.
LEMMA RescaledNear ==
  ASSUME NEW x \in Int
  PROVE  /\ Switched(x, 2 * N, LweQ) \in Int
         /\ Close(Switched(x, 2 * N, LweQ) * Scale, x, LweQ, Scale \div 2)
<1>1. PICK new \in Nat \ {0}, old \in Nat \ {0}, scale \in Nat \ {0} :
        new = 2 * N /\ old = LweQ /\ scale = Scale
  BY ScaleIs, AlgebraAssumption
<1>2. old = scale * new
  BY <1>1, ScaleIs
<1>3. Switched(x, new, old) \in Int /\ Close(Switched(x, new, old) * scale, x, old, scale \div 2)
  BY <1>2, SwitchedNear
<1> QED
  BY <1>1, <1>3

\* Scaling a product scales its numbers.
LEMMA DotScaled ==
  ASSUME NEW k \in Nat, NEW a, NEW c, NEW z, NEW x \in Int,
         Scales(k, x, a, c), \A j \in 0 .. k - 1 : z[j] \in Int
  PROVE  Dot(a, z, k) \in Int /\ Dot(c, z, k) = Dot(a, z, k) * x
<1> DEFINE f == [j \in 0 .. k - 1 |-> a[j] * z[j]]
           g == [j \in 0 .. k - 1 |-> c[j] * z[j]]
<1>1. Dot(a, z, k) = Sum(k, f) /\ Dot(c, z, k) = Sum(k, g)
  BY DEF Dot
<1>2. Scales(k, x, f, g)
  <2> SUFFICES ASSUME NEW j \in 0 .. k - 1 PROVE f[j] \in Int /\ g[j] = x * f[j]
    BY DEF Scales
  <2>1. PICK o \in Int, w \in Int : o = a[j] /\ w = z[j] /\ c[j] = x * o
    BY DEF Scales
  <2>2. f[j] = o * w /\ g[j] = (x * o) * w
    BY <2>1
  <2>3. (x * o) * w = x * (o * w) /\ o * w \in Int
    BY SMT
  <2> QED
    BY <2>2, <2>3
<1> HIDE DEF f, g
<1>3. Sum(k, f) \in Int /\ Sum(k, g) = x * Sum(k, f)
  BY <1>2, SumScaled
<1>4. x * Sum(k, f) = Sum(k, f) * x
  BY <1>3
<1> QED
  BY <1>1, <1>3, <1>4

\* What scale-fold values stay close to, so do their differences from a product
\* with bits.
Rounded(k, r, x, q, scale, half) ==
  \A j \in 0 .. k - 1 : r[j] \in Int /\ x[j] \in Int /\ Close(r[j] * scale, x[j], q, half)

\* Such values give a phase close to that of the values they round.
LEMMA RoundedPhase ==
  ASSUME NEW k \in Nat, NEW r, NEW x, NEW z \in [0 .. k - 1 -> {0, 1}], NEW q \in Int,
         NEW scale \in Nat \ {0}, NEW half \in Nat, NEW b \in Int, NEW o \in Int,
         Rounded(k, r, x, q, scale, half), Close(b * scale, o, q, half)
  PROVE  /\ Dot(r, z, k) \in Int /\ Dot(x, z, k) \in Int /\ Sum(k, z) \in Nat
         /\ (1 + Sum(k, z)) * half \in Nat /\ (b - Dot(r, z, k)) * scale \in Int
         /\ Close((b - Dot(r, z, k)) * scale, o - Dot(x, z, k), q, (1 + Sum(k, z)) * half)
<1> DEFINE c == [j \in 0 .. k - 1 |-> r[j] * scale]
<1>3. \A j \in 0 .. k - 1 : /\ r[j] \in Int /\ z[j] \in Int /\ x[j] \in Int
                            /\ c[j] \in Int /\ c[j] = r[j] * scale /\ Close(c[j], x[j], q, half)
  <2> SUFFICES ASSUME NEW j \in 0 .. k - 1
               PROVE  /\ r[j] \in Int /\ z[j] \in Int /\ x[j] \in Int
                      /\ r[j] * scale \in Int /\ Close(r[j] * scale, x[j], q, half)
    OBVIOUS
  <2>1. r[j] \in Int /\ x[j] \in Int /\ Close(r[j] * scale, x[j], q, half)
    BY DEF Rounded
  <2>2. r[j] * scale \in Int /\ z[j] \in Int
    BY <2>1
  <2> QED
    BY <2>1, <2>2
<1> HIDE DEF c
<1>4. /\ Dot(c, z, k) \in Int /\ Dot(x, z, k) \in Int /\ Sum(k, z) \in Nat
      /\ Close(Dot(c, z, k), Dot(x, z, k), q, Sum(k, z) * half)
  BY <1>3, DotClose
<1>5. Dot(r, z, k) \in Int /\ Dot(c, z, k) = Dot(r, z, k) * scale
  <2>1. scale \in Int
    OBVIOUS
  <2>2. Scales(k, scale, r, c)
    <3> SUFFICES ASSUME NEW j \in 0 .. k - 1 PROVE r[j] \in Int /\ c[j] = scale * r[j]
      BY DEF Scales
    <3>1. PICK e \in Int : e = r[j] /\ c[j] = e * scale
      BY <1>3
    <3>2. e * scale = scale * e
      BY SMT
    <3> QED
      BY <3>1, <3>2
  <2>3. \A j \in 0 .. k - 1 : z[j] \in Int
    BY <1>3
  <2>4. ASSUME NEW a, NEW w \in Int, Scales(k, w, a, c)
        PROVE  Dot(a, z, k) \in Int /\ Dot(c, z, k) = Dot(a, z, k) * w
    BY <2>3, <2>4, DotScaled
  <2> QED
    BY <2>1, <2>2, <2>4
<1>7. PICK d \in Int, e \in Int, w \in Nat, t \in Int, u \in Int :
        /\ d = Dot(r, z, k) /\ e = Dot(x, z, k) /\ w = Sum(k, z)
        /\ t = d * scale /\ u = b * scale
  <2>1. \A y \in Int : y * scale \in Int
    BY SMT
  <2>2. Dot(r, z, k) * scale \in Int /\ b * scale \in Int
    BY <1>5, <2>1
  <2> QED
    BY <1>4, <1>5, <2>2
<1>8. w * half \in Nat /\ (1 + w) * half = half + w * half /\ (1 + w) * half \in Nat
  BY SMT
<1>9. Close(u - t, o - e, q, half + w * half)
  <2>1. Close(u, o, q, half) /\ Close(t, e, q, w * half)
    BY <1>4, <1>5, <1>7
  <2> QED
    BY <1>8, <2>1, CloseMinus
<1>10. (b - d) * scale = u - t
  BY <1>7, SMT
<1> QED
  <2>1. u - t \in Int
    OBVIOUS
  <2> QED
    BY <1>4, <1>5, <1>7, <1>8, <1>9, <1>10, <2>1

\* Reduction keeps what is close.
LEMMA CentreKeeps ==
  ASSUME NEW x \in Int, NEW y \in Int, NEW q \in Nat \ {0}, NEW b \in Nat, Close(x, y, q, b)
  PROVE  Centre(y, q) \in Int /\ Close(x, Centre(y, q), q, b)
<1>1. PICK f \in Int : f = Centre(y, q) /\ Close(f, y, q, 0)
  BY CentreClose
<1>2. Close(y, f, q, 0) /\ q \in Int /\ 0 \in Nat
  <2>1. q \in Int /\ 0 \in Nat
    OBVIOUS
  <2> QED
    BY <1>1, <2>1, CloseBack
<1>3. Close(x, f, q, b + 0) /\ b + 0 = b
  BY <1>2, CloseThrough
<1> QED
  BY <1>1, <1>3

\* The rescaled sample, times the scale, has the phase of the sample.
LEMMA RescaledPhase ==
  ASSUME NEW k \in Nat, NEW x, Lwe(x, k), NEW z \in [0 .. k - 1 -> {0, 1}]
  PROVE  LET r == Rescaled(x)
         IN  Near((r.b - Dot(r.a, z, k)) * Scale, LwePhase(x, z), LweQ,
                  (1 + Sum(k, z)) * (Scale \div 2))
<1> DEFINE r == Rescaled(x)
<1>1. PICK scale \in Nat \ {0}, q \in Nat \ {0}, half \in Nat :
        scale = Scale /\ q = LweQ /\ half = Scale \div 2
  BY ScaleIs, AlgebraAssumption
<1>2. /\ r.a = [j \in 0 .. k - 1 |-> Switched(x.a[j], 2 * N, LweQ)]
      /\ r.b = Switched(x.b, 2 * N, LweQ)
      /\ x.a \in [0 .. k - 1 -> Int] /\ x.b \in Int
  BY DEF Rescaled, Lwe
<1>3. \A o \in Int : LET y == Switched(o, 2 * N, LweQ)
                     IN  y \in Int /\ Close(y * scale, o, q, half)
  BY <1>1, RescaledNear
<1> HIDE DEF r
<1>4. Rounded(k, r.a, x.a, q, scale, half)
  <2> SUFFICES ASSUME NEW j \in 0 .. k - 1
               PROVE  /\ r.a[j] \in Int /\ x.a[j] \in Int /\ Close(r.a[j] * scale, x.a[j], q, half)
    BY DEF Rounded
  <2>1. x.a[j] \in Int /\ r.a[j] = Switched(x.a[j], 2 * N, LweQ)
    BY <1>2
  <2> QED
    BY <1>3, <2>1
<1>5. PICK b \in Int, o \in Int : b = r.b /\ o = x.b /\ Close(b * scale, o, q, half)
  BY <1>2, <1>3
<1>6. PICK d \in Int, e \in Int, f \in Int, bound \in Nat :
        /\ d = Dot(x.a, z, k) /\ f = o - d /\ e = (b - Dot(r.a, z, k)) * scale
        /\ bound = (1 + Sum(k, z)) * half /\ Close(e, f, q, bound)
  <2>1. q \in Int
    OBVIOUS
  <2>2. /\ Dot(x.a, z, k) \in Int /\ (1 + Sum(k, z)) * half \in Nat
        /\ (b - Dot(r.a, z, k)) * scale \in Int
        /\ Close((b - Dot(r.a, z, k)) * scale, o - Dot(x.a, z, k), q, (1 + Sum(k, z)) * half)
    BY <1>4, <1>5, <2>1, RoundedPhase
  <2>3. o - Dot(x.a, z, k) \in Int
    BY <2>2
  <2> QED
    BY <2>2, <2>3
<1>7. PICK y \in Int : y = LwePhase(x, z) /\ Close(e, y, q, bound)
  <2>1. LwePhase(x, z) = Centre(f, q)
    BY <1>1, <1>5, <1>6 DEF LwePhase, Lwe
  <2> QED
    BY <1>6, <2>1, CentreKeeps
<1>8. Near(e, y, q, bound)
  BY <1>7, CloseNear
<1> QED
  BY <1>1, <1>5, <1>6, <1>7, <1>8 DEF r

(***************************************************************************)
(* The gadget decomposition, for a radix of 2 * h and any weights: the     *)
(* recursion of Digits has a solution, digits are small, and put together  *)
(* they give the number up to half of the last weight.                     *)
(***************************************************************************)
Carry(h, d, tie) == IF d > h \/ (d = h /\ tie) THEN 1 ELSE 0
Tie(h, W, m, o) == o > 0 /\ (m \div (h * W[o - 1])) % 2 = 1

Carried(h, W, k, m, g, o) ==
  IF o = k THEN 0
  ELSE ((m \div W[o]) % (2 * h)) + (IF o = k - 1 THEN 0 ELSE Carry(h, g[o + 1], Tie(h, W, m, o + 1)))

Filled(h, W, k, m) == CHOOSE g : g = [o \in 0 .. k |-> Carried(h, W, k, m, g, o)]

Width(h, W) == 2 * h * W[0]
Negates(h, W, u) == u % Width(h, W) >= h * W[0]
Entered(h, W, k, u) ==
  (IF Negates(h, W, u) THEN Width(h, W) - (u % Width(h, W)) ELSE u % Width(h, W)) + W[k - 1] \div 2

\* a digit of a magnitude, and the digits of a number
Digit(h, W, k, m, o) ==
  Filled(h, W, k, m)[o] - Carry(h, Filled(h, W, k, m)[o], Tie(h, W, m, o)) * (2 * h)
DigitsOf(h, W, k, u) ==
  [o \in 0 .. k - 1 |-> (IF Negates(h, W, u) THEN -1 ELSE 1) * Digit(h, W, k, Entered(h, W, k, u), o)]

\* The recursion ends: it has a solution on the last windows, however many.
LEMMA FilledIs ==
  ASSUME NEW h, NEW W, NEW k \in Nat, NEW m
  PROVE  \A o \in 0 .. k : Filled(h, W, k, m)[o] = Carried(h, W, k, m, Filled(h, W, k, m), o)
<1> DEFINE C(g, o) == Carried(h, W, k, m, g, o)
           Solves(g, d) == g = [o \in k - d .. k |-> C(g, o)]
           T == {d \in 0 .. k : ~\E g : Solves(g, d)}
<1>1. T = {}
  <2> SUFFICES ASSUME T # {} PROVE FALSE
    OBVIOUS
  <2>1. PICK d \in 0 .. k : (~\E g : Solves(g, d)) /\ \A e \in T : d <= e
    <3>1. T \subseteq Nat /\ \A e \in T : e \in 0 .. k /\ ~\E g : Solves(g, e)
      OBVIOUS
    <3> HIDE DEF T
    <3>2. PICK d \in T : \A e \in T : d <= e
      BY <3>1, Least
    <3> QED
      BY <3>1, <3>2
  <2>2. d # 0
    <3> SUFFICES ASSUME d = 0 PROVE FALSE
      OBVIOUS
    <3>1. [o \in k .. k |-> 0] = [o \in k .. k |-> C([p \in k .. k |-> 0], o)]
      BY DEF Carried
    <3>2. k - d = k
      OBVIOUS
    <3> QED
      BY <2>1, <3>1, <3>2
  <2>3. d - 1 \in 0 .. k /\ ~(d <= d - 1)
    BY <2>2
  <2>4. PICK g : Solves(g, d - 1)
    <3>1. d - 1 \notin T
      BY <2>1, <2>3
    <3> QED
      BY <2>3, <3>1
  <2> DEFINE w == [o \in k - d .. k |-> IF o = k - d THEN C(g, o) ELSE g[o]]
  <2>5. \A o \in k - d .. k : C(w, o) = C(g, o)
    <3> SUFFICES ASSUME NEW o \in k - d .. k, o # k, o # k - 1
                 PROVE  w[o + 1] = g[o + 1]
      BY DEF Carried
    <3> QED
      BY <2>3
  <2>6. \A o \in k - d .. k : o # k - d => g[o] = C(g, o)
    <3> SUFFICES ASSUME NEW o \in k - d .. k, o # k - d
                 PROVE  g[o] = C(g, o)
      OBVIOUS
    <3>1. o \in k - (d - 1) .. k
      BY <2>3
    <3> QED
      BY <2>4, <3>1
  <2>7. Solves(w, d)
    BY <2>5, <2>6
  <2> QED
    BY <2>1, <2>7
<1>2. k \in 0 .. k /\ k - k = 0
  OBVIOUS
<1>3. PICK g : Solves(g, k)
  BY <1>1, <1>2
<1>4. g = [o \in 0 .. k |-> C(g, o)]
  BY <1>2, <1>3
<1>5. Filled(h, W, k, m) = [o \in 0 .. k |-> C(Filled(h, W, k, m), o)]
  BY <1>4, Zenon DEF Filled
<1> QED
  BY <1>5

\* Digits are small.
LEMMA DigitBounds ==
  ASSUME NEW h \in Nat \ {0}, NEW W, NEW k \in Nat, \A j \in 0 .. k - 1 : W[j] \in Nat \ {0},
         NEW m \in Int
  PROVE  \A o \in 0 .. k - 1 : /\ Filled(h, W, k, m)[o] \in 0 .. 2 * h
                               /\ Digit(h, W, k, m, o) \in -h .. h
<1> SUFFICES ASSUME NEW o \in 0 .. k - 1
             PROVE  /\ Filled(h, W, k, m)[o] \in 0 .. 2 * h
                    /\ Digit(h, W, k, m, o) \in -h .. h
  OBVIOUS
<1>1. PICK g : g = Filled(h, W, k, m)
  OBVIOUS
<1>2. g[o] = Carried(h, W, k, m, g, o)
  <2>1. o \in 0 .. k
    OBVIOUS
  <2> QED
    BY <1>1, <2>1, FilledIs
<1>3. (m \div W[o]) % (2 * h) \in 0 .. 2 * h - 1
  <2>1. PICK p \in Int : p = m \div W[o]
    <3>1. W[o] \in Nat \ {0}
      OBVIOUS
    <3> QED
      BY <3>1, DivMod
  <2>2. 2 * h \in Nat \ {0}
    OBVIOUS
  <2>3. p % (2 * h) \in 0 .. 2 * h - 1
    BY <2>2
  <2> QED
    BY <2>1, <2>3
<1>4. \A d, tie : Carry(h, d, tie) \in {0, 1}
  BY DEF Carry
<1>5. g[o] \in 0 .. 2 * h
  <2>1. PICK w \in 0 .. 2 * h - 1 : w = (m \div W[o]) % (2 * h)
    BY <1>3
  <2>2. g[o] = w + (IF o = k - 1 THEN 0 ELSE Carry(h, g[o + 1], Tie(h, W, m, o + 1)))
    BY <1>2, <2>1 DEF Carried
  <2>3. CASE o = k - 1
    BY <2>2, <2>3
  <2>4. CASE o # k - 1
    <3>1. PICK c \in {0, 1} : c = Carry(h, g[o + 1], Tie(h, W, m, o + 1))
      BY <1>4
    <3>2. g[o] = w + c
      BY <2>2, <2>4, <3>1
    <3> QED
      BY <3>2
  <2> QED
    BY <2>3, <2>4
<1>6. Digit(h, W, k, m, o) \in -h .. h
  <2>1. PICK c \in {0, 1} : c = Carry(h, g[o], Tie(h, W, m, o))
    BY <1>4
  <2>2. (c = 1 => g[o] >= h) /\ (c = 0 => g[o] <= h)
    BY <1>5, <2>1 DEF Carry
  <2>3. Digit(h, W, k, m, o) = g[o] - c * (2 * h)
    BY <1>1, <2>1 DEF Digit
  <2>4. CASE c = 0
    BY <1>5, <2>2, <2>3, <2>4
  <2>5. CASE c = 1
    BY <1>5, <2>2, <2>3, <2>5
  <2> QED
    BY <2>4, <2>5
<1> QED
  BY <1>1, <1>5, <1>6

\* What enters the windows is a number.
LEMMA EnteredIs ==
  ASSUME NEW h \in Nat \ {0}, NEW W, NEW k \in Nat \ {0}, \A j \in 0 .. k - 1 : W[j] \in Nat \ {0},
         NEW u \in Int
  PROVE  /\ Width(h, W) \in Nat \ {0} /\ Entered(h, W, k, u) \in Int
         /\ u % Width(h, W) \in 0 .. Width(h, W) - 1
<1>1. PICK w \in Nat \ {0}, p \in Nat \ {0} : w = W[0] /\ p = W[k - 1]
  OBVIOUS
<1>2. 2 * h * w \in Nat \ {0}
  BY SMT
<1>3. PICK q \in Nat \ {0} : q = Width(h, W)
  BY <1>1, <1>2 DEF Width
<1>4. u % q \in 0 .. q - 1
  BY DivMod
<1>5. p \div 2 \in Int
  OBVIOUS
<1>6. PICK r \in 0 .. q - 1 : r = u % q
  BY <1>4
<1>7. Entered(h, W, k, u) = (IF Negates(h, W, u) THEN q - r ELSE r) + p \div 2
  BY <1>1, <1>3, <1>6 DEF Entered
<1>8. Entered(h, W, k, u) \in Int
  BY <1>5, <1>7
<1> QED
  BY <1>3, <1>4, <1>8

\* Digits have half of the radix at most.
LEMMA DigitsAre ==
  ASSUME NEW h \in Nat \ {0}, NEW W, NEW k \in Nat \ {0}, \A j \in 0 .. k - 1 : W[j] \in Nat \ {0},
         NEW u \in Int
  PROVE  DigitsOf(h, W, k, u) \in [0 .. k - 1 -> -h .. h]
<1>1. PICK m \in Int : m = Entered(h, W, k, u)
  BY EnteredIs
<1>2. ASSUME NEW o \in 0 .. k - 1
      PROVE  (IF Negates(h, W, u) THEN -1 ELSE 1) * Digit(h, W, k, m, o) \in -h .. h
  <2>1. PICK d \in -h .. h : d = Digit(h, W, k, m, o)
    BY DigitBounds
  <2> QED
    BY <2>1
<1> QED
  BY <1>1, <1>2 DEF DigitsOf

\* Two shifts are one.
LEMMA DivDiv ==
  ASSUME NEW m \in Int, NEW w \in Nat \ {0}, NEW b \in Nat \ {0}
  PROVE  (m \div w) \div b = m \div (b * w)
  BY SMT

\* What a window adds to the sum: its carry goes up, the one from below comes in.
Balances(d, x, b, e, c) == d = ((x % b) + e) - c * b
Weighs(d, w, x, b, e, c) == d * w = w * (x + e) - (b * w) * ((x \div b) + c)

\* Two neighbouring windows make one.
LEMMA WindowAdds ==
  ASSUME NEW x \in Int, NEW b \in Nat \ {0}, NEW w \in Int, NEW c \in Int, NEW e \in Int,
         NEW d, Balances(d, x, b, e, c)
  PROVE  Weighs(d, w, x, b, e, c)
<1>1. PICK y \in Int, r \in Int : y = x \div b /\ r = x % b /\ x = b * y + r
  <2>1. x \div b \in Int /\ x % b \in 0 .. b - 1 /\ x = b * (x \div b) + (x % b)
    BY DivMod
  <2>2. PICK y \in Int, r \in Int : y = x \div b /\ r = x % b
    BY <2>1
  <2>3. x = b * y + r
    BY <2>1, <2>2
  <2> QED
    BY <2>2, <2>3
<1>2. d = (r + e) - c * b
  BY <1>1 DEF Balances
<1>3. ((r + e) - c * b) * w = w * ((b * y + r) + e) - (b * w) * (y + c)
  BY SMT
<1> QED
  BY <1>1, <1>2, <1>3 DEF Weighs

Weights(h, W, k) == /\ \A j \in 0 .. k - 1 : W[j] \in Nat \ {0}
                    /\ \A j \in 1 .. k - 1 : W[j - 1] = (2 * h) * W[j]

CarryAt(h, W, k, m, o) ==
  IF o = k THEN 0 ELSE Carry(h, Filled(h, W, k, m)[o], Tie(h, W, m, o))

\* x is w times y up to a multiple of q.
Multiple(x, w, y, q) == \E t \in Int : x = w * y + q * t

\* What a digit stands for is its window with the carry in, less the carry out.
LEMMA DigitAdds ==
  ASSUME NEW h \in Nat \ {0}, NEW W, NEW k \in Nat \ {0}, Weights(h, W, k), NEW m \in Int,
         NEW o \in 0 .. k - 1
  PROVE  LET c == CarryAt(h, W, k, m, o)
             e == CarryAt(h, W, k, m, o + 1)
         IN  /\ c \in Int /\ e \in Int /\ m \div W[o] \in Int
             /\ Digit(h, W, k, m, o) * W[o]
                  = W[o] * ((m \div W[o]) + e) - ((2 * h) * W[o]) * (((m \div W[o]) \div (2 * h)) + c)
<1>1. PICK w \in Nat \ {0} : w = W[o]
  BY DEF Weights
<1>2. \A p : CarryAt(h, W, k, m, p) \in Int
  BY DEF CarryAt, Carry
<1>3. PICK c \in Int, e \in Int : c = CarryAt(h, W, k, m, o) /\ e = CarryAt(h, W, k, m, o + 1)
  BY <1>2
<1>4. PICK x \in Int : x = m \div w
  BY DivMod
<1>5. PICK b \in Nat \ {0} : b = 2 * h
  OBVIOUS
<1>6. PICK g : g = Filled(h, W, k, m)
  OBVIOUS
<1>7. g[o] = (x % b) + e
  <2>1. g[o] = Carried(h, W, k, m, g, o)
    <3>1. o \in 0 .. k
      OBVIOUS
    <3> QED
      BY <1>6, <3>1, FilledIs
  <2>2. o # k
    OBVIOUS
  <2>3. g[o] = (x % b) + (IF o = k - 1 THEN 0 ELSE Carry(h, g[o + 1], Tie(h, W, m, o + 1)))
    BY <1>1, <1>4, <1>5, <2>1, <2>2, Zenon DEF Carried
  <2>4. e = IF o = k - 1 THEN 0 ELSE Carry(h, g[o + 1], Tie(h, W, m, o + 1))
    <3>1. o + 1 = k <=> o = k - 1
      OBVIOUS
    <3> QED
      BY <1>3, <1>6, <3>1 DEF CarryAt
  <2> QED
    BY <2>3, <2>4
<1>8. c = Carry(h, g[o], Tie(h, W, m, o))
  <2>1. o # k
    OBVIOUS
  <2> QED
    BY <1>3, <1>6, <2>1 DEF CarryAt
<1>9. PICK d : d = Digit(h, W, k, m, o)
  OBVIOUS
<1>10. Balances(d, x, b, e, c)
  BY <1>5, <1>6, <1>7, <1>8, <1>9, Zenon DEF Digit, Balances
<1>11. d * w = w * (x + e) - (b * w) * ((x \div b) + c)
  <2>1. w \in Int
    OBVIOUS
  <2>2. Weighs(d, w, x, b, e, c)
    BY <1>10, <2>1, WindowAdds
  <2> QED
    BY <2>2, Zenon DEF Weighs
<1> QED
  BY <1>1, <1>3, <1>4, <1>5, <1>9, <1>11

\* The digits of the first windows give the value above them, with the carry
\* that is still to come.
LEMMA WindowsAdd ==
  ASSUME NEW h \in Nat \ {0}, NEW W, NEW k \in Nat \ {0}, Weights(h, W, k), NEW m \in Int,
         NEW f, \A o \in 0 .. k - 1 : f[o] = Digit(h, W, k, m, o) * W[o]
  PROVE  \A p \in 0 .. k - 1 :
           /\ Sum(p + 1, f) \in Int
           /\ Multiple(Sum(p + 1, f), W[p], (m \div W[p]) + CarryAt(h, W, k, m, p + 1), Width(h, W))
<1> DEFINE c(o) == CarryAt(h, W, k, m, o)
           q == Width(h, W)
           x(o) == m \div W[o]
<1>1. \A o \in 0 .. k - 1 : W[o] \in Nat \ {0} /\ x(o) \in Int /\ c(o) \in Int /\ c(o + 1) \in Int
  <2> SUFFICES ASSUME NEW o \in 0 .. k - 1
               PROVE W[o] \in Nat \ {0} /\ x(o) \in Int /\ c(o) \in Int /\ c(o + 1) \in Int
    OBVIOUS
  <2>1. W[o] \in Nat \ {0}
    BY DEF Weights
  <2> QED
    BY <2>1, DigitAdds
<1>2. q \in Nat \ {0} /\ q = (2 * h) * W[0]
  <2>1. PICK w \in Nat \ {0} : w = W[0]
    BY <1>1
  <2>2. 2 * h * w \in Nat \ {0} /\ 2 * h * w = (2 * h) * w
    BY SMT
  <2> QED
    BY <2>1, <2>2 DEF Width
<1>3. \A o \in 0 .. k - 1 :
        f[o] = W[o] * (x(o) + c(o + 1)) - ((2 * h) * W[o]) * ((x(o) \div (2 * h)) + c(o))
  BY DigitAdds
<1>4. \A o \in 0 .. k - 1 : f[o] \in Int
  <2> SUFFICES ASSUME NEW o \in 0 .. k - 1 PROVE f[o] \in Int
    OBVIOUS
  <2>1. PICK d \in Int : d = Digit(h, W, k, m, o)
    <3>1. \A j \in 0 .. k - 1 : W[j] \in Nat \ {0}
      BY <1>1
    <3> QED
      BY <3>1, DigitBounds
  <2>2. PICK w \in Int : w = W[o]
    BY <1>1
  <2>3. d * w \in Int
    OBVIOUS
  <2> QED
    BY <2>1, <2>2, <2>3
<1>5. /\ Sum(0, f) = 0 /\ \A o \in Nat : o < k => Sum(o + 1, f) = Sum(o, f) + f[o]
      /\ \A o \in Nat : o <= k => Sum(o, f) \in Int
  <2>1. \A o \in Nat : o < k => f[o] \in Int
    BY <1>4
  <2> QED
    BY <2>1, SumSteps
<1> HIDE DEF c, q, x
<1> DEFINE T == {p \in Nat : p < k => Multiple(Sum(p + 1, f), W[p], x(p) + c(p + 1), q)}
<1>6. 0 \in T
  <2>1. PICK w \in Int, y \in Int, e \in Int, o \in Int, b \in Nat \ {0} :
          w = W[0] /\ y = x(0) /\ e = c(0 + 1) /\ o = c(0) /\ b = 2 * h
    <3>1. 0 \in 0 .. k - 1
      OBVIOUS
    <3> QED
      BY <1>1, <3>1
  <2>2. f[0] = w * (y + e) - (b * w) * ((y \div b) + o)
    <3>1. 0 \in 0 .. k - 1
      OBVIOUS
    <3> QED
      BY <1>3, <2>1, <3>1
  <2>3. PICK t \in Int : t = (y \div b) + o
    <3>1. y \div b \in Int
      BY DivMod
    <3> QED
      BY <3>1
  <2>4. q = b * w
    BY <1>2, <2>1
  <2>5. f[0] = w * (y + e) - q * t
    BY <2>2, <2>3, <2>4
  <2>6. q * (-t) = -(q * t) /\ q * t \in Int /\ w * (y + e) \in Int
    BY <1>2, SMT
  <2>7. f[0] = w * (y + e) + q * (-t) /\ -t \in Int
    BY <2>5, <2>6
  <2>8. Sum(0 + 1, f) = f[0]
    <3>1. Sum(0 + 1, f) = Sum(0, f) + f[0] /\ f[0] \in Int
      BY <1>4, <1>5
    <3> QED
      BY <1>5, <3>1
  <2>9. Multiple(f[0], w, y + e, q)
    BY <2>7 DEF Multiple
  <2> QED
    BY <2>1, <2>8, <2>9
<1>7. ASSUME NEW p \in T PROVE p + 1 \in T
  <2> SUFFICES ASSUME p + 1 < k
               PROVE  Multiple(Sum((p + 1) + 1, f), W[p + 1], x(p + 1) + c((p + 1) + 1), q)
    OBVIOUS
  <2>1. p \in 0 .. k - 1 /\ p + 1 \in 0 .. k - 1 /\ p + 1 \in 1 .. k - 1 /\ (p + 1) - 1 = p
    OBVIOUS
  <2>2. PICK r \in 0 .. k - 1 : r = p + 1
    BY <2>1
  <2>3. PICK w \in Nat \ {0}, y \in Int, e \in Int, o \in Int, b \in Nat \ {0} :
          w = W[r] /\ y = x(r) /\ e = c(r + 1) /\ o = c(r) /\ b = 2 * h
    <3>1. W[r] \in Nat \ {0} /\ x(r) \in Int /\ c(r) \in Int /\ c(r + 1) \in Int
      BY <1>1
    <3>2. 2 * h \in Nat \ {0}
      OBVIOUS
    <3> QED
      BY <3>1, <3>2, Zenon
  <2>4. f[r] = w * (y + e) - (b * w) * ((y \div b) + o)
    BY <1>3, <2>3
  <2>5. W[p] = b * w /\ y \div b = x(p)
    <3>1. W[p] = b * w
      BY <2>1, <2>2, <2>3 DEF Weights
    <3>2. y = m \div w /\ x(p) = m \div (b * w)
      BY <2>3, <3>1 DEF x
    <3> QED
      BY <3>1, <3>2, DivDiv
  <2>6. PICK v1 \in Int, z \in Int : v1 = b * w /\ z = x(p) + o
    <3>1. x(p) \in Int /\ b * w \in Int
      BY <1>1, <2>1, SMT
    <3> QED
      BY <3>1
  <2>7. f[r] = w * (y + e) - v1 * z
    BY <2>4, <2>5, <2>6
  <2>8. Multiple(Sum(p + 1, f), v1, z, q)
    <3>1. c(p + 1) = o
      BY <2>2, <2>3
    <3> QED
      BY <2>1, <2>5, <2>6, <3>1
  <2>9. PICK t \in Int : Sum(p + 1, f) = v1 * z + q * t
    BY <2>8 DEF Multiple
  <2>10. v1 * z \in Int /\ q * t \in Int /\ w * (y + e) \in Int
    BY <1>2, SMT
  <2>11. Sum(r + 1, f) = w * (y + e) + q * t
    <3>1. Sum(r + 1, f) = Sum(r, f) + f[r]
      BY <1>5
    <3>2. Sum(r, f) = v1 * z + q * t
      BY <2>2, <2>9
    <3> QED
      BY <2>7, <2>10, <3>1, <3>2
  <2>12. Multiple(Sum(r + 1, f), w, y + e, q)
    BY <2>11 DEF Multiple
  <2> QED
    BY <2>2, <2>3, <2>12
<1>8. T = Nat
  <2>1. T \subseteq Nat
    OBVIOUS
  <2> HIDE DEF T
  <2> QED
    BY <1>6, <1>7, <2>1, AllNumbers
<1>9. \A p \in 0 .. k - 1 : Sum(p + 1, f) \in Int
  BY <1>5
<1> QED
  BY <1>8, <1>9 DEF c, q, x

\* All windows together give the magnitude, up to half of the last weight.
LEMMA MagnitudeGiven ==
  ASSUME NEW h \in Nat \ {0}, NEW W, NEW k \in Nat \ {0}, Weights(h, W, k), NEW a \in Int,
         NEW f, \A o \in 0 .. k - 1 : f[o] = Digit(h, W, k, a + W[k - 1] \div 2, o) * W[o]
  PROVE  Sum(k, f) \in Int /\ Close(Sum(k, f), a, Width(h, W), W[k - 1] \div 2)
<1>1. PICK w \in Nat \ {0} : w = W[k - 1]
  BY DEF Weights
<1>2. PICK m \in Int, r \in Nat : m = a + r /\ r = w \div 2
  OBVIOUS
<1>3. PICK q : q = Width(h, W)
  OBVIOUS
<1>4. PICK x \in Int, z \in 0 .. w - 1 : x = m \div w /\ m = w * x + z
  <2>1. m \div w \in Int /\ m % w \in 0 .. w - 1 /\ m = w * (m \div w) + (m % w)
    BY DivMod
  <2>2. PICK x \in Int, z \in 0 .. w - 1 : x = m \div w /\ z = m % w
    BY <2>1
  <2>3. m = w * x + z
    BY <2>1, <2>2
  <2> QED
    BY <2>2, <2>3
<1>5. Sum(k, f) \in Int /\ Multiple(Sum(k, f), w, x + 0, q)
  <2>1. \A o \in 0 .. k - 1 : f[o] = Digit(h, W, k, m, o) * W[o]
    BY <1>1, <1>2
  <2>2. /\ Sum((k - 1) + 1, f) \in Int
        /\ Multiple(Sum((k - 1) + 1, f), W[k - 1], (m \div W[k - 1]) + CarryAt(h, W, k, m, (k - 1) + 1), q)
    <3>1. k - 1 \in 0 .. k - 1
      OBVIOUS
    <3>2. \A p \in 0 .. k - 1 :
            /\ Sum(p + 1, f) \in Int
            /\ Multiple(Sum(p + 1, f), W[p], (m \div W[p]) + CarryAt(h, W, k, m, p + 1), Width(h, W))
      BY <2>1, WindowsAdd, Zenon
    <3> QED
      BY <1>3, <3>1, <3>2, Zenon
  <2>3. (k - 1) + 1 = k /\ CarryAt(h, W, k, m, k) = 0
    BY DEF CarryAt
  <2> QED
    BY <1>1, <1>4, <2>2, <2>3
<1>6. PICK t \in Int : Sum(k, f) = w * (x + 0) + q * t
  BY <1>5 DEF Multiple
<1>7. PICK y \in Int : y = w * x
  OBVIOUS
<1>8. q \in Int /\ q * t \in Int
  <2>1. \A j \in 0 .. k - 1 : W[j] \in Nat \ {0}
    BY DEF Weights
  <2>2. Width(h, W) \in Nat \ {0}
    <3>1. 0 \in Int
      OBVIOUS
    <3> QED
      BY <2>1, <3>1, EnteredIs, Zenon
  <2> QED
    BY <1>3, <2>2
<1>9. PICK p \in Int, S \in Int : p = q * t /\ S = Sum(k, f)
  BY <1>5, <1>8
<1>10. S = y + p
  <2>1. x + 0 = x
    OBVIOUS
  <2> QED
    BY <1>6, <1>7, <1>9, <2>1
<1>11. S - a = (r - z) + p /\ -r <= r - z /\ r - z <= r /\ r - z \in Int
  BY <1>2, <1>4, <1>7, <1>10
<1>12. Close(S, a, q, r)
  BY <1>9, <1>11 DEF Close
<1> QED
  BY <1>1, <1>2, <1>3, <1>9, <1>12

\* The digits of a number, by their weights, are the number.
LEMMA DigitsGive ==
  ASSUME NEW h \in Nat \ {0}, NEW W, NEW k \in Nat \ {0}, Weights(h, W, k), NEW u \in Int
  PROVE  /\ Dot(DigitsOf(h, W, k, u), W, k) \in Int
         /\ Close(Dot(DigitsOf(h, W, k, u), W, k), u, Width(h, W), W[k - 1] \div 2)
<1>1. \A j \in 0 .. k - 1 : W[j] \in Nat \ {0}
  BY DEF Weights
<1>2. PICK q \in Nat \ {0}, m \in Int, r \in Int :
        /\ q = Width(h, W) /\ m = Entered(h, W, k, u)
        /\ r = u % Width(h, W)
  <2>1. /\ Width(h, W) \in Nat \ {0} /\ Entered(h, W, k, u) \in Int
        /\ u % Width(h, W) \in 0 .. Width(h, W) - 1
    BY <1>1, EnteredIs
  <2>2. u % Width(h, W) \in Int
    BY <2>1
  <2> QED
    BY <2>1, <2>2, Zenon
<1>3. PICK half \in Nat : half = W[k - 1] \div 2
  <2>1. W[k - 1] \in Nat \ {0}
    BY <1>1
  <2> QED
    BY <2>1
<1>4. PICK a \in Int : a = IF Negates(h, W, u) THEN q - r ELSE r
  <2>1. q - r \in Int
    OBVIOUS
  <2> QED
    BY <2>1
<1>5. m = a + half
  BY <1>2, <1>3, <1>4 DEF Entered
<1> DEFINE D == DigitsOf(h, W, k, u)
           f == [o \in 0 .. k - 1 |-> Digit(h, W, k, m, o) * W[o]]
           g == [o \in 0 .. k - 1 |-> D[o] * W[o]]
<1>6. Dot(D, W, k) = Sum(k, g)
  BY DEF Dot
<1>7. \A o \in 0 .. k - 1 :
        /\ f[o] \in Int
        /\ Negates(h, W, u) => g[o] = (-1) * f[o]
        /\ ~Negates(h, W, u) => g[o] = f[o]
  <2> SUFFICES ASSUME NEW o \in 0 .. k - 1
               PROVE  /\ f[o] \in Int
                      /\ Negates(h, W, u) => g[o] = (-1) * f[o]
                      /\ ~Negates(h, W, u) => g[o] = f[o]
    OBVIOUS
  <2>1. PICK d \in Int, w \in Int : d = Digit(h, W, k, m, o) /\ w = W[o]
    BY <1>1, DigitBounds
  <2>2. D[o] = (IF Negates(h, W, u) THEN -1 ELSE 1) * d
    BY <1>2, <2>1, Zenon DEF DigitsOf
  <2>3. f[o] = d * w /\ g[o] = D[o] * w
    BY <2>1
  <2>4. ((-1) * d) * w = (-1) * (d * w) /\ (1 * d) * w = d * w /\ d * w \in Int
    BY SMT
  <2> HIDE DEF D, f, g
  <2>5. CASE Negates(h, W, u)
    <3>1. D[o] = (-1) * d
      BY <2>2, <2>5
    <3> QED
      BY <2>3, <2>4, <2>5, <3>1, Zenon
  <2>6. CASE ~Negates(h, W, u)
    <3>1. D[o] = 1 * d
      BY <2>2, <2>6
    <3> QED
      BY <2>3, <2>4, <2>6, <3>1, Zenon
  <2> QED
    BY <2>5, <2>6
<1>8. Sum(k, f) \in Int /\ Close(Sum(k, f), a, q, half)
  <2>1. \A o \in 0 .. k - 1 : f[o] = Digit(h, W, k, a + half, o) * W[o]
    BY <1>5
  <2> HIDE DEF f
  <2> QED
    BY <1>2, <1>3, <2>1, MagnitudeGiven
<1>9. Close(r, u, q, 0)
  <2>1. u \div q \in Int /\ u % q \in 0 .. q - 1 /\ u = q * (u \div q) + (u % q)
    BY DivMod
  <2>2. PICK x \in Int : x = u \div q /\ u = q * x + r
    <3>1. r = u % q
      BY <1>2
    <3> QED
      BY <2>1, <3>1
  <2>3. PICK y \in Int : y = q * x /\ q * (-x) = -y
    BY SMT
  <2>4. r - u = 0 + q * (-x) /\ -x \in Int /\ -0 <= 0 /\ 0 <= 0 /\ 0 \in Int
    BY <2>2, <2>3
  <2> QED
    BY <2>4 DEF Close
<1> HIDE DEF D, f, g
<1>10. CASE ~Negates(h, W, u)
  <2>1. Sum(k, g) = Sum(k, f)
    <3>1. \A o \in 0 .. k - 1 : f[o] \in Int /\ g[o] = f[o]
      BY <1>7, <1>10
    <3> QED
      BY <3>1, SumSame
  <2>2. a = r
    BY <1>4, <1>10
  <2>3. PICK S \in Int : S = Sum(k, f)
    BY <1>8
  <2>4. Close(S, r, q, half) /\ q \in Int /\ 0 \in Nat
    BY <1>8, <2>2, <2>3
  <2>5. Close(S, u, q, half + 0)
    BY <1>9, <2>4, CloseThrough
  <2>6. half + 0 = half
    OBVIOUS
  <2> QED
    BY <1>2, <1>3, <1>6, <2>1, <2>3, <2>5, <2>6 DEF D
<1>11. CASE Negates(h, W, u)
  <2>1. Sum(k, g) = (-1) * Sum(k, f)
    <3>1. Scales(k, -1, f, g)
      BY <1>7, <1>11 DEF Scales
    <3>2. -1 \in Int
      OBVIOUS
    <3> QED
      BY <3>1, <3>2, SumScaled
  <2>2. a = q - r
    BY <1>4, <1>11
  <2>3. PICK S \in Int : S = Sum(k, f)
    BY <1>8
  <2>4. Close(-S, -a, q, half)
    <3>1. Close(S, a, q, half) /\ q \in Int
      BY <1>8, <2>3
    <3> QED
      BY <3>1, CloseNegative
  <2>5. Close(-a, r, q, 0)
    <3>1. (-a) - r = 0 + q * (-1) /\ -0 <= 0 /\ 0 <= 0 /\ 0 \in Int /\ -1 \in Int
      BY <2>2
    <3> QED
      BY <3>1 DEF Close
  <2>6. PICK x \in Int, y \in Int : x = -S /\ y = -a
    OBVIOUS
  <2>7. Close(x, y, q, half) /\ Close(y, r, q, 0) /\ q \in Int /\ 0 \in Nat
    BY <2>4, <2>5, <2>6
  <2>8. Close(x, r, q, half + 0) /\ half + 0 \in Nat
    BY <2>7, CloseThrough
  <2>9. Close(x, u, q, (half + 0) + 0)
    BY <1>9, <2>7, <2>8, CloseThrough
  <2>10. (half + 0) + 0 = half /\ Sum(k, g) = x
    BY <2>1, <2>3, <2>6
  <2> QED
    BY <1>2, <1>3, <1>6, <2>9, <2>10 DEF D
<1> QED
  BY <1>10, <1>11

(***************************************************************************)
(* The two gadgets of the library.                                         *)
(***************************************************************************)
KsWeights == [j \in 0 .. KsLevel - 1 |-> KsWeight(j)]
GadgetWeights == [o \in 0 .. L - 1 |-> GadgetWeight(o)]

\* The decompositions of the library are those above.
LEMMA KsDigits ==
  ASSUME NEW u, NEW k PROVE KsGadget!Digits(u, k) = DigitsOf(KsHalf, KsWeights, k, u)
BY Zenon DEF KsGadget!Digits, KsGadget!Modulus, KsGadget!B, KsGadget!Half, KsGadget!Magnitude,
   KsGadget!Negative, KsGadget!RoundingBias, KsGadget!Window, KsGadget!TieBit, KsGadget!CarryOut,
   KsGadget!BalancedDigit, KsGadget!Sign, KsWeights, DigitsOf, Digit, Entered, Negates, Width,
   Filled, Carried, Carry, Tie

LEMMA GadgetDigits ==
  ASSUME NEW u, NEW k PROVE Gadget!Digits(u, k) = DigitsOf(RadixHalf, GadgetWeights, k, u)
BY Zenon DEF Gadget!Digits, Gadget!Modulus, Gadget!B, Gadget!Half, Gadget!Magnitude,
   Gadget!Negative, Gadget!RoundingBias, Gadget!Window, Gadget!TieBit, Gadget!CarryOut,
   Gadget!BalancedDigit, Gadget!Sign, GadgetWeights, DigitsOf, Digit, Entered, Negates, Width,
   Filled, Carried, Carry, Tie

(***************************************************************************)
(* The switch to the LWE key.                                              *)
(***************************************************************************)
\* Columns weighed and then multiplied by a vector are rows multiplied by it and
\* then weighed.
Weighed(m, k, D, A, z, C, R) ==
  /\ \A j \in 0 .. m - 1 : D[j] \in Int
  /\ \A j \in 0 .. m - 1 : \A p \in 0 .. k - 1 : A[j][p] \in Int
  /\ \A p \in 0 .. k - 1 : z[p] \in Int
  /\ \A p \in 0 .. k - 1 : C[p] = Dot(D, [j \in 0 .. m - 1 |-> A[j][p]], m)
  /\ \A j \in 0 .. m - 1 : R[j] = Dot(A[j], z, k)

\* The digits meet the masks of the rows first, or the products of the masks.
LEMMA DotSwap ==
  ASSUME NEW m \in Nat, NEW k \in Nat, NEW D, NEW A, NEW z, NEW C, NEW R,
         Weighed(m, k, D, A, z, C, R)
  PROVE  /\ \A p \in 0 .. k - 1 : C[p] \in Int
         /\ \A j \in 0 .. m - 1 : R[j] \in Int
         /\ Dot(C, z, k) \in Int /\ Dot(C, z, k) = Dot(D, R, m)
<1> DEFINE F == [p \in 0 .. k - 1 |-> [j \in 0 .. m - 1 |-> z[p] * (D[j] * A[j][p])]]
           f == [p \in 0 .. k - 1 |-> C[p] * z[p]]
           g == [j \in 0 .. m - 1 |-> D[j] * R[j]]
           col(p) == [j \in 0 .. m - 1 |-> D[j] * [o \in 0 .. m - 1 |-> A[o][p]][j]]
           row(j) == [p \in 0 .. k - 1 |-> A[j][p] * z[p]]
<1>0. /\ \A j \in 0 .. m - 1 : D[j] \in Int
      /\ \A j \in 0 .. m - 1 : \A p \in 0 .. k - 1 : A[j][p] \in Int
      /\ \A p \in 0 .. k - 1 : z[p] \in Int
      /\ \A p \in 0 .. k - 1 : C[p] = Dot(D, [j \in 0 .. m - 1 |-> A[j][p]], m)
      /\ \A j \in 0 .. m - 1 : R[j] = Dot(A[j], z, k)
  BY DEF Weighed
<1>1. \A x, y, w \in Int : x * (y * w) \in Int /\ x * (y * w) = y * (w * x) /\ y * w \in Int
  BY SMT
<1>2. F \in [0 .. k - 1 -> [0 .. m - 1 -> Int]]
  BY <1>0, <1>1
<1>3. ASSUME NEW p \in 0 .. k - 1
      PROVE  C[p] \in Int /\ f[p] = Sum(m, F[p])
  <2>1. C[p] = Sum(m, col(p))
    BY <1>0 DEF Dot
  <2>2. Scales(m, z[p], col(p), F[p])
    <3> SUFFICES ASSUME NEW j \in 0 .. m - 1 PROVE col(p)[j] \in Int /\ F[p][j] = z[p] * col(p)[j]
      BY DEF Scales
    <3>1. col(p)[j] = D[j] * A[j][p] /\ F[p][j] = z[p] * (D[j] * A[j][p])
      OBVIOUS
    <3>2. D[j] * A[j][p] \in Int
      BY <1>0, <1>1
    <3> QED
      BY <3>1, <3>2
  <2>3. f[p] = C[p] * z[p] /\ z[p] \in Int
    BY <1>0
  <2> HIDE DEF col, F, f
  <2>4. Sum(m, col(p)) \in Int /\ Sum(m, F[p]) = z[p] * Sum(m, col(p))
    BY <2>2, <2>3, SumScaled
  <2>5. C[p] * z[p] = z[p] * C[p]
    BY <2>1, <2>3, <2>4
  <2> QED
    BY <2>1, <2>3, <2>4, <2>5
<1>4. ASSUME NEW j \in 0 .. m - 1
      PROVE  R[j] \in Int /\ g[j] = Sum(k, [p \in 0 .. k - 1 |-> F[p][j]])
  <2>1. R[j] = Sum(k, row(j))
    BY <1>0 DEF Dot
  <2> DEFINE Fj == [p \in 0 .. k - 1 |-> F[p][j]]
  <2>2. Scales(k, D[j], row(j), Fj)
    <3> SUFFICES ASSUME NEW p \in 0 .. k - 1 PROVE row(j)[p] \in Int /\ Fj[p] = D[j] * row(j)[p]
      BY DEF Scales
    <3>1. row(j)[p] = A[j][p] * z[p] /\ Fj[p] = z[p] * (D[j] * A[j][p])
      OBVIOUS
    <3>2. A[j][p] \in Int /\ z[p] \in Int /\ D[j] \in Int
      BY <1>0
    <3>3. A[j][p] * z[p] \in Int /\ z[p] * (D[j] * A[j][p]) = D[j] * (A[j][p] * z[p])
      BY <1>1, <3>2
    <3> QED
      BY <3>1, <3>3
  <2>3. g[j] = D[j] * R[j] /\ D[j] \in Int
    BY <1>0
  <2> HIDE DEF row, Fj, g
  <2>4. Sum(k, row(j)) \in Int /\ Sum(k, Fj) = D[j] * Sum(k, row(j))
    BY <2>2, <2>3, SumScaled
  <2> QED
    BY <2>1, <2>3, <2>4 DEF Fj
<1>5. Dot(C, z, k) = Sum(k, f) /\ Dot(D, R, m) = Sum(m, g)
  BY DEF Dot
<1> HIDE DEF F, f, g
<1>6. Sum(k, f) \in Int /\ Sum(k, f) = Sum(m, g)
  <2>1. \A p \in 0 .. k - 1 : f[p] = Sum(m, F[p])
    BY <1>3
  <2> DEFINE G == [j \in 0 .. m - 1 |-> [p \in 0 .. k - 1 |-> F[p][j]]]
  <2>2. \A j \in 0 .. m - 1 : g[j] = Sum(k, G[j])
    BY <1>4
  <2>3. \A p \in 0 .. k - 1 : \A j \in 0 .. m - 1 : G[j][p] = F[p][j]
    OBVIOUS
  <2> HIDE DEF G
  <2>4. Transposed(k, m, F, G, f, g)
    BY <1>2, <2>1, <2>2, <2>3 DEF Transposed
  <2> QED
    BY <2>4, SumSwap
<1> QED
  BY <1>3, <1>4, <1>5, <1>6

\* The same, of columns that are only added up.
Added(m, k, A, z, C, R) ==
  /\ \A j \in 0 .. m - 1 : \A p \in 0 .. k - 1 : A[j][p] \in Int
  /\ \A p \in 0 .. k - 1 : z[p] \in Int
  /\ \A p \in 0 .. k - 1 : C[p] = Sum(m, [j \in 0 .. m - 1 |-> A[j][p]])
  /\ \A j \in 0 .. m - 1 : R[j] = Dot(A[j], z, k)

\* The product of a sum is the sum of the products.
LEMMA DotOfSums ==
  ASSUME NEW m \in Nat, NEW k \in Nat, NEW A, NEW z, NEW C, NEW R, Added(m, k, A, z, C, R)
  PROVE  /\ \A p \in 0 .. k - 1 : C[p] \in Int
         /\ \A j \in 0 .. m - 1 : R[j] \in Int
         /\ Dot(C, z, k) \in Int /\ Dot(C, z, k) = Sum(m, R)
<1> DEFINE one == [j \in 0 .. m - 1 |-> 1]
<1>1. ASSUME NEW f, \A j \in 0 .. m - 1 : f[j] \in Int
      PROVE  Dot(one, f, m) = Sum(m, f)
  <2> DEFINE g == [j \in 0 .. m - 1 |-> one[j] * f[j]]
  <2>1. \A j \in 0 .. m - 1 : f[j] \in Int /\ g[j] = f[j]
    BY <1>1
  <2>2. Dot(one, f, m) = Sum(m, g)
    BY DEF Dot
  <2> HIDE DEF g
  <2> QED
    BY <2>1, <2>2, SumSame
<1>2. \A j \in 0 .. m - 1 : one[j] \in Int
  OBVIOUS
<1> HIDE DEF one
<1>3. \A p \in 0 .. k - 1 : C[p] = Dot(one, [j \in 0 .. m - 1 |-> A[j][p]], m)
  <2> SUFFICES ASSUME NEW p \in 0 .. k - 1 PROVE C[p] = Dot(one, [j \in 0 .. m - 1 |-> A[j][p]], m)
    OBVIOUS
  <2> DEFINE f == [j \in 0 .. m - 1 |-> A[j][p]]
  <2>1. \A j \in 0 .. m - 1 : f[j] \in Int
    BY DEF Added
  <2>2. C[p] = Sum(m, f)
    BY DEF Added
  <2> HIDE DEF f
  <2>3. C[p] = Dot(one, f, m)
    BY <1>1, <2>1, <2>2
  <2> QED
    BY <2>3 DEF f
<1>4. Weighed(m, k, one, A, z, C, R)
  BY <1>2, <1>3 DEF Weighed, Added
<1>5. /\ \A p \in 0 .. k - 1 : C[p] \in Int
      /\ \A j \in 0 .. m - 1 : R[j] \in Int
      /\ Dot(C, z, k) \in Int /\ Dot(C, z, k) = Dot(one, R, m)
  BY <1>4, DotSwap
<1> QED
  BY <1>1, <1>5

\* Weighed differences are the difference of what is weighed.
LEMMA DotMinus ==
  ASSUME NEW k \in Nat, NEW D, NEW f, NEW g, NEW h,
         \A j \in 0 .. k - 1 : D[j] \in Int /\ f[j] \in Int /\ g[j] \in Int /\ h[j] = f[j] - g[j]
  PROVE  /\ Dot(D, f, k) \in Int /\ Dot(D, g, k) \in Int
         /\ Dot(D, h, k) = Dot(D, f, k) - Dot(D, g, k)
<1> DEFINE F == [j \in 0 .. k - 1 |-> D[j] * f[j]]
           G == [j \in 0 .. k - 1 |-> D[j] * g[j]]
           H == [j \in 0 .. k - 1 |-> D[j] * h[j]]
<1>1. Dot(D, f, k) = Sum(k, F) /\ Dot(D, g, k) = Sum(k, G) /\ Dot(D, h, k) = Sum(k, H)
  BY DEF Dot
<1>2. Linear(k, -1, G, F, H)
  <2> SUFFICES ASSUME NEW j \in 0 .. k - 1 PROVE G[j] \in Int /\ F[j] \in Int /\ H[j] = (-1) * G[j] + F[j]
    BY DEF Linear
  <2>1. PICK d \in Int, x \in Int, y \in Int : d = D[j] /\ x = f[j] /\ y = g[j] /\ h[j] = x - y
    OBVIOUS
  <2>2. d * (x - y) = d * x - d * y /\ d * x \in Int /\ d * y \in Int
    BY SMT
  <2>3. F[j] = d * x /\ G[j] = d * y /\ H[j] = d * (x - y)
    BY <2>1
  <2> QED
    BY <2>2, <2>3
<1> HIDE DEF F, G, H
<1>3. Sum(k, G) \in Int /\ Sum(k, F) \in Int /\ Sum(k, H) = (-1) * Sum(k, G) + Sum(k, F)
  <2>1. -1 \in Int
    OBVIOUS
  <2> QED
    BY <1>2, <2>1, SumLinear
<1> QED
  BY <1>1, <1>3

KsBound == KsLevel * KsHalf + KsWeight(KsLevel - 1) \div 2

\* The switching gadget is one the lemmas above are about.
LEMMA KsWeighs ==
  /\ KsHalf \in Nat \ {0} /\ KsLevel \in Nat \ {0} /\ Weights(KsHalf, KsWeights, KsLevel)
  /\ Width(KsHalf, KsWeights) = LweQ /\ LweQ \in Nat \ {0}
  /\ \A j \in 0 .. KsLevel - 1 : KsWeights[j] = KsWeight(j) /\ KsWeight(j) \in Nat \ {0}
  /\ KsBound \in Nat
<1>1. /\ KsHalf \in Nat \ {0} /\ KsLevel \in Nat \ {0} /\ LweQ \in Nat \ {0}
      /\ \A j \in 0 .. KsLevel - 1 : KsWeight(j) \in Nat \ {0}
      /\ LweQ = 2 * KsHalf * KsWeight(0)
      /\ \A j \in 1 .. KsLevel - 1 : KsWeight(j - 1) = 2 * KsHalf * KsWeight(j)
  BY KsAssumption, AlgebraAssumption
<1>2. \A j \in 0 .. KsLevel - 1 : KsWeights[j] = KsWeight(j)
  BY DEF KsWeights
<1>3. Width(KsHalf, KsWeights) = LweQ
  <2>1. KsWeights[0] = KsWeight(0)
    BY <1>1, <1>2
  <2> QED
    BY <1>1, <2>1 DEF Width
<1>4. Weights(KsHalf, KsWeights, KsLevel)
  <2>1. ASSUME NEW j \in 1 .. KsLevel - 1 PROVE KsWeights[j - 1] = (2 * KsHalf) * KsWeights[j]
    <3>1. j \in 0 .. KsLevel - 1 /\ j - 1 \in 0 .. KsLevel - 1
      BY <1>1
    <3>2. KsWeights[j] = KsWeight(j) /\ KsWeights[j - 1] = KsWeight(j - 1)
      BY <1>2, <3>1
    <3>3. KsWeight(j - 1) = 2 * KsHalf * KsWeight(j)
      BY <1>1
    <3> QED
      BY <3>2, <3>3, Zenon
  <2> QED
    BY <1>1, <1>2, <2>1 DEF Weights
<1>5. KsBound \in Nat
  <2>1. PICK w \in Nat \ {0} : w = KsWeight(KsLevel - 1)
    BY <1>1
  <2>2. w \div 2 \in Nat /\ KsLevel * KsHalf \in Nat
    BY <1>1, SMT
  <2>3. KsLevel * KsHalf + w \div 2 \in Nat
    BY <2>2
  <2> QED
    BY <2>1, <2>3 DEF KsBound
<1> QED
  BY <1>1, <1>2, <1>3, <1>4, <1>5

\* What the digits of u take of rows that encrypt bit * weight is u * bit, up to the
\* noise of each row and the rounding to the last digit.
LEMMA RowsGive ==
  ASSUME NEW u \in Int, NEW bit \in {0, 1}, NEW E,
         \A j \in 0 .. KsLevel - 1 : E[j] \in Int /\ Close(E[j], bit * KsWeight(j), LweQ, 1)
  PROVE  /\ Dot(DigitsOf(KsHalf, KsWeights, KsLevel, u), E, KsLevel) \in Int
         /\ Close(Dot(DigitsOf(KsHalf, KsWeights, KsLevel, u), E, KsLevel), u * bit, LweQ, KsBound)
<1>0. PICK W : W = KsWeights
  OBVIOUS
<1>1. PICK h \in Nat \ {0}, k \in Nat \ {0}, q \in Nat \ {0}, r \in Nat :
        /\ h = KsHalf /\ k = KsLevel /\ q = LweQ /\ W = KsWeights /\ Weights(h, W, k)
        /\ Width(h, W) = q /\ r = W[k - 1] \div 2 /\ r = KsWeight(k - 1) \div 2
  <2>1. KsLevel - 1 \in 0 .. KsLevel - 1
    BY KsWeighs
  <2>2. KsWeights[KsLevel - 1] = KsWeight(KsLevel - 1) /\ KsWeight(KsLevel - 1) \in Nat \ {0}
    BY KsWeighs, <2>1
  <2>3. KsWeights[KsLevel - 1] \div 2 \in Nat
    BY <2>2
  <2>4. PICK r \in Nat : r = KsWeights[KsLevel - 1] \div 2
    BY <2>3
  <2>5. r = KsWeight(KsLevel - 1) \div 2
    BY <2>2, <2>4
  <2> QED
    BY KsWeighs, <1>0, <2>4, <2>5, Zenon
<1> DEFINE D == DigitsOf(h, W, k, u)
           f == [j \in 0 .. k - 1 |-> D[j] * E[j]]
           g == [j \in 0 .. k - 1 |-> D[j] * (bit * W[j])]
           e == [j \in 0 .. k - 1 |-> D[j] * W[j]]
           b == [j \in 0 .. k - 1 |-> h]
<1>2. \A j \in 0 .. k - 1 : W[j] \in Int /\ E[j] \in Int /\ Close(E[j], bit * W[j], q, 1)
  <2> SUFFICES ASSUME NEW j \in 0 .. k - 1
               PROVE  W[j] \in Int /\ E[j] \in Int /\ Close(E[j], bit * W[j], q, 1)
    OBVIOUS
  <2>1. W[j] = KsWeight(j) /\ KsWeight(j) \in Nat \ {0}
    BY <1>1, KsWeighs
  <2>2. W[j] \in Int
    BY <2>1
  <2>3. E[j] \in Int /\ Close(E[j], bit * KsWeight(j), LweQ, 1)
    BY <1>1
  <2>4. Close(E[j], bit * W[j], q, 1)
    BY <1>1, <2>1, <2>3, Zenon
  <2> QED
    BY <2>2, <2>3, <2>4
<1>3. \A j \in 0 .. k - 1 : D[j] \in -h .. h
  <2>1. \A j \in 0 .. k - 1 : W[j] \in Nat \ {0}
    BY <1>1 DEF Weights
  <2>2. D \in [0 .. k - 1 -> -h .. h]
    BY <2>1, DigitsAre
  <2> QED
    BY <2>2
<1>4. Dot(D, E, k) = Sum(k, f) /\ Dot(D, W, k) = Sum(k, e)
  BY DEF Dot
<1> HIDE DEF D
<1>5. AllClose(k, f, g, q, b)
  <2> SUFFICES ASSUME NEW j \in 0 .. k - 1
               PROVE  f[j] \in Int /\ g[j] \in Int /\ b[j] \in Nat /\ Close(f[j], g[j], q, b[j])
    BY DEF AllClose
  <2>1. PICK d \in Int, w \in Int, x \in Int, y \in Int :
          /\ d = D[j] /\ w = W[j] /\ x = E[j] /\ y = bit * W[j] /\ -h <= d /\ d <= h
    <3>1. bit * W[j] \in Int
      BY <1>2
    <3> QED
      BY <1>2, <1>3, <3>1
  <2>2. Close(x, y, q, 1)
    BY <1>2, <2>1
  <2>3. Close(d * x, d * y, q, h)
    <3>1. q \in Int /\ h \in Nat /\ d \in Int /\ x \in Int /\ y \in Int /\ -h <= d /\ d <= h
      BY <2>1
    <3> QED
      BY <2>2, <3>1, CloseProduct, Zenon
  <2>4. f[j] = d * x /\ g[j] = d * y /\ b[j] = h /\ d * x \in Int /\ d * y \in Int
    BY <2>1
  <2> QED
    BY <2>3, <2>4
<1>6. Scales(k, bit, e, g)
  <2> SUFFICES ASSUME NEW j \in 0 .. k - 1 PROVE e[j] \in Int /\ g[j] = bit * e[j]
    BY DEF Scales
  <2>1. PICK d \in Int, w \in Int : d = D[j] /\ w = W[j]
    BY <1>2, <1>3
  <2>2. e[j] = d * w /\ g[j] = d * (bit * w)
    BY <2>1
  <2>3. d * (bit * w) = bit * (d * w) /\ d * w \in Int
    BY SMT
  <2> QED
    BY <2>2, <2>3
<1>7. \A j \in 0 .. k - 1 : b[j] = h
  OBVIOUS
<1> HIDE DEF f, g, e, b
<1>8. Sum(k, e) \in Int /\ Sum(k, g) = bit * Sum(k, e)
  <2>1. bit \in Int
    OBVIOUS
  <2> QED
    BY <1>6, <2>1, SumScaled
<1>9. /\ Sum(k, f) \in Int /\ Sum(k, g) \in Int /\ Sum(k, b) = k * h
      /\ Close(Sum(k, f), Sum(k, g), q, Sum(k, b))
  BY <1>5, <1>7, SumClose, SumConstant
<1>10. Close(Sum(k, e), u, q, r)
  <2>1. Close(Dot(DigitsOf(h, W, k, u), W, k), u, Width(h, W), W[k - 1] \div 2)
    BY <1>1, DigitsGive
  <2> QED
    BY <1>1, <1>4, <2>1 DEF D
<1>11. PICK S \in Int, T \in Int, R \in Int, y \in Int :
         S = Sum(k, f) /\ T = Sum(k, g) /\ R = Sum(k, e) /\ y = u * bit
  BY <1>8, <1>9
<1>12. Close(T, y, q, r)
  <2>1. CASE bit = 0
    <3>1. T = 0 /\ y = 0
      BY <1>8, <1>11, <2>1
    <3> QED
      BY <3>1, CloseSame
  <2>2. CASE bit = 1
    <3>1. T = R /\ y = u
      BY <1>8, <1>11, <2>2
    <3> QED
      BY <1>10, <1>11, <3>1
  <2> QED
    BY <2>1, <2>2
<1>13. PICK kh \in Nat : kh = k * h /\ KsBound = kh + r
  BY <1>1 DEF KsBound
<1>14. Close(S, y, q, kh + r)
  <2>1. Close(S, T, q, kh) /\ q \in Int
    BY <1>9, <1>11, <1>13
  <2> QED
    BY <1>12, <2>1, CloseThrough
<1> QED
  BY <1>1, <1>4, <1>11, <1>13, <1>14 DEF D

\* The degree is a number, and the coefficients are counted from 0.
LEMMA DegreeIs == N \in Nat \ {0} /\ Coeffs = 0 .. N - 1 /\ 0 \in Coeffs
BY AlgebraAssumption DEF Coeffs

\* The rows of the switching key: samples of the bits of z, weighed.
LEMMA KskRows ==
  ASSUME DrawsNumbers, NEW tag \in Int, NEW k \in Nat, NEW z \in [Coeffs -> {0, 1}],
         NEW t \in [0 .. k - 1 -> {0, 1}]
  PROVE  LET ksk == EncKsk(tag, z, t, k)
         IN  \A o \in Coeffs : \A j \in 0 .. KsLevel - 1 :
               /\ Lwe(ksk[o][j], k) /\ Dot(ksk[o][j].a, t, k) \in Int
               /\ Close(ksk[o][j].b - Dot(ksk[o][j].a, t, k), z[o] * KsWeight(j), LweQ, 1)
<1> SUFFICES ASSUME NEW o \in Coeffs, NEW j \in 0 .. KsLevel - 1
             PROVE  LET x == EncLwe(tag + o * KsLevel + j, z[o] * KsWeight(j), t, k)
                    IN  /\ Lwe(x, k) /\ Dot(x.a, t, k) \in Int
                        /\ Close(x.b - Dot(x.a, t, k), z[o] * KsWeight(j), LweQ, 1)
  BY DEF EncKsk
<1>1. PICK w \in Int : w = z[o] * KsWeight(j)
  <2>1. KsWeight(j) \in Nat \ {0} /\ z[o] \in {0, 1}
    BY KsWeighs
  <2> QED
    BY <2>1
<1>2. PICK u \in Int : u = tag + o * KsLevel + j
  <2>1. o \in Int /\ KsLevel \in Int /\ j \in Int
    BY KsWeighs, DegreeIs
  <2>2. o * KsLevel \in Int
    BY <2>1
  <2>3. tag + o * KsLevel + j \in Int
    BY <2>1, <2>2
  <2> QED
    BY <2>3
<1>3. LET x == EncLwe(u, w, t, k)
      IN  Lwe(x, k) /\ Dot(x.a, t, k) \in Int /\ Close(x.b - Dot(x.a, t, k), w, LweQ, 1)
  BY EncLweIs
<1> QED
  BY <1>1, <1>2, <1>3, Zenon

\* A sample under the key of z becomes one under t, of the same phase.
LEMMA KeySwitchNear ==
  ASSUME DrawsNumbers, NEW tag \in Int, NEW k \in Nat, NEW z \in [Coeffs -> {0, 1}],
         NEW t \in [0 .. k - 1 -> {0, 1}], NEW x, Lwe(x, N)
  PROVE  LET y == KeySwitched(x, EncKsk(tag, z, t, k), k)
         IN  /\ Lwe(y, k) /\ Dot(y.a, t, k) \in Int /\ Dot(x.a, z, N) \in Int
             /\ Close(y.b - Dot(y.a, t, k), x.b - Dot(x.a, z, N), LweQ, N * KsBound)
<1>1. PICK ksk : ksk = EncKsk(tag, z, t, k)
  OBVIOUS
<1>2. PICK K \in Nat \ {0} : K = KsLevel
  BY KsWeighs
<1>3. PICK q \in Nat \ {0}, bound \in Nat : q = LweQ /\ bound = KsBound
  BY KsWeighs
<1> DEFINE D == [o \in Coeffs |-> DigitsOf(KsHalf, KsWeights, KsLevel, x.a[o])]
           Bs == [o \in Coeffs |-> [j \in 0 .. K - 1 |-> ksk[o][j].b]]
           A(p) == [o \in Coeffs |-> [j \in 0 .. K - 1 |-> ksk[o][j].a[p]]]
           P == [o \in Coeffs |-> [j \in 0 .. K - 1 |-> Dot(ksk[o][j].a, t, k)]]
           E == [o \in Coeffs |-> [j \in 0 .. K - 1 |-> Bs[o][j] - P[o][j]]]
           overB == [o \in Coeffs |-> Dot(D[o], Bs[o], K)]
           overA(p) == [o \in Coeffs |-> Dot(D[o], A(p)[o], K)]
           overP == [o \in Coeffs |-> Dot(D[o], P[o], K)]
           overE == [o \in Coeffs |-> Dot(D[o], E[o], K)]
           a == [p \in 0 .. k - 1 |-> Centre(-Sum(N, overA(p)), q)]
           c == [p \in 0 .. k - 1 |-> Sum(N, overA(p))]
           m == [p \in 0 .. k - 1 |-> -c[p]]
           y == KeySwitched(x, ksk, k)
<1>4. /\ x.a \in [Coeffs -> Int] /\ x.b \in Int /\ N \in Nat \ {0} /\ Coeffs = 0 .. N - 1
      /\ z \in [0 .. N - 1 -> {0, 1}]
  BY DegreeIs DEF Lwe
<1>5. y = [n |-> k, a |-> a, b |-> Centre(x.b - Sum(N, overB), q)]
  <2>1. [o \in Coeffs |-> KsGadget!Digits(x.a[o], KsLevel)] = D
    BY KsDigits
  <2> QED
    BY <1>2, <1>3, <2>1, Zenon DEF KeySwitched
<1>6. \A o \in Coeffs : \A j \in 0 .. K - 1 :
        /\ Bs[o][j] \in Int /\ P[o][j] \in Int /\ E[o][j] \in Int
        /\ \A p \in 0 .. k - 1 : ksk[o][j].a[p] \in Int
        /\ Close(E[o][j], z[o] * KsWeight(j), q, 1)
  <2> SUFFICES ASSUME NEW o \in Coeffs, NEW j \in 0 .. K - 1
               PROVE  /\ Bs[o][j] \in Int /\ P[o][j] \in Int /\ E[o][j] \in Int
                      /\ \A p \in 0 .. k - 1 : ksk[o][j].a[p] \in Int
                      /\ Close(E[o][j], z[o] * KsWeight(j), q, 1)
    OBVIOUS
  <2>1. PICK r : r = ksk[o][j]
    OBVIOUS
  <2>2. /\ Lwe(r, k) /\ Dot(r.a, t, k) \in Int
        /\ Close(r.b - Dot(r.a, t, k), z[o] * KsWeight(j), LweQ, 1)
    <3>1. j \in 0 .. KsLevel - 1
      BY <1>2
    <3> QED
      BY <1>1, <2>1, <3>1, KskRows, Zenon
  <2>3. Bs[o][j] = r.b /\ P[o][j] = Dot(r.a, t, k) /\ E[o][j] = r.b - Dot(r.a, t, k)
    BY <2>1
  <2>4. r.b \in Int /\ r.a \in [0 .. k - 1 -> Int]
    BY <2>2 DEF Lwe
  <2> HIDE DEF Bs, P, E
  <2>5. PICK b \in Int, d \in Int : b = r.b /\ d = Dot(r.a, t, k)
    BY <2>2, <2>4
  <2>6. Bs[o][j] = b /\ P[o][j] = d /\ E[o][j] = b - d /\ b - d \in Int
    BY <2>3, <2>5
  <2>7. Close(b - d, z[o] * KsWeight(j), q, 1)
    BY <1>3, <2>2, <2>5, Zenon
  <2>8. Close(E[o][j], z[o] * KsWeight(j), q, 1)
    BY <2>6, <2>7, Zenon
  <2>9. \A p \in 0 .. k - 1 : ksk[o][j].a[p] \in Int
    BY <2>1, <2>4
  <2> QED
    BY <2>6, <2>8, <2>9, Zenon
<1>7. \A o \in Coeffs : \A j \in 0 .. K - 1 : D[o][j] \in Int
  <2> SUFFICES ASSUME NEW o \in Coeffs, NEW j \in 0 .. K - 1 PROVE D[o][j] \in Int
    OBVIOUS
  <2>1. x.a[o] \in Int
    BY <1>4
  <2>2. \A j1 \in 0 .. KsLevel - 1 : KsWeights[j1] \in Nat \ {0}
    BY KsWeighs
  <2>3. DigitsOf(KsHalf, KsWeights, KsLevel, x.a[o]) \in [0 .. KsLevel - 1 -> -KsHalf .. KsHalf]
    BY <2>1, <2>2, KsWeighs, DigitsAre
  <2> QED
    BY <1>2, <2>3
<1>8. \A o \in Coeffs : /\ overB[o] \in Int /\ overP[o] \in Int
                        /\ overE[o] = overB[o] - overP[o]
  <2> SUFFICES ASSUME NEW o \in Coeffs
               PROVE  /\ Dot(D[o], Bs[o], K) \in Int /\ Dot(D[o], P[o], K) \in Int
                      /\ Dot(D[o], E[o], K) = Dot(D[o], Bs[o], K) - Dot(D[o], P[o], K)
    OBVIOUS
  <2>1. \A j \in 0 .. K - 1 : E[o][j] = Bs[o][j] - P[o][j]
    OBVIOUS
  <2> HIDE DEF D, Bs, P, E
  <2>2. \A j \in 0 .. K - 1 : /\ D[o][j] \in Int /\ Bs[o][j] \in Int /\ P[o][j] \in Int
                              /\ E[o][j] = Bs[o][j] - P[o][j]
    BY <1>6, <1>7, <2>1
  <2> QED
    <3>1. \E d, f, g, h : d = D[o] /\ f = Bs[o] /\ g = P[o] /\ h = E[o]
      OBVIOUS
    <3>2. PICK d, f, g, h : d = D[o] /\ f = Bs[o] /\ g = P[o] /\ h = E[o]
      BY <3>1
    <3>3. \A j \in 0 .. K - 1 : d[j] \in Int /\ f[j] \in Int /\ g[j] \in Int /\ h[j] = f[j] - g[j]
      BY <2>2, <3>2
    <3>4. /\ Dot(d, f, K) \in Int /\ Dot(d, g, K) \in Int
          /\ Dot(d, h, K) = Dot(d, f, K) - Dot(d, g, K)
      <4>1. K \in Nat
        OBVIOUS
      <4> QED
        BY <3>3, <4>1, DotMinus
    <3> QED
      BY <3>2, <3>4
<1>9. \A o \in Coeffs : overE[o] \in Int /\ Close(overE[o], x.a[o] * z[o], q, bound)
  <2> SUFFICES ASSUME NEW o \in Coeffs
               PROVE  /\ Dot(D[o], E[o], K) \in Int
                      /\ Close(Dot(D[o], E[o], K), x.a[o] * z[o], q, bound)
    OBVIOUS
  <2>0. PICK e : e = E[o]
    OBVIOUS
  <2>1. PICK u \in Int, bit \in {0, 1} : u = x.a[o] /\ bit = z[o] /\ e = E[o]
    BY <1>4, <2>0
  <2>2. D[o] = DigitsOf(KsHalf, KsWeights, KsLevel, u)
    BY <2>1
  <2> HIDE DEF D, E, Bs, P
  <2>3. \A j \in 0 .. KsLevel - 1 : e[j] \in Int /\ Close(e[j], bit * KsWeight(j), LweQ, 1)
    BY <1>2, <1>3, <1>6, <2>1
  <2>4. /\ Dot(DigitsOf(KsHalf, KsWeights, KsLevel, u), e, KsLevel) \in Int
        /\ Close(Dot(DigitsOf(KsHalf, KsWeights, KsLevel, u), e, KsLevel), u * bit, LweQ, KsBound)
    BY <2>3, RowsGive
  <2> QED
    BY <1>2, <1>3, <2>1, <2>2, <2>4
<1> DEFINE R == [o \in Coeffs |-> [p \in 0 .. k - 1 |-> overA(p)[o]]]
<1>10. \A o \in Coeffs : /\ \A p \in 0 .. k - 1 : R[o][p] \in Int
                         /\ Dot(R[o], t, k) = overP[o]
  <2> SUFFICES ASSUME NEW o \in Coeffs
               PROVE  /\ \A p \in 0 .. k - 1 : R[o][p] \in Int
                      /\ Dot(R[o], t, k) = overP[o]
    OBVIOUS
  <2> DEFINE B == [j \in 0 .. K - 1 |-> ksk[o][j].a]
  <2>1. \A p \in 0 .. k - 1 : R[o][p] = Dot(D[o], [j \in 0 .. K - 1 |-> B[j][p]], K)
    <3> SUFFICES ASSUME NEW p \in 0 .. k - 1
                 PROVE  R[o][p] = Dot(D[o], [j \in 0 .. K - 1 |-> B[j][p]], K)
      OBVIOUS
    <3>1. R[o][p] = Dot(D[o], A(p)[o], K)
      OBVIOUS
    <3>2. A(p)[o] = [j \in 0 .. K - 1 |-> B[j][p]]
      OBVIOUS
    <3> QED
      BY <3>1, <3>2
  <2>2. \A j \in 0 .. K - 1 : P[o][j] = Dot(B[j], t, k)
    OBVIOUS
  <2>3. \A j \in 0 .. K - 1 : \A p \in 0 .. k - 1 : B[j][p] \in Int
    BY <1>6
  <2>4. overP[o] = Dot(D[o], P[o], K)
    OBVIOUS
  <2>5. \A p \in 0 .. k - 1 : t[p] \in Int
    OBVIOUS
  <2> HIDE DEF B, R, D, P, overP, overA, A
  <2>6. Weighed(K, k, D[o], B, t, R[o], P[o])
    BY <1>7, <2>1, <2>2, <2>3, <2>5 DEF Weighed
  <2>7. K \in Nat
    OBVIOUS
  <2> QED
    BY <2>4, <2>6, <2>7, DotSwap
<1>11. /\ \A p \in 0 .. k - 1 : c[p] \in Int
       /\ Dot(c, t, k) \in Int /\ Dot(c, t, k) = Sum(N, overP)
  <2>1. \A p \in 0 .. k - 1 : c[p] = Sum(N, [o \in 0 .. N - 1 |-> R[o][p]])
    <3> SUFFICES ASSUME NEW p \in 0 .. k - 1
                 PROVE  Sum(N, overA(p)) = Sum(N, [o \in 0 .. N - 1 |-> R[o][p]])
      OBVIOUS
    <3>1. overA(p) = [o \in 0 .. N - 1 |-> R[o][p]]
      BY <1>4
    <3> QED
      BY <3>1
  <2>2. \A p \in 0 .. k - 1 : t[p] \in Int
    OBVIOUS
  <2> HIDE DEF R, c, overP
  <2>3. Added(N, k, R, t, c, overP)
    BY <1>4, <1>10, <2>1, <2>2 DEF Added
  <2>4. N \in Nat
    BY <1>4
  <2> QED
    BY <2>3, <2>4, DotOfSums
<1>12. /\ Dot(a, t, k) \in Int /\ Close(Dot(a, t, k), -Sum(N, overP), q, 0)
       /\ a \in [0 .. k - 1 -> Int]
  <2>1. \A p \in 0 .. k - 1 : a[p] \in Int /\ m[p] \in Int /\ Close(a[p], m[p], q, 0)
    <3> SUFFICES ASSUME NEW p \in 0 .. k - 1
                 PROVE  a[p] \in Int /\ m[p] \in Int /\ Close(a[p], m[p], q, 0)
      OBVIOUS
    <3>0. /\ c[p] \in Int /\ a[p] = Centre(-c[p], q) /\ m[p] = -c[p]
      BY <1>11
    <3> HIDE DEF a, c, m
    <3>1. PICK o \in Int : o = -c[p]
      BY <3>0
    <3>2. a[p] = Centre(o, q) /\ m[p] = o
      BY <3>0, <3>1
    <3>3. Centre(o, q) \in Int /\ Close(Centre(o, q), o, q, 0)
      BY CentreClose
    <3> QED
      BY <3>2, <3>3
  <2>2. Scales(k, -1, c, m)
    <3>1. \A p \in 0 .. k - 1 : c[p] \in Int /\ m[p] = -c[p]
      BY <1>11
    <3> HIDE DEF c, m
    <3>2. \A p \in 0 .. k - 1 : c[p] \in Int /\ m[p] = (-1) * c[p]
      BY <3>1
    <3> QED
      BY <3>2 DEF Scales
  <2>3. a = [p \in 0 .. k - 1 |-> a[p]]
    OBVIOUS
  <2> HIDE DEF a, c, m, overP
  <2>4. Dot(m, t, k) = Dot(c, t, k) * (-1)
    <3>1. -1 \in Int /\ \A p \in 0 .. k - 1 : t[p] \in Int
      OBVIOUS
    <3> QED
      BY <2>2, <3>1, DotScaled
  <2>5. /\ Dot(a, t, k) \in Int /\ Dot(m, t, k) \in Int /\ Sum(k, t) \in Nat
        /\ Close(Dot(a, t, k), Dot(m, t, k), q, Sum(k, t) * 0)
    <3>1. q \in Int /\ 0 \in Nat
      OBVIOUS
    <3> QED
      BY <2>1, <3>1, DotClose
  <2>6. Sum(k, t) * 0 = 0 /\ Dot(m, t, k) = -Sum(N, overP)
    BY <1>11, <2>4, <2>5
  <2> QED
    BY <2>1, <2>3, <2>5, <2>6
<1>13. /\ Sum(N, overE) \in Int /\ Dot(x.a, z, N) \in Int
       /\ Close(Sum(N, overE), Dot(x.a, z, N), q, N * bound)
  <2> DEFINE f == [o \in 0 .. N - 1 |-> x.a[o] * z[o]]
             b == [o \in 0 .. N - 1 |-> bound]
  <2>1. Dot(x.a, z, N) = Sum(N, f)
    BY DEF Dot
  <2>2. \A o \in 0 .. N - 1 : f[o] = x.a[o] * z[o] /\ b[o] = bound /\ f[o] \in Int
    <3> SUFFICES ASSUME NEW o \in 0 .. N - 1
                 PROVE  f[o] = x.a[o] * z[o] /\ b[o] = bound /\ f[o] \in Int
      OBVIOUS
    <3>0. x.a[o] \in Int /\ z[o] \in Int
      BY <1>4
    <3>1. PICK u \in Int, bit \in Int : u = x.a[o] /\ bit = z[o]
      BY <3>0
    <3>2. f[o] = u * bit /\ u * bit \in Int
      BY <3>1
    <3> QED
      BY <3>2
  <2> HIDE DEF f, b, overE
  <2>3. AllClose(N, overE, f, q, b)
    BY <1>4, <1>9, <2>2 DEF AllClose
  <2>4. N \in Nat /\ q \in Int /\ \A o \in 0 .. N - 1 : b[o] = bound
    BY <1>4, <2>2
  <2>5. /\ Sum(N, overE) \in Int /\ Sum(N, f) \in Int /\ Sum(N, b) = N * bound
        /\ Close(Sum(N, overE), Sum(N, f), q, Sum(N, b))
    <3>1. /\ Sum(N, overE) \in Int /\ Sum(N, f) \in Int
          /\ Close(Sum(N, overE), Sum(N, f), q, Sum(N, b))
      BY <2>3, <2>4, SumClose
    <3>2. bound \in Int
      OBVIOUS
    <3>3. Sum(N, b) = N * bound
      BY <2>4, <3>2, SumConstant
    <3> QED
      BY <3>1, <3>3
  <2> QED
    BY <2>1, <2>5
<1>14. Sum(N, overP) \in Int /\ Sum(N, overB) \in Int /\ Sum(N, overE) = Sum(N, overB) - Sum(N, overP)
  <2> HIDE DEF overE, overB, overP
  <2>1. Linear(N, -1, overP, overB, overE)
    BY <1>4, <1>8 DEF Linear
  <2>2. /\ Sum(N, overP) \in Int /\ Sum(N, overB) \in Int
        /\ Sum(N, overE) = (-1) * Sum(N, overP) + Sum(N, overB)
    <3>1. -1 \in Int /\ N \in Nat
      BY <1>4
    <3> QED
      BY <2>1, <3>1, SumLinear
  <2> QED
    BY <2>2
<1> HIDE DEF overE, overB, overP, overA, a, c, m, D, E, P, Bs, A, R, y
<1>15. PICK SB \in Int, SP \in Int, SE \in Int, d \in Int, e \in Int, xb \in Int :
         /\ SB = Sum(N, overB) /\ SP = Sum(N, overP) /\ SE = Sum(N, overE)
         /\ d = Dot(x.a, z, N) /\ e = Dot(a, t, k) /\ xb = x.b
  BY <1>4, <1>12, <1>13, <1>14
<1>16. PICK yb \in Int : yb = Centre(xb - SB, q) /\ Close(yb, xb - SB, q, 0)
  <2>1. PICK w \in Int : w = xb - SB
    OBVIOUS
  <2>2. Centre(w, q) \in Int /\ Close(Centre(w, q), w, q, 0)
    BY CentreClose
  <2> QED
    BY <2>1, <2>2
<1>17. y.n = k /\ y.a = a /\ y.b = yb /\ DOMAIN y = {"n", "a", "b"}
  BY <1>5, <1>15, <1>16
<1>18. Lwe(y, k)
  BY <1>12, <1>16, <1>17 DEF Lwe
<1>19. Close(yb - e, xb - d, q, N * bound)
  <2>1. PICK w \in Int, u \in Int, nb \in Nat : w = xb - SB /\ u = -SP /\ nb = N * bound
    <3>1. N * bound \in Nat
      BY <1>4, SMT
    <3> QED
      BY <3>1
  <2>2. Close(yb, w, q, 0) /\ Close(e, u, q, 0) /\ q \in Int /\ 0 \in Nat
    BY <1>12, <1>15, <1>16, <2>1
  <2>3. Close(yb - e, w - u, q, 0 + 0)
    BY <2>2, CloseMinus
  <2>4. Close(xb - SE, xb - d, q, 0 + nb)
    <3>1. Close(xb, xb, q, 0) /\ Close(SE, d, q, nb)
      BY <1>13, <1>15, <2>1, <2>2, CloseSame
    <3> QED
      BY <2>2, <3>1, CloseMinus
  <2>5. w - u = xb - SE /\ 0 + 0 \in Nat /\ 0 + nb \in Nat /\ (0 + 0) + (0 + nb) = nb
    <3>1. SE = SB - SP
      BY <1>14, <1>15
    <3>2. w = xb - SB /\ u = -SP
      BY <2>1
    <3> QED
      BY <3>1, <3>2
  <2>6. PICK o1 \in Int, o2 \in Int, o3 \in Int, z1 \in Nat, z2 \in Nat :
          o1 = yb - e /\ o2 = xb - SE /\ o3 = xb - d /\ z1 = 0 + 0 /\ z2 = 0 + nb
    OBVIOUS
  <2>7. Close(o1, o2, q, z1) /\ Close(o2, o3, q, z2)
    BY <2>3, <2>4, <2>5, <2>6
  <2>8. Close(o1, o3, q, z1 + z2) /\ z1 + z2 = nb
    BY <2>2, <2>5, <2>6, <2>7, CloseThrough
  <2> QED
    BY <2>1, <2>6, <2>8
<1> QED
  <2>1. y = KeySwitched(x, EncKsk(tag, z, t, k), k)
    BY <1>1 DEF y
  <2>2. Close(y.b - Dot(y.a, t, k), x.b - Dot(x.a, z, N), LweQ, N * KsBound)
    BY <1>3, <1>15, <1>17, <1>19
  <2>3. Dot(y.a, t, k) \in Int /\ Dot(x.a, z, N) \in Int
    BY <1>12, <1>13, <1>17
  <2> QED
    BY <1>18, <2>1, <2>2, <2>3

(***************************************************************************)
(* Extraction, for which a torus is a multiple of the modulus of LWE       *)
(* samples.                                                                *)
(***************************************************************************)
\* Closeness within a bound is closeness within a larger one.
LEMMA CloseWithin ==
  ASSUME NEW x \in Int, NEW y \in Int, NEW q \in Int, NEW b \in Nat, NEW c \in Nat, b <= c,
         Close(x, y, q, b)
  PROVE  Close(x, y, q, c)
<1>1. PICK e \in Int, t \in Int : x - y = e + q * t /\ -b <= e /\ e <= b
  BY DEF Close
<1>2. -c <= e /\ e <= c
  BY <1>1
<1> QED
  BY <1>1, <1>2 DEF Close

\* Bits add up to at most their number.
LEMMA SumOfBits ==
  ASSUME NEW k \in Nat, NEW z \in [0 .. k - 1 -> {0, 1}]
  PROVE  Sum(k, z) \in Nat /\ Sum(k, z) <= k
<1> DEFINE zero == [j \in 0 .. k - 1 |-> 0]
           one == [j \in 0 .. k - 1 |-> 1]
<1>1. AllClose(k, z, zero, 0, one)
  <2> SUFFICES ASSUME NEW j \in 0 .. k - 1
               PROVE  z[j] \in Int /\ zero[j] \in Int /\ one[j] \in Nat /\ Close(z[j], zero[j], 0, one[j])
    BY DEF AllClose
  <2>1. z[j] - 0 = z[j] + 0 * 0 /\ -1 <= z[j] /\ z[j] <= 1 /\ z[j] \in Int
    BY SMT
  <2> QED
    BY <2>1 DEF Close
<1>2. \A j \in 0 .. k - 1 : zero[j] = 0 /\ one[j] = 1 /\ z[j] \in {0, 1}
  OBVIOUS
<1> HIDE DEF zero, one
<1>3. Sum(k, z) \in Int /\ Close(Sum(k, z), Sum(k, zero), 0, Sum(k, one)) /\ 0 \in Int
  BY <1>1, SumClose
<1>4. Sum(k, zero) = k * 0 /\ Sum(k, one) = k * 1
  BY <1>2, <1>3, SumConstant
<1>5. Sum(k, z) <= k
  <2>1. PICK o \in Int : o = Sum(k, z) /\ Close(o, 0, 0, k)
    BY <1>3, <1>4
  <2>2. PICK e \in Int, t \in Int : o - 0 = e + 0 * t /\ -k <= e /\ e <= k
    BY <2>1 DEF Close
  <2> QED
    BY <2>1, <2>2
<1>6. Sum(k, z) \in Nat
  <2>1. \A j \in 0 .. k - 1 : z[j] \in Int /\ zero[j] \in Int /\ Close(z[j], zero[j], 0, 1)
    BY <1>1, <1>2 DEF AllClose
  <2>2. 0 \in Int /\ 1 \in Nat
    OBVIOUS
  <2> QED
    BY <2>1, <2>2, DotClose
<1> QED
  BY <1>5, <1>6

\* How many torus units an LWE unit has.
Ratio == TorusQ \div LweQ

\* The modulus of the torus is that many times the one of LWE samples.
LEMMA RatioIs == Ratio \in Nat \ {0} /\ TorusQ = Ratio * LweQ
<1>1. /\ TorusQ \in Nat \ {0} /\ LweQ \in Nat \ {0} /\ TorusQ % LweQ = 0
  BY AlgebraAssumption, RingAssumption
<1>2. PICK p \in Nat \ {0}, o \in Nat \ {0} : p = LweQ /\ o = TorusQ
  BY <1>1
<1>3. o \div p \in Int /\ o = p * (o \div p) + 0 /\ o \div p \in Nat
  BY <1>1, <1>2
<1>4. PICK w \in Nat : w = o \div p /\ o = p * w
  BY <1>3
<1>5. w # 0 /\ p * w = w * p
  BY <1>4
<1> QED
  BY <1>2, <1>4, <1>5 DEF Ratio

\* A torus number taken to the LWE modulus is next to what it was.
LEMMA LoweredNear ==
  ASSUME NEW x \in Int
  PROVE  /\ Switched(x, LweQ, TorusQ) \in Int
         /\ Close(Switched(x, LweQ, TorusQ) * Ratio, x, TorusQ, Ratio \div 2)
<1>1. PICK new \in Nat \ {0}, old \in Nat \ {0}, scale \in Nat \ {0} :
        new = LweQ /\ old = TorusQ /\ scale = Ratio
  BY RatioIs, AlgebraAssumption
<1>2. old = scale * new
  BY <1>1, RatioIs
<1>3. Switched(x, new, old) \in Int /\ Close(Switched(x, new, old) * scale, x, old, scale \div 2)
  BY <1>2, SwitchedNear
<1> QED
  BY <1>1, <1>3

\* The extracted sample has, as its product with the key, the constant coefficient
\* of the product of the polynomials.
Unrolled(a) == [j \in Coeffs |-> IF j = 0 THEN a[0] ELSE -a[N - j]]

\* So it is: the constant coefficient of the product.
LEMMA UnrolledDot ==
  ASSUME NEW a \in [Coeffs -> Int], NEW z \in [Coeffs -> {0, 1}]
  PROVE  /\ \A j \in 0 .. N - 1 : Unrolled(a)[j] \in Int
         /\ Dot(Unrolled(a), z, N) \in Int /\ Times(a, z)[0] = Dot(Unrolled(a), z, N)
<1> DEFINE f == [j \in Coeffs |-> a[j] * (IF j <= 0 THEN z[0 - j] ELSE -z[N + 0 - j])]
           g == [j \in 0 .. N - 1 |-> Unrolled(a)[j] * z[j]]
<1>1. Coeffs = 0 .. N - 1 /\ 0 \in Coeffs /\ N \in Nat \ {0}
  BY DegreeIs
<1>2. Times(a, z)[0] = Sum(N, f)
  BY <1>1 DEF Times
<1>3. Dot(Unrolled(a), z, N) = Sum(N, g)
  BY DEF Dot
<1>4. \A j \in 1 .. N - 1 : j \in Coeffs /\ N - j \in Coeffs /\ N - j \in 1 .. N - 1
  BY <1>1
<1>5. f[0] = a[0] * z[0] /\ g[0] = a[0] * z[0] /\ a[0] * z[0] \in Int
  <2>1. /\ f[0] = a[0] * z[0 - 0] /\ 0 - 0 = 0 /\ Unrolled(a)[0] = a[0]
        /\ a[0] \in Int /\ z[0] \in Int
    BY <1>1 DEF Unrolled
  <2>2. a[0] * z[0] \in Int
    BY <2>1
  <2>3. g[0] = Unrolled(a)[0] * z[0]
    BY <1>1
  <2> QED
    BY <2>1, <2>2, <2>3
<1>6. \A j \in 1 .. N - 1 : f[j] = -(a[j] * z[N - j]) /\ f[j] \in Int
  <2> SUFFICES ASSUME NEW j \in 1 .. N - 1 PROVE f[j] = -(a[j] * z[N - j]) /\ f[j] \in Int
    OBVIOUS
  <2>1. f[j] = a[j] * (-z[N + 0 - j]) /\ N + 0 - j = N - j /\ a[j] \in Int /\ z[N - j] \in Int
    BY <1>1, <1>4
  <2>2. PICK o \in Int, w \in Int : o = a[j] /\ w = z[N - j]
    BY <2>1
  <2>3. f[j] = o * (-w) /\ o * w \in Int
    BY <2>1, <2>2
  <2>4. o * (-w) = -(o * w) /\ -(o * w) \in Int
    BY <2>3
  <2> QED
    BY <2>2, <2>3, <2>4
<1>7. \A j \in 1 .. N - 1 : g[j] = -(a[N - j] * z[j])
  <2> SUFFICES ASSUME NEW j \in 1 .. N - 1 PROVE g[j] = -(a[N - j] * z[j])
    OBVIOUS
  <2>1. g[j] = (-a[N - j]) * z[j] /\ a[N - j] \in Int /\ z[j] \in Int
    BY <1>1, <1>4 DEF Unrolled
  <2>2. PICK o \in Int, w \in Int : o = a[N - j] /\ w = z[j]
    BY <2>1
  <2>3. (-o) * w = -(o * w)
    BY SMT
  <2> QED
    BY <2>1, <2>2, <2>3
<1>8. \A j \in 1 .. N - 1 : g[j] = f[N - j]
  <2> SUFFICES ASSUME NEW j \in 1 .. N - 1 PROVE g[j] = f[N - j]
    OBVIOUS
  <2>1. N - j \in 1 .. N - 1 /\ N - (N - j) = j
    BY <1>1
  <2>2. f[N - j] = -(a[N - j] * z[N - (N - j)])
    BY <1>6, <2>1
  <2> QED
    BY <1>7, <2>1, <2>2
<1>9. \A j \in 0 .. N - 1 : Unrolled(a)[j] \in Int
  BY <1>1, <1>4 DEF Unrolled
<1> HIDE DEF f, g
<1>10. \A j \in 0 .. N - 1 : f[j] \in Int
  <2> SUFFICES ASSUME NEW j \in 0 .. N - 1 PROVE f[j] \in Int
    OBVIOUS
  <2>1. j = 0 \/ j \in 1 .. N - 1
    OBVIOUS
  <2> QED
    BY <1>5, <1>6, <2>1
<1>11. Sum(N, f) \in Int /\ Sum(N, g) = Sum(N, f)
  <2>1. g[0] = f[0]
    BY <1>5
  <2> QED
    BY <1>1, <1>8, <1>10, <2>1, SumReversed
<1> QED
  BY <1>2, <1>3, <1>9, <1>11

\* What a sample's two polynomials are.
Poly == [Coeffs -> Int]
Sample == [a : Poly, b : Poly]

\* Extraction keeps the phase of the constant coefficient.
LEMMA ExtractedPhase ==
  ASSUME NEW x \in Sample, NEW z \in [Coeffs -> {0, 1}]
  PROVE  LET y == Extracted(x)
         IN  /\ Lwe(y, N) /\ Dot(y.a, z, N) \in Int /\ Phase(x, z)[0] \in Int
             /\ Close((y.b - Dot(y.a, z, N)) * Ratio, Phase(x, z)[0], TorusQ,
                      (1 + N) * (Ratio \div 2))
<1> DEFINE y == Extracted(x)
           A == Unrolled(x.a)
<1>1. PICK scale \in Nat \ {0}, q \in Nat \ {0}, half \in Nat :
        scale = Ratio /\ q = TorusQ /\ half = Ratio \div 2
  BY RatioIs, AlgebraAssumption
<1>2. /\ y.n = N /\ DOMAIN y = {"n", "a", "b"} /\ y.b = Switched(x.b[0], LweQ, TorusQ)
      /\ y.a = [j \in Coeffs |-> Switched(A[j], LweQ, TorusQ)]
  BY DEF Extracted, Unrolled
<1>3. \A o \in Int : LET e == Switched(o, LweQ, TorusQ)
                     IN  e \in Int /\ Close(e * scale, o, q, half)
  BY <1>1, LoweredNear
<1>4. /\ x.a \in [Coeffs -> Int] /\ x.b \in [Coeffs -> Int] /\ 0 \in Coeffs
      /\ Coeffs = 0 .. N - 1 /\ N \in Nat \ {0}
  BY DegreeIs DEF Sample, Poly
<1>5. /\ \A j \in 0 .. N - 1 : A[j] \in Int
      /\ Dot(A, z, N) \in Int /\ Times(x.a, z)[0] = Dot(A, z, N)
  BY <1>4, UnrolledDot
<1> HIDE DEF y, A
<1>6. \A j \in 0 .. N - 1 : y.a[j] \in Int /\ A[j] \in Int /\ Close(y.a[j] * scale, A[j], q, half)
  <2> SUFFICES ASSUME NEW j \in 0 .. N - 1
               PROVE  y.a[j] \in Int /\ A[j] \in Int /\ Close(y.a[j] * scale, A[j], q, half)
    OBVIOUS
  <2>1. A[j] \in Int /\ y.a[j] = Switched(A[j], LweQ, TorusQ)
    BY <1>2, <1>4, <1>5
  <2> QED
    BY <1>3, <2>1
<1>7. PICK b \in Int, o \in Int : b = y.b /\ o = x.b[0] /\ Close(b * scale, o, q, half)
  BY <1>2, <1>3, <1>4
<1>8. Lwe(y, N)
  <2>1. y.a \in [0 .. N - 1 -> Int]
    BY <1>2, <1>4, <1>6
  <2> QED
    BY <1>2, <1>7, <2>1 DEF Lwe
<1>9. PICK e \in Int, f \in Int, w \in Nat :
        /\ f = o - Dot(A, z, N) /\ e = (b - Dot(y.a, z, N)) * scale
        /\ w = Sum(N, z) /\ (1 + w) * half \in Nat /\ Close(e, f, q, (1 + w) * half)
        /\ Dot(y.a, z, N) \in Int
  <2>1. q \in Int /\ N \in Nat /\ z \in [0 .. N - 1 -> {0, 1}]
    BY <1>4
  <2>2. Rounded(N, y.a, A, q, scale, half)
    BY <1>6 DEF Rounded
  <2>3. /\ Dot(y.a, z, N) \in Int /\ Sum(N, z) \in Nat /\ (1 + Sum(N, z)) * half \in Nat
        /\ (b - Dot(y.a, z, N)) * scale \in Int
        /\ Close((b - Dot(y.a, z, N)) * scale, o - Dot(A, z, N), q, (1 + Sum(N, z)) * half)
    BY <1>7, <2>1, <2>2, RoundedPhase
  <2>4. o - Dot(A, z, N) \in Int
    BY <1>5
  <2> QED
    BY <2>3, <2>4
<1>10. Close(e, f, q, (1 + N) * half) /\ (1 + N) * half \in Nat
  <2>1. w <= N
    BY <1>4, <1>9, SumOfBits
  <2>2. (1 + N) * half \in Nat /\ (1 + w) * half <= (1 + N) * half
    <3>0. N - w \in Nat /\ N = w + (N - w)
      BY <1>4, <2>1
    <3>1. PICK o1 \in Nat : N = w + o1
      BY <3>0
    <3>2. (1 + N) * half = (1 + w) * half + o1 * half /\ o1 * half \in Nat
      BY <3>1, SMT
    <3> QED
      BY <1>9, <3>2
  <2>3. q \in Int
    OBVIOUS
  <2> QED
    BY <1>9, <2>2, <2>3, CloseWithin
<1>11. Phase(x, z)[0] = Centre(f, q)
  <2>1. Minus(x.b, Times(x.a, z))[0] = o - Times(x.a, z)[0]
    BY <1>4, <1>7 DEF Minus
  <2> QED
    BY <1>1, <1>4, <1>5, <1>9, <2>1 DEF Phase, OnTorus
<1>12. Centre(f, q) \in Int /\ Close(e, Centre(f, q), q, (1 + N) * half)
  BY <1>10, CentreKeeps
<1> QED
  BY <1>1, <1>7, <1>8, <1>9, <1>11, <1>12 DEF y

\* Extraction and the switch to another key keep the phase.
LEMMA SwitchedPhase ==
  ASSUME DrawsNumbers, NEW tag \in Int, NEW k \in Nat, NEW z \in [Coeffs -> {0, 1}],
         NEW t \in [0 .. k - 1 -> {0, 1}], NEW x \in Sample
  PROVE  LET y == KeySwitched(Extracted(x), EncKsk(tag, z, t, k), k)
         IN  /\ LwePhase(y, t) \in Int
             /\ Near(LwePhase(y, t) * Ratio, Phase(x, z)[0], TorusQ, SwitchLoss)
<1> DEFINE u == Extracted(x)
           y == KeySwitched(u, EncKsk(tag, z, t, k), k)
<1>1. /\ Lwe(u, N) /\ Dot(u.a, z, N) \in Int /\ Phase(x, z)[0] \in Int
      /\ Close((u.b - Dot(u.a, z, N)) * Ratio, Phase(x, z)[0], TorusQ, (1 + N) * (Ratio \div 2))
  BY ExtractedPhase
<1> HIDE DEF u
<1>2. /\ Lwe(y, k) /\ Dot(y.a, t, k) \in Int
      /\ Close(y.b - Dot(y.a, t, k), u.b - Dot(u.a, z, N), LweQ, N * KsBound)
  BY <1>1, KeySwitchNear
<1> HIDE DEF y
<1>3. PICK q \in Nat \ {0}, r \in Nat \ {0}, p \in Nat \ {0}, half \in Nat :
        q = LweQ /\ r = Ratio /\ p = TorusQ /\ half = Ratio \div 2 /\ p = q * r
  <2>1. /\ Ratio \in Nat \ {0} /\ LweQ \in Nat \ {0} /\ TorusQ \in Nat \ {0}
        /\ TorusQ = Ratio * LweQ
    BY RatioIs, AlgebraAssumption
  <2>2. Ratio * LweQ = LweQ * Ratio /\ Ratio \div 2 \in Nat
    BY <2>1
  <2> QED
    BY <2>1, <2>2
<1>4. PICK b1 \in Nat, b2 \in Nat : b1 = N * KsBound /\ b2 = (1 + N) * half
  <2>1. PICK d \in Nat, c \in Nat : d = N /\ c = KsBound
    BY DegreeIs, KsWeighs
  <2>2. d * c \in Nat /\ (1 + d) * half \in Nat
    BY SMT
  <2> QED
    BY <2>1, <2>2
<1>5. PICK e \in Int, f \in Int, g \in Int, o \in Int :
        /\ e = LwePhase(y, t) /\ f = y.b - Dot(y.a, t, k) /\ g = u.b - Dot(u.a, z, N)
        /\ o = Phase(x, z)[0] /\ e = Centre(f, q)
  <2>1. u.b \in Int /\ y.b \in Int /\ y.n = k
    BY <1>1, <1>2 DEF Lwe
  <2>2. PICK f \in Int, g \in Int : f = y.b - Dot(y.a, t, k) /\ g = u.b - Dot(u.a, z, N)
    BY <1>1, <1>2, <2>1
  <2>3. LwePhase(y, t) = Centre(f, q)
    BY <1>3, <2>1, <2>2 DEF LwePhase
  <2>4. Centre(f, q) \in Int
    BY CentreClose
  <2> QED
    BY <1>1, <2>2, <2>3, <2>4
<1>6. q \in Int /\ p \in Int /\ 0 \in Nat /\ r \in Nat
  OBVIOUS
<1>7. Close(e, g, q, 0 + b1) /\ 0 + b1 = b1
  <2>1. Close(e, f, q, 0)
    BY <1>5, CentreClose
  <2>2. Close(f, g, q, b1)
    BY <1>2, <1>3, <1>4, <1>5
  <2> QED
    BY <1>6, <2>1, <2>2, CloseThrough
<1>8. Close(e * r, g * r, q * r, b1 * r) /\ b1 * r \in Nat
  BY <1>6, <1>7, CloseTimes
<1>9. PICK er \in Int, gr \in Int, br \in Nat : er = e * r /\ gr = g * r /\ br = b1 * r
  BY <1>8, SMT
<1>10. Close(er, gr, p, br)
  BY <1>3, <1>8, <1>9
<1>11. Close(gr, o, p, b2)
  BY <1>1, <1>3, <1>4, <1>5, <1>9
<1>12. Close(er, o, p, br + b2) /\ br + b2 \in Nat
  BY <1>6, <1>10, <1>11, CloseThrough
<1>13. Near(er, o, p, br + b2)
  BY <1>12, CloseNear
<1>14. br + b2 = SwitchLoss
  <2>1. SwitchLoss = N * (KsLevel * KsHalf + KsWeight(KsLevel - 1) \div 2) * Ratio
                       + (1 + N) * (Ratio \div 2)
    BY DEF SwitchLoss, Ratio
  <2> QED
    BY <1>3, <1>4, <1>9, <2>1 DEF KsBound
<1> QED
  BY <1>3, <1>5, <1>9, <1>13, <1>14 DEF u, y

(***************************************************************************)
(* Polynomials and samples keep their types.                               *)
(***************************************************************************)
LEMMA SumTyped ==
  ASSUME NEW k \in Nat, NEW f, \A j \in 0 .. k - 1 : f[j] \in Int PROVE Sum(k, f) \in Int
<1>1. \A j \in Nat : j < k => f[j] \in Int
  OBVIOUS
<1>2. k \in Nat /\ k <= k
  OBVIOUS
<1> QED
  BY <1>1, <1>2, SumSteps

\* A polynomial has numbers as coefficients.
LEMMA CoeffTyped == ASSUME NEW p \in Poly, NEW o \in Coeffs PROVE p[o] \in Int
BY DEF Poly

\* A sample has two polynomials.
LEMMA SampleIs == ASSUME NEW x \in Sample PROVE x.a \in Poly /\ x.b \in Poly
BY DEF Sample

\* Moduli and degree are positive.
LEMMA Units ==
  /\ N \in Nat \ {0} /\ TorusQ \in Nat \ {0} /\ NttQ \in Nat \ {0} /\ LweQ \in Nat \ {0}
  /\ MessageP \in Nat \ {0} /\ Coeffs = 0 .. N - 1 /\ 0 \in Coeffs /\ Coeffs \subseteq Int
BY AlgebraAssumption, RingAssumption, DegreeIs

\* What makes polynomials out of polynomials.
LEMMA ZeroTyped == Zero \in Poly
BY DEF Zero, Poly

LEMMA ConstantTyped == ASSUME NEW c \in Int PROVE Constant(c) \in Poly
BY ZeroTyped DEF Constant, Poly

LEMMA OnTorusTyped == ASSUME NEW p \in Poly PROVE OnTorus(p) \in Poly
<1>1. \A o \in Coeffs : Centre(p[o], TorusQ) \in Int
  BY CoeffTyped, Units, CentreIs
<1> QED
  BY <1>1 DEF OnTorus, Poly

LEMMA PlusTyped == ASSUME NEW p \in Poly, NEW q \in Poly PROVE Plus(p, q) \in Poly
BY DEF Plus, Poly

LEMMA MinusTyped == ASSUME NEW p \in Poly, NEW q \in Poly PROVE Minus(p, q) \in Poly
BY DEF Minus, Poly

LEMMA TimesTyped == ASSUME NEW p \in Poly, NEW q \in Poly PROVE Times(p, q) \in Poly
<1> SUFFICES ASSUME NEW o \in Coeffs
             PROVE  Sum(N, [j \in Coeffs |-> p[j] * (IF j <= o THEN q[o - j] ELSE -q[N + o - j])]) \in Int
  BY DEF Times, Poly
<1> DEFINE f == [j \in Coeffs |-> p[j] * (IF j <= o THEN q[o - j] ELSE -q[N + o - j])]
<1>1. \A j \in 0 .. N - 1 : f[j] \in Int
  <2> SUFFICES ASSUME NEW j \in 0 .. N - 1 PROVE f[j] \in Int
    OBVIOUS
  <2>1. j \in Coeffs /\ p[j] \in Int
    BY Units, CoeffTyped
  <2>2. (IF j <= o THEN q[o - j] ELSE -q[N + o - j]) \in Int
    <3>1. CASE j <= o
      <4>1. o - j \in Coeffs
        BY <3>1, Units
      <4> QED
        BY <3>1, <4>1, CoeffTyped
    <3>2. CASE ~(j <= o)
      <4>1. N + o - j \in Coeffs
        BY <3>2, Units
      <4> QED
        BY <3>2, <4>1, CoeffTyped
    <3> QED
      BY <3>1, <3>2
  <2>3. PICK u \in Int, w \in Int : u = p[j] /\ w = IF j <= o THEN q[o - j] ELSE -q[N + o - j]
    BY <2>1, <2>2
  <2>4. f[j] = u * w /\ u * w \in Int
    BY <2>1, <2>3, SMT
  <2> QED
    BY <2>4
<1> HIDE DEF f
<1>2. Sum(N, f) \in Int
  BY <1>1, Units, SumTyped
<1> QED
  BY <1>2 DEF f

LEMMA RotatedTyped == ASSUME NEW x \in Int, NEW p \in Poly PROVE Rotated(x, p) \in Poly
<1>1. PICK m \in Nat \ {0}, t \in Nat \ {0} : m = N /\ t = 2 * N
  BY Units
<1>2. PICK turn \in Int, by \in 0 .. N - 1 : turn = x % (2 * N) /\ by = turn % N
  <2>1. x % t \in Int
    BY DivMod
  <2>2. (x % t) % m \in 0 .. m - 1
    BY <2>1, DivMod
  <2> QED
    BY <1>1, <2>1, <2>2
<1>3. PICK wrap \in Int : wrap = IF turn < N THEN 1 ELSE -1
  OBVIOUS
<1>4. Rotated(x, p) = [o \in Coeffs |-> wrap * (IF o < by THEN -p[o - by + N] ELSE p[o - by])]
  BY <1>2, <1>3 DEF Rotated
<1>5. \A o \in Coeffs : wrap * (IF o < by THEN -p[o - by + N] ELSE p[o - by]) \in Int
  <2> SUFFICES ASSUME NEW o \in Coeffs
               PROVE  wrap * (IF o < by THEN -p[o - by + N] ELSE p[o - by]) \in Int
    OBVIOUS
  <2>1. (IF o < by THEN -p[o - by + N] ELSE p[o - by]) \in Int
    <3>1. CASE o < by
      <4>1. o - by + N \in Coeffs
        BY <3>1, Units
      <4> QED
        BY <3>1, <4>1, CoeffTyped
    <3>2. CASE ~(o < by)
      <4>1. o - by \in Coeffs
        BY <3>2, Units
      <4> QED
        BY <3>2, <4>1, CoeffTyped
    <3> QED
      BY <3>1, <3>2
  <2>2. PICK w \in Int : w = IF o < by THEN -p[o - by + N] ELSE p[o - by]
    BY <2>1
  <2>3. wrap * w \in Int
    OBVIOUS
  <2> QED
    BY <2>2, <2>3
<1> QED
  BY <1>4, <1>5 DEF Poly

LEMMA RotatedMinusOneTyped ==
  ASSUME NEW x \in Int, NEW p \in Poly PROVE RotatedMinusOne(x, p) \in Poly
BY RotatedTyped, MinusTyped DEF RotatedMinusOne

LEMMA NttTyped == ASSUME NEW p \in Poly PROVE Ntt(p) \in Poly
<1>1. \A o \in Coeffs : p[o] % NttQ \in Int
  <2>1. \A u \in Int : u % NttQ \in Int
    BY Units, DivMod
  <2> QED
    BY <2>1, CoeffTyped
<1> QED
  BY <1>1 DEF Ntt, Poly

LEMMA InttTyped == ASSUME NEW p \in Poly PROVE Intt(p) \in Poly
<1>1. \A o \in Coeffs : Centre(Centre(p[o], NttQ), TorusQ) \in Int
  BY CoeffTyped, Units, CentreIs
<1> QED
  BY <1>1 DEF Intt, Poly

(***************************************************************************)
(* What is drawn.                                                          *)
(***************************************************************************)
LEMMA MaskTyped ==
  ASSUME DrawsNumbers, NEW tag \in Int, NEW q \in Nat \ {0} PROVE Mask(tag, q) \in Poly
<1>1. \A o \in Coeffs : Centre(Draw(tag, N + o), q) \in Int
  <2> SUFFICES ASSUME NEW o \in Coeffs PROVE Centre(Draw(tag, N + o), q) \in Int
    OBVIOUS
  <2>1. N + o \in Int
    BY Units
  <2>2. Draw(tag, N + o) \in Int
    BY <2>1 DEF DrawsNumbers
  <2> QED
    BY <2>2, CentreIs
<1> QED
  BY <1>1 DEF Mask, Poly

\* A message with noise on it is a polynomial.
LEMMA NoisyTyped ==
  ASSUME DrawsNumbers, NEW tag \in Int, NEW p \in Poly PROVE Noisy(tag, p) \in Poly
<1>1. [o \in Coeffs |-> p[o] + Noise(tag, o)] \in Poly
  <2>1. \A o \in Coeffs : p[o] + Noise(tag, o) \in Int
    <3> SUFFICES ASSUME NEW o \in Coeffs PROVE p[o] + Noise(tag, o) \in Int
      OBVIOUS
    <3>1. p[o] \in Int /\ o \in Int
      BY CoeffTyped, Units
    <3>2. Noise(tag, o) \in -1 .. 1
      BY <3>1, NoiseIs
    <3> QED
      BY <3>1, <3>2
  <2> QED
    BY <2>1 DEF Poly
<1> QED
  BY <1>1, OnTorusTyped DEF Noisy

Bits == [Coeffs -> {0, 1}]

\* So is a key.
LEMMA BitsArePoly == ASSUME NEW z \in Bits PROVE z \in Poly
BY DEF Bits, Poly

\* The three encryptions give samples.
LEMMA EncTorusTyped ==
  ASSUME DrawsNumbers, NEW tag \in Int, NEW p \in Poly, NEW z \in Bits
  PROVE  EncTorus(tag, p, z) \in Sample
<1>1. PICK a \in Poly : a = Mask(tag, TorusQ)
  BY MaskTyped, Units
<1>2. OnTorus(Plus(Noisy(tag, p), Times(a, z))) \in Poly
  BY BitsArePoly, NoisyTyped, TimesTyped, PlusTyped, OnTorusTyped
<1> QED
  BY <1>1, <1>2 DEF EncTorus, Sample

LEMMA EncNttTyped ==
  ASSUME DrawsNumbers, NEW tag \in Int, NEW p \in Poly, NEW z \in Bits
  PROVE  EncNtt(tag, p, z) \in Sample
<1>1. PICK a \in Poly : a = Mask(tag, TorusQ)
  BY MaskTyped, Units
<1>2. Ntt(Plus(Noisy(tag, p), Times(a, z))) \in Poly /\ Ntt(a) \in Poly
  BY BitsArePoly, NoisyTyped, TimesTyped, PlusTyped, NttTyped
<1> QED
  BY <1>1, <1>2 DEF EncNtt, Sample

LEMMA EncSimpleTyped ==
  ASSUME DrawsNumbers, NEW tag \in Int, NEW p \in Poly, NEW z \in Bits
  PROVE  EncSimple(tag, p, z) \in Sample
<1>1. PICK a \in Poly : a = Ntt(Mask(tag, NttQ))
  BY MaskTyped, NttTyped, Units
<1>2. Ntt(Plus(Noisy(tag, p), Times(a, z))) \in Poly
  BY BitsArePoly, NoisyTyped, TimesTyped, PlusTyped, NttTyped
<1> QED
  BY <1>1, <1>2 DEF EncSimple, Sample

(***************************************************************************)
(* Rows of the gadget, products, and the switch of schemes.                *)
(***************************************************************************)
RowType == [c : Sample, cPrime : Sample]

\* The first k values of f are in T.
AllIn(f, k, T) == \A lvl \in 0 .. k - 1 : f[lvl] \in T

\* A gadget has levels, and each a positive weight.
LEMMA Levels ==
  /\ L \in Nat \ {0} /\ RadixHalf \in Nat \ {0} /\ DigitHalf \in Nat \ {0}
  /\ Level \in 1 .. L /\ LApprox \in 1 .. L
  /\ \A o \in 0 .. L - 1 : GadgetWeight(o) \in Nat \ {0} /\ GadgetWeights[o] = GadgetWeight(o)
BY GadgetAssumption, KeyAssumption DEF GadgetWeights

\* Tags are numbers.
LEMMA RowIs == ASSUME NEW tag \in Int, NEW o \in Int PROVE Row(tag, o) \in Int /\ Row(tag, o) + 1 \in Int
BY DEF Row

\* A scaled bit is a number.
LEMMA ScaledTyped == ASSUME NEW w \in Int, NEW o \in 0 .. L - 1 PROVE Scaled(w, o) \in Int
<1>1. PICK u \in Int : u = GadgetWeight(o)
  BY Levels
<1>2. PICK p \in Int : p = w * u
  BY SMT
<1> QED
  BY <1>1, <1>2, Units, CentreIs DEF Scaled

\* Keys of the external product are rows of two samples.
LEMMA EncTrgswTyped ==
  ASSUME DrawsNumbers, NEW tag \in Int, NEW w \in Int, NEW z \in Bits
  PROVE  AllIn(EncTrgsw(tag, w, z), L, RowType)
<1> SUFFICES ASSUME NEW lvl \in 0 .. L - 1 PROVE EncTrgsw(tag, w, z)[lvl] \in RowType
  BY DEF AllIn
<1>1. PICK c \in Sample, d \in Sample :
        c = EncNtt(Row(tag, lvl), Zero, z) /\ d = EncNtt(Row(tag, lvl) + 1, Zero, z)
  BY RowIs, ZeroTyped, EncNttTyped, Levels
<1>2. PICK e \in Poly : e = Constant(Scaled(w, lvl))
  BY ScaledTyped, ConstantTyped
<1>3. PICK f \in Poly, g \in Poly : f = Ntt(OnTorus(Plus(Intt(c.a), e))) /\ g = Ntt(OnTorus(Plus(Intt(d.b), e)))
  BY SampleIs, InttTyped, PlusTyped, OnTorusTyped, NttTyped
<1>4. EncTrgsw(tag, w, z)[lvl] = [c |-> [c EXCEPT !.a = f], cPrime |-> [d EXCEPT !.b = g]]
  BY <1>1, <1>2, <1>3 DEF EncTrgsw
<1>5. [c EXCEPT !.a = f] \in Sample /\ [d EXCEPT !.b = g] \in Sample
  BY DEF Sample
<1> QED
  BY <1>4, <1>5 DEF RowType

\* The rows of the other keys are rows.
LEMMA EncTrgswMPTyped ==
  ASSUME DrawsNumbers, NEW tag \in Int, NEW w \in Int, NEW z \in Bits
  PROVE  AllIn(EncTrgswMP(tag, w, z, Level), Level, RowType)
<1> SUFFICES ASSUME NEW lvl \in 0 .. Level - 1 PROVE EncTrgswMP(tag, w, z, Level)[lvl] \in RowType
  BY DEF AllIn
<1>1. lvl \in 0 .. L - 1 /\ lvl \in Int
  BY Levels
<1>2. PICK e \in Poly : e = Constant(Scaled(w, lvl))
  BY <1>1, ScaledTyped, ConstantTyped
<1>3. PICK c \in Sample, d \in Sample :
        c = EncSimple(Row(tag, lvl), Zero, z) /\ d = EncSimple(Row(tag, lvl) + 1, e, z)
  BY <1>1, RowIs, ZeroTyped, EncSimpleTyped
<1>4. PICK f \in Poly : f = Ntt(Plus(c.a, e))
  BY SampleIs, PlusTyped, NttTyped
<1>5. EncTrgswMP(tag, w, z, Level)[lvl] = [c |-> [c EXCEPT !.a = f], cPrime |-> d]
  BY <1>2, <1>3, <1>4 DEF EncTrgswMP
<1>6. [c EXCEPT !.a = f] \in Sample
  BY DEF Sample
<1> QED
  BY <1>5, <1>6 DEF RowType

\* The rows of the square of the key are samples.
LEMMA EncSquareTyped ==
  ASSUME DrawsNumbers, NEW tag \in Int, NEW z \in Bits PROVE AllIn(EncSquare(tag, z), L, Sample)
<1> SUFFICES ASSUME NEW lvl \in 0 .. L - 1 PROVE EncSquare(tag, z)[lvl] \in Sample
  BY DEF AllIn
<1>1. PICK x \in Sample : x = EncTorus(Row(tag, lvl), Zero, z)
  BY RowIs, ZeroTyped, EncTorusTyped, Levels
<1>2. PICK shift \in Poly : shift = [j \in Coeffs |-> z[j] * GadgetWeight(lvl)]
  <2>1. PICK w \in Int : w = GadgetWeight(lvl)
    BY Levels
  <2>2. \A j \in Coeffs : z[j] * w \in Int
    <3> SUFFICES ASSUME NEW j \in Coeffs PROVE z[j] * w \in Int
      OBVIOUS
    <3>1. z[j] \in {0, 1}
      BY DEF Bits
    <3> QED
      BY <3>1
  <2> QED
    BY <2>1, <2>2 DEF Poly
<1>3. PICK f \in Poly, g \in Poly : f = Ntt(OnTorus(Minus(x.a, shift))) /\ g = Ntt(x.b)
  BY SampleIs, MinusTyped, OnTorusTyped, NttTyped
<1>4. EncSquare(tag, z)[lvl] = [a |-> f, b |-> g]
  BY <1>1, <1>2, <1>3 DEF EncSquare
<1> QED
  BY <1>4 DEF Sample

\* A polynomial is decomposed into polynomials, a sample into samples.
LEMMA DecomposedPolyTyped ==
  ASSUME NEW p \in Poly, NEW k \in 1 .. L PROVE AllIn(DecomposedPoly(p, k), k, Poly)
<1> SUFFICES ASSUME NEW lvl \in 0 .. k - 1 PROVE DecomposedPoly(p, k)[lvl] \in Poly
  BY DEF AllIn
<1>1. DecomposedPoly(p, k)[lvl] = [j \in Coeffs |-> DigitsOf(RadixHalf, GadgetWeights, k, p[j])[lvl]]
  BY GadgetDigits, Zenon DEF DecomposedPoly
<1>2. \A j \in Coeffs : DigitsOf(RadixHalf, GadgetWeights, k, p[j])[lvl] \in Int
  <2> SUFFICES ASSUME NEW j \in Coeffs PROVE DigitsOf(RadixHalf, GadgetWeights, k, p[j])[lvl] \in Int
    OBVIOUS
  <2>1. p[j] \in Int
    BY CoeffTyped
  <2>2. k \in Nat \ {0} /\ \A o \in 0 .. k - 1 : GadgetWeights[o] \in Nat \ {0}
    BY Levels
  <2>3. RadixHalf \in Nat \ {0}
    BY Levels
  <2>4. DigitsOf(RadixHalf, GadgetWeights, k, p[j]) \in [0 .. k - 1 -> -RadixHalf .. RadixHalf]
    BY <2>1, <2>2, <2>3, DigitsAre
  <2> QED
    BY <2>3, <2>4
<1> QED
  BY <1>1, <1>2 DEF Poly

LEMMA DecomposedTyped ==
  ASSUME NEW x \in Sample, NEW k \in 1 .. L PROVE AllIn(Decomposed(x, k), k, Sample)
<1> SUFFICES ASSUME NEW lvl \in 0 .. k - 1 PROVE Decomposed(x, k)[lvl] \in Sample
  BY DEF AllIn
<1>1. DecomposedPoly(x.a, k)[lvl] \in Poly /\ DecomposedPoly(x.b, k)[lvl] \in Poly
  BY SampleIs, DecomposedPolyTyped DEF AllIn
<1> QED
  BY <1>1 DEF Decomposed, Sample

\* Products of samples and rows, and their sums, are samples.
LEMMA PartialTyped ==
  ASSUME NEW d \in Sample, NEW row \in RowType PROVE Partial(d, row) \in Sample
<1>1. row.c \in Sample /\ row.cPrime \in Sample
  BY DEF RowType
<1>2. /\ Ntt(Plus(Times(d.a, row.c.a), Times(d.b, row.cPrime.a))) \in Poly
      /\ Ntt(Plus(Times(d.a, row.c.b), Times(d.b, row.cPrime.b))) \in Poly
  BY <1>1, SampleIs, TimesTyped, PlusTyped, NttTyped
<1> QED
  BY <1>2 DEF Partial, Sample

LEMMA SumOfTyped ==
  ASSUME NEW f, NEW k \in Nat, AllIn(f, k, Sample) PROVE SumOf(f, k) \in Sample
<1>1. \A lvl \in 0 .. k - 1 : \A j \in Coeffs : f[lvl].a[j] \in Int /\ f[lvl].b[j] \in Int
  BY CoeffTyped, SampleIs DEF AllIn
<1>2. \A j \in Coeffs : Sum(k, [o \in 0 .. k - 1 |-> f[o].a[j]]) \in Int
  <2> SUFFICES ASSUME NEW j \in Coeffs PROVE Sum(k, [o \in 0 .. k - 1 |-> f[o].a[j]]) \in Int
    OBVIOUS
  <2> DEFINE g == [o \in 0 .. k - 1 |-> f[o].a[j]]
  <2>1. \A o \in 0 .. k - 1 : g[o] \in Int
    BY <1>1
  <2> HIDE DEF g
  <2>2. Sum(k, g) \in Int
    BY <2>1, SumTyped
  <2> QED
    BY <2>2 DEF g
<1>3. \A j \in Coeffs : Sum(k, [o \in 0 .. k - 1 |-> f[o].b[j]]) \in Int
  <2> SUFFICES ASSUME NEW j \in Coeffs PROVE Sum(k, [o \in 0 .. k - 1 |-> f[o].b[j]]) \in Int
    OBVIOUS
  <2> DEFINE g == [o \in 0 .. k - 1 |-> f[o].b[j]]
  <2>1. \A o \in 0 .. k - 1 : g[o] \in Int
    BY <1>1
  <2> HIDE DEF g
  <2>2. Sum(k, g) \in Int
    BY <2>1, SumTyped
  <2> QED
    BY <2>2 DEF g
<1>4. PICK p \in Poly, q \in Poly :
        /\ p = [j \in Coeffs |-> Sum(k, [o \in 0 .. k - 1 |-> f[o].a[j]])]
        /\ q = [j \in Coeffs |-> Sum(k, [o \in 0 .. k - 1 |-> f[o].b[j]])]
  BY <1>2, <1>3 DEF Poly
<1>5. SumOf(f, k) = [a |-> Intt(p), b |-> Intt(q)]
  BY <1>4 DEF SumOf
<1> QED
  BY <1>5, InttTyped DEF Sample

\* So is the first component that is derived from its key.
LEMMA DerivedTyped ==
  ASSUME NEW p \in Poly, NEW k \in 1 .. L, NEW f, AllIn(f, k, Sample)
  PROVE  Derived(p, f, k) \in Sample
<1> DEFINE g == [o \in 0 .. k - 1 |->
                   [a |-> Ntt(Times(DecomposedPoly(p, k)[o], Ntt(f[o].a))),
                    b |-> Ntt(Times(DecomposedPoly(p, k)[o], Ntt(f[o].b)))]]
<1>1. AllIn(g, k, Sample)
  <2> SUFFICES ASSUME NEW o \in 0 .. k - 1 PROVE g[o] \in Sample
    BY DEF AllIn
  <2>1. PICK d \in Poly, x \in Sample : d = DecomposedPoly(p, k)[o] /\ x = f[o]
    BY DecomposedPolyTyped DEF AllIn
  <2>2. Ntt(Times(d, Ntt(x.a))) \in Poly /\ Ntt(Times(d, Ntt(x.b))) \in Poly
    BY SampleIs, NttTyped, TimesTyped
  <2> QED
    BY <2>1, <2>2 DEF Sample
<1>2. Derived(p, f, k) = SumOf(g, k)
  BY DEF Derived
<1> HIDE DEF g
<1>3. k \in Nat
  BY Levels
<1> QED
  BY <1>1, <1>2, <1>3, SumOfTyped

\* Digits put together make a polynomial.
LEMMA RecomposedTyped ==
  ASSUME NEW f, AllIn(f, L, Poly) PROVE Recomposed(f) \in Poly
<1>1. \A j \in Coeffs : Sum(L, [o \in 0 .. L - 1 |-> f[o][j] * GadgetWeight(o)]) \in Int
  <2> SUFFICES ASSUME NEW j \in Coeffs
               PROVE  Sum(L, [o \in 0 .. L - 1 |-> f[o][j] * GadgetWeight(o)]) \in Int
    OBVIOUS
  <2> DEFINE g == [o \in 0 .. L - 1 |-> f[o][j] * GadgetWeight(o)]
  <2>1. \A o \in 0 .. L - 1 : g[o] \in Int
    <3> SUFFICES ASSUME NEW o \in 0 .. L - 1 PROVE f[o][j] * GadgetWeight(o) \in Int
      OBVIOUS
    <3>0. f[o][j] \in Int /\ GadgetWeight(o) \in Int
      BY CoeffTyped, Levels DEF AllIn
    <3>1. PICK u \in Int, w \in Int : u = f[o][j] /\ w = GadgetWeight(o)
      BY <3>0
    <3>2. u * w \in Int
      BY SMT
    <3> QED
      BY <3>1, <3>2
  <2> HIDE DEF g
  <2>2. Sum(L, g) \in Int
    BY <2>1, Levels, SumTyped
  <2> QED
    BY <2>2 DEF g
<1>2. PICK p \in Poly : p = [j \in Coeffs |-> Sum(L, [o \in 0 .. L - 1 |-> f[o][j] * GadgetWeight(o)])]
  BY <1>1 DEF Poly
<1> QED
  BY <1>2, NttTyped DEF Recomposed

\* The switch of schemes gives a row.
LEMMA EmbeddingTyped ==
  ASSUME NEW f, AllIn(f, L, Poly), NEW x \in Sample, NEW g, AllIn(g, L, Sample)
  PROVE  Embedding(f, x, g) \in RowType
<1> DEFINE A == [o \in 0 .. L - 1 |-> Times(f[o], g[o].a)]
           Bs == [o \in 0 .. L - 1 |-> Times(f[o], g[o].b)]
           Over(h, j) == Sum(L, [o \in 0 .. L - 1 |-> h[o][j]])
<1>1. AllIn(A, L, Poly) /\ AllIn(Bs, L, Poly)
  BY SampleIs, TimesTyped DEF AllIn
<1> HIDE DEF A, Bs
<1>2. ASSUME NEW h, AllIn(h, L, Poly), NEW j \in Coeffs PROVE Over(h, j) \in Int
  <2> DEFINE e == [o \in 0 .. L - 1 |-> h[o][j]]
  <2>1. \A o \in 0 .. L - 1 : e[o] \in Int
    BY <1>2, CoeffTyped DEF AllIn
  <2> HIDE DEF e
  <2>2. Sum(L, e) \in Int
    BY <2>1, Levels, SumTyped
  <2> QED
    BY <2>2 DEF e
<1> HIDE DEF Over
<1>3. \A j \in Coeffs : Over(A, j) + x.b[j] \in Int /\ Over(Bs, j) \in Int
  BY <1>1, <1>2, SampleIs, CoeffTyped
<1>4. PICK p \in Poly, q \in Poly :
        p = [j \in Coeffs |-> Over(A, j) + x.b[j]] /\ q = [j \in Coeffs |-> Over(Bs, j)]
  BY <1>3 DEF Poly
<1>5. Embedding(f, x, g) = [c |-> [a |-> Ntt(p), b |-> Ntt(q)], cPrime |-> x]
  BY <1>4 DEF Embedding, A, Bs, Over
<1>6. [a |-> Ntt(p), b |-> Ntt(q)] \in Sample
  BY NttTyped DEF Sample
<1> QED
  BY <1>5, <1>6 DEF RowType

\* Digits that are turned stay digits.
LEMMA TurnedDigitsTyped ==
  ASSUME NEW w \in Int, NEW p \in Poly PROVE TurnedDigits(w, p) \in Poly
<1>1. PICK q \in Poly : q = RotatedMinusOne(w, p)
  BY RotatedMinusOneTyped
<1>2. PICK h \in Nat \ {0}, m \in Nat \ {0} : h = DigitHalf /\ m = 2 * DigitHalf
  BY Levels
<1>3. \A u \in Int : ((u + h) % m) - h \in Int
  <2> SUFFICES ASSUME NEW u \in Int PROVE ((u + h) % m) - h \in Int
    OBVIOUS
  <2>1. u + h \in Int
    OBVIOUS
  <2>2. (u + h) % m \in Int
    BY <2>1, DivMod
  <2> QED
    BY <2>2
<1>4. TurnedDigits(w, p) = [j \in Coeffs |-> ((q[j] + h) % m) - h]
  BY <1>1, <1>2 DEF TurnedDigits
<1> QED
  BY <1>3, <1>4, CoeffTyped DEF Poly

(***************************************************************************)
(* The test polynomials.                                                   *)
(***************************************************************************)
LEMMA ToTorusTyped ==
  ASSUME NEW w \in Int, NEW q \in Nat \ {0} PROVE ToTorus(w, q) \in Int
<1>0. Centre(w, MessageP) \in Int /\ q \div MessageP \in Int
  <2>1. MessageP \in Nat \ {0} /\ q \in Int
    BY Units
  <2> QED
    BY <2>1, CentreIs, DivMod
<1>1. PICK u \in Int, p \in Int : u = Centre(w, MessageP) /\ p = q \div MessageP
  BY <1>0
<1>2. u * p \in Int
  BY SMT
<1> QED
  BY <1>1, <1>2 DEF ToTorus

\* Tables give numbers.
LEMMA EntryTyped == ASSUME NEW f \in Tables, NEW w \in Int PROVE Entry(f, w) \in Int
<1>1. f.kind \in {"identity", "lt1", "leq0", "equal", "value"} /\ f.value \in Int
  BY DEF Tables
<1> QED
  BY <1>1 DEF Entry

\* A slot has a coefficient at least, and half of it is no longer than the polynomial.
LEMMA BoxIs == Box \in Nat \ {0} /\ Box \div 2 \in 0 .. N
<1>1. PICK d \in Nat \ {0}, p \in Nat \ {0}, m \in Nat \ {0} :
        d = N /\ p = MessageP /\ m = 2 * N /\ m % p = 0 /\ m = 2 * d
  <2>1. 2 * N \in Nat \ {0} /\ (2 * N) % MessageP = 0
    BY Units, AlgebraAssumption
  <2> QED
    BY <2>1, Units
<1>2. m \div p \in Int /\ m = p * (m \div p) + (m % p)
  BY DivMod
<1>3. PICK w \in Int : w = m \div p
  BY <1>2
<1>4. m = p * w
  BY <1>1, <1>2, <1>3
<1>5. w > 0
  BY <1>4, SMT
<1>6. w <= m
  <2>1. PICK o \in Nat : p = o + 1
    <3>1. p - 1 \in Nat
      OBVIOUS
    <3> QED
      BY <3>1
  <2>2. m = o * w + w /\ o * w >= 0
    BY <1>4, <1>5, <2>1, SMT
  <2> QED
    BY <2>2, SMT
<1>7. w \div 2 \in 0 .. d
  BY <1>1, <1>5, <1>6, SMT
<1> QED
  BY <1>1, <1>3, <1>5, <1>7 DEF Box

\* The test polynomials are polynomials.
LEMMA TestPolynomialTyped == ASSUME NEW f \in Tables PROVE TestPolynomial(f) \in Poly
<1>1. PICK half \in 0 .. N : half = Box \div 2
  BY BoxIs
<1>2. PICK t \in Poly : t = [o \in Coeffs |-> ToTorus(Entry(f, Centre(o \div Box, MessageP)), TorusQ)]
  <2>1. \A o \in Coeffs : ToTorus(Entry(f, Centre(o \div Box, MessageP)), TorusQ) \in Int
    <3> SUFFICES ASSUME NEW o \in Coeffs
                 PROVE  ToTorus(Entry(f, Centre(o \div Box, MessageP)), TorusQ) \in Int
      OBVIOUS
    <3>1. o \div Box \in Int
      BY BoxIs, Units, DivMod
    <3>2. Centre(o \div Box, MessageP) \in Int
      BY <3>1, Units, CentreIs
    <3>3. Entry(f, Centre(o \div Box, MessageP)) \in Int
      BY <3>2, EntryTyped
    <3> QED
      BY <3>3, Units, ToTorusTyped
  <2> QED
    BY <2>1 DEF Poly
<1>3. TestPolynomial(f) = [o \in Coeffs |-> IF o + half < N THEN t[o + half] ELSE -t[o + half - N]]
  BY <1>1, <1>2 DEF TestPolynomial
<1>4. \A o \in Coeffs : (IF o + half < N THEN t[o + half] ELSE -t[o + half - N]) \in Int
  <2> SUFFICES ASSUME NEW o \in Coeffs
               PROVE  (IF o + half < N THEN t[o + half] ELSE -t[o + half - N]) \in Int
    OBVIOUS
  <2>1. CASE o + half < N
    <3>1. o + half \in Coeffs
      BY <2>1, Units
    <3> QED
      BY <2>1, <3>1, CoeffTyped
  <2>2. CASE ~(o + half < N)
    <3>1. o + half - N \in Coeffs
      BY <2>2, Units
    <3> QED
      BY <2>2, <3>1, CoeffTyped
  <2> QED
    BY <2>1, <2>2
<1> QED
  BY <1>3, <1>4 DEF Poly

\* And the one made for a single value.
LEMMA TestPolynomialValueTyped == ASSUME NEW w \in Int PROVE TestPolynomialValue(w) \in Poly
<1>1. \A o \in Coeffs :
        ToTorus(IF o < Box \div 2 THEN w ELSE IF o >= N - Box \div 2 THEN -w ELSE 0, TorusQ) \in Int
  <2> SUFFICES ASSUME NEW o \in Coeffs
               PROVE  ToTorus(IF o < Box \div 2 THEN w ELSE IF o >= N - Box \div 2 THEN -w ELSE 0,
                              TorusQ) \in Int
    OBVIOUS
  <2>1. PICK u \in Int : u = IF o < Box \div 2 THEN w ELSE IF o >= N - Box \div 2 THEN -w ELSE 0
    OBVIOUS
  <2>2. ToTorus(u, TorusQ) \in Int
    BY Units, ToTorusTyped
  <2> QED
    BY <2>1, <2>2
<1> QED
  BY <1>1 DEF TestPolynomialValue, Poly

\* So is the one of the table at hand.
LEMMA VTyped == lut \in Tables => v \in Poly
<1> SUFFICES ASSUME lut \in Tables PROVE v \in Poly
  OBVIOUS
<1>1. lut.value \in Int
  BY DEF Tables
<1> QED
  BY <1>1, TestPolynomialTyped, TestPolynomialValueTyped DEF v

(***************************************************************************)
(* The invariant.  The key holds samples in the form of its scheme, and    *)
(* the switching key is the one of the two keys; the accumulator and what  *)
(* a product is made of are samples; and the results are those of the      *)
(* accumulator.                                                            *)
(***************************************************************************)
SplitType(p) == AllIn(p.digits, L, Poly) /\ p.b \in Poly
TurnedType(p) == AllIn(p.a, L, Poly) /\ AllIn(p.b, L, Poly)

PartTyped(p) ==
    /\ Classic => AllIn(p, L, RowType)
    /\ scheme \in {"mp21", "opt", "preRot"} => AllIn(p, Level, RowType)
    /\ scheme \in {"wwl24", "wwl24Alt", "pipeAlt", "noFirst"} => AllIn(p, Level, Sample)
    /\ scheme = "lazy" => \A lvl \in 0 .. Level - 1 : SplitType(p[lvl])
    /\ scheme = "pipe" => \A lvl \in 0 .. Level - 1 : TurnedType(p[lvl])

KeyTyped ==
    /\ \A c \in 0 .. n - 1 : c % Group = 0 => \A k \in 0 .. Parts - 1 : PartTyped(key.parts[c][k])
    /\ key.first[0] \in Sample /\ key.first[1] \in Sample
    /\ AllIn(key.square, L, Sample)
    /\ key.ksk = EncKsk(5000, RingKey, s, n)

Working == pc \in {"component", "multiply", "accumulate", "extracted", "done"}

Sampled ==
    /\ <<scheme, lut>> \in Cases
    /\ s \in [0 .. n - 1 -> {0, 1}]
    /\ calls \in Nat
    /\ Working => input = Rescaled(sample) /\ Lwe(sample, n)

Held ==
    /\ pc # "keygen" => KeyTyped
    /\ i \in Nat /\ i % Group = 0
    /\ Working => acc \in Sample
    /\ pc = "multiply" => i < n /\ AllIn(rows, Used, RowType) /\ AllIn(digits, Used, Sample)
    /\ pc = "accumulate" => AllIn(partials, Used, Sample)
    /\ pc \in {"extracted", "done"} => extracted = Extracted(acc)
    /\ pc = "done" => result = KeySwitched(extracted, key.ksk, n)

(***************************************************************************)
(* The key of a scheme.                                                    *)
(***************************************************************************)
\* What the constants give of a case.
LEMMA CaseIs ==
  Sampled => /\ n \in Nat \ {0} /\ n % Group = 0 /\ Group \in {1, 2, 3} /\ lut \in Tables
             /\ scheme \in Schemes /\ (scheme = "pipeAlt" => LApprox <= Level)
             /\ (Group > 1 <=> scheme \in {"group2", "group3"})
             /\ Parts \in {1, 2, 4, 8} /\ (Group > 1 => Parts = 2 ^ Group)
             /\ (FirstApart => Group = 1)
<1> SUFFICES ASSUME Sampled
             PROVE  /\ n \in Nat \ {0} /\ n % Group = 0 /\ Group \in {1, 2, 3} /\ lut \in Tables
                    /\ scheme \in Schemes /\ (scheme = "pipeAlt" => LApprox <= Level)
                    /\ (Group > 1 <=> scheme \in {"group2", "group3"})
                    /\ Parts \in {1, 2, 4, 8} /\ (Group > 1 => Parts = 2 ^ Group)
                    /\ (FirstApart => Group = 1)
  OBVIOUS
<1>1. PICK case \in Cases : case = <<scheme, lut>>
  BY DEF Sampled
<1>2. case[1] = scheme /\ case[2] = lut
  BY <1>1
<1>3. scheme \in Schemes /\ lut \in Tables
  BY <1>1, KeyAssumption
<1>4. n \in Nat \ {0} /\ n % Group = 0 /\ (scheme = "pipeAlt" => LApprox <= Level)
  BY <1>1, <1>2, KeyAssumption DEF n, Group
<1>5. /\ Group = IF scheme = "group2" THEN 2 ELSE IF scheme = "group3" THEN 3 ELSE 1
      /\ Group \in {1, 2, 3} /\ (Group > 1 <=> scheme \in {"group2", "group3"})
  BY DEF Group, GroupOf
<1>6. 2 ^ 2 = 4 /\ 2 ^ 3 = 8
  BY SMT
<1>7. Parts \in {1, 2, 4, 8} /\ (Group > 1 => Parts = 2 ^ Group)
  <2>1. CASE Group = 1
    BY <2>1 DEF Parts
  <2>2. CASE Group \in {2, 3}
    <3>1. Parts = 2 ^ Group
      BY <1>5, <2>2 DEF Parts
    <3> QED
      BY <1>6, <2>2, <3>1
  <2> QED
    BY <1>5, <2>1, <2>2
<1>8. FirstApart => Group = 1
  BY <1>5 DEF FirstApart
<1> QED
  BY <1>3, <1>4, <1>5, <1>7, <1>8

\* The ring key consists of bits.
LEMMA RingKeyIs == RingKey \in Bits /\ RingKey \in [Coeffs -> {0, 1}]
BY KeyAssumption DEF Bits

\* No product reads a level that the gadget does not have.
LEMMA UsedIs == Used \in 1 .. L
BY Levels DEF Used

\* What Generate puts into the parts.
LEMMA PrimeTyped ==
  ASSUME DrawsNumbers, Sampled, NEW c \in 0 .. n - 1, NEW lvl \in 0 .. Level - 1
  PROVE  EncNtt(Row(10 * c, lvl), Constant(Scaled(s[c], lvl)), RingKey) \in Sample
<1>1. lvl \in 0 .. L - 1 /\ lvl \in Int /\ c \in Int /\ 10 * c \in Int
  BY Levels, CaseIs
<1>2. s[c] \in Int
  BY DEF Sampled
<1>3. Constant(Scaled(s[c], lvl)) \in Poly
  BY <1>1, <1>2, ScaledTyped, ConstantTyped
<1>4. Row(10 * c, lvl) \in Int
  BY <1>1, RowIs
<1> QED
  BY <1>3, <1>4, RingKeyIs, EncNttTyped

\* Each scheme keeps its parts in its own form.
LEMMA PartKeyTyped ==
  ASSUME DrawsNumbers, Sampled, NEW c \in 0 .. n - 1, NEW k \in 0 .. Parts - 1
  PROVE  PartTyped(PartKey(c, k))
<1> DEFINE Prime(lvl) == EncNtt(Row(10 * c, lvl), Constant(Scaled(s[c], lvl)), RingKey)
<1>1. c \in Int /\ k \in Int /\ 10 * c \in Int /\ 10 * c + k \in Int
  BY CaseIs
<1>2. s[c] \in Int /\ 1 - s[c] \in Int /\ s[c] \in {0, 1}
  BY DEF Sampled
<1>3. \A lvl \in 0 .. Level - 1 : Prime(lvl) \in Sample
  BY PrimeTyped
<1>4. scheme \in Schemes /\ (Group > 1 <=> scheme \in {"group2", "group3"})
  BY CaseIs
<1>5. L \in 1 .. L
  BY Levels
<1> HIDE DEF Prime
<1>6. CASE scheme = "normal"
  <2>1. PartKey(c, k) = EncTrgsw(10 * c, s[c], RingKey)
    BY <1>4, <1>6 DEF PartKey
  <2>2. AllIn(PartKey(c, k), L, RowType)
    BY <1>1, <1>2, <2>1, RingKeyIs, EncTrgswTyped
  <2> QED
    BY <1>6, <2>2 DEF PartTyped, Classic
<1>7. CASE scheme \in {"group2", "group3"}
  <2>1. PICK w \in Int : w = IF Combined(c) = k THEN 1 ELSE 0
    OBVIOUS
  <2>2. PartKey(c, k) = EncTrgsw(10 * c + k, w, RingKey)
    BY <1>4, <1>7, <2>1 DEF PartKey
  <2>3. AllIn(PartKey(c, k), L, RowType)
    BY <1>1, <2>2, RingKeyIs, EncTrgswTyped
  <2> QED
    BY <1>7, <2>3 DEF PartTyped, Classic
<1>8. CASE scheme \in {"mp21", "opt", "preRot"}
  <2>1. PICK w \in Int, t \in Int : PartKey(c, k) = EncTrgswMP(t, w, RingKey, Level)
    <3>1. CASE scheme \in {"mp21", "opt"}
      <4>1. PartKey(c, k) = EncTrgswMP(10 * c, s[c], RingKey, Level)
        BY <1>4, <3>1 DEF PartKey
      <4> QED
        BY <1>1, <1>2, <4>1
    <3>2. CASE scheme = "preRot"
      <4>1. PICK w \in Int : w = IF k = 0 THEN s[c] ELSE 1 - s[c]
        BY <1>2
      <4>2. PartKey(c, k) = EncTrgswMP(10 * c + k, w, RingKey, Level)
        BY <1>4, <3>2, <4>1 DEF PartKey
      <4> QED
        BY <1>1, <4>2
    <3> QED
      BY <1>8, <3>1, <3>2
  <2>2. AllIn(PartKey(c, k), Level, RowType)
    BY <2>1, RingKeyIs, EncTrgswMPTyped
  <2> QED
    BY <1>8, <2>2 DEF PartTyped, Classic
<1>9. CASE scheme = "wwl24"
  <2>1. PartKey(c, k) = [lvl \in 0 .. Level - 1 |-> Prime(lvl)]
    BY <1>4, <1>9 DEF PartKey, Prime
  <2>2. AllIn(PartKey(c, k), Level, Sample)
    BY <1>3, <2>1 DEF AllIn
  <2> QED
    BY <1>9, <2>2 DEF PartTyped, Classic
<1>10. CASE scheme \in {"wwl24Alt", "pipeAlt", "noFirst"}
  <2>1. PartKey(c, k) = [lvl \in 0 .. Level - 1 |-> Each(Intt, Prime(lvl))]
    BY <1>4, <1>10 DEF PartKey, Prime
  <2>2. \A x \in Sample : Each(Intt, x) \in Sample
    BY SampleIs, InttTyped DEF Each, Sample
  <2>3. AllIn(PartKey(c, k), Level, Sample)
    BY <1>3, <2>1, <2>2 DEF AllIn
  <2> QED
    BY <1>10, <2>3 DEF PartTyped, Classic
<1>11. CASE scheme = "lazy"
  <2>1. PartKey(c, k) = [lvl \in 0 .. Level - 1 |->
                          [digits |-> DecomposedPoly(Intt(Prime(lvl).a), L), b |-> Prime(lvl).b]]
    BY <1>4, <1>11 DEF PartKey, Prime
  <2>2. \A lvl \in 0 .. Level - 1 : SplitType(PartKey(c, k)[lvl])
    <3> SUFFICES ASSUME NEW lvl \in 0 .. Level - 1 PROVE SplitType(PartKey(c, k)[lvl])
      OBVIOUS
    <3>1. AllIn(DecomposedPoly(Intt(Prime(lvl).a), L), L, Poly) /\ Prime(lvl).b \in Poly
      BY <1>3, <1>5, SampleIs, InttTyped, DecomposedPolyTyped
    <3> QED
      BY <2>1, <3>1 DEF SplitType
  <2> QED
    BY <1>11, <2>2 DEF PartTyped, Classic
<1>12. CASE scheme = "pipe"
  <2> DEFINE Split(p) == DecomposedPoly(Intt(p), L)
  <2>1. PartKey(c, k) = [lvl \in 0 .. Level - 1 |-> Each(Split, Prime(lvl))]
    BY <1>4, <1>12 DEF PartKey, Prime
  <2>2. \A lvl \in 0 .. Level - 1 : TurnedType(PartKey(c, k)[lvl])
    <3> SUFFICES ASSUME NEW lvl \in 0 .. Level - 1 PROVE TurnedType(PartKey(c, k)[lvl])
      OBVIOUS
    <3>1. /\ AllIn(DecomposedPoly(Intt(Prime(lvl).a), L), L, Poly)
          /\ AllIn(DecomposedPoly(Intt(Prime(lvl).b), L), L, Poly)
      BY <1>3, <1>5, SampleIs, InttTyped, DecomposedPolyTyped
    <3>2. PartKey(c, k)[lvl] = [a |-> DecomposedPoly(Intt(Prime(lvl).a), L),
                                b |-> DecomposedPoly(Intt(Prime(lvl).b), L)]
      BY <2>1 DEF Each
    <3> QED
      BY <3>1, <3>2 DEF TurnedType
  <2> QED
    BY <1>12, <2>2 DEF PartTyped, Classic
<1> QED
  BY <1>4, <1>6, <1>7, <1>8, <1>9, <1>10, <1>11, <1>12 DEF Schemes

\* The first component's key holds samples.
LEMMA FirstKeyTyped ==
  ASSUME DrawsNumbers, Sampled PROVE FirstKey[0] \in Sample /\ FirstKey[1] \in Sample
<1>1. ASSUME NEW k \in 0 .. 1 PROVE FirstKey[k] \in Sample
  <2>1. PICK p \in Poly : p = IF s[0] = 1 - k THEN v ELSE Zero
    BY CaseIs, VTyped, ZeroTyped
  <2>2. EncTorus(900 + k, p, RingKey) \in Sample
    BY RingKeyIs, EncTorusTyped
  <2> QED
    BY <2>1, <2>2 DEF FirstKey
<1> QED
  BY <1>1

(***************************************************************************)
(* One input.                                                              *)
(***************************************************************************)
LEMMA InputIs ==
  ASSUME Sampled, Working
  PROVE  input.b \in Int /\ \A o \in 0 .. n - 1 : input.a[o] \in Int
<1>1. /\ sample.a \in [0 .. n - 1 -> Int] /\ sample.b \in Int /\ input = Rescaled(sample)
      /\ DOMAIN sample = {"n", "a", "b"}
  BY DEF Sampled, Lwe
<1>2. /\ input.a = [o \in 0 .. n - 1 |-> Switched(sample.a[o], 2 * N, LweQ)]
      /\ input.b = Switched(sample.b, 2 * N, LweQ)
  BY <1>1 DEF Rescaled
<1>3. \A o \in Int : Switched(o, 2 * N, LweQ) \in Int
  BY RescaledNear
<1> QED
  BY <1>1, <1>2, <1>3

\* The accumulator that an input begins with.
LEMMA NoiselessTyped ==
  ASSUME Sampled, NEW w \in Int PROVE Noiseless(w) \in Sample
<1>1. v \in Poly /\ -w \in Int
  BY CaseIs, VTyped
<1>2. OnTorus(Rotated(-w, v)) \in Poly
  BY <1>1, RotatedTyped, OnTorusTyped
<1> QED
  BY <1>2, ZeroTyped DEF Noiseless, Sample

\* Taken apart, the first component leaves a sample too.
LEMMA FirstBlockTyped ==
  ASSUME Sampled, KeyTyped, FirstApart, NEW x, x.b \in Int, x.a[0] \in Int
  PROVE  FirstBlock(x) \in Sample
<1>1. n \in Nat \ {0} /\ v \in Poly /\ Group = 1 /\ Parts \in {1, 2, 4, 8}
  BY CaseIs, VTyped
<1>2. key.first[0] \in Sample /\ key.first[1] \in Sample
  BY DEF KeyTyped
<1>3. PICK y \in Sample :
        y = IF scheme = "pipeAlt" THEN Derived(v, key.parts[0][0], LApprox) ELSE key.first[0]
  <2>1. CASE scheme = "pipeAlt"
    <3>1. 0 \in 0 .. n - 1 /\ 0 % Group = 0 /\ 0 \in 0 .. Parts - 1
      BY <1>1, SMT
    <3>2. PartTyped(key.parts[0][0])
      BY <3>1 DEF KeyTyped
    <3>3. AllIn(key.parts[0][0], Level, Sample)
      BY <2>1, <3>2 DEF PartTyped
    <3>4. LApprox <= Level /\ LApprox \in 1 .. L /\ Level \in 1 .. L
      BY <2>1, CaseIs, Levels
    <3>5. AllIn(key.parts[0][0], LApprox, Sample)
      BY <3>3, <3>4, Levels DEF AllIn
    <3>6. Derived(v, key.parts[0][0], LApprox) \in Sample
      BY <1>1, <3>4, <3>5, DerivedTyped
    <3> QED
      BY <2>1, <3>6
  <2>2. CASE scheme # "pipeAlt"
    BY <1>2, <2>2
  <2> QED
    BY <2>1, <2>2
<1> DEFINE Turned(p) == OnTorus(Rotated(-x.b, p))
           Turn0(p) == Rotated(x.a[0], p)
           Opt == [a |-> RotatedMinusOne(x.a[0], y.a), b |-> Plus(RotatedMinusOne(x.a[0], y.b), v)]
           PreRot == Both(Plus, Each(Turn0, y), key.first[1])
<1>4. FirstBlock(x) = Each(Turned, IF scheme = "preRot" THEN PreRot ELSE Opt)
  BY <1>3 DEF FirstBlock
<1>5. Opt.a \in Poly /\ Opt.b \in Poly
  BY <1>1, SampleIs, RotatedMinusOneTyped, PlusTyped
<1>6. PreRot.a \in Poly /\ PreRot.b \in Poly
  BY <1>2, SampleIs, RotatedTyped, PlusTyped DEF Both, Each
<1>7. \A p \in Poly : Turned(p) \in Poly
  <2>1. -x.b \in Int
    OBVIOUS
  <2> QED
    BY <2>1, RotatedTyped, OnTorusTyped
<1> HIDE DEF Turned, Opt, PreRot
<1>8. PICK p \in Poly, q \in Poly : FirstBlock(x) = [a |-> Turned(p), b |-> Turned(q)]
  BY <1>4, <1>5, <1>6 DEF Each
<1> QED
  BY <1>7, <1>8 DEF Sample

(***************************************************************************)
(* The rows of a product.                                                  *)
(***************************************************************************)
\* A component in hand is the first of its group, and the others are there.
LEMMA GroupFits ==
  ASSUME Sampled, i \in Nat, i % Group = 0, i < n
  PROVE  i \in 0 .. n - 1 /\ i + Group <= n /\ (i + Group) % Group = 0
<1>1. PICK g \in {1, 2, 3}, m \in Nat : g = Group /\ m = n /\ m % g = 0 /\ i % g = 0 /\ i < m
  BY CaseIs
<1>0. i \div g \in Int /\ i = g * (i \div g) + (i % g) /\ m \div g \in Int /\ m = g * (m \div g) + (m % g)
  <2>1. i \in Int /\ m \in Int /\ g \in Nat \ {0}
    OBVIOUS
  <2> QED
    BY <2>1, DivMod
<1>2. PICK u \in Int : i = g * u + (i % g)
  BY <1>0
<1>3. PICK w \in Int : m = g * w + (m % g)
  BY <1>0
<1>4. i = g * u /\ m = g * w
  BY <1>1, <1>2, <1>3
<1>5. i + g <= m
  BY <1>1, <1>4
<1>6. (i + g) % g = 0
  BY <1>1
<1> QED
  BY <1>1, <1>5, <1>6

\* The turn of a part reads components that are there.
LEMMA TurnTyped ==
  ASSUME Sampled, Working, i \in Nat, i % Group = 0, i < n, NEW k \in 0 .. Parts - 1
  PROVE  Turn(k) \in Int
<1> DEFINE f == [j \in 0 .. Group - 1 |->
                   IF (k \div 2 ^ (Group - 1 - j)) % 2 = 1 THEN input.a[i + j] ELSE 0]
<1>1. i + Group <= n /\ Group \in {1, 2, 3} /\ n \in Nat
  BY CaseIs, GroupFits
<1>2. \A j \in 0 .. Group - 1 : f[j] \in Int
  <2> SUFFICES ASSUME NEW j \in 0 .. Group - 1 PROVE input.a[i + j] \in Int
    OBVIOUS
  <2>1. i + j \in 0 .. n - 1
    BY <1>1
  <2> QED
    BY <2>1, InputIs
<1>3. Turn(k) = Sum(Group, f)
  BY DEF Turn
<1> HIDE DEF f
<1> QED
  BY <1>1, <1>2, <1>3, SumTyped

\* What holds of all levels holds of the first ones.
LEMMA AllInLess ==
  ASSUME NEW f, NEW m \in Int, NEW k \in Int, k <= m, NEW T, AllIn(f, m, T) PROVE AllIn(f, k, T)
BY DEF AllIn

\* Polynomials add up to one.
LEMMA AddedUp ==
  ASSUME NEW f, NEW k \in Nat, AllIn(f, k, Poly)
  PROVE  Ntt([j \in Coeffs |-> Sum(k, [o \in 0 .. k - 1 |-> f[o][j]])]) \in Poly
<1>1. \A j \in Coeffs : Sum(k, [o \in 0 .. k - 1 |-> f[o][j]]) \in Int
  <2> SUFFICES ASSUME NEW j \in Coeffs PROVE Sum(k, [o \in 0 .. k - 1 |-> f[o][j]]) \in Int
    OBVIOUS
  <2> DEFINE g == [o \in 0 .. k - 1 |-> f[o][j]]
  <2>1. \A o \in 0 .. k - 1 : g[o] \in Int
    BY CoeffTyped DEF AllIn
  <2> HIDE DEF g
  <2>2. Sum(k, g) \in Int
    BY <2>1, SumTyped
  <2> QED
    BY <2>2 DEF g
<1>2. PICK p \in Poly : p = [j \in Coeffs |-> Sum(k, [o \in 0 .. k - 1 |-> f[o][j]])]
  BY <1>1 DEF Poly
<1> QED
  BY <1>2, NttTyped

\* The combination of the parts is a key.
LEMMA CombinationTyped ==
  ASSUME Sampled, KeyTyped, i \in Nat, i % Group = 0, i < n,
         NEW turn, \A k \in 0 .. Parts - 1 : turn[k] \in Int,
         NEW levels \in Nat, \A k \in 0 .. Parts - 1 : AllIn(key.parts[i][k], levels, RowType)
  PROVE  AllIn(Combination(turn, levels), levels, RowType)
<1> SUFFICES ASSUME NEW lvl \in 0 .. levels - 1 PROVE Combination(turn, levels)[lvl] \in RowType
  BY DEF AllIn
<1> DEFINE Row0(k) == key.parts[i][k][lvl]
           CA == [k \in 0 .. Parts - 1 |-> Rotated(turn[k], Row0(k).c.a)]
           CB == [k \in 0 .. Parts - 1 |-> Rotated(turn[k], Row0(k).c.b)]
           PA == [k \in 0 .. Parts - 1 |-> Rotated(turn[k], Row0(k).cPrime.a)]
           PB == [k \in 0 .. Parts - 1 |-> Rotated(turn[k], Row0(k).cPrime.b)]
           Up(f) == Ntt([j \in Coeffs |-> Sum(Parts, [k \in 0 .. Parts - 1 |-> f[k][j]])])
<1>1. Combination(turn, levels)[lvl] = [c |-> [a |-> Up(CA), b |-> Up(CB)],
                                        cPrime |-> [a |-> Up(PA), b |-> Up(PB)]]
  BY DEF Combination
<1>2. \A k \in 0 .. Parts - 1 : /\ Row0(k).c.a \in Poly /\ Row0(k).c.b \in Poly
                                /\ Row0(k).cPrime.a \in Poly /\ Row0(k).cPrime.b \in Poly
  <2> SUFFICES ASSUME NEW k \in 0 .. Parts - 1
               PROVE  /\ Row0(k).c.a \in Poly /\ Row0(k).c.b \in Poly
                      /\ Row0(k).cPrime.a \in Poly /\ Row0(k).cPrime.b \in Poly
    OBVIOUS
  <2>1. Row0(k) \in RowType
    BY DEF AllIn
  <2>2. Row0(k).c \in Sample /\ Row0(k).cPrime \in Sample
    BY <2>1 DEF RowType
  <2> QED
    BY <2>2, SampleIs
<1> HIDE DEF Row0
<1>3. /\ AllIn(CA, Parts, Poly) /\ AllIn(CB, Parts, Poly)
      /\ AllIn(PA, Parts, Poly) /\ AllIn(PB, Parts, Poly)
  BY <1>2, RotatedTyped DEF AllIn
<1> HIDE DEF CA, CB, PA, PB
<1>4. Up(CA) \in Poly /\ Up(CB) \in Poly /\ Up(PA) \in Poly /\ Up(PB) \in Poly
  <2>1. Parts \in Nat
    BY CaseIs
  <2> QED
    BY <1>3, <2>1, AddedUp
<1> HIDE DEF Up
<1> QED
  BY <1>1, <1>4 DEF RowType, Sample

\* A row is embedded from the form its scheme keeps it in.
LEMMA EmbeddedTyped ==
  ASSUME Sampled, Working, KeyTyped, i \in Nat, i < n, Group = 1,
         scheme \in {"wwl24", "wwl24Alt", "lazy", "pipe", "pipeAlt", "noFirst"},
         NEW lvl \in 0 .. Level - 1
  PROVE  Embedded(lvl) \in RowType
<1>1. /\ i \in 0 .. n - 1 /\ i % Group = 0 /\ 0 \in 0 .. Parts - 1 /\ L \in 1 .. L
      /\ lvl \in 0 .. L - 1 /\ input.a[i] \in Int
  BY CaseIs, InputIs, Levels, SMT
<1>2. PartTyped(key.parts[i][0])
  BY <1>1 DEF KeyTyped
<1>3. AllIn(key.square, L, Sample)
  BY DEF KeyTyped
<1>4. PICK prime : prime = key.parts[i][0][lvl]
  OBVIOUS
<1> DEFINE Row0(d, b) == Embedding(d, [a |-> Recomposed(d), b |-> b], key.square)
<1>5. \A p \in Poly : AllIn(DecomposedPoly(p, L), L, Poly)
  BY <1>1, DecomposedPolyTyped
<1>6. ASSUME NEW d, AllIn(d, L, Poly), NEW b \in Poly PROVE Row0(d, b) \in RowType
  <2>1. [a |-> Recomposed(d), b |-> b] \in Sample
    BY <1>6, RecomposedTyped DEF Sample
  <2> QED
    BY <1>3, <1>6, <2>1, EmbeddingTyped
<1>7. CASE scheme = "wwl24"
  <2>1. prime \in Sample
    BY <1>2, <1>4, <1>7 DEF PartTyped, AllIn
  <2>2. Embedded(lvl) = Embedding(DecomposedPoly(Intt(prime.a), L), prime, key.square)
    BY <1>4, <1>7 DEF Embedded
  <2>3. AllIn(DecomposedPoly(Intt(prime.a), L), L, Poly)
    BY <1>5, <2>1, SampleIs, InttTyped
  <2> QED
    BY <1>3, <2>1, <2>2, <2>3, EmbeddingTyped
<1>8. CASE scheme = "wwl24Alt"
  <2>1. prime \in Sample
    BY <1>2, <1>4, <1>8 DEF PartTyped, AllIn
  <2>2. Embedded(lvl) = Embedding(DecomposedPoly(prime.a, L), Each(Ntt, prime), key.square)
    BY <1>4, <1>8 DEF Embedded
  <2>3. AllIn(DecomposedPoly(prime.a, L), L, Poly) /\ Each(Ntt, prime) \in Sample
    BY <1>5, <2>1, SampleIs, NttTyped DEF Each, Sample
  <2> QED
    BY <1>3, <2>2, <2>3, EmbeddingTyped
<1>9. CASE scheme = "lazy"
  <2>1. SplitType(prime)
    BY <1>2, <1>4, <1>9 DEF PartTyped
  <2>2. Embedded(lvl) = Row0(prime.digits, prime.b)
    BY <1>4, <1>9 DEF Embedded
  <2> QED
    BY <1>6, <2>1, <2>2 DEF SplitType
<1>10. CASE scheme = "pipe"
  <2> DEFINE Turn1(p, l) == TurnedDigits(input.a[i], p[l])
             One(l) == Constant(IF l = lvl THEN 1 ELSE 0)
             DA == [l \in 0 .. L - 1 |-> Turn1(prime.a, l)]
             DB == [l \in 0 .. L - 1 |-> Plus(Turn1(prime.b, l), One(l))]
  <2>1. TurnedType(prime)
    BY <1>2, <1>4, <1>10 DEF PartTyped
  <2>2. Embedded(lvl) = Row0(DA, Recomposed(DB))
    BY <1>4, <1>10 DEF Embedded
  <2>3. AllIn(DA, L, Poly)
    BY <1>1, <2>1, TurnedDigitsTyped DEF TurnedType, AllIn
  <2>4. AllIn(DB, L, Poly)
    <3> SUFFICES ASSUME NEW l \in 0 .. L - 1 PROVE Plus(Turn1(prime.b, l), One(l)) \in Poly
      BY DEF AllIn
    <3>1. Turn1(prime.b, l) \in Poly
      BY <1>1, <2>1, TurnedDigitsTyped DEF TurnedType, AllIn
    <3>2. One(l) \in Poly
      BY ConstantTyped
    <3> QED
      BY <3>1, <3>2, PlusTyped
  <2> HIDE DEF DA, DB, Row0
  <2>5. Recomposed(DB) \in Poly
    BY <2>4, RecomposedTyped
  <2> QED
    BY <1>6, <2>2, <2>3, <2>5
<1>11. CASE scheme \in {"pipeAlt", "noFirst"}
  <2> DEFINE Turned(p) == OnTorus(RotatedMinusOne(input.a[i], p))
  <2>1. prime \in Sample
    BY <1>2, <1>4, <1>11 DEF PartTyped, AllIn
  <2>2. Embedded(lvl) = Row0(DecomposedPoly(Turned(prime.a), L),
                             Ntt(OnTorus(Plus(Turned(prime.b), Constant(GadgetWeight(lvl))))))
    BY <1>4, <1>11 DEF Embedded
  <2>3. Turned(prime.a) \in Poly /\ Turned(prime.b) \in Poly
    BY <1>1, <2>1, SampleIs, RotatedMinusOneTyped, OnTorusTyped
  <2>4. Constant(GadgetWeight(lvl)) \in Poly
    <3>1. GadgetWeight(lvl) \in Int
      BY <1>1, Levels
    <3> QED
      BY <3>1, ConstantTyped
  <2> HIDE DEF Turned, Row0
  <2>5. /\ AllIn(DecomposedPoly(Turned(prime.a), L), L, Poly)
        /\ Ntt(OnTorus(Plus(Turned(prime.b), Constant(GadgetWeight(lvl))))) \in Poly
    BY <1>5, <2>3, <2>4, PlusTyped, OnTorusTyped, NttTyped
  <2> QED
    BY <1>6, <2>2, <2>5
<1> QED
  BY <1>7, <1>8, <1>9, <1>10, <1>11

\* The rows and the digits that Prepare puts together.
LEMMA KeyRowsTyped ==
  ASSUME Sampled, Working, KeyTyped, i \in Nat, i % Group = 0, i < n
  PROVE  AllIn(KeyRows, Used, RowType)
<1>1. /\ i \in 0 .. n - 1 /\ Parts \in {1, 2, 4, 8} /\ Group \in {1, 2, 3}
      /\ (Group > 1 <=> scheme \in {"group2", "group3"}) /\ scheme \in Schemes
      /\ Level \in 1 .. L /\ LApprox \in 1 .. L
  BY CaseIs, GroupFits, Levels
<1>2. \A k \in 0 .. Parts - 1 : PartTyped(key.parts[i][k])
  BY <1>1 DEF KeyTyped
<1>3. CASE Group > 1
  <2> DEFINE turn == [k \in 0 .. Parts - 1 |-> Turn(k)]
  <2>1. KeyRows = Combination(turn, LApprox) /\ Used = LApprox
    BY <1>1, <1>3 DEF KeyRows, Used, Classic
  <2>2. \A k \in 0 .. Parts - 1 : turn[k] \in Int
    BY TurnTyped
  <2>3. \A k \in 0 .. Parts - 1 : AllIn(key.parts[i][k], LApprox, RowType)
    <3>1. \A k \in 0 .. Parts - 1 : AllIn(key.parts[i][k], L, RowType)
      BY <1>1, <1>2, <1>3 DEF PartTyped, Classic
    <3>2. L \in Int /\ LApprox \in Int /\ LApprox <= L
      BY <1>1, Levels
    <3> QED
      BY <3>1, <3>2, AllInLess
  <2> HIDE DEF turn
  <2>4. LApprox \in Nat
    BY <1>1
  <2> QED
    BY <2>1, <2>2, <2>3, <2>4, CombinationTyped
<1>4. CASE scheme = "preRot"
  <2> DEFINE turn == [k \in 0 .. 1 |-> IF k = 0 THEN input.a[i] ELSE 0]
  <2>1. KeyRows = Combination(turn, Level) /\ Used = Level /\ Parts = 2
    BY <1>1, <1>4 DEF KeyRows, Used, Classic, Parts
  <2>2. \A k \in 0 .. Parts - 1 : turn[k] \in Int
    BY <1>1, <2>1, InputIs
  <2>3. \A k \in 0 .. Parts - 1 : AllIn(key.parts[i][k], Level, RowType)
    BY <1>2, <1>4 DEF PartTyped
  <2> HIDE DEF turn
  <2>4. Level \in Nat
    BY <1>1
  <2> QED
    BY <2>1, <2>2, <2>3, <2>4, CombinationTyped
<1>5. CASE scheme \in {"normal", "mp21", "opt"}
  <2>1. KeyRows = key.parts[i][0]
    BY <1>1, <1>5 DEF KeyRows
  <2>2. PartTyped(key.parts[i][0])
    BY <1>1, <1>2
  <2>3. CASE scheme = "normal"
    <3>1. AllIn(KeyRows, L, RowType) /\ Used = LApprox
      BY <2>1, <2>2, <2>3 DEF PartTyped, Used, Classic
    <3>2. L \in Int /\ LApprox \in Int /\ LApprox <= L
      BY <1>1, Levels
    <3> QED
      BY <3>1, <3>2, AllInLess
  <2>4. CASE scheme \in {"mp21", "opt"}
    BY <2>1, <2>2, <2>4 DEF PartTyped, Used, Classic
  <2> QED
    BY <1>5, <2>3, <2>4
<1>6. CASE scheme \in {"wwl24", "wwl24Alt", "lazy", "pipe", "pipeAlt", "noFirst"}
  <2>1. KeyRows = [lvl \in 0 .. Level - 1 |-> Embedded(lvl)] /\ Used = Level /\ Group = 1
    BY <1>1, <1>6 DEF KeyRows, Used, Classic
  <2>2. \A lvl \in 0 .. Level - 1 : Embedded(lvl) \in RowType
    BY <1>6, <2>1, EmbeddedTyped
  <2> QED
    BY <2>1, <2>2 DEF AllIn
<1> QED
  BY <1>1, <1>3, <1>4, <1>5, <1>6 DEF Schemes

(***************************************************************************)
(* The invariant holds.                                                    *)
(***************************************************************************)
\* Inputs are samples of the LWE key, and the rescaled input is theirs.
LEMMA SampledFirst == Init => Sampled
<1> SUFFICES ASSUME Init PROVE Sampled
  OBVIOUS
<1>1. PICK case \in Cases : scheme = case[1] /\ lut = case[2]
  BY DEF Init
<1>2. case = <<scheme, lut>>
  BY <1>1, KeyAssumption
<1> QED
  BY <1>1, <1>2 DEF Init, Sampled, Working

\* Every step keeps that.
LEMMA SampledKept == DrawsNumbers /\ Sampled /\ [Next]_vars => Sampled'
<1> SUFFICES ASSUME DrawsNumbers, Sampled, [Next]_vars PROVE Sampled'
  OBVIOUS
<1>1. CASE UNCHANGED vars
  BY <1>1 DEF vars, fixed, given, Sampled, Working, n
<1>2. CASE Generate
  BY <1>2 DEF Generate, Sampled, Working, n
<1>3. ASSUME NEW m \in Messages, Begin(m) PROVE Sampled'
  <2> DEFINE x == EncLwe(7000 + 10 * calls + m, ToTorus(m, LweQ), s, n)
  <2>1. /\ sample' = x /\ input' = Rescaled(x) /\ calls' = calls + 1
        /\ UNCHANGED <<scheme, lut, s>> /\ n' = n
    BY <1>3 DEF Begin, fixed, n
  <2>2. n \in Nat /\ s \in [0 .. n - 1 -> {0, 1}] /\ calls \in Nat
    BY CaseIs DEF Sampled
  <2>3. m \in Int /\ ToTorus(m, LweQ) \in Int
    <3>1. m \in Int
      BY Units DEF Messages
    <3> QED
      BY <3>1, Units, ToTorusTyped
  <2>4. Lwe(x, n)
    <3>1. 7000 + 10 * calls + m \in Int
      BY <2>2, <2>3
    <3> QED
      BY <2>2, <2>3, <3>1, EncLweIs
  <2> HIDE DEF x
  <2> QED
    BY <2>1, <2>2, <2>4 DEF Sampled
<1>4. CASE Skip
  BY <1>4 DEF Skip, fixed, given, Sampled, Working, n
<1>5. CASE Prepare
  BY <1>5 DEF Prepare, fixed, given, Sampled, Working, n
<1>6. CASE Multiply
  BY <1>6 DEF Multiply, fixed, given, Sampled, Working, n
<1>7. CASE Accumulate
  BY <1>7 DEF Accumulate, fixed, given, Sampled, Working, n
<1>8. CASE Extract
  BY <1>8 DEF Extract, fixed, given, Sampled, Working, n
<1>9. CASE SwitchKey
  BY <1>9 DEF SwitchKey, fixed, given, Sampled, Working, n
<1> QED
  BY <1>1, <1>2, <1>3, <1>4, <1>5, <1>6, <1>7, <1>8, <1>9 DEF Next

\* What depends on the scheme and the keys only is kept with them.
LEMMA FixedKept ==
  ASSUME UNCHANGED <<scheme, s, key>>
  PROVE  /\ n' = n /\ Group' = Group /\ Parts' = Parts /\ Used' = Used
         /\ KeyTyped' = KeyTyped
<1>1. n' = n /\ Group' = Group /\ Classic' = Classic
  BY DEF n, Group, GroupOf, Classic
<1>2. Parts' = Parts /\ Used' = Used
  BY <1>1 DEF Parts, Used
<1>3. ASSUME NEW p PROVE PartTyped(p)' = PartTyped(p)
  BY <1>1 DEF PartTyped
<1> QED
  BY <1>1, <1>2, <1>3 DEF KeyTyped

\* The key, the accumulator and what comes out of it are as the invariant says.
LEMMA HeldFirst == Sampled /\ Init => Held
<1> SUFFICES ASSUME Sampled, Init PROVE Held
  OBVIOUS
<1>1. i = 0 /\ pc = "keygen" /\ 0 % Group = 0
  BY CaseIs, SMT DEF Init
<1> QED
  BY <1>1 DEF Held, Working

\* Every step keeps that.
LEMMA HeldKept == DrawsNumbers /\ Sampled /\ Sampled' /\ Held /\ [Next]_vars => Held'
<1> SUFFICES ASSUME DrawsNumbers, Sampled, Sampled', Held, [Next]_vars PROVE Held'
  OBVIOUS
<1>0. Group \in {1, 2, 3} /\ Used \in 1 .. L /\ L \in Nat
  BY CaseIs, UsedIs, Levels
<1>1. CASE UNCHANGED vars
  BY <1>1, FixedKept DEF vars, fixed, product, Held, Working
<1>2. CASE Generate
  <2>1. /\ UNCHANGED <<scheme, lut, s, i>> /\ pc' = "ready"
        /\ key' = [parts |-> [c \in {c \in 0 .. n - 1 : c % Group = 0} |->
                                [k \in 0 .. Parts - 1 |-> PartKey(c, k)]],
                   first |-> FirstKey, square |-> EncSquare(1000, RingKey),
                   ksk |-> EncKsk(5000, RingKey, s, n)]
    BY <1>2 DEF Generate
  <2>2. n' = n /\ Group' = Group /\ Parts' = Parts /\ Classic' = Classic
    BY <2>1 DEF n, Group, GroupOf, Parts, Classic
  <2>3. \A c \in 0 .. n - 1 : c % Group = 0 =>
          \A k \in 0 .. Parts - 1 : PartTyped(PartKey(c, k)) /\ key'.parts[c][k] = PartKey(c, k)
    BY <2>1, PartKeyTyped
  <2>4. \A c \in 0 .. n - 1 : c % Group = 0 =>
          \A k \in 0 .. Parts - 1 : PartTyped(key.parts[c][k])'
    <3> SUFFICES ASSUME NEW c \in 0 .. n - 1, c % Group = 0, NEW k \in 0 .. Parts - 1
                 PROVE  PartTyped(key.parts[c][k])'
      OBVIOUS
    <3>1. PICK p : p = PartKey(c, k) /\ key'.parts[c][k] = p /\ PartTyped(p)
      BY <2>3
    <3> QED
      BY <2>1, <2>2, <3>1 DEF PartTyped
  <2>5. /\ key'.first[0] \in Sample /\ key'.first[1] \in Sample /\ AllIn(key'.square, L, Sample)
        /\ key'.ksk = EncKsk(5000, RingKey, s, n)
    BY <2>1, FirstKeyTyped, EncSquareTyped, RingKeyIs
  <2>6. KeyTyped'
    <3>1. AllIn(key.square, L, Sample)'
      BY <2>5 DEF AllIn
    <3>2. (key.first[0] \in Sample /\ key.first[1] \in Sample)'
      BY <2>5
    <3>3. (key.ksk = EncKsk(5000, RingKey, s, n))'
      BY <2>1, <2>2, <2>5
    <3>4. (\A c \in 0 .. n - 1 : c % Group = 0 => \A k \in 0 .. Parts - 1 : PartTyped(key.parts[c][k]))'
      BY <2>2, <2>4
    <3> QED
      BY <3>1, <3>2, <3>3, <3>4 DEF KeyTyped
  <2> QED
    BY <2>1, <2>2, <2>6 DEF Held, Working
<1>3. ASSUME NEW m \in Messages, Begin(m) PROVE Held'
  <2>1. /\ UNCHANGED <<scheme, lut, s, key>> /\ pc' = "component" /\ pc \in {"ready", "done"}
        /\ i' = (IF FirstApart THEN 1 ELSE 0)
        /\ acc' = IF FirstApart THEN FirstBlock(input') ELSE Noiseless(input'.b)
    BY <1>3 DEF Begin, fixed
  <2>2. KeyTyped /\ KeyTyped' /\ Group' = Group /\ n' = n
    BY <2>1, FixedKept DEF Held
  <2>3. n \in Nat \ {0} /\ (FirstApart => Group = 1)
    BY CaseIs
  <2>4. input'.b \in Int /\ input'.a[0] \in Int
    <3>1. Working'
      BY <2>1 DEF Working
    <3>2. input' = Rescaled(sample') /\ Lwe(sample', n)
      BY <2>2, <3>1 DEF Sampled
    <3>3. /\ sample'.a \in [0 .. n - 1 -> Int] /\ sample'.b \in Int /\ DOMAIN sample' = {"n", "a", "b"}
      BY <3>2 DEF Lwe
    <3>4. /\ input'.a = [o \in 0 .. n - 1 |-> Switched(sample'.a[o], 2 * N, LweQ)]
          /\ input'.b = Switched(sample'.b, 2 * N, LweQ)
      BY <3>2, <3>3 DEF Rescaled
    <3>5. sample'.a[0] \in Int /\ 0 \in 0 .. n - 1
      BY <2>3, <3>3
    <3> QED
      BY <3>3, <3>4, <3>5, RescaledNear
  <2>5. acc' \in Sample
    BY <2>1, <2>2, <2>4, FirstBlockTyped, NoiselessTyped
  <2>6. i' \in Nat /\ i' % Group' = 0
    <3>1. 0 % Group = 0 /\ 1 % 1 = 0
      BY <1>0, SMT
    <3> QED
      BY <2>1, <2>2, <2>3, <3>1
  <2> QED
    BY <2>1, <2>2, <2>5, <2>6 DEF Held
<1>4. CASE Skip
  <2>1. /\ UNCHANGED <<scheme, s, key, pc, acc>> /\ pc = "component" /\ Group = 1 /\ i' = i + 1
    BY <1>4 DEF Skip, fixed, product
  <2>2. i' \in Nat /\ i' % Group' = 0
    <3>1. i + 1 \in Nat /\ (i + 1) % 1 = 0
      BY SMT DEF Held
    <3> QED
      BY <2>1, <3>1, FixedKept
  <2> QED
    BY <2>1, <2>2, FixedKept DEF Held, Working
<1>5. CASE Prepare
  <2> DEFINE Difference(p) == OnTorus(RotatedMinusOne(input.a[i], p))
             k == IF Classic THEN L ELSE Level
  <2>1. /\ UNCHANGED <<scheme, s, key, acc, i>> /\ pc = "component" /\ i < n /\ pc' = "multiply"
        /\ rows' = KeyRows
        /\ digits' = Decomposed(IF InPlace THEN acc ELSE Each(Difference, acc), k)
    BY <1>5 DEF Prepare, fixed
  <2>2. KeyTyped /\ Working /\ acc \in Sample /\ i \in Nat /\ i % Group = 0
    BY <2>1 DEF Held, Working
  <2>3. AllIn(rows', Used, RowType)
    BY <2>1, <2>2, KeyRowsTyped
  <2>4. Each(Difference, acc) \in Sample
    <3>1. input.a[i] \in Int
      BY <2>1, <2>2, CaseIs, InputIs
    <3>2. Difference(acc.a) \in Poly /\ Difference(acc.b) \in Poly
      BY <2>2, <3>1, SampleIs, RotatedMinusOneTyped, OnTorusTyped
    <3> QED
      BY <3>2 DEF Each, Sample
  <2>5. k \in 1 .. L /\ Used <= k
    BY Levels DEF Used
  <2>6. PICK x \in Sample : x = IF InPlace THEN acc ELSE Each(Difference, acc)
    BY <2>2, <2>4
  <2> HIDE DEF k
  <2>7. AllIn(digits', k, Sample)
    BY <2>1, <2>5, <2>6, DecomposedTyped
  <2>8. AllIn(digits', Used, Sample)
    <3>1. k \in Int /\ Used \in Int
      BY <1>0, <2>5
    <3> QED
      BY <2>5, <2>7, <3>1, AllInLess
  <2> QED
    BY <2>1, <2>2, <2>3, <2>8, FixedKept DEF Held, Working
<1>6. CASE Multiply
  <2>1. /\ UNCHANGED <<scheme, s, key, acc, i>> /\ pc = "multiply" /\ pc' = "accumulate"
        /\ partials' = [lvl \in 0 .. Used - 1 |-> Partial(digits[lvl], rows[lvl])]
    BY <1>6 DEF Multiply, fixed
  <2>2. AllIn(rows, Used, RowType) /\ AllIn(digits, Used, Sample) /\ acc \in Sample
    BY <2>1 DEF Held, Working
  <2>3. AllIn(partials', Used, Sample)
    BY <2>1, <2>2, PartialTyped DEF AllIn
  <2> QED
    BY <2>1, <2>2, <2>3, FixedKept DEF Held, Working
<1>7. CASE Accumulate
  <2>1. /\ UNCHANGED <<scheme, s, key>> /\ pc = "accumulate" /\ pc' = "component"
        /\ i' = i + Group
        /\ acc' = IF InPlace THEN SumOf(partials, Used)
                  ELSE Each(OnTorus, Both(Plus, SumOf(partials, Used), acc))
    BY <1>7 DEF Accumulate, fixed
  <2>2. AllIn(partials, Used, Sample) /\ acc \in Sample /\ i \in Nat /\ i % Group = 0
    BY <2>1 DEF Held, Working
  <2>3. PICK x \in Sample : x = SumOf(partials, Used)
    BY <1>0, <2>2, SumOfTyped
  <2>4. Each(OnTorus, Both(Plus, x, acc)) \in Sample
    BY <2>2, SampleIs, PlusTyped, OnTorusTyped DEF Each, Both, Sample
  <2>5. acc' \in Sample
    BY <2>1, <2>3, <2>4
  <2>6. i' \in Nat /\ i' % Group' = 0
    <3>1. PICK g \in {1, 2, 3} : g = Group
      BY <1>0
    <3>2. (i + g) % g = 0 /\ i + g \in Nat
      BY <2>2, <3>1, SMT
    <3> QED
      BY <2>1, <3>1, <3>2, FixedKept
  <2> QED
    BY <2>1, <2>5, <2>6, FixedKept DEF Held, Working
<1>8. CASE Extract
  <2>1. /\ UNCHANGED <<scheme, s, key, acc, i>> /\ pc = "component" /\ pc' = "extracted"
        /\ extracted' = Extracted(acc)
    BY <1>8 DEF Extract, fixed
  <2> QED
    BY <2>1, FixedKept DEF Held, Working
<1>9. CASE SwitchKey
  <2>1. /\ UNCHANGED <<scheme, s, key, acc, i, extracted>> /\ pc = "extracted" /\ pc' = "done"
        /\ result' = KeySwitched(extracted, key.ksk, n)
    BY <1>9 DEF SwitchKey, fixed
  <2> QED
    BY <2>1, FixedKept DEF Held, Working
<1> QED
  BY <1>1, <1>2, <1>3, <1>4, <1>5, <1>6, <1>7, <1>8, <1>9 DEF Next

\* At the end the result is the accumulator's, extracted and switched.
LEMMA HeldSwitches ==
  ASSUME DrawsNumbers, Sampled, Held, pc = "done"
  PROVE  /\ LwePhase(result, s) \in Int
         /\ Near(LwePhase(result, s) * (TorusQ \div LweQ), Phase(acc, RingKey)[0], TorusQ, SwitchLoss)
<1>1. acc \in Sample /\ result = KeySwitched(Extracted(acc), EncKsk(5000, RingKey, s, n), n)
  BY DEF Held, Working, KeyTyped
<1>2. n \in Nat /\ s \in [0 .. n - 1 -> {0, 1}] /\ RingKey \in [Coeffs -> {0, 1}] /\ 5000 \in Int
  BY CaseIs, RingKeyIs DEF Sampled
<1>3. /\ LwePhase(result, s) \in Int
      /\ Near(LwePhase(result, s) * Ratio, Phase(acc, RingKey)[0], TorusQ, SwitchLoss)
  BY <1>1, <1>2, SwitchedPhase
<1> QED
  BY <1>3 DEF Ratio

\* The input that is turned by is the rescaled sample.
LEMMA SampledRescales == Sampled => RescaleKeepsPhase
<1> SUFFICES ASSUME Sampled, pc = "component"
             PROVE  LET scale == LweQ \div (2 * N)
                    IN  Near(Turned2N(n) * scale, LwePhase(sample, s), LweQ,
                             (1 + Sum(n, s)) * (scale \div 2))
  BY DEF RescaleKeepsPhase
<1>1. input = Rescaled(sample) /\ Lwe(sample, n) /\ n \in Nat /\ s \in [0 .. n - 1 -> {0, 1}]
  BY CaseIs DEF Sampled, Working
<1>2. Near((input.b - Dot(input.a, s, n)) * Scale, LwePhase(sample, s), LweQ,
           (1 + Sum(n, s)) * (Scale \div 2))
  BY <1>1, RescaledPhase
<1> QED
  BY <1>2 DEF Scale, Turned2N

(***************************************************************************)
(* Numbers that decode to the same message.                                *)
(***************************************************************************)
\* Reduction knows a number by what it is apart from a multiple.
LEMMA ModIs ==
  ASSUME NEW p \in Nat \ {0}, NEW r \in 0 .. p - 1, NEW t \in Int
  PROVE  (r + p * t) % p = r
<1>1. PICK x \in Int : x = r + p * t
  OBVIOUS
<1>2. PICK d \in Int, o \in 0 .. p - 1 : d = x \div p /\ o = x % p /\ x = p * d + o
  BY DivMod
<1>3. PICK u \in Int, w \in Int : u = p * d /\ w = p * t
  OBVIOUS
<1>4. u - w = p * (d - t) /\ d - t \in Int
  BY <1>3, MultipleSplits
<1>5. u - w = r - o
  BY <1>1, <1>2, <1>3
<1>6. d - t = 0
  BY <1>4, <1>5, FarMultiple
<1>7. u = w
  BY <1>3, <1>6
<1> QED
  BY <1>1, <1>2, <1>5, <1>7

\* So a multiple makes no difference to Centre, nor does Centre itself.
LEMMA CentreSame ==
  ASSUME NEW p \in Nat \ {0}, NEW x \in Int, NEW t \in Int
  PROVE  Centre(x + p * t, p) = Centre(x, p)
<1>1. PICK d \in Int, o \in 0 .. p - 1 : o = x % p /\ x = p * d + o
  BY DivMod
<1>2. PICK u \in Int, w \in Int : u = p * d /\ w = p * t /\ u + w = p * (d + t)
  BY MultipleSplits
<1>3. x + p * t = o + p * (d + t) /\ d + t \in Int
  BY <1>1, <1>2
<1>4. (o + p * (d + t)) % p = o
  BY <1>3, ModIs
<1>5. (x + p * t) % p = x % p
  BY <1>1, <1>3, <1>4
<1> QED
  BY <1>5 DEF Centre

\* Centre keeps what it has reduced.
LEMMA CentreTwice ==
  ASSUME NEW p \in Nat \ {0}, NEW x \in Int PROVE Centre(Centre(x, p), p) = Centre(x, p)
<1>1. PICK t \in Int : Centre(x, p) = x + p * t
  BY CentreIs
<1> QED
  BY <1>1, CentreSame

\* A number of the range of Centre is kept: here for an even modulus.
LEMMA CentreOf ==
  ASSUME NEW k \in Nat \ {0}, NEW x \in 0 .. k - 1
  PROVE  Centre(x, 2 * k) = x
<1>1. 2 * k \in Nat \ {0} /\ x \in 0 .. 2 * k - 1 /\ x + (2 * k) * 0 = x
  OBVIOUS
<1>2. x % (2 * k) = x
  <2>1. (x + (2 * k) * 0) % (2 * k) = x
    BY <1>1, ModIs
  <2> QED
    BY <1>1, <2>1
<1>3. (2 * k - 1) \div 2 = k - 1
  BY SMT
<1> QED
  BY <1>2, <1>3 DEF Centre

\* What is near is close.
LEMMA NearClose ==
  ASSUME NEW x \in Int, NEW y \in Int, NEW q \in Nat \ {0}, NEW b \in Int, Near(x, y, q, b)
  PROVE  b \in Nat /\ Close(x, y, q, b)
<1>1. PICK t \in Int : Centre(x - y, q) = (x - y) + q * t
  <2>1. x - y \in Int
    OBVIOUS
  <2> QED
    BY <2>1, CentreIs
<1>2. PICK c \in Int, w \in Int : c = Centre(x - y, q) /\ -b <= c /\ c <= b /\ w = q * t
  <2>1. q * t \in Int /\ Centre(x - y, q) \in Int
    BY <1>1
  <2> QED
    BY <2>1 DEF Near
<1>3. q * (-t) = -w /\ -t \in Int
  BY <1>2
<1>4. x - y = c + q * (-t)
  BY <1>1, <1>2, <1>3
<1>5. b \in Nat
  BY <1>2
<1> QED
  BY <1>2, <1>3, <1>4, <1>5 DEF Close

\* A rescaling ends in Centre.
LEMMA SwitchedCentred ==
  ASSUME NEW x \in Int, NEW new \in Nat \ {0}, NEW old \in Nat \ {0}, NEW scale \in Nat \ {0},
         old = scale * new
  PROVE  Centre(Switched(x, new, old), new) = Switched(x, new, old)
<1> DEFINE r == IF x >= 0 THEN (x + scale \div 2) \div scale ELSE -((-x + scale \div 2) \div scale)
<1>1. old >= new /\ old \div new = scale
  <2>1. old >= new
    BY SMT
  <2>2. (scale * new) \div new = scale
    BY SMT
  <2> QED
    BY <2>1, <2>2
<1>2. r \in Int
  <2>1. \A y \in Int : (y + scale \div 2) \div scale \in Int
    <3> SUFFICES ASSUME NEW y \in Int PROVE (y + scale \div 2) \div scale \in Int
      OBVIOUS
    <3>1. y + scale \div 2 \in Int
      OBVIOUS
    <3> QED
      BY <3>1, DivMod
  <2>2. -x \in Int
    OBVIOUS
  <2> QED
    BY <2>1, <2>2
<1>3. Switched(x, new, old) = Centre(r, new)
  BY <1>1 DEF Switched
<1> HIDE DEF r
<1> QED
  BY <1>2, <1>3, CentreTwice

\* the multiples of d differ by less than d, modulo d * p
WithinStep(x, y, d, p, b) ==
    d > 0 /\ p > 0 /\ b >= 0 /\ b < d /\ Close(x * d, y * d, d * p, b)

\* Two numbers of which a step apart is less than a step are the same modulo p.
LEMMA StepsApart ==
  ASSUME NEW d \in Int, NEW p \in Int, NEW x \in Int, NEW y \in Int, NEW b \in Int,
         WithinStep(x, y, d, p, b)
  PROVE  Centre(x, p) = Centre(y, p)
<1> SUFFICES ASSUME d \in Nat \ {0}, p \in Nat \ {0}, b \in Nat PROVE Centre(x, p) = Centre(y, p)
  BY DEF WithinStep
<1>1. PICK e \in Int, t \in Int : x * d - y * d = e + (d * p) * t /\ -b <= e /\ e <= b /\ b < d
  BY DEF Close, WithinStep
<1>2. PICK z \in Int : z = x - y - p * t
  <2>1. p * t \in Int
    OBVIOUS
  <2> QED
    BY <2>1
<1>3. e = d * z
  <2>1. \A f, g, h \in Int : d * (f - g - h) = f * d - g * d - d * h
    BY SMT
  <2>2. p * t \in Int /\ d * (p * t) = (d * p) * t /\ (d * p) * t \in Int
    BY SMT
  <2>3. d * z = x * d - y * d - d * (p * t)
    BY <1>2, <2>1, <2>2
  <2>4. PICK f \in Int : f = (d * p) * t
    BY <2>2
  <2>5. PICK g \in Int : g = x * d - y * d
    BY SMT
  <2> QED
    BY <1>1, <2>2, <2>3, <2>4, <2>5
<1>4. z = 0
  BY <1>1, <1>3, FarMultiple
<1>5. x = y + p * t
  <2>1. p * t \in Int
    OBVIOUS
  <2> QED
    BY <1>2, <1>4, <2>1
<1> QED
  BY <1>5, CentreSame

\* How many units a message has, on the torus and modulo LweQ.
Unit == TorusQ \div MessageP
LweUnit == LweQ \div MessageP
\* the messages that a test polynomial holds
Slots == MessageP \div 2

\* A divisor divides.
LEMMA Exact ==
  ASSUME NEW p \in Nat \ {0}, NEW q \in Nat \ {0}, q % p = 0
  PROVE  q \div p \in Nat \ {0} /\ q = (q \div p) * p
<1>1. PICK w \in Int : w = q \div p /\ q = p * w
  <2>1. q \div p \in Int /\ q = p * (q \div p) + 0
    BY DivMod
  <2> QED
    BY <2>1
<1>2. w > 0
  BY <1>1, SMT
<1>3. p * w = w * p
  OBVIOUS
<1> QED
  BY <1>1, <1>2, <1>3

\* All of them fit: a slot for each message, half of the messages on the polynomial.
LEMMA UnitsFit ==
  /\ Slots \in Nat \ {0} /\ MessageP = 2 * Slots /\ N = Slots * Box
  /\ LweUnit \in Nat \ {0} /\ LweQ = LweUnit * MessageP
  /\ Unit \in Nat \ {0} /\ TorusQ = Unit * MessageP /\ Unit = LweUnit * Ratio
<1>1. PICK p \in Nat \ {0}, k \in Nat \ {0} : p = MessageP /\ k = Slots /\ p = 2 * k
  <2>1. PICK p \in Nat \ {0} : p = MessageP /\ p % 2 = 0
    BY AlgebraAssumption
  <2>2. PICK h \in Int : h = p \div 2 /\ p = 2 * h + (p % 2)
    BY DivMod
  <2>3. p = 2 * h /\ h \in Nat \ {0}
    BY <2>1, <2>2
  <2> QED
    BY <2>1, <2>2, <2>3 DEF Slots
<1>2. PICK w \in Nat \ {0} : w = Box /\ 2 * N = w * p
  <2>1. PICK o \in Nat \ {0} : o = 2 * N /\ o % p = 0
    BY <1>1, AlgebraAssumption
  <2>2. o \div p \in Nat \ {0} /\ o = (o \div p) * p
    BY <2>1, Exact
  <2>3. Box = o \div p
    BY <1>1, <2>1 DEF Box
  <2> QED
    BY <2>1, <2>2, <2>3, Zenon
<1>3. N = k * w
  <2>1. w * p = 2 * (k * w) /\ k * w \in Nat
    BY <1>1, SMT
  <2> QED
    BY <1>2, <2>1, Units
<1>4. PICK c \in Nat \ {0}, r \in Nat \ {0} : c = Scale /\ r = Ratio
  BY ScaleIs, RatioIs
<1>5. LweQ = (c * w) * p
  <2>1. c * (w * p) = (c * w) * p
    BY SMT
  <2> QED
    BY <1>2, <1>4, <2>1, ScaleIs
<1>6. PICK u \in Nat \ {0} : u = c * w /\ LweQ = u * p
  <2>1. c * w \in Nat \ {0}
    BY SMT
  <2> QED
    BY <1>5, <2>1
<1>7. LweUnit = u
  <2>1. (u * p) \div p = u
    BY SMT
  <2> QED
    BY <1>1, <1>6, <2>1 DEF LweUnit
<1>8. TorusQ = (u * r) * p
  <2>1. TorusQ = r * (u * p)
    BY <1>4, <1>6, RatioIs
  <2>2. r * (u * p) = (u * r) * p
    BY SMT
  <2> QED
    BY <2>1, <2>2
<1>9. PICK o \in Nat \ {0} : o = u * r /\ TorusQ = o * p
  <2>1. u * r \in Nat \ {0}
    BY SMT
  <2> QED
    BY <1>8, <2>1
<1>10. Unit = o
  <2>1. (o * p) \div p = o
    BY SMT
  <2> QED
    BY <1>1, <1>9, <2>1 DEF Unit
<1> QED
  BY <1>1, <1>2, <1>3, <1>4, <1>6, <1>7, <1>9, <1>10

\* A message on the torus is that many units.
LEMMA ToTorusNear ==
  ASSUME NEW x \in Int
  PROVE  ToTorus(x, TorusQ) \in Int /\ Close(ToTorus(x, TorusQ), x * Unit, TorusQ, 0)
<1>1. PICK p \in Nat \ {0}, u \in Nat \ {0}, q \in Nat \ {0} :
        p = MessageP /\ u = Unit /\ q = TorusQ /\ q = u * p /\ q = p * u
  <2>1. Unit * MessageP = MessageP * Unit
    BY UnitsFit, Units, SMT
  <2> QED
    BY <2>1, UnitsFit, Units
<1>2. Centre(x, p) \in Int /\ Close(Centre(x, p), x, p, 0)
  BY CentreClose
<1>3. p \in Int /\ 0 \in Nat /\ u \in Nat
  OBVIOUS
<1>4. PICK c \in Int : c = Centre(x, p) /\ Close(c, x, p, 0)
  BY <1>2
<1>5. Close(c * u, x * u, p * u, 0 * u) /\ 0 * u = 0
  BY <1>3, <1>4, CloseTimes
<1>6. ToTorus(x, TorusQ) = c * u /\ c * u \in Int
  BY <1>1, <1>4 DEF ToTorus, Unit
<1> QED
  BY <1>1, <1>5, <1>6

\* Whole units decode to their number.
LEMMA UnitsDecode ==
  ASSUME NEW p \in Nat \ {0}, NEW u \in Nat \ {0}, NEW c \in Int
  PROVE  Switched(c * u, p, u * p) = Centre(c, p)
<1>0. PICK q \in Nat \ {0} : q = u * p
  BY SMT
<1>1. PICK l \in Nat : l = u \div 2 /\ l < u
  OBVIOUS
<1>2. PICK o \in Int : o = c * u
  OBVIOUS
<1>3. PICK y \in Int : y = Switched(o, p, q) /\ Close(y * u, o, q, l) /\ Centre(y, p) = y
  <2>1. Switched(o, p, q) \in Int /\ Close(Switched(o, p, q) * u, o, q, u \div 2)
    BY <1>0, SwitchedNear
  <2>2. Centre(Switched(o, p, q), p) = Switched(o, p, q)
    BY <1>0, SwitchedCentred
  <2> QED
    BY <1>1, <2>1, <2>2
<1>4. Close(y * u, c * u, u * p, l) /\ l < u
  BY <1>0, <1>1, <1>2, <1>3
<1>5. Centre(y, p) = Centre(c, p)
  <2>1. y \in Int /\ l \in Nat
    BY <1>1, <1>3
  <2>2. WithinStep(y, c, u, p, l)
    BY <1>4 DEF WithinStep
  <2> QED
    BY <2>1, <2>2, StepsApart, SMTT(60)
<1> QED
  BY <1>0, <1>2, <1>3, <1>5

\* A sample whose phase is within half a unit of a message decrypts to it.
LEMMA DecodesNear ==
  ASSUME NEW ph \in Int, NEW e \in Int, NEW b \in Nat, b < LweUnit - b,
         Close(ph, e * LweUnit, LweQ, b)
  PROVE  Switched(ToTorus(Switched(ph, MessageP, LweQ), LweQ), MessageP, LweQ) = Centre(e, MessageP)
<1>1. PICK p \in Nat \ {0}, u \in Nat \ {0}, q \in Nat \ {0} :
        p = MessageP /\ u = LweUnit /\ q = LweQ /\ q = u * p
  BY UnitsFit, Units
<1> DEFINE w == Switched(ph, p, q)
           half == u \div 2
<1>2. w \in Int /\ Close(w * u, ph, q, half)
  BY <1>1, SwitchedNear
<1> HIDE DEF w
<1>3. half \in Nat /\ half + b < u /\ half < u
  BY <1>1
<1> HIDE DEF half
<1>4. Close(w * u, e * u, u * p, half + b) /\ half + b \in Nat
  <2>1. PICK wu \in Int, eu \in Int, l \in Nat : wu = w * u /\ eu = e * u /\ l = half
    BY <1>2, <1>3
  <2>2. Close(wu, ph, q, l) /\ Close(ph, eu, q, b) /\ q \in Int
    BY <1>1, <1>2, <2>1
  <2>3. Close(wu, eu, q, l + b)
    BY <2>2, CloseThrough
  <2> QED
    BY <1>1, <2>1, <2>3
<1>5. Centre(w, p) = Centre(e, p)
  <2>1. PICK o \in Nat : o = half + b /\ o < u
    BY <1>3, <1>4
  <2>2. Close(w * u, e * u, u * p, o)
    BY <1>4, <2>1
  <2>3. WithinStep(w, e, u, p, o)
    BY <2>1, <2>2 DEF WithinStep
  <2>4. w \in Int
    BY <1>2
  <2> QED
    BY <2>3, <2>4, StepsApart, SMTT(60)
<1>6. PICK c \in Int : c = Centre(e, p)
  BY CentreIs
<1>7. ToTorus(w, q) = c * u
  BY <1>1, <1>5, <1>6 DEF ToTorus, LweUnit
<1>8. Centre(c, p) = c
  BY <1>6, CentreTwice
<1>9. Switched(c * u, p, q) = Centre(c, p)
  BY <1>1, UnitsDecode
<1> QED
  BY <1>1, <1>6, <1>7, <1>8, <1>9 DEF w

(***************************************************************************)
(* Slots of the test polynomials.                                          *)
(***************************************************************************)
\* The constant coefficient of a polynomial turned by less than N, and by N more.
LEMMA RotatedAt ==
  ASSUME NEW f \in Poly, NEW by \in Coeffs, NEW t \in Int
  PROVE  /\ Rotated(by + (2 * N) * t, f)[0] = IF 0 < by THEN -f[N - by] ELSE f[0]
         /\ Rotated(by + N + (2 * N) * t, f)[0] = IF 0 < by THEN f[N - by] ELSE -f[0]
<1>1. PICK m \in Nat \ {0}, p \in Nat \ {0} : m = N /\ p = 2 * N /\ p = 2 * m /\ Coeffs = 0 .. m - 1
  BY Units
<1>2. by \in 0 .. m - 1 /\ by \in 0 .. p - 1 /\ by + m \in 0 .. p - 1 /\ 0 \in Coeffs
  BY <1>1
<1>3. (by + p * t) % p = by /\ (by + m + p * t) % p = by + m
  <2>1. (by + p * t) % p = by
    BY <1>1, <1>2, ModIs
  <2>2. PICK o \in 0 .. p - 1 : o = by + m
    BY <1>2
  <2>3. (o + p * t) % p = o
    BY <1>1, <2>2, ModIs
  <2> QED
    BY <2>1, <2>2, <2>3
<1>4. by % m = by /\ (by + m) % m = by
  <2>1. (by + m * 0) % m = by /\ (by + m * 1) % m = by
    BY <1>1, <1>2, ModIs
  <2>2. by + m * 0 = by /\ by + m * 1 = by + m
    BY <1>1, <1>2
  <2> QED
    BY <2>1, <2>2
<1>5. /\ f[0] \in Int /\ (0 < by => N - by \in Coeffs /\ f[N - by] \in Int)
      /\ 0 - by + N = N - by /\ 0 - 0 = 0
  <2>1. N - by \in Int /\ 0 - by + N = N - by
    BY <1>1, <1>2
  <2>2. 0 < by => N - by \in Coeffs
    BY <1>1, <1>2
  <2> QED
    BY <1>2, <2>1, <2>2, CoeffTyped
<1>6. Rotated(by + (2 * N) * t, f)[0] = 1 * (IF 0 < by THEN -f[0 - by + N] ELSE f[0 - by])
  <2>1. by < N
    BY <1>1, <1>2
  <2> QED
    BY <1>1, <1>2, <1>3, <1>4, <2>1 DEF Rotated
<1>7. Rotated(by + N + (2 * N) * t, f)[0] = (-1) * (IF 0 < by THEN -f[0 - by + N] ELSE f[0 - by])
  <2>1. ~(by + N < N)
    BY <1>1, <1>2
  <2>2. (by + N + (2 * N) * t) % (2 * N) = by + N /\ (by + N) % N = by
    BY <1>1, <1>3, <1>4
  <2>3. PICK x : x = by + N + (2 * N) * t /\ x % (2 * N) = by + N
    BY <2>2
  <2>4. Rotated(x, f)[0] = (IF by + N < N THEN 1 ELSE -1)
                             * (IF 0 < (by + N) % N THEN -f[0 - ((by + N) % N) + N]
                                ELSE f[0 - ((by + N) % N)])
    BY <1>2, <2>3 DEF Rotated
  <2> QED
    BY <2>1, <2>2, <2>3, <2>4
<1>8. CASE 0 < by
  <2>1. PICK c \in Int : c = f[N - by]
    BY <1>5, <1>8
  <2> QED
    BY <1>5, <1>6, <1>7, <1>8, <2>1
<1>9. CASE ~(0 < by)
  <2>1. PICK c \in Int : c = f[0] /\ by = 0
    BY <1>1, <1>2, <1>5, <1>9
  <2> QED
    BY <1>5, <1>6, <1>7, <1>9, <2>1
<1> QED
  BY <1>8, <1>9

\* Turned back by o it is coefficient o, by N more the negated one.
LEMMA TurnedBack ==
  ASSUME NEW f \in Poly, NEW o \in Coeffs, NEW t \in Int
  PROVE  /\ Rotated(-(o + (2 * N) * t), f)[0] = f[o]
         /\ Rotated(-(o + N + (2 * N) * t), f)[0] = -f[o]
<1>1. PICK m \in Nat \ {0} : m = N /\ Coeffs = 0 .. m - 1
  BY Units
<1>2. PICK u \in Int : u = (2 * N) * t /\ (2 * N) * (-t) = -u /\ (2 * N) * (-t - 1) = -u - 2 * m
  <2>1. (2 * m) * (-t) = -((2 * m) * t) /\ (2 * m) * t \in Int
    BY <1>1, SMT
  <2>2. (2 * m) * (-t - 1) = -((2 * m) * t) - 2 * m
    BY <1>1, SMT
  <2> QED
    BY <1>1, <2>1, <2>2
<1>3. -t \in Int /\ -t - 1 \in Int /\ f[o] \in Int /\ f[0] \in Int /\ 0 \in Coeffs
  BY <1>1, Units, CoeffTyped
<1>4. CASE o = 0
  <2>1. Rotated(0 + (2 * N) * (-t), f)[0] = f[0] /\ Rotated(0 + N + (2 * N) * (-t - 1), f)[0] = -f[0]
    BY <1>3, RotatedAt
  <2>2. 0 + (2 * N) * (-t) = -(o + (2 * N) * t)
    BY <1>2, <1>4
  <2>3. 0 + N + (2 * N) * (-t - 1) = -(o + N + (2 * N) * t)
    BY <1>1, <1>2, <1>4
  <2> QED
    BY <1>4, <2>1, <2>2, <2>3
<1>5. CASE o # 0
  <2>1. PICK b \in Coeffs : b = N - o /\ 0 < b /\ N - b = o
    <3>1. o \in 0 .. m - 1
      BY <1>1
    <3>2. m - o \in 0 .. m - 1 /\ 0 < m - o /\ m - (m - o) = o
      BY <1>5, <3>1
    <3> QED
      BY <1>1, <3>2
  <2>2. Rotated(b + N + (2 * N) * (-t - 1), f)[0] = f[o] /\ Rotated(b + (2 * N) * (-t - 1), f)[0] = -f[o]
    BY <1>3, <2>1, RotatedAt
  <2>3. b + N + (2 * N) * (-t - 1) = -(o + (2 * N) * t)
    BY <1>1, <1>2, <2>1
  <2>4. b + (2 * N) * (-t - 1) = -(o + N + (2 * N) * t)
    <3>1. PICK w \in Int : w = (2 * N) * (-t - 1) /\ w = -u - 2 * m
      BY <1>2
    <3>2. b + w = -(o + N + u)
      BY <1>1, <1>2, <2>1, <3>1
    <3> QED
      BY <1>2, <3>1, <3>2
  <2> QED
    BY <2>2, <2>3, <2>4
<1> QED
  BY <1>4, <1>5

\* how far a slot reaches to each side of its middle
HalfBox == Box \div 2

\* The coefficients of a slot.
LEMMA SlotOf ==
  ASSUME NEW g \in 0 .. Slots - 1, NEW c \in 0 .. Box - 1
  PROVE  g * Box + c \in Coeffs /\ (g * Box + c) \div Box = g /\ Centre(g, MessageP) = g
<1>1. PICK k \in Nat \ {0}, w \in Nat \ {0} :
        k = Slots /\ w = Box /\ N = k * w /\ MessageP = 2 * k /\ Coeffs = 0 .. N - 1
  BY UnitsFit, BoxIs, Units
<1>2. g \in 0 .. k - 1 /\ c \in 0 .. w - 1
  BY <1>1
<1>3. PICK u \in Nat, o \in Nat : u = g * w /\ o = (k - 1 - g) * w
  <2>1. g * w \in Nat /\ (k - 1 - g) * w \in Nat
    <3>1. g \in Nat /\ k - 1 - g \in Nat
      BY <1>2
    <3> QED
      BY <3>1, SMT
  <2> QED
    BY <2>1
<1>4. k * w = u + o + w
  <2>1. \A x, y \in Int : (x + y + 1) * w = x * w + y * w + w
    BY SMT
  <2>2. g + (k - 1 - g) + 1 = k /\ g \in Int /\ k - 1 - g \in Int
    BY <1>2
  <2> QED
    BY <1>3, <2>1, <2>2
<1>5. u + c \in Coeffs
  BY <1>1, <1>2, <1>3, <1>4
<1>6. (g * w + c) \div w = g
  <2>1. PICK x \in Int, y \in Int : x = u + c /\ y = x \div w
    <3>1. u + c \in Int
      BY <1>2, <1>3
    <3> QED
      BY <3>1, DivMod
  <2>2. x = w * y + (x % w) /\ x % w \in 0 .. w - 1
    BY <2>1, DivMod
  <2>3. PICK z \in 0 .. w - 1, a \in Int : z = x % w /\ a = w * y
    BY <2>1, <2>2
  <2>4. w * (g - y) = u - a /\ g - y \in Int
    <3>1. w * g - w * y = w * (g - y) /\ w * g = g * w
      BY <1>2, <2>1, SMT
    <3> QED
      BY <1>2, <1>3, <2>1, <2>3, <3>1
  <2>5. u - a = z - c
    BY <1>3, <2>1, <2>2, <2>3, <1>2
  <2>6. g - y = 0
    BY <1>2, <2>3, <2>4, <2>5, FarMultiple
  <2>7. (g * w + c) \div w = y
    BY <1>3, <2>1
  <2> QED
    BY <1>2, <2>1, <2>6, <2>7
<1>7. Centre(g, MessageP) = g
  BY <1>1, <1>2, CentreOf
<1> QED
  BY <1>1, <1>3, <1>5, <1>6, <1>7

\* A polynomial that has a value about the middle of a slot, which for slot 0 is
\* at both ends, gives it when it is turned back to the slot, and by N more
\* the negated one.
LEMMA SlotTurned ==
  ASSUME NEW f \in Poly, NEW g \in 0 .. Slots - 1, NEW d \in -HalfBox .. HalfBox - 1, NEW t \in Int,
         NEW e \in Int,
         \A o \in Coeffs : o = g * Box + d => Close(f[o], e, TorusQ, 0),
         \A o \in Coeffs : g = 0 /\ d < 0 /\ o = N + d => Close(f[o], -e, TorusQ, 0)
  PROVE  /\ Close(Rotated(-(g * Box + d + (2 * N) * t), f)[0], e, TorusQ, 0)
         /\ Close(Rotated(-(g * Box + d + N + (2 * N) * t), f)[0], -e, TorusQ, 0)
<1>1. PICK w \in Nat \ {0}, h \in Nat, m \in Nat \ {0} :
        w = Box /\ h = HalfBox /\ m = N /\ Coeffs = 0 .. m - 1 /\ 2 * h <= w /\ d \in -h .. h - 1
  <2>1. PICK w \in Nat \ {0} : w = Box
    BY BoxIs
  <2>2. w \div 2 \in Nat /\ 2 * (w \div 2) <= w
    BY <2>1
  <2> QED
    BY <2>1, <2>2, Units DEF HalfBox
<1>2. /\ g * w \in Nat /\ (g = 0 => g * w = 0) /\ (g # 0 => g * w >= w) /\ g \in Nat
      /\ g * w <= m - w
  <2>1. g \in Nat
    BY UnitsFit
  <2>2. g * w \in Nat /\ (g = 0 => g * w = 0) /\ (g # 0 => g * w >= w)
    BY <2>1, SMT
  <2>3. w - 1 \in 0 .. Box - 1
    BY <1>1
  <2>4. g * w + (w - 1) \in 0 .. m - 1
    BY <1>1, <2>3, SlotOf
  <2> QED
    BY <1>1, <2>1, <2>2, <2>4
<1>3. PICK b \in Nat : b = g * w /\ b <= m - w /\ (g # 0 => b >= w) /\ (g = 0 => b = 0)
  BY <1>2
<1>4. PICK u \in Int : u = (2 * N) * t /\ (2 * N) * (t - 1) = u - 2 * m /\ t - 1 \in Int
  <2>1. (2 * m) * (t - 1) = (2 * m) * t - 2 * m /\ (2 * m) * t \in Int
    BY SMT
  <2> QED
    BY <1>1, <2>1
<1>5. CASE b + d >= 0
  <2>1. PICK o \in Coeffs : o = b + d
    BY <1>1, <1>3, <1>5
  <2>2. Close(f[o], e, TorusQ, 0) /\ f[o] \in Int
    BY <1>1, <1>3, <2>1, CoeffTyped
  <2>3. Close(-f[o], -e, TorusQ, 0)
    <3>1. TorusQ \in Int /\ 0 \in Nat
      BY Units
    <3> QED
      BY <2>2, <3>1, CloseNegative
  <2>4. Rotated(-(o + (2 * N) * t), f)[0] = f[o] /\ Rotated(-(o + N + (2 * N) * t), f)[0] = -f[o]
    BY TurnedBack
  <2> QED
    BY <1>1, <1>3, <2>1, <2>2, <2>3, <2>4
<1>6. CASE ~(b + d >= 0)
  <2>1. g = 0 /\ d < 0 /\ b = 0
    BY <1>1, <1>3, <1>6
  <2>2. PICK o \in Coeffs : o = N + d
    BY <1>1, <1>3, <2>1
  <2>3. Close(f[o], -e, TorusQ, 0) /\ f[o] \in Int
    BY <2>1, <2>2, CoeffTyped
  <2>4. Close(-f[o], e, TorusQ, 0)
    <3>1. TorusQ \in Int /\ 0 \in Nat /\ -e \in Int /\ -(-e) = e
      BY Units
    <3>2. Close(-f[o], -(-e), TorusQ, 0)
      BY <2>3, <3>1, CloseNegative
    <3> QED
      BY <3>1, <3>2
  <2>5. /\ Rotated(-(o + (2 * N) * t), f)[0] = f[o]
        /\ Rotated(-(o + N + (2 * N) * (t - 1)), f)[0] = -f[o]
    BY <1>4, TurnedBack
  <2>6. o + (2 * N) * t = g * Box + d + N + (2 * N) * t
    <3>1. o = b + d + N
      BY <1>1, <2>1, <2>2
    <3> QED
      BY <1>1, <1>3, <3>1
  <2>7. o + N + (2 * N) * (t - 1) = g * Box + d + (2 * N) * t
    <3>1. o + N + (u - 2 * m) = b + d + u
      BY <1>1, <1>4, <2>1, <2>2
    <3> QED
      BY <1>1, <1>3, <1>4, <3>1
  <2> QED
    BY <2>3, <2>4, <2>5, <2>6, <2>7
<1> QED
  BY <1>3, <1>5, <1>6

\* The test polynomial of a table has the table's value about the middle of a slot.
LEMMA TableSlot ==
  ASSUME NEW f \in Tables, NEW g \in 0 .. Slots - 1, NEW d \in -HalfBox .. HalfBox - 1, NEW o \in Coeffs
  PROVE  /\ o = g * Box + d => Close(TestPolynomial(f)[o], Entry(f, g) * Unit, TorusQ, 0)
         /\ g = 0 /\ d < 0 /\ o = N + d => Close(TestPolynomial(f)[o], -(Entry(f, g) * Unit), TorusQ, 0)
<1>1. PICK w \in Nat \ {0}, h \in Nat, m \in Nat \ {0} :
        /\ w = Box /\ h = HalfBox /\ h = Box \div 2 /\ m = N /\ Coeffs = 0 .. m - 1
        /\ 2 * h <= w /\ d \in -h .. h - 1
  <2>1. PICK w \in Nat \ {0} : w = Box
    BY BoxIs
  <2>2. w \div 2 \in Nat /\ 2 * (w \div 2) <= w
    BY <2>1
  <2> QED
    BY <2>1, <2>2, Units DEF HalfBox
<1>2. PICK c \in 0 .. Box - 1 : c = d + h
  BY <1>1
<1>3. PICK b \in Int : b = g * Box /\ b + c \in Coeffs /\ (g = 0 => b = 0)
  <2>1. g * Box + c \in Coeffs /\ g * Box \in Int
    <3>1. g \in Int
      BY UnitsFit
    <3> QED
      BY <1>1, <3>1, SlotOf, SMT
  <2>2. g = 0 => g * Box = 0
    BY <1>1
  <2> QED
    BY <2>1, <2>2
<1> DEFINE T == [j \in Coeffs |-> ToTorus(Entry(f, Centre(j \div Box, MessageP)), TorusQ)]
<1>4. PICK e \in Int : e = Entry(f, g)
  <2>1. g \in Int
    BY UnitsFit
  <2> QED
    BY <2>1, EntryTyped
<1>5. T[b + c] = ToTorus(e, TorusQ)
  BY <1>3, <1>4, SlotOf
<1>6. PICK y \in Int : y = T[b + c] /\ Close(y, e * Unit, TorusQ, 0)
  BY <1>4, <1>5, ToTorusNear
<1>7. TestPolynomial(f)[o] = IF o + h < N THEN T[o + h] ELSE -T[o + h - N]
  BY <1>1 DEF TestPolynomial
<1> HIDE DEF T
<1>8. ASSUME o = g * Box + d PROVE Close(TestPolynomial(f)[o], e * Unit, TorusQ, 0)
  <2>1. o + h = b + c /\ o + h < N
    BY <1>1, <1>2, <1>3, <1>8
  <2> QED
    BY <1>6, <1>7, <2>1
<1>9. ASSUME g = 0, d < 0, o = N + d PROVE Close(TestPolynomial(f)[o], -(e * Unit), TorusQ, 0)
  <2>1. ~(o + h < N) /\ o + h - N = b + c
    BY <1>1, <1>2, <1>3, <1>9
  <2>2. PICK u \in Int : u = e * Unit
    BY <1>4, UnitsFit
  <2>3. Close(-y, -u, TorusQ, 0)
    <3>1. TorusQ \in Int /\ 0 \in Nat /\ Close(y, u, TorusQ, 0)
      BY <1>6, <2>2, Units
    <3> QED
      BY <1>6, <2>2, <3>1, CloseNegative
  <2> QED
    BY <1>6, <1>7, <2>1, <2>2, <2>3
<1> QED
  BY <1>4, <1>8, <1>9

\* So has the one made for a single value, which is about message 0.
LEMMA ValueSlot ==
  ASSUME NEW f \in Tables, f.kind = "value", NEW g \in 0 .. Slots - 1,
         NEW d \in -HalfBox .. HalfBox - 1, NEW o \in Coeffs
  PROVE  /\ o = g * Box + d =>
              Close(TestPolynomialValue(f.value)[o], Entry(f, g) * Unit, TorusQ, 0)
         /\ g = 0 /\ d < 0 /\ o = N + d =>
              Close(TestPolynomialValue(f.value)[o], -(Entry(f, g) * Unit), TorusQ, 0)
<1>1. PICK w \in Nat \ {0}, h \in Nat, m \in Nat \ {0}, k \in Nat \ {0} :
        /\ w = Box /\ h = HalfBox /\ h = Box \div 2 /\ m = N /\ Coeffs = 0 .. m - 1
        /\ 2 * h <= w /\ d \in -h .. h - 1 /\ k = Slots /\ MessageP = 2 * k /\ m = k * w
  <2>1. PICK w \in Nat \ {0} : w = Box
    BY BoxIs
  <2>2. w \div 2 \in Nat /\ 2 * (w \div 2) <= w
    BY <2>1
  <2> QED
    BY <2>1, <2>2, Units, UnitsFit DEF HalfBox
<1>2. PICK b \in Nat : b = g * Box /\ (g = 0 => b = 0) /\ (g # 0 => b >= w) /\ b + w <= m
  <2>1. g \in Nat /\ w - 1 \in 0 .. Box - 1
    BY <1>1, UnitsFit
  <2>2. g * w \in Nat /\ (g = 0 => g * w = 0) /\ (g # 0 => g * w >= w)
    BY <2>1, SMT
  <2>3. g * w + (w - 1) \in 0 .. m - 1
    BY <1>1, <2>1, SlotOf
  <2> QED
    BY <1>1, <2>2, <2>3
<1>3. w <= m
  BY <1>1, <1>2
<1>4. PICK a \in Int : a = f.value
  BY DEF Tables
<1>5. PICK e \in Int : e = Entry(f, g) /\ e = IF g = 0 THEN a ELSE 0
  <2>1. f.t = 0
    BY DEF Tables
  <2>2. Centre(0, MessageP) = 0
    <3>1. 0 \in 0 .. k - 1
      BY <1>1
    <3> QED
      BY <1>1, <3>1, CentreOf
  <2>3. Entry(f, g) = IF g = 0 THEN a ELSE 0
    BY <1>4, <2>1, <2>2 DEF Entry
  <2> QED
    BY <1>4, <2>3
<1>6. TestPolynomialValue(f.value)[o] = ToTorus(IF o < h THEN a ELSE IF o >= N - h THEN -a ELSE 0, TorusQ)
  BY <1>1, <1>4 DEF TestPolynomialValue
<1>7. ASSUME o = g * Box + d PROVE Close(TestPolynomialValue(f.value)[o], e * Unit, TorusQ, 0)
  <2>1. (IF o < h THEN a ELSE IF o >= N - h THEN -a ELSE 0) = e
    <3>1. CASE g = 0
      <4>1. o < h
        BY <1>1, <1>2, <1>7, <3>1
      <4> QED
        BY <1>5, <3>1, <4>1
    <3>2. CASE g # 0
      <4>1. ~(o < h) /\ ~(o >= N - h)
        BY <1>1, <1>2, <1>7, <3>2
      <4> QED
        BY <1>5, <3>2, <4>1
    <3> QED
      BY <3>1, <3>2
  <2> QED
    BY <1>5, <1>6, <2>1, ToTorusNear
<1>8. ASSUME g = 0, d < 0, o = N + d
      PROVE  Close(TestPolynomialValue(f.value)[o], -(e * Unit), TorusQ, 0)
  <2>1. ~(o < h) /\ o >= N - h /\ e = a
    <3>1. d \in -h .. h - 1 /\ 2 * h <= w /\ w <= m /\ m = N /\ o = m + d
      BY <1>1, <1>3, <1>8
    <3>2. h \in Int /\ w \in Int /\ m \in Int
      BY <1>1
    <3>3. ~(o < h) /\ o >= m - h
      BY <3>1, <3>2
    <3>4. e = a
      BY <1>5, <1>8
    <3> QED
      BY <3>1, <3>3, <3>4
  <2>2. (-a) * Unit = -(e * Unit) /\ -a \in Int
    <3>1. PICK u \in Int : u = Unit
      BY UnitsFit
    <3>2. (-a) * u = -(a * u)
      BY SMT
    <3> QED
      BY <1>4, <2>1, <3>1, <3>2
  <2>3. Close(ToTorus(-a, TorusQ), (-a) * Unit, TorusQ, 0)
    BY <2>2, ToTorusNear
  <2> QED
    BY <1>6, <2>1, <2>2, <2>3
<1> QED
  BY <1>5, <1>7, <1>8

\* What comes out of the test polynomial that is turned by a phase in the slot
\* of a message is what the table gives for the message.
LEMMA LookupIs ==
  ASSUME lut \in Tables, NEW m \in Messages, NEW x \in Int,
         Centre(x - m * Box, 2 * N) \in -HalfBox .. HalfBox - 1
  PROVE  Close(Rotated(-x, v)[0], Expected(m) * Unit, TorusQ, 0) /\ Expected(m) \in Int
<1>1. PICK k \in Nat \ {0}, w \in Nat \ {0}, p \in Nat \ {0}, u \in Nat \ {0}, q \in Nat \ {0} :
        /\ k = Slots /\ w = Box /\ p = MessageP /\ u = Unit /\ q = TorusQ
        /\ p = 2 * k /\ N = k * w /\ q = u * p
  BY UnitsFit, BoxIs, Units
<1>2. m \in -k .. k - 1 /\ m * w \in Int
  <2>1. m \in -k .. k - 1
    BY <1>1 DEF Messages, Slots
  <2> QED
    BY <2>1
<1>3. PICK d \in -HalfBox .. HalfBox - 1, t \in Int : x = m * w + d + (2 * N) * t
  <2>1. PICK y \in Int, r \in Nat \ {0} : y = x - m * w /\ r = 2 * N
    <3>1. x - m * w \in Int
      BY <1>2
    <3> QED
      BY <3>1, Units
  <2>2. PICK t \in Int : Centre(y, r) = y + r * t
    BY <2>1, CentreIs
  <2>3. PICK d \in -HalfBox .. HalfBox - 1 : d = y + r * t
    BY <1>1, <2>1, <2>2
  <2>4. r * (-t) = -(r * t) /\ r * t \in Int /\ -t \in Int
    BY <2>1, <2>2, SMT
  <2>5. x = m * w + d + r * (-t)
    <3>1. PICK a \in Int, c \in Int : a = m * w /\ c = r * t
      BY <1>2, <2>4
    <3> QED
      BY <2>1, <2>3, <2>4, <3>1
  <2> QED
    BY <2>1, <2>4, <2>5
<1>4. v \in Poly
  BY VTyped
<1>5. ASSUME NEW g \in 0 .. Slots - 1, NEW z \in Int
      PROVE  /\ Entry(lut, g) \in Int
             /\ Close(Rotated(-(g * Box + d + (2 * N) * z), v)[0], Entry(lut, g) * Unit, TorusQ, 0)
             /\ Close(Rotated(-(g * Box + d + N + (2 * N) * z), v)[0], -(Entry(lut, g) * Unit), TorusQ, 0)
  <2>1. Entry(lut, g) \in Int
    <3>1. g \in Int
      BY <1>1
    <3> QED
      BY <3>1, EntryTyped
  <2>2. PICK a \in Int : a = Entry(lut, g) * Unit
    BY <1>1, <2>1
  <2>3. \A o \in Coeffs : /\ o = g * Box + d => Close(v[o], a, TorusQ, 0)
                          /\ g = 0 /\ d < 0 /\ o = N + d => Close(v[o], -a, TorusQ, 0)
    <3>1. CASE lut.kind = "value"
      BY <1>3, <2>2, <3>1, ValueSlot DEF v
    <3>2. CASE lut.kind # "value"
      BY <1>3, <2>2, <3>2, TableSlot DEF v
    <3> QED
      BY <3>1, <3>2
  <2>4. /\ Close(Rotated(-(g * Box + d + (2 * N) * z), v)[0], a, TorusQ, 0)
        /\ Close(Rotated(-(g * Box + d + N + (2 * N) * z), v)[0], -a, TorusQ, 0)
    <3>1. \A o \in Coeffs : o = g * Box + d => Close(v[o], a, TorusQ, 0)
      BY <2>3, Zenon
    <3>2. \A o \in Coeffs : g = 0 /\ d < 0 /\ o = N + d => Close(v[o], -a, TorusQ, 0)
      BY <2>3, Zenon
    <3>3. d \in -HalfBox .. HalfBox - 1
      BY <1>3
    <3>4. PICK f \in Poly : f = v
      BY <1>4
    <3> QED
      BY <2>2, <3>1, <3>2, <3>3, <3>4, SlotTurned, SMTT(60)
  <2> QED
    BY <2>1, <2>2, <2>4
\* the expected value is the entry, or its negation, modulo P
<1>6. ASSUME NEW e \in Int PROVE Centre(e, p) \in Int /\ Close(e * u, Centre(e, p) * u, q, 0)
  <2>1. PICK c \in Int : c = Centre(e, p) /\ Close(c, e, p, 0)
    BY CentreClose
  <2>2. Close(e, c, p, 0) /\ p \in Int /\ 0 \in Nat /\ u \in Nat
    BY <2>1, CloseBack
  <2>3. Close(e * u, c * u, p * u, 0 * u) /\ 0 * u = 0 /\ p * u = u * p
    <3>1. Close(e * u, c * u, p * u, 0 * u)
      BY <2>2, CloseTimes, SMTT(30)
    <3>2. 0 * u = 0 /\ p * u = u * p
      BY SMT
    <3> QED
      BY <3>1, <3>2, Zenon
  <2> QED
    BY <1>1, <2>1, <2>3
<1>7. ASSUME NEW r \in Int, NEW a \in Int, NEW c \in Int, Close(r, a, q, 0), Close(a, c, q, 0)
      PROVE  Close(r, c, q, 0)
  <2>1. q \in Int /\ 0 \in Nat /\ 0 + 0 = 0
    BY <1>1
  <2>2. Close(r, c, q, 0 + 0)
    BY <1>7, <2>1, CloseThrough
  <2> QED
    BY <2>1, <2>2
<1>8. PICK r \in Int : r = Rotated(-x, v)[0]
  <2>1. -x \in Int /\ 0 \in Coeffs
    BY Units
  <2> QED
    BY <1>4, <2>1, RotatedTyped, CoeffTyped
<1>9. CASE m >= 0
  <2>1. m \in 0 .. Slots - 1
    BY <1>1, <1>2, <1>9
  <2>2. PICK e \in Int : e = Entry(lut, m) /\ Close(r, e * u, q, 0)
    BY <1>1, <1>3, <1>5, <1>8, <2>1
  <2>3. Expected(m) = Centre(e, p)
    BY <1>1, <1>9, <2>2 DEF Expected
  <2>4. PICK a \in Int, c \in Int : a = e * u /\ c = Centre(e, p) * u /\ Centre(e, p) \in Int
    BY <1>1, <1>6, <2>2
  <2>5. Close(r, c, q, 0)
    BY <1>6, <1>7, <1>8, <2>2, <2>4
  <2> QED
    BY <1>1, <1>8, <2>3, <2>4, <2>5
<1>10. CASE ~(m >= 0)
  <2>1. m + Slots \in 0 .. Slots - 1
    BY <1>1, <1>2, <1>10
  <2>2. PICK g \in 0 .. Slots - 1 : g = m + Slots
    BY <2>1
  <2>3. x = g * Box + d + N + (2 * N) * (t - 1) /\ t - 1 \in Int
    <3>1. g * w = m * w + N
      <4>1. (m + k) * w = m * w + k * w
        BY <1>2, SMT
      <4> QED
        BY <1>1, <2>2, <4>1
    <3>2. PICK a \in Int, l \in Int : a = m * w /\ l = N
      BY <1>2, Units
    <3>3. PICK z \in Int : z = (2 * N) * t /\ (2 * N) * (t - 1) = z - 2 * l
      <4>1. (2 * l) * (t - 1) = (2 * l) * t - 2 * l /\ (2 * l) * t \in Int
        BY SMT
      <4> QED
        BY <3>2, <4>1
    <3>4. HalfBox \in Int
      BY <1>1, BoxIs DEF HalfBox
    <3>5. d \in Int
      BY <1>3, <3>4
    <3>6. a + d + z = (a + l) + d + l + (z - 2 * l)
      BY <3>2, <3>3, <3>5
    <3>7. x = a + d + z
      BY <1>3, <3>2, <3>3
    <3>8. (a + l) + d + l + (z - 2 * l) = g * Box + d + N + (2 * N) * (t - 1)
      BY <1>1, <3>1, <3>2, <3>3
    <3>9. t - 1 \in Int
      BY <1>3
    <3>10. x = (a + l) + d + l + (z - 2 * l)
      BY <3>6, <3>7, Zenon
    <3>11. x = g * Box + d + N + (2 * N) * (t - 1)
      BY <3>8, <3>10, Zenon
    <3> QED
      BY <3>9, <3>11, Zenon
  <2>4. PICK e \in Int : e = Entry(lut, g) /\ Close(r, -(e * u), q, 0)
    <3>1. Rotated(-x, v)[0] = Rotated(-(g * Box + d + N + (2 * N) * (t - 1)), v)[0]
      BY <2>3, Zenon
    <3>2. Entry(lut, g) \in Int
      BY <1>5, Zenon
    <3>3. Close(Rotated(-x, v)[0], -(Entry(lut, g) * Unit), TorusQ, 0)
      BY <1>5, <2>3, <3>1, Zenon
    <3> QED
      BY <1>1, <1>8, <3>2, <3>3, Zenon
  <2>5. -(e * u) = (-e) * u /\ -e \in Int /\ e * u \in Int
    BY <1>1, <2>4, NegatedTimes
  <2>6. Expected(m) = Centre(-e, p)
    <3>1. Slots = MessageP \div 2
      BY DEF Slots
    <3> QED
      BY <1>1, <1>10, <2>2, <2>4, <3>1 DEF Expected
  <2>7. PICK a \in Int, c \in Int : a = (-e) * u /\ c = Centre(-e, p) * u /\ Centre(-e, p) \in Int
    BY <1>1, <1>6, <2>5
  <2>8. Close(r, a, q, 0) /\ Close(a, c, q, 0)
    BY <1>6, <2>4, <2>5, <2>7
  <2>9. Close(r, c, q, 0)
    BY <1>7, <1>8, <2>7, <2>8
  <2> QED
    BY <1>1, <1>8, <2>6, <2>7, <2>9
<1> QED
  BY <1>9, <1>10

(***************************************************************************)
(* Decryption.                                                             *)
(***************************************************************************)
\* Multiples that are close come from numbers that are as many times closer.
LEMMA CloseDivides ==
  ASSUME NEW x \in Int, NEW y \in Int, NEW r \in Nat \ {0}, NEW q \in Nat \ {0}, NEW u \in Nat \ {0},
         NEW b \in Nat, 2 * b < u * r, Close(x * r, y * r, q * r, b)
  PROVE  \E c \in Nat : c < u - c /\ Close(x, y, q, c)
<1>1. PICK e \in Int, t \in Int : x * r - y * r = e + (q * r) * t /\ -b <= e /\ e <= b
  BY DEF Close
<1>2. PICK w \in Int : w = q * t
  OBVIOUS
<1>3. PICK z \in Int : z = x - y - w
  BY <1>2
<1>4. e = z * r
  <2>1. \A f, g, h \in Int : (f - g - h) * r = f * r - g * r - h * r
    BY SMT
  <2>2. z * r = x * r - y * r - w * r
    BY <1>2, <1>3, <2>1
  <2>3. w * r = (q * r) * t
    BY <1>2, SMT
  <2>4. PICK a \in Int, c \in Int : a = x * r - y * r /\ c = w * r
    <3>1. x * r \in Int /\ y * r \in Int /\ w * r \in Int
      BY <1>2
    <3> QED
      BY <3>1
  <2> QED
    BY <1>1, <2>2, <2>3, <2>4
<1>5. PICK c \in Nat : -c <= z /\ z <= c /\ (z = c \/ z = -c)
  <2>1. CASE z >= 0
    <3>1. z \in Nat /\ -z <= z /\ z <= z
      BY <1>3, <2>1
    <3> QED
      BY <3>1
  <2>2. CASE ~(z >= 0)
    <3>1. -z \in Nat /\ -(-z) <= z /\ z <= -z /\ z = -(-z)
      BY <1>3, <2>2
    <3> QED
      BY <3>1
  <2> QED
    BY <2>1, <2>2
<1>6. c * r <= b
  <2>1. CASE z = c
    BY <1>1, <1>4, <2>1
  <2>2. CASE z = -c
    <3>1. (-c) * r = -(c * r) /\ c * r \in Int
      BY <1>5, SMT
    <3> QED
      BY <1>1, <1>4, <2>2, <3>1
  <2> QED
    BY <1>5, <2>1, <2>2
<1>7. 2 * c < u
  <2> SUFFICES ASSUME u <= 2 * c PROVE FALSE
    BY <1>5
  <2>1. u * r <= (2 * c) * r
    BY <1>5, SMT
  <2>2. (2 * c) * r = 2 * (c * r) /\ c * r \in Int
    BY <1>5, SMT
  <2>3. PICK f \in Int, g \in Int : f = u * r /\ g = c * r
    BY <2>2
  <2> QED
    BY <1>6, <2>1, <2>2, <2>3
<1>8. Close(x, y, q, c)
  <2>1. x - y = z + q * t
    BY <1>2, <1>3
  <2> QED
    BY <1>3, <1>5, <2>1 DEF Close
<1> QED
  BY <1>5, <1>7, <1>8

\* If the phase of the accumulator and the loss of the switch leave less than
\* half the distance of two messages, the message is decrypted.
LEMMA DecodesWithin ==
  ASSUME NEW ph \in Int, NEW o \in Int, NEW y \in Int, NEW e \in Int, NEW loss \in Int,
         Near(ph * (TorusQ \div LweQ), o, TorusQ, loss),
         Near(o, y, TorusQ, TorusQ \div (2 * MessageP) - 1 - loss),
         Close(y, e * Unit, TorusQ, 0)
  PROVE  Switched(ToTorus(Switched(ph, MessageP, LweQ), LweQ), MessageP, LweQ) = Centre(e, MessageP)
<1>1. PICK p \in Nat \ {0}, u \in Nat \ {0}, l \in Nat \ {0}, r \in Nat \ {0}, q \in Nat \ {0},
           k \in Nat \ {0} :
        /\ p = MessageP /\ u = Unit /\ l = LweUnit /\ r = Ratio /\ q = TorusQ /\ k = LweQ
        /\ r = TorusQ \div LweQ /\ q = u * p /\ u = l * r /\ q = k * r
  <2>1. /\ Ratio \in Nat \ {0} /\ Ratio = TorusQ \div LweQ /\ TorusQ = LweQ * Ratio
    <3>1. Ratio * LweQ = LweQ * Ratio
      <4>1. PICK a \in Int, c \in Int : a = Ratio /\ c = LweQ
        BY RatioIs, Units
      <4> QED
        BY <4>1
    <3> QED
      BY <3>1, RatioIs DEF Ratio
  <2>2. /\ MessageP \in Nat \ {0} /\ TorusQ \in Nat \ {0} /\ LweQ \in Nat \ {0}
        /\ Unit \in Nat \ {0} /\ LweUnit \in Nat \ {0} /\ TorusQ = Unit * MessageP
        /\ Unit = LweUnit * Ratio
    BY UnitsFit, Units
  <2> QED
    BY <2>1, <2>2, Zenon
<1>2. PICK z \in Nat : z = TorusQ \div (2 * MessageP) /\ 2 * z <= u
  <2>1. PICK z \in Int, w \in Nat \ {0} : w = 2 * p /\ z = q \div w
    <3>1. PICK w \in Nat \ {0} : w = 2 * p
      BY <1>1
    <3>2. q \in Int
      BY <1>1
    <3> QED
      BY <3>1, <3>2, DivMod
  <2>2. q = w * z + (q % w) /\ q % w \in 0 .. w - 1 /\ z >= 0
    <3>1. q \in Int /\ q \in Nat
      BY <1>1
    <3>2. q = w * z + (q % w) /\ q % w \in 0 .. w - 1
      BY <2>1, <3>1, DivMod
    <3>3. q \div w >= 0
      BY <2>1, <3>1, SMT
    <3> QED
      BY <2>1, <3>2, <3>3
  <2>3. 2 * z <= u
    <3> SUFFICES ASSUME u + 1 <= 2 * z PROVE FALSE
      BY <1>1, <2>1
    <3>1. (u + 1) * p <= (2 * z) * p
      BY <1>1, <2>1, SMT
    <3>2. (u + 1) * p = u * p + p /\ (2 * z) * p = w * z
      BY <1>1, <2>1, SMT
    <3>3. PICK a \in Int, c \in Int : a = u * p /\ c = w * z
      <4>1. u * p \in Int /\ w * z \in Int
        BY <1>1, <2>1, SMT
      <4> QED
        BY <4>1
    <3>4. PICK d \in 0 .. w - 1 : d = q % w /\ q = c + d
      BY <2>2, <3>3
    <3>5. a + p <= c /\ q = a /\ w \in Int /\ p \in Nat \ {0}
      BY <1>1, <2>1, <3>1, <3>2, <3>3
    <3>6. d \in Nat /\ a \in Int /\ c \in Int /\ q = c + d
      BY <2>1, <3>3, <3>4
    <3> QED
      BY <3>5, <3>6
  <2> QED
    BY <1>1, <2>1, <2>2, <2>3
<1>3. PICK a \in Int : a = ph * r
  BY <1>1
<1>4. loss \in Nat /\ Close(a, o, q, loss)
  BY <1>1, <1>3, NearClose
<1>5. z - 1 - loss \in Nat /\ Close(o, y, q, z - 1 - loss)
  <2>1. PICK b \in Int : b = z - 1 - loss
    BY <1>2
  <2>2. Near(o, y, q, b)
    BY <1>1, <1>2, <2>1
  <2>3. b \in Nat /\ Close(o, y, q, b)
    BY <1>1, <2>1, <2>2, NearClose
  <2> QED
    BY <2>1, <2>3
<1>6. PICK c \in Nat : c = z - 1 /\ 2 * c < u
  BY <1>2, <1>4, <1>5
<1>7. PICK b \in Int, d \in Int : b = e * u /\ d = e * l /\ b = d * r
  <2>1. e * l \in Int /\ e * u \in Int
    BY <1>1
  <2>2. e * (l * r) = (e * l) * r
    BY <1>1, SMT
  <2> QED
    BY <1>1, <2>1, <2>2
<1>8. Close(a, b, q, c)
  <2>1. PICK f \in Nat : f = z - 1 - loss /\ Close(o, y, q, f) /\ loss + f = c
    BY <1>4, <1>5, <1>6
  <2>2. Close(a, y, q, loss + f) /\ loss + f \in Nat /\ q \in Int /\ a \in Int
    BY <1>1, <1>3, <1>4, <2>1, CloseThrough
  <2>3. Close(a, y, q, c) /\ Close(y, b, q, 0) /\ c + 0 = c /\ 0 \in Nat
    BY <1>1, <1>6, <1>7, <2>1, <2>2
  <2>4. Close(a, b, q, c + 0)
    BY <1>3, <1>6, <1>7, <2>2, <2>3, CloseThrough
  <2> QED
    BY <2>3, <2>4
<1>9. Close(ph * r, d * r, k * r, c) /\ 2 * c < l * r
  BY <1>1, <1>3, <1>6, <1>7, <1>8
<1>10. PICK f \in Nat : f < l - f /\ Close(ph, d, k, f)
  BY <1>1, <1>6, <1>7, <1>9, CloseDivides
<1> QED
  BY <1>1, <1>7, <1>10, DecodesNear

(***************************************************************************)
(* What the phase of the accumulator decides.                              *)
(***************************************************************************)
\* what is left of half the distance of two messages for the accumulator
Room == TorusQ \div (2 * MessageP) - 1 - SwitchLoss

Placed ==
    /\ i <= n /\ (pc \in {"multiply", "accumulate"} => i < n)
    /\ Working => message \in Messages
    /\ pc \in {"extracted", "done"} =>
         i = n /\ Near(Phase(acc, RingKey)[0], Rotated(-Turned2N(i), v)[0], TorusQ, Room)

\* The index stays within the key, and extraction finds the phase of all of it.
LEMMA PlacedFirst == Sampled /\ Init => Placed
<1> SUFFICES ASSUME Sampled, Init PROVE Placed
  OBVIOUS
<1>1. i = 0 /\ pc = "keygen" /\ n \in Nat \ {0}
  BY CaseIs DEF Init
<1> QED
  BY <1>1 DEF Placed, Working

\* Every step keeps that.
LEMMA PlacedKept ==
  Sampled /\ Held /\ Placed /\ AccumulatorPhase /\ [Next]_vars => Placed'
<1> SUFFICES ASSUME Sampled, Held, Placed, AccumulatorPhase, [Next]_vars PROVE Placed'
  OBVIOUS
<1>0. n \in Nat \ {0} /\ Group \in {1, 2, 3} /\ i \in Nat /\ i % Group = 0 /\ i <= n
  BY CaseIs DEF Held, Placed
<1>1. CASE UNCHANGED vars
  BY <1>1 DEF vars, fixed, given, product, Placed, Working, n, v, Turned2N
<1>2. CASE Generate
  BY <1>2 DEF Generate, Placed, Working, n
<1>3. ASSUME NEW m \in Messages, Begin(m) PROVE Placed'
  <2>1. n' = n /\ i' \in {0, 1} /\ pc' = "component" /\ message' = m
    BY <1>3 DEF Begin, fixed, n
  <2>2. i' <= n'
    BY <1>0, <2>1
  <2>3. Messages' = Messages
    BY DEF Messages
  <2> QED
    BY <1>3, <2>1, <2>2, <2>3 DEF Placed
<1>4. CASE Skip
  <2>1. n' = n /\ i' = i + 1 /\ i < n /\ pc = "component" /\ pc' = pc /\ message' = message
    BY <1>4 DEF Skip, fixed, given, n
  <2>2. i' <= n'
    BY <1>0, <2>1
  <2> QED
    BY <2>1, <2>2 DEF Placed, Working
<1>5. CASE Prepare
  <2>1. n' = n /\ i' = i /\ i < n /\ pc = "component" /\ pc' = "multiply" /\ message' = message
    BY <1>5 DEF Prepare, fixed, given, n
  <2> QED
    BY <2>1 DEF Placed, Working
<1>6. CASE Multiply
  <2>1. n' = n /\ i' = i /\ pc = "multiply" /\ pc' = "accumulate" /\ message' = message
    BY <1>6 DEF Multiply, fixed, given, n
  <2> QED
    BY <2>1 DEF Placed, Working
<1>7. CASE Accumulate
  <2>1. n' = n /\ i' = i + Group /\ pc = "accumulate" /\ pc' = "component" /\ message' = message
    BY <1>7 DEF Accumulate, fixed, given, n
  <2>2. i < n
    BY <2>1 DEF Placed
  <2>3. i' <= n'
    BY <1>0, <2>1, <2>2, GroupFits
  <2> QED
    BY <2>1, <2>3 DEF Placed, Working
<1>8. CASE Extract
  <2>1. /\ n' = n /\ i' = i /\ i >= n /\ pc = "component" /\ pc' = "extracted" /\ message' = message
        /\ UNCHANGED <<lut, s, input, acc>>
    BY <1>8 DEF Extract, fixed, given, n
  <2>2. i = n
    BY <1>0, <2>1
  <2>3. Near(Phase(acc, RingKey)[0], Rotated(-Turned2N(i), v)[0], TorusQ, Room)
    BY <2>1, Units DEF AccumulatorPhase, Room
  <2>4. v' = v /\ Turned2N(i)' = Turned2N(i)
    BY <2>1 DEF v, Turned2N
  <2>5. Near(Phase(acc, RingKey)[0], Rotated(-Turned2N(i), v)[0], TorusQ, Room)'
    BY <2>1, <2>3, <2>4
  <2> QED
    BY <2>1, <2>2, <2>5 DEF Placed, Working
<1>9. CASE SwitchKey
  <2>1. /\ n' = n /\ i' = i /\ pc = "extracted" /\ pc' = "done" /\ message' = message
        /\ UNCHANGED <<lut, s, input, acc>>
    BY <1>9 DEF SwitchKey, fixed, given, n
  <2>2. v' = v /\ Turned2N(i)' = Turned2N(i)
    BY <2>1 DEF v, Turned2N
  <2>3. i = n /\ Near(Phase(acc, RingKey)[0], Rotated(-Turned2N(i), v)[0], TorusQ, Room)
    BY <2>1 DEF Placed
  <2>4. Near(Phase(acc, RingKey)[0], Rotated(-Turned2N(i), v)[0], TorusQ, Room)'
    BY <2>1, <2>2, <2>3
  <2> QED
    BY <2>1, <2>3, <2>4 DEF Placed, Working
<1> QED
  BY <1>1, <1>2, <1>3, <1>4, <1>5, <1>6, <1>7, <1>8, <1>9 DEF Next

\* From there the phase of the result is next to what the table gives.
LEMMA PlacedDecodes == DrawsNumbers /\ Sampled /\ Held /\ Placed => Decodes
<1> SUFFICES ASSUME DrawsNumbers, Sampled, Held, Placed, pc = "done", InSlot
             PROVE  DecLwe(result, s) = Expected(message)
  BY DEF Decodes
<1>1. /\ Working /\ i = n /\ message \in Messages /\ acc \in Sample
      /\ Near(Phase(acc, RingKey)[0], Rotated(-Turned2N(i), v)[0], TorusQ, Room)
  BY DEF Placed, Held, Working
<1>2. n \in Nat \ {0} /\ lut \in Tables /\ s \in [0 .. n - 1 -> {0, 1}] /\ RingKey \in [Coeffs -> {0, 1}]
  BY CaseIs, RingKeyIs DEF Sampled
<1>3. PICK x \in Int : x = Turned2N(n)
  <2>1. input.b \in Int /\ \A o \in 0 .. n - 1 : input.a[o] \in Int /\ s[o] \in Int
    BY <1>1, <1>2, InputIs
  <2>2. Dot(input.a, s, n) \in Int
    BY <1>2, <2>1, DotTyped
  <2> QED
    BY <2>1, <2>2 DEF Turned2N
<1>4. Close(Rotated(-x, v)[0], Expected(message) * Unit, TorusQ, 0) /\ Expected(message) \in Int
  <2>1. Centre(x - message * Box, 2 * N) \in -HalfBox .. HalfBox - 1
    BY <1>3 DEF InSlot, HalfBox
  <2> QED
    BY <1>1, <1>2, <1>3, <2>1, LookupIs
<1>5. PICK y \in Int : y = Rotated(-x, v)[0]
  <2>1. v \in Poly /\ -x \in Int /\ 0 \in Coeffs
    BY <1>2, <1>3, VTyped, Units
  <2> QED
    BY <2>1, RotatedTyped, CoeffTyped
<1>6. PICK ph \in Int : ph = LwePhase(result, s)
  BY HeldSwitches
<1>7. PICK o \in Int : o = Phase(acc, RingKey)[0]
  BY <1>1, <1>2, ExtractedPhase
<1>8. SwitchLoss \in Int
  <2>1. /\ N \in Int /\ KsLevel \in Int /\ KsHalf \in Int /\ KsWeight(KsLevel - 1) \in Nat
        /\ TorusQ \div LweQ \in Nat
    BY Units, KsAssumption, RatioIs DEF Ratio
  <2>2. PICK d \in Int, l \in Int, h \in Int, w \in Nat, r \in Nat :
          d = N /\ l = KsLevel /\ h = KsHalf /\ w = KsWeight(KsLevel - 1) /\ r = TorusQ \div LweQ
    BY <2>1
  <2>3. d * (l * h + w \div 2) * r + (1 + d) * (r \div 2) \in Int
    OBVIOUS
  <2> QED
    BY <2>2, <2>3 DEF SwitchLoss
<1>9. PICK loss \in Int : loss = SwitchLoss
  BY <1>8
<1>10. Near(ph * (TorusQ \div LweQ), o, TorusQ, loss)
  BY <1>6, <1>7, <1>9, HeldSwitches
<1>11. Near(o, y, TorusQ, TorusQ \div (2 * MessageP) - 1 - loss)
  BY <1>1, <1>3, <1>5, <1>7, <1>9 DEF Room
<1>12. DecLwe(result, s) = Centre(Expected(message), MessageP)
  <2>1. PICK e \in Int : e = Expected(message) /\ Close(y, e * Unit, TorusQ, 0)
    BY <1>4, <1>5
  <2>2. Switched(ToTorus(Switched(ph, MessageP, LweQ), LweQ), MessageP, LweQ) = Centre(e, MessageP)
    BY <1>5, <1>6, <1>7, <1>9, <1>10, <1>11, <2>1, DecodesWithin
  <2> QED
    BY <1>6, <2>1, <2>2 DEF DecLwe
<1>13. Centre(Expected(message), MessageP) = Expected(message)
  <2>1. message \in Int
    BY <1>1, Units DEF Messages
  <2>2. PICK e \in Int : Expected(message) = Centre(e, MessageP)
    <3>1. CASE message >= 0
      BY <1>2, <2>1, <3>1, EntryTyped DEF Expected
    <3>2. CASE ~(message >= 0)
      <4>1. message + MessageP \div 2 \in Int
        BY <2>1, Units
      <4>2. Entry(lut, message + MessageP \div 2) \in Int
        BY <1>2, <4>1, EntryTyped
      <4> QED
        BY <3>2, <4>2 DEF Expected
    <3> QED
      BY <3>1, <3>2
  <2> QED
    BY <2>2, Units, CentreTwice
<1> QED
  BY <1>12, <1>13

(***************************************************************************)
(* The theorems.                                                           *)
(***************************************************************************)
\* Whatever is drawn, the rescaled sample has the phase of the sample up to half
\* a unit for b and for each component of the key that is set: for every length
\* of the key, every degree and every modulus that 2N divides, in every scheme.
THEOREM RescalingKeepsPhase == DrawsNumbers => (Spec => []RescaleKeepsPhase)
<1> SUFFICES ASSUME DrawsNumbers PROVE Spec => []RescaleKeepsPhase
  OBVIOUS
<1>1. Init => Sampled
  BY SampledFirst
<1>2. Sampled /\ [Next]_vars => Sampled'
  BY SampledKept
<1>3. Sampled => RescaleKeepsPhase
  BY SampledRescales
<1> QED
  BY <1>1, <1>2, <1>3, PTL DEF Spec

\* Whatever is drawn, the sample that comes out has the phase of the constant
\* coefficient of the accumulator, up to the rounding of each coefficient and the
\* noise of the switching key, in every scheme: what was extracted is in the order
\* and has the signs of the key the switching key was made for.
THEOREM SwitchingKeepsPhase == DrawsNumbers => (Spec => []SwitchKeepsPhase)
<1> SUFFICES ASSUME DrawsNumbers PROVE Spec => []SwitchKeepsPhase
  OBVIOUS
<1>1. Init => Sampled /\ Held
  BY SampledFirst, HeldFirst
<1>2. Sampled /\ Held /\ [Next]_vars => Sampled' /\ Held'
  BY SampledKept, HeldKept
<1>3. Sampled /\ Held => SwitchKeepsPhase
  BY HeldSwitches DEF SwitchKeepsPhase
<1> QED
  BY <1>1, <1>2, <1>3, PTL DEF Spec

\* An input whose rescaled phase lies in the slot of its message decrypts to the
\* table's value, in every scheme and for every table, as long as the accumulator
\* keeps its phase within what the switch to the LWE key leaves of half the
\* distance of two messages, which is what AccumulatorPhase says.
THEOREM PhaseDecodes == DrawsNumbers => (Spec /\ []AccumulatorPhase => []Decodes)
<1> SUFFICES ASSUME DrawsNumbers PROVE Spec /\ []AccumulatorPhase => []Decodes
  OBVIOUS
<1>1. Init => Sampled /\ Held /\ Placed
  BY SampledFirst, HeldFirst, PlacedFirst
<1>2. Sampled /\ Held /\ Placed /\ AccumulatorPhase /\ [Next]_vars => Sampled' /\ Held' /\ Placed'
  BY SampledKept, HeldKept, PlacedKept
<1>3. Sampled /\ Held /\ Placed => Decodes
  BY PlacedDecodes
<1> QED
  BY <1>1, <1>2, <1>3, PTL DEF Spec

=============================================================================
