--------------------------- MODULE Bootstrapping ---------------------------
(***************************************************************************)
(* Functional bootstrapping (bootstrapping.cpp, blind_rotate.cpp): a key   *)
(* is generated; then samples are refreshed one after another.  A sample   *)
(* is rescaled to 2N, the accumulator starts as the rotated test           *)
(* polynomial, is multiplied by X^(a_i * s_i) for each component of the    *)
(* LWE key, and its constant coefficient is extracted and switched back to *)
(* the LWE key.                                                            *)
(*                                                                         *)
(* The schemes differ in what the key holds and what is multiplied:        *)
(*   "normal"            blindRotateNormalNtt                              *)
(*   "group2", "group3"  blindRotateGroup2Ntt, blindRotateGroup3Ntt        *)
(*   "mp21"              blindRotateMP21Ntt, blindRotateJP22Ntt            *)
(*   "opt"               blindRotateOptNtt                                 *)
(*   "preRot"            blindRotateWithPreRotNtt                          *)
(*   "wwl24", "wwl24Alt" blindRotateWWL24Ntt, blindRotateWWL24AltNtt       *)
(*   "lazy"              blindRotateLazyNtt, blindRotateLazyMTNtt          *)
(*   "pipe"              blindRotateLazyPipeNtt, blindRotatePipeInitNtt    *)
(*   "pipeAlt"           blindRotateLazyPipeAltNtt and its streamed form   *)
(*   "noFirst"           blindRotateLazyPipeAltNoFirstNtt                  *)
(* The order in which threads prepare what is multiplied here is the       *)
(* business of LazyExpansion and RotationPipeline.                         *)
(***************************************************************************)
EXTENDS RingLwe

CONSTANTS
    Cases,          \* the pairs of a scheme and a lookup table to look at
    Size,           \* Size[scheme]: the components of the LWE key, param.n
    LApprox,        \* param.lApprox: levels of a classic product that are used
    Level,          \* level of the other keys
    RingKey,        \* the secret of the ring-LWE key
    Calls           \* bound on the inputs

Schemes == {"normal", "group2", "group3", "mp21", "opt", "preRot", "wwl24", "wwl24Alt",
            "lazy", "pipe", "pipeAlt", "noFirst"}
\* "value" is about message 0
Tables == {table \in [kind : {"identity", "lt1", "leq0", "equal", "value"}, t : Int, value : Int] :
             table.kind = "value" => table.t = 0}
GroupOf(sc) == CASE sc = "group2" -> 2 [] sc = "group3" -> 3 [] OTHER -> 1

\* every key has a component at least, and the components fill their groups; no
\* key has more levels than the gadget, and what derives the first component
\* finds the levels it reads
ASSUME KeyAssumption ==
    /\ Cases \subseteq Schemes \X Tables
    /\ \A case \in Cases : Size[case[1]] \in Nat \ {0} /\ Size[case[1]] % GroupOf(case[1]) = 0
    /\ Level \in 1 .. L /\ LApprox \in 1 .. L
    /\ \A case \in Cases : case[1] = "pipeAlt" => LApprox <= Level
    /\ RingKey \in [Coeffs -> {0, 1}]

VARIABLES
    scheme, lut, s, key,    \* fixed once the key is generated
    pc, calls, i,           \* control; inputs so far; the component in hand
    message, sample, input, \* the input: its message, sample, and sample modulo 2N
    acc,                    \* the accumulator, which the caller reuses
    rows, digits, partials, \* key rows and factors of the product in hand
    extracted, result

fixed == <<scheme, lut, s, key>>
given == <<message, sample, input>>
product == <<rows, digits, partials>>
vars == <<fixed, pc, calls, i, given, acc, product, extracted, result>>

n == Size[scheme]
Group == GroupOf(scheme)
\* the first component has a key, or a use of its key, of its own
FirstApart == scheme \in {"opt", "preRot", "lazy", "pipe", "pipeAlt"}
Classic == scheme \in {"normal", "group2", "group3"}
Messages == -(MessageP \div 2) .. MessageP \div 2 - 1

v == IF lut.kind = "value" THEN TestPolynomialValue(lut.value) ELSE TestPolynomial(lut)

(***************************************************************************)
(* Key generation.                                                         *)
(***************************************************************************)
\* the bits of a group of components, the first the most significant
Combined(c) == Sum(Group, [j \in 0 .. Group - 1 |-> s[c + j] * 2 ^ (Group - 1 - j)])

Parts == CASE Group > 1 -> 2 ^ Group [] scheme = "preRot" -> 2 [] OTHER -> 1

\* part k of the key of component c
PartKey(c, k) ==
    LET Prime(lvl) == EncNtt(Row(10 * c, lvl), Constant(Scaled(s[c], lvl)), RingKey)
    IN CASE scheme = "normal" -> EncTrgsw(10 * c, s[c], RingKey)
         [] Group > 1 -> EncTrgsw(10 * c + k, IF Combined(c) = k THEN 1 ELSE 0, RingKey)
         [] scheme \in {"mp21", "opt"} -> EncTrgswMP(10 * c, s[c], RingKey, Level)
         [] scheme = "preRot" ->
                EncTrgswMP(10 * c + k, IF k = 0 THEN s[c] ELSE 1 - s[c], RingKey, Level)
         [] scheme = "wwl24" -> [lvl \in 0 .. Level - 1 |-> Prime(lvl)]
         [] scheme \in {"wwl24Alt", "pipeAlt", "noFirst"} ->
                [lvl \in 0 .. Level - 1 |-> Each(Intt, Prime(lvl))]
         [] scheme = "lazy" ->
                [lvl \in 0 .. Level - 1 |->
                    [digits |-> DecomposedPoly(Intt(Prime(lvl).a), L), b |-> Prime(lvl).b]]
         [] scheme = "pipe" ->
                LET Split(p) == DecomposedPoly(Intt(p), L)
                IN [lvl \in 0 .. Level - 1 |-> Each(Split, Prime(lvl))]

\* the test polynomial under the first component and under its complement
FirstKey ==
    [k \in 0 .. 1 |-> EncTorus(900 + k, IF s[0] = 1 - k THEN v ELSE Zero, RingKey)]

Init ==
    /\ \E case \in Cases : scheme = case[1] /\ lut = case[2]
    /\ s \in [0 .. n - 1 -> {0, 1}]
    /\ key = << >> /\ pc = "keygen" /\ calls = 0 /\ i = 0
    /\ message = 0 /\ sample = << >> /\ input = << >>
    /\ acc = [a |-> Zero, b |-> Zero]
    /\ rows = << >> /\ digits = << >> /\ partials = << >>
    /\ extracted = << >> /\ result = << >>

Generate ==
    /\ pc = "keygen"
    /\ key' = [parts |-> [c \in {c \in 0 .. n - 1 : c % Group = 0} |->
                             [k \in 0 .. Parts - 1 |-> PartKey(c, k)]],
               first |-> FirstKey,
               square |-> EncSquare(1000, RingKey),
               ksk |-> EncKsk(5000, RingKey, s, n)]
    /\ pc' = "ready"
    /\ UNCHANGED <<scheme, lut, s, calls, i, given, acc, product, extracted, result>>

(***************************************************************************)
(* One input.                                                              *)
(***************************************************************************)
\* mutant: the mask of the previous input is kept
Noiseless_KeepsMask(barb) == [a |-> acc.a, b |-> OnTorus(Rotated(-barb, v))]

Noiseless(barb) == [a |-> Zero, b |-> OnTorus(Rotated(-barb, v))]

\* the accumulator after the first component, where it is taken apart
FirstBlock(in) ==
    LET Turned(p) == OnTorus(Rotated(-in.b, p))
        x == IF scheme = "pipeAlt" THEN Derived(v, key.parts[0][0], LApprox) ELSE key.first[0]
        Opt == [a |-> RotatedMinusOne(in.a[0], x.a),
                b |-> Plus(RotatedMinusOne(in.a[0], x.b), v)]
        Turn0(p) == Rotated(in.a[0], p)
        PreRot == Both(Plus, Each(Turn0, x), key.first[1])
    IN Each(Turned, IF scheme = "preRot" THEN PreRot ELSE Opt)

Begin(m) ==
    LET x == EncLwe(7000 + 10 * calls + m, ToTorus(m, LweQ), s, n)
        in == Rescaled(x)
    IN /\ pc \in {"ready", "done"} /\ calls < Calls
       /\ message' = m /\ sample' = x /\ input' = in
       /\ acc' = IF FirstApart THEN FirstBlock(in) ELSE Noiseless(in.b)
       /\ i' = IF FirstApart THEN 1 ELSE 0
       /\ calls' = calls + 1 /\ pc' = "component"
       /\ UNCHANGED <<fixed, product, extracted, result>>

\* a part of a group's key is rotated by the sum of the a of the components
\* whose bits are set in its index
Turn(k) ==
    Sum(Group, [j \in 0 .. Group - 1 |->
                  IF (k \div 2 ^ (Group - 1 - j)) % 2 = 1 THEN input.a[i + j] ELSE 0])

\* the parts of the key in hand, each rotated by its turn, added up
Combination(turn, level) ==
    LET parts == key.parts[i]
        Coordinate(Get(_), lvl) ==
            LET each == [k \in 0 .. Parts - 1 |-> Rotated(turn[k], Get(parts[k][lvl]))]
            IN Ntt([j \in Coeffs |-> Sum(Parts, [k \in 0 .. Parts - 1 |-> each[k][j]])])
        CA(r) == r.c.a
        CB(r) == r.c.b
        PA(r) == r.cPrime.a
        PB(r) == r.cPrime.b
    IN [lvl \in 0 .. level - 1 |->
          [c |-> [a |-> Coordinate(CA, lvl), b |-> Coordinate(CB, lvl)],
           cPrime |-> [a |-> Coordinate(PA, lvl), b |-> Coordinate(PB, lvl)]]]

\* a row of a key that holds only cPrime, in the form the scheme keeps it;
\* the pipelines turn it by X^a - 1 first, and add one
Embedded(lvl) ==
    LET prime == key.parts[i][0][lvl]
        Row0(d, b) == Embedding(d, [a |-> Recomposed(d), b |-> b], key.square)
        Turned(p) == OnTorus(RotatedMinusOne(input.a[i], p))
    IN CASE scheme = "wwl24" ->
                Embedding(DecomposedPoly(Intt(prime.a), L), prime, key.square)
         [] scheme = "wwl24Alt" ->
                Embedding(DecomposedPoly(prime.a, L), Each(Ntt, prime), key.square)
         [] scheme = "lazy" -> Row0(prime.digits, prime.b)
         [] scheme = "pipe" ->
                LET Digit(p, l) == TurnedDigits(input.a[i], p[l])
                    One(l) == Constant(IF l = lvl THEN 1 ELSE 0)
                IN Row0([l \in 0 .. L - 1 |-> Digit(prime.a, l)],
                        Recomposed([l \in 0 .. L - 1 |-> Plus(Digit(prime.b, l), One(l))]))
         [] OTHER ->
                Row0(DecomposedPoly(Turned(prime.a), L),
                     Ntt(OnTorus(Plus(Turned(prime.b), Constant(GadgetWeight(lvl))))))

Used == IF Classic THEN LApprox ELSE Level

KeyRows ==
    CASE Group > 1 -> Combination([k \in 0 .. Parts - 1 |-> Turn(k)], LApprox)
      [] scheme = "preRot" -> Combination([k \in 0 .. 1 |-> IF k = 0 THEN input.a[i] ELSE 0], Level)
      [] scheme \in {"normal", "mp21", "opt"} -> key.parts[i][0]
      [] OTHER -> [lvl \in 0 .. Level - 1 |-> Embedded(lvl)]

\* a rotation that multiplies the accumulator itself, not its difference
InPlace == Group > 1 \/ scheme \in {"preRot", "pipe", "pipeAlt", "noFirst"}

\* a component without rotation is passed over; groups are not looked at
Skip ==
    /\ pc = "component" /\ i < n /\ Group = 1 /\ input.a[i] = 0
    /\ i' = i + 1
    /\ UNCHANGED <<fixed, pc, calls, given, acc, product, extracted, result>>

Prepare ==
    LET Difference(p) == OnTorus(RotatedMinusOne(input.a[i], p))
    IN /\ pc = "component" /\ i < n /\ (Group = 1 => input.a[i] # 0)
       /\ rows' = KeyRows
       /\ digits' = Decomposed(IF InPlace THEN acc ELSE Each(Difference, acc),
                               IF Classic THEN L ELSE Level)
       /\ pc' = "multiply"
       /\ UNCHANGED <<fixed, calls, i, given, acc, partials, extracted, result>>

Multiply ==
    /\ pc = "multiply"
    /\ partials' = [lvl \in 0 .. Used - 1 |-> Partial(digits[lvl], rows[lvl])]
    /\ pc' = "accumulate"
    /\ UNCHANGED <<fixed, calls, i, given, acc, rows, digits, extracted, result>>

Accumulate ==
    LET res == SumOf(partials, Used)
    IN /\ pc = "accumulate"
       /\ acc' = IF InPlace THEN res ELSE Each(OnTorus, Both(Plus, res, acc))
       /\ i' = i + Group /\ pc' = "component"
       /\ UNCHANGED <<fixed, calls, given, product, extracted, result>>

Extract ==
    /\ pc = "component" /\ i >= n
    /\ extracted' = Extracted(acc)
    /\ pc' = "extracted"
    /\ UNCHANGED <<fixed, calls, i, given, acc, product, result>>

SwitchKey ==
    /\ pc = "extracted"
    /\ result' = KeySwitched(extracted, key.ksk, n)
    /\ pc' = "done"
    /\ UNCHANGED <<fixed, calls, i, given, acc, product, extracted>>

Next ==
    \/ Generate
    \/ \E m \in Messages : Begin(m)
    \/ Skip \/ Prepare \/ Multiply \/ Accumulate
    \/ Extract \/ SwitchKey

Spec == Init /\ [][Next]_vars

(***************************************************************************)
(* Properties.                                                             *)
(***************************************************************************)
\* what the table gives for m: a test polynomial holds half of the messages,
\* the other half reads it with the sign turned
Expected(m) ==
    Centre(IF m >= 0 THEN Entry(lut, m) ELSE -Entry(lut, m + MessageP \div 2), MessageP)

\* the phase of the rescaled input, and its distance from the message
Turned2N(k) == input.b - Dot(input.a, s, k)
InSlot == Centre(Turned2N(n) - message * Box, 2 * N) \in -(Box \div 2) .. Box \div 2 - 1

Near(x, y, q, bound) == Centre(x - y, q) \in -bound .. bound

\* what extraction and the switch to the LWE key may add: the rounding of the
\* digits and the noise of a row for each, and the rescaling of each coefficient
SwitchLoss ==
    LET scale == TorusQ \div LweQ
    IN N * (KsLevel * KsHalf + KsWeight(KsLevel - 1) \div 2) * scale + (1 + N) * (scale \div 2)

\* At every component, under every scheme, the accumulator encrypts the test
\* polynomial rotated by the part of the phase that has been accumulated: no
\* component is lost, doubled, or paired with another component's key or
\* rotation, nothing of an earlier input is left in the accumulator, and the
\* noise stays below half the distance of two messages, with what the switch to
\* the LWE key may add to it.
AccumulatorPhase ==
    pc = "component" =>
        LET phase == Phase(acc, RingKey)
            turned == Rotated(-Turned2N(i), v)
        IN \A j \in Coeffs :
             Near(phase[j], turned[j], TorusQ, TorusQ \div (2 * MessageP) - 1 - SwitchLoss)

\* An input whose rescaled phase lies in the slot of its message comes out
\* as a sample under the same key that decrypts to the table's value.
Decodes == pc = "done" /\ InSlot => DecLwe(result, s) = Expected(message)

\* Rescaling to 2N moves the phase of a sample, its noise included, by at most
\* half a unit for b and for each component of the key that is set.
RescaleKeepsPhase ==
    pc = "component" =>
        LET scale == LweQ \div (2 * N)
        IN Near(Turned2N(n) * scale, LwePhase(sample, s), LweQ, (1 + Sum(n, s)) * (scale \div 2))

\* Extraction and the switch to the LWE key keep the phase of the accumulator's
\* constant coefficient, up to the rescaling of each coefficient, the rounding to
\* the last digit and the noise of the switching key: both agree on the order
\* and the signs of the key.
SwitchKeepsPhase ==
    pc = "done" =>
        Near(LwePhase(result, s) * (TorusQ \div LweQ), Phase(acc, RingKey)[0], TorusQ, SwitchLoss)

=============================================================================
