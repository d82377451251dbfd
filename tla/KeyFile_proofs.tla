--------------------------- MODULE KeyFile_proofs ---------------------------
(***************************************************************************)
(* The key files of every number of programs, sizes, levels, kills and     *)
(* failures: a load never puts parts of two keys together, a key that was  *)
(* generated is whole, a save reports a failure of its stream, and a file  *)
(* that was saved gives back the key that was written.                     *)
(***************************************************************************)
EXTENDS KeyFile, SequenceTheorems, TLAPS

(***************************************************************************)
(* The inductive invariant: the records of a file are of one generation,   *)
(* since a save empties the file first; a key under construction is of the *)
(* generation of its program; a key that is read is of the file's.         *)
(***************************************************************************)
Fields == {N, Lvl, Rest}
FieldKinds == {"n", "level", "rest", "none"}

RecordFrom(record, g) ==
    /\ record.kind \notin FieldKinds => record.value.gen \in {-1, 0, g}
    /\ record.kind = "level" => record.value \in Nat

FileFrom(g) == \A r \in DOMAIN file : RecordFrom(file[r], g)
KeyFrom(g) == \A p \in DOMAIN key.at : key.at[p].gen \in {-1, 0, g}

Own == {"generate", "generated", "write", "saved"}

Shape ==
    /\ scheme \in Schemes /\ runs \in Nat
    /\ pc # "off" => n \in Sizes
    /\ Len(file) \in Nat /\ DOMAIN file = 1 .. Len(file)
    /\ io \in Nat \ {0}
    /\ DOMAIN key = {"at", "n", "level"} /\ key.level \in Nat

OneFile == \E g \in Int : FileFrom(g)

OwnKey ==
    pc \in Own =>
        /\ key.n = n /\ key.level = Level /\ DOMAIN key.at = Places(n, Level)
        /\ KeyFrom(runs)

Written ==
    /\ pc \in {"write", "saved"} => FileFrom(runs)
    /\ pc = "write" /\ ~bad => io = Len(file) + 1

Fresh == pc = "open" => \A p \in DOMAIN key.at : key.at[p].gen = 0

ReadFrom == pc \in {"read", "loaded"} => \E g \in Int : FileFrom(g) /\ KeyFrom(g)

IInv == Shape /\ OneFile /\ OwnKey /\ Written /\ Fresh /\ ReadFrom

(***************************************************************************)
(* The orders of the records.                                              *)
(***************************************************************************)
LEMMA SizeTypes == ASSUME NEW m \in Sizes PROVE m \in Nat /\ m - 1 \in Nat /\ m > 0
BY KeyFileAssumption

LEMMA Products == ASSUME NEW a \in Nat, NEW b \in Nat PROVE a * b \in Nat /\ 2 * a * b \in Nat
<1>1. \A x, y \in Nat : x * y \in Nat
  BY SMT
<1> QED
  BY <1>1

\* A tuple of known length is a sequence of what it holds.
LEMMA OwnElements ==
    ASSUME NEW k \in Nat, NEW f, DOMAIN f = 1 .. k, f = [c \in 1 .. k |-> f[c]],
           NEW S, {f[c] : c \in DOMAIN f} \subseteq S
    PROVE  f \in Seq(S)
<1>1. f \in [1 .. k -> S]
  OBVIOUS
<1> QED
  BY <1>1

\* The fields that a loader needs from the file.
FieldsOf ==
    (IF scheme \in {"lazy", "pipe", "pipeAlt"} THEN {Lvl} ELSE {}) \cup
    (IF scheme \in {"pipe", "pipeAlt"} THEN {} ELSE {N})

LEMMA RangeOfTwo == ASSUME NEW x, NEW y PROVE Range(<<x, y>>) = {x, y}
<1>1. DOMAIN <<x, y>> = {1, 2}
  OBVIOUS
<1> QED
  BY <1>1 DEF Range

LEMMA RangeOfThree == ASSUME NEW x, NEW y, NEW z PROVE Range(<<x, y, z>>) = {x, y, z}
<1>1. DOMAIN <<x, y, z>> = {1, 2, 3}
  OBVIOUS
<1> QED
  BY <1>1 DEF Range

LEMMA RangeOfOne == ASSUME NEW x PROVE Range(<<x>>) = {x}
<1>1. DOMAIN <<x>> = {1}
  OBVIOUS
<1> QED
  BY <1>1 DEF Range

\* Both orders run through places of the key and its fields, and through all of
\* its places.
LEMMA OrderPlaces ==
    ASSUME scheme \in Schemes, NEW m \in Sizes, NEW level \in Nat,
           NEW S, Places(m, level) \cup Fields \subseteq S
    PROVE  /\ ReadOrder(m, level) \in Seq(S) /\ WriteOrder(m, level) \in Seq(S)
           /\ Places(m, level) \cup FieldsOf \subseteq Range(WriteOrder(m, level))
<1>1. m \in Nat /\ m - 1 \in Nat /\ (m - 1) * level \in Nat /\ 2 * (m - 1) * level \in Nat
  BY SizeTypes, Products
<1>2. ASSUME NEW k \in Nat, Range(Comps(k)) \subseteq S
      PROVE  Comps(k) \in Seq(S)
  <2>1. DOMAIN Comps(k) = 1 .. k /\ Comps(k) = [c \in 1 .. k |-> Comps(k)[c]]
    BY DEF Comps
  <2> QED
    BY <1>2, <2>1, OwnElements DEF Range
<1> DEFINE cells == Cells(m - 1, level)
           pairs == CellPairs(m - 1, level)
<1>3. ASSUME Range(cells) \subseteq S PROVE cells \in Seq(S)
  <2>1. DOMAIN cells = 1 .. (m - 1) * level /\ cells = [c \in 1 .. (m - 1) * level |-> cells[c]]
    BY DEF Cells
  <2> QED
    BY <1>1, <1>3, <2>1, OwnElements DEF Range
<1>4. ASSUME Range(pairs) \subseteq S PROVE pairs \in Seq(S)
  <2>1. /\ DOMAIN pairs = 1 .. 2 * (m - 1) * level
        /\ pairs = [c \in 1 .. 2 * (m - 1) * level |-> pairs[c]]
    BY DEF CellPairs
  <2> QED
    BY <1>1, <1>4, <2>1, OwnElements DEF Range
<1>5. \A x, y \in Seq(S) : x \o y \in Seq(S) /\ Range(x \o y) = Range(x) \cup Range(y)
  BY ConcatProperties, RangeConcatenation
<1>6. N \in S /\ Lvl \in S /\ Rest \in S
  BY DEF Fields
<1> DEFINE nr == <<N, Rest>>
           nlr == <<N, Lvl, Rest>>
           lr == <<Lvl, Rest>>
<1>7. /\ nr \in Seq(S) /\ nlr \in Seq(S) /\ lr \in Seq(S)
      /\ Range(nr) = {N, Rest} /\ Range(nlr) = {N, Lvl, Rest} /\ Range(lr) = {Lvl, Rest}
  BY <1>6, RangeOfTwo, RangeOfThree
<1> HIDE DEF cells, pairs, nr, nlr, lr
<1>8. CASE scheme \in {"wwl24", "wwl24Alt"}
  <2> DEFINE tail == << <<"square">>, N, Rest >>
  <2>1. Places(m, level) = {<<"square">>} \cup Range(Comps(m))
    BY <1>8 DEF Places, HasSquare, FirstApart, Range
  <2>2. Comps(m) \in Seq(S) /\ tail \in Seq(S) /\ Range(tail) = {<<"square">>, N, Rest}
    BY <1>1, <1>2, <1>6, <2>1, RangeOfThree
  <2>3. ReadOrder(m, level) = Comps(m) \o tail /\ WriteOrder(m, level) = Comps(m) \o tail
    BY <1>8 DEF ReadOrder, WriteOrder, nr, lr
  <2> HIDE DEF tail
  <2> QED
    BY <1>5, <1>8, <2>1, <2>2, <2>3 DEF FieldsOf
<1>9. CASE scheme = "ginx"
  <2>1. Places(m, level) = Range(Comps(m))
    BY <1>9 DEF Places, HasSquare, FirstApart, Range
  <2>2. Comps(m) \in Seq(S)
    BY <1>1, <1>2, <2>1
  <2>3. ReadOrder(m, level) = Comps(m) \o nr /\ WriteOrder(m, level) = Comps(m) \o nr
    BY <1>9 DEF ReadOrder, WriteOrder, nr, lr
  <2> QED
    BY <1>5, <1>7, <1>9, <2>1, <2>2, <2>3 DEF FieldsOf
<1>10. CASE scheme = "opt"
  <2> DEFINE head == << <<"first">> >>
             front == head \o Comps(m - 1)
  <2>1. Places(m, level) = {<<"first">>} \cup Range(Comps(m - 1))
    BY <1>10 DEF Places, HasSquare, FirstApart, Range
  <2>2. Comps(m - 1) \in Seq(S) /\ head \in Seq(S) /\ Range(head) = {<<"first">>}
    BY <1>1, <1>2, <2>1, RangeOfOne
  <2>3. ReadOrder(m, level) = front \o nr /\ WriteOrder(m, level) = front \o nr
    BY <1>10 DEF ReadOrder, WriteOrder, nr, lr
  <2> HIDE DEF head
  <2>4. front \in Seq(S) /\ Range(front) = Places(m, level)
    BY <1>5, <2>1, <2>2
  <2> HIDE DEF front
  <2> QED
    BY <1>5, <1>7, <1>10, <2>1, <2>3, <2>4 DEF FieldsOf
<1>11. CASE scheme = "lazy"
  <2> DEFINE head == << <<"first">> >>
             front == head \o Comps(m - 1)
             body == front \o cells
  <2>1. Places(m, level) = {<<"first">>} \cup Range(Comps(m - 1)) \cup Range(cells)
    BY <1>11 DEF Places, HasSquare, FirstApart, Range, cells
  <2>2. /\ Comps(m - 1) \in Seq(S) /\ cells \in Seq(S) /\ head \in Seq(S)
        /\ Range(head) = {<<"first">>}
    BY <1>1, <1>2, <1>3, <2>1, RangeOfOne
  <2>3. /\ ReadOrder(m, level) = body \o nlr
        /\ WriteOrder(m, level) = body \o nlr
    BY <1>11 DEF ReadOrder, WriteOrder, cells, nlr
  <2> HIDE DEF head
  <2>4. front \in Seq(S) /\ Range(front) = {<<"first">>} \cup Range(Comps(m - 1))
    BY <1>5, <2>2
  <2> HIDE DEF front
  <2>5. body \in Seq(S) /\ Range(body) = Places(m, level)
    BY <1>5, <2>1, <2>2, <2>4
  <2> HIDE DEF body
  <2>6. Range(body \o nlr) = Places(m, level) \cup {N, Lvl, Rest}
    BY <1>5, <1>7, <2>5
  <2> QED
    BY <1>5, <1>7, <1>11, <2>3, <2>5, <2>6 DEF FieldsOf
<1>12. CASE scheme = "pipe"
  <2> DEFINE head == <<Lvl, <<"first">>, <<"square">> >>
  <2>1. Places(m, level) = {<<"first">>, <<"square">>} \cup Range(pairs)
    BY <1>12 DEF Places, FirstApart, HasSquare, Range, pairs
  <2>2. pairs \in Seq(S) /\ head \in Seq(S) /\ Range(head) = {Lvl, <<"first">>, <<"square">>}
    BY <1>4, <1>6, <2>1, RangeOfThree
  <2>3. ReadOrder(m, level) = head \o pairs /\ WriteOrder(m, level) = head \o pairs
    BY <1>12 DEF ReadOrder, WriteOrder, pairs
  <2> HIDE DEF head
  <2> QED
    BY <1>5, <1>12, <2>1, <2>2, <2>3 DEF FieldsOf
<1>13. CASE scheme = "pipeAlt"
  <2> DEFINE head == << <<"square">> >>
             front == head \o Comps(m)
  <2>1. Places(m, level) = {<<"square">>} \cup Range(Comps(m))
    BY <1>13 DEF Places, HasSquare, FirstApart, Range
  <2>2. Comps(m) \in Seq(S) /\ head \in Seq(S) /\ Range(head) = {<<"square">>}
    BY <1>1, <1>2, <2>1, RangeOfOne
  <2>3. ReadOrder(m, level) = front \o lr /\ WriteOrder(m, level) = front \o lr
    BY <1>13 DEF ReadOrder, WriteOrder, nr, lr
  <2> HIDE DEF head
  <2>4. front \in Seq(S) /\ Range(front) = Places(m, level)
    BY <1>5, <2>1, <2>2
  <2> HIDE DEF front
  <2> QED
    BY <1>5, <1>7, <1>13, <2>3, <2>4 DEF FieldsOf
<1> QED
  BY <1>8, <1>9, <1>10, <1>11, <1>12, <1>13, KeyFileAssumption DEF AllSchemes

\* A place of a key is none of its fields.
LEMMA PlacesAreSpots ==
    ASSUME scheme \in Schemes, NEW m \in Sizes, NEW level \in Nat, NEW p \in Places(m, level)
    PROVE  p[1] \notin FieldKinds
<1>1. \A k : \A q \in {Comps(k)[c] : c \in DOMAIN Comps(k)} : q[1] = "comp"
  BY DEF Comps
<1>2. \A q \in {Cells(m - 1, level)[c] : c \in DOMAIN Cells(m - 1, level)} : q[1] = "A"
  BY DEF Cells
<1>3. \A q \in {CellPairs(m - 1, level)[c] : c \in DOMAIN CellPairs(m - 1, level)} : q[1] \in {"A", "B"}
  BY DEF CellPairs
<1>4. scheme \in AllSchemes
  BY KeyFileAssumption
<1>5. p[1] \in {"first", "square", "comp", "A", "B"}
  BY <1>1, <1>2, <1>3, <1>4 DEF Places, AllSchemes
<1> QED
  BY <1>5 DEF FieldKinds

(***************************************************************************)
(* The invariant is preserved.                                             *)
(***************************************************************************)
LEMMA SamePlaces ==
    ASSUME scheme' = scheme, NEW m, NEW level
    PROVE  Places(m, level)' = Places(m, level)
BY DEF Places, FirstApart, HasSquare

LEMMA InitInductive == Init => IInv
<1> SUFFICES ASSUME Init PROVE IInv
  OBVIOUS
<1>1. Shape
  BY DEF Init, Shape, NoFile, Default
<1>2. FileFrom(0)
  BY DEF Init, FileFrom, RecordFrom, NoFile, None, FieldKinds
<1>3. OneFile
  BY <1>2 DEF OneFile
<1> QED
  BY <1>1, <1>3 DEF Init, IInv, OwnKey, Own, Written, Fresh, ReadFrom

LEMMA StartInductive ==
    ASSUME IInv, NEW m \in Sizes, NEW md, Start(m, md)
    PROVE  IInv'
<1>1. /\ file' = file /\ io' = io /\ scheme' = scheme /\ n' = m /\ runs' = runs + 1
      /\ pc' \in {"open", "generate"} /\ key' \in {Default, Constructed(m)}
      /\ pc' = "generate" => key' = Constructed(m)
  BY DEF Start
<1>2. Shape'
  BY <1>1, KeyFileAssumption DEF IInv, Shape, Default, Constructed
<1>3. OneFile'
  BY <1>1 DEF IInv, OneFile, FileFrom
<1>4. Places(m, Level)' = Places(m, Level)
  BY <1>1, SamePlaces
<1>5. OwnKey'
  BY <1>1, <1>4 DEF OwnKey, Own, Constructed, KeyFrom, Blank
<1>6. Fresh'
  BY <1>1 DEF Fresh, Constructed, Default, Blank
<1> QED
  BY <1>1, <1>2, <1>3, <1>5, <1>6 DEF IInv, Written, ReadFrom

\* A killed save leaves the first records of the file.
LEMMA KillInductive ==
    ASSUME IInv, Kill
    PROVE  IInv'
<1>1. pc' = "off" /\ UNCHANGED <<scheme, runs, key, io>>
  BY DEF Kill
<1>2. (file' = file) \/ \E m \in 0 .. Len(file) : file' = SubSeq(file, 1, m)
  BY DEF Kill
<1>3. Len(file') \in Nat /\ DOMAIN file' = 1 .. Len(file') /\ OneFile'
  <2>1. CASE file' = file
    BY <2>1 DEF IInv, Shape, OneFile, FileFrom
  <2>2. ASSUME NEW m \in 0 .. Len(file), file' = SubSeq(file, 1, m)
        PROVE  Len(file') \in Nat /\ DOMAIN file' = 1 .. Len(file') /\ OneFile'
    <3> DEFINE S == {file[r] : r \in DOMAIN file}
    <3>1. Len(file) \in Nat /\ DOMAIN file = 1 .. Len(file)
      BY DEF IInv, Shape
    <3>2. \A r \in 1 .. m : file[r] \in S
      BY <2>2, <3>1
    <3>3. m \in Int /\ m \in Nat /\ 1 \in Int
      BY <2>2, <3>1
    <3> HIDE DEF S
    <3>4. /\ SubSeq(file, 1, m) \in Seq(S)
          /\ \A r \in 1 .. m - 1 + 1 : SubSeq(file, 1, m)[r] = file[1 + r - 1]
          /\ Len(SubSeq(file, 1, m)) = IF 1 <= m THEN m - 1 + 1 ELSE 0
      BY <3>2, <3>3, SubSeqProperties
    <3>5. Len(file') = m /\ DOMAIN file' = 1 .. m
      BY <2>2, <3>3, <3>4, LenProperties
    <3>6. \A r \in 1 .. m : file'[r] = file[r] /\ r \in DOMAIN file
      BY <2>2, <3>1, <3>3, <3>4
    <3>7. PICK g \in Int : FileFrom(g)
      BY DEF IInv, OneFile
    <3>8. FileFrom(g)'
      BY <3>5, <3>6, <3>7 DEF FileFrom, RecordFrom
    <3> QED
      BY <3>3, <3>5, <3>8 DEF OneFile
  <2> QED
    BY <1>2, <2>1, <2>2
<1> QED
  BY <1>1, <1>3 DEF IInv, Shape, OwnKey, Own, Written, Fresh, ReadFrom

\* What a task writes is of the generation of its program.
LEMMA GenerateInductive ==
    ASSUME IInv, Joined \/ \E t \in tasks : Task(t) \/ TaskThrows(t)
    PROVE  IInv'
<1>1. /\ pc = "generate" /\ pc' \in {"generate", "generated"}
      /\ UNCHANGED <<scheme, runs, n, file, io, bad>>
  BY DEF Task, TaskThrows, Joined
<1>2. /\ DOMAIN key = {"at", "n", "level"}
      /\ key.n = n /\ key.level = Level /\ DOMAIN key.at = Places(n, Level)
      /\ KeyFrom(runs)
  BY <1>1 DEF IInv, Shape, OwnKey, Own
<1>3. \A p : Content(p).gen = runs
  BY DEF Content
<1>4. /\ DOMAIN key' = {"at", "n", "level"}
      /\ key'.n = n /\ key'.level = Level /\ DOMAIN key'.at = Places(n, Level)
      /\ \A p \in DOMAIN key.at : key'.at[p].gen \in {-1, 0, runs}
  <2>1. CASE \E t \in tasks : Task(t)
    <3>1. PICK t \in tasks : Task(t)
      BY <2>1
    <3> DEFINE at == [p \in DOMAIN key.at |-> IF p \in Fills(t) THEN Content(p) ELSE key.at[p]]
    <3>2. key' = [key EXCEPT !.at = at]
      BY <3>1 DEF Task
    <3>3. \A p \in DOMAIN key.at : at[p].gen \in {-1, 0, runs}
      BY <1>2, <1>3 DEF KeyFrom
    <3>4. DOMAIN at = DOMAIN key.at
      OBVIOUS
    <3> HIDE DEF at
    <3> QED
      BY <1>2, <3>2, <3>3, <3>4
  <2>2. CASE \E t \in tasks : TaskThrows(t)
    BY <1>2, <2>2 DEF TaskThrows, KeyFrom
  <2>3. CASE Joined
    <3> DEFINE sq == <<"square">>
               at == [key.at EXCEPT ![sq] = Content(sq)]
    <3>1. key' = key \/ key' = [key EXCEPT !.at = at]
      BY <2>3 DEF Joined
    <3>2. \A p \in DOMAIN key.at : at[p].gen \in {-1, 0, runs}
      BY <1>2, <1>3 DEF KeyFrom
    <3>3. DOMAIN at = DOMAIN key.at
      OBVIOUS
    <3> HIDE DEF at, sq
    <3>4. CASE key' = key
      BY <1>2, <3>4 DEF KeyFrom
    <3>5. CASE key' = [key EXCEPT !.at = at]
      BY <1>2, <3>2, <3>3, <3>5
    <3> QED
      BY <3>1, <3>4, <3>5
  <2> QED
    BY <2>1, <2>2, <2>3
<1>5. OwnKey'
  <2>1. Places(n, Level)' = Places(n, Level)
    BY <1>1 DEF Places, FirstApart, HasSquare
  <2>2. DOMAIN key'.at = DOMAIN key.at
    BY <1>2, <1>4
  <2>3. KeyFrom(runs)'
    BY <1>1, <1>4, <2>2 DEF KeyFrom
  <2> QED
    BY <1>1, <1>4, <2>1, <2>3 DEF OwnKey
<1>6. Shape'
  BY <1>1, <1>4, KeyFileAssumption DEF IInv, Shape
<1>7. OneFile'
  BY <1>1 DEF IInv, OneFile, FileFrom
<1> QED
  BY <1>1, <1>5, <1>6, <1>7 DEF IInv, Written, Fresh, ReadFrom

\* Steps that change neither the file nor the key, and begin no save or load.
LEMMA IdleInductive ==
    ASSUME IInv, OpenWriteFails \/ Close \/ Stop \/ Reload \/ OpenRead \/ UNCHANGED vars
    PROVE  IInv'
<1>1. UNCHANGED <<scheme, runs, n, file>>
  BY DEF OpenWriteFails, Close, Stop, Reload, OpenRead, vars
<1>2. OneFile'
  BY <1>1 DEF IInv, OneFile, FileFrom
<1>3. Places(n, Level)' = Places(n, Level)
  BY <1>1 DEF Places, FirstApart, HasSquare
<1>4. CASE OpenWriteFails \/ Stop \/ UNCHANGED vars
  <2>1. /\ UNCHANGED <<key, io, bad>>
        /\ pc' \in {"off", "failed"} \/ pc' = pc
        /\ pc' # "off" => pc # "off"
    BY <1>4 DEF OpenWriteFails, Stop, vars
  <2>2. Shape' /\ Fresh'
    BY <1>1, <2>1 DEF IInv, Shape, Fresh
  <2>3. OwnKey'
    BY <1>1, <1>3, <2>1 DEF IInv, OwnKey, Own, KeyFrom
  <2>4. Written' /\ ReadFrom'
    BY <1>1, <2>1 DEF IInv, Written, ReadFrom, FileFrom, KeyFrom
  <2> QED
    BY <1>2, <2>2, <2>3, <2>4 DEF IInv
<1>5. CASE Close
  <2>1. pc = "write" /\ pc' \in {"failed", "saved"} /\ UNCHANGED <<key, io>>
    BY <1>5 DEF Close
  <2> QED
    BY <1>1, <1>2, <1>3, <2>1 DEF IInv, Shape, OwnKey, Own, KeyFrom, Written, FileFrom, Fresh, ReadFrom
<1>6. CASE Reload
  <2>1. pc' = "open" /\ pc # "off" /\ key' = Default /\ UNCHANGED <<io, bad>>
    BY <1>6 DEF Reload
  <2> QED
    BY <1>1, <1>2, <2>1 DEF IInv, Shape, Default, OwnKey, Own, Written, Fresh, ReadFrom
<1>7. CASE OpenRead
  <2>1. pc = "open" /\ pc' \in {"failed", "read"} /\ io' = 1 /\ key' = key
    BY <1>7 DEF OpenRead
  <2>2. \A p \in DOMAIN key.at : key.at[p].gen = 0
    BY <2>1 DEF IInv, Fresh
  <2>3. PICK g \in Int : FileFrom(g)
    BY DEF IInv, OneFile
  <2>4. FileFrom(g)' /\ KeyFrom(g)'
    BY <1>1, <2>1, <2>2, <2>3 DEF FileFrom, KeyFrom
  <2>5. ReadFrom'
    BY <2>4 DEF ReadFrom
  <2> QED
    BY <1>1, <1>2, <2>1, <2>5 DEF IInv, Shape, OwnKey, Own, Written, Fresh
<1> QED
  BY <1>4, <1>5, <1>6, <1>7

\* The file is emptied, so that nothing of an earlier key is left in it.
LEMMA OpenWriteInductive ==
    ASSUME IInv, OpenWrite
    PROVE  IInv'
<1>1. /\ pc = "generated" /\ pc' = "write" /\ UNCHANGED <<scheme, runs, n, key>>
      /\ file' = << >> /\ io' = 1
  BY DEF OpenWrite, Truncated
<1>2. Len(file') = 0 /\ DOMAIN file' = {} /\ 1 .. 0 = {}
  BY <1>1
<1>3. Places(n, Level)' = Places(n, Level)
  BY <1>1 DEF Places, FirstApart, HasSquare
<1>4. \A g : FileFrom(g)'
  BY <1>2 DEF FileFrom
<1>5. OneFile' /\ Written'
  BY <1>1, <1>2, <1>4 DEF OneFile, Written
<1>6. OwnKey'
  BY <1>1, <1>3 DEF IInv, OwnKey, Own, KeyFrom
<1> QED
  BY <1>1, <1>2, <1>5, <1>6 DEF IInv, Shape, Fresh, ReadFrom

\* A record that is written is of the key in hand.
LEMMA WriteInductive ==
    ASSUME IInv, Write
    PROVE  IInv'
<1> DEFINE order == WriteOrder(key.n, key.level)
           p == order[io]
<1>1. /\ pc = "write" /\ io <= Len(order) /\ io' = io + 1
      /\ UNCHANGED <<scheme, runs, n, pc, key>>
      /\ \/ /\ ~bad
            /\ file' = [r \in DOMAIN file \cup {io} |-> IF r = io THEN RecordOf(p) ELSE file[r]]
         \/ bad' = TRUE /\ file' = file
  BY DEF Write
<1>2. /\ scheme \in Schemes /\ runs \in Nat /\ n \in Sizes /\ io \in Nat \ {0}
      /\ key.n = n /\ key.level = Level /\ Level \in Nat
      /\ DOMAIN key.at = Places(n, Level) /\ KeyFrom(runs) /\ FileFrom(runs)
      /\ Len(file) \in Nat /\ DOMAIN file = 1 .. Len(file)
      /\ ~bad => io = Len(file) + 1
  BY <1>1, KeyFileAssumption DEF IInv, Shape, OwnKey, Own, Written
<1>3. p \in Places(n, Level) \cup Fields
  <2>1. order \in Seq(Places(n, Level) \cup Fields)
    BY <1>2, OrderPlaces
  <2> HIDE DEF order
  <2>2. Len(order) \in Nat /\ io \in 1 .. Len(order)
    BY <1>1, <1>2, <2>1, LenProperties
  <2> QED
    BY <2>1, <2>2, ElementOfSeq
<1> HIDE DEF order, p
<1>4. RecordFrom(RecordOf(p), runs)
  <2>1. CASE p \in Fields
    BY <1>2, <2>1 DEF Fields, FieldKinds, RecordOf, RecordFrom, N, Lvl, Rest
  <2>2. CASE p \notin Fields
    <3>1. p \in DOMAIN key.at /\ p[1] \notin FieldKinds
      BY <1>2, <1>3, <2>2, PlacesAreSpots
    <3>2. RecordOf(p) = [kind |-> p[1], value |-> key.at[p]]
      BY <2>2 DEF RecordOf, Fields
    <3> QED
      BY <1>2, <3>1, <3>2 DEF RecordFrom, FieldKinds, KeyFrom
  <2> QED
    BY <2>1, <2>2
<1>5. /\ Len(file') \in Nat /\ DOMAIN file' = 1 .. Len(file') /\ FileFrom(runs)'
      /\ ~bad' => io' = Len(file') + 1
  <2>1. CASE bad' = TRUE /\ file' = file
    BY <1>1, <1>2, <2>1 DEF FileFrom
  <2>2. CASE ~bad /\ file' = [r \in DOMAIN file \cup {io} |-> IF r = io THEN RecordOf(p) ELSE file[r]]
    <3>1. DOMAIN file \cup {io} = 1 .. io /\ DOMAIN file' = 1 .. io
      BY <1>2, <2>2
    <3>2. file' \in Seq({file'[r] : r \in DOMAIN file'})
      <4>1. io \in Nat /\ file' = [r \in 1 .. io |-> file'[r]]
        BY <1>2, <2>2, <3>1
      <4> QED
        BY <3>1, <4>1, OwnElements
    <3>3. Len(file') = io
      BY <1>2, <3>1, <3>2, LenProperties
    <3>4. FileFrom(runs)'
      BY <1>1, <1>2, <1>4, <2>2, <3>1 DEF FileFrom
    <3> QED
      BY <1>1, <1>2, <3>1, <3>3, <3>4
  <2> QED
    BY <1>1, <2>1, <2>2
<1>6. Written'
  BY <1>1, <1>5 DEF Written
<1>7. Places(n, Level)' = Places(n, Level)
  BY <1>1 DEF Places, FirstApart, HasSquare
<1>8. OwnKey'
  BY <1>1, <1>7 DEF IInv, OwnKey, Own, KeyFrom
<1>9. OneFile'
  BY <1>1, <1>2, <1>5 DEF OneFile
<1> QED
  BY <1>1, <1>2, <1>5, <1>6, <1>8, <1>9 DEF IInv, Shape, Fresh, ReadFrom

\* A record that is read is the file's or nobody's.
LEMMA ReadInductive ==
    ASSUME IInv, Read
    PROVE  IInv'
<1> DEFINE order == ReadOrder(n, key.level)
           p == order[io]
<1>1. /\ pc = "read" /\ pc' \in {"read", "failed"} /\ io <= Len(order) /\ io' = io + 1
      /\ UNCHANGED <<scheme, runs, n, file>>
      /\ \/ Aligned(p) /\ key' = Stored(p, file[io].value)
         \/ p \notin Fields /\ key' = Stored(p, Junk)
         \/ key' = key
         \/ p \in {N, Lvl} /\ \E v \in {0, Level + 1} : key' = Stored(p, v)
  BY DEF Read, Fields
<1>2. /\ scheme \in Schemes /\ n \in Sizes /\ io \in Nat \ {0} /\ key.level \in Nat /\ Level \in Nat
      /\ Len(file) \in Nat /\ DOMAIN file = 1 .. Len(file)
      /\ DOMAIN key = {"at", "n", "level"}
  BY <1>1, KeyFileAssumption DEF IInv, Shape
<1>3. p \in Places(n, key.level) \cup Fields
  <2>1. order \in Seq(Places(n, key.level) \cup Fields)
    BY <1>2, OrderPlaces
  <2> HIDE DEF order
  <2>2. Len(order) \in Nat /\ io \in 1 .. Len(order)
    BY <1>1, <1>2, <2>1, LenProperties
  <2> QED
    BY <2>1, <2>2, ElementOfSeq
<1> HIDE DEF order, p
<1>4. PICK g \in Int : FileFrom(g) /\ KeyFrom(g)
  BY <1>1 DEF IInv, ReadFrom
\* what may be stored
<1> DEFINE Allowed(x) ==
             /\ p \notin Fields => x.gen \in {-1, 0, g}
             /\ p = Lvl => x \in Nat
<1>5. ASSUME NEW x, Allowed(x), key' = Stored(p, x)
      PROVE  DOMAIN key' = {"at", "n", "level"} /\ key'.level \in Nat /\ KeyFrom(g)'
  <2>1. DOMAIN key' = {"at", "n", "level"}
    BY <1>5 DEF Stored
  <2>2. key'.level \in Nat
    BY <1>2, <1>5 DEF Stored, LevelFrom
  <2>3. KeyFrom(g)'
    <3>1. CASE p \in Fields
      BY <1>4, <1>5, <3>1 DEF Stored, Fields, KeyFrom
    <3>2. CASE p \notin Fields
      <4>1. key'.at = [q \in DOMAIN key.at \cup {p} |-> IF q = p THEN x ELSE key.at[q]]
        BY <1>5, <3>2 DEF Stored, Fields
      <4> QED
        BY <1>4, <1>5, <3>2, <4>1 DEF KeyFrom
    <3> QED
      BY <3>1, <3>2
  <2> QED
    BY <2>1, <2>2, <2>3
<1>6. Aligned(p) => Allowed(file[io].value)
  <2> SUFFICES ASSUME Aligned(p) PROVE Allowed(file[io].value)
    OBVIOUS
  <2>1. file[io].kind = p[1] /\ RecordFrom(file[io], g)
    BY <1>2, <1>4 DEF Aligned, FileFrom
  <2>2. p \notin Fields => p[1] \notin FieldKinds
    BY <1>2, <1>3, PlacesAreSpots
  <2>3. p = Lvl => p[1] = "level"
    BY DEF Lvl
  <2> QED
    BY <2>1, <2>2, <2>3 DEF RecordFrom
<1>7. p \notin Fields => Allowed(Junk)
  BY DEF Junk, Fields
<1>8. p \in {N, Lvl} => \A v \in {0, Level + 1} : Allowed(v)
  BY <1>2 DEF Fields
<1> HIDE DEF Allowed
<1>9. DOMAIN key' = {"at", "n", "level"} /\ key'.level \in Nat /\ KeyFrom(g)'
  <2>1. CASE key' = key
    BY <1>2, <1>4, <2>1 DEF KeyFrom
  <2>2. CASE key' # key
    BY <1>1, <1>5, <1>6, <1>7, <1>8, <2>2
  <2> QED
    BY <2>1, <2>2
<1>10. FileFrom(g)'
  BY <1>1, <1>4 DEF FileFrom
<1>11. OneFile' /\ ReadFrom'
  BY <1>9, <1>10 DEF OneFile, ReadFrom
<1> QED
  BY <1>1, <1>2, <1>9, <1>11 DEF IInv, Shape, OwnKey, Own, Written, Fresh

LEMMA LoadedInductive ==
    ASSUME IInv, Loaded
    PROVE  IInv'
<1>1. /\ pc = "read" /\ pc' = "loaded" /\ UNCHANGED <<scheme, runs, n, file, io>>
      /\ \E x : key' = [key EXCEPT !.n = x]
  BY DEF Loaded
<1>2. DOMAIN key' = {"at", "n", "level"} /\ key'.at = key.at /\ key'.level = key.level
  BY <1>1 DEF IInv, Shape
<1>3. OneFile' /\ ReadFrom'
  BY <1>1, <1>2 DEF IInv, OneFile, ReadFrom, FileFrom, KeyFrom
<1> QED
  BY <1>1, <1>2, <1>3 DEF IInv, Shape, OwnKey, Own, Written, Fresh

LEMMA NextInductive == IInv /\ [Next]_vars => IInv'
BY StartInductive, KillInductive, GenerateInductive, IdleInductive, OpenWriteInductive,
   WriteInductive, ReadInductive, LoadedInductive DEF Next

\* Whatever programs ran on the file, were killed in the middle of a save or failed,
\* and whatever sizes they had: a key that is loaded holds parts of one key only.
THEOREM KeysNeverMix == Spec => []NoMixture
<1>1. IInv => NoMixture
  <2> SUFFICES ASSUME IInv, pc = "loaded", NEW p \in DOMAIN key.at, NEW q \in DOMAIN key.at,
                      key.at[p].gen > 0, key.at[q].gen > 0
               PROVE  key.at[p].gen = key.at[q].gen
    BY DEF NoMixture
  <2>1. PICK g \in Int : KeyFrom(g)
    BY DEF IInv, ReadFrom
  <2> QED
    BY <2>1 DEF KeyFrom
<1> QED
  BY <1>1, InitInductive, NextInductive, PTL DEF Spec

(***************************************************************************)
(* Generation: while the tasks run, a place not yet written is that of a   *)
(* task that is outstanding or has thrown, or it is the square, which the  *)
(* program writes when it has joined them.                                 *)
(***************************************************************************)
Excused(p) == \E t \in threw : p \in Fills(t)

Filled ==
    /\ pc = "generate" =>
         \A p \in DOMAIN key.at :
            \/ key.at[p] = Content(p) \/ Excused(p) \/ p = <<"square">>
            \/ \E t \in tasks : p \in Fills(t)
    /\ pc \in {"generated", "write"} =>
         \A p \in DOMAIN key.at : key.at[p] = Content(p) \/ Excused(p)

\* Every place but the square is one that a task fills.
LEMMA TasksCover ==
    ASSUME scheme \in Schemes, NEW m \in Sizes, NEW p \in Places(m, Level), p # <<"square">>
    PROVE  \E t \in 0 .. m - 1 : p \in Fills(t)
<1> USE KeyFileAssumption
<1>1. scheme \in AllSchemes /\ m \in Nat /\ m > 1
  OBVIOUS
<1>2. CASE p = <<"first">>
  <2>1. FirstApart
    BY <1>1, <1>2 DEF Places, AllSchemes, FirstApart, Comps, Cells, CellPairs
  <2>2. p \in Fills(0)
    BY <1>2, <2>1 DEF Fills
  <2> QED
    BY <1>1, <2>2
<1>3. CASE ~FirstApart /\ p # <<"first">>
  <2>1. PICK c \in 1 .. m : p = <<"comp", c - 1>>
    BY <1>1, <1>3 DEF Places, AllSchemes, FirstApart, Comps
  <2>2. p \in Fills(c - 1)
    BY <1>3, <2>1 DEF Fills, FirstApart
  <2> QED
    BY <1>1, <2>1, <2>2
<1>4. CASE FirstApart /\ scheme \in {"opt", "lazy"} /\ p # <<"first">> /\ p[1] = "comp"
  <2>1. PICK c \in 1 .. m - 1 : p = <<"comp", c - 1>>
    BY <1>1, <1>4 DEF Places, FirstApart, Comps, Cells
  <2>2. p \in Fills(c)
    BY <1>4, <2>1 DEF Fills, FirstApart
  <2> QED
    BY <1>1, <2>1, <2>2
<1>5. CASE FirstApart /\ scheme \in {"lazy", "pipe"} /\ p # <<"first">> /\ p[1] # "comp"
  <2>1. \E c \in Nat : /\ c < (m - 1) * Level
                       /\ p = <<"A", c>> \/ (scheme = "pipe" /\ p = <<"B", c>>)
    <3>1. (m - 1) * Level \in Nat
      BY <1>1
    <3>2. CASE scheme = "lazy"
      <4>1. PICK c \in 1 .. (m - 1) * Level : p = <<"A", c - 1>>
        BY <1>5, <3>2 DEF Places, FirstApart, Comps, Cells
      <4> QED
        BY <3>1, <4>1
    <3>3. CASE scheme = "pipe"
      <4>1. PICK c \in 1 .. 2 * (m - 1) * Level : p = <<IF c % 2 = 1 THEN "A" ELSE "B", (c - 1) \div 2>>
        BY <1>5, <3>3 DEF Places, FirstApart, CellPairs
      <4>2. 2 * (m - 1) * Level = 2 * ((m - 1) * Level)
        BY <1>1
      <4>3. (c - 1) \div 2 \in Nat /\ (c - 1) \div 2 < (m - 1) * Level
        BY <3>1, <4>1, <4>2
      <4> QED
        BY <3>3, <4>1, <4>3
    <3> QED
      BY <1>5, <3>2, <3>3
  <2>2. PICK c \in Nat : /\ c < (m - 1) * Level
                         /\ p = <<"A", c>> \/ (scheme = "pipe" /\ p = <<"B", c>>)
    BY <2>1
  <2> DEFINE i == c \div Level
  <2>3. /\ i \in Nat /\ i < m - 1
        /\ c = i * Level + (c % Level) /\ c % Level \in 0 .. Level - 1
    BY <1>1, <2>2
  <2> HIDE DEF i
  <2>4. c \in {i * Level + lvl : lvl \in 0 .. Level - 1}
    BY <2>3
  <2>5. p \in Fills(i + 1)
    BY <1>5, <2>2, <2>3, <2>4 DEF Fills
  <2>6. i + 1 \in 0 .. m - 1
    BY <1>1, <2>3
  <2> QED
    BY <2>5, <2>6
<1> QED
  <2>1. /\ scheme = "opt" /\ p # <<"first">> => p[1] = "comp"
        /\ scheme = "pipe" => p[1] # "comp"
    BY <1>1 DEF Places, FirstApart, HasSquare, Comps, CellPairs
  <2> QED
    BY <1>1, <1>2, <1>3, <1>4, <1>5, <2>1 DEF FirstApart

LEMMA FilledInductive ==
    ASSUME IInv, Filled, [Next]_vars
    PROVE  Filled'
<1> USE DEF Filled
<1>1. ASSUME NEW m \in Sizes, NEW md, Start(m, md) PROVE Filled'
  <2>1. /\ scheme' = scheme /\ pc' \in {"open", "generate"}
        /\ pc' = "generate" => key' = Constructed(m) /\ tasks' = 0 .. m - 1
    BY <1>1 DEF Start
  <2>2. scheme \in Schemes
    BY DEF IInv, Shape
  <2>3. \A t : Fills(t)' = Fills(t)
    BY <2>1 DEF Fills, FirstApart
  <2>4. pc' = "generate" => DOMAIN key'.at = Places(m, Level)
    BY <2>1 DEF Constructed
  <2> QED
    BY <2>1, <2>2, <2>3, <2>4, TasksCover
<1>2. ASSUME NEW t \in tasks, Task(t) \/ TaskThrows(t) PROVE Filled'
  <2>1. /\ UNCHANGED <<scheme, runs, pc>> /\ pc = "generate"
        /\ tasks' = tasks \ {t} /\ threw \subseteq threw'
    BY <1>2 DEF Task, TaskThrows
  <2>2. \A u : Fills(u)' = Fills(u)
    BY <2>1 DEF Fills, FirstApart
  <2>3. \A p : Content(p)' = Content(p)
    BY <2>1 DEF Content, Secret, FirstApart
  <2>4. CASE Task(t)
    <3>1. /\ key'.at = [p \in DOMAIN key.at |-> IF p \in Fills(t) THEN Content(p) ELSE key.at[p]]
          /\ threw' = threw
      BY <2>4 DEF Task, IInv, Shape
    <3>2. DOMAIN key'.at = DOMAIN key.at
      BY <3>1
    <3>3. ASSUME NEW p \in DOMAIN key.at
          PROVE  \/ key'.at[p] = Content(p) \/ Excused(p) \/ p = <<"square">>
                 \/ \E u \in tasks' : p \in Fills(u)
      BY <2>1, <3>1
    <3>4. \A p : Excused(p)' = Excused(p)
      BY <2>2, <3>1 DEF Excused
    <3> QED
      BY <2>1, <2>2, <2>3, <3>2, <3>3, <3>4
  <2>5. CASE TaskThrows(t)
    <3>1. key' = key /\ threw' = threw \cup {t}
      BY <2>5 DEF TaskThrows
    <3>2. ASSUME NEW p \in DOMAIN key.at
          PROVE  \/ key.at[p] = Content(p) \/ Excused(p)' \/ p = <<"square">>
                 \/ \E u \in tasks' : p \in Fills(u)
      BY <2>1, <2>2, <3>1 DEF Excused
    <3> QED
      BY <2>1, <2>2, <2>3, <3>1, <3>2
  <2> QED
    BY <1>2, <2>4, <2>5
<1>3. ASSUME Joined PROVE Filled'
  <2>1. /\ UNCHANGED <<scheme, runs, threw>> /\ pc = "generate" /\ tasks = {} /\ pc' = "generated"
        /\ key' = IF HasSquare THEN [key EXCEPT !.at[<<"square">>] = Content(<<"square">>)] ELSE key
    BY <1>3 DEF Joined
  <2>2. \A p : Excused(p)' = Excused(p)
    BY <2>1 DEF Excused, Fills, FirstApart
  <2>3. \A p : Content(p)' = Content(p)
    BY <2>1 DEF Content, Secret, FirstApart
  <2>4. \A p \in DOMAIN key.at : key.at[p] = Content(p) \/ Excused(p) \/ p = <<"square">>
    BY <2>1
  <2>5. CASE HasSquare
    <3> DEFINE sq == <<"square">>
    <3>1. key' = [key EXCEPT !.at[sq] = Content(sq)] /\ "at" \in DOMAIN key
      BY <2>1, <2>5 DEF IInv, Shape
    <3> HIDE DEF sq
    <3>2. key'.at = [key.at EXCEPT ![sq] = Content(sq)]
      BY <3>1
    <3>3. DOMAIN key'.at = DOMAIN key.at
      BY <3>2
    <3>4. \A p \in DOMAIN key.at : key'.at[p] = Content(p) \/ Excused(p)
      BY <2>4, <3>2 DEF sq
    <3> QED
      BY <2>1, <2>2, <2>3, <3>3, <3>4
  <2>6. CASE ~HasSquare
    <3>1. <<"square">> \notin DOMAIN key.at
      <4>1. DOMAIN key.at = Places(n, Level)
        BY <2>1 DEF IInv, OwnKey, Own
      <4>2. \A p \in Places(n, Level) : p[1] # "square"
        BY <2>6, KeyFileAssumption DEF IInv, Shape, AllSchemes, Places, Comps, Cells, CellPairs
      <4> QED
        BY <4>1, <4>2
    <3> QED
      BY <2>1, <2>2, <2>3, <2>4, <2>6, <3>1
  <2> QED
    BY <2>5, <2>6
<1>4. ASSUME \/ pc' \notin {"generate", "generated", "write"}
             \/ /\ UNCHANGED <<scheme, runs, threw, key, tasks>>
                /\ pc' = pc \/ (pc = "generated" /\ pc' = "write")
      PROVE  Filled'
  <2>1. CASE pc' \notin {"generate", "generated", "write"}
    BY <2>1
  <2>2. CASE UNCHANGED <<scheme, runs, threw, key, tasks>> /\ (pc' = pc \/ (pc = "generated" /\ pc' = "write"))
    <3>1. /\ \A p : Excused(p)' = Excused(p)
          /\ \A p : Content(p)' = Content(p)
          /\ \A t : Fills(t)' = Fills(t)
      BY <2>2 DEF Excused, Fills, FirstApart, Content, Secret
    <3> QED
      BY <2>2, <3>1
  <2> QED
    BY <1>4, <2>1, <2>2
<1>5. ASSUME Stop \/ Kill \/ Reload \/ OpenRead \/ OpenWriteFails \/ Close \/ Read \/ Loaded
      PROVE  Filled'
  BY <1>4, <1>5 DEF Stop, Kill, Reload, OpenRead, OpenWriteFails, Close, Read, Loaded
<1>6. ASSUME OpenWrite \/ Write \/ UNCHANGED vars PROVE Filled'
  BY <1>4, <1>6 DEF OpenWrite, Write, vars
<1> QED
  BY <1>1, <1>2, <1>3, <1>5, <1>6 DEF Next

\* When the generation has been joined, every place holds the component that the
\* rotation turns it by, or its task has thrown: no gap, no place written twice.
THEOREM GenerationComplete == Spec => []GeneratedWhole
<1>1. Init => Filled
  BY DEF Init, Filled
<1>2. IInv /\ Filled => GeneratedWhole
  <2> SUFFICES ASSUME IInv, Filled, pc \in {"generated", "write"}, NEW p \in DOMAIN key.at, ~Excused(p)
               PROVE  /\ key.at[p].gen = runs
                      /\ p[1] = "comp" => key.at[p].of = <<p[2] + (IF FirstApart THEN 1 ELSE 0)>>
                      /\ p[1] \in {"A", "B"} => key.at[p].of = <<p[2] \div Level + 1, p[2] % Level>>
    BY DEF GeneratedWhole, Excused
  <2>1. key.at[p] = Content(p)
    BY DEF Filled
  <2>2. p \in Places(n, Level) /\ scheme \in AllSchemes
    BY KeyFileAssumption DEF IInv, OwnKey, Own, Shape
  <2>3. p[1] \in {"A", "B"} => FirstApart
    BY <2>2 DEF Places, AllSchemes, FirstApart, Comps
  <2>4. p[1] = "comp" => p[2] + 0 = p[2]
    <3>1. \A k : \A q \in {Comps(k)[c] : c \in DOMAIN Comps(k)} : q[2] \in Int
      BY DEF Comps
    <3>2. p[1] = "comp" => \E k : p \in {Comps(k)[c] : c \in DOMAIN Comps(k)}
      BY <2>2 DEF Places, AllSchemes, Cells, CellPairs
    <3> QED
      BY <3>1, <3>2
  <2> QED
    BY <2>1, <2>3, <2>4 DEF Content, Secret
<1> QED
  BY <1>1, <1>2, InitInductive, NextInductive, FilledInductive, PTL DEF Spec

(***************************************************************************)
(* Saving: the records written are the first of the order, and a save that *)
(* returns has written them all.                                           *)
(***************************************************************************)
RecordFor(m, at, p) ==
    [kind |-> p[1],
     value |-> CASE p = N -> m [] p = Lvl -> Level [] p = Rest -> 0 [] OTHER -> at[p]]

Prefix(m, at) ==
    LET order == WriteOrder(m, Level)
    IN  Len(file) <= Len(order) /\ \A r \in 1 .. Len(file) : file[r] = RecordFor(m, at, order[r])

Whole(m, at) == Prefix(m, at) /\ Len(file) = Len(WriteOrder(m, Level))

Wrote ==
    /\ pc = "write" /\ ~bad => Prefix(n, key.at)
    /\ pc = "saved" => Whole(n, key.at)

LEMMA SameRecord ==
    ASSUME IInv, pc \in Own, NEW p
    PROVE  RecordOf(p) = RecordFor(n, key.at, p)
<1>1. key.n = n /\ key.level = Level
  BY DEF IInv, OwnKey
<1> QED
  BY <1>1 DEF RecordOf, RecordFor

LEMMA WriteStep ==
    ASSUME IInv, Write, ~bad'
    PROVE  /\ ~bad /\ io = Len(file) + 1 /\ io <= Len(WriteOrder(n, Level)) /\ Len(file') = io
           /\ file' = [r \in 1 .. io |-> IF r = io THEN RecordFor(n, key.at, WriteOrder(n, Level)[io])
                                         ELSE file[r]]
<1>1. pc = "write" /\ key.n = n /\ key.level = Level
  BY DEF Write, IInv, OwnKey, Own
<1>2. /\ ~bad /\ io <= Len(WriteOrder(n, Level))
      /\ file' = [r \in DOMAIN file \cup {io} |-> IF r = io THEN RecordOf(WriteOrder(n, Level)[io]) ELSE file[r]]
  BY <1>1 DEF Write
<1>3. Len(file) \in Nat /\ DOMAIN file = 1 .. Len(file) /\ io = Len(file) + 1
  BY <1>1, <1>2 DEF IInv, Shape, Written
<1>4. DOMAIN file \cup {io} = 1 .. io /\ io \in Nat
  BY <1>3
<1>5. RecordOf(WriteOrder(n, Level)[io]) = RecordFor(n, key.at, WriteOrder(n, Level)[io])
  BY <1>1, SameRecord DEF Own
<1>6. file' = [r \in 1 .. io |-> IF r = io THEN RecordFor(n, key.at, WriteOrder(n, Level)[io]) ELSE file[r]]
  BY <1>2, <1>4, <1>5
<1>7. Len(file') = io
  <2>1. file' = [r \in 1 .. io |-> file'[r]] /\ DOMAIN file' = 1 .. io
    BY <1>6
  <2>2. file' \in Seq({file'[r] : r \in DOMAIN file'})
    BY <1>4, <2>1, OwnElements
  <2> QED
    BY <1>4, <2>1, <2>2, LenProperties
<1> QED
  BY <1>2, <1>3, <1>6, <1>7

LEMMA SameOrder ==
    ASSUME scheme' = scheme, NEW m, NEW level
    PROVE  WriteOrder(m, level)' = WriteOrder(m, level)
BY DEF WriteOrder

LEMMA WroteInductive ==
    ASSUME IInv, Wrote, [Next]_vars
    PROVE  Wrote'
<1>1. ASSUME OpenWrite PROVE Wrote'
  <2>1. pc' = "write" /\ Len(file') = 0 /\ n' = n
    BY <1>1 DEF OpenWrite, Truncated
  <2>2. Len(WriteOrder(n, Level)') \in Nat
    <3>1. scheme' = scheme /\ scheme \in Schemes /\ n \in Sizes /\ Level \in Nat
      BY <1>1, KeyFileAssumption DEF OpenWrite, IInv, Shape
    <3>2. WriteOrder(n, Level) \in Seq(Places(n, Level) \cup Fields)
      BY <3>1, OrderPlaces
    <3> QED
      BY <3>1, <3>2, SameOrder, LenProperties
  <2> QED
    BY <2>1, <2>2 DEF Wrote, Prefix
<1>2. ASSUME Write PROVE Wrote'
  <2>1. pc' = "write" /\ n' = n /\ key' = key /\ scheme' = scheme
    BY <1>2 DEF Write
  <2>2. WriteOrder(n, Level)' = WriteOrder(n, Level)
    BY <2>1, SameOrder
  <2>3. CASE ~bad'
    <3>1. Prefix(n, key.at)
      BY <1>2, <2>3, WriteStep DEF Write, Wrote
    <3>2. \A r \in 1 .. io - 1 : file[r] = RecordFor(n, key.at, WriteOrder(n, Level)[r])
      BY <1>2, <2>3, <3>1, WriteStep DEF Prefix, IInv, Shape
    <3>3. \A r \in 1 .. io : file'[r] = RecordFor(n, key.at, WriteOrder(n, Level)[r])
      BY <1>2, <2>3, <3>2, WriteStep DEF IInv, Shape
    <3>4. Len(file') = io /\ io <= Len(WriteOrder(n, Level))
      BY <1>2, <2>3, WriteStep
    <3> QED
      BY <2>1, <2>2, <3>3, <3>4 DEF Wrote, Prefix, RecordFor
  <2> QED
    BY <2>1, <2>3 DEF Wrote
<1>3. ASSUME Close PROVE Wrote'
  <2>1. /\ pc = "write" /\ pc' \in {"failed", "saved"}
        /\ pc' = "saved" => ~bad
        /\ UNCHANGED <<scheme, n, key, file, io>>
        /\ io > Len(WriteOrder(key.n, key.level))
    BY <1>3 DEF Close, Reported
  <2>2. WriteOrder(n, Level)' = WriteOrder(n, Level)
    BY <2>1, SameOrder
  <2>3. CASE pc' = "saved"
    <3>1. Prefix(n, key.at) /\ io = Len(file) + 1 /\ io > Len(WriteOrder(n, Level))
      BY <2>1, <2>3 DEF Wrote, IInv, Written, OwnKey, Own
    <3>2. Len(WriteOrder(n, Level)) \in Nat /\ Len(file) \in Nat
      <4>1. scheme \in Schemes /\ n \in Sizes /\ Level \in Nat
        BY <2>1, KeyFileAssumption DEF IInv, Shape
      <4> QED
        BY <4>1, OrderPlaces, LenProperties DEF IInv, Shape
    <3>3. Len(file) = Len(WriteOrder(n, Level))
      BY <3>1, <3>2 DEF Prefix
    <3> QED
      BY <2>1, <2>2, <2>3, <3>1, <3>3 DEF Wrote, Whole, Prefix, RecordFor
  <2> QED
    BY <2>1, <2>3 DEF Wrote
<1>4. ASSUME UNCHANGED <<scheme, pc, n, key, file, bad>> PROVE Wrote'
  BY <1>4, SameOrder DEF Wrote, Whole, Prefix, RecordFor
<1>5. ASSUME pc' \notin {"write", "saved"} PROVE Wrote'
  BY <1>5 DEF Wrote
<1>6. ASSUME NEW m \in Sizes, NEW md, Start(m, md) PROVE Wrote'
  BY <1>5, <1>6 DEF Start
<1>7. ASSUME NEW t \in tasks, Task(t) \/ TaskThrows(t) PROVE Wrote'
  BY <1>5, <1>7 DEF Task, TaskThrows
<1>8. ASSUME \/ Stop \/ Kill \/ Joined \/ OpenWriteFails \/ Reload \/ OpenRead \/ Read \/ Loaded
             \/ UNCHANGED vars
      PROVE  Wrote'
  BY <1>4, <1>5, <1>8 DEF Stop, Kill, Joined, OpenWriteFails, Reload, OpenRead, Read, Loaded, vars
<1> QED
  BY <1>1, <1>2, <1>3, <1>6, <1>7, <1>8 DEF Next

\* A save that returns has left every part of the key in the file.
THEOREM SavesReport == Spec => []SaveReports
<1>1. Init => Wrote
  BY DEF Init, Wrote
<1>2. IInv /\ Wrote => SaveReports
  <2> SUFFICES ASSUME IInv, Wrote, pc = "saved", NEW p \in DOMAIN key.at
               PROVE  \E r \in DOMAIN file : file[r] = RecordOf(p)
    BY DEF SaveReports
  <2>1. scheme \in Schemes /\ n \in Sizes /\ Level \in Nat /\ p \in Places(n, Level)
    BY KeyFileAssumption DEF IInv, Shape, OwnKey, Own
  <2> DEFINE order == WriteOrder(n, Level)
  <2>2. order \in Seq(Places(n, Level) \cup Fields) /\ p \in Range(order)
    BY <2>1, OrderPlaces
  <2>3. Whole(n, key.at) /\ DOMAIN file = 1 .. Len(file)
    BY DEF Wrote, IInv, Shape
  <2>4. Len(file) = Len(order) /\ \A r \in 1 .. Len(file) : file[r] = RecordFor(n, key.at, order[r])
    BY <2>3 DEF Whole, Prefix
  <2>5. RecordOf(p) = RecordFor(n, key.at, p)
    BY SameRecord DEF Own
  <2> HIDE DEF order
  <2>6. PICK r \in 1 .. Len(order) : order[r] = p
    BY <2>2, LenProperties DEF Range
  <2> QED
    BY <2>3, <2>4, <2>5, <2>6
<1> QED
  BY <1>1, <1>2, InitInductive, NextInductive, WroteInductive, PTL DEF Spec

(***************************************************************************)
(* Loading what was saved.  A program saves a key it has generated, so no  *)
(* place of it is junk; the file stays as the save left it until the next; *)
(* a load by the same n keeps in step with the file, since the order knows *)
(* the level when it comes to the records that depend on it.               *)
(***************************************************************************)
Functional(f) == f = [x \in DOMAIN f |-> f[x]]

Clean ==
    /\ Functional(key.at)
    /\ pc \in Own => \A p \in DOMAIN key.at : key.at[p] # Junk

Copy ==
    /\ pc = "write" => written = None
    /\ written # None =>
         /\ written.n \in Sizes
         /\ Functional(written.at) /\ DOMAIN written.at = Places(written.n, Level)
         /\ \A p \in DOMAIN written.at : written.at[p] # Junk
         /\ Whole(written.n, written.at)

LevelTold ==
    /\ scheme = "lazy" => key.level = Level \/ io <= 2
    /\ scheme = "pipe" => key.level = Level \/ io <= 1

Restored(p) ==
    /\ p \notin Fields => p \in DOMAIN key.at /\ key.at[p] = written.at[p]
    /\ p = N => key.n = n
    /\ p = Lvl => key.level = Level

InStep ==
    /\ ~bad /\ LevelTold
    /\ DOMAIN key.at \subseteq Places(n, Level)
    /\ \A r \in 1 .. Len(WriteOrder(n, Level)) : r < io => Restored(WriteOrder(n, Level)[r])

Restoring ==
    /\ pc = "open" => DOMAIN key.at \subseteq Places(n, Level)
    /\ pc = "read" /\ written # None /\ written.n = n => InStep
    /\ RoundTrip

LEMMA CleanInductive ==
    ASSUME IInv, Clean, [Next]_vars
    PROVE  Clean'
<1>1. ASSUME NEW m \in Sizes, NEW md, Start(m, md) PROVE Clean'
  <2>1. /\ key' \in {Default, Constructed(m)}
        /\ pc' \in Own => key' = Constructed(m)
    BY <1>1 DEF Start, Own
  <2>2. Functional(Default.at) /\ Functional(Constructed(m).at)
    BY DEF Functional, Default, Constructed
  <2>3. \A p \in DOMAIN Constructed(m).at : Constructed(m).at[p] # Junk
    BY DEF Constructed, Blank, Junk
  <2> QED
    BY <2>1, <2>2, <2>3 DEF Clean, Functional
<1>2. ASSUME Joined \/ \E t \in tasks : Task(t) PROVE Clean'
  <2>1. pc = "generate" /\ runs \in Nat /\ DOMAIN key = {"at", "n", "level"}
    BY <1>2 DEF Joined, Task, IInv, Shape
  <2>2. \A p : Content(p) # Junk
    BY <2>1 DEF Content, Junk
  <2>3. \A p \in DOMAIN key.at : key.at[p] # Junk
    BY <2>1 DEF Clean, Own
  <2>4. CASE \E t \in tasks : Task(t)
    <3>1. PICK t \in tasks : Task(t)
      BY <2>4
    <3>2. key'.at = [p \in DOMAIN key.at |-> IF p \in Fills(t) THEN Content(p) ELSE key.at[p]]
      BY <2>1, <3>1 DEF Task
    <3> QED
      BY <2>2, <2>3, <3>2 DEF Clean, Functional
  <2>5. CASE Joined
    <3> DEFINE sq == <<"square">>
    <3>1. \/ key' = key
          \/ key' = [key EXCEPT !.at[sq] = Content(sq)]
      BY <2>5 DEF Joined
    <3> HIDE DEF sq
    <3>2. CASE key' = key
      BY <2>3, <3>2 DEF Clean, Functional
    <3>3. CASE key' = [key EXCEPT !.at[sq] = Content(sq)]
      <4>1. key'.at = [key.at EXCEPT ![sq] = Content(sq)]
        BY <2>1, <3>3
      <4> QED
        BY <2>2, <2>3, <4>1 DEF Clean, Functional
    <3> QED
      BY <3>1, <3>2, <3>3
  <2> QED
    BY <1>2, <2>4, <2>5
<1>3. ASSUME Read PROVE Clean'
  <2>1. pc' \in {"read", "failed"} /\ (key' = key \/ \E p, v : key' = Stored(p, v))
    BY <1>3 DEF Read
  <2>2. ASSUME NEW p, NEW v, key' = Stored(p, v) PROVE Functional(key'.at)
    <3>1. key'.at = IF p \in {N, Lvl, Rest} THEN key.at
                    ELSE [q \in DOMAIN key.at \cup {p} |-> IF q = p THEN v ELSE key.at[q]]
      BY <2>2 DEF Stored
    <3> QED
      BY <3>1 DEF Functional, Clean
  <2> QED
    BY <2>1, <2>2 DEF Clean, Functional, Own
<1>4. ASSUME Loaded \/ Reload PROVE Clean'
  <2>1. pc' \notin Own /\ (key'.at = key.at \/ key' = Default)
    BY <1>4 DEF Loaded, Reload, Own, IInv, Shape
  <2> QED
    BY <2>1 DEF Clean, Functional, Default
<1>5. ASSUME key' = key, pc' \in Own => pc \in Own PROVE Clean'
  BY <1>5 DEF Clean, Functional
<1>6. ASSUME NEW t \in tasks, TaskThrows(t) PROVE Clean'
  BY <1>5, <1>6 DEF TaskThrows
<1>7. ASSUME Stop \/ Kill \/ OpenWrite \/ OpenWriteFails \/ Write \/ Close \/ OpenRead \/ UNCHANGED vars
      PROVE  Clean'
  BY <1>5, <1>7 DEF Stop, Kill, OpenWrite, OpenWriteFails, Write, Close, OpenRead, vars, Own
<1> QED
  BY <1>1, <1>2, <1>3, <1>4, <1>6, <1>7 DEF Next

LEMMA CopyInductive ==
    ASSUME IInv, Wrote, Clean, Copy, [Next]_vars
    PROVE  Copy'
<1>1. ASSUME UNCHANGED <<scheme, file, written>>, pc' = "write" => pc = "write" PROVE Copy'
  <2>1. /\ \A m, level : Places(m, level)' = Places(m, level)
        /\ \A m, level : WriteOrder(m, level)' = WriteOrder(m, level)
    BY <1>1 DEF Places, FirstApart, HasSquare, WriteOrder
  <2> QED
    BY <1>1, <2>1 DEF Copy, Functional, Whole, Prefix, RecordFor
<1>2. ASSUME written' = None PROVE Copy'
  BY <1>2 DEF Copy
<1>3. ASSUME OpenWrite \/ Write PROVE Copy'
  BY <1>2, <1>3 DEF OpenWrite, Write, Copy
<1>4. ASSUME Kill PROVE Copy'
  BY <1>1, <1>2, <1>4 DEF Kill, Copy
<1>5. ASSUME Close PROVE Copy'
  <2>1. CASE bad
    BY <1>2, <1>5, <2>1 DEF Close, Reported
  <2>2. CASE ~bad
    <3>1. /\ pc = "write" /\ pc' = "saved" /\ UNCHANGED <<scheme, n, key, file>>
          /\ written' = [kind |-> "file", n |-> n, at |-> key.at]
      BY <1>5, <2>2 DEF Close, Reported
    <3>2. written'.n = n /\ written'.at = key.at
      BY <3>1
    <3>3. Whole(n, key.at)'
      <4>1. Wrote'
        BY <1>5, WroteInductive DEF Next
      <4> QED
        BY <3>1, <4>1 DEF Wrote
    <3>4. n \in Sizes /\ DOMAIN key.at = Places(n, Level)
      BY <3>1 DEF IInv, Shape, OwnKey, Own
    <3>5. Places(n, Level)' = Places(n, Level)
      BY <3>1 DEF Places, FirstApart, HasSquare
    <3>6. Functional(key.at) /\ \A p \in DOMAIN key.at : key.at[p] # Junk
      BY <3>1 DEF Clean, Own
    <3>7. Whole(written.n, written.at)'
      BY <3>1, <3>2, <3>3 DEF Whole, Prefix
    <3>8. Places(written.n, Level)' = Places(n, Level)
      BY <3>1, <3>2, <3>5
    <3> QED
      BY <3>1, <3>2, <3>4, <3>6, <3>7, <3>8 DEF Copy, Functional
  <2> QED
    BY <2>1, <2>2
<1>6. ASSUME NEW m \in Sizes, NEW md, Start(m, md) PROVE Copy'
  BY <1>1, <1>6 DEF Start
<1>7. ASSUME NEW t \in tasks, Task(t) \/ TaskThrows(t) PROVE Copy'
  BY <1>1, <1>7 DEF Task, TaskThrows
<1>8. ASSUME \/ Stop \/ Joined \/ OpenWriteFails \/ Reload \/ OpenRead \/ Read \/ Loaded
             \/ UNCHANGED vars
      PROVE  Copy'
  BY <1>1, <1>8 DEF Stop, Joined, OpenWriteFails, Reload, OpenRead, Read, Loaded, vars
<1> QED
  BY <1>3, <1>4, <1>5, <1>6, <1>7, <1>8 DEF Next

\* The records before the level is told are the same for every level.
LEMMA FirstRecords ==
    ASSUME scheme \in Schemes, NEW m \in Sizes, NEW level \in Nat
    PROVE  /\ scheme = "lazy" =>
                /\ Len(WriteOrder(m, level)) >= 2
                /\ WriteOrder(m, level)[1] = <<"first">> /\ WriteOrder(m, level)[2] = <<"comp", 0>>
           /\ scheme = "pipe" =>
                Len(WriteOrder(m, level)) >= 1 /\ WriteOrder(m, level)[1] = Lvl
<1> DEFINE S == Places(m, level) \cup Fields
<1>1. m \in Nat /\ m - 1 \in Nat /\ m - 1 >= 1 /\ (m - 1) * level \in Nat /\ 2 * (m - 1) * level \in Nat
  BY SizeTypes, Products, KeyFileAssumption
<1>2. CASE scheme = "lazy"
  <2> DEFINE head == << <<"first">> >>
             cells == Cells(m - 1, level)
             front == head \o Comps(m - 1)
             body == front \o cells
             nlr == <<N, Lvl, Rest>>
  <2>1. Places(m, level) = {<<"first">>} \cup Range(Comps(m - 1)) \cup Range(cells)
    BY <1>2 DEF Places, HasSquare, FirstApart, Range
  <2>2. Comps(m - 1) \in Seq(S) /\ Len(Comps(m - 1)) = m - 1 /\ Comps(m - 1)[1] = <<"comp", 0>>
    <3>1. /\ DOMAIN Comps(m - 1) = 1 .. m - 1
          /\ Comps(m - 1) = [c \in 1 .. m - 1 |-> Comps(m - 1)[c]]
          /\ Comps(m - 1)[1] = <<"comp", 0>>
      BY <1>1 DEF Comps
    <3>2. Comps(m - 1) \in Seq(S)
      BY <1>1, <2>1, <3>1, OwnElements DEF Range
    <3> QED
      BY <1>1, <3>1, <3>2, LenProperties
  <2>3. cells \in Seq(S)
    <3>1. /\ DOMAIN cells = 1 .. (m - 1) * level
          /\ cells = [c \in 1 .. (m - 1) * level |-> cells[c]]
      BY DEF Cells
    <3> QED
      BY <1>1, <2>1, <3>1, OwnElements DEF Range
  <2>4. head \in Seq(S) /\ Len(head) = 1 /\ head[1] = <<"first">>
    BY <2>1
  <2>5. nlr \in Seq(S)
    BY DEF Fields
  <2>6. WriteOrder(m, level) = body \o nlr
    BY <1>2 DEF WriteOrder
  <2> HIDE DEF S, head, cells, nlr
  <2>7. front \in Seq(S) /\ Len(front) >= 2 /\ front[1] = <<"first">> /\ front[2] = <<"comp", 0>>
    <3>1. /\ front \in Seq(S) /\ Len(front) = Len(head) + Len(Comps(m - 1))
          /\ \A k \in 1 .. Len(head) + Len(Comps(m - 1)) :
               front[k] = IF k <= Len(head) THEN head[k] ELSE Comps(m - 1)[k - Len(head)]
      BY <2>2, <2>4, ConcatProperties
    <3> HIDE DEF front, head
    <3>2. 1 \in 1 .. Len(head) + Len(Comps(m - 1)) /\ 2 \in 1 .. Len(head) + Len(Comps(m - 1))
      BY <1>1, <2>2, <2>4
    <3>3. front[1] = head[1]
      BY <2>4, <3>1, <3>2
    <3>4. front[2] = Comps(m - 1)[1]
      <4>1. front[2] = Comps(m - 1)[2 - Len(head)] /\ 2 - Len(head) = 1
        BY <2>4, <3>1, <3>2
      <4> QED
        BY <4>1
    <3>5. Len(front) >= 2
      BY <1>1, <2>2, <2>4, <3>1
    <3> QED
      BY <2>2, <2>4, <3>1, <3>3, <3>4, <3>5
  <2> HIDE DEF front
  <2>8. body \in Seq(S) /\ Len(body) >= 2 /\ body[1] = <<"first">> /\ body[2] = <<"comp", 0>>
    <3>1. Len(front) \in Nat /\ Len(cells) \in Nat
      BY <2>3, <2>7, LenProperties
    <3> QED
      BY <2>3, <2>7, <3>1, ConcatProperties
  <2> HIDE DEF body
  <2>9. Len(body \o nlr) >= 2 /\ (body \o nlr)[1] = <<"first">> /\ (body \o nlr)[2] = <<"comp", 0>>
    <3>1. Len(body) \in Nat /\ Len(nlr) \in Nat
      BY <2>5, <2>8, LenProperties
    <3> QED
      BY <2>5, <2>8, <3>1, ConcatProperties
  <2> QED
    BY <1>2, <2>6, <2>9
<1>3. CASE scheme = "pipe"
  <2> DEFINE head == <<Lvl, <<"first">>, <<"square">> >>
             pairs == CellPairs(m - 1, level)
  <2>1. Places(m, level) = {<<"first">>, <<"square">>} \cup Range(pairs)
    BY <1>3 DEF Places, FirstApart, HasSquare, Range
  <2>2. pairs \in Seq(S)
    <3>1. /\ DOMAIN pairs = 1 .. 2 * (m - 1) * level
          /\ pairs = [c \in 1 .. 2 * (m - 1) * level |-> pairs[c]]
      BY DEF CellPairs
    <3> QED
      BY <1>1, <2>1, <3>1, OwnElements DEF Range
  <2>3. head \in Seq(S) /\ Len(head) = 3 /\ head[1] = Lvl
    BY <2>1 DEF Fields
  <2>4. WriteOrder(m, level) = head \o pairs
    BY <1>3 DEF WriteOrder
  <2> HIDE DEF S, head, pairs
  <2>5. Len(pairs) \in Nat
    BY <2>2, LenProperties
  <2> QED
    BY <1>3, <2>2, <2>3, <2>4, <2>5, ConcatProperties
<1> QED
  BY <1>2, <1>3

\* A reader that keeps in step reads the record that the writer wrote.
LEMMA OrderTold ==
    ASSUME IInv, n \in Sizes, LevelTold
    PROVE  /\ io <= Len(ReadOrder(n, key.level)) <=> io <= Len(WriteOrder(n, Level))
           /\ io <= Len(WriteOrder(n, Level)) => ReadOrder(n, key.level)[io] = WriteOrder(n, Level)[io]
<1>1. scheme \in Schemes /\ key.level \in Nat /\ Level \in Nat /\ io \in Nat \ {0}
  BY KeyFileAssumption DEF IInv, Shape
<1>2. ReadOrder(n, key.level) = WriteOrder(n, key.level)
  BY DEF ReadOrder, WriteOrder
<1>3. /\ WriteOrder(n, key.level) \in Seq(Places(n, key.level) \cup Fields)
      /\ WriteOrder(n, Level) \in Seq(Places(n, Level) \cup Fields)
  BY <1>1, OrderPlaces
<1>4. Len(WriteOrder(n, key.level)) \in Nat /\ Len(WriteOrder(n, Level)) \in Nat
  BY <1>3, LenProperties
<1>5. CASE key.level = Level \/ scheme \notin {"lazy", "pipe"}
  <2>1. WriteOrder(n, key.level) = WriteOrder(n, Level)
    BY <1>1, <1>5, KeyFileAssumption DEF WriteOrder, AllSchemes
  <2> QED
    BY <1>2, <2>1
<1>6. CASE scheme = "lazy" /\ io \in {1, 2}
  BY <1>1, <1>2, <1>4, <1>6, FirstRecords
<1>7. CASE scheme = "pipe" /\ io = 1
  BY <1>1, <1>2, <1>4, <1>7, FirstRecords
<1> QED
  BY <1>1, <1>5, <1>6, <1>7 DEF LevelTold

LEMMA InStepRead ==
    ASSUME IInv, Copy, InStep, Read, written # None, written.n = n
    PROVE  InStep' /\ pc' = "read"
<1> DEFINE order == WriteOrder(n, Level)
           p == order[io]
           v == RecordFor(n, written.at, p).value
<1>1. /\ scheme \in Schemes /\ n \in Sizes /\ io \in Nat \ {0} /\ key.level \in Nat /\ Level \in Nat
      /\ DOMAIN key = {"at", "n", "level"}
  BY KeyFileAssumption DEF Read, IInv, Shape
<1>2. io <= Len(order) /\ ReadOrder(n, key.level)[io] = p /\ pc = "read" /\ ~bad
  BY <1>1, OrderTold DEF Read, InStep
<1>3. order \in Seq(Places(n, Level) \cup Fields) /\ Len(order) \in Nat
  BY <1>1, OrderPlaces, LenProperties
<1>4. p \in Places(n, Level) \cup Fields
  <2> HIDE DEF order
  <2> QED
    BY <1>1, <1>2, <1>3, ElementOfSeq
<1>5. file[io] = RecordFor(n, written.at, p) /\ io <= Len(file)
  BY <1>1, <1>2, <1>3 DEF Copy, Whole, Prefix
<1>6. Aligned(p)
  BY <1>2, <1>5 DEF Aligned, RecordFor
<1>7. /\ key' = Stored(p, v) /\ io' = io + 1 /\ pc' = "read" /\ bad' = bad
      /\ UNCHANGED <<scheme, n, written>>
  BY <1>2, <1>5, <1>6 DEF Read
<1>8. /\ p = N => v = n
      /\ p = Lvl => v = Level
      /\ p \notin Fields => v = written.at[p] /\ v # Junk /\ p \in Places(n, Level)
  BY <1>4 DEF RecordFor, N, Lvl, Rest, Fields, Copy
<1>9. p \notin Fields => p[1] \notin FieldKinds
  BY <1>1, <1>4, PlacesAreSpots
<1> HIDE DEF order, p, v
<1>10. /\ p \in Fields => key'.at = key.at
       /\ p \notin Fields =>
            key'.at = [q \in DOMAIN key.at \cup {p} |-> IF q = p THEN v ELSE key.at[q]]
       /\ key'.n = IF p = N THEN v ELSE IF scheme = "pipeAlt" THEN n ELSE key.n
       /\ key'.level = LevelFrom(p, v)
  BY <1>7 DEF Stored, Fields
<1>11. key.level = Level \/ p = Lvl => key'.level = Level
  <2>1. p = <<"comp", 0>> => v # Junk
    <3>1. p = <<"comp", 0>> => p \notin Fields
      BY DEF Fields, N, Lvl, Rest
    <3> QED
      BY <1>8, <3>1
  <2>2. Lvl # <<"comp", 0>>
    BY DEF Lvl
  <2> QED
    BY <1>8, <1>10, <2>1, <2>2 DEF LevelFrom
<1>12. LevelTold'
  <2>1. CASE key.level = Level
    BY <1>7, <1>11, <2>1 DEF LevelTold
  <2>2. CASE scheme = "lazy" /\ io <= 2 /\ key.level # Level
    <3>1. CASE io = 1
      BY <1>7, <2>2, <3>1 DEF LevelTold
    <3>2. CASE io = 2
      <4>1. p = <<"comp", 0>>
        BY <1>1, <2>2, <3>2, FirstRecords DEF p, order
      <4>2. p \notin Fields
        BY <4>1 DEF Fields, N, Lvl, Rest
      <4> QED
        BY <1>7, <1>8, <1>10, <2>2, <4>1, <4>2 DEF LevelFrom, LevelTold
    <3> QED
      BY <1>1, <2>2, <3>1, <3>2
  <2>3. CASE scheme = "pipe" /\ io <= 1
    <3>1. io = 1 /\ p = Lvl
      BY <1>1, <2>3, FirstRecords DEF p, order
    <3> QED
      BY <1>7, <1>11, <2>3, <3>1 DEF LevelTold
  <2>4. CASE scheme \notin {"lazy", "pipe"}
    BY <1>7, <2>4 DEF LevelTold
  <2> QED
    BY <2>1, <2>2, <2>3, <2>4 DEF InStep, LevelTold
<1>13. order' = order /\ Places(n, Level)' = Places(n, Level)
  BY <1>7 DEF order, WriteOrder, Places, FirstApart, HasSquare
<1>14. DOMAIN key'.at \subseteq Places(n, Level)
  BY <1>8, <1>10 DEF InStep
<1>15. ASSUME NEW r \in 1 .. Len(order), r < io + 1
       PROVE  Restored(order[r])'
  <2> DEFINE q == order[r]
  <2>1. CASE r = io
    <3>1. q = p
      BY <2>1 DEF p
    <3> HIDE DEF q
    <3>2. p = N => p # Lvl /\ p \in Fields
      BY DEF N, Lvl, Fields
    <3>3. p = Lvl => p \in Fields
      BY DEF Fields
    <3>4. /\ q \notin Fields => q \in DOMAIN key'.at /\ key'.at[q] = written.at[q]
          /\ q = N => key'.n = n
          /\ q = Lvl => key'.level = Level
      BY <1>8, <1>10, <1>11, <3>1, <3>2, <3>3
    <3> QED
      BY <1>7, <1>13, <3>4 DEF Restored, q
  <2>2. CASE r < io
    <3>1. Restored(q)
      BY <2>2 DEF InStep, order
    <3>2. q \notin Fields => q \in DOMAIN key'.at /\ key'.at[q] = written.at[q]
      BY <1>8, <1>10, <3>1 DEF Restored
    <3>3. q = N => key'.n = n
      BY <1>8, <1>10, <3>1 DEF Restored
    <3>4. q = Lvl => key'.level = Level
      BY <1>11, <3>1 DEF Restored
    <3> QED
      BY <1>7, <1>13, <3>2, <3>3, <3>4 DEF Restored
  <2> QED
    BY <1>1, <1>15, <2>1, <2>2
<1> QED
  BY <1>2, <1>7, <1>12, <1>13, <1>14, <1>15 DEF InStep, order

LEMMA RestoringInductive ==
    ASSUME IInv, Clean, Copy, Restoring, [Next]_vars
    PROVE  Restoring'
<1>1. ASSUME pc' \notin {"open", "read", "loaded"} PROVE Restoring'
  BY <1>1 DEF Restoring, RoundTrip
<1>2. ASSUME UNCHANGED vars PROVE Restoring'
  <2>1. /\ \A m, level : Places(m, level)' = Places(m, level)
        /\ \A m, level : WriteOrder(m, level)' = WriteOrder(m, level)
    BY <1>2 DEF vars, Places, FirstApart, HasSquare, WriteOrder
  <2> QED
    BY <1>2, <2>1 DEF vars, Restoring, RoundTrip, InStep, LevelTold, Restored
<1>3. ASSUME NEW m \in Sizes, NEW md, Start(m, md) PROVE Restoring'
  <2>1. /\ pc' \in {"open", "generate"} /\ key' \in {Default, Constructed(m)}
        /\ n' = m /\ scheme' = scheme
    BY <1>3 DEF Start
  <2>2. Places(m, Level)' = Places(m, Level)
    BY <2>1, SamePlaces
  <2>3. DOMAIN key'.at \subseteq Places(m, Level)
    BY <2>1 DEF Default, Constructed
  <2> QED
    BY <2>1, <2>2, <2>3 DEF Restoring, RoundTrip
<1>4. ASSUME Reload PROVE Restoring'
  BY <1>4 DEF Reload, Default, Restoring, RoundTrip
<1>5. ASSUME OpenRead PROVE Restoring'
  <2>1. /\ pc' \in {"failed", "read"} /\ io' = 1 /\ bad' = FALSE /\ UNCHANGED <<scheme, n, key, written>>
        /\ pc = "open"
    BY <1>5 DEF OpenRead
  <2>2. Places(n, Level)' = Places(n, Level)
    BY <2>1 DEF Places, FirstApart, HasSquare
  <2>3. LevelTold'
    BY <2>1 DEF LevelTold
  <2>4. \A r \in 1 .. Len(WriteOrder(n, Level))' : ~(r < 1)
    OBVIOUS
  <2> QED
    BY <2>1, <2>2, <2>3, <2>4 DEF Restoring, InStep, RoundTrip
<1>6. ASSUME Read PROVE Restoring'
  <2>1. pc = "read" /\ pc' \in {"read", "failed"} /\ written' = written /\ n' = n
    BY <1>6 DEF Read
  <2>2. written # None /\ written.n = n => InStep'
    BY <1>6, <2>1, InStepRead DEF Restoring
  <2> QED
    BY <2>1, <2>2 DEF Restoring, RoundTrip
<1>7. ASSUME Loaded PROVE Restoring'
  <2>1. /\ pc = "read" /\ pc' = "loaded" /\ io > Len(ReadOrder(n, key.level))
        /\ UNCHANGED <<scheme, n, written>>
        /\ key' = [key EXCEPT !.n = IF scheme = "pipeAlt" THEN n ELSE key.n]
    BY <1>7 DEF Loaded
  <2>2. /\ key'.at = key.at /\ key'.level = key.level
        /\ key'.n = IF scheme = "pipeAlt" THEN n ELSE key.n
    BY <2>1 DEF IInv, Shape
  <2>3. ASSUME written # None, written.n = n
        PROVE  /\ key.at = written.at
               /\ scheme \in {"lazy", "pipe", "pipeAlt"} => key.level = Level
               /\ scheme \notin {"pipe", "pipeAlt"} => key.n = n
    <3>1. InStep /\ scheme \in Schemes /\ n \in Sizes /\ io \in Nat /\ Level \in Nat /\ key.level \in Nat
      BY <2>1, <2>3, KeyFileAssumption DEF Restoring, IInv, Shape
    <3> DEFINE order == WriteOrder(n, Level)
    <3>2. /\ order \in Seq(Places(n, Level) \cup Fields) /\ Len(order) \in Nat
          /\ ReadOrder(n, key.level) \in Seq(Places(n, key.level) \cup Fields)
          /\ Places(n, Level) \cup FieldsOf \subseteq Range(order)
      BY <3>1, OrderPlaces, LenProperties
    <3>3. Len(ReadOrder(n, key.level)) \in Nat
      BY <3>2, LenProperties
    <3>4. ~(io <= Len(order))
      BY <2>1, <3>1, <3>3, OrderTold DEF InStep
    <3>5. \A r \in 1 .. Len(order) : Restored(order[r])
      BY <3>1, <3>2, <3>4 DEF InStep
    <3> HIDE DEF order
    <3>6. \A q \in Places(n, Level) \cup FieldsOf : Restored(q)
      BY <3>2, <3>5, LenProperties DEF Range
    <3>7. \A q \in Places(n, Level) : q \in DOMAIN key.at /\ key.at[q] = written.at[q]
      <4>1. \A q \in Places(n, Level) : q \notin Fields
        <5>1. \A q \in Places(n, Level) : q[1] \notin FieldKinds
          BY <3>1, PlacesAreSpots
        <5>2. \A q \in Fields : q[1] \in FieldKinds
          BY DEF Fields, FieldKinds, N, Lvl, Rest
        <5> QED
          BY <5>1, <5>2
      <4> QED
        BY <3>6, <4>1 DEF Restored
    <3>8. DOMAIN key.at = Places(n, Level) /\ DOMAIN written.at = Places(n, Level)
      BY <2>3, <3>1, <3>7 DEF InStep, Copy
    <3>9. key.at = written.at
      BY <2>3, <3>7, <3>8 DEF Clean, Copy, Functional
    <3> QED
      BY <3>6, <3>9 DEF FieldsOf, Restored
  <2> QED
    BY <2>1, <2>2, <2>3 DEF Restoring, RoundTrip
<1>8. ASSUME NEW t \in tasks, Task(t) \/ TaskThrows(t) PROVE Restoring'
  BY <1>1, <1>8 DEF Task, TaskThrows
<1>9. ASSUME Stop \/ Kill \/ Joined \/ OpenWrite \/ OpenWriteFails \/ Write \/ Close PROVE Restoring'
  BY <1>1, <1>9 DEF Stop, Kill, Joined, OpenWrite, OpenWriteFails, Write, Close
<1> QED
  BY <1>2, <1>3, <1>4, <1>5, <1>6, <1>7, <1>8, <1>9 DEF Next

\* A key loaded by the number of components it was saved with is the one saved, place
\* by place, whatever ran, was killed or failed in between.
THEOREM LoadsWhatWasSaved == Spec => []RoundTrip
<1>1. Init => Wrote /\ Clean /\ Copy /\ Restoring
  BY DEF Init, Wrote, Clean, Copy, Restoring, RoundTrip, Functional, Default, Own
<1>2. Restoring => RoundTrip
  BY DEF Restoring
<1> QED
  BY <1>1, <1>2, InitInductive, NextInductive, WroteInductive, CleanInductive, CopyInductive,
     RestoringInductive, PTL DEF Spec

=============================================================================
